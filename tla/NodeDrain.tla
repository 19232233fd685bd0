------------------------------- MODULE NodeDrain -------------------------------
(***************************************************************************)
(* Draining the node before an upgrade: finalizePxOciInstall around        *)
(* switchOciInstall (src/px-oci-mon/main.go), DrainPxVolumeConsumerPods    *)
(* (utils/kubernetes.go), the drain operations of the REST servlet         *)
(* (utils/servlet.go), and the sched-ops functions they call.              *)
(*                                                                         *)
(* Drainers list the pods that use PX volumes, cordon the node, delete the *)
(* pods and wait for them to go.  The installer uncordons the node after   *)
(* its switch; a drain asked for over REST leaves the cordon to its caller.*)
(* Meanwhile the scheduler places pods on an uncordoned node, pods go, and *)
(* an administrator cordons and uncordons as well.                         *)
(***************************************************************************)
EXTENDS Naturals

CONSTANTS
    Pods,         \* the pods with PX volumes there may be, each used once
    Managed,      \* those that a controller owns
    DrainAll,     \* --drain-all (over REST: drain or drain-managed)
    FaultKinds,   \* what may fail
    MaxFaults,    \* bound: failures in a behaviour
    MaxRounds,    \* bound: drains each drainer starts
    MaxEdits      \* bound: cordons and uncordons by an administrator

Kinds == {"list", "lookup", "cordon", "delete", "timeout", "uncordon"}

ASSUME PodsAssumption == Managed \subseteq Pods
ASSUME DrainAssumption == DrainAll \in BOOLEAN
ASSUME KindsAssumption == FaultKinds \subseteq Kinds
ASSUME BoundsAssumption == MaxFaults \in Nat /\ MaxRounds \in Nat /\ MaxEdits \in Nat

Drainers == {"installer", "rest"}
Admin    == "admin"

VARIABLES
    pod,        \* each pod: unborn, running, terminating, gone
    cordoned,   \* Spec.Unschedulable of the node
    at,         \* where each drainer is
    todo,       \* the pods it drains
    left,       \* those it has not deleted, or not seen gone
    drained,    \* did the installer's drain succeed?
    holds,      \* history: who has cordoned the node and still wants it so
    meddled,    \* history: has anyone but the installer touched the cordon?
    faults, rounds, edits    \* spent of each bound

vars == <<pod, cordoned, at, todo, left, drained, holds, meddled, faults,
          rounds, edits>>

OnNode == {p \in Pods : pod[p] \in {"running", "terminating"}}

Fault(kind) == kind \in FaultKinds /\ faults < MaxFaults /\ faults' = faults + 1
Ok == UNCHANGED faults

Init == /\ pod \in [Pods -> {"unborn", "running"}]
        /\ cordoned = FALSE
        /\ at = [d \in Drainers |-> "idle"]
        /\ todo = [d \in Drainers |-> {}]
        /\ left = [d \in Drainers |-> {}]
        /\ drained = FALSE
        /\ holds = {}
        /\ meddled = FALSE
        /\ faults = 0 /\ edits = 0
        /\ rounds = [d \in Drainers |-> 0]

\* DrainPxVolumeConsumerPods returns to the installer, which switches in any
\* case, or to the REST handler.
Return(d, ok) == /\ at' = [at EXCEPT ![d] = IF d = "installer" THEN "switch"
                                            ELSE "idle"]
                 /\ drained' = IF d = "installer" THEN ok ELSE drained

\* Faulty variant: a drain starts while one is under way.
StartOver(d) ==
    /\ rounds' = [rounds EXCEPT ![d] = @ + 1]
    /\ at' = [at EXCEPT ![d] = "list"]
    /\ UNCHANGED <<pod, cordoned, todo, left, drained, holds, meddled, faults, edits>>

\* A drain starts: an upgrade that needs a reboot, or a POST.
Start(d) ==
    /\ at[d] = "idle"
    /\ rounds[d] < MaxRounds
    /\ rounds' = [rounds EXCEPT ![d] = @ + 1]
    /\ at' = [at EXCEPT ![d] = "list"]
    /\ UNCHANGED <<pod, cordoned, todo, left, drained, holds, meddled, faults, edits>>

\* The pods on the node that use PX volumes, or the managed ones among them.
\* A pod whose claim cannot be looked up is left out without an error.  With
\* none, the drain is over and the node is not cordoned.
List(d) ==
    /\ at[d] = "list"
    /\ \/ \E unseen \in SUBSET OnNode :
          \E all \in (IF d = "installer" THEN {DrainAll} ELSE BOOLEAN) :
             LET seen == OnNode \ unseen
                 pods == IF all THEN seen ELSE seen \intersect Managed
             IN /\ IF unseen = {} THEN Ok ELSE Fault("lookup")
                /\ todo' = [todo EXCEPT ![d] = pods]
                /\ left' = [left EXCEPT ![d] = pods]
                /\ IF pods = {} THEN Return(d, TRUE)
                   ELSE at' = [at EXCEPT ![d] = "cordon"] /\ UNCHANGED drained
       \/ Fault("list") /\ Return(d, FALSE) /\ UNCHANGED <<todo, left>>
    /\ UNCHANGED <<pod, cordoned, holds, meddled, rounds, edits>>

Cordon(d) ==
    /\ at[d] = "cordon"
    /\ \/ /\ cordoned' = TRUE
          /\ holds' = holds \union {d}
          /\ meddled' = (meddled \/ d # "installer")
          /\ at' = [at EXCEPT ![d] = "delete"]
          /\ UNCHANGED drained
          /\ Ok
       \/ /\ Fault("cordon")
          /\ Return(d, FALSE)
          /\ UNCHANGED <<cordoned, holds, meddled>>
    /\ UNCHANGED <<pod, todo, left, rounds, edits>>

\* DeletePods goes over the list; deleting a pod that is gone is an error.
DeletePod(d) ==
    /\ at[d] = "delete"
    /\ \E p \in left[d] :
          \/ /\ pod[p] # "gone"
             /\ pod' = [pod EXCEPT ![p] = "terminating"]
             /\ LET rest == left[d] \ {p} IN
                IF rest = {}
                THEN /\ at' = [at EXCEPT ![d] = "wait"]
                     /\ left' = [left EXCEPT ![d] = todo[d]]
                ELSE left' = [left EXCEPT ![d] = rest] /\ UNCHANGED at
             /\ Ok
          \/ /\ at' = [at EXCEPT ![d] = "rollback"]
             /\ IF pod[p] = "gone" THEN Ok ELSE Fault("delete")
             /\ UNCHANGED <<pod, left>>
    /\ UNCHANGED <<cordoned, todo, drained, holds, meddled, rounds, edits>>

\* Faulty variant: the cordon of a failed deletion stays.
RollbackForgets(d) ==
    /\ at[d] = "rollback"
    /\ holds' = holds \ {d}
    /\ Return(d, FALSE)
    /\ Ok
    /\ UNCHANGED <<pod, cordoned, todo, left, meddled, rounds, edits>>

\* DrainPodsFromNode rolls its cordon back when a deletion failed.
RollbackCordon(d) ==
    /\ at[d] = "rollback"
    /\ \/ cordoned' = FALSE /\ Ok
       \/ UNCHANGED cordoned /\ Fault("uncordon")
    /\ holds' = holds \ {d}
    /\ Return(d, FALSE)
    /\ UNCHANGED <<pod, todo, left, meddled, rounds, edits>>

\* Faulty variants: the first pod that goes ends the wait; the cordon is lifted
\* when the pods are gone, not after the switch; the wait is for an empty node.
WaitFirst(d) ==
    /\ at[d] = "wait"
    /\ \E p \in left[d] : pod[p] = "gone"
    /\ Return(d, TRUE)
    /\ Ok
    /\ UNCHANGED <<pod, cordoned, holds, todo, left, meddled, rounds, edits>>

WaitUncordons(d) ==
    /\ at[d] = "wait"
    /\ \A p \in left[d] : pod[p] = "gone"
    /\ Return(d, TRUE)
    /\ cordoned' = FALSE
    /\ holds' = holds \ {d}
    /\ Ok
    /\ UNCHANGED <<pod, todo, left, meddled, rounds, edits>>

WaitEmpty(d) ==
    /\ at[d] = "wait"
    /\ OnNode = {}
    /\ Return(d, TRUE)
    /\ Ok
    /\ UNCHANGED <<pod, cordoned, holds, todo, left, meddled, rounds, edits>>

\* WaitForPodDeletion, one pod after the other.  A timeout is an error, and
\* the cordon stays.
WaitPod(d) ==
    /\ at[d] = "wait"
    /\ \E p \in left[d] :
          \/ /\ pod[p] = "gone"
             /\ left' = [left EXCEPT ![d] = @ \ {p}]
             /\ IF left[d] = {p} THEN Return(d, TRUE) ELSE UNCHANGED <<at, drained>>
             /\ UNCHANGED holds
             /\ Ok
          \/ /\ pod[p] # "gone"
             /\ Fault("timeout")
             /\ Return(d, FALSE)
             /\ holds' = holds \ {d}
             /\ UNCHANGED left
    /\ UNCHANGED <<pod, cordoned, todo, meddled, rounds, edits>>

\* switchOciInstall and the restart are over: finalizePxOciInstall uncordons
\* the node, whoever cordoned it, if its drain reported success.
Finish ==
    /\ at["installer"] = "switch"
    /\ at' = [at EXCEPT !["installer"] = "idle"]
    /\ \/ ~drained /\ UNCHANGED cordoned /\ Ok
       \/ drained /\ cordoned' = FALSE /\ Ok
       \/ drained /\ UNCHANGED cordoned /\ Fault("uncordon")
    /\ holds' = holds \ {"installer"}
    /\ drained' = FALSE
    /\ UNCHANGED <<pod, todo, left, meddled, rounds, edits>>

-----------------------------------------------------------------------------
\* The scheduler places a pod; a pod goes, told to by a drain or by others.
Schedule == /\ ~cordoned
            /\ \E p \in Pods : pod[p] = "unborn" /\ pod' = [pod EXCEPT ![p] = "running"]
            /\ UNCHANGED <<cordoned, at, todo, left, drained, holds, meddled, faults,
                           rounds, edits>>

PodGoes == /\ \E p \in Pods : /\ pod[p] = "terminating"
                              /\ pod' = [pod EXCEPT ![p] = "gone"]
           /\ UNCHANGED <<cordoned, at, todo, left, drained, holds, meddled, faults,
                          rounds, edits>>

PodRemoved == /\ \E p \in Pods : /\ pod[p] = "running"
                                 /\ pod' = [pod EXCEPT ![p] = "gone"]
              /\ UNCHANGED <<cordoned, at, todo, left, drained, holds, meddled,
                             faults, rounds, edits>>

\* kubectl cordon and uncordon.
AdminEdit == /\ edits < MaxEdits
             /\ edits' = edits + 1
             /\ cordoned' = ~cordoned
             /\ holds' = IF cordoned' THEN holds \union {Admin} ELSE {}
             /\ meddled' = TRUE
             /\ UNCHANGED <<pod, at, todo, left, drained, faults, rounds>>

Drain(d) == \/ List(d) \/ Cordon(d) \/ DeletePod(d) \/ RollbackCordon(d) \/ WaitPod(d)

\* Nobody drains any more.
Rest == /\ \A d \in Drainers : at[d] = "idle" /\ rounds[d] = MaxRounds
        /\ UNCHANGED vars

Next == \/ \E d \in Drainers : Start(d) \/ Drain(d)
        \/ Finish \/ Schedule \/ PodGoes \/ PodRemoved \/ AdminEdit \/ Rest

Spec == Init /\ [][Next]_vars

\* Each drainer is a goroutine; the kubelet ends pods that are to be deleted.
Fairness == /\ \A d \in Drainers : WF_vars(Drain(d))
            /\ WF_vars(Finish)
            /\ WF_vars(PodGoes)

FairSpec == Spec /\ Fairness

-----------------------------------------------------------------------------
TypeOK ==
    /\ pod \in [Pods -> {"unborn", "running", "terminating", "gone"}]
    /\ cordoned \in BOOLEAN
    /\ at \in [Drainers -> {"idle", "list", "cordon", "delete", "rollback", "wait",
                            "switch"}]
    /\ todo \in [Drainers -> SUBSET Pods]
    /\ left \in [Drainers -> SUBSET Pods]
    /\ drained \in BOOLEAN
    /\ holds \in SUBSET (Drainers \union {Admin})
    /\ meddled \in BOOLEAN
    /\ faults \in 0..MaxFaults
    /\ rounds \in [Drainers -> 0..MaxRounds]
    /\ edits \in 0..MaxEdits

\* While the installer switches after a drain that reported success, none of
\* the pods it set out to drain is on the node, whoever else drains, and
\* whichever of them went before it was their turn.
SwitchDrained ==
    at["installer"] = "switch" /\ drained =>
       \A p \in todo["installer"] : p \notin OnNode

\* As long as only the installer cordons, the node is cordoned exactly while
\* its drain or the switch after it wants it so: neither a failed nor a
\* successful upgrade leaves a cordon behind, and none is lifted early.
CordonBalanced == ~meddled => (cordoned <=> holds # {})

\* No pod is placed on the node during a switch whose drain had something to
\* drain and succeeded, as long as only the installer cordons.
KeptOut ==
    [][at["installer"] = "switch" /\ drained /\ todo["installer"] # {} /\ ~meddled
         => \A p \in Pods : pod[p] = "unborn" => pod'[p] = "unborn"]_vars

\* Every drain of the installer comes to its end, and so does the upgrade.
DrainEnds == at["installer"] = "list" ~> at["installer"] = "idle"
=============================================================================

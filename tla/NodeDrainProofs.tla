---------------------------- MODULE NodeDrainProofs ----------------------------
(***************************************************************************)
(* What holds of NodeDrain for any pods and any bounds: its type, that a   *)
(* switch after a successful drain finds none of the drained pods on the   *)
(* node whatever fails, and, when neither a wait nor an uncordon fails,    *)
(* that the installer's cordon lasts exactly as long as it is wanted.      *)
(***************************************************************************)
EXTENDS NodeDrain, TLAPS

\* The installer is a drainer, and the REST servlet the only other one.
LEMMA DrainerFacts == /\ "installer" \in Drainers /\ "rest" \in Drainers
                      /\ \A d \in Drainers : d = "installer" \/ d = "rest"
  BY DEF Drainers

\* The initial states have their types.
LEMMA InitType == Init => TypeOK
  <1> SUFFICES ASSUME Init PROVE TypeOK
    OBVIOUS
  <1>1. pod \in [Pods -> {"unborn", "running", "terminating", "gone"}]
    BY DEF Init
  <1>2. faults \in 0..MaxFaults /\ edits \in 0..MaxEdits
    BY BoundsAssumption DEF Init
  <1>3. rounds \in [Drainers -> 0..MaxRounds]
    BY BoundsAssumption DEF Init
  <1>4. todo \in [Drainers -> SUBSET Pods] /\ left \in [Drainers -> SUBSET Pods]
    BY DEF Init
  <1> QED
    BY <1>1, <1>2, <1>3, <1>4 DEF Init, TypeOK

\* The budget of failures is respected by a step that fails and by one that
\* does not.
LEMMA FaultType ==
  ASSUME faults \in 0..MaxFaults, Ok \/ \E k \in Kinds : Fault(k)
  PROVE  faults' \in 0..MaxFaults
  BY BoundsAssumption DEF Ok, Fault

\* Returning from a drain leaves the control variables typed.
LEMMA ReturnType ==
  ASSUME TypeOK, NEW d \in Drainers, NEW ok \in BOOLEAN, Return(d, ok)
  PROVE  /\ at' \in [Drainers -> {"idle", "list", "cordon", "delete", "rollback",
                                  "wait", "switch"}]
         /\ drained' \in BOOLEAN
  BY DEF TypeOK, Return

\* What listing the pods comes to: some pods of the node are to be drained, or
\* the drain is over.
LEMMA Listing ==
  ASSUME NEW d \in Drainers, List(d)
  PROVE  /\ at[d] = "list"
         /\ \/ \E pods \in SUBSET OnNode :
                  /\ todo' = [todo EXCEPT ![d] = pods]
                  /\ left' = [left EXCEPT ![d] = pods]
                  /\ \/ pods = {} /\ Return(d, TRUE)
                     \/ /\ pods # {}
                        /\ at' = [at EXCEPT ![d] = "cordon"]
                        /\ UNCHANGED drained
            \/ Return(d, FALSE) /\ UNCHANGED <<todo, left>>
  <1>1. CASE Fault("list") /\ Return(d, FALSE) /\ UNCHANGED <<todo, left>>
    BY <1>1 DEF List
  <1>2. CASE ~(Fault("list") /\ Return(d, FALSE) /\ UNCHANGED <<todo, left>>)
    <2>1. PICK unseen \in SUBSET OnNode,
               all \in (IF d = "installer" THEN {DrainAll} ELSE BOOLEAN) :
             LET seen == OnNode \ unseen
                 pods == IF all THEN seen ELSE seen \intersect Managed
             IN /\ todo' = [todo EXCEPT ![d] = pods]
                /\ left' = [left EXCEPT ![d] = pods]
                /\ IF pods = {} THEN Return(d, TRUE)
                   ELSE at' = [at EXCEPT ![d] = "cordon"] /\ UNCHANGED drained
      BY <1>2 DEF List
    <2> DEFINE pods == IF all THEN OnNode \ unseen
                       ELSE (OnNode \ unseen) \intersect Managed
    <2>2. pods \in SUBSET OnNode
      OBVIOUS
    <2>3. /\ todo' = [todo EXCEPT ![d] = pods]
          /\ left' = [left EXCEPT ![d] = pods]
          /\ IF pods = {} THEN Return(d, TRUE)
             ELSE at' = [at EXCEPT ![d] = "cordon"] /\ UNCHANGED drained
      BY <2>1
    <2> HIDE DEF pods
    <2> QED
      BY <2>2, <2>3 DEF List
  <1> QED
    BY <1>1, <1>2

\* Every step preserves the type invariant.
LEMMA StepType == TypeOK /\ [Next]_vars => TypeOK'
  <1> SUFFICES ASSUME TypeOK, [Next]_vars PROVE TypeOK'
    OBVIOUS
  <1>1. ASSUME NEW d \in Drainers, Start(d) PROVE TypeOK'
    BY <1>1, BoundsAssumption DEF Start, TypeOK
  <1>2. ASSUME NEW d \in Drainers, List(d) PROVE TypeOK'
    <2>1. faults' \in 0..MaxFaults
      BY <1>2, FaultType DEF List, TypeOK, Kinds
    <2>2. /\ at' \in [Drainers -> {"idle", "list", "cordon", "delete", "rollback",
                                   "wait", "switch"}]
          /\ drained' \in BOOLEAN
      <3>1. CASE Return(d, TRUE) \/ Return(d, FALSE)
        BY <3>1, ReturnType
      <3>2. CASE at' = [at EXCEPT ![d] = "cordon"] /\ UNCHANGED drained
        BY <3>2 DEF TypeOK
      <3> QED
        BY <1>2, <3>1, <3>2, Listing
    <2>3. todo' \in [Drainers -> SUBSET Pods] /\ left' \in [Drainers -> SUBSET Pods]
      <3>1. CASE UNCHANGED <<todo, left>>
        BY <3>1 DEF TypeOK
      <3>2. ASSUME NEW pods \in SUBSET OnNode,
                   todo' = [todo EXCEPT ![d] = pods], left' = [left EXCEPT ![d] = pods]
            PROVE  todo' \in [Drainers -> SUBSET Pods] /\ left' \in [Drainers -> SUBSET Pods]
        <4>1. pods \in SUBSET Pods
          BY DEF OnNode
        <4> QED
          BY <3>2, <4>1 DEF TypeOK
      <3> QED
        BY <1>2, <3>1, <3>2, Listing
    <2> QED
      BY <1>2, <2>1, <2>2, <2>3 DEF List, TypeOK
  <1>3. ASSUME NEW d \in Drainers, Cordon(d) PROVE TypeOK'
    <2>1. faults' \in 0..MaxFaults
      BY <1>3, FaultType DEF Cordon, TypeOK, Kinds
    <2> QED
      BY <1>3, <2>1, ReturnType DEF Cordon, TypeOK
  <1>4. ASSUME NEW d \in Drainers, DeletePod(d) PROVE TypeOK'
    <2>1. faults' \in 0..MaxFaults
      BY <1>4, FaultType DEF DeletePod, TypeOK, Kinds
    <2> QED
      BY <1>4, <2>1 DEF DeletePod, TypeOK
  <1>5. ASSUME NEW d \in Drainers, RollbackCordon(d) PROVE TypeOK'
    <2>1. faults' \in 0..MaxFaults
      BY <1>5, FaultType DEF RollbackCordon, TypeOK, Kinds
    <2> QED
      BY <1>5, <2>1, ReturnType DEF RollbackCordon, TypeOK
  <1>6. ASSUME NEW d \in Drainers, WaitPod(d) PROVE TypeOK'
    <2>1. faults' \in 0..MaxFaults
      BY <1>6, FaultType DEF WaitPod, TypeOK, Kinds
    <2> QED
      BY <1>6, <2>1, ReturnType DEF WaitPod, TypeOK
  <1>7. CASE Finish
    <2>1. faults' \in 0..MaxFaults
      BY <1>7, FaultType DEF Finish, TypeOK, Kinds
    <2> QED
      BY <1>7, <2>1 DEF Finish, TypeOK
  <1>8. CASE Schedule \/ PodGoes \/ PodRemoved
    BY <1>8 DEF Schedule, PodGoes, PodRemoved, TypeOK
  <1>9. CASE AdminEdit
    BY <1>9, BoundsAssumption DEF AdminEdit, TypeOK, Admin
  <1>10. CASE UNCHANGED vars
    BY <1>10 DEF vars, TypeOK
  <1> QED
    BY <1>1, <1>2, <1>3, <1>4, <1>5, <1>6, <1>7, <1>8, <1>9, <1>10 DEF Next, Drain, Rest

\* Every variable has its type in every reachable state, for any set of pods.
THEOREM TypeCorrect == Spec => []TypeOK
  <1> QED
    BY InitType, StepType, PTL DEF Spec

-----------------------------------------------------------------------------
\* Why SwitchDrained holds: a pod the installer no longer waits for is gone for
\* good, in its wait and in the switch after it.
WaitedFor == at["installer"] = "wait" =>
                \A p \in todo["installer"] \ left["installer"] : pod[p] = "gone"
AllGone   == at["installer"] = "switch" /\ drained =>
                \A p \in todo["installer"] : pod[p] = "gone"
DrainInv  == TypeOK /\ WaitedFor /\ AllGone

\* Every step preserves it.
LEMMA DrainStep == DrainInv /\ [Next]_vars => DrainInv'
  <1> SUFFICES ASSUME DrainInv, [Next]_vars PROVE WaitedFor' /\ AllGone'
    BY StepType DEF DrainInv
  <1> USE DEF WaitedFor, AllGone
  <1>0. TypeOK /\ WaitedFor /\ AllGone
    BY DEF DrainInv
  <1>1. ASSUME NEW d \in Drainers, Start(d) PROVE WaitedFor' /\ AllGone'
    BY <1>0, <1>1, DrainerFacts DEF Start, TypeOK
  <1>2. ASSUME NEW d \in Drainers, List(d) PROVE WaitedFor' /\ AllGone'
    <2>1. CASE d = "installer"
      <3>1. at["installer"] = "list" /\ UNCHANGED pod
        BY <1>2, <2>1 DEF List
      <3>2. CASE Return(d, FALSE)
        BY <1>0, <2>1, <3>2, DrainerFacts DEF Return, TypeOK
      <3>3. ASSUME NEW pods \in SUBSET OnNode,
                   todo' = [todo EXCEPT ![d] = pods], pods = {}, Return(d, TRUE)
            PROVE  WaitedFor' /\ AllGone'
        BY <1>0, <2>1, <3>3, DrainerFacts DEF Return, TypeOK
      <3>4. CASE at' = [at EXCEPT ![d] = "cordon"]
        BY <1>0, <2>1, <3>4, DrainerFacts DEF TypeOK
      <3> QED
        BY <1>2, <3>2, <3>3, <3>4, Listing
    <2>2. CASE d # "installer"
      <3>1. UNCHANGED <<todo["installer"], left["installer"], at["installer"], drained, pod>>
        BY <1>0, <1>2, <2>2, Listing, DrainerFacts DEF Return, TypeOK, List
      <3> QED
        BY <1>0, <3>1
    <2> QED
      BY <2>1, <2>2
  <1>3. ASSUME NEW d \in Drainers, Cordon(d) PROVE WaitedFor' /\ AllGone'
    BY <1>0, <1>3, DrainerFacts DEF Cordon, Return, TypeOK
  <1>4. ASSUME NEW d \in Drainers, DeletePod(d) PROVE WaitedFor' /\ AllGone'
    BY <1>0, <1>4, DrainerFacts DEF DeletePod, TypeOK
  <1>5. ASSUME NEW d \in Drainers, RollbackCordon(d) PROVE WaitedFor' /\ AllGone'
    BY <1>0, <1>5, DrainerFacts DEF RollbackCordon, Return, TypeOK
  <1>6. ASSUME NEW d \in Drainers, WaitPod(d) PROVE WaitedFor' /\ AllGone'
    <2>1. /\ UNCHANGED <<pod, todo>> /\ at[d] = "wait"
          /\ left \in [Drainers -> SUBSET Pods] /\ DOMAIN at = Drainers
          /\ at = [e \in Drainers |-> at[e]]
      BY <1>0, <1>6 DEF WaitPod, TypeOK
    <2>2. CASE d # "installer"
      <3>1. UNCHANGED <<left["installer"], at["installer"], drained>>
        BY <1>6, <2>1, <2>2, DrainerFacts DEF WaitPod, Return
      <3> QED
        BY <1>0, <2>1, <3>1
    <2>3. CASE d = "installer"
      <3>1. PICK p \in left[d] :
               \/ /\ pod[p] = "gone" /\ left' = [left EXCEPT ![d] = @ \ {p}]
                  /\ \/ left[d] = {p} /\ Return(d, TRUE)
                     \/ left[d] # {p} /\ UNCHANGED <<at, drained>>
               \/ Return(d, FALSE) /\ UNCHANGED left
        BY <1>6 DEF WaitPod
      <3>2. CASE Return(d, FALSE) /\ UNCHANGED left
        BY <2>1, <2>3, <3>2, DrainerFacts DEF Return
      <3>3. CASE /\ pod[p] = "gone" /\ left' = [left EXCEPT ![d] = @ \ {p}]
                 /\ left[d] = {p} /\ Return(d, TRUE)
        BY <1>0, <2>1, <2>3, <3>3, DrainerFacts DEF Return
      <3>4. CASE /\ pod[p] = "gone" /\ left' = [left EXCEPT ![d] = @ \ {p}]
                 /\ UNCHANGED <<at, drained>>
        BY <1>0, <2>1, <2>3, <3>4, DrainerFacts
      <3> QED
        BY <3>1, <3>2, <3>3, <3>4
    <2> QED
      BY <2>2, <2>3
  <1>7. CASE Finish
    BY <1>0, <1>7, DrainerFacts DEF Finish, TypeOK
  <1>8. CASE Schedule \/ PodGoes \/ PodRemoved
    BY <1>0, <1>8, DrainerFacts DEF Schedule, PodGoes, PodRemoved, TypeOK
  <1>9. CASE AdminEdit
    BY <1>0, <1>9 DEF AdminEdit
  <1>10. CASE UNCHANGED vars
    BY <1>0, <1>10 DEF vars
  <1> QED
    BY <1>1, <1>2, <1>3, <1>4, <1>5, <1>6, <1>7, <1>8, <1>9, <1>10 DEF Next, Drain, Rest

\* No drained pod is on the node during the switch, whichever calls fail,
\* whoever else drains or cordons, and however many pods there are.
THEOREM DrainCorrect == Spec => []SwitchDrained
  <1>1. Init => DrainInv
    BY InitType, DrainerFacts DEF Init, DrainInv, WaitedFor, AllGone
  <1>2. DrainInv => SwitchDrained
    BY DrainerFacts DEF DrainInv, AllGone, SwitchDrained, TypeOK, OnNode
  <1> QED
    BY <1>1, <1>2, DrainStep, PTL DEF Spec

-----------------------------------------------------------------------------
\* Why CordonBalanced holds when no wait and no uncordon fails: the installer
\* holds the cordon from its Cordon to its rollback or to the end of the switch.
SafeCordon == {"timeout", "uncordon"} \intersect FaultKinds = {}

Cordoning == \/ at["installer"] \in {"delete", "rollback", "wait"}
             \/ at["installer"] = "switch" /\ drained /\ todo["installer"] # {}
OnlyMine  == ~meddled => /\ holds = IF Cordoning THEN {"installer"} ELSE {}
                         /\ cordoned = Cordoning
RestMeddles == at["rest"] \in {"delete", "rollback", "wait"} => meddled
SomeToDo  == at["installer"] \in {"cordon", "delete", "rollback", "wait"} =>
                todo["installer"] # {}
Born      == \A d \in Drainers : \A p \in todo[d] \union left[d] : pod[p] # "unborn"

CordonInv == TypeOK /\ OnlyMine /\ RestMeddles /\ SomeToDo /\ Born

\* No pod in the hands of a drain was ever unborn again.
LEMMA BornStep == CordonInv /\ [Next]_vars => Born'
  <1> SUFFICES ASSUME CordonInv, [Next]_vars PROVE Born'
    OBVIOUS
  <1> USE DEF Born
  <1>0. TypeOK /\ Born
    BY DEF CordonInv
  <1>1. ASSUME NEW d \in Drainers, Start(d) PROVE Born'
    BY <1>0, <1>1 DEF Start
  <1>2. ASSUME NEW d \in Drainers, List(d) PROVE Born'
    <2>1. UNCHANGED pod
      BY <1>2 DEF List
    <2>2. CASE UNCHANGED <<todo, left>>
      BY <1>0, <2>1, <2>2
    <2>3. ASSUME NEW pods \in SUBSET OnNode,
                 todo' = [todo EXCEPT ![d] = pods], left' = [left EXCEPT ![d] = pods]
          PROVE  Born'
      <3>1. \A p \in pods : pod[p] # "unborn"
        BY DEF OnNode
      <3> QED
        BY <1>0, <2>1, <2>3, <3>1 DEF TypeOK
    <2> QED
      BY <1>2, <2>2, <2>3, Listing
  <1>3. ASSUME NEW d \in Drainers, Cordon(d) \/ RollbackCordon(d) PROVE Born'
    BY <1>0, <1>3 DEF Cordon, RollbackCordon
  <1>4. ASSUME NEW d \in Drainers, DeletePod(d) PROVE Born'
    BY <1>0, <1>4 DEF DeletePod, TypeOK
  <1>5. ASSUME NEW d \in Drainers, WaitPod(d) PROVE Born'
    BY <1>0, <1>5 DEF WaitPod, TypeOK
  <1>6. CASE Finish \/ AdminEdit \/ UNCHANGED vars
    BY <1>0, <1>6 DEF Finish, AdminEdit, vars
  <1>7. CASE Schedule \/ PodGoes \/ PodRemoved
    BY <1>0, <1>7 DEF Schedule, PodGoes, PodRemoved, TypeOK
  <1> QED
    BY <1>1, <1>2, <1>3, <1>4, <1>5, <1>6, <1>7 DEF Next, Drain, Rest

\* Every step preserves who holds the cordon.
LEMMA CordonStep ==
  ASSUME SafeCordon, CordonInv, [Next]_vars
  PROVE  OnlyMine' /\ RestMeddles' /\ SomeToDo'
  <1> USE DEF OnlyMine, RestMeddles, SomeToDo, Cordoning
  <1>0. TypeOK /\ OnlyMine /\ RestMeddles /\ SomeToDo
    BY DEF CordonInv
  <1>1. ASSUME NEW d \in Drainers, Start(d)
        PROVE  OnlyMine' /\ RestMeddles' /\ SomeToDo'
    BY <1>0, <1>1, DrainerFacts DEF Start, TypeOK
  <1>2. ASSUME NEW d \in Drainers, List(d)
        PROVE  OnlyMine' /\ RestMeddles' /\ SomeToDo'
    <2>1. at[d] = "list" /\ UNCHANGED <<cordoned, holds, meddled>>
      BY <1>2 DEF List
    <2>2. CASE Return(d, FALSE) /\ UNCHANGED <<todo, left>>
      BY <1>0, <2>1, <2>2, DrainerFacts DEF Return, TypeOK
    <2>3. ASSUME NEW pods \in SUBSET OnNode,
                 todo' = [todo EXCEPT ![d] = pods], pods = {}, Return(d, TRUE)
          PROVE  OnlyMine' /\ RestMeddles' /\ SomeToDo'
      BY <1>0, <2>1, <2>3, DrainerFacts DEF Return, TypeOK
    <2>4. ASSUME NEW pods \in SUBSET OnNode,
                 todo' = [todo EXCEPT ![d] = pods], pods # {},
                 at' = [at EXCEPT ![d] = "cordon"], UNCHANGED drained
          PROVE  OnlyMine' /\ RestMeddles' /\ SomeToDo'
      BY <1>0, <2>1, <2>4, DrainerFacts DEF TypeOK
    <2> QED
      BY <1>2, <2>2, <2>3, <2>4, Listing
  <1>3. ASSUME NEW d \in Drainers, Cordon(d)
        PROVE  OnlyMine' /\ RestMeddles' /\ SomeToDo'
    BY <1>0, <1>3, DrainerFacts DEF Cordon, Return, TypeOK
  <1>4. ASSUME NEW d \in Drainers, DeletePod(d)
        PROVE  OnlyMine' /\ RestMeddles' /\ SomeToDo'
    <2>1. /\ at[d] = "delete" /\ UNCHANGED <<cordoned, holds, todo, drained, meddled>>
          /\ \/ UNCHANGED at
             \/ at' = [at EXCEPT ![d] = "wait"]
             \/ at' = [at EXCEPT ![d] = "rollback"]
      BY <1>4 DEF DeletePod
    <2> QED
      BY <1>0, <2>1, DrainerFacts DEF TypeOK
  <1>5. ASSUME NEW d \in Drainers, RollbackCordon(d)
        PROVE  OnlyMine' /\ RestMeddles' /\ SomeToDo'
    <2>1. cordoned' = FALSE
      BY <1>5 DEF RollbackCordon, SafeCordon, Fault
    <2> QED
      BY <1>0, <1>5, <2>1, DrainerFacts DEF RollbackCordon, Return, TypeOK
  <1>6. ASSUME NEW d \in Drainers, WaitPod(d)
        PROVE  OnlyMine' /\ RestMeddles' /\ SomeToDo'
    <2>1. /\ at[d] = "wait" /\ UNCHANGED <<cordoned, holds, todo, meddled>>
          /\ Return(d, TRUE) \/ UNCHANGED <<at, drained>>
      BY <1>6 DEF WaitPod, SafeCordon, Fault
    <2> QED
      BY <1>0, <2>1, DrainerFacts DEF Return, TypeOK
  <1>7. CASE Finish
    <2>1. drained => cordoned' = FALSE
      BY <1>7 DEF Finish, SafeCordon, Fault
    <2> QED
      BY <1>0, <1>7, <2>1, DrainerFacts DEF Finish, TypeOK
  <1>8. CASE Schedule \/ PodGoes \/ PodRemoved
    <2>1. UNCHANGED <<cordoned, at, todo, drained, holds, meddled>>
      BY <1>8 DEF Schedule, PodGoes, PodRemoved
    <2> QED
      BY <1>0, <2>1
  <1>9. CASE AdminEdit
    BY <1>0, <1>9 DEF AdminEdit
  <1>10. CASE UNCHANGED vars
    BY <1>0, <1>10 DEF vars
  <1> QED
    BY <1>1, <1>2, <1>3, <1>4, <1>5, <1>6, <1>7, <1>8, <1>9, <1>10 DEF Next, Drain, Rest

\* The initial states satisfy the invariant.
LEMMA InitCordon == Init => CordonInv
  BY InitType, DrainerFacts
     DEF Init, CordonInv, OnlyMine, Cordoning, RestMeddles, SomeToDo, Born

\* No upgrade leaves a cordon behind and none is lifted early, for any pods and
\* bounds, if the waits for pods and the uncordons succeed.
THEOREM CordonCorrect ==
  ASSUME SafeCordon
  PROVE  Spec => []CordonBalanced
  <1>1. CordonInv /\ [Next]_vars => CordonInv'
    BY CordonStep, BornStep, StepType DEF CordonInv
  <1>2. CordonInv => CordonBalanced
    BY DEF CordonInv, OnlyMine, CordonBalanced
  <1> QED
    BY InitCordon, <1>1, <1>2, PTL DEF Spec

\* No pod is placed on the node while its pods are drained for a switch.
THEOREM KeepsOut ==
  ASSUME SafeCordon
  PROVE  Spec => KeptOut
  <1>1. CordonInv /\ [Next]_vars => CordonInv'
    BY CordonStep, BornStep, StepType DEF CordonInv
  <1>2. CordonInv /\ [Next]_vars =>
          [at["installer"] = "switch" /\ drained /\ todo["installer"] # {} /\ ~meddled
             => \A p \in Pods : pod[p] = "unborn" => pod'[p] = "unborn"]_vars
    <2> SUFFICES ASSUME CordonInv, Next, at["installer"] = "switch", drained,
                        todo["installer"] # {}, ~meddled, NEW p \in Pods,
                        pod[p] = "unborn"
                 PROVE  pod'[p] = "unborn" \/ UNCHANGED vars
      OBVIOUS
    <2>1. TypeOK /\ cordoned /\ Born
      BY DEF CordonInv, OnlyMine, Cordoning
    <2>2. ASSUME NEW d \in Drainers, DeletePod(d) PROVE pod'[p] = "unborn"
      BY <2>1, <2>2 DEF DeletePod, Born, TypeOK
    <2>3. CASE PodGoes \/ PodRemoved
      BY <2>1, <2>3 DEF PodGoes, PodRemoved, TypeOK
    <2>4. ~Schedule
      BY <2>1 DEF Schedule
    <2>5. ASSUME NEW d \in Drainers,
                 Start(d) \/ List(d) \/ Cordon(d) \/ RollbackCordon(d) \/ WaitPod(d)
          PROVE  pod'[p] = "unborn"
      BY <2>5 DEF Start, List, Cordon, RollbackCordon, WaitPod
    <2>6. CASE Finish \/ AdminEdit
      BY <2>6 DEF Finish, AdminEdit
    <2> QED
      BY <2>2, <2>3, <2>4, <2>5, <2>6 DEF Next, Drain, Rest
  <1> QED
    BY InitCordon, <1>1, <1>2, PTL DEF Spec, KeptOut
=============================================================================

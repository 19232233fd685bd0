------------------------------ MODULE LabelWatch ------------------------------
(***************************************************************************)
(* How px-oci-mon follows the labels of its node: main() and               *)
(* watchNodeLabels of src/px-oci-mon/main.go on the node watch of          *)
(* sched-ops.                                                              *)
(*                                                                         *)
(* The label px/enabled (true, false, remove) says whether Portworx is to  *)
(* be on the node, px/service asks for a systemctl command.  Each update   *)
(* of the node object, a label edit or the kubelet's heartbeat, is an      *)
(* event that holds the object as it was then; every watch queues the      *)
(* events and hands them to watchNodeLabels one at a time.  A handler that *)
(* installs, removes or restarts Portworx takes long: the label it acts on *)
(* may be stale, and the events it delays will be.                         *)
(*                                                                         *)
(* What an install does to the node is modelled in OciSwitch; here it      *)
(* succeeds or fails.                                                      *)
(***************************************************************************)
EXTENDS Naturals, Sequences

CONSTANTS
    Services,     \* the values of px/service that are set
    BootLabels,   \* the values of px/enabled the monitor may start with
    FaultKinds,   \* what may fail
    MaxFaults,    \* bound: failures in a behaviour
    MaxEdits,     \* bound: label edits by users
    MaxCloses,    \* bound: watches the API server closes
    MaxQueue      \* bound: a heartbeat is skipped when that many events wait

Kinds == {"boot", "install", "exit", "uninstall", "label", "service", "watch", "crash"}
Enablements == {"true", "false", "remove"}

ASSUME ServicesAssumption ==
    Services \subseteq {"start", "stop", "restart", "enable", "disable"}
ASSUME LabelsAssumption == BootLabels \subseteq Enablements
ASSUME KindsAssumption == FaultKinds \subseteq Kinds
ASSUME BoundsAssumption == /\ MaxFaults \in Nat /\ MaxEdits \in Nat
                           /\ MaxCloses \in Nat /\ MaxQueue \in Nat

NoService == "none"
Watches == {1, 2}     \* the WatchNode of a disabled node, and that of every start

VARIABLES
    label,           \* the labels of the node object
    main,            \* where main() is
    meNode,          \* the node object as main() found it
    watch,           \* each watch: none, open, closed, or given up
    queue,           \* its events, as they arrived
    at,              \* where its handler is, between the effects of a callback
    event,           \* the event in hand
    lastPxDisabled, lastServiceCmd,   \* the globals of main.go
    present,         \* is Portworx installed?
    failed,          \* history: did the last install by a watch fail?
    faults, edits, closes             \* spent of each bound

watching == <<watch, queue, at, event>>
memory   == <<lastPxDisabled, lastServiceCmd>>
spent    == <<faults, edits, closes>>
vars     == <<label, main, meNode, watching, memory, present, failed, spent>>

Labels == [enabled : Enablements, svc : Services \union {NoService}]

Disabled(l) == l.enabled # "true"              \* IsPxDisabled
UninstallRequested(l) == l.enabled = "remove"  \* IsUninstallRequested

Fault(kind) == kind \in FaultKinds /\ faults < MaxFaults /\ faults' = faults + 1
Ok == UNCHANGED faults

\* The process is gone with its watches and globals; the DaemonSet starts it
\* again.
Die == /\ main' = "boot"
       /\ watch' = [w \in Watches |-> "none"]
       /\ queue' = [w \in Watches |-> <<>>]
       /\ at' = [w \in Watches |-> "idle"]
       /\ lastPxDisabled' = FALSE
       /\ lastServiceCmd' = NoService

\* An update of the node object reaches the queue of every open watch.
Publish(l) ==
    /\ label' = l
    /\ queue' = [w \in Watches |-> IF watch[w] = "open" THEN Append(queue[w], l)
                                   ELSE queue[w]]

-----------------------------------------------------------------------------
Init == /\ label \in [enabled : BootLabels, svc : {NoService}]
        /\ main = "boot"
        /\ meNode = label
        /\ watch = [w \in Watches |-> "none"]
        /\ queue = [w \in Watches |-> <<>>]
        /\ at = [w \in Watches |-> "idle"]
        /\ event = [w \in Watches |-> label]
        /\ lastPxDisabled = FALSE
        /\ lastServiceCmd = NoService
        /\ present \in BOOLEAN
        /\ failed = FALSE
        /\ faults = 0 /\ edits = 0 /\ closes = 0

\* Faulty variant: the watch only brings what happens from now on.
OpenFromNow(w) == /\ watch' = [watch EXCEPT ![w] = "open"]
                  /\ queue' = [queue EXCEPT ![w] = <<>>]

\* A watch is established: the API server sends the current object first.
Open(w) == /\ watch' = [watch EXCEPT ![w] = "open"]
           /\ queue' = [queue EXCEPT ![w] = <<label>>]

\* main() finds its node.
FindMyNode == /\ main = "boot"
              /\ main' = "found"
              /\ meNode' = label
              /\ UNCHANGED <<label, watching, memory, present, failed, spent>>

\* An enabled node is installed at once, a disabled one gets a watch of its
\* own, and without one the process ends; lastPxDisabled is false in all cases.
Boot == /\ main = "found"
        /\ \/ /\ Disabled(meNode)
              /\ \/ main' = "watch" /\ Open(1) /\ Ok
                 \/ main' = "boot" /\ UNCHANGED <<watch, queue>> /\ Fault("boot")
           \/ /\ ~Disabled(meNode)
              /\ main' = "install" /\ UNCHANGED <<watch, queue>> /\ Ok
        /\ lastPxDisabled' = FALSE
        /\ UNCHANGED <<label, meNode, at, event, lastServiceCmd, present, failed,
                       edits, closes>>

\* doInstall of main() ends; a failure ends the process, which is started
\* again with fresh globals.
BootInstall ==
    /\ main = "install"
    /\ \/ main' = "watch" /\ present' = TRUE /\ Ok
       \/ main' = "boot" /\ UNCHANGED present /\ Fault("boot")
    /\ UNCHANGED <<label, meNode, watching, memory, failed, edits, closes>>

\* The watch that main() leaves behind in every case, if it can be made.
BootWatch ==
    /\ main = "watch"
    /\ main' = "done"
    /\ \/ Open(2) /\ Ok
       \/ /\ watch' = [watch EXCEPT ![2] = "gaveup"]
          /\ UNCHANGED queue
          /\ Fault("watch")
    /\ UNCHANGED <<label, meNode, at, event, memory, present, failed, edits, closes>>

-----------------------------------------------------------------------------
\* Faulty variant: a handler that did something does not note the label.
ReturnForgets(w) == /\ at' = [at EXCEPT ![w] = "idle"]
                    /\ UNCHANGED lastPxDisabled

\* watchNodeLabels returns: its deferred function notes what the event said.
Return(w) == /\ at' = [at EXCEPT ![w] = "idle"]
             /\ lastPxDisabled' = Disabled(event[w])

\* Faulty variant: only a px/service that differs from the previous event's is
\* acted on.
HandleChanges(w) ==
    /\ at[w] = "idle" /\ queue[w] # <<>>
    /\ LET e == Head(queue[w])
           next == CASE ~Disabled(e) /\ lastPxDisabled -> "install"
                     [] Disabled(e) /\ ~lastPxDisabled ->
                          IF UninstallRequested(e) THEN "uninstall" ELSE "idle"
                     [] OTHER ->
                          IF e.svc \in {NoService, lastServiceCmd, event[w].svc} THEN "idle"
                          ELSE "serve"
       IN /\ event' = [event EXCEPT ![w] = e]
          /\ at' = [at EXCEPT ![w] = next]
          /\ lastPxDisabled' = IF next = "idle" THEN Disabled(e)
                               ELSE lastPxDisabled
    /\ queue' = [queue EXCEPT ![w] = Tail(@)]
    /\ UNCHANGED <<label, main, meNode, watch, lastServiceCmd, present, failed, spent>>

\* watchNodeLabels is called with the next event and finds what to do.
Handle(w) ==
    /\ at[w] = "idle" /\ queue[w] # <<>>
    /\ LET e == Head(queue[w])
           next == CASE ~Disabled(e) /\ lastPxDisabled -> "install"
                     [] Disabled(e) /\ ~lastPxDisabled ->
                          IF UninstallRequested(e) THEN "uninstall" ELSE "idle"
                     [] OTHER ->
                          IF e.svc \in {NoService, lastServiceCmd} THEN "idle"
                          ELSE "serve"
       IN /\ event' = [event EXCEPT ![w] = e]
          /\ at' = [at EXCEPT ![w] = next]
          /\ lastPxDisabled' = IF next = "idle" THEN Disabled(e)
                               ELSE lastPxDisabled
    /\ queue' = [queue EXCEPT ![w] = Tail(@)]
    /\ UNCHANGED <<label, main, meNode, watch, lastServiceCmd, present, failed, spent>>

\* doInstall of the watcher ends; its error is dropped.
Install(w) ==
    /\ at[w] = "install"
    /\ \/ present' = TRUE /\ failed' = FALSE /\ Ok
       \/ UNCHANGED present /\ failed' = TRUE /\ Fault("install")
    /\ Return(w)
    /\ UNCHANGED <<label, main, meNode, watch, queue, event, lastServiceCmd,
                   edits, closes>>

\* A pull that fails inside doInstall ends the process instead.
InstallExits(w) ==
    /\ at[w] = "install"
    /\ Fault("exit")
    /\ Die
    /\ UNCHANGED <<label, meNode, event, present, failed, edits, closes>>

\* doUninstall ends; its error is dropped, and DisablePx follows.
Uninstall(w) ==
    /\ at[w] = "uninstall"
    /\ \/ present' = FALSE /\ Ok
       \/ present /\ UNCHANGED present /\ Fault("uninstall")
    /\ at' = [at EXCEPT ![w] = "disable"]
    /\ UNCHANGED <<label, main, meNode, watch, queue, event, memory, failed, edits,
                   closes>>

\* DisablePx sets px/enabled to false, whatever it is now.
DisablePx(w) ==
    /\ at[w] = "disable"
    /\ \/ /\ IF label.enabled = "false" THEN UNCHANGED <<label, queue>>
             ELSE Publish([label EXCEPT !.enabled = "false"])
          /\ Ok
       \/ UNCHANGED <<label, queue>> /\ Fault("label")
    /\ Return(w)
    /\ UNCHANGED <<main, meNode, watch, event, lastServiceCmd, present, failed, edits,
                   closes>>

\* HandleRequest runs systemctl, which needs the service to be installed.  An
\* error leaves lastServiceCmd alone.
Serve(w) ==
    /\ at[w] = "serve"
    /\ \/ /\ present /\ Ok
          /\ IF event[w].svc = "restart"
             THEN /\ at' = [at EXCEPT ![w] = "clear"]
                  /\ UNCHANGED memory
             ELSE /\ lastServiceCmd' = event[w].svc
                  /\ Return(w)
       \/ /\ IF present THEN Fault("service") ELSE Ok
          /\ Return(w)
          /\ UNCHANGED lastServiceCmd
    /\ UNCHANGED <<label, main, meNode, watch, queue, event, present, failed, edits,
                   closes>>

\* Faulty variant: the command is reset to a value that is none.
ClearToEmpty(w) ==
    /\ at[w] = "clear"
    /\ Publish([label EXCEPT !.svc = NoService])
    /\ lastServiceCmd' = ""
    /\ Return(w)
    /\ Ok
    /\ UNCHANGED <<main, meNode, watch, event, present, failed, edits, closes>>

\* RemoveServiceLabel after a restart: the label goes, whatever it asks now.
ClearService(w) ==
    /\ at[w] = "clear"
    /\ \/ /\ IF label.svc = NoService THEN UNCHANGED <<label, queue>>
             ELSE Publish([label EXCEPT !.svc = NoService])
          /\ Ok
       \/ UNCHANGED <<label, queue>> /\ Fault("label")
    /\ lastServiceCmd' = NoService
    /\ Return(w)
    /\ UNCHANGED <<main, meNode, watch, event, present, failed, edits, closes>>

-----------------------------------------------------------------------------
\* A user edits a label.
SetEnabled ==
    /\ edits < MaxEdits
    /\ edits' = edits + 1
    /\ \E v \in Enablements \ {label.enabled} :
          Publish([label EXCEPT !.enabled = v])
    /\ UNCHANGED <<main, meNode, watch, at, event, memory, present, failed, faults, closes>>

SetService ==
    /\ edits < MaxEdits
    /\ edits' = edits + 1
    /\ \E s \in Services \union {NoService} :
          /\ s # label.svc
          /\ Publish([label EXCEPT !.svc = s])
    /\ UNCHANGED <<main, meNode, watch, at, event, memory, present, failed, faults, closes>>

\* The kubelet updates the node's status: the labels are the same.
Heartbeat ==
    /\ \A w \in Watches : Len(queue[w]) < MaxQueue
    /\ Publish(label)
    /\ UNCHANGED <<main, meNode, watch, at, event, memory, present, failed, spent>>

\* The API server closes a watch: what is on its way still comes, the events
\* after it do not.
CloseWatch(w) ==
    /\ watch[w] = "open"
    /\ closes < MaxCloses
    /\ closes' = closes + 1
    /\ watch' = [watch EXCEPT ![w] = "closed"]
    /\ \E n \in 0..Len(queue[w]) : queue' = [queue EXCEPT ![w] = SubSeq(@, 1, n)]
    /\ UNCHANGED <<label, main, meNode, at, event, memory, present, failed, faults, edits>>

\* handleWatch establishes a new watch, or gives up after ten minutes.
Rewatch(w) ==
    /\ watch[w] = "closed" /\ at[w] = "idle" /\ queue[w] = <<>>
    /\ \/ Open(w) /\ Ok
       \/ /\ watch' = [watch EXCEPT ![w] = "gaveup"]
          /\ UNCHANGED queue
          /\ Fault("watch")
    /\ UNCHANGED <<label, main, meNode, at, event, memory, present, failed, edits, closes>>

\* The pod is killed or replaced, whatever its goroutines are doing.
Crash == /\ main # "boot"
         /\ Fault("crash")
         /\ Die
         /\ UNCHANGED <<label, meNode, event, present, failed, edits, closes>>

Watcher(w) == \/ Handle(w) \/ Install(w) \/ InstallExits(w) \/ Uninstall(w)
              \/ DisablePx(w) \/ Serve(w) \/ ClearService(w) \/ Rewatch(w)

Main == FindMyNode \/ Boot \/ BootInstall \/ BootWatch

Next == \/ Main
        \/ \E w \in Watches : Watcher(w) \/ CloseWatch(w)
        \/ SetEnabled \/ SetService \/ Heartbeat \/ Crash

Spec == Init /\ [][Next]_vars

\* main() and the handlers are goroutines of a running process; the kubelet
\* updates the node's status again and again.
Fairness == /\ WF_vars(Main)
            /\ \A w \in Watches : WF_vars(Watcher(w))
            /\ WF_vars(Heartbeat)

FairSpec == Spec /\ Fairness

-----------------------------------------------------------------------------
TypeOK ==
    /\ label \in Labels
    /\ main \in {"boot", "found", "install", "watch", "done"}
    /\ watch \in [Watches -> {"none", "open", "closed", "gaveup"}]
    /\ queue \in [Watches -> Seq(Labels)]
    /\ at \in [Watches -> {"idle", "install", "uninstall", "disable", "serve",
                           "clear"}]
    /\ event \in [Watches -> Labels]
    /\ lastPxDisabled \in BOOLEAN
    /\ lastServiceCmd \in Services \union {NoService}
    /\ present \in BOOLEAN
    /\ failed \in BOOLEAN
    /\ meNode \in Labels
    /\ faults \in 0..MaxFaults /\ edits \in 0..MaxEdits /\ closes \in 0..MaxCloses

\* The monitor has nothing left to look at or to do.
Settled == /\ main = "done"
           /\ \A w \in Watches : /\ watch[w] \in {"none", "open"}
                                 /\ queue[w] = <<>>
                                 /\ at[w] = "idle"

\* When the monitor has settled, what it remembers of px/enabled is what the
\* label says, however the edits and its own label updates interleaved.
Agreement == Settled => lastPxDisabled = Disabled(label)

\* When it has settled on an enabled node, Portworx is there unless the last
\* install by a watch failed: whatever the label was in between, if it was true
\* when main() found its node.
Installed == Settled /\ ~Disabled(label) => present \/ failed
EnabledIsInstalled == ~Disabled(meNode) => Installed

\* A px/service that stays on an installed node is carried out in the end, as
\* often as systemctl may fail before (the comment in watchNodeLabels: the
\* request is repeated on the next watch), unless no watch is left.
RequestServed ==
    []<>(\/ label.svc = NoService
         \/ label.svc = lastServiceCmd
         \/ ~present
         \/ \A w \in Watches : watch[w] \in {"none", "gaveup"})
=============================================================================

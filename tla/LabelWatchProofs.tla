--------------------------- MODULE LabelWatchProofs ---------------------------
(***************************************************************************)
(* What holds of LabelWatch for any labels, any number of edits, closed    *)
(* watches and failures, and any length of the queues: it is well typed,   *)
(* what the monitor remembers agrees with the label whenever it has        *)
(* settled, and a node that started enabled has Portworx when the label    *)
(* says so.                                                                *)
(***************************************************************************)
EXTENDS LabelWatch, SequenceTheorems, TLAPS

Last(q) == q[Len(q)]

\* Labels differ in one field from other labels.
LEMMA EditLabel ==
  ASSUME NEW l \in Labels
  PROVE  /\ \A v \in Enablements : [l EXCEPT !.enabled = v] \in Labels
         /\ \A s \in Services \union {NoService} : [l EXCEPT !.svc = s] \in Labels
  BY DEF Labels

\* An event is queued behind the others.
LEMMA AppendFacts ==
  ASSUME NEW q \in Seq(Labels), NEW l \in Labels
  PROVE  Append(q, l) \in Seq(Labels) /\ Append(q, l) # <<>> /\ Last(Append(q, l)) = l
  BY DEF Last

\* The first of the queued events is taken.
LEMMA TakeFacts ==
  ASSUME NEW q \in Seq(Labels), q # <<>>
  PROVE  /\ Head(q) \in Labels /\ Tail(q) \in Seq(Labels)
         /\ Tail(q) = <<>> => Head(q) = Last(q)
         /\ Tail(q) # <<>> => Last(Tail(q)) = Last(q)
  <1>1. Len(q) \in Nat /\ Len(q) # 0 /\ Head(q) = q[1] /\ Tail(q) \in Seq(Labels)
        /\ Head(q) \in Labels
    BY HeadTailProperties, EmptySeq
  <1>2. Len(Tail(q)) = Len(q) - 1 /\ \A i \in 1..(Len(q) - 1) : Tail(q)[i] = q[i + 1]
    BY HeadTailProperties
  <1>3. CASE Tail(q) = <<>>
    <2>1. Len(Tail(q)) = 0
      <3>1. Len(<<>>) = 0
        BY EmptySeq
      <3> QED
        BY <1>3, <3>1, Zenon
    <2>2. Len(q) = 1
      BY <1>1, <1>2, <2>1
    <2> QED
      BY <1>1, <1>3, <2>2 DEF Last
  <1>4. CASE Tail(q) # <<>>
    <2>1. Len(Tail(q)) # 0
      BY <1>1, <1>4, EmptySeq
    <2> QED
      BY <1>1, <1>2, <1>4, <2>1 DEF Last
  <1> QED
    BY <1>3, <1>4

\* A watch that is opened has the label as its only event.
LEMMA OneEvent ==
  ASSUME NEW l \in Labels
  PROVE  <<l>> \in Seq(Labels) /\ <<l>> # <<>> /\ Last(<<l>>) = l
  BY DEF Last

\* Of a watch that closes some of the queued events still come.
LEMMA PrefixFacts ==
  ASSUME NEW q \in Seq(Labels), NEW n \in 0..Len(q)
  PROVE  SubSeq(q, 1, n) \in Seq(Labels)
  <1>1. Len(q) \in Nat /\ \A i \in 1..n : q[i] \in Labels
    BY LenProperties, ElementOfSeq
  <1> QED
    BY <1>1, SubSeqProperties

\* The initial states have their types.
LEMMA InitType == Init => TypeOK
  <1> SUFFICES ASSUME Init PROVE TypeOK
    OBVIOUS
  <1>1. label \in Labels
    BY LabelsAssumption DEF Init, Labels
  <1>2. <<>> \in Seq(Labels) /\ 0 \in 0..MaxFaults /\ 0 \in 0..MaxEdits /\ 0 \in 0..MaxCloses
    BY BoundsAssumption
  <1> QED
    BY <1>1, <1>2 DEF Init, TypeOK

\* An update of the node object is the last event of every open watch.
LEMMA PublishFacts ==
  ASSUME TypeOK, NEW l \in Labels, Publish(l)
  PROVE  /\ label' = l /\ queue' \in [Watches -> Seq(Labels)]
         /\ \A w \in Watches :
              IF watch[w] = "open" THEN queue'[w] # <<>> /\ Last(queue'[w]) = l
                                   ELSE queue'[w] = queue[w]
  <1>1. \A w \in Watches : queue[w] \in Seq(Labels)
    BY DEF TypeOK
  <1>2. \A w \in Watches : queue'[w] = IF watch[w] = "open" THEN Append(queue[w], l)
                                       ELSE queue[w]
    BY DEF Publish
  <1>3. \A w \in Watches : /\ Append(queue[w], l) \in Seq(Labels)
                           /\ Append(queue[w], l) # <<>> /\ Last(Append(queue[w], l)) = l
    BY <1>1, AppendFacts
  <1> QED
    BY <1>1, <1>2, <1>3 DEF Publish

\* What a watch does to the others and to itself when it is opened.
LEMMA OpenFacts ==
  ASSUME TypeOK, NEW w \in Watches, Open(w)
  PROVE  /\ watch' = [watch EXCEPT ![w] = "open"]
         /\ watch' \in [Watches -> {"none", "open", "closed", "gaveup"}]
         /\ queue' \in [Watches -> Seq(Labels)]
         /\ queue'[w] # <<>> /\ Last(queue'[w]) = label
         /\ \A v \in Watches : v # w => queue'[v] = queue[v]
  BY OneEvent DEF Open, TypeOK

\* What watchNodeLabels takes from the queue, and what it decides.
LEMMA HandleFacts ==
  ASSUME TypeOK, NEW w \in Watches, Handle(w)
  PROVE  /\ at[w] = "idle" /\ queue[w] # <<>>
         /\ event' = [event EXCEPT ![w] = Head(queue[w])]
         /\ Head(queue[w]) \in Labels
         /\ queue' = [queue EXCEPT ![w] = Tail(queue[w])]
         /\ queue' \in [Watches -> Seq(Labels)]
         /\ \E next \in {"idle", "install", "uninstall", "serve"} :
              /\ at' = [at EXCEPT ![w] = next]
              /\ lastPxDisabled' = IF next = "idle" THEN Disabled(Head(queue[w]))
                                   ELSE lastPxDisabled
              /\ next = "idle" => (Disabled(Head(queue[w])) \/ ~lastPxDisabled)
              /\ next = "uninstall" => Disabled(Head(queue[w]))
              /\ next = "serve" => lastPxDisabled = Disabled(Head(queue[w]))
  <1>1. /\ at[w] = "idle" /\ queue[w] # <<>>
        /\ queue[w] \in Seq(Labels) /\ lastPxDisabled \in BOOLEAN
    BY DEF Handle, TypeOK
  <1>2. Head(queue[w]) \in Labels /\ Tail(queue[w]) \in Seq(Labels)
    BY <1>1, TakeFacts
  <1> DEFINE e == Head(queue[w])
             next == CASE ~Disabled(e) /\ lastPxDisabled -> "install"
                       [] Disabled(e) /\ ~lastPxDisabled ->
                            IF UninstallRequested(e) THEN "uninstall" ELSE "idle"
                       [] OTHER ->
                            IF e.svc \in {NoService, lastServiceCmd} THEN "idle"
                            ELSE "serve"
  <1>3. /\ next \in {"idle", "install", "uninstall", "serve"}
        /\ next = "idle" => (Disabled(e) \/ ~lastPxDisabled)
        /\ next = "uninstall" => Disabled(e)
        /\ next = "serve" => lastPxDisabled = Disabled(e)
    <2>0. Disabled(e) \in BOOLEAN
      BY DEF Disabled
    <2>1. CASE ~Disabled(e) /\ lastPxDisabled
      BY <2>1
    <2>2. CASE Disabled(e) /\ ~lastPxDisabled
      BY <2>2
    <2>3. CASE lastPxDisabled = Disabled(e)
      BY <2>3, <1>1
    <2> QED
      BY <1>1, <2>0, <2>1, <2>2, <2>3
  <1>4. /\ event' = [event EXCEPT ![w] = e]
        /\ at' = [at EXCEPT ![w] = next]
        /\ lastPxDisabled' = IF next = "idle" THEN Disabled(e) ELSE lastPxDisabled
        /\ queue' = [queue EXCEPT ![w] = Tail(queue[w])]
    BY DEF Handle
  <1>5. queue' \in [Watches -> Seq(Labels)]
    BY <1>2, <1>4 DEF TypeOK
  <1> HIDE DEF next
  <1> QED
    BY <1>1, <1>2, <1>3, <1>4, <1>5

\* Dying leaves a process that watches nothing.
LEMMA DieType ==
  ASSUME Die
  PROVE  /\ main' = "boot" /\ watch' = [w \in Watches |-> "none"]
         /\ queue' = [w \in Watches |-> <<>>] /\ queue' \in [Watches -> Seq(Labels)]
         /\ at' = [w \in Watches |-> "idle"]
         /\ lastPxDisabled' = FALSE /\ lastServiceCmd' = NoService
  <1>1. <<>> \in Seq(Labels)
    OBVIOUS
  <1> QED
    BY <1>1 DEF Die

\* The budget of failures is respected by a step that fails and by one that
\* does not.
LEMMA FaultType ==
  ASSUME faults \in 0..MaxFaults, Ok \/ \E k \in Kinds : Fault(k)
  PROVE  faults' \in 0..MaxFaults
  BY BoundsAssumption DEF Ok, Fault

\* What a handler or a user writes to the node object.
LEMMA WriteFacts ==
  ASSUME TypeOK
  PROVE  /\ \A w \in Watches :
              /\ DisablePx(w) => \/ UNCHANGED <<label, queue>>
                                \/ \E l \in Labels : Publish(l) /\ Disabled(l)
              /\ ClearService(w) => UNCHANGED <<label, queue>> \/ \E l \in Labels : Publish(l)
         /\ SetEnabled \/ SetService \/ Heartbeat => \E l \in Labels : Publish(l)
  <1>1. /\ label \in Labels
        /\ \A v \in Enablements : [label EXCEPT !.enabled = v] \in Labels
        /\ \A s \in Services \union {NoService} : [label EXCEPT !.svc = s] \in Labels
    BY EditLabel DEF TypeOK
  <1>2. ASSUME NEW w \in Watches, DisablePx(w)
        PROVE  \/ UNCHANGED <<label, queue>>
               \/ \E l \in Labels : Publish(l) /\ Disabled(l)
    <2>1. [label EXCEPT !.enabled = "false"] \in Labels
      BY <1>1 DEF Enablements
    <2>2. Disabled([label EXCEPT !.enabled = "false"])
      BY <1>1 DEF Disabled, Labels
    <2> QED
      BY <1>2, <2>1, <2>2 DEF DisablePx
  <1>3. ASSUME NEW w \in Watches, ClearService(w)
        PROVE  UNCHANGED <<label, queue>> \/ \E l \in Labels : Publish(l)
    BY <1>1, <1>3 DEF ClearService
  <1>4. ASSUME SetEnabled \/ SetService \/ Heartbeat PROVE \E l \in Labels : Publish(l)
    BY <1>1, <1>4 DEF SetEnabled, SetService, Heartbeat
  <1> QED
    BY <1>2, <1>3, <1>4

\* Every step preserves the type invariant.
LEMMA StepType == TypeOK /\ [Next]_vars => TypeOK'
  <1> SUFFICES ASSUME TypeOK, [Next]_vars PROVE TypeOK'
    OBVIOUS
  <1> USE DEF watching, memory, spent
  <1>1. CASE FindMyNode
    BY <1>1 DEF FindMyNode, TypeOK
  <1>2. CASE Boot
    <2>1. faults' \in 0..MaxFaults
      BY <1>2, FaultType DEF Boot, TypeOK, Ok, Fault, Kinds
    <2>2. /\ watch' \in [Watches -> {"none", "open", "closed", "gaveup"}]
          /\ queue' \in [Watches -> Seq(Labels)]
      BY <1>2, OpenFacts DEF Boot, TypeOK, Watches
    <2> QED
      BY <1>2, <2>1, <2>2 DEF Boot, TypeOK
  <1>3. CASE BootInstall
    <2>1. faults' \in 0..MaxFaults
      BY <1>3, FaultType DEF BootInstall, TypeOK, Ok, Fault, Kinds
    <2> QED
      BY <1>3, <2>1 DEF BootInstall, TypeOK
  <1>4. CASE BootWatch
    <2>1. faults' \in 0..MaxFaults
      BY <1>4, FaultType DEF BootWatch, TypeOK, Ok, Fault, Kinds
    <2>2. /\ watch' \in [Watches -> {"none", "open", "closed", "gaveup"}]
          /\ queue' \in [Watches -> Seq(Labels)]
      BY <1>4, OpenFacts DEF BootWatch, TypeOK, Watches
    <2> QED
      BY <1>4, <2>1, <2>2 DEF BootWatch, TypeOK
  <1>5. ASSUME NEW w \in Watches, Handle(w) PROVE TypeOK'
    BY <1>5, HandleFacts DEF Handle, TypeOK, Disabled
  <1>6. ASSUME NEW w \in Watches, Install(w) PROVE TypeOK'
    <2>1. faults' \in 0..MaxFaults
      BY <1>6, FaultType DEF Install, TypeOK, Ok, Fault, Kinds
    <2> QED
      BY <1>6, <2>1 DEF Install, Return, TypeOK, Disabled
  <1>7. ASSUME NEW w \in Watches, InstallExits(w) PROVE TypeOK'
    <2>1. faults' \in 0..MaxFaults
      BY <1>7, FaultType DEF InstallExits, TypeOK, Kinds
    <2> QED
      BY <1>7, <2>1, DieType DEF InstallExits, TypeOK
  <1>8. ASSUME NEW w \in Watches, Uninstall(w) PROVE TypeOK'
    <2>1. faults' \in 0..MaxFaults
      BY <1>8, FaultType DEF Uninstall, TypeOK, Ok, Fault, Kinds
    <2> QED
      BY <1>8, <2>1 DEF Uninstall, TypeOK
  <1>9. ASSUME NEW w \in Watches, DisablePx(w) PROVE TypeOK'
    <2>1. faults' \in 0..MaxFaults
      BY <1>9, FaultType DEF DisablePx, TypeOK, Ok, Fault, Kinds
    <2>2. label' \in Labels /\ queue' \in [Watches -> Seq(Labels)]
      BY <1>9, WriteFacts, PublishFacts DEF TypeOK
    <2> QED
      BY <1>9, <2>1, <2>2 DEF DisablePx, Return, TypeOK, Disabled
  <1>10. ASSUME NEW w \in Watches, Serve(w) PROVE TypeOK'
    <2>1. faults' \in 0..MaxFaults
      BY <1>10, FaultType DEF Serve, TypeOK, Ok, Fault, Kinds
    <2>2. event[w].svc \in Services \union {NoService}
      BY DEF TypeOK, Labels
    <2> QED
      BY <1>10, <2>1, <2>2 DEF Serve, Return, TypeOK, Disabled
  <1>11. ASSUME NEW w \in Watches, ClearService(w) PROVE TypeOK'
    <2>1. faults' \in 0..MaxFaults
      BY <1>11, FaultType DEF ClearService, TypeOK, Ok, Fault, Kinds
    <2>2. label' \in Labels /\ queue' \in [Watches -> Seq(Labels)]
      BY <1>11, WriteFacts, PublishFacts DEF TypeOK
    <2> QED
      BY <1>11, <2>1, <2>2 DEF ClearService, Return, TypeOK, Disabled
  <1>12. ASSUME NEW w \in Watches, Rewatch(w) PROVE TypeOK'
    <2>1. faults' \in 0..MaxFaults
      BY <1>12, FaultType DEF Rewatch, TypeOK, Ok, Fault, Kinds
    <2>2. /\ watch' \in [Watches -> {"none", "open", "closed", "gaveup"}]
          /\ queue' \in [Watches -> Seq(Labels)]
      BY <1>12, OpenFacts DEF Rewatch, TypeOK
    <2> QED
      BY <1>12, <2>1, <2>2 DEF Rewatch, TypeOK
  <1>13. ASSUME NEW w \in Watches, CloseWatch(w) PROVE TypeOK'
    <2>1. queue' \in [Watches -> Seq(Labels)]
      BY <1>13, PrefixFacts DEF CloseWatch, TypeOK
    <2>2. closes' \in 0..MaxCloses
      BY <1>13, BoundsAssumption DEF CloseWatch, TypeOK
    <2> QED
      BY <1>13, <2>1, <2>2 DEF CloseWatch, TypeOK
  <1>14. CASE SetEnabled \/ SetService \/ Heartbeat
    <2>1. label' \in Labels /\ queue' \in [Watches -> Seq(Labels)]
      BY <1>14, WriteFacts, PublishFacts DEF TypeOK
    <2>2. edits' \in 0..MaxEdits
      BY <1>14, BoundsAssumption DEF SetEnabled, SetService, Heartbeat, TypeOK
    <2> QED
      BY <1>14, <2>1, <2>2 DEF SetEnabled, SetService, Heartbeat, TypeOK
  <1>15. CASE Crash
    <2>1. faults' \in 0..MaxFaults
      BY <1>15, FaultType DEF Crash, TypeOK, Kinds
    <2> QED
      BY <1>15, <2>1, DieType DEF Crash, TypeOK
  <1>16. CASE UNCHANGED vars
    BY <1>16 DEF vars, TypeOK
  <1> QED
    BY <1>1, <1>2, <1>3, <1>4, <1>5, <1>6, <1>7, <1>8, <1>9, <1>10, <1>11,
       <1>12, <1>13, <1>14, <1>15, <1>16 DEF Next, Main, Watcher

\* The variables of LabelWatch always have their types.
THEOREM TypeCorrect == Spec => []TypeOK
  BY InitType, StepType, PTL DEF Spec

-----------------------------------------------------------------------------
(***************************************************************************)
(* Why Agreement holds: the last event of an open watch is the label as it *)
(* is now, so that a monitor whose memory is out of date still has an      *)
(* event to handle, a handler that will note it, or a watch to make again. *)
(***************************************************************************)
\* The watch of every start is the last thing main() makes; a watch that is
\* not made handles nothing, and an enabled node has no other.
Started ==
    /\ \A w \in Watches : watch[w] = "none" => at[w] = "idle" /\ queue[w] = <<>>
    /\ main = "done" <=> watch[2] # "none"
    /\ main \in {"boot", "found", "install"} => watch[1] = "none"
    /\ ~Disabled(meNode) => watch[1] = "none"
    /\ main = "install" => ~Disabled(meNode)

\* What a watch has brought last is the label.
Fresh == \A w \in Watches :
    watch[w] = "open" =>
       /\ queue[w] = <<>> => event[w] = label
       /\ queue[w] # <<>> => Last(queue[w]) = label

\* Watch w is not through with what it has brought, or has to be made again.
Busy(w) == \/ watch[w] \in {"closed", "gaveup"}
           \/ watch[w] = "open" /\ (queue[w] # <<>> \/ at[w] # "idle")

Noted == main = "done" => \/ lastPxDisabled = Disabled(label)
                          \/ \E w \in Watches : Busy(w)

AgreeInv == TypeOK /\ Started /\ Fresh /\ Noted

\* A watch is made in its turn.
LEMMA StartedStep ==
  ASSUME TypeOK, Started, [Next]_vars
  PROVE  Started'
  <1> USE DEF watching, memory, spent, Started, Watches
  <1>0. TypeOK /\ watch \in [Watches -> {"none", "open", "closed", "gaveup"}]
        /\ at \in [Watches -> {"idle", "install", "uninstall", "disable", "serve", "clear"}]
        /\ queue \in [Watches -> Seq(Labels)]
    BY DEF TypeOK
  <1>1. CASE FindMyNode
    BY <1>1 DEF FindMyNode
  <1>2. CASE Boot
    BY <1>0, <1>2, OpenFacts DEF Boot
  <1>3. CASE BootInstall
    BY <1>3 DEF BootInstall
  <1>4. CASE BootWatch
    BY <1>0, <1>4, OpenFacts DEF BootWatch
  <1>5. ASSUME NEW w \in Watches, Handle(w) PROVE Started'
    BY <1>0, <1>5, HandleFacts DEF Handle
  <1>6. ASSUME NEW w \in Watches, Install(w) \/ Uninstall(w) \/ Serve(w) PROVE Started'
    BY <1>0, <1>6 DEF Install, Uninstall, Serve, Return
  <1>7. ASSUME Die, UNCHANGED meNode PROVE Started'
    BY <1>7, DieType
  <1>8. ASSUME NEW w \in Watches, DisablePx(w) \/ ClearService(w) PROVE Started'
    <2>1. \A v \in Watches : watch[v] = "none" => queue'[v] = queue[v]
      BY <1>0, <1>8, WriteFacts, PublishFacts
    <2> QED
      BY <1>0, <1>8, <2>1 DEF DisablePx, ClearService, Return
  <1>9. ASSUME NEW w \in Watches, Rewatch(w) PROVE Started'
    BY <1>0, <1>9, OpenFacts DEF Rewatch
  <1>10. ASSUME NEW w \in Watches, CloseWatch(w) PROVE Started'
    BY <1>0, <1>10 DEF CloseWatch
  <1>11. CASE SetEnabled \/ SetService \/ Heartbeat
    <2>1. \A v \in Watches : watch[v] = "none" => queue'[v] = queue[v]
      BY <1>0, <1>11, WriteFacts, PublishFacts
    <2> QED
      BY <1>11, <2>1 DEF SetEnabled, SetService, Heartbeat
  <1>12. CASE UNCHANGED vars
    BY <1>12 DEF vars
  <1> QED
    BY <1>1, <1>2, <1>3, <1>4, <1>5, <1>6, <1>7, <1>8, <1>9, <1>10, <1>11, <1>12
       DEF Next, Main, Watcher, InstallExits, Crash

\* Every update of the node object reaches every open watch.
LEMMA FreshStep ==
  ASSUME TypeOK, Started, Fresh, [Next]_vars
  PROVE  Fresh'
  <1> USE DEF watching, memory, spent, Fresh
  <1>0. TypeOK /\ watch \in [Watches -> {"none", "open", "closed", "gaveup"}]
        /\ queue \in [Watches -> Seq(Labels)] /\ event \in [Watches -> Labels]
    BY DEF TypeOK
  <1>1. CASE FindMyNode \/ BootInstall
    BY <1>1 DEF FindMyNode, BootInstall
  <1>2. ASSUME NEW w \in Watches, Open(w), UNCHANGED <<event, label>> PROVE Fresh'
    BY <1>0, <1>2, OpenFacts
  <1>3. CASE Boot
    BY <1>2, <1>3 DEF Boot, Watches
  <1>4. CASE BootWatch
    BY <1>0, <1>2, <1>4 DEF BootWatch, Watches
  <1>5. ASSUME NEW w \in Watches, Handle(w) PROVE Fresh'
    <2>1. UNCHANGED <<label, watch>>
      BY <1>5 DEF Handle
    <2> SUFFICES ASSUME NEW v \in Watches, watch[v] = "open"
                 PROVE  /\ queue'[v] = <<>> => event'[v] = label
                        /\ queue'[v] # <<>> => Last(queue'[v]) = label
      BY <2>1
    <2>2. CASE v = w
      <3>1. /\ queue[w] \in Seq(Labels) /\ queue[w] # <<>>
            /\ queue'[w] = Tail(queue[w]) /\ event'[w] = Head(queue[w])
        BY <1>0, <1>5, HandleFacts
      <3>2. Last(queue[w]) = label
        BY <2>2, <3>1
      <3> QED
        BY <2>2, <3>1, <3>2, TakeFacts
    <2>3. CASE v # w
      <3>1. queue'[v] = queue[v] /\ event'[v] = event[v]
        BY <1>0, <1>5, <2>3, HandleFacts
      <3> QED
        BY <3>1
    <2> QED
      BY <2>2, <2>3
  <1>6. ASSUME NEW w \in Watches, Install(w) \/ Uninstall(w) \/ Serve(w) PROVE Fresh'
    BY <1>6 DEF Install, Uninstall, Serve, Return
  <1>7. ASSUME Die PROVE Fresh'
    BY <1>7, DieType
  <1>8. ASSUME NEW l \in Labels, Publish(l), UNCHANGED <<watch, event>> PROVE Fresh'
    BY <1>0, <1>8, PublishFacts
  <1>9. ASSUME NEW w \in Watches, DisablePx(w) \/ ClearService(w) PROVE Fresh'
    <2>1. UNCHANGED <<watch, event>>
      BY <1>9 DEF DisablePx, ClearService
    <2>2. CASE UNCHANGED <<label, queue>>
      BY <2>1, <2>2
    <2> QED
      BY <1>0, <1>8, <1>9, <2>1, <2>2, WriteFacts
  <1>10. ASSUME NEW w \in Watches, Rewatch(w) PROVE Fresh'
    BY <1>0, <1>2, <1>10 DEF Rewatch
  <1>11. ASSUME NEW w \in Watches, CloseWatch(w) PROVE Fresh'
    BY <1>0, <1>11 DEF CloseWatch
  <1>12. CASE SetEnabled \/ SetService \/ Heartbeat
    <2>1. UNCHANGED <<watch, event>>
      BY <1>12 DEF SetEnabled, SetService, Heartbeat
    <2> QED
      BY <1>0, <1>8, <1>12, <2>1, WriteFacts
  <1>13. CASE UNCHANGED vars
    BY <1>13 DEF vars
  <1> QED
    BY <1>1, <1>3, <1>4, <1>5, <1>6, <1>7, <1>9, <1>10, <1>11, <1>12, <1>13
       DEF Next, Main, Watcher, InstallExits, Crash

\* A callback that returns has noted the label, unless its watch is busy.
LEMMA ReturnNotes ==
  ASSUME AgreeInv, NEW w \in Watches, at[w] # "idle", Return(w),
         UNCHANGED <<watch, event>>,
         \/ UNCHANGED <<label, queue>>
         \/ \E l \in Labels : Publish(l)
  PROVE  lastPxDisabled' = Disabled(label') \/ Busy(w)'
  <1>1. /\ TypeOK /\ Fresh /\ watch[w] \in {"none", "open", "closed", "gaveup"}
        /\ watch[w] # "none" /\ lastPxDisabled' = Disabled(event[w])
    BY DEF AgreeInv, TypeOK, Started, Return
  <1>2. CASE watch[w] \in {"closed", "gaveup"}
    BY <1>2 DEF Busy
  <1>3. CASE watch[w] = "open" /\ UNCHANGED <<label, queue>>
    BY <1>1, <1>3 DEF Busy, Fresh
  <1>4. CASE watch[w] = "open" /\ \E l \in Labels : Publish(l)
    BY <1>1, <1>4, PublishFacts DEF Busy
  <1> QED
    BY <1>1, <1>2, <1>3, <1>4

\* A monitor whose memory is out of date is not done.
LEMMA NotedStep ==
  ASSUME AgreeInv, [Next]_vars
  PROVE  Noted'
  <1> USE DEF watching, memory, spent, Noted
  <1>0. /\ TypeOK /\ Started /\ Fresh /\ Noted
        /\ watch \in [Watches -> {"none", "open", "closed", "gaveup"}]
        /\ queue \in [Watches -> Seq(Labels)] /\ event \in [Watches -> Labels]
        /\ at \in [Watches -> {"idle", "install", "uninstall", "disable", "serve", "clear"}]
        /\ 2 \in Watches
    BY DEF AgreeInv, TypeOK, Watches
  <1>1. CASE FindMyNode \/ Boot \/ BootInstall
    BY <1>1 DEF FindMyNode, Boot, BootInstall
  <1>2. CASE BootWatch
    <2>1. Busy(2)'
      BY <1>0, <1>2, OpenFacts DEF BootWatch, Busy
    <2> QED
      BY <1>0, <2>1
  <1>3. ASSUME NEW w \in Watches, Handle(w) PROVE Noted'
    <2>1. UNCHANGED <<label, main, watch>>
      BY <1>3 DEF Handle
    <2>2. PICK next \in {"idle", "install", "uninstall", "serve"} :
             /\ at' = [at EXCEPT ![w] = next]
             /\ lastPxDisabled' = IF next = "idle" THEN Disabled(Head(queue[w]))
                                  ELSE lastPxDisabled
      BY <1>0, <1>3, HandleFacts
    <2>3. /\ queue[w] # <<>> /\ queue[w] \in Seq(Labels)
          /\ queue'[w] = Tail(queue[w])
          /\ watch[w] \in {"open", "closed", "gaveup"}
      BY <1>0, <1>3, HandleFacts DEF Started
    <2>0. CASE watch[w] # "open"
      BY <1>0, <2>0, <2>1, <2>3 DEF Busy
    <2>4. CASE next # "idle"
      BY <1>0, <2>1, <2>2, <2>3, <2>4 DEF Busy
    <2>5. CASE watch[w] = "open" /\ next = "idle" /\ Tail(queue[w]) = <<>>
      <3>1. Head(queue[w]) = label
        BY <1>0, <2>3, <2>5, TakeFacts DEF Fresh
      <3> QED
        BY <2>1, <2>2, <2>5, <3>1 DEF Disabled
    <2>6. CASE watch[w] = "open" /\ next = "idle" /\ Tail(queue[w]) # <<>>
      BY <2>1, <2>3, <2>6 DEF Busy
    <2> QED
      BY <2>0, <2>4, <2>5, <2>6
  <1>4. ASSUME NEW w \in Watches, Install(w) \/ DisablePx(w) \/ ClearService(w) PROVE Noted'
    <2>1. /\ at[w] # "idle" /\ Return(w) /\ UNCHANGED <<watch, event>>
          /\ UNCHANGED <<label, queue>> \/ \E l \in Labels : Publish(l)
      BY <1>0, <1>4, WriteFacts DEF Install, DisablePx, ClearService
    <2>2. lastPxDisabled' = Disabled(label') \/ Busy(w)'
      BY <2>1, ReturnNotes
    <2> QED
      BY <2>2 DEF Disabled
  <1>5. ASSUME NEW w \in Watches, Serve(w) PROVE Noted'
    <2>1. at[w] # "idle" /\ UNCHANGED <<watch, event, label, queue, main>>
      BY <1>5 DEF Serve
    <2>2. CASE Return(w)
      <3>1. lastPxDisabled' = Disabled(label') \/ Busy(w)'
        BY <2>1, <2>2, ReturnNotes
      <3> QED
        BY <3>1 DEF Disabled
    <2>3. CASE at' = [at EXCEPT ![w] = "clear"]
      BY <1>0, <2>1, <2>3 DEF Busy, Started
    <2> QED
      BY <1>5, <2>2, <2>3 DEF Serve
  <1>6. ASSUME NEW w \in Watches, Uninstall(w) PROVE Noted'
    BY <1>0, <1>6 DEF Uninstall, Busy, Started
  <1>7. ASSUME Die PROVE Noted'
    BY <1>7, DieType
  <1>8. ASSUME NEW w \in Watches, Rewatch(w) PROVE Noted'
    BY <1>0, <1>8, OpenFacts DEF Rewatch, Busy
  <1>9. ASSUME NEW w \in Watches, CloseWatch(w) PROVE Noted'
    BY <1>0, <1>9 DEF CloseWatch, Busy
  <1>10. CASE SetEnabled \/ SetService \/ Heartbeat
    <2>1. UNCHANGED <<watch, main>>
      BY <1>10 DEF SetEnabled, SetService, Heartbeat
    <2>2. watch[2] = "open" => queue'[2] # <<>>
      BY <1>0, <1>10, WriteFacts, PublishFacts
    <2> QED
      BY <1>0, <2>1, <2>2 DEF Busy, Started
  <1>11. CASE UNCHANGED vars
    BY <1>0, <1>11 DEF vars, Busy, Disabled
  <1> QED
    BY <1>1, <1>2, <1>3, <1>4, <1>5, <1>6, <1>7, <1>8, <1>9, <1>10, <1>11
       DEF Next, Main, Watcher, InstallExits, Crash

\* Initially nothing is watched.
LEMMA InitAgree == Init => AgreeInv
  BY InitType DEF Init, AgreeInv, Started, Fresh, Noted, Watches

\* However label edits, heartbeats, the monitor's own label updates, closed
\* watches and restarts of the process interleave with handlers that take
\* long, a monitor that has settled remembers px/enabled as it is.
THEOREM AgreementCorrect == Spec => []Agreement
  <1>1. AgreeInv /\ [Next]_vars => AgreeInv'
    BY StepType, StartedStep, FreshStep, NotedStep DEF AgreeInv
  <1>2. AgreeInv => Agreement
    BY DEF AgreeInv, Noted, Busy, Agreement, Settled
  <1> QED
    BY <1>1, <1>2, InitAgree, PTL DEF Spec

-----------------------------------------------------------------------------
(***************************************************************************)
(* Why EnabledIsInstalled holds: a node that is enabled when main() finds  *)
(* it has one watch only, so that what the monitor remembers stays as it   *)
(* is while a callback serves a request, and goes from false to true only  *)
(* after an event that is disabled.                                        *)
(***************************************************************************)
Acting ==
    /\ at[2] \in {"uninstall", "disable"} => Disabled(event[2])
    /\ ~Disabled(meNode) /\ at[2] \in {"serve", "clear"} =>
          lastPxDisabled = Disabled(event[2])

\* An enabled node whose boot is over has Portworx, or its last install has
\* failed, or the monitor knows that the node is disabled.
Kept == main \in {"watch", "done"} /\ ~Disabled(meNode) =>
           present \/ failed \/ lastPxDisabled \/ at[2] = "disable"

EnabledInv == AgreeInv /\ Acting /\ Kept

\* The second watch of an enabled node is the only one at work.
LEMMA OneWatch ==
  ASSUME TypeOK, Started, NEW w \in Watches, at[w] # "idle" \/ queue[w] # <<>>,
         ~Disabled(meNode)
  PROVE  w = 2
  BY DEF Started, Watches

\* Every step keeps what an enabled node has.
LEMMA EnabledStep ==
  ASSUME EnabledInv, [Next]_vars
  PROVE  Acting' /\ Kept'
  <1> USE DEF watching, memory, spent, Acting, Kept
  <1>0. /\ TypeOK /\ Started /\ Acting /\ Kept /\ 2 \in Watches
        /\ event \in [Watches -> Labels] /\ lastPxDisabled \in BOOLEAN
        /\ at \in [Watches -> {"idle", "install", "uninstall", "disable", "serve", "clear"}]
    BY DEF EnabledInv, AgreeInv, TypeOK, Watches
  <1>1. CASE FindMyNode
    <2>1. at[2] = "idle"
      BY <1>0, <1>1 DEF FindMyNode, Started
    <2> QED
      BY <1>1, <2>1 DEF FindMyNode
  <1>2. CASE Boot
    <2>1. at[2] = "idle" /\ at' = at
      BY <1>0, <1>2 DEF Boot, Started
    <2>2. main' = "watch" => Disabled(meNode)
      BY <1>2 DEF Boot
    <2> QED
      BY <1>0, <1>2, <2>1, <2>2 DEF Boot, Disabled
  <1>3. CASE BootInstall
    BY <1>0, <1>3 DEF BootInstall, Disabled
  <1>4. CASE BootWatch
    BY <1>0, <1>4 DEF BootWatch, Disabled
  <1>5. ASSUME NEW w \in Watches, Handle(w) PROVE Acting' /\ Kept'
    <2>0. UNCHANGED <<main, meNode, present, failed>> /\ queue[w] # <<>>
          /\ at[w] = "idle" /\ event' = [event EXCEPT ![w] = Head(queue[w])]
      BY <1>5 DEF Handle
    <2>1. PICK next \in {"idle", "install", "uninstall", "serve"} :
             /\ at' = [at EXCEPT ![w] = next]
             /\ lastPxDisabled' = IF next = "idle" THEN Disabled(Head(queue[w]))
                                  ELSE lastPxDisabled
             /\ next = "idle" => (Disabled(Head(queue[w])) \/ ~lastPxDisabled)
             /\ next = "uninstall" => Disabled(Head(queue[w]))
             /\ next = "serve" => lastPxDisabled = Disabled(Head(queue[w]))
      BY <1>0, <1>5, HandleFacts
    <2>2. CASE w = 2
      <3>1. at'[2] = next /\ event'[2] = Head(queue[w]) /\ at[2] = "idle"
        BY <1>0, <2>0, <2>1, <2>2
      <3>2. lastPxDisabled => lastPxDisabled'
        BY <1>0, <2>1 DEF Disabled
      <3> QED
        BY <1>0, <2>0, <2>1, <3>1, <3>2 DEF Disabled
    <2>3. CASE w # 2
      <3>1. Disabled(meNode) /\ at'[2] = at[2] /\ event'[2] = event[2]
        BY <1>0, <2>0, <2>1, <2>3, OneWatch
      <3> QED
        BY <1>0, <2>0, <3>1 DEF Disabled
    <2> QED
      BY <2>2, <2>3
  <1>6. ASSUME NEW w \in Watches, w # 2,
               Install(w) \/ Uninstall(w) \/ DisablePx(w) \/ Serve(w) \/ ClearService(w)
        PROVE  Acting' /\ Kept'
    <2>1. at[w] # "idle" /\ UNCHANGED <<meNode, event>> /\ at'[2] = at[2]
      BY <1>0, <1>6 DEF Install, Uninstall, DisablePx, Serve, ClearService, Return
    <2>2. Disabled(meNode)
      BY <1>0, <1>6, <2>1, OneWatch
    <2> QED
      BY <1>0, <2>1, <2>2 DEF Disabled
  <1>7. CASE Install(2)
    BY <1>0, <1>7 DEF Install, Return
  <1>8. CASE Uninstall(2)
    BY <1>0, <1>8 DEF Uninstall, Disabled
  <1>9. CASE DisablePx(2)
    BY <1>0, <1>9 DEF DisablePx, Return, Disabled
  <1>10. CASE Serve(2)
    <2>1. UNCHANGED <<main, meNode, present, failed, event>> /\ at[2] = "serve"
      BY <1>10 DEF Serve
    <2>2. CASE Return(2)
      BY <1>0, <2>1, <2>2 DEF Return, Disabled
    <2>3. CASE at' = [at EXCEPT ![2] = "clear"] /\ UNCHANGED memory
      BY <1>0, <2>1, <2>3 DEF Disabled
    <2> QED
      BY <1>10, <2>2, <2>3 DEF Serve
  <1>11. CASE ClearService(2)
    BY <1>0, <1>11 DEF ClearService, Return, Disabled
  <1>12. ASSUME Die PROVE Acting' /\ Kept'
    BY <1>0, <1>12, DieType
  <1>13. ASSUME NEW w \in Watches, Rewatch(w) \/ CloseWatch(w) PROVE Acting' /\ Kept'
    BY <1>0, <1>13 DEF Rewatch, CloseWatch, Disabled
  <1>14. CASE SetEnabled \/ SetService \/ Heartbeat
    BY <1>0, <1>14 DEF SetEnabled, SetService, Heartbeat, Disabled
  <1>15. CASE UNCHANGED vars
    BY <1>0, <1>15 DEF vars, Disabled
  <1> QED
    BY <1>1, <1>2, <1>3, <1>4, <1>5, <1>6, <1>7, <1>8, <1>9, <1>10, <1>11,
       <1>12, <1>13, <1>14, <1>15 DEF Next, Main, Watcher, InstallExits, Crash

\* A node that was enabled when main() found it has Portworx whenever the
\* monitor has settled and the label is true again, unless the last install of
\* the watch failed, whatever the label was in between.
THEOREM EnabledCorrect == Spec => []EnabledIsInstalled
  <1>1. Init => EnabledInv
    BY InitAgree DEF Init, EnabledInv, Acting, Kept, Watches
  <1>2. EnabledInv /\ [Next]_vars => EnabledInv'
    BY StepType, StartedStep, FreshStep, NotedStep, EnabledStep DEF EnabledInv, AgreeInv
  <1>3. EnabledInv => EnabledIsInstalled
    BY DEF EnabledInv, AgreeInv, Started, Noted, Busy, Kept, EnabledIsInstalled,
           Installed, Settled, Watches, Disabled
  <1> QED
    BY <1>1, <1>2, <1>3, PTL DEF Spec
=============================================================================

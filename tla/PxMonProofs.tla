----------------------------- MODULE PxMonProofs ------------------------------
(***************************************************************************)
(* What holds of PxMon for any containers and any number of signals: it is *)
(* well typed, install() stops no container that runs, and a handler that  *)
(* comes after it and meets no error leaves no container Docker lists.     *)
(***************************************************************************)
EXTENDS PxMon, TLAPS

States == {"none", "created", "running", "restarting", "exited"}

\* The initial states are well typed.
LEMMA InitType == Init => TypeOK
  <1> SUFFICES ASSUME Init PROVE TypeOK
    OBVIOUS
  <1>1. cntr \in [Ids -> {"none", "created", "running", "restarting", "exited"}]
    BY DEF Init
  <1>2. 0 \in 0..MaxFaults /\ 0 \in 0..MaxDeaths /\ 0 \in 0..MaxKills
        /\ 0 \in 0..MaxMoves
    BY BoundsAssumption
  <1>3. old \subseteq Ids
    BY DEF Init
  <1> QED BY <1>1, <1>2, <1>3 DEF Init, TypeOK, Phases

\* So is what is left of a process that ended.
LEMMA DieType ==
    ASSUME Die
    PROVE  /\ pc' = "down" /\ list' = {} /\ running' = {} /\ pending' = FALSE
           /\ handler' \in [Handlers -> Phases \union Ids]
           /\ todo' \in [Handlers -> SUBSET Ids]
           /\ late' \in [Handlers -> BOOLEAN] /\ missed' \in [Handlers -> BOOLEAN]
  BY DEF Die, Phases

\* The budget of failures is respected.
LEMMA FaultType ==
    ASSUME faults \in 0..MaxFaults, Ok \/ Fault
    PROVE  faults' \in 0..MaxFaults
  BY BoundsAssumption DEF Ok, Fault

\* A container that changes its state has one.
LEMMA CntrType ==
    ASSUME cntr \in [Ids -> States], NEW c \in Ids, NEW s \in States
    PROVE  [cntr EXCEPT ![c] = s] \in [Ids -> States]
  OBVIOUS

\* Every step preserves the types.
LEMMA StepType == TypeOK /\ [Next]_vars => TypeOK'
  <1> SUFFICES ASSUME TypeOK, [Next]_vars PROVE TypeOK'
    OBVIOUS
  <1>0. cntr \in [Ids -> States] /\ faults \in 0..MaxFaults
    BY DEF TypeOK, States
  <1> USE DEF TypeOK, Goto, install, docker, hands, spent
  <1>1. CASE Boot \/ List \/ Pull
    BY <1>1 DEF Boot, List, Pull, Listed, Exists
  <1>2. CASE Clear
    <2>1. /\ pc' \in {"clear", "pull", "up"}
          /\ list' \subseteq Ids /\ (pc' = "pull" => list' = {})
          /\ cntr' \in [Ids -> States]
      BY <1>0, <1>2, CntrType DEF Clear, ClearIf, States
    <2> QED BY <1>2, <2>1 DEF Clear, ClearIf, States
  <1>3. CASE Create
    BY <1>0, <1>3, CntrType DEF Create, Fresh, States
  <1>4. CASE Start
    BY <1>4 DEF Start
  <1>5. CASE InstallFails
    BY <1>0, <1>5, DieType, FaultType DEF InstallFails
  <1>6. CASE Signal
    BY <1>6 DEF Signal
  <1>7. ASSUME NEW h \in Handlers, Dispatch(h) \/ HandlerEnd(h) PROVE TypeOK'
    BY <1>7 DEF Dispatch, HandlerEnd, Phases
  <1>8. ASSUME NEW h \in Handlers, HandlerList(h) PROVE TypeOK'
    <2>1. faults' \in 0..MaxFaults
      BY <1>0, <1>8, FaultType DEF HandlerList, ListFor
    <2>2. /\ handler' \in [Handlers -> Phases \union Ids]
          /\ todo' \in [Handlers -> SUBSET Ids]
      BY <1>8 DEF HandlerList, ListFor, Phases, Listed, Exists
    <2>3. late' \in [Handlers -> BOOLEAN] /\ missed' \in [Handlers -> BOOLEAN]
      <3>1. (pc = "up") \in BOOLEAN
        OBVIOUS
      <3> QED BY <1>8, <3>1 DEF HandlerList, ListFor
    <2> QED BY <1>8, <2>1, <2>2, <2>3 DEF HandlerList, ListFor
  <1>9. ASSUME NEW h \in Handlers, HandlerStop(h) PROVE TypeOK'
    <2>1. faults' \in 0..MaxFaults
      BY <1>0, <1>9, FaultType DEF HandlerStop
    <2>2. cntr' \in [Ids -> States]
      BY <1>0, <1>9, CntrType DEF HandlerStop, States
    <2>3. handler' \in [Handlers -> Phases \union Ids]
      BY <1>9 DEF HandlerStop
    <2>4. todo' \in [Handlers -> SUBSET Ids] /\ missed' \in [Handlers -> BOOLEAN]
      BY <1>9 DEF HandlerStop
    <2> QED BY <1>9, <2>1, <2>2, <2>3, <2>4 DEF HandlerStop, States
  <1>10. ASSUME NEW h \in Handlers, HandlerRemove(h) PROVE TypeOK'
    <2>1. faults' \in 0..MaxFaults
      BY <1>0, <1>10, FaultType DEF HandlerRemove
    <2>2. cntr' \in [Ids -> States] /\ missed' \in [Handlers -> BOOLEAN]
      BY <1>0, <1>10, CntrType DEF HandlerRemove, States
    <2>3. handler' \in [Handlers -> Phases \union Ids]
      BY <1>10 DEF HandlerRemove, Phases
    <2> QED BY <1>10, <2>1, <2>2, <2>3 DEF HandlerRemove, States
  <1>11. CASE ContainerDies \/ Revive
    BY <1>11, BoundsAssumption DEF ContainerDies, Revive
  <1>12. CASE Kill
    BY <1>12, DieType, BoundsAssumption DEF Kill
  <1>13. CASE Wait \/ UNCHANGED vars
    BY <1>13 DEF Wait, vars
  <1>14. CASE MoveTag
    <2>1. old' \subseteq Ids /\ moves' \in 0..MaxMoves
      BY <1>14, BoundsAssumption DEF MoveTag, Exists
    <2> QED BY <1>14, <2>1 DEF MoveTag
  <1> QED BY <1>1, <1>2, <1>3, <1>4, <1>5, <1>6, <1>7, <1>8, <1>9, <1>10, <1>11,
             <1>12, <1>13, <1>14 DEF Next, Install, Handle

\* Every reachable state of the monitor is well typed.
THEOREM TypeCorrect == Spec => []TypeOK
  BY InitType, StepType, PTL DEF Spec

-----------------------------------------------------------------------------
\* A step of install() or of its end stops no container that runs.
LEMMA NotStopped ==
    ASSUME TypeOK, [Next]_vars, install' # install,
           NEW c \in Ids, cntr[c] = "running"
    PROVE  cntr'[c] = "running"
  <1> USE DEF TypeOK, docker
  <1>1. CASE Boot \/ List \/ Pull \/ InstallFails \/ MoveTag \/ Kill
    BY <1>1 DEF Boot, List, Pull, InstallFails, MoveTag, Kill
  <1>2. CASE Clear
    BY <1>2 DEF Clear, ClearIf, Removable
  <1>3. CASE Create
    BY <1>3 DEF Create, Fresh, Exists
  <1>4. CASE Start
    BY <1>4 DEF Start
  <1>5. CASE Signal \/ ContainerDies \/ Revive \/ Wait \/ UNCHANGED vars
    BY <1>5 DEF Signal, ContainerDies, Revive, Wait, vars
  <1>6. ASSUME NEW h \in Handlers, Handle(h) PROVE install' = install
    BY <1>6 DEF Handle, Dispatch, HandlerList, ListFor, HandlerStop, HandlerRemove,
                HandlerEnd, install
  <1> QED BY <1>1, <1>2, <1>3, <1>4, <1>5, <1>6 DEF Next, Install

\* install() never stops a container that runs, however old its list is.
THEOREM NeverDisturbs == Spec => Undisturbed
  <1>1. TypeOK /\ [Next]_vars =>
           [install' # install => \A c \in Ids :
               cntr[c] = "running" => cntr'[c] = "running"]_vars
    BY NotStopped
  <1> QED BY <1>1, TypeCorrect, PTL DEF Spec, Undisturbed

-----------------------------------------------------------------------------
\* Why StopHolds holds: nothing is created after install() has ended, and what
\* is listed is on the list of a handler that has missed nothing, or in its hands.
Covered(h) == /\ pc = "up"
              /\ handler[h] \in {"stop", "done"} \union Ids
              /\ Listed \subseteq todo[h] \union {handler[h]}
              /\ handler[h] = "done" => todo[h] = {}
StopInv == TypeOK /\ \A h \in Handlers : late[h] /\ ~missed[h] => Covered(h)

\* The invariant implies the property.
LEMMA StopEnough == StopInv => StopHolds
  BY IdsAssumption DEF StopInv, StopHolds, Covered, Listed, Exists, Phases

\* A step that creates no container and leaves a handler and its list alone
\* keeps it covered.
LEMMA StaysCovered ==
    ASSUME NEW h \in Handlers, Covered(h), pc' = pc, Listed' \subseteq Listed,
           handler'[h] = handler[h], todo'[h] = todo[h]
    PROVE  Covered(h)'
  BY DEF Covered

\* Every step preserves the invariant.
LEMMA StopStep == StopInv /\ [Next]_vars => StopInv'
  <1> SUFFICES ASSUME StopInv, [Next]_vars,
                      NEW h \in Handlers, late'[h], ~missed'[h]
               PROVE  Covered(h)'
    BY StepType DEF StopInv
  <1> USE DEF docker
  <1>0. TypeOK /\ (late[h] /\ ~missed[h] => Covered(h))
    BY DEF StopInv
  <1>1. CASE Boot \/ List \/ Clear \/ Pull \/ Create \/ Start
    BY <1>0, <1>1 DEF Boot, List, Clear, ClearIf, Pull, Create, Start, Goto, hands, Covered
  <1>2. CASE InstallFails \/ Kill
    BY <1>2 DEF InstallFails, Kill, Die
  <1>3. CASE Signal \/ ContainerDies \/ Revive \/ MoveTag \/ Wait \/ UNCHANGED vars
    BY <1>0, <1>3, StaysCovered
       DEF Signal, ContainerDies, Revive, MoveTag, Wait, vars, install, hands, Listed,
           Exists, TypeOK
  <1>4. ASSUME NEW g \in Handlers, Dispatch(g) PROVE Covered(h)'
    BY <1>0, <1>4, IdsAssumption
       DEF Dispatch, Covered, Listed, Exists, install, Phases, TypeOK
  <1>5. ASSUME NEW g \in Handlers, HandlerList(g) PROVE Covered(h)'
    <2>1. CASE g = h
      BY <1>0, <1>5, <2>1 DEF HandlerList, ListFor, Covered, Listed, Exists, install, TypeOK
    <2>2. CASE g # h
      BY <1>0, <1>5, <2>2 DEF HandlerList, ListFor, Covered, Listed, Exists, install, TypeOK
    <2> QED BY <2>1, <2>2
  <1>6. ASSUME NEW g \in Handlers, HandlerStop(g) PROVE Covered(h)'
    <2>1. Listed' \subseteq Listed
      BY <1>0, <1>6 DEF HandlerStop, Listed, Exists, TypeOK
    <2>2. CASE g = h
      BY <1>0, <1>6, <2>1, <2>2, IdsAssumption
         DEF HandlerStop, Covered, Listed, Exists, install, Phases, TypeOK
    <2>3. CASE g # h
      BY <1>0, <1>6, <2>1, <2>3, StaysCovered DEF HandlerStop, install, TypeOK
    <2> QED BY <2>2, <2>3
  <1>7. ASSUME NEW g \in Handlers, HandlerRemove(g) PROVE Covered(h)'
    <2>1. Listed' \subseteq Listed
      BY <1>0, <1>7 DEF HandlerRemove, Listed, Exists, TypeOK
    <2>2. CASE g = h
      BY <1>0, <1>7, <2>1, <2>2
         DEF HandlerRemove, Covered, Listed, Exists, install, TypeOK
    <2>3. CASE g # h
      BY <1>0, <1>7, <2>1, <2>3, StaysCovered DEF HandlerRemove, install, TypeOK
    <2> QED BY <2>2, <2>3
  <1>8. ASSUME NEW g \in Handlers, HandlerEnd(g) PROVE Covered(h)'
    BY <1>0, <1>8, IdsAssumption
       DEF HandlerEnd, Covered, Listed, Exists, install, Phases, TypeOK
  <1> QED BY <1>1, <1>2, <1>3, <1>4, <1>5, <1>6, <1>7, <1>8 DEF Next, Install, Handle

\* A handler that lists the containers after install() has ended and meets no
\* error leaves none that Docker lists, whatever is done beside it.
THEOREM StopCorrect == Spec => []StopHolds
  <1>1. Init => StopInv
    BY InitType DEF Init, StopInv
  <1> QED BY <1>1, StopStep, StopEnough, PTL DEF Spec
=============================================================================

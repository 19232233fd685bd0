-------------------------------- MODULE PxMon --------------------------------
(***************************************************************************)
(* px-mon, the Docker Swarm monitor (src/px-mon/px-mon.go): a process that *)
(* installs the container named px and then waits, and whose SIGTERM       *)
(* handler stops and removes what it finds.  Every signal gets a goroutine *)
(* of its own, which works on a list of container IDs that may be out of   *)
(* date, beside install() and beside other handlers.                       *)
(*                                                                         *)
(* Docker is modelled as it is used here: a new container has an ID nobody *)
(* holds, the name px belongs to one container at a time, one whose process*)
(* died is restarted ("unless-stopped"), and only what does not run can be *)
(* removed.  Containers are listed by the image that has px's tag now.     *)
(***************************************************************************)
EXTENDS Naturals, FiniteSets

CONSTANTS
    Ids,        \* container IDs
    Handlers,   \* bound: the goroutines that may run handlerSigTerm
    MaxFaults,  \* bound: how many calls of Docker fail
    MaxDeaths,  \* bound: how often the process in the container dies
    MaxKills,   \* bound: how often the monitor itself is killed
    MaxMoves    \* bound: how often somebody's pull moves the tag

Phases == {"idle", "list", "stop", "done"}

ASSUME IdsAssumption == Ids # {} /\ Ids \intersect Phases = {}
ASSUME BoundsAssumption == /\ MaxFaults \in Nat /\ MaxDeaths \in Nat
                           /\ MaxKills \in Nat /\ MaxMoves \in Nat

VARIABLES
    pc,        \* where main() and install() are
    cntr,      \* the state of each container
    old,       \* the containers of an image that had the tag before
    list,      \* what install() works on: the listed containers, or its own
    running,   \* those that were listed as running
    pending,   \* is there a signal in the channel?
    handler,   \* where each handler is; the ID of what it is to remove
    todo,      \* the containers it has listed and not dealt with
    late,      \* history: did it list them after install() had ended?
    missed,    \* history: has a call of it failed?
    faults, deaths, kills, moves    \* spent of each bound

install == <<pc, list, running>>
hands   == <<pending, handler, todo, late, missed>>
docker  == <<cntr, old>>
spent   == <<faults, deaths, kills, moves>>
vars    == <<install, docker, hands, spent>>

Exists     == {c \in Ids : cntr[c] # "none"}

\* What Docker lists for the image px-mon asks for.
Listed     == Exists \ old
Fresh      == {c \in Ids \ (Exists \union list) :
                  \A h \in Handlers : c \notin todo[h] /\ handler[h] # c}

\* Faulty variant: containers are removed with force.
RemovableByForce == Exists

Removable == {c \in Ids : cntr[c] \in {"created", "exited"}}

Fault == faults < MaxFaults /\ faults' = faults + 1
Ok    == UNCHANGED faults

Goto(from, to) == pc = from /\ pc' = to

\* The process is gone, and its goroutines with it.
Die == /\ pc' = "down"
       /\ list' = {} /\ running' = {} /\ pending' = FALSE
       /\ handler' = [h \in Handlers |-> "idle"]
       /\ todo' = [h \in Handlers |-> {}]
       /\ late' = [h \in Handlers |-> FALSE]
       /\ missed' = [h \in Handlers |-> FALSE]

Init == /\ pc = "down"
        /\ \E c \in Ids, s \in {"none", "created", "running", "restarting",
                                "exited"} :
              /\ cntr = [d \in Ids |-> IF d = c THEN s ELSE "none"]
              /\ old \in {{}, {c}}
        /\ list = {} /\ running = {} /\ pending = FALSE
        /\ handler = [h \in Handlers |-> "idle"]
        /\ todo = [h \in Handlers |-> {}]
        /\ late = [h \in Handlers |-> FALSE]
        /\ missed = [h \in Handlers |-> FALSE]
        /\ faults = 0 /\ deaths = 0 /\ kills = 0 /\ moves = 0

-----------------------------------------------------------------------------
\* The orchestrator starts the monitor, and main() its signal handlers.
Boot == /\ Goto("down", "list")
        /\ UNCHANGED <<list, running, docker, hands, spent>>

\* install() lists the px containers, running or not.
List == /\ Goto("list", "clear")
        /\ list' = Listed
        /\ running' = {c \in Listed : cntr[c] = "running"}
        /\ UNCHANGED <<docker, hands, spent>>

\* One that was listed as running is left alone and is all that is needed;
\* others are removed, one after the other, in the order of the list.
ClearIf(done, inUse) ==
    /\ pc = "clear"
    /\ \/ done /\ pc' = "pull" /\ UNCHANGED <<list, cntr>>
       \/ inUse /\ pc' = "up" /\ UNCHANGED <<list, cntr>>
       \/ \E c \in (list \ running) \intersect Removable :
             /\ cntr' = [cntr EXCEPT ![c] = "none"]
             /\ list' = list \ {c}
             /\ UNCHANGED pc
    /\ UNCHANGED <<running, old, hands, spent>>

InUse == list \intersect running # {}

\* Faulty variants: a container that is there is left for what it is, or the
\* error of its removal is dropped.
ClearNothing == ClearIf(list = {}, list # {})
ClearAnyway  == ClearIf(TRUE, InUse)

Clear == ClearIf(list = {}, InUse)

Pull == /\ Goto("pull", "create")
        /\ UNCHANGED <<list, running, docker, hands, spent>>

\* The name px is free.
Create == /\ Goto("create", "start")
          /\ Exists = {}
          /\ \E c \in Fresh : /\ cntr' = [cntr EXCEPT ![c] = "created"]
                              /\ list' = {c}
                              /\ old' = old \ {c}
          /\ UNCHANGED <<running, hands, spent>>

Start == /\ Goto("start", "up")
         /\ list \subseteq Removable
         /\ cntr' = [c \in Ids |-> IF c \in list THEN "running" ELSE cntr[c]]
         /\ list' = {}
         /\ UNCHANGED <<running, old, hands, spent>>

\* A call of install() fails, because Docker does or because somebody else
\* has changed the container meanwhile: main() prints it and returns.
InstallFails ==
    /\ \/ pc \in {"list", "clear", "pull", "create", "start"} /\ Fault
       \/ pc = "clear" /\ (list \ running) \ Removable # {} /\ Ok
       \/ pc = "create" /\ Exists # {} /\ Ok
       \/ pc = "start" /\ list \ Removable # {} /\ Ok
    /\ Die
    /\ UNCHANGED <<docker, deaths, kills, moves>>

-----------------------------------------------------------------------------
\* SIGTERM; a signal that finds the channel full is dropped.
Signal == /\ pc # "down" /\ ~pending
          /\ pending' = TRUE
          /\ UNCHANGED <<install, docker, handler, todo, late, missed, spent>>

Dispatch(h) == /\ pending /\ handler[h] = "idle"
               /\ pending' = FALSE
               /\ handler' = [handler EXCEPT ![h] = "list"]
               /\ UNCHANGED <<install, docker, todo, late, missed, spent>>

ListFor(h, found) ==
    /\ handler[h] = "list"
    /\ \/ /\ handler' = [handler EXCEPT ![h] = "stop"]
          /\ todo' = [todo EXCEPT ![h] = found]
          /\ late' = [late EXCEPT ![h] = pc = "up"]
          /\ Ok
          /\ UNCHANGED missed
       \/ /\ handler' = [handler EXCEPT ![h] = "done"]
          /\ missed' = [missed EXCEPT ![h] = TRUE]
          /\ Fault
          /\ UNCHANGED <<todo, late>>
    /\ UNCHANGED <<install, docker, pending, deaths, kills, moves>>

\* Faulty variant: only what runs is listed.
ListRunning(h) == ListFor(h, {c \in Ids : cntr[c] = "running"})

HandlerList(h) == ListFor(h, Listed)

\* The next container is stopped; one that cannot be is skipped.
HandlerStop(h) ==
    /\ handler[h] = "stop"
    /\ \E c \in todo[h] :
          /\ todo' = [todo EXCEPT ![h] = @ \ {c}]
          /\ \/ /\ cntr[c] \in {"running", "restarting"}
                /\ cntr' = [cntr EXCEPT ![c] = "exited"]
                /\ handler' = [handler EXCEPT ![h] = c]
                /\ Ok
                /\ UNCHANGED missed
             \/ /\ (cntr[c] \notin {"running", "restarting"} /\ Ok) \/ Fault
                /\ missed' = [missed EXCEPT ![h] = TRUE]
                /\ UNCHANGED <<cntr, handler>>
    /\ UNCHANGED <<install, old, pending, late, deaths, kills, moves>>

\* ... and removed, or left where it is.
HandlerRemove(h) ==
    /\ handler[h] \in Ids
    /\ handler' = [handler EXCEPT ![h] = "stop"]
    /\ \/ /\ handler[h] \in Removable
          /\ cntr' = [cntr EXCEPT ![handler[h]] = "none"]
          /\ Ok
          /\ UNCHANGED missed
       \/ /\ (handler[h] \notin Removable /\ Ok) \/ Fault
          /\ missed' = [missed EXCEPT ![h] = TRUE]
          /\ UNCHANGED cntr
    /\ UNCHANGED <<install, old, pending, todo, late, deaths, kills, moves>>

HandlerEnd(h) ==
    /\ handler[h] = "stop" /\ todo[h] = {}
    /\ handler' = [handler EXCEPT ![h] = "done"]
    /\ UNCHANGED <<install, docker, pending, todo, late, missed, spent>>

-----------------------------------------------------------------------------
\* The process in the container dies, and Docker starts it again.
ContainerDies ==
    /\ deaths < MaxDeaths /\ deaths' = deaths + 1
    /\ \E c \in Ids : /\ cntr[c] = "running"
                      /\ cntr' = [cntr EXCEPT ![c] = "restarting"]
    /\ UNCHANGED <<install, old, hands, faults, kills, moves>>

Revive ==
    /\ \E c \in Ids : /\ cntr[c] = "restarting"
                      /\ cntr' = [cntr EXCEPT ![c] = "running"]
    /\ UNCHANGED <<install, old, hands, spent>>

\* Somebody pulls a newer image: a container of the one before is not listed
\* any more.
MoveTag == /\ moves < MaxMoves /\ moves' = moves + 1
           /\ old' = old \union Exists
           /\ UNCHANGED <<install, cntr, hands, faults, deaths, kills>>

\* SIGKILL cannot be caught, so handlerSigKill never runs.
Kill == /\ pc # "down"
        /\ kills < MaxKills /\ kills' = kills + 1
        /\ Die
        /\ UNCHANGED <<docker, faults, deaths, moves>>

\* main() waits for ever, and handlers that are done are done.
Wait == pc = "up" /\ UNCHANGED vars

Install == Boot \/ List \/ Clear \/ Pull \/ Create \/ Start \/ InstallFails

Handle(h) == \/ Dispatch(h) \/ HandlerList(h) \/ HandlerStop(h)
             \/ HandlerRemove(h) \/ HandlerEnd(h)

Next == \/ Install \/ Signal \/ \E h \in Handlers : Handle(h)
        \/ ContainerDies \/ Revive \/ MoveTag \/ Kill \/ Wait

Spec == Init /\ [][Next]_vars

\* The monitor is restarted by the orchestrator and runs; so does Docker.
FairSpec == Spec /\ WF_vars(Install) /\ WF_vars(Revive)

-----------------------------------------------------------------------------
TypeOK ==
    /\ pc \in {"down", "list", "clear", "pull", "create", "start", "up"}
    /\ cntr \in [Ids -> {"none", "created", "running", "restarting", "exited"}]
    /\ old \subseteq Ids /\ list \subseteq Ids /\ running \subseteq Ids
    /\ pc \in {"pull", "create"} => list = {}
    /\ pending \in BOOLEAN
    /\ handler \in [Handlers -> Phases \union Ids]
    /\ todo \in [Handlers -> SUBSET Ids]
    /\ late \in [Handlers -> BOOLEAN] /\ missed \in [Handlers -> BOOLEAN]
    /\ faults \in 0..MaxFaults
    /\ deaths \in 0..MaxDeaths
    /\ kills \in 0..MaxKills
    /\ moves \in 0..MaxMoves

\* handlerSigTerm does what it is for: when one that listed the containers
\* after install() had ended is done and no call of it failed, none is left but
\* of an image that lost the tag.  One that ran beside install() may leave a
\* container, stopped or running.
StopHolds ==
    \A h \in Handlers :
       handler[h] = "done" /\ late[h] /\ ~missed[h] => Listed = {}

\* install() never stops a container that runs, however old its list is:
\* what it removes it removes without force.
Undisturbed ==
    [][install' # install =>
          \A c \in Ids : cntr[c] = "running" => cntr'[c] = "running"]_vars

\* README.md: px-mon is there to "ensure Portworx is running".  Whenever the
\* monitor is down, px runs some time later, whatever state it was left in, but
\* for a container of an image that lost the tag: it is not found, and the name
\* is not free.
ComesUp == pc = "down" ~> \E c \in Exists : cntr[c] = "running" \/ c \in old
=============================================================================

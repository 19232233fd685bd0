--------------------------- MODULE OciSwitchProofs ---------------------------
(***************************************************************************)
(* What holds of OciSwitch for any number of parts, any images and any     *)
(* bounds: its type; that a switch never loses a part of the earlier       *)
(* installation, and restores it when it is rolled back; that an install   *)
(* that succeeds leaves a whole tree and an enabled service that runs it;  *)
(* and that OciSwitch implements AtomicUpgrade.  Each of these but the     *)
(* first rests on what the node must not do, named before its theorem.     *)
(***************************************************************************)
EXTENDS OciSwitch, TLAPS

\* The first part and the last one are parts, and there are two of them.
LEMMA PartsFacts == /\ 1 \in Parts /\ N \in Parts /\ N # 1
                    /\ \A p \in Parts : p \in Nat /\ p >= 1 /\ p <= N
                    /\ \A p \in Parts : p # N => p + 1 \in Parts
  BY NAssumption DEF Parts

\* A move, complete or not, leaves known contents at both ends.
LEMMA MoveContents ==
  ASSUME NEW p \in Parts, NEW s \in Contents, NEW d \in Contents
  PROVE  /\ Landed(p, s, d) \in Contents
         /\ \A m \in Interrupted(p, s, d) : m[1] \in Contents /\ m[2] \in Contents
  BY DEF Landed, Interrupted, Contents

\* What a tree holds, and what it amounts to, are contents.
LEMMA TreeContents ==
  ASSUME NEW t \in Tree
  PROVE  /\ Whole(t) \in Contents
         /\ \A p \in Parts : t[p] \in Contents
  BY PartsFacts DEF Tree, Whole, Contents

\* Setting one part of a tree gives a tree.
LEMMA SetPart ==
  ASSUME NEW t \in Tree, NEW p \in Parts, NEW c \in Contents
  PROVE  [t EXCEPT ![p] = c] \in Tree
  BY DEF Tree

\* A move of a part between two trees that does not complete leaves trees.
LEMMA InterruptedTrees ==
  ASSUME NEW t \in Tree, NEW u \in Tree, NEW p \in Parts,
         NEW m \in Interrupted(p, t[p], u[p])
  PROVE  [t EXCEPT ![p] = m[1]] \in Tree /\ [u EXCEPT ![p] = m[2]] \in Tree
  <1>1. m[1] \in Contents /\ m[2] \in Contents
    BY TreeContents, MoveContents
  <1> QED
    BY <1>1, SetPart

\* What is left of a tree is one, and holds nothing new.
LEMMA PartlyFacts ==
  ASSUME NEW t \in Tree, NEW u \in PartlyDeleted(t)
  PROVE  /\ u \in Tree /\ u[N] \in {t[N], None}
         /\ \A p \in Parts : t[p] = None => u[p] = None
  BY PartsFacts DEF PartlyDeleted, Remnants

\* The tree without any part is one.
LEMMA EmptyTree == Empty \in Tree
  BY DEF Empty, Tree, Contents

\* The initial states have their types.
LEMMA InitType == Init => TypeOK
  <1> SUFFICES ASSUME Init PROVE TypeOK
    OBVIOUS
  <1>1. org \in Tree /\ running \in Contents /\ unit \in BOOLEAN /\ enabled \in BOOLEAN
    BY EmptyTree DEF Init, Tree, Contents
  <1>2. faults \in 0..MaxFaults /\ crashes \in 0..MaxCrashes
        /\ installs \in 0..MaxInstalls /\ uninstalls \in 0..MaxUninstalls
    BY BoundsAssumption DEF Init
  <1>3. sweep \in [Dirs -> Nat]
    BY DEF Init
  <1> QED
    BY <1>1, <1>2, <1>3, PartsFacts, EmptyTree DEF Init, TypeOK

\* The budget of failures is respected by a step that fails and by one that
\* does not.
LEMMA FaultType ==
  ASSUME faults \in 0..MaxFaults, Ok \/ \E k \in Steps : Fault(k)
  PROVE  faults' \in 0..MaxFaults
  BY BoundsAssumption DEF Ok, Fault

\* Dying leaves the control variables typed.
LEMMA DieType ==
  ASSUME Die
  PROVE  pc' = "boot" /\ booting' \in BOOLEAN /\ result' = "none"
         /\ sweep' \in [Dirs -> Nat]
  BY DEF Die

\* Launching a sweep keeps the counts natural.
LEMMA LaunchType ==
  ASSUME sweep \in [Dirs -> Nat], Launch
  PROVE  sweep' \in [Dirs -> Nat]
  BY DEF Launch, Dirs

\* Every step preserves the type invariant.
LEMMA StepType == TypeOK /\ [Next]_vars => TypeOK'
  <1> SUFFICES ASSUME TypeOK, [Next]_vars PROVE TypeOK'
    OBVIOUS
  <1> USE DEF flow, files, node, spent, InstallPcs, SwitchPcs, UninstallPcs
  <1>0. org \in Tree /\ neo \in Tree /\ scr \in Tree /\ part \in Parts
    BY DEF TypeOK
  <1>1. CASE SkipInstall
    BY <1>1 DEF SkipInstall, TypeOK, Goto, Ok
  <1>2. CASE StartInstall
    <2>1. faults' \in 0..MaxFaults
      BY <1>2, FaultType DEF StartInstall, TypeOK, Ok, Fault, Steps
    <2> QED
      BY <1>2, <2>1, BoundsAssumption DEF StartInstall, TypeOK
  <1>3. CASE Decide
    <2>1. faults' \in 0..MaxFaults
      BY <1>3, FaultType DEF Decide, TypeOK, Ok, Fault, Steps
    <2> QED
      BY <1>3, <2>1, PartsFacts DEF Decide, TypeOK, Ok
  <1>4. CASE Populate
    <2>1. neo' \in Tree
      BY <1>4, SetPart DEF Populate, TypeOK, Contents
    <2>2. part' \in Parts
      BY <1>0, <1>4, PartsFacts, NAssumption DEF Populate
    <2> QED
      BY <1>4, <2>1, <2>2, PartsFacts DEF Populate, TypeOK, Ok
  <1>5. CASE ConfigureNew
    <2>1. faults' \in 0..MaxFaults
      BY <1>5, FaultType DEF ConfigureNew, TypeOK, Ok, Fault, Steps
    <2>2. neo' \in Tree
      BY <1>0, <1>5, SetPart, PartsFacts DEF ConfigureNew, TypeOK, Contents
    <2> QED
      BY <1>5, <2>1, <2>2 DEF ConfigureNew, TypeOK
  <1>6. CASE ConfigureInPlace
    <2>1. faults' \in 0..MaxFaults
      BY <1>6, FaultType DEF ConfigureInPlace, TypeOK, Ok, Fault, Steps
    <2> QED
      BY <1>6, <2>1 DEF ConfigureInPlace, TypeOK
  <1>7. CASE Purge
    <2>1. faults' \in 0..MaxFaults
      BY <1>7, FaultType DEF Purge, TypeOK, Ok, Fault, Steps
    <2> QED
      BY <1>0, <1>7, <2>1, EmptyTree, PartlyFacts DEF Purge, Goto, TypeOK
  <1>8. CASE MakeScratch
    <2>1. faults' \in 0..MaxFaults
      BY <1>8, FaultType DEF MakeScratch, TypeOK, Ok, Fault, Steps
    <2> QED
      BY <1>8, <2>1, PartsFacts DEF MakeScratch, TypeOK
  <1>9. CASE StopService
    <2>1. faults' \in 0..MaxFaults
      BY <1>9, FaultType DEF StopService, TypeOK, Ok, Fault, Steps
    <2> QED
      BY <1>9, <2>1 DEF StopService, Goto, TypeOK, Contents
  <1>10. CASE Save
    <2>1. faults' \in 0..MaxFaults
      BY <1>10, FaultType DEF Save, TypeOK, Ok, Fault, Steps
    <2>2. org' \in Tree /\ scr' \in Tree
      <3>1. /\ part \in Parts /\ None \in Contents
            /\ org[part] \in Contents /\ scr[part] \in Contents
        BY TreeContents DEF TypeOK, Contents
      <3>2. CASE UNCHANGED <<org, scr>>
        BY <3>2 DEF TypeOK
      <3>3. CASE /\ scr' = [scr EXCEPT ![part] = Landed(part, org[part], scr[part])]
                 /\ org' = [org EXCEPT ![part] = None]
        BY <3>1, <3>3, SetPart, MoveContents DEF TypeOK
      <3>4. CASE \E m \in Interrupted(part, org[part], scr[part]) :
                    /\ org' = [org EXCEPT ![part] = m[1]]
                    /\ scr' = [scr EXCEPT ![part] = m[2]]
        <4>1. PICK m \in Interrupted(part, org[part], scr[part]) :
                 /\ org' = [org EXCEPT ![part] = m[1]]
                 /\ scr' = [scr EXCEPT ![part] = m[2]]
          BY <3>4
        <4>2. org' \in Tree /\ scr' \in Tree
          BY <1>0, <4>1, InterruptedTrees
        <4> QED
          BY <1>0, <3>4, <4>2
      <3> QED
        BY <1>10, <3>2, <3>3, <3>4 DEF Save
    <2> QED
      BY <1>10, <2>1, <2>2, PartsFacts DEF Save, TypeOK
  <1>11. CASE Place
    <2>1. faults' \in 0..MaxFaults
      BY <1>11, FaultType DEF Place, TypeOK, Ok, Fault, Steps
    <2>2. org' \in Tree /\ neo' \in Tree
      <3>1. /\ part \in Parts /\ None \in Contents
            /\ org[part] \in Contents /\ neo[part] \in Contents
        BY TreeContents DEF TypeOK, Contents
      <3>2. CASE UNCHANGED <<org, neo>>
        BY <3>2 DEF TypeOK
      <3>3. CASE /\ org' = [org EXCEPT ![part] = Landed(part, neo[part], org[part])]
                 /\ neo' = [neo EXCEPT ![part] = None]
        BY <3>1, <3>3, SetPart, MoveContents DEF TypeOK
      <3>4. CASE \E m \in Interrupted(part, neo[part], org[part]) :
                    /\ neo' = [neo EXCEPT ![part] = m[1]]
                    /\ org' = [org EXCEPT ![part] = m[2]]
        <4>1. PICK m \in Interrupted(part, neo[part], org[part]) :
                 /\ neo' = [neo EXCEPT ![part] = m[1]]
                 /\ org' = [org EXCEPT ![part] = m[2]]
          BY <3>4
        <4>2. neo' \in Tree /\ org' \in Tree
          BY <1>0, <4>1, InterruptedTrees
        <4> QED
          BY <1>0, <3>4, <4>2
      <3> QED
        BY <1>11, <3>2, <3>3, <3>4 DEF Place
    <2>3. part' \in Parts
      BY <1>11, PartsFacts DEF Place, TypeOK
    <2> QED
      BY <1>11, <2>1, <2>2, <2>3 DEF Place, TypeOK
  <1>12. CASE Reconfigure
    <2>1. faults' \in 0..MaxFaults
      BY <1>12, FaultType DEF Reconfigure, TypeOK, Ok, Fault, Steps
    <2>2. sweep' \in [Dirs -> Nat]
      BY <1>12, LaunchType DEF Reconfigure, TypeOK
    <2> QED
      BY <1>12, <2>1, <2>2 DEF Reconfigure, TypeOK
  <1>13. CASE RollbackRemove
    <2>1. faults' \in 0..MaxFaults
      BY <1>13, FaultType DEF RollbackRemove, TypeOK, Ok, Fault, Steps
    <2>2. Remnants(part) \union {org[part]} \subseteq Contents
      BY TreeContents DEF TypeOK, Remnants, Contents
    <2>3. org' \in Tree
      BY <1>13, <2>2, SetPart DEF RollbackRemove, TypeOK, Contents
    <2> QED
      BY <1>13, <2>1, <2>3 DEF RollbackRemove, Goto, TypeOK
  <1>14. CASE RollbackMove
    <2>1. faults' \in 0..MaxFaults
      BY <1>14, FaultType DEF RollbackMove, TypeOK, Ok, Fault, Steps
    <2>2. org' \in Tree /\ scr' \in Tree
      <3>1. /\ part \in Parts /\ None \in Contents
            /\ org[part] \in Contents /\ scr[part] \in Contents
        BY TreeContents DEF TypeOK, Contents
      <3>2. CASE UNCHANGED <<org, scr>>
        BY <3>2 DEF TypeOK
      <3>3. CASE /\ org' = [org EXCEPT ![part] = Landed(part, scr[part], org[part])]
                 /\ scr' = [scr EXCEPT ![part] = None]
        BY <3>1, <3>3, SetPart, MoveContents DEF TypeOK
      <3>4. CASE \E m \in Interrupted(part, scr[part], org[part]) :
                    /\ scr' = [scr EXCEPT ![part] = m[1]]
                    /\ org' = [org EXCEPT ![part] = m[2]]
        <4>1. PICK m \in Interrupted(part, scr[part], org[part]) :
                 /\ scr' = [scr EXCEPT ![part] = m[1]]
                 /\ org' = [org EXCEPT ![part] = m[2]]
          BY <3>4
        <4>2. scr' \in Tree /\ org' \in Tree
          BY <1>0, <4>1, InterruptedTrees
        <4> QED
          BY <1>0, <3>4, <4>2
      <3> QED
        BY <1>14, <3>2, <3>3, <3>4 DEF RollbackMove
    <2>3. part' \in Parts
      BY <1>14, PartsFacts DEF RollbackMove, TypeOK
    <2>4. sweep' \in [Dirs -> Nat]
      BY <1>14, LaunchType DEF RollbackMove, TypeOK
    <2> QED
      BY <1>14, <2>1, <2>2, <2>3, <2>4 DEF RollbackMove, TypeOK
  <1>15. CASE Restart
    <2>1. faults' \in 0..MaxFaults
      BY <1>15, FaultType DEF Restart, TypeOK, Ok, Fault, Steps
    <2> QED
      BY <1>15, <2>1, TreeContents DEF Restart, TypeOK
  <1>16. CASE RestartFails
    <2>1. faults' \in 0..MaxFaults
      BY <1>16, FaultType DEF RestartFails, TypeOK, Ok, Fault, Steps
    <2> QED
      BY <1>16, <2>1 DEF RestartFails, Goto, TypeOK, Contents
  <1>17. CASE ReturnError
    BY <1>17, DieType DEF ReturnError, TypeOK, Ok
  <1>18. CASE GiveUp
    <2>1. faults' \in 0..MaxFaults
      BY <1>18, FaultType DEF GiveUp, TypeOK, Ok, Fault, Steps
    <2> QED
      BY <1>18, <2>1, DieType DEF GiveUp, TypeOK
  <1>19. CASE StartUninstall
    BY <1>19, BoundsAssumption DEF StartUninstall, Goto, TypeOK, Ok
  <1>20. CASE UninstallStop
    <2>1. faults' \in 0..MaxFaults
      BY <1>20, FaultType DEF UninstallStop, TypeOK, Ok, Fault, Steps
    <2> QED
      BY <1>20, <2>1 DEF UninstallStop, TypeOK, Contents
  <1>21. CASE UninstallDisable
    <2>1. faults' \in 0..MaxFaults
      BY <1>21, FaultType DEF UninstallDisable, TypeOK, Ok, Fault, Steps
    <2> QED
      BY <1>21, <2>1 DEF UninstallDisable, TypeOK
  <1>22. CASE UninstallRemove
    <2>1. faults' \in 0..MaxFaults
      BY <1>22, FaultType DEF UninstallRemove, TypeOK, Ok, Fault, Steps
    <2>2. org' \in Tree /\ neo' \in Tree /\ scr' \in Tree
      <3>1. CASE RemoveOci
        BY <3>1, EmptyTree DEF RemoveOci, TypeOK, Tree, Contents
      <3>2. CASE RemovePartly
        BY <1>0, <3>2, PartlyFacts DEF RemovePartly
      <3> QED
        BY <1>22, <3>1, <3>2 DEF UninstallRemove
    <2> QED
      BY <1>22, <2>1, <2>2 DEF UninstallRemove, Goto, TypeOK
  <1>23. CASE Sweep
    <2>1. PICK d \in Dirs : SweepFile(d) \/ SweepNext(d)
      BY <1>23 DEF Sweep
    <2>2. CASE SweepFile(d)
      <3>1. neo' \in Tree /\ scr' \in Tree
        <4>1. PICK p \in Parts, r \in {None, Torn} :
                 \/ neo' = [neo EXCEPT ![p] = r] /\ UNCHANGED scr
                 \/ scr' = [scr EXCEPT ![p] = r] /\ UNCHANGED neo
          BY <2>2 DEF SweepFile, Remnants
        <4> QED
          BY <4>1, SetPart DEF TypeOK, Contents
      <3> QED
        BY <2>2, <3>1 DEF SweepFile, TypeOK, Ok
    <2>3. CASE SweepNext(d)
      <3>1. faults' \in 0..MaxFaults
        BY <2>3, FaultType DEF SweepNext, TypeOK, Ok, Fault, Steps
      <3>2. sweep' \in [Dirs -> Nat]
        BY <2>3 DEF SweepNext, TypeOK, Dirs
      <3> QED
        BY <2>3, <3>1, <3>2 DEF SweepNext, TypeOK
    <2> QED
      BY <2>1, <2>2, <2>3
  <1>24. CASE Crash
    <2>1. org' \in Tree /\ neo' \in Tree /\ scr' \in Tree /\ unit' \in BOOLEAN
      <3>1. CASE UNCHANGED <<files, unit>>
        BY <3>1 DEF TypeOK
      <3>2. CASE CutWrite
        <4>1. /\ part \in Parts /\ N \in Parts /\ Torn \in Contents
              /\ unit \in BOOLEAN
          BY PartsFacts DEF TypeOK, Contents
        <4> QED
          BY <1>0, <3>2, <4>1, SetPart DEF CutWrite
      <3>3. CASE CutDelete
        <4>1. part \in Parts /\ None \in Contents /\ Torn \in Contents
              /\ unit \in BOOLEAN
          BY DEF TypeOK, Contents
        <4>2. CASE pc = "purge" /\ scr' \in PartlyDeleted(scr) /\ UNCHANGED <<org, neo, unit>>
          BY <1>0, <4>1, <4>2, PartlyFacts
        <4>3. CASE /\ \E r \in Remnants(part) : org' = [org EXCEPT ![part] = r]
                   /\ UNCHANGED <<neo, scr, unit>>
          <5>1. PICK r \in {None, Torn} : org' = [org EXCEPT ![part] = r]
            BY <4>3 DEF Remnants
          <5>2. org' \in Tree
            BY <1>0, <4>1, <5>1, SetPart
          <5> QED
            BY <1>0, <4>1, <4>3, <5>2
        <4>4. CASE unit' = FALSE /\ RemovePartly
          BY <1>0, <4>1, <4>4, PartlyFacts DEF RemovePartly
        <4> QED
          BY <3>3, <4>2, <4>3, <4>4 DEF CutDelete
      <3>4. /\ part \in Parts /\ org[part] \in Contents
            /\ neo[part] \in Contents /\ scr[part] \in Contents
        BY TreeContents DEF TypeOK
      <3>5. CASE /\ \E m \in Interrupted(part, org[part], scr[part]) :
                       /\ org' = [org EXCEPT ![part] = m[1]]
                       /\ scr' = [scr EXCEPT ![part] = m[2]]
                 /\ UNCHANGED <<neo, unit>>
        <4>1. PICK m \in Interrupted(part, org[part], scr[part]) :
                 /\ org' = [org EXCEPT ![part] = m[1]]
                 /\ scr' = [scr EXCEPT ![part] = m[2]]
          BY <3>5
        <4>2. org' \in Tree /\ scr' \in Tree
          BY <1>0, <4>1, InterruptedTrees
        <4> QED
          BY <1>0, <3>5, <4>2 DEF TypeOK
      <3>6. CASE /\ \E m \in Interrupted(part, neo[part], org[part]) :
                       /\ neo' = [neo EXCEPT ![part] = m[1]]
                       /\ org' = [org EXCEPT ![part] = m[2]]
                 /\ UNCHANGED <<scr, unit>>
        <4>1. PICK m \in Interrupted(part, neo[part], org[part]) :
                 /\ neo' = [neo EXCEPT ![part] = m[1]]
                 /\ org' = [org EXCEPT ![part] = m[2]]
          BY <3>6
        <4>2. neo' \in Tree /\ org' \in Tree
          BY <1>0, <4>1, InterruptedTrees
        <4> QED
          BY <1>0, <3>6, <4>2 DEF TypeOK
      <3>7. CASE /\ \E m \in Interrupted(part, scr[part], org[part]) :
                       /\ scr' = [scr EXCEPT ![part] = m[1]]
                       /\ org' = [org EXCEPT ![part] = m[2]]
                 /\ UNCHANGED <<neo, unit>>
        <4>1. PICK m \in Interrupted(part, scr[part], org[part]) :
                 /\ scr' = [scr EXCEPT ![part] = m[1]]
                 /\ org' = [org EXCEPT ![part] = m[2]]
          BY <3>7
        <4>2. scr' \in Tree /\ org' \in Tree
          BY <1>0, <4>1, InterruptedTrees
        <4> QED
          BY <1>0, <3>7, <4>2 DEF TypeOK
      <3> QED
        BY <1>24, <3>1, <3>2, <3>3, <3>5, <3>6, <3>7 DEF Crash, CutShort, CutMove
    <2>2. crashes' \in 0..MaxCrashes
      BY <1>24, BoundsAssumption DEF Crash, TypeOK
    <2> QED
      BY <1>24, <2>1, <2>2, DieType DEF Crash, TypeOK, Ok
  <1>25. CASE UNCHANGED vars
    BY <1>25 DEF vars, TypeOK
  <1> QED
    BY <1>1, <1>2, <1>3, <1>4, <1>5, <1>6, <1>7, <1>8, <1>9, <1>10, <1>11,
       <1>12, <1>13, <1>14, <1>15, <1>16, <1>17, <1>18, <1>19, <1>20, <1>21,
       <1>22, <1>23, <1>24, <1>25 DEF Next, Install, Uninstall, Rest

\* The variables of OciSwitch always have their types.
THEOREM TypeCorrect == Spec => []TypeOK
  <1> QED
    BY InitType, StepType, PTL DEF Spec

-----------------------------------------------------------------------------
(***************************************************************************)
(* What every later proof rests on: what an install has reached at each    *)
(* point, if it begins only after earlier sweeps have ended.  Moves may    *)
(* cross mounts, anything may fail, and the process may die at any step.   *)
(***************************************************************************)
\* No sweep runs between the pull and the end of a switch.
Quiet == pc \in {"decide", "populate", "runc", "purge", "mkdir"} \union SwitchPcs
           => Swept

\* The new parts that are still to be moved are there.
Ready == /\ pc = "populate" => \A p \in Parts : p < part => neo[p] = image
         /\ pc = "runc" /\ need => \A p \in Parts : p # N => neo[p] = image
         /\ pc \in {"purge", "mkdir", "stop"} => \A p \in Parts : neo[p] = image
         /\ pc \in {"save", "place"}
              => \A p \in Parts : p >= part => neo[p] = image

\* The others are in place, and the part to be placed has been moved away.
Placed == /\ pc \in {"stop", "runc2"} => part = 1
          /\ pc \in {"save", "place"} => \A p \in Parts : p < part => org[p] = image
          /\ pc = "place" => org[part] = None
          /\ pc = "runc2" => \A p \in Parts : org[p] = image

\* The installed ID is the pulled one whenever an install skips the switch or
\* has come through it, until the next one begins.
Matches == /\ pc = "populate" => need
           /\ pc = "runc" /\ ~need => org[N] = image
           /\ pc = "restart" => org[N] = image
           /\ result = "ok" => pc = "idle" /\ org[N] = image

FlowInv == TypeOK /\ Quiet /\ Ready /\ Placed /\ Matches

\* The initial states satisfy it.
LEMMA InitFlow == Init => FlowInv
  BY InitType DEF Init, FlowInv, Quiet, Ready, Placed, Matches, SwitchPcs

\* A sweep only changes what it deletes, and never while an install works.
LEMMA SweepFacts ==
  ASSUME TypeOK, Quiet, Sweep
  PROVE  /\ pc \notin {"decide", "populate", "runc", "purge", "mkdir"} \union SwitchPcs
         /\ UNCHANGED <<pc, part, flow, org, node, spent>>
  <1>1. PICK d \in Dirs : SweepFile(d) \/ SweepNext(d)
    BY DEF Sweep
  <1>2. sweep[d] > 0 /\ sweep[d] \in Nat
    BY <1>1 DEF SweepFile, SweepNext, TypeOK
  <1>3. ~Swept
    BY <1>2 DEF Swept
  <1>4. UNCHANGED <<pc, part, flow, org, node, spent>>
    BY <1>1 DEF SweepFile, SweepNext, files
  <1> QED
    BY <1>3, <1>4 DEF Quiet

\* No step lets a sweep run into a switch.
LEMMA QuietStep ==
  ASSUME SerialSweep, TypeOK, Quiet, [Next]_vars
  PROVE  Quiet'
  <1> USE DEF flow, files, node, spent, SwitchPcs, Swept, Quiet
  <1>1. CASE SkipInstall \/ StartInstall
    BY <1>1 DEF SkipInstall, StartInstall, Goto
  <1>2. CASE Decide \/ Populate \/ ConfigureNew \/ ConfigureInPlace
    BY <1>2 DEF Decide, Populate, ConfigureNew, ConfigureInPlace
  <1>3. CASE Purge \/ MakeScratch \/ StopService
    BY <1>3 DEF Purge, MakeScratch, StopService, Goto
  <1>4. CASE Save \/ Place
    BY <1>4 DEF Save, Place
  <1>5. CASE Reconfigure \/ RollbackRemove \/ RollbackMove
    BY <1>5 DEF Reconfigure, RollbackRemove, RollbackMove, Goto
  <1>6. CASE Restart \/ RestartFails \/ ReturnError \/ GiveUp
    BY <1>6 DEF Restart, RestartFails, ReturnError, GiveUp, Die, Goto
  <1>7. CASE StartUninstall \/ Uninstall
    BY <1>7 DEF StartUninstall, Uninstall, UninstallStop, UninstallDisable,
                UninstallRemove, Goto
  <1>8. CASE Sweep
    BY <1>8, SweepFacts
  <1>9. CASE Crash
    BY <1>9 DEF Crash, Die
  <1>10. CASE UNCHANGED vars
    BY <1>10 DEF vars
  <1> QED
    BY <1>1, <1>2, <1>3, <1>4, <1>5, <1>6, <1>7, <1>8, <1>9, <1>10
       DEF Next, Install, Rest

\* The new parts stay where they are until each is moved.
LEMMA ReadyStep ==
  ASSUME FlowInv, [Next]_vars
  PROVE  Ready'
  <1> USE DEF flow, files, node, spent, SwitchPcs, Ready
  <1>0. TypeOK /\ Quiet /\ Ready /\ part \in Parts /\ neo \in Tree
    BY DEF FlowInv, TypeOK
  <1>1. CASE SkipInstall \/ StartInstall
    BY <1>0, <1>1 DEF SkipInstall, StartInstall, Goto
  <1>2. CASE Decide
    BY <1>0, <1>2, PartsFacts DEF Decide
  <1>3. CASE Populate
    <2>1. \A p \in Parts : p < part \/ p = part => neo'[p] = image
      BY <1>0, <1>3 DEF Populate, Tree
    <2>2. CASE part + 1 >= N
      BY <1>0, <1>3, <2>1, <2>2, PartsFacts, NAssumption DEF Populate
    <2>3. CASE ~(part + 1 >= N)
      BY <1>0, <1>3, <2>1, <2>3, PartsFacts, NAssumption DEF Populate
    <2> QED
      BY <2>2, <2>3
  <1>4. CASE ConfigureNew \/ ConfigureInPlace
    BY <1>0, <1>4, PartsFacts DEF ConfigureNew, ConfigureInPlace, Tree
  <1>5. CASE Purge \/ MakeScratch \/ StopService
    BY <1>0, <1>5 DEF Purge, MakeScratch, StopService, Goto
  <1>6. CASE Save
    BY <1>0, <1>6 DEF Save
  <1>7. CASE Place
    BY <1>0, <1>7, PartsFacts DEF Place, Tree
  <1>8. CASE Reconfigure \/ RollbackRemove \/ RollbackMove
    BY <1>0, <1>8 DEF Reconfigure, RollbackRemove, RollbackMove, Goto
  <1>9. CASE Restart \/ RestartFails \/ ReturnError \/ GiveUp
    BY <1>0, <1>9 DEF Restart, RestartFails, ReturnError, GiveUp, Die, Goto
  <1>10. CASE StartUninstall \/ Uninstall
    BY <1>0, <1>10 DEF StartUninstall, Uninstall, UninstallStop, UninstallDisable,
                       UninstallRemove, Goto
  <1>11. CASE Sweep
    BY <1>0, <1>11, SweepFacts
  <1>12. CASE Crash
    BY <1>0, <1>12 DEF Crash, Die
  <1>13. CASE UNCHANGED vars
    BY <1>0, <1>13 DEF vars
  <1> QED
    BY <1>1, <1>2, <1>3, <1>4, <1>5, <1>6, <1>7, <1>8, <1>9, <1>10, <1>11,
       <1>12, <1>13 DEF Next, Install, Rest

\* A part that is placed goes to an empty place, so it lands as it is.
LEMMA PlaceFacts ==
  ASSUME FlowInv, Place
  PROVE  /\ pc = "place" /\ part \in Parts /\ neo[part] = image
         /\ org[part] = None /\ image # None
         /\ \/ /\ pc' \in {"runc2", "save"}
               /\ org' = [org EXCEPT ![part] = image]
            \/ /\ pc' = "rbremove" /\ part' = 1
               /\ "place" \in FaultKinds
               /\ \E m \in Interrupted(part, image, None) :
                     org' = [org EXCEPT ![part] = m[2]]
  <1>1. /\ pc = "place" /\ part \in Parts /\ image \in Images
        /\ neo[part] = image /\ org[part] = None
    BY PartsFacts DEF Place, FlowInv, TypeOK, Ready, Placed
  <1>2. image # None
    BY <1>1, ContentsAssumption
  <1> QED
    BY <1>1, <1>2 DEF Place, Landed, Fault

\* Parts are placed from the first to the last.
LEMMA PlacedStep ==
  ASSUME FlowInv, [Next]_vars
  PROVE  Placed'
  <1> USE DEF flow, files, node, spent, SwitchPcs, Placed
  <1>0. TypeOK /\ Quiet /\ Placed /\ part \in Parts /\ org \in Tree
    BY DEF FlowInv, TypeOK
  <1>1. CASE SkipInstall \/ StartInstall
    BY <1>0, <1>1 DEF SkipInstall, StartInstall, Goto
  <1>2. CASE Decide \/ Populate \/ ConfigureNew \/ ConfigureInPlace
    BY <1>0, <1>2 DEF Decide, Populate, ConfigureNew, ConfigureInPlace
  <1>3. CASE Purge \/ MakeScratch
    BY <1>0, <1>3 DEF Purge, MakeScratch, Goto
  <1>4. CASE StopService
    BY <1>0, <1>4, PartsFacts DEF StopService, Goto
  <1>5. CASE Save
    BY <1>0, <1>5, PartsFacts DEF Save, Tree
  <1>6. CASE Place
    <2>1. CASE pc' = "rbremove"
      BY <2>1
    <2>2. CASE pc' \in {"runc2", "save"}
      <3>1. org' = [org EXCEPT ![part] = image] /\ UNCHANGED image
        BY <1>6, <2>2, PlaceFacts DEF Place
      <3>2. \A p \in Parts : p < part \/ p = part => org'[p] = image
        BY <1>0, <1>6, <3>1 DEF Place, Tree
      <3>3. IF part = N THEN pc' = "runc2" /\ part' = 1
                        ELSE pc' = "save" /\ part' = part + 1
        BY <1>6, <2>2 DEF Place
      <3> QED
        BY <1>0, <3>1, <3>2, <3>3, PartsFacts, NAssumption
    <2> QED
      BY <1>6, <2>1, <2>2, PlaceFacts
  <1>7. CASE Reconfigure \/ RollbackRemove \/ RollbackMove
    BY <1>0, <1>7 DEF Reconfigure, RollbackRemove, RollbackMove, Goto
  <1>8. CASE Restart \/ RestartFails \/ ReturnError \/ GiveUp
    BY <1>0, <1>8 DEF Restart, RestartFails, ReturnError, GiveUp, Die, Goto
  <1>9. CASE StartUninstall \/ Uninstall
    BY <1>0, <1>9 DEF StartUninstall, Uninstall, UninstallStop, UninstallDisable,
                      UninstallRemove, Goto
  <1>10. CASE Sweep
    BY <1>0, <1>10, SweepFacts
  <1>11. CASE Crash
    BY <1>0, <1>11 DEF Crash, Die
  <1>12. CASE UNCHANGED vars
    BY <1>0, <1>12 DEF vars
  <1> QED
    BY <1>1, <1>2, <1>3, <1>4, <1>5, <1>6, <1>7, <1>8, <1>9, <1>10, <1>11, <1>12
       DEF Next, Install, Rest

\* An install that is not needed, or over, has the installed ID on its side.
LEMMA MatchesStep ==
  ASSUME FlowInv, [Next]_vars
  PROVE  Matches'
  <1> USE DEF flow, files, node, spent, Matches
  <1>0. TypeOK /\ Quiet /\ Placed /\ Matches
    BY DEF FlowInv
  <1>1. CASE SkipInstall \/ StartInstall
    BY <1>0, <1>1 DEF SkipInstall, StartInstall, Goto
  <1>2. CASE Decide
    BY <1>0, <1>2 DEF Decide, Fault, Ok
  <1>3. CASE Populate \/ ConfigureNew
    BY <1>0, <1>3 DEF Populate, ConfigureNew
  <1>4. CASE ConfigureInPlace
    BY <1>0, <1>4 DEF ConfigureInPlace
  <1>5. CASE Purge \/ MakeScratch \/ StopService
    BY <1>0, <1>5 DEF Purge, MakeScratch, StopService, Goto
  <1>6. CASE Save \/ Place
    BY <1>0, <1>6 DEF Save, Place
  <1>7. CASE Reconfigure
    BY <1>0, <1>7, PartsFacts DEF Reconfigure, Placed
  <1>8. CASE RollbackRemove \/ RollbackMove
    BY <1>0, <1>8 DEF RollbackRemove, RollbackMove, Goto
  <1>9. CASE Restart \/ RestartFails \/ ReturnError \/ GiveUp
    BY <1>0, <1>9 DEF Restart, RestartFails, ReturnError, GiveUp, Die, Goto
  <1>10. CASE StartUninstall \/ Uninstall
    BY <1>0, <1>10 DEF StartUninstall, Uninstall, UninstallStop, UninstallDisable,
                       UninstallRemove, Goto
  <1>11. CASE Sweep
    BY <1>0, <1>11, SweepFacts
  <1>12. CASE Crash
    BY <1>0, <1>12 DEF Crash, Die
  <1>13. CASE UNCHANGED vars
    BY <1>0, <1>13 DEF vars
  <1> QED
    BY <1>1, <1>2, <1>3, <1>4, <1>5, <1>6, <1>7, <1>8, <1>9, <1>10, <1>11,
       <1>12, <1>13 DEF Next, Install, Rest

\* Every step preserves what every later proof rests on.
LEMMA FlowStep ==
  ASSUME SerialSweep, FlowInv, [Next]_vars
  PROVE  FlowInv'
  BY StepType, QuietStep, ReadyStep, PlacedStep, MatchesStep DEF FlowInv

-----------------------------------------------------------------------------
(***************************************************************************)
(* No part of the earlier installation is lost when moves within /opt/pwx  *)
(* are renames, the scratch directory can be purged, the rollback can      *)
(* remove what it replaces, and no sweep of an earlier switch is left.     *)
(* Anything else may fail, any number of times, and the process may die at *)
(* any step.  If also the moves of the rollback succeed, it restores all.  *)
(***************************************************************************)
SafeMoves == /\ CrossMount = {}
             /\ SerialSweep
             /\ "purge" \notin FaultKinds
             /\ "rbremove" \notin FaultKinds

SafeRollback == SafeMoves /\ "rbmove" \notin FaultKinds

\* Part p is in one of two places: saved, with nothing or the new one in its
\* place, or never touched.
Recoverable(p) == \/ scr[p] = old[p] /\ org[p] \in {image, None}
                  \/ scr[p] = None /\ org[p] = old[p]

\* The switch has not come to part p.
Pending(p) == scr[p] = None /\ org[p] = old[p]

\* How far the switch or its rollback has come.
Progress ==
    /\ pc = "mkdir" => scr = Empty
    /\ pc \in SwitchPcs => \A p \in Parts : Recoverable(p)
    /\ pc \in {"stop", "save"} => \A p \in Parts : p >= part => Pending(p)
    /\ pc = "place" => \A p \in Parts : p > part => Pending(p)
    /\ pc = "rbmove" => scr[part] = None \/ org[part] = None

\* The rollback leaves nothing behind it in the scratch directory.
Restored ==
    /\ pc \in {"rbremove", "rbmove"} => \A p \in Parts : p < part => scr[p] = None
    /\ pc = "rolledback" =>
         \A p \in Parts : org[p] = old[p] \/ (old[p] = None /\ org[p] = image)

MovesInv    == FlowInv /\ Progress
RollbackInv == MovesInv /\ Restored

\* A move that does not complete has not begun, unless it crosses mounts.
LEMMA RenameFacts ==
  ASSUME SafeMoves, NEW p, NEW s, NEW d, NEW m \in Interrupted(p, s, d)
  PROVE  m[1] = s /\ m[2] = d
  BY DEF SafeMoves, Interrupted

\* What Save does when moves are renames.
LEMMA SaveFacts ==
  ASSUME SafeMoves, MovesInv, Save
  PROVE  /\ pc = "save" /\ part \in Parts /\ Pending(part)
         /\ \/ /\ pc' = "place" /\ UNCHANGED part
               /\ scr' = [scr EXCEPT ![part] = old[part]]
               /\ org' = [org EXCEPT ![part] = None]
            \/ /\ pc' = "rbremove" /\ part' = 1
               /\ scr' = scr /\ org' = org
  <1>1. /\ pc = "save" /\ part \in Parts /\ Pending(part)
        /\ org \in Tree /\ scr \in Tree
    BY PartsFacts DEF Save, MovesInv, FlowInv, TypeOK, Progress
  <1>2. CASE pc' = "place"
    <2>1. CASE org[part] = None
      BY <1>1, <1>2, <2>1 DEF Save, Pending, Tree
    <2>2. CASE org[part] # None
      BY <1>1, <1>2, <2>2 DEF Save, Pending, Landed
    <2> QED
      BY <1>1, <1>2, <2>1, <2>2
  <1>3. CASE pc' = "rbremove"
    <2>1. PICK m \in Interrupted(part, org[part], scr[part]) :
             /\ org' = [org EXCEPT ![part] = m[1]]
             /\ scr' = [scr EXCEPT ![part] = m[2]]
      BY <1>3 DEF Save
    <2>2. m[1] = org[part] /\ m[2] = scr[part]
      BY <2>1, RenameFacts
    <2> QED
      BY <1>1, <1>3, <2>1, <2>2 DEF Save, Tree
  <1> QED
    BY <1>2, <1>3 DEF Save

\* What RollbackMove does when moves are renames: the part is restored, unless
\* the move fails.
LEMMA RollbackMoveFacts ==
  ASSUME SafeMoves, MovesInv, RollbackMove
  PROVE  /\ pc = "rbmove" /\ part \in Parts
         /\ \A p \in Parts : Recoverable(p)'
         /\ \A p \in Parts : p # part => scr'[p] = scr[p]
         /\ "rbmove" \notin FaultKinds => scr'[part] = None
  <1>1. /\ pc = "rbmove" /\ part \in Parts
        /\ org \in Tree /\ scr \in Tree
        /\ \A p \in Parts : Recoverable(p)
        /\ scr[part] = None \/ org[part] = None
        /\ UNCHANGED <<old, image>>
    BY DEF RollbackMove, MovesInv, FlowInv, TypeOK, Progress, SwitchPcs, flow
  <1>2. CASE scr[part] = None
    BY <1>1, <1>2 DEF RollbackMove, Recoverable
  <1>3. CASE /\ scr[part] # None
             /\ org' = [org EXCEPT ![part] = Landed(part, scr[part], org[part])]
             /\ scr' = [scr EXCEPT ![part] = None]
    <2>1. /\ org' = [org EXCEPT ![part] = old[part]]
          /\ scr' = [scr EXCEPT ![part] = None]
      BY <1>1, <1>3 DEF Landed, Recoverable
    <2> QED
      BY <1>1, <2>1 DEF Recoverable, Tree
  <1>4. CASE /\ scr[part] # None /\ Fault("rbmove")
             /\ \E m \in Interrupted(part, scr[part], org[part]) :
                   /\ scr' = [scr EXCEPT ![part] = m[1]]
                   /\ org' = [org EXCEPT ![part] = m[2]]
    <2>1. PICK m \in Interrupted(part, scr[part], org[part]) :
             /\ scr' = [scr EXCEPT ![part] = m[1]]
             /\ org' = [org EXCEPT ![part] = m[2]]
      BY <1>4
    <2>2. m[1] = scr[part] /\ m[2] = org[part]
      BY <2>1, RenameFacts
    <2> QED
      BY <1>1, <1>4, <2>1, <2>2 DEF Recoverable, Tree, Fault
  <1> QED
    BY <1>1, <1>2, <1>3, <1>4 DEF RollbackMove

\* A switch and its rollback go on part by part and keep every part
\* recoverable.
LEMMA ProgressStep ==
  ASSUME SafeMoves, MovesInv, [Next]_vars
  PROVE  Progress'
  <1> USE DEF flow, files, node, spent, SwitchPcs, Progress
  <1>0. /\ TypeOK /\ Quiet /\ Placed /\ Progress /\ part \in Parts
        /\ org \in Tree /\ scr \in Tree /\ old \in Tree
    BY DEF MovesInv, FlowInv, TypeOK
  <1>1. CASE SkipInstall \/ StartInstall
    BY <1>0, <1>1 DEF SkipInstall, StartInstall, Goto
  <1>2. CASE Decide \/ Populate \/ ConfigureNew \/ ConfigureInPlace
    BY <1>0, <1>2 DEF Decide, Populate, ConfigureNew, ConfigureInPlace
  <1>3. CASE Purge
    BY <1>0, <1>3 DEF Purge, Goto, SafeMoves, Fault
  <1>4. CASE MakeScratch
    BY <1>0, <1>4, PartsFacts DEF MakeScratch, Recoverable, Pending, Empty
  <1>5. CASE StopService
    BY <1>0, <1>5, PartsFacts DEF StopService, Goto, Recoverable, Pending
  <1>6. CASE Save
    <2>0. /\ pc = "save" /\ \A p \in Parts : p >= part => Pending(p)
          /\ \A p \in Parts : Recoverable(p)
          /\ UNCHANGED <<old, image>>
      BY <1>0, <1>6 DEF Save
    <2>1. CASE /\ pc' = "place" /\ UNCHANGED part
               /\ scr' = [scr EXCEPT ![part] = old[part]]
               /\ org' = [org EXCEPT ![part] = None]
      <3>1. \A p \in Parts : Recoverable(p)'
        BY <1>0, <2>0, <2>1 DEF Recoverable, Tree
      <3>2. \A p \in Parts : p > part => Pending(p)'
        BY <1>0, <2>0, <2>1, PartsFacts DEF Pending, Tree
      <3> QED
        BY <2>1, <3>1, <3>2
    <2>2. CASE pc' = "rbremove" /\ part' = 1 /\ scr' = scr /\ org' = org
      BY <2>0, <2>2 DEF Recoverable
    <2> QED
      BY <1>6, <2>1, <2>2, SaveFacts
  <1>7. CASE Place
    <2>1. /\ pc = "place" /\ neo[part] = image /\ org[part] = None
          /\ scr[part] = old[part] /\ UNCHANGED <<scr, old, image>>
          /\ \A p \in Parts : Recoverable(p)
          /\ \A p \in Parts : p > part => Pending(p)
      BY <1>0, <1>7, PlaceFacts DEF Place, MovesInv, Recoverable
    <2>2. CASE pc' \in {"runc2", "save"} /\ org' = [org EXCEPT ![part] = image]
      <3>1. \A p \in Parts : Recoverable(p)'
        BY <1>0, <2>1, <2>2 DEF Recoverable, Tree
      <3>2. CASE pc' = "runc2"
        BY <3>1, <3>2
      <3>3. CASE pc' = "save" /\ part' = part + 1
        <4>1. \A p \in Parts : p >= part' => Pending(p)'
          BY <1>0, <2>1, <2>2, <3>3, PartsFacts DEF Pending, Tree
        <4> QED
          BY <3>1, <3>3, <4>1
      <3> QED
        BY <1>7, <2>2, <3>2, <3>3 DEF Place
    <2>3. CASE /\ pc' = "rbremove" /\ part' = 1
               /\ \E m \in Interrupted(part, image, None) :
                     org' = [org EXCEPT ![part] = m[2]]
      <3>1. PICK m \in Interrupted(part, image, None) : org' = [org EXCEPT ![part] = m[2]]
        BY <2>3
      <3>2. m[2] = None
        BY <3>1, RenameFacts
      <3>3. UNCHANGED org
        BY <1>0, <2>1, <3>1, <3>2 DEF Tree
      <3> QED
        BY <2>1, <2>3, <3>3 DEF Recoverable
    <2> QED
      BY <1>7, <2>2, <2>3, PlaceFacts DEF MovesInv
  <1>8. CASE Reconfigure
    BY <1>0, <1>8 DEF Reconfigure, Recoverable
  <1>9. CASE RollbackRemove
    BY <1>0, <1>9 DEF RollbackRemove, Goto, Recoverable, SafeMoves, Fault, Tree
  <1>10. CASE RollbackMove
    BY <1>10, RollbackMoveFacts DEF RollbackMove
  <1>11. CASE Restart \/ RestartFails \/ ReturnError \/ GiveUp
    BY <1>0, <1>11 DEF Restart, RestartFails, ReturnError, GiveUp, Die, Goto
  <1>12. CASE StartUninstall \/ Uninstall
    BY <1>0, <1>12 DEF StartUninstall, Uninstall, UninstallStop, UninstallDisable,
                       UninstallRemove, Goto
  <1>13. CASE Sweep
    BY <1>0, <1>13, SweepFacts
  <1>14. CASE Crash
    BY <1>0, <1>14 DEF Crash, Die
  <1>15. CASE UNCHANGED vars
    BY <1>0, <1>15 DEF vars, Recoverable, Pending
  <1> QED
    BY <1>1, <1>2, <1>3, <1>4, <1>5, <1>6, <1>7, <1>8, <1>9, <1>10, <1>11,
       <1>12, <1>13, <1>14, <1>15 DEF Next, Install, Rest

\* A rollback whose moves succeed has restored every part it has passed.
LEMMA RestoredStep ==
  ASSUME SafeRollback, RollbackInv, [Next]_vars
  PROVE  Restored'
  <1> USE DEF flow, files, node, spent, Restored
  <1>0. TypeOK /\ Quiet /\ Progress /\ Restored /\ part \in Parts
    BY DEF RollbackInv, MovesInv, FlowInv, TypeOK
  <1>1. CASE SkipInstall \/ StartInstall
    BY <1>0, <1>1 DEF SkipInstall, StartInstall, Goto
  <1>2. CASE Decide \/ Populate \/ ConfigureNew \/ ConfigureInPlace
    BY <1>0, <1>2 DEF Decide, Populate, ConfigureNew, ConfigureInPlace
  <1>3. CASE Purge \/ MakeScratch \/ StopService
    BY <1>0, <1>3 DEF Purge, MakeScratch, StopService, Goto
  <1>4. CASE Save \/ Place \/ Reconfigure
    <2>1. pc' # "rolledback" /\ (pc' \in {"rbremove", "rbmove"} => part' = 1)
      BY <1>4 DEF Save, Place, Reconfigure, MovesInv, FlowInv, RollbackInv, Placed
    <2> QED
      BY <2>1, PartsFacts
  <1>5. CASE RollbackRemove
    BY <1>0, <1>5 DEF RollbackRemove, Goto
  <1>6. CASE RollbackMove
    <2>1. /\ \A p \in Parts : Recoverable(p)'
          /\ \A p \in Parts : p < part \/ p = part => scr'[p] = None
          /\ UNCHANGED <<old, image>>
      BY <1>0, <1>6, RollbackMoveFacts, PartsFacts
         DEF SafeRollback, RollbackInv, RollbackMove
    <2>2. CASE pc' = "rolledback" /\ part = N
      <3>1. \A p \in Parts : scr'[p] = None
        BY <2>1, <2>2, PartsFacts, NAssumption
      <3>2. \A p \in Parts : org'[p] = old'[p] \/ (old'[p] = None /\ org'[p] = image')
        BY <2>1, <3>1 DEF Recoverable
      <3> QED
        BY <2>2, <3>2
    <2>3. CASE pc' = "rbremove" /\ part' = part + 1
      BY <1>0, <2>1, <2>3, PartsFacts
    <2> QED
      BY <1>6, <2>2, <2>3 DEF RollbackMove
  <1>7. CASE Restart \/ RestartFails \/ ReturnError \/ GiveUp
    BY <1>0, <1>7 DEF Restart, RestartFails, ReturnError, GiveUp, Die, Goto
  <1>8. CASE StartUninstall \/ Uninstall
    BY <1>0, <1>8 DEF StartUninstall, Uninstall, UninstallStop, UninstallDisable,
                      UninstallRemove, Goto
  <1>9. CASE Sweep
    <2>1. /\ pc \notin SwitchPcs
          /\ UNCHANGED <<pc, part, org, old, image>>
      BY <1>0, <1>9, SweepFacts
    <2> QED
      BY <1>0, <2>1 DEF SwitchPcs
  <1>10. CASE Crash
    BY <1>0, <1>10 DEF Crash, Die
  <1>11. CASE UNCHANGED vars
    BY <1>0, <1>11 DEF vars
  <1> QED
    BY <1>1, <1>2, <1>3, <1>4, <1>5, <1>6, <1>7, <1>8, <1>9, <1>10, <1>11
       DEF Next, Install, Rest

\* No step of a switch or of its rollback loses a part of the installation it
\* replaces, for any number of parts, wherever the process dies and whatever
\* else fails: also if the rollback cannot move a part back.
THEOREM PartsKept ==
  ASSUME SafeMoves
  PROVE  Spec => []NoPartLost
  <1>1. Init => MovesInv
    BY InitFlow, PartsFacts DEF Init, MovesInv, Progress, SwitchPcs
  <1>2. MovesInv /\ [Next]_vars => MovesInv'
    BY FlowStep, ProgressStep DEF MovesInv, SafeMoves
  <1>3. MovesInv => NoPartLost
    BY DEF MovesInv, Progress, Recoverable, NoPartLost, SwitchPcs
  <1> QED
    BY <1>1, <1>2, <1>3, PTL DEF Spec

\* A switch that is rolled back leaves the earlier installation, for any number
\* of parts and any other failures.
THEOREM RollbackCorrect ==
  ASSUME SafeRollback
  PROVE  Spec => []RollbackRestores
  <1>1. Init => RollbackInv
    BY InitFlow, PartsFacts
       DEF Init, RollbackInv, MovesInv, Progress, Restored, SwitchPcs
  <1>2. RollbackInv /\ [Next]_vars => RollbackInv'
    BY FlowStep, ProgressStep, RestoredStep
       DEF RollbackInv, MovesInv, SafeMoves, SafeRollback
  <1>3. RollbackInv => RollbackRestores
    BY DEF RollbackInv, Restored, RollbackRestores
  <1> QED
    BY <1>1, <1>2, <1>3, PTL DEF Spec

-----------------------------------------------------------------------------
(***************************************************************************)
(* A doInstall that succeeds leaves a whole tree, although it looks at     *)
(* config.json alone and the process may have died at any step before, in  *)
(* the middle of a copy too, and earlier switches may have failed and been *)
(* rolled back as far as the rollback got: config.json is the last part of *)
(* an image to arrive, and what a rollback moves back is older.  This asks *)
(* that the registry never serves an older image, that an installed ID is  *)
(* always read, that px-runc configures the new parts once they are all in *)
(* place, that the last one is not copied in when its move fails, and that *)
(* a removal of Portworx is not cut short, by a failure or by a death.     *)
(***************************************************************************)
SafeDeaths == /\ ~Revert
              /\ SerialSweep
              /\ FaultKinds \intersect {"id", "runc2", "unremove"} = {}
              /\ "place" \in FaultKinds => N \notin CrossMount
              /\ MaxCrashes = 0 \/ MaxUninstalls = 0

\* While the new parts are made and moved, and while they are moved back, the
\* installed ID is another one.
Stale == pc \in {"populate", "purge", "mkdir", "stop", "save", "place",
                 "rbremove", "rbmove", "rolledback"}
            \/ (pc = "runc" /\ need)
         => org[N] # image

\* The installed ID is never ahead of the pulled one, and when it has caught
\* up with it so have all the parts.
CaughtUp == /\ org[N] \in Images => org[N] <= image
            /\ org[N] = image => \A p \in Parts : org[p] = image

\* A saved ID is behind the pulled one.
Saved == scr[N] \in Images => scr[N] < image

DeathInv == /\ FlowInv /\ Stale /\ CaughtUp /\ Saved
            /\ pc \in UninstallPcs => MaxUninstalls > 0

\* What a move that does not complete may leave at both ends.
LEMMA InterruptedEnds ==
  ASSUME NEW p, NEW s, NEW d, NEW m \in Interrupted(p, s, d)
  PROVE  m[1] \in {s, Torn} /\ m[2] \in {d, Torn, s}
  BY DEF Interrupted

\* A move between two trees, complete or not, takes nothing to either that was
\* not in one of them.
LEMMA MovedEnds ==
  ASSUME NEW t \in Tree, NEW u \in Tree, NEW p \in Parts, NEW tt, NEW uu,
         \E m \in Interrupted(p, t[p], u[p]) :
            tt = [t EXCEPT ![p] = m[1]] /\ uu = [u EXCEPT ![p] = m[2]]
  PROVE  tt[N] \in {t[N], Torn} /\ uu[N] \in {u[N], Torn, t[N]}
  <1>1. PICK m \in Interrupted(p, t[p], u[p]) :
           tt = [t EXCEPT ![p] = m[1]] /\ uu = [u EXCEPT ![p] = m[2]]
    OBVIOUS
  <1>2. m[1] \in {t[p], Torn} /\ m[2] \in {u[p], Torn, t[p]}
    BY <1>1, InterruptedEnds
  <1> QED
    BY <1>1, <1>2, PartsFacts DEF Tree

\* An installed ID that is behind the pulled one satisfies both, wherever the
\* install is.
LEMMA Behind ==
  ASSUME TypeOK, UNCHANGED image, org'[N] \in Images => org'[N] < image
  PROVE  Stale' /\ CaughtUp'
  <1>1. image \in Images /\ image \in Nat /\ (org'[N] \in Images => org'[N] \in Nat)
    BY ImagesAssumption DEF TypeOK
  <1>2. org'[N] # image /\ (org'[N] \in Images => org'[N] <= image)
    BY <1>1
  <1> QED
    BY <1>2 DEF Stale, CaughtUp

\* When the last part has been placed, all have.
LEMMA LastPlaced ==
  ASSUME FlowInv, pc = "place", part = N, org' = [org EXCEPT ![part] = image],
         UNCHANGED image
  PROVE  CaughtUp'
  <1>1. org \in Tree /\ image \in Images /\ Placed
    BY DEF FlowInv, TypeOK
  <1>2. \A p \in Parts : org'[p] = image
    BY <1>1, PartsFacts DEF Placed, Tree
  <1>3. image <= image
    BY <1>1, ImagesAssumption
  <1> QED
    BY <1>2, <1>3, PartsFacts DEF CaughtUp

\* A sweep takes no ID to the scratch directory.
LEMMA SweepSaved ==
  ASSUME TypeOK, Sweep
  PROVE  scr'[N] \in {scr[N], None}
  <1>1. PICK d \in Dirs : SweepFile(d) \/ SweepNext(d)
    BY DEF Sweep
  <1>2. CASE SweepNext(d)
    BY <1>2 DEF SweepNext, files
  <1>3. CASE SweepFile(d)
    <2>1. PICK p \in Parts : \E r \in Remnants(p) :
             UNCHANGED scr \/ scr' = [scr EXCEPT ![p] = r]
      BY <1>3 DEF SweepFile
    <2>2. p = N => Remnants(p) = {None}
      BY DEF Remnants
    <2> QED
      BY <2>1, <2>2, PartsFacts DEF TypeOK, Tree
  <1> QED
    BY <1>1, <1>2, <1>3

\* What a death leaves: everything as it was, the two ends of the move that was
\* under way, or what was being written or deleted.
LEMMA CrashFacts ==
  ASSUME SafeDeaths, DeathInv, Crash
  PROVE  /\ pc' = "boot" /\ UNCHANGED image
         /\ \/ UNCHANGED <<org, scr>>
            \/ /\ pc = "save"
               /\ org'[N] \in {org[N], Torn} /\ scr'[N] \in {scr[N], Torn, org[N]}
            \/ /\ pc = "place" /\ UNCHANGED scr
               /\ \E c \in {None, Torn, image} : org' = [org EXCEPT ![part] = c]
            \/ /\ pc = "rbmove"
               /\ org'[N] \in {org[N], Torn, scr[N]} /\ scr'[N] \in {scr[N], Torn}
            \/ /\ pc \in {"runc", "runc2"} /\ UNCHANGED scr
               /\ org'[N] = Torn
            \/ /\ pc = "purge" /\ UNCHANGED org
               /\ scr'[N] \in {scr[N], None}
            \/ /\ pc = "rbremove" /\ UNCHANGED scr
               /\ org'[N] \in {org[N], None, Torn}
  <1>1. /\ pc \notin UninstallPcs /\ part \in Parts /\ org \in Tree /\ scr \in Tree
        /\ pc' = "boot" /\ UNCHANGED image
    <2>1. MaxCrashes # 0
      BY DEF DeathInv, FlowInv, TypeOK, Crash
    <2>2. pc \notin UninstallPcs
      BY <2>1 DEF SafeDeaths, DeathInv
    <2> QED
      BY <2>2 DEF DeathInv, FlowInv, TypeOK, Crash, Die
  <1>2. CASE UNCHANGED <<files, unit>>
    BY <1>1, <1>2 DEF files
  <1>3. CASE UNCHANGED <<org, scr, unit>>
    BY <1>1, <1>3
  <1>4. CASE /\ pc = "save"
             /\ \E m \in Interrupted(part, org[part], scr[part]) :
                   /\ org' = [org EXCEPT ![part] = m[1]]
                   /\ scr' = [scr EXCEPT ![part] = m[2]]
    BY <1>1, <1>4, MovedEnds
  <1>5. CASE /\ pc = "place" /\ UNCHANGED scr
             /\ \E m \in Interrupted(part, neo[part], org[part]) :
                   org' = [org EXCEPT ![part] = m[2]]
    <2>1. PICK m \in Interrupted(part, neo[part], org[part]) :
             org' = [org EXCEPT ![part] = m[2]]
      BY <1>5
    <2>2. m[2] \in {org[part], Torn, neo[part]}
      BY <2>1, InterruptedEnds
    <2>3. neo[part] = image /\ org[part] = None
      BY <1>1, <1>5, PartsFacts DEF DeathInv, FlowInv, Ready, Placed
    <2> QED
      BY <1>1, <1>5, <2>1, <2>2, <2>3
  <1>6. CASE /\ pc = "rbmove"
             /\ \E m \in Interrupted(part, scr[part], org[part]) :
                   /\ scr' = [scr EXCEPT ![part] = m[1]]
                   /\ org' = [org EXCEPT ![part] = m[2]]
    BY <1>1, <1>6, MovedEnds
  <1>7. CASE CutMove
    BY <1>4, <1>5, <1>6, <1>7 DEF CutMove
  <1>8. CASE CutWrite
    <2>1. N \in Parts
      BY PartsFacts
    <2>2. CASE UNCHANGED <<org, scr, unit>>
      BY <1>3, <2>2
    <2>3. CASE /\ pc \in {"runc", "runc2"} /\ org' = [org EXCEPT ![N] = Torn]
               /\ UNCHANGED <<neo, scr>>
      BY <1>1, <2>1, <2>3 DEF Tree
    <2> QED
      BY <1>1, <1>8, <2>2, <2>3 DEF CutWrite
  <1>9. CASE CutDelete
    <2>1. CASE pc = "purge" /\ scr' \in PartlyDeleted(scr) /\ UNCHANGED <<org, neo, unit>>
      BY <1>1, <2>1, PartlyFacts
    <2>2. CASE /\ pc = "rbremove"
               /\ \E r \in Remnants(part) : org' = [org EXCEPT ![part] = r]
               /\ UNCHANGED <<neo, scr, unit>>
      BY <1>1, <2>2, PartsFacts DEF Remnants, Tree
    <2> QED
      BY <1>1, <1>9, <2>1, <2>2 DEF CutDelete, UninstallPcs
  <1>10. CutShort
    BY DEF Crash
  <1> QED
    BY <1>1, <1>2, <1>7, <1>8, <1>9, <1>10 DEF CutShort

\* config.json is the last part of an image to arrive.
LEMMA DeathStep ==
  ASSUME SafeDeaths, DeathInv, [Next]_vars
  PROVE  /\ Stale' /\ CaughtUp' /\ Saved'
         /\ pc' \in UninstallPcs => MaxUninstalls > 0
  <1> USE DEF flow, files, node, spent, UninstallPcs, Saved
  <1>0. /\ TypeOK /\ Quiet /\ Ready /\ Placed /\ Stale /\ CaughtUp /\ Saved
        /\ part \in Parts /\ org \in Tree /\ scr \in Tree /\ image \in Images
        /\ pc \in UninstallPcs => MaxUninstalls > 0
        /\ N \in Parts
        /\ None \notin Images /\ Torn \notin Images
    BY PartsFacts, ContentsAssumption DEF DeathInv, FlowInv, TypeOK
  <1>a. /\ image \in Nat /\ (org[N] \in Images => org[N] \in Nat)
        /\ (scr[N] \in Images => scr[N] \in Nat)
    BY <1>0, ImagesAssumption
  <1>b. pc \in {"save", "place", "rbremove", "rbmove"}
          => (org[N] \in Images => org[N] < image)
    BY <1>0, <1>a DEF Stale, CaughtUp
  <1>1. CASE SkipInstall
    BY <1>0, <1>1 DEF SkipInstall, Goto, Stale, CaughtUp
  <1>2. CASE StartInstall
    <2>1. /\ image' \in Images /\ image' >= image
          /\ UNCHANGED <<org, scr>> /\ pc' \in {"decide", "failed"}
      BY <1>0, <1>a, <1>2 DEF StartInstall, SafeDeaths
    <2>2. image' \in Nat
      BY <2>1, ImagesAssumption
    <2>3. org[N] = image' => org[N] = image
      BY <1>0, <1>a, <2>1, <2>2 DEF CaughtUp
    <2>4. scr[N] \in Images => scr[N] < image'
      BY <1>0, <1>a, <2>1, <2>2
    <2>5. org[N] \in Images => org[N] <= image'
      BY <1>0, <1>a, <2>1, <2>2 DEF CaughtUp
    <2> QED
      BY <1>0, <2>1, <2>3, <2>4, <2>5 DEF Stale, CaughtUp
  <1>3. CASE Decide
    BY <1>0, <1>3 DEF Decide, SafeDeaths, Fault, Stale, CaughtUp
  <1>4. CASE Populate \/ ConfigureNew \/ ConfigureInPlace
    BY <1>0, <1>4 DEF Populate, ConfigureNew, ConfigureInPlace, DeathInv, FlowInv,
                      Matches, Stale, CaughtUp
  <1>5. CASE Purge
    <2>1. scr'[N] \in {scr[N], None}
      BY <1>0, <1>5, PartlyFacts DEF Purge, Empty
    <2> QED
      BY <1>0, <1>5, <2>1 DEF Purge, Goto, Stale, CaughtUp
  <1>6. CASE MakeScratch \/ StopService
    BY <1>0, <1>6 DEF MakeScratch, StopService, Goto, Stale, CaughtUp
  <1>7. CASE Save
    <2>1. /\ pc = "save" /\ pc' \in {"place", "rbremove"} /\ UNCHANGED image
      BY <1>7 DEF Save
    <2>2. /\ org'[N] \in {org[N], None, Torn}
          /\ scr'[N] \in {scr[N], Torn, org[N]}
      <3>1. CASE pc' = "place"
        BY <1>0, <1>7, <3>1 DEF Save, Landed, Tree
      <3>2. CASE pc' = "rbremove"
        BY <1>0, <1>7, <3>2, MovedEnds DEF Save
      <3> QED
        BY <2>1, <3>1, <3>2
    <2> QED
      BY <1>0, <1>b, <2>1, <2>2, Behind
  <1>8. CASE Place
    <2>1. /\ pc = "place" /\ UNCHANGED <<image, scr>> /\ org[part] = None
      BY <1>8, PlaceFacts DEF Place, DeathInv
    <2>2. CASE pc' \in {"runc2", "save"} /\ org' = [org EXCEPT ![part] = image]
      <3>1. CASE part = N
        <4>1. pc' = "runc2"
          BY <1>8, <2>2, <3>1 DEF Place
        <4> QED
          BY <1>0, <2>1, <2>2, <3>1, <4>1, LastPlaced DEF Stale, DeathInv
      <3>2. CASE part # N
        <4>1. org'[N] = org[N]
          BY <1>0, <2>2, <3>2 DEF Tree
        <4> QED
          BY <1>0, <1>b, <2>1, <2>2, <4>1, Behind
      <3> QED
        BY <3>1, <3>2
    <2>3. CASE /\ pc' = "rbremove" /\ "place" \in FaultKinds
               /\ \E m \in Interrupted(part, image, None) :
                     org' = [org EXCEPT ![part] = m[2]]
      <3>1. org'[N] = org[N]
        BY <1>0, <2>1, <2>3 DEF SafeDeaths, Interrupted, Tree
      <3> QED
        BY <1>0, <1>b, <2>1, <2>3, <3>1, Behind
    <2> QED
      BY <1>8, <2>2, <2>3, PlaceFacts DEF DeathInv
  <1>9. CASE Reconfigure
    <2>1. org[1] = image \/ pc # "runc2"
      BY <1>0, PartsFacts DEF Placed
    <2>2. pc' = "restart" /\ UNCHANGED <<org, scr, image>>
      BY <1>0, <1>9, <2>1 DEF Reconfigure, SafeDeaths, Fault
    <2> QED
      BY <1>0, <2>2 DEF Stale, CaughtUp
  <1>10. CASE RollbackRemove
    <2>1. /\ pc = "rbremove" /\ pc' = "rbmove" /\ UNCHANGED <<image, scr>>
          /\ org'[N] \in {org[N], None, Torn}
      BY <1>0, <1>10 DEF RollbackRemove, Goto, Remnants, Tree
    <2> QED
      BY <1>0, <1>b, <2>1, Behind
  <1>11. CASE RollbackMove
    <2>1. pc = "rbmove" /\ pc' \in {"rolledback", "rbremove"} /\ UNCHANGED image
      BY <1>11 DEF RollbackMove
    <2>2. /\ org'[N] \in {org[N], Torn, scr[N]}
          /\ scr'[N] \in {scr[N], None, Torn}
      <3>1. CASE UNCHANGED <<org, scr>>
        BY <3>1
      <3>2. CASE /\ org' = [org EXCEPT ![part] = Landed(part, scr[part], org[part])]
                 /\ scr' = [scr EXCEPT ![part] = None]
        BY <1>0, <3>2 DEF Landed, Tree
      <3>3. CASE \E m \in Interrupted(part, scr[part], org[part]) :
                    /\ scr' = [scr EXCEPT ![part] = m[1]]
                    /\ org' = [org EXCEPT ![part] = m[2]]
        BY <1>0, <3>3, MovedEnds
      <3> QED
        BY <1>11, <3>1, <3>2, <3>3 DEF RollbackMove
    <2> QED
      BY <1>0, <1>b, <2>1, <2>2, Behind
  <1>12. CASE Restart \/ RestartFails \/ ReturnError \/ GiveUp
    BY <1>0, <1>12 DEF Restart, RestartFails, ReturnError, GiveUp, Die, Goto,
                       Stale, CaughtUp
  <1>13. CASE StartUninstall \/ Uninstall
    <2>1. CASE StartUninstall
      <3>1. MaxUninstalls > 0
        <4>1. uninstalls \in 0..MaxUninstalls /\ uninstalls < MaxUninstalls
          BY <1>0, <2>1 DEF StartUninstall, TypeOK
        <4> QED
          BY <4>1, BoundsAssumption
      <3> QED
        BY <1>0, <2>1, <3>1 DEF StartUninstall, Goto, Stale, CaughtUp
    <2>2. CASE UninstallStop \/ UninstallDisable
      BY <1>0, <2>2 DEF UninstallStop, UninstallDisable, Stale, CaughtUp
    <2>3. CASE UninstallRemove
      <3>1. /\ pc' = "idle" /\ UNCHANGED image
            /\ org'[N] = None /\ scr'[N] = None
        BY <1>0, <2>3, PartsFacts
           DEF UninstallRemove, RemoveOci, Goto, SafeDeaths, Fault, Empty
      <3> QED
        BY <1>0, <3>1, Behind
    <2> QED
      BY <1>13, <2>1, <2>2, <2>3 DEF Uninstall
  <1>14. CASE Sweep
    BY <1>0, <1>14, SweepFacts, SweepSaved DEF Stale, CaughtUp
  <1>15. CASE Crash
    <2>1. pc' = "boot" /\ UNCHANGED image
      BY <1>15, CrashFacts
    <2>2. CASE UNCHANGED <<org, scr>>
      BY <1>0, <2>1, <2>2 DEF Stale, CaughtUp
    <2>3. CASE /\ pc = "save"
               /\ org'[N] \in {org[N], Torn} /\ scr'[N] \in {scr[N], Torn, org[N]}
      BY <1>0, <1>b, <2>1, <2>3, Behind
    <2>4. CASE /\ pc = "place" /\ UNCHANGED scr
               /\ \E c \in {None, Torn, image} : org' = [org EXCEPT ![part] = c]
      <3>1. CASE part = N /\ org' = [org EXCEPT ![part] = image]
        BY <1>0, <2>1, <2>4, <3>1, LastPlaced DEF Stale, DeathInv
      <3>2. CASE org'[N] \in {org[N], None, Torn}
        BY <1>0, <1>b, <2>1, <2>4, <3>2, Behind
      <3> QED
        BY <1>0, <2>4, <3>1, <3>2 DEF Tree
    <2>5. CASE /\ pc = "rbmove"
               /\ org'[N] \in {org[N], Torn, scr[N]} /\ scr'[N] \in {scr[N], Torn}
      BY <1>0, <1>b, <2>1, <2>5, Behind
    <2>6. CASE pc \in {"runc", "runc2"} /\ UNCHANGED scr /\ org'[N] = Torn
      BY <1>0, <2>1, <2>6, Behind
    <2>7. CASE pc = "purge" /\ UNCHANGED org /\ scr'[N] \in {scr[N], None}
      BY <1>0, <2>1, <2>7 DEF Stale, CaughtUp
    <2>8. CASE pc = "rbremove" /\ UNCHANGED scr /\ org'[N] \in {org[N], None, Torn}
      BY <1>0, <1>b, <2>1, <2>8, Behind
    <2> QED
      BY <1>15, <2>2, <2>3, <2>4, <2>5, <2>6, <2>7, <2>8, CrashFacts
  <1>16. CASE UNCHANGED vars
    BY <1>0, <1>16 DEF vars, Stale, CaughtUp
  <1> QED
    BY <1>1, <1>2, <1>3, <1>4, <1>5, <1>6, <1>7, <1>8, <1>9, <1>10, <1>11,
       <1>12, <1>13, <1>14, <1>15, <1>16 DEF Next, Install, Rest

\* A tree of one image amounts to that image.
LEMMA WholeImage ==
  ASSUME NEW t \in Tree, NEW v \in Images, \A p \in Parts : t[p] = v
  PROVE  Whole(t) = v
  BY PartsFacts DEF Whole

\* The initial states satisfy it.
LEMMA InitDeath ==
  ASSUME SafeDeaths
  PROVE  Init => DeathInv
  <1> SUFFICES ASSUME Init PROVE DeathInv
    OBVIOUS
  <1>1. /\ FlowInv /\ pc = "boot" /\ image \in Images /\ N \in Parts
        /\ scr = Empty /\ None \notin Images
    BY InitFlow, PartsFacts, ContentsAssumption DEF Init
  <1>2. Saved
    BY <1>1 DEF Saved, Empty
  <1>3. CASE org = Empty
    BY <1>1, <1>2, <1>3 DEF DeathInv, Stale, CaughtUp, UninstallPcs, Empty
  <1>4. CASE \E v \in Images : org = [p \in Parts |-> v] /\ image >= v
    BY <1>1, <1>2, <1>4, ImagesAssumption
       DEF DeathInv, Stale, CaughtUp, UninstallPcs
  <1> QED
    BY <1>3, <1>4 DEF Init, SafeDeaths

\* A doInstall that succeeded has left a whole tree of the image it pulled,
\* wherever earlier ones died or were rolled back, wherever a mount splits the
\* installation, and also after it was removed.
THEOREM WholeAfterDeaths ==
  ASSUME SafeDeaths
  PROVE  Spec => []FinishedWhole
  <1>1. Init => DeathInv
    BY InitDeath
  <1>2. DeathInv /\ [Next]_vars => DeathInv'
    BY FlowStep, DeathStep DEF DeathInv, SafeDeaths
  <1>3. DeathInv => FinishedWhole
    BY WholeImage DEF DeathInv, FlowInv, TypeOK, Matches, CaughtUp, FinishedWhole
  <1> QED
    BY <1>1, <1>2, <1>3, PTL DEF Spec

-----------------------------------------------------------------------------
(***************************************************************************)
(* A doInstall that succeeds leaves the service enabled and running the    *)
(* pulled image, also when it finds "restart not required": if the process *)
(* does not die and what it does to the unit does not fail, the service    *)
(* runs what is installed whenever an install begins.                      *)
(***************************************************************************)
SafeService == /\ MaxCrashes = 0
               /\ SerialSweep
               /\ FaultKinds \intersect {"save", "place", "runc2", "enable", "restart",
                                         "undisable", "unremove"} = {}

\* Outside of a switch and of a removal, the service runs the whole tree that
\* is installed, or there is neither.
Settled == pc \in {"boot", "decide", "populate", "runc", "purge", "mkdir",
                   "stop", "idle", "failed", "unstop"} =>
              IF unit THEN /\ enabled /\ running \in Images
                           /\ \A p \in Parts : org[p] = running
                      ELSE org[N] = None

\* A switch knows whether it has to enable the service at its end.
Noted == /\ pc \in {"mkdir", "stop", "save", "place", "runc2"}
              => initial = ~unit /\ (unit => enabled)
         /\ pc = "restart" => /\ unit /\ (initial \/ enabled)
                              /\ \A p \in Parts : org[p] = image
         /\ result = "ok" => unit

\* No switch is rolled back.
Forward == pc \notin {"rbremove", "rbmove", "rolledback"}

ServiceInv == FlowInv /\ Forward /\ Settled /\ Noted

\* When nothing fails that would lead to it, there is no rollback.
LEMMA ForwardStep ==
  ASSUME FaultKinds \intersect {"save", "place", "runc2"} = {},
         FlowInv, Forward, [Next]_vars
  PROVE  Forward'
  <1> USE DEF flow, files, node, spent, Forward
  <1>0. TypeOK /\ Quiet /\ Placed
    BY DEF FlowInv
  <1>1. CASE SkipInstall \/ StartInstall
    BY <1>1 DEF SkipInstall, StartInstall, Goto
  <1>2. CASE Decide \/ Populate \/ ConfigureNew \/ ConfigureInPlace
    BY <1>2 DEF Decide, Populate, ConfigureNew, ConfigureInPlace
  <1>3. CASE Purge \/ MakeScratch \/ StopService
    BY <1>3 DEF Purge, MakeScratch, StopService, Goto
  <1>4. CASE Save \/ Place
    BY <1>4, PlaceFacts DEF Save, Fault
  <1>5. CASE Reconfigure
    BY <1>0, <1>5, PartsFacts, ContentsAssumption DEF Reconfigure, Fault, Placed, TypeOK
  <1>6. CASE RollbackRemove \/ RollbackMove
    BY <1>6 DEF RollbackRemove, RollbackMove, Goto
  <1>7. CASE Restart \/ RestartFails \/ ReturnError \/ GiveUp
    BY <1>7 DEF Restart, RestartFails, ReturnError, GiveUp, Die, Goto
  <1>8. CASE StartUninstall \/ Uninstall
    BY <1>8 DEF StartUninstall, Uninstall, UninstallStop, UninstallDisable,
                UninstallRemove, Goto
  <1>9. CASE Sweep
    BY <1>0, <1>9, SweepFacts
  <1>10. CASE Crash
    BY <1>10 DEF Crash, Die
  <1>11. CASE UNCHANGED vars
    BY <1>11 DEF vars
  <1> QED
    BY <1>1, <1>2, <1>3, <1>4, <1>5, <1>6, <1>7, <1>8, <1>9, <1>10, <1>11
       DEF Next, Install, Rest

\* The service keeps up with the installation.
LEMMA ServiceStep ==
  ASSUME SafeService, ServiceInv, [Next]_vars
  PROVE  Settled' /\ Noted'
  <1> USE DEF flow, files, node, spent, Settled, Noted
  <1>0. /\ TypeOK /\ Quiet /\ Placed /\ Matches /\ Forward /\ Settled /\ Noted
        /\ part \in Parts /\ image \in Images /\ image # None
        /\ unit \in BOOLEAN /\ enabled \in BOOLEAN
        /\ initial \in BOOLEAN /\ need \in BOOLEAN
    BY ContentsAssumption DEF ServiceInv, FlowInv, TypeOK
  <1>1. CASE SkipInstall \/ StartInstall
    BY <1>0, <1>1 DEF SkipInstall, StartInstall, Goto
  <1>2. CASE Decide \/ Populate \/ ConfigureNew \/ GiveUp
    BY <1>0, <1>2 DEF Decide, Populate, ConfigureNew, GiveUp, Die
  <1>3. CASE ConfigureInPlace
    <2>1. /\ pc = "runc" /\ unit /\ enabled /\ org[N] = image
          /\ running = image /\ \A p \in Parts : org[p] = image
      BY <1>0, <1>3, PartsFacts DEF ConfigureInPlace, Matches
    <2> QED
      BY <1>0, <1>3, <2>1 DEF ConfigureInPlace
  <1>4. CASE Purge
    BY <1>0, <1>4 DEF Purge, Goto
  <1>5. CASE MakeScratch \/ StopService
    BY <1>0, <1>5 DEF MakeScratch, StopService, Goto
  <1>6. CASE Save
    BY <1>0, <1>6 DEF Save, SafeService, Fault
  <1>7. CASE Place
    BY <1>0, <1>7, PlaceFacts DEF Place, SafeService, ServiceInv
  <1>8. CASE Reconfigure
    BY <1>0, <1>8, ForwardStep DEF Reconfigure, Placed, SafeService, Fault
  <1>9. CASE RollbackRemove \/ RollbackMove
    BY <1>0, <1>9 DEF RollbackRemove, RollbackMove, Goto, Forward
  <1>10. CASE Restart
    <2>1. org \in Tree /\ pc = "restart"
      BY <1>0, <1>10 DEF TypeOK, Restart
    <2>2. Whole(org) = image
      BY <1>0, <2>1, WholeImage
    <2>3. /\ pc' = "idle" /\ unit' /\ running' = image /\ enabled'
          /\ UNCHANGED <<org, image>>
      BY <1>0, <1>10, <2>2 DEF Restart, SafeService, Fault
    <2> QED
      BY <1>0, <2>1, <2>3
  <1>11. CASE RestartFails \/ ReturnError
    BY <1>0, <1>11 DEF RestartFails, ReturnError, Die, Goto, SafeService, Fault, Forward
  <1>12. CASE StartUninstall \/ UninstallStop \/ UninstallDisable
    BY <1>0, <1>12 DEF StartUninstall, UninstallStop, UninstallDisable, Goto,
                       SafeService, Fault
  <1>13. CASE UninstallRemove
    <2>1. pc' = "idle" /\ ~unit' /\ org'[N] = None /\ result' # "ok"
      BY <1>0, <1>13, PartsFacts
         DEF UninstallRemove, RemoveOci, Goto, SafeService, Fault, Matches
    <2> QED
      BY <2>1
  <1>14. CASE Sweep
    BY <1>0, <1>14, SweepFacts
  <1>15. CASE Crash
    BY <1>0, <1>15 DEF Crash, SafeService, TypeOK
  <1>16. CASE UNCHANGED vars
    BY <1>0, <1>16 DEF vars
  <1> QED
    BY <1>1, <1>2, <1>3, <1>4, <1>5, <1>6, <1>7, <1>8, <1>9, <1>10, <1>11,
       <1>12, <1>13, <1>14, <1>15, <1>16 DEF Next, Install, Uninstall, Rest

\* A doInstall that succeeded has left the service enabled and running the
\* image it pulled.
THEOREM ServiceCorrect ==
  ASSUME SafeService
  PROVE  Spec => []FinishedRunning
  <1>1. Init => ServiceInv
    <2> SUFFICES ASSUME Init PROVE ServiceInv
      OBVIOUS
    <2>1. FlowInv /\ pc = "boot" /\ result = "none"
      BY InitFlow DEF Init
    <2>2. CASE org = Empty /\ unit = FALSE
      BY <2>1, <2>2, PartsFacts DEF ServiceInv, Forward, Settled, Noted, Empty
    <2>3. CASE /\ \E v \in Images : org = [p \in Parts |-> v] /\ running = v
               /\ unit = TRUE /\ enabled = TRUE
      BY <2>1, <2>3 DEF ServiceInv, Forward, Settled, Noted
    <2> QED
      BY <2>2, <2>3 DEF Init
  <1>2. ServiceInv /\ [Next]_vars => ServiceInv'
    BY FlowStep, ForwardStep, ServiceStep DEF ServiceInv, SafeService
  <1>3. ServiceInv => FinishedRunning
    <2> SUFFICES ASSUME ServiceInv, result = "ok" PROVE running = image /\ enabled
      BY DEF FinishedRunning
    <2>1. pc = "idle" /\ unit /\ org[N] = image
      BY DEF ServiceInv, FlowInv, Matches, Noted
    <2> QED
      BY <2>1, PartsFacts DEF ServiceInv, Settled
  <1> QED
    BY <1>1, <1>2, <1>3, PTL DEF Spec

-----------------------------------------------------------------------------
(***************************************************************************)
(* The same when switches do fail and are rolled back, if the registry     *)
(* never serves an older image: the stopped service of a switch that was   *)
(* rolled back is under an older ID, so the next install is not skipped.   *)
(***************************************************************************)
SafeRestarts == /\ SafeDeaths
                /\ MaxCrashes = 0
                /\ FaultKinds \intersect {"enable", "restart", "undisable"} = {}

\* A service whose image is the pulled one runs it, but at the end of a switch
\* and in a removal; and it is enabled if it exists.
Serving == /\ (org[N] = image
               /\ pc \notin {"runc2", "restart", "undisable", "unremove"})
                 => unit /\ running = image
           /\ unit /\ pc \notin {"restart", "unremove"} => enabled
           /\ pc \in {"mkdir", "stop", "save", "place", "runc2"} => initial = ~unit
           /\ pc = "restart" => unit /\ (initial \/ enabled)
           /\ result = "ok" => unit

ServingInv == DeathInv /\ Serving

\* Every step keeps the service on the image whose ID is installed.
LEMMA ServingStep ==
  ASSUME SafeRestarts, ServingInv, [Next]_vars
  PROVE  Serving'
  <1> USE DEF flow, files, node, spent, Serving
  <1>0. /\ TypeOK /\ Quiet /\ Matches /\ Stale /\ CaughtUp /\ Serving
        /\ part \in Parts /\ N \in Parts /\ org \in Tree /\ image \in Images
        /\ image # None /\ unit \in BOOLEAN /\ enabled \in BOOLEAN
        /\ initial \in BOOLEAN /\ need \in BOOLEAN
    BY PartsFacts, ContentsAssumption DEF ServingInv, DeathInv, FlowInv, TypeOK
  <1>a. Stale'
    BY DeathStep DEF SafeRestarts, ServingInv
  <1>1. CASE SkipInstall
    BY <1>0, <1>1 DEF SkipInstall, Goto
  <1>2. CASE StartInstall
    <2>0. image <= image
      BY <1>0, ImagesAssumption
    <2>1. /\ image' \in Images /\ image' >= image
          /\ UNCHANGED <<org, node>> /\ pc' \in {"decide", "failed"} /\ result' = "none"
          /\ pc \in {"boot", "idle"}
      BY <1>0, <1>2, <2>0 DEF StartInstall, SafeRestarts, SafeDeaths
    <2>2. image \in Nat /\ image' \in Nat /\ (org[N] \in Images => org[N] \in Nat)
      BY <1>0, <2>1, ImagesAssumption
    <2>3. org[N] = image' => org[N] = image
      BY <1>0, <2>1, <2>2 DEF CaughtUp
    <2> QED
      BY <1>0, <2>1, <2>3
  <1>3. CASE Decide \/ Populate \/ ConfigureNew \/ GiveUp
    BY <1>0, <1>3 DEF Decide, Populate, ConfigureNew, GiveUp, Die
  <1>4. CASE ConfigureInPlace
    <2>1. /\ pc = "runc" /\ org[N] = image /\ unit /\ enabled /\ running = image
      BY <1>0, <1>4 DEF ConfigureInPlace, Matches
    <2> QED
      BY <1>0, <1>4, <2>1 DEF ConfigureInPlace
  <1>5. CASE Purge \/ MakeScratch \/ StopService
    BY <1>0, <1>5, <1>a DEF Purge, MakeScratch, StopService, Goto, Stale
  <1>6. CASE Save \/ Place
    BY <1>0, <1>6, <1>a DEF Save, Place, Stale
  <1>7. CASE Reconfigure
    <2>1. /\ pc = "runc2" /\ initial = ~unit /\ (unit => enabled) /\ result # "ok"
          /\ UNCHANGED <<org, image, enabled, initial, result>>
      BY <1>0, <1>7 DEF Reconfigure, Matches
    <2>2. CASE pc' = "restart" /\ unit' = TRUE
      BY <2>1, <2>2
    <2>3. CASE pc' = "rbremove" /\ UNCHANGED unit
      BY <1>a, <2>1, <2>3 DEF Stale
    <2> QED
      BY <1>7, <2>2, <2>3 DEF Reconfigure
  <1>8. CASE RollbackRemove \/ RollbackMove
    BY <1>0, <1>8, <1>a DEF RollbackRemove, RollbackMove, Goto, Stale
  <1>9. CASE Restart
    <2>1. Whole(org) = image
      BY <1>0, <1>9, WholeImage DEF Restart, Matches, CaughtUp
    <2>2. /\ pc' = "idle" /\ unit' /\ running' = image /\ enabled'
          /\ UNCHANGED <<org, image>>
      BY <1>0, <1>9, <2>1 DEF Restart, SafeRestarts, Fault
    <2> QED
      BY <1>0, <2>2
  <1>10. CASE RestartFails
    BY <1>10 DEF RestartFails, SafeRestarts, Fault
  <1>11. CASE ReturnError
    BY <1>0, <1>11 DEF ReturnError, Die, Stale, Matches
  <1>12. CASE StartUninstall \/ UninstallStop \/ UninstallDisable
    BY <1>0, <1>12 DEF StartUninstall, UninstallStop, UninstallDisable, Goto,
                       SafeRestarts, Fault
  <1>13. CASE UninstallRemove
    <2>1. pc' = "idle" /\ ~unit' /\ org'[N] = None /\ result' # "ok" /\ UNCHANGED image
      BY <1>0, <1>13, PartsFacts
         DEF UninstallRemove, RemoveOci, Goto, SafeRestarts, SafeDeaths, Fault, Matches
    <2> QED
      BY <1>0, <2>1
  <1>14. CASE Sweep
    BY <1>0, <1>14, SweepFacts
  <1>15. CASE Crash
    BY <1>0, <1>15 DEF Crash, SafeRestarts, TypeOK
  <1>16. CASE UNCHANGED vars
    BY <1>0, <1>16 DEF vars
  <1> QED
    BY <1>1, <1>2, <1>3, <1>4, <1>5, <1>6, <1>7, <1>8, <1>9, <1>10, <1>11,
       <1>12, <1>13, <1>14, <1>15, <1>16 DEF Next, Install, Uninstall, Rest

\* A doInstall that succeeded has left the service enabled and running the
\* image it pulled, whatever switches were rolled back before.
THEOREM ServiceAfterRollbacks ==
  ASSUME SafeRestarts
  PROVE  Spec => []FinishedRunning
  <1>1. Init => ServingInv
    <2> SUFFICES ASSUME Init PROVE ServingInv
      OBVIOUS
    <2>1. DeathInv /\ pc = "boot" /\ result = "none" /\ image \in Images
      BY InitDeath DEF Init, SafeRestarts
    <2>2. CASE org = Empty /\ unit = FALSE
      BY <2>1, <2>2, PartsFacts, ContentsAssumption DEF ServingInv, Serving, Empty
    <2>3. CASE /\ \E v \in Images : org = [p \in Parts |-> v] /\ running = v
               /\ unit = TRUE /\ enabled = TRUE
      BY <2>1, <2>3, PartsFacts DEF ServingInv, Serving
    <2> QED
      BY <2>2, <2>3 DEF Init
  <1>2. ServingInv /\ [Next]_vars => ServingInv'
    BY FlowStep, DeathStep, ServingStep DEF ServingInv, DeathInv, SafeRestarts, SafeDeaths
  <1>3. ServingInv => FinishedRunning
    BY DEF ServingInv, Serving, DeathInv, FlowInv, Matches, FinishedRunning
  <1> QED
    BY <1>1, <1>2, <1>3, PTL DEF Spec

-----------------------------------------------------------------------------
(***************************************************************************)
(* OciSwitch implements AtomicUpgrade.  The tree that is visible is the    *)
(* one from before the switch until the switch has ended: it is whole, and *)
(* the end of a switch either replaces all of it or leaves it alone.       *)
(***************************************************************************)
SafeUpgrade == /\ SafeRollback
               /\ MaxCrashes = 0
               /\ "unremove" \in FaultKinds => MaxUninstalls = 0
               /\ "runc2" \in FaultKinds => MaxUninstalls = 0

\* The node the process finds has an installation, if the last step of a
\* switch may fail: rolling back a first install leaves its parts behind.
Founded == "runc2" \in FaultKinds => unit

Visible == IF Switching THEN old ELSE org

\* The new part p is not in its place.
Unplaced(p) == Pending(p) \/ (scr[p] = old[p] /\ org[p] = None)

\* A switch is rolled back before it has placed config.json, or else there is
\* an earlier part for every one it has placed.
Undoable ==
    /\ pc \in {"rbremove", "rbmove"} => Unplaced(N) \/ \A p \in Parts : old[p] # None
    /\ "runc2" \in FaultKinds => \A p \in Parts : Visible[p] # None

UpgradeInv == /\ RollbackInv /\ Undoable
              /\ Whole(Visible) # Torn
              /\ pc \in UninstallPcs => MaxUninstalls > 0

\* Two trees that agree amount to the same.
LEMMA WholeSame ==
  ASSUME NEW t \in Tree, NEW u \in Tree, \A p \in Parts : t[p] = u[p]
  PROVE  Whole(t) = Whole(u)
  BY PartsFacts DEF Whole, Tree

\* A tree without a config.json amounts to nothing, one with it to something.
LEMMA WholeNone ==
  ASSUME NEW t \in Tree
  PROVE  /\ t[N] = None => Whole(t) = None
         /\ t[N] \in Images => Whole(t) \in {t[N], Torn}
  BY ContentsAssumption DEF Whole

\* A rollback that has come to its end leaves what was there.
LEMMA RollbackEnd ==
  ASSUME SafeUpgrade, UpgradeInv, RollbackMove, part = N, TypeOK'
  PROVE  /\ pc' = "rolledback" /\ Whole(org') = Whole(old)
         /\ (\A p \in Parts : old[p] # None) => \A p \in Parts : org'[p] = old[p]
  <1>1. /\ pc = "rbmove" /\ pc' = "rolledback" /\ UNCHANGED <<old, image>>
        /\ org \in Tree /\ scr \in Tree /\ old \in Tree /\ org' \in Tree
        /\ N \in Parts /\ Switching
    BY PartsFacts DEF RollbackMove, UpgradeInv, RollbackInv, MovesInv, FlowInv, TypeOK,
                      Switching, SwitchPcs, flow
  <1>2. \A p \in Parts : org'[p] = old[p] \/ (old[p] = None /\ org'[p] = image)
    <2>1. [Next]_vars
      BY DEF Next, Install
    <2>2. Restored'
      BY <2>1, RestoredStep DEF SafeUpgrade, UpgradeInv
    <2> QED
      BY <1>1, <2>2 DEF Restored
  <1>3. (\A p \in Parts : old[p] # None) => \A p \in Parts : org'[p] = old[p]
    BY <1>2
  <1>4. CASE \A p \in Parts : old[p] # None
    BY <1>1, <1>3, <1>4, WholeSame
  <1>5. CASE Unplaced(N)
    <2>1. org'[N] = old[N]
      <3>1. CASE scr[N] = None
        BY <1>1, <1>5, <3>1 DEF RollbackMove, Unplaced, Pending
      <3>2. CASE scr[N] # None
        <4>1. org' = [org EXCEPT ![N] = Landed(N, scr[N], org[N])]
          BY <1>1, <3>2 DEF RollbackMove, SafeUpgrade, SafeRollback, Fault
        <4> QED
          BY <1>1, <1>5, <3>2, <4>1 DEF Landed, Unplaced, Pending, Tree
      <3> QED
        BY <3>1, <3>2
    <2>2. CASE old[N] \notin Images
      BY <1>1, <1>3, <2>1, <2>2 DEF Whole
    <2>3. CASE old[N] \in Images
      <3>1. \A p \in Parts : old[p] = old[N]
        BY <1>1, <2>3 DEF UpgradeInv, Visible, Whole
      <3> QED
        BY <1>4, <2>3, <3>1, ContentsAssumption
    <2> QED
      BY <2>2, <2>3
  <1> QED
    BY <1>1, <1>3, <1>4, <1>5 DEF UpgradeInv, Undoable

\* What a step does to the tree that is visible.
LEMMA VisibleStep ==
  ASSUME SafeUpgrade, UpgradeInv, [Next]_vars, TypeOK'
  PROVE  \/ Visible' = Visible
         \/ RollbackMove /\ part = N
         \/ /\ Reconfigure /\ ~Switching' /\ org' = org
            /\ \A p \in Parts : org[p] = image
         \/ /\ UninstallRemove /\ ~Switching' /\ ~Switching
            /\ org'[N] = None /\ MaxUninstalls > 0
  <1> USE DEF flow, files, node, spent, SwitchPcs, Switching, Visible
  <1>0. /\ TypeOK /\ Quiet /\ Placed /\ part \in Parts
    BY DEF UpgradeInv, RollbackInv, MovesInv, FlowInv, TypeOK
  <1>1. CASE SkipInstall \/ StartInstall
    BY <1>1 DEF SkipInstall, StartInstall, Goto
  <1>2. CASE Decide \/ Populate \/ ConfigureNew \/ ConfigureInPlace
    BY <1>2 DEF Decide, Populate, ConfigureNew, ConfigureInPlace
  <1>3. CASE Purge \/ MakeScratch \/ StopService
    BY <1>3 DEF Purge, MakeScratch, StopService, Goto
  <1>4. CASE Save \/ Place
    BY <1>4 DEF Save, Place
  <1>5. CASE Reconfigure
    BY <1>0, <1>5 DEF Reconfigure, Placed
  <1>6. CASE RollbackRemove \/ RollbackMove
    BY <1>6 DEF RollbackRemove, RollbackMove, Goto
  <1>7. CASE Restart \/ RestartFails \/ ReturnError \/ GiveUp
    BY <1>7 DEF Restart, RestartFails, ReturnError, GiveUp, Die, Goto
  <1>8. CASE StartUninstall \/ UninstallStop \/ UninstallDisable
    BY <1>8 DEF StartUninstall, UninstallStop, UninstallDisable, Goto
  <1>9. CASE UninstallRemove
    <2>1. pc = "unremove" /\ pc' = "idle" /\ MaxUninstalls > 0
      BY <1>9 DEF UninstallRemove, Goto, UpgradeInv, UninstallPcs
    <2>2. "unremove" \notin FaultKinds
      BY <2>1 DEF SafeUpgrade
    <2> QED
      BY <1>9, <2>1, <2>2, PartsFacts DEF UninstallRemove, RemoveOci, Fault
  <1>10. CASE Sweep
    BY <1>0, <1>10, SweepFacts
  <1>11. CASE Crash
    BY <1>0, <1>11 DEF Crash, SafeUpgrade, TypeOK
  <1>12. CASE UNCHANGED vars
    BY <1>12 DEF vars
  <1> QED
    BY <1>1, <1>2, <1>3, <1>4, <1>5, <1>6, <1>7, <1>8, <1>9, <1>10, <1>11, <1>12
       DEF Next, Install, Uninstall, Rest

\* The part that decides what is visible is placed last.
LEMMA UnplacedStep ==
  ASSUME SafeUpgrade, UpgradeInv, [Next]_vars, pc' \in {"rbremove", "rbmove"}
  PROVE  Unplaced(N)' \/ \A p \in Parts : old'[p] # None
  <1> USE DEF flow, files, node, spent, SwitchPcs, Switching, Visible
  <1>0. /\ TypeOK /\ Quiet /\ Placed /\ Progress /\ part \in Parts /\ N \in Parts
        /\ org \in Tree /\ scr \in Tree /\ old \in Tree
    BY PartsFacts DEF UpgradeInv, RollbackInv, MovesInv, FlowInv, TypeOK
  <1>1. CASE Save
    BY <1>0, <1>1, SaveFacts, PartsFacts
       DEF Save, SafeUpgrade, SafeRollback, UpgradeInv, RollbackInv, Progress,
           Unplaced, Pending
  <1>2. CASE Place
    <2>1. /\ pc = "place" /\ UNCHANGED <<scr, old>>
          /\ org[part] = None /\ scr[part] = old[part]
          /\ \E m \in Interrupted(part, image, None) :
                org' = [org EXCEPT ![part] = m[2]]
      BY <1>0, <1>2, PlaceFacts
         DEF Place, UpgradeInv, RollbackInv, MovesInv, Progress, Recoverable
    <2>2. PICK m \in Interrupted(part, image, None) : org' = [org EXCEPT ![part] = m[2]]
      BY <2>1
    <2>3. m[2] = None
      BY <2>2, RenameFacts DEF SafeUpgrade, SafeRollback
    <2>4. CASE part = N
      BY <1>0, <2>1, <2>2, <2>3, <2>4 DEF Unplaced, Tree
    <2>5. CASE part # N
      BY <1>0, <2>1, <2>2, <2>5, PartsFacts DEF Unplaced, Pending, Progress, Tree
    <2> QED
      BY <2>4, <2>5
  <1>3. CASE Reconfigure
    <2>1. "runc2" \in FaultKinds /\ pc = "runc2" /\ UNCHANGED old
      BY <1>0, <1>3, PartsFacts, ContentsAssumption DEF Reconfigure, Fault, Placed, TypeOK
    <2> QED
      BY <2>1 DEF UpgradeInv, Undoable
  <1>4. CASE RollbackRemove
    <2>1. /\ pc = "rbremove" /\ UNCHANGED <<scr, old>>
          /\ org' = IF scr[part] = None THEN org ELSE [org EXCEPT ![part] = None]
      BY <1>4 DEF RollbackRemove, Goto, SafeUpgrade, SafeRollback, SafeMoves, Fault
    <2>2. Unplaced(N) => Unplaced(N)'
      BY <1>0, <2>1 DEF Unplaced, Pending, Tree
    <2> QED
      BY <2>1, <2>2 DEF UpgradeInv, Undoable
  <1>5. CASE RollbackMove
    <2>1. part # N /\ UNCHANGED old /\ pc = "rbmove"
      BY <1>5 DEF RollbackMove
    <2>2. org'[N] = org[N] /\ scr'[N] = scr[N]
      BY <1>0, <1>5, <2>1 DEF RollbackMove, Tree
    <2> QED
      BY <2>1, <2>2 DEF UpgradeInv, Undoable, Unplaced, Pending
  <1>6. CASE ~(Save \/ Place \/ Reconfigure \/ RollbackRemove \/ RollbackMove)
    <2>1. UNCHANGED vars
      <3>1. CASE SkipInstall \/ StartInstall \/ StartUninstall \/ Uninstall \/ Crash
        BY <3>1 DEF SkipInstall, StartInstall, Goto, StartUninstall, Uninstall,
             UninstallStop, UninstallDisable, UninstallRemove, Crash, Die
      <3>2. CASE Decide \/ Populate \/ ConfigureNew \/ ConfigureInPlace \/ Purge
        BY <3>2 DEF Decide, Populate, ConfigureNew, ConfigureInPlace, Purge, Goto
      <3>3. CASE MakeScratch \/ StopService \/ Restart \/ RestartFails
                 \/ ReturnError \/ GiveUp
        BY <3>3 DEF MakeScratch, StopService, Restart, RestartFails, ReturnError,
                    GiveUp, Die, Goto
      <3>4. CASE Sweep
        BY <1>0, <3>4, SweepFacts
      <3> QED
        BY <1>6, <3>1, <3>2, <3>3, <3>4 DEF Next, Install, Rest
    <2> QED
      BY <2>1 DEF vars, UpgradeInv, Undoable, Unplaced, Pending
  <1> QED
    BY <1>1, <1>2, <1>3, <1>4, <1>5, <1>6

\* Every step keeps what the refinement rests on.
LEMMA UpgradeStep ==
  ASSUME SafeUpgrade, UpgradeInv, [Next]_vars
  PROVE  UpgradeInv'
  <1>1. RollbackInv' /\ TypeOK'
    BY FlowStep, ProgressStep, RestoredStep
       DEF UpgradeInv, RollbackInv, MovesInv, FlowInv, SafeMoves, SafeRollback, SafeUpgrade
  <1>2. /\ org \in Tree /\ old \in Tree /\ org' \in Tree /\ old' \in Tree
        /\ image \in Images /\ N \in Parts
    BY <1>1, PartsFacts DEF UpgradeInv, RollbackInv, MovesInv, FlowInv, TypeOK
  <1>3. /\ Whole(Visible') # Torn
        /\ "runc2" \in FaultKinds => \A p \in Parts : Visible'[p] # None
    <2>1. CASE Visible' = Visible
      BY <2>1 DEF UpgradeInv, Undoable
    <2>2. CASE RollbackMove /\ part = N
      <3>1. Switching /\ ~Switching'
        BY <1>1, <2>2, RollbackEnd DEF RollbackMove, Switching, SwitchPcs
      <3> QED
        BY <1>1, <2>2, <3>1, RollbackEnd DEF Visible, UpgradeInv, Undoable
    <2>3. CASE ~Switching' /\ org' = org /\ \A p \in Parts : org[p] = image
      BY <1>2, <2>3, WholeImage, ContentsAssumption DEF Visible
    <2>4. CASE ~Switching' /\ org'[N] = None /\ MaxUninstalls > 0
      BY <1>2, <2>4, WholeNone, ContentsAssumption DEF Visible, SafeUpgrade
    <2> QED
      BY <1>1, <2>1, <2>2, <2>3, <2>4, VisibleStep
  <1>4. pc' \in UninstallPcs => MaxUninstalls > 0
    <2> USE DEF UninstallPcs
    <2>1. CASE StartUninstall
      BY <2>1, BoundsAssumption DEF StartUninstall, UpgradeInv, RollbackInv, MovesInv,
                                    FlowInv, TypeOK
    <2>2. CASE Uninstall
      BY <2>2 DEF Uninstall, UninstallStop, UninstallDisable, UninstallRemove, Goto,
                  UpgradeInv
    <2>3. CASE Install
      BY <2>3 DEF Install, Decide, Populate, ConfigureNew, ConfigureInPlace, Purge,
           MakeScratch, StopService, Save, Place, Reconfigure, RollbackRemove,
           RollbackMove, Restart, RestartFails, ReturnError, GiveUp, Die, Goto
    <2>4. CASE SkipInstall \/ StartInstall \/ Crash
      BY <2>4 DEF SkipInstall, StartInstall, Crash, Die, Goto
    <2>5. CASE Sweep \/ UNCHANGED vars
      BY <2>5, SweepFacts DEF vars, UpgradeInv, RollbackInv, MovesInv, FlowInv
    <2> QED
      BY <2>1, <2>2, <2>3, <2>4, <2>5 DEF Next, Rest
  <1>5. Undoable'
    BY <1>3, UnplacedStep DEF Undoable
  <1> QED
    BY <1>1, <1>3, <1>4, <1>5 DEF UpgradeInv

\* Initially a whole tree or none is visible.
LEMMA InitUpgrade == Init /\ Founded => UpgradeInv
  <1> SUFFICES ASSUME Init, Founded PROVE UpgradeInv
    OBVIOUS
  <1>1. /\ RollbackInv /\ pc = "boot" /\ Visible = org
        /\ pc \notin UninstallPcs /\ N \in Parts /\ org \in Tree
    BY InitFlow, PartsFacts
       DEF Init, RollbackInv, MovesInv, FlowInv, TypeOK, Progress, Restored, SwitchPcs,
           UninstallPcs, Visible, Switching
  <1>2. CASE org = Empty /\ unit = FALSE
    BY <1>1, <1>2, WholeNone, ContentsAssumption DEF UpgradeInv, Undoable, Founded, Empty
  <1>3. CASE \E v \in Images : org = [p \in Parts |-> v]
    BY <1>1, <1>3, WholeImage, ContentsAssumption DEF UpgradeInv, Undoable
  <1> QED
    BY <1>2, <1>3 DEF Init

\* The initial states are those of AtomicUpgrade.
LEMMA InitAbstract == Init => Atomic!AInit
  <1> SUFFICES ASSUME Init PROVE Atomic!AInit
    OBVIOUS
  <1>1. ~Switching /\ org \in Tree /\ N \in Parts
    BY InitType, PartsFacts DEF Init, Switching, SwitchPcs, TypeOK
  <1>2. CASE org = Empty /\ running = None
    <2>1. Whole(org) = None
      BY <1>1, <1>2, WholeNone DEF Empty
    <2> QED
      BY <1>1, <1>2, <2>1 DEF Atomic!AInit
  <1>3. CASE \E v \in Images : org = [p \in Parts |-> v] /\ running = v
    <2>1. PICK v \in Images : org = [p \in Parts |-> v] /\ running = v
      BY <1>3
    <2>2. Whole(org) = v
      BY <1>1, <2>1, WholeImage
    <2> QED
      BY <1>1, <2>1, <2>2 DEF Atomic!AInit
  <1> QED
    BY <1>2, <1>3 DEF Init

\* Every step is one of AtomicUpgrade, or changes nothing that is visible.
LEMMA StepAbstract ==
  ASSUME SafeUpgrade, UpgradeInv, [Next]_vars
  PROVE  [Atomic!ANext]_(Atomic!avars)
  <1> USE DEF flow, files, node, spent, SwitchPcs, Switching
  <1>0. /\ TypeOK /\ TypeOK' /\ Quiet /\ Placed /\ Matches /\ N \in Parts
        /\ org \in Tree /\ old \in Tree /\ org' \in Tree /\ image \in Images
    BY StepType, PartsFacts DEF UpgradeInv, RollbackInv, MovesInv, FlowInv, TypeOK
  <1>1. CASE SkipInstall \/ StartInstall
    BY <1>1 DEF SkipInstall, StartInstall, Goto, Atomic!avars
  <1>2. CASE Decide \/ Populate \/ ConfigureNew \/ ConfigureInPlace
    BY <1>2 DEF Decide, Populate, ConfigureNew, ConfigureInPlace, Atomic!avars
  <1>3. CASE Purge \/ GiveUp \/ ReturnError
    BY <1>3 DEF Purge, GiveUp, ReturnError, Die, Goto, Atomic!avars
  <1>4. CASE MakeScratch
    <2>1. CASE pc' = "stop" /\ old' = org
      BY <1>4, <2>1 DEF MakeScratch, Atomic!ANext, Atomic!Begin
    <2>2. CASE pc' = "failed"
      BY <1>4, <2>2 DEF MakeScratch, Atomic!avars
    <2> QED
      BY <1>4, <2>1, <2>2 DEF MakeScratch
  <1>5. CASE StopService
    BY <1>5 DEF StopService, Goto, Atomic!ANext, Atomic!Stop, Atomic!avars
  <1>6. CASE Save \/ Place \/ RollbackRemove
    BY <1>6 DEF Save, Place, RollbackRemove, Goto, Atomic!avars
  <1>7. CASE Reconfigure
    <2>1. CASE pc' = "restart"
      <3>1. pc = "runc2" /\ org' = org /\ running' = running
        BY <1>7, <2>1 DEF Reconfigure
      <3>2. Whole(org) = image
        BY <1>0, <3>1, WholeImage DEF Placed
      <3> QED
        BY <1>0, <2>1, <3>1, <3>2 DEF Atomic!ANext, Atomic!Commit
    <2>2. CASE pc' = "rbremove"
      BY <1>7, <2>2 DEF Reconfigure, Atomic!avars
    <2> QED
      BY <1>7, <2>1, <2>2 DEF Reconfigure
  <1>8. CASE RollbackMove
    <2>1. CASE part = N
      <3>1. /\ pc = "rbmove" /\ running' = running /\ pc' = "rolledback"
            /\ Whole(org') = Whole(old)
        BY <1>0, <1>8, <2>1, RollbackEnd DEF RollbackMove
      <3> QED
        BY <3>1 DEF Atomic!ANext, Atomic!Abort
    <2>2. CASE part # N
      BY <1>8, <2>2 DEF RollbackMove, Atomic!avars
    <2> QED
      BY <2>1, <2>2
  <1>9. CASE Restart
    <2>1. /\ pc = "restart" /\ pc' = "idle" /\ running' = Whole(org) /\ org' = org
      BY <1>9 DEF Restart
    <2>2. Whole(org) # None
      BY <1>0, <2>1, WholeNone, ContentsAssumption DEF Matches
    <2> QED
      BY <2>1, <2>2 DEF Atomic!ANext, Atomic!Start
  <1>10. CASE RestartFails
    BY <1>10 DEF RestartFails, Goto, Atomic!ANext, Atomic!Stop, Atomic!avars
  <1>11. CASE StartUninstall \/ UninstallDisable
    BY <1>11 DEF StartUninstall, UninstallDisable, Goto, Atomic!avars
  <1>12. CASE UninstallStop
    BY <1>12 DEF UninstallStop, Atomic!ANext, Atomic!Stop, Atomic!avars
  <1>13. CASE UninstallRemove
    <2>1. /\ ~Switching /\ ~Switching' /\ org'[N] = None /\ running' = running
      <3>1. pc = "unremove" /\ pc' = "idle" /\ MaxUninstalls > 0
        BY <1>13 DEF UninstallRemove, Goto, UpgradeInv, UninstallPcs
      <3>2. "unremove" \notin FaultKinds
        BY <3>1 DEF SafeUpgrade
      <3> QED
        BY <1>0, <1>13, <3>1, <3>2, PartsFacts DEF UninstallRemove, RemoveOci, Fault
    <2>2. Whole(org') = None
      BY <1>0, <2>1, WholeNone
    <2> QED
      BY <2>1, <2>2 DEF Atomic!ANext, Atomic!Remove
  <1>14. CASE Sweep
    BY <1>0, <1>14, SweepFacts DEF Atomic!avars
  <1>15. CASE Crash
    BY <1>0, <1>15 DEF Crash, SafeUpgrade, TypeOK
  <1>16. CASE UNCHANGED vars
    BY <1>16 DEF vars, Atomic!avars
  <1> QED
    BY <1>1, <1>2, <1>3, <1>4, <1>5, <1>6, <1>7, <1>8, <1>9, <1>10, <1>11,
       <1>12, <1>13, <1>14, <1>15, <1>16 DEF Next, Install, Uninstall, Rest

\* OciSwitch implements AtomicUpgrade: an installation is replaced as a whole
\* or not at all, and the service is only started on a whole one, whatever
\* fails but the moves of a rollback and the removal.
THEOREM UpgradeCorrect ==
  ASSUME SafeUpgrade
  PROVE  Spec /\ Founded => Refines
  <1>1. UpgradeInv /\ [Next]_vars => UpgradeInv'
    BY UpgradeStep
  <1>2. UpgradeInv /\ [Next]_vars => [Atomic!ANext]_(Atomic!avars)
    BY StepAbstract
  <1> QED
    BY <1>1, <1>2, InitUpgrade, InitAbstract, PTL DEF Spec, Refines, Atomic!ASpec

\* A doInstall that succeeded has left a whole tree, also after switches that
\* were rolled back and when the registry serves an older image again.
THEOREM WholeAfterFaults ==
  ASSUME SafeUpgrade
  PROVE  Spec /\ Founded => []FinishedWhole
  <1>1. UpgradeInv /\ [Next]_vars => UpgradeInv'
    BY UpgradeStep
  <1>2. UpgradeInv => FinishedWhole
    <2> SUFFICES ASSUME UpgradeInv, result = "ok" PROVE Whole(org) = image
      BY DEF FinishedWhole
    <2>1. /\ pc = "idle" /\ org[N] = image /\ org \in Tree /\ image \in Images
          /\ Whole(org) # Torn
      BY DEF UpgradeInv, RollbackInv, MovesInv, FlowInv, Matches, TypeOK, Visible,
             Switching, SwitchPcs
    <2> QED
      BY <2>1, WholeNone
  <1> QED
    BY <1>1, <1>2, InitUpgrade, PTL DEF Spec
=============================================================================

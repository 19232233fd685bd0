------------------------------ MODULE OciSwitch ------------------------------
(***************************************************************************)
(* px-oci-mon installing, upgrading and removing Portworx on its node      *)
(* (src/px-oci-mon/main.go, utils/service-control.go).                     *)
(*                                                                         *)
(* An installation is N parts under /opt/pwx: part 1 is bin, part N is     *)
(* oci/config.json, which records the ID of the image it came from, and    *)
(* the ones between are the other trees under oci/ (oci/rootfs).  doInstall*)
(* pulls the image, compares its ID with the one in oci/config.json, fills *)
(* oci/inst-k8s with the new parts and moves them into place one by one,   *)
(* saving the old ones in oci/inst-scratchDir.  A failure rolls the moved  *)
(* parts back; a goroutine deletes both directories afterwards.  Every     *)
(* step may be the last one before the process dies.                       *)
(*                                                                         *)
(* The labels that start an (un)installation are modelled in LabelWatch,   *)
(* draining in NodeDrain.                                                  *)
(***************************************************************************)
EXTENDS Naturals, FiniteSets

CONSTANTS
    N,             \* how many parts an installation has
    Images,        \* the PX images the registry may serve, in order of age
    None, Torn,    \* no such file; a part that is half copied or deleted
    CrossMount,    \* the parts whose moves cross a mount point
    Revert,        \* may the registry serve an older image again?
    SerialSweep,   \* does an install start only after earlier sweeps ended?
    FaultKinds,    \* the steps that may fail
    MaxFaults,     \* bound: how many failures in a behaviour
    MaxCrashes,    \* bound: how many times the process dies
    MaxInstalls,   \* bound: how many installs the watcher starts
    MaxUninstalls  \* bound: how many removals the watcher starts

Steps == {"start", "pull", "id", "runonce", "runc", "purge", "mkdir", "stop", "save",
          "place", "runc2", "rbremove", "rbmove", "sweep", "enable",
          "restart", "unstop", "undisable", "unremove"}

ASSUME NAssumption == N \in Nat /\ N >= 2
ASSUME ImagesAssumption == Images \subseteq Nat /\ Images # {}
ASSUME ContentsAssumption == None \notin Images /\ Torn \notin Images
                             /\ None # Torn
ASSUME MountAssumption == CrossMount \subseteq 1..N
ASSUME SwitchesAssumption == Revert \in BOOLEAN /\ SerialSweep \in BOOLEAN
ASSUME FaultsAssumption == FaultKinds \subseteq Steps
ASSUME BoundsAssumption == MaxFaults \in Nat /\ MaxCrashes \in Nat
                           /\ MaxInstalls \in Nat /\ MaxUninstalls \in Nat

Parts    == 1..N
OciParts == Parts \ {1}      \* what lies under /opt/pwx/oci
Contents == Images \union {None, Torn}
Tree     == [Parts -> Contents]
Empty    == [p \in Parts |-> None]
Dirs     == {"neo", "scr"}

SwitchPcs    == {"stop", "save", "place", "runc2", "rbremove", "rbmove"}
InstallPcs   == SwitchPcs \union {"decide", "populate", "runc", "purge",
                                  "mkdir", "restart", "rolledback", "failed"}
UninstallPcs == {"unstop", "undisable", "unremove"}

VARIABLES
    pc,        \* where the goroutine running doInstall or doUninstall is
    booting,   \* main() has not reached its watch loop yet
    result,    \* how the last doInstall ended
    image,     \* the image the last pull brought
    need,      \* installStatus.needInstall
    part,      \* index in ociParts
    initial,   \* initialInstall of finalizePxOciInstall
    org,       \* the parts under /opt/pwx
    neo,       \* the parts under /opt/pwx/oci/inst-k8s
    scr,       \* the parts under /opt/pwx/oci/inst-scratchDir
    old,       \* history: org when the last switch began
    unit,      \* does portworx.service exist?
    enabled,   \* is it enabled?
    running,   \* the tree the service was started on, None when stopped
    sweep,     \* goroutines now deleting each directory
    faults, crashes, installs, uninstalls   \* spent of each bound

files  == <<org, neo, scr>>
node   == <<unit, enabled, running>>
flow   == <<booting, result, image, need, initial, old>>
spent  == <<crashes, installs, uninstalls>>
vars   == <<pc, part, flow, files, node, sweep, faults, spent>>

-----------------------------------------------------------------------------
\* What a tree amounts to: nothing without a config.json, the image of its
\* config.json when every part is from there, and garbage otherwise.
Whole(tree) == IF tree[N] \notin Images THEN None
               ELSE IF \A p \in Parts : tree[p] = tree[N] THEN tree[N]
               ELSE Torn

\* The outcomes <<source, destination>> of a mv of part p that does not
\* complete: a rename leaves both as they were, a copy may leave half.
Interrupted(p, src, dst) ==
    {<<src, dst>>} \union
    (IF p \in CrossMount THEN {<<src, Torn>>, <<Torn, src>>} ELSE {})

\* What mv leaves at its destination: a directory moved onto an existing
\* directory ends up inside it, a file replaces the file.
Landed(p, src, dst) == IF dst = None \/ p = N THEN src ELSE Torn

\* What may be left of part p while it is being deleted.
Remnants(p) == IF p = N THEN {None} ELSE {None, Torn}

\* ... and of a tree whose deletion does not come to its end.
PartlyDeleted(tree) ==
    {t \in Tree : \A p \in Parts :
        t[p] # tree[p] => tree[p] # None /\ t[p] \in Remnants(p)}

Fault(kind) == /\ kind \in FaultKinds
               /\ faults < MaxFaults
               /\ faults' = faults + 1

Ok == UNCHANGED faults

Goto(from, to) == pc = from /\ pc' = to

\* The process is gone: nothing it ran in memory survives, and the DaemonSet
\* starts it again.
Die == /\ pc' = "boot"
       /\ booting' = TRUE
       /\ result' = "none"
       /\ sweep' = [d \in Dirs |-> 0]

-----------------------------------------------------------------------------
Init == /\ pc = "boot"
        /\ booting = TRUE
        /\ result = "none"
        /\ image \in Images
        /\ need = FALSE
        /\ part = 1
        /\ initial = FALSE
        /\ \/ org = Empty /\ unit = FALSE /\ enabled = FALSE /\ running = None
           \/ /\ \E v \in Images :
                    /\ org = [p \in Parts |-> v]
                    /\ running = v
                    /\ Revert \/ image >= v
              /\ unit = TRUE
              /\ enabled = TRUE
        /\ neo = Empty
        /\ scr = Empty
        /\ old = org
        /\ sweep = [d \in Dirs |-> 0]
        /\ faults = 0 /\ crashes = 0 /\ installs = 0 /\ uninstalls = 0

Swept == \A d \in Dirs : sweep[d] = 0

\* main() finds the node disabled and goes to its watch loop.
SkipInstall == /\ Goto("boot", "idle")
               /\ booting' = FALSE
               /\ Ok
               /\ UNCHANGED <<part, result, image, need, initial, old, files,
                              node, sweep, spent>>

\* doInstall is called, by main() or by the watcher, and pulls the image, unless
\* it has returned an error before that.
StartInstall ==
    /\ \/ pc = "boot" /\ UNCHANGED installs
       \/ pc = "idle" /\ installs < MaxInstalls /\ installs' = installs + 1
    /\ SerialSweep => Swept
    /\ \/ /\ pc' = "decide"
          /\ \E v \in Images : (Revert \/ v >= image) /\ image' = v
          /\ Ok
       \/ pc' = "failed" /\ UNCHANGED image /\ Fault("start")
    /\ result' = "none"
    /\ UNCHANGED <<part, booting, need, initial, old, files, node, sweep,
                   crashes, uninstalls>>

\* A pull or a RunOnce that fails ends the process through usage().
GiveUp == /\ \/ pc = "decide" /\ Fault("pull")
             \/ pc = "populate" /\ Fault("runonce")
          /\ Die
          /\ UNCHANGED <<part, image, need, initial, old, files, node, spent>>

\* Faulty variants: the pulled ID is compared with what bin came from; or the
\* config.json of a download that was not finished counts as well; or only an
\* installation without a config.json is seen to need an install.
DecideByBin ==
    /\ pc = "decide"
    /\ need' = (org[1] # image)
    /\ pc' = IF need' THEN "populate" ELSE "runc"
    /\ part' = 1
    /\ Ok
    /\ UNCHANGED <<booting, result, image, initial, old, files, node, sweep,
                   spent>>

DecideByDownload ==
    /\ pc = "decide"
    /\ need' = (image \notin {org[N], neo[N]})
    /\ pc' = IF need' THEN "populate" ELSE "runc"
    /\ part' = 1
    /\ Ok
    /\ UNCHANGED <<booting, result, image, initial, old, files, node, sweep,
                   spent>>

DecideInitialOnly ==
    /\ pc = "decide"
    /\ need' = (org[N] \notin Images)
    /\ pc' = IF need' THEN "populate" ELSE "runc"
    /\ part' = 1
    /\ Ok
    /\ UNCHANGED <<booting, result, image, initial, old, files, node, sweep,
                   spent>>

\* The pulled ID is compared with the one in the installed config.json; an
\* installed ID that cannot be read means an install.
Decide ==
    /\ pc = "decide"
    /\ \/ /\ Ok
          /\ need' = (org[N] # image)
       \/ /\ Fault("id")
          /\ need' = TRUE
    /\ pc' = IF need' THEN "populate" ELSE "runc"
    /\ part' = 1
    /\ UNCHANGED <<booting, result, image, initial, old, files, node, sweep,
                   spent>>

\* The installer container writes the next part of the image to inst-k8s, all
\* but config.json.
Populate ==
    /\ pc = "populate"
    /\ neo' = [neo EXCEPT ![part] = image]
    /\ IF part + 1 >= N THEN pc' = "runc" /\ part' = 1
                        ELSE part' = part + 1 /\ UNCHANGED pc
    /\ Ok
    /\ UNCHANGED <<flow, org, scr, node, sweep, spent>>

\* px-runc install of the new parts, inside inst-k8s and without a unit file:
\* it writes the config.json.
ConfigureNew ==
    /\ pc = "runc" /\ need
    /\ \/ /\ pc' = "purge"
          /\ neo[1] # None
          /\ neo' = [neo EXCEPT ![N] = image]
          /\ Ok
       \/ /\ pc' = "failed"
          /\ UNCHANGED neo
          /\ \/ neo[1] \in {None, Torn} /\ Ok
             \/ Fault("runc")
    /\ UNCHANGED <<part, flow, org, scr, node, sweep, spent>>

\* px-runc install in place: it writes the unit file.  A unit file that was
\* not there is enabled and leads to a restart; otherwise px-runc's output,
\* the unit's time and /etc/pwx/config.json decide.
ConfigureInPlace ==
    /\ pc = "runc" /\ ~need
    /\ \/ /\ org[1] # None
          /\ unit' = TRUE
          /\ \/ enabled' = (enabled \/ ~unit) /\ Ok
             \/ ~unit /\ UNCHANGED enabled /\ Fault("enable")
          /\ \/ pc' = "restart" /\ UNCHANGED result
             \/ unit /\ pc' = "idle" /\ result' = "ok"
       \/ /\ pc' = "failed"
          /\ \/ org[1] \in {None, Torn} /\ Ok
             \/ Fault("runc")
          /\ UNCHANGED <<unit, enabled, result>>
    /\ initial' = FALSE
    /\ booting' = (booting /\ pc' # "idle")
    /\ UNCHANGED <<part, image, need, old, files, running, sweep, spent>>

\* finalizePxOciInstall notes whether the unit exists; switchOciInstall then
\* purges the scratch directory, ignoring an error of RemoveAll.
Purge ==
    /\ Goto("purge", "mkdir")
    /\ initial' = ~unit
    /\ \/ scr' = Empty /\ Ok
       \/ scr' \in PartlyDeleted(scr) /\ Fault("purge")
    /\ UNCHANGED <<part, booting, result, image, need, old, org, neo, node,
                   sweep, spent>>

\* The scratch directory is made; from here on the rollback is scheduled.
MakeScratch ==
    /\ pc = "mkdir"
    /\ \/ pc' = "stop" /\ old' = org /\ part' = 1 /\ Ok
       \/ pc' = "failed" /\ UNCHANGED <<old, part>> /\ Fault("mkdir")
    /\ UNCHANGED <<booting, result, image, need, initial, files, node, sweep,
                   spent>>

\* The service is stopped; when that fails the switch goes on regardless.
StopService ==
    /\ Goto("stop", "save")
    /\ \/ running' = None /\ Ok
       \/ UNCHANGED running /\ Fault("stop")
    /\ UNCHANGED <<part, flow, files, unit, enabled, sweep, spent>>

\* mv /opt/pwx/<part> to the scratch directory, if there is one.
Save ==
    /\ pc = "save"
    /\ \/ /\ pc' = "place"
          /\ IF org[part] = None THEN UNCHANGED <<org, scr>>
             ELSE /\ scr' = [scr EXCEPT
                               ![part] = Landed(part, org[part], scr[part])]
                  /\ org' = [org EXCEPT ![part] = None]
          /\ UNCHANGED part
          /\ Ok
       \/ /\ pc' = "rbremove"
          /\ org[part] # None
          /\ \E m \in Interrupted(part, org[part], scr[part]) :
                /\ org' = [org EXCEPT ![part] = m[1]]
                /\ scr' = [scr EXCEPT ![part] = m[2]]
          /\ part' = 1
          /\ Fault("save")
    /\ UNCHANGED <<flow, neo, node, sweep, spent>>

\* Faulty variant: the loop over the parts does not end after the last one.
PlaceOvercounts ==
    /\ Goto("place", "save")
    /\ org' = [org EXCEPT ![part] = neo[part]]
    /\ neo' = [neo EXCEPT ![part] = None]
    /\ part' = part + 1
    /\ Ok
    /\ UNCHANGED <<flow, scr, node, sweep, spent>>

\* mv the new part into place.
Place ==
    /\ pc = "place"
    /\ \/ /\ neo[part] # None
          /\ org' = [org EXCEPT ![part] = Landed(part, neo[part], org[part])]
          /\ neo' = [neo EXCEPT ![part] = None]
          /\ IF part = N THEN pc' = "runc2" /\ part' = 1
                         ELSE pc' = "save" /\ part' = part + 1
          /\ Ok
       \/ /\ pc' = "rbremove"
          /\ part' = 1
          /\ \/ neo[part] = None /\ UNCHANGED <<org, neo>> /\ Ok
             \/ /\ neo[part] # None
                /\ \E m \in Interrupted(part, neo[part], org[part]) :
                      /\ neo' = [neo EXCEPT ![part] = m[1]]
                      /\ org' = [org EXCEPT ![part] = m[2]]
                /\ Fault("place")
    /\ UNCHANGED <<flow, scr, node, sweep, spent>>

\* The asynchronous deletion of inst-k8s and then of the scratch directory.
Launch == sweep' = [sweep EXCEPT !["neo"] = @ + 1]

\* px-runc install of the parts now in place ends the switch.
Reconfigure ==
    /\ pc = "runc2"
    /\ \/ /\ pc' = "restart"
          /\ unit' = TRUE
          /\ Launch
          /\ Ok
       \/ /\ pc' = "rbremove"
          /\ UNCHANGED <<unit, sweep>>
          /\ \/ org[1] \in {None, Torn} /\ Ok
             \/ Fault("runc2")
    /\ UNCHANGED <<part, flow, files, enabled, running, spent>>

\* Faulty variant: the part is removed whether or not an old one was saved.
RollbackRemoveAlways ==
    /\ Goto("rbremove", "rbmove")
    /\ org' = [org EXCEPT ![part] = None]
    /\ Ok
    /\ UNCHANGED <<part, flow, neo, scr, node, sweep, spent>>

\* The rollback removes /opt/pwx/<part> if an old one was saved; it goes on
\* whether that succeeds or not.
RollbackRemove ==
    /\ Goto("rbremove", "rbmove")
    /\ \/ /\ org' = IF scr[part] = None THEN org
                    ELSE [org EXCEPT ![part] = None]
          /\ Ok
       \/ /\ scr[part] # None /\ org[part] # None
          /\ \E r \in Remnants(part) \union {org[part]} :
                r # None /\ org' = [org EXCEPT ![part] = r]
          /\ Fault("rbremove")
    /\ UNCHANGED <<part, flow, neo, scr, node, sweep, spent>>

\* Faulty variant: the rollback stops one part short.
RollbackMoveShort ==
    /\ pc = "rbmove"
    /\ IF scr[part] = None THEN UNCHANGED <<org, scr>>
       ELSE /\ org' = [org EXCEPT ![part] = scr[part]]
            /\ scr' = [scr EXCEPT ![part] = None]
    /\ IF part + 1 >= N THEN pc' = "rolledback" /\ part' = 1 /\ Launch
       ELSE pc' = "rbremove" /\ part' = part + 1 /\ UNCHANGED sweep
    /\ Ok
    /\ UNCHANGED <<flow, neo, node, spent>>

\* ... and moves the saved part back.  The last part launches the sweep.
RollbackMove ==
    /\ pc = "rbmove"
    /\ \/ /\ IF scr[part] = None THEN UNCHANGED <<org, scr>>
             ELSE /\ org' = [org EXCEPT
                               ![part] = Landed(part, scr[part], org[part])]
                  /\ scr' = [scr EXCEPT ![part] = None]
          /\ Ok
       \/ /\ scr[part] # None
          /\ \E m \in Interrupted(part, scr[part], org[part]) :
                /\ scr' = [scr EXCEPT ![part] = m[1]]
                /\ org' = [org EXCEPT ![part] = m[2]]
          /\ Fault("rbmove")
    /\ IF part = N THEN pc' = "rolledback" /\ part' = 1 /\ Launch
       ELSE pc' = "rbremove" /\ part' = part + 1 /\ UNCHANGED sweep
    /\ UNCHANGED <<flow, neo, node, spent>>

\* Faulty variant: start instead of restart.
StartOnly ==
    /\ Goto("restart", "idle")
    /\ enabled' = (enabled \/ initial)
    /\ running' = IF running = None THEN Whole(org) ELSE running
    /\ booting' = FALSE
    /\ result' = "ok"
    /\ Ok
    /\ UNCHANGED <<part, image, need, initial, old, files, unit, sweep, spent>>

\* Reload, enable a service that had no unit file, restart.
Restart ==
    /\ pc = "restart"
    /\ \/ initial /\ enabled' = TRUE /\ Ok
       \/ initial /\ UNCHANGED enabled /\ Fault("enable")
       \/ ~initial /\ UNCHANGED enabled /\ Ok
    /\ running' = Whole(org)
    /\ pc' = "idle"
    /\ booting' = FALSE
    /\ result' = "ok"
    /\ UNCHANGED <<part, image, need, initial, old, files, unit, sweep, spent>>

RestartFails ==
    /\ Goto("restart", "failed")
    /\ \/ enabled' = TRUE /\ initial
       \/ UNCHANGED enabled
    /\ running' \in {running, None}
    /\ Fault("restart")
    /\ UNCHANGED <<part, flow, files, unit, sweep, spent>>

\* doInstall returns an error: main() exits on it, the watcher ignores it.
ReturnError ==
    /\ pc \in {"failed", "rolledback"}
    /\ \/ booting /\ Die
       \/ /\ ~booting
          /\ pc' = "idle"
          /\ result' = "failed"
          /\ UNCHANGED <<booting, sweep>>
    /\ Ok
    /\ UNCHANGED <<part, image, need, initial, old, files, node, spent>>

-----------------------------------------------------------------------------
\* A goroutine deletes one more file of dir d.
SweepFile(d) ==
    /\ sweep[d] > 0
    /\ \E p \in Parts :
          LET tree == IF d = "neo" THEN neo ELSE scr IN
          /\ tree[p] # None
          /\ \E r \in Remnants(p) \ {tree[p]} :
                IF d = "neo" THEN neo' = [neo EXCEPT ![p] = r] /\ UNCHANGED scr
                             ELSE scr' = [scr EXCEPT ![p] = r] /\ UNCHANGED neo
    /\ Ok
    /\ UNCHANGED <<pc, part, flow, org, node, sweep, spent>>

\* It is done with dir d: the directory is gone, or RemoveAll gave up.
SweepNext(d) ==
    /\ sweep[d] > 0
    /\ \/ (IF d = "neo" THEN neo ELSE scr) = Empty /\ Ok
       \/ Fault("sweep")
    /\ sweep' = [e \in Dirs |-> IF e = d THEN sweep[e] - 1
                                ELSE IF e = "scr" THEN sweep[e] + 1
                                ELSE sweep[e]]
    /\ UNCHANGED <<pc, part, flow, files, node, spent>>

-----------------------------------------------------------------------------
\* The watcher calls doUninstall; an error ends it there and is ignored.
StartUninstall ==
    /\ Goto("idle", "unstop")
    /\ uninstalls < MaxUninstalls
    /\ uninstalls' = uninstalls + 1
    /\ result' = "none"
    /\ Ok
    /\ UNCHANGED <<part, booting, image, need, initial, old, files, node,
                   sweep, crashes, installs>>

UninstallStop ==
    /\ pc = "unstop"
    /\ \/ pc' = "undisable" /\ running' = None /\ Ok
       \/ pc' = "idle" /\ UNCHANGED running /\ Fault("unstop")
    /\ UNCHANGED <<part, flow, files, unit, enabled, sweep, spent>>

UninstallDisable ==
    /\ pc = "undisable"
    /\ \/ pc' = "unremove" /\ enabled' = FALSE /\ Ok
       \/ pc' = "idle" /\ UNCHANGED enabled /\ Fault("undisable")
    /\ UNCHANGED <<part, flow, files, unit, running, sweep, spent>>

\* Faulty variant: config.json is left behind.
RemoveKeepsConfig ==
    /\ org' = [p \in Parts |-> IF p \in {1, N} THEN org[p] ELSE None]
    /\ neo' = Empty /\ scr' = Empty

\* rm -fr of /opt/pwx/oci.  bin is not under it and stays.
RemoveOci ==
    /\ org' = [p \in Parts |-> IF p = 1 THEN org[p] ELSE None]
    /\ neo' = Empty /\ scr' = Empty

\* ... as far as it gets.
RemovePartly ==
    /\ org' \in {t \in PartlyDeleted(org) : t[1] = org[1]}
    /\ UNCHANGED <<neo, scr>>

\* The unit file goes first.
UninstallRemove ==
    /\ Goto("unremove", "idle")
    /\ \/ unit' = FALSE /\ RemoveOci /\ Ok
       \/ unit' \in {unit, FALSE} /\ RemovePartly /\ Fault("unremove")
    /\ UNCHANGED <<part, flow, enabled, running, sweep, spent>>

-----------------------------------------------------------------------------
\* What a step leaves on disk when the process dies under it.  A file is half
\* written, by the installer container or px-runc, ...
CutWrite ==
    \/ /\ pc = "populate"
       /\ neo' = [neo EXCEPT ![part] = Torn]
       /\ UNCHANGED <<org, scr, unit>>
    \/ /\ pc = "runc" /\ need
       /\ neo' = [neo EXCEPT ![N] = Torn]
       /\ UNCHANGED <<org, scr, unit>>
    \/ /\ (pc = "runc" /\ ~need) \/ pc = "runc2"
       /\ org' \in {org, [org EXCEPT ![N] = Torn]}
       /\ unit' = TRUE
       /\ UNCHANGED <<neo, scr>>

\* ... a directory is half deleted ...
CutDelete ==
    \/ /\ pc = "purge"
       /\ scr' \in PartlyDeleted(scr)
       /\ UNCHANGED <<org, neo, unit>>
    \/ /\ pc = "rbremove" /\ scr[part] # None /\ org[part] # None
       /\ \E r \in Remnants(part) : org' = [org EXCEPT ![part] = r]
       /\ UNCHANGED <<neo, scr, unit>>
    \/ /\ pc = "unremove"
       /\ unit' = FALSE
       /\ RemovePartly

\* ... or half copied.
CutMove ==
    \/ /\ pc = "save" /\ org[part] # None
       /\ \E m \in Interrupted(part, org[part], scr[part]) :
             /\ org' = [org EXCEPT ![part] = m[1]]
             /\ scr' = [scr EXCEPT ![part] = m[2]]
       /\ UNCHANGED <<neo, unit>>
    \/ /\ pc = "place" /\ neo[part] # None
       /\ \E m \in Interrupted(part, neo[part], org[part]) :
             /\ neo' = [neo EXCEPT ![part] = m[1]]
             /\ org' = [org EXCEPT ![part] = m[2]]
       /\ UNCHANGED <<scr, unit>>
    \/ /\ pc = "rbmove" /\ scr[part] # None
       /\ \E m \in Interrupted(part, scr[part], org[part]) :
             /\ scr' = [scr EXCEPT ![part] = m[1]]
             /\ org' = [org EXCEPT ![part] = m[2]]
       /\ UNCHANGED <<neo, unit>>

CutShort == UNCHANGED <<files, unit>> \/ CutWrite \/ CutDelete \/ CutMove

\* The process is killed or its pod is replaced.  The portworx service is
\* the host's, and goes on as it was.
Crash == /\ crashes < MaxCrashes
         /\ crashes' = crashes + 1
         /\ pc # "boot"
         /\ Die
         /\ CutShort
         /\ Ok
         /\ UNCHANGED <<part, image, need, initial, old, enabled, running,
                        installs, uninstalls>>

\* The bounds are used up and the watcher has nothing more to react to.
Rest == /\ pc = "idle" /\ Swept
        /\ installs = MaxInstalls /\ uninstalls = MaxUninstalls
        /\ UNCHANGED vars

Install == \/ Decide \/ Populate \/ ConfigureNew \/ ConfigureInPlace
           \/ Purge \/ MakeScratch \/ StopService \/ Save \/ Place
           \/ Reconfigure \/ RollbackRemove \/ RollbackMove
           \/ Restart \/ RestartFails \/ ReturnError \/ GiveUp

Uninstall == UninstallStop \/ UninstallDisable \/ UninstallRemove

Sweep == \E d \in Dirs : SweepFile(d) \/ SweepNext(d)

Next == \/ SkipInstall \/ StartInstall \/ Install
        \/ StartUninstall \/ Uninstall
        \/ Sweep \/ Crash \/ Rest

Spec == Init /\ [][Next]_vars

\* A booting process runs doInstall, what has begun is carried on, and so is
\* the sweep: each is a goroutine of a running process.
Fairness == /\ WF_vars((pc = "boot" /\ StartInstall) \/ Install)
            /\ WF_vars(Uninstall)
            /\ WF_vars(Sweep)

FairSpec == Spec /\ Fairness

-----------------------------------------------------------------------------
TypeOK ==
    /\ pc \in InstallPcs \union UninstallPcs \union {"boot", "idle"}
    /\ booting \in BOOLEAN
    /\ result \in {"none", "ok", "failed"}
    /\ image \in Images
    /\ need \in BOOLEAN
    /\ part \in Parts
    /\ initial \in BOOLEAN
    /\ org \in Tree /\ neo \in Tree /\ scr \in Tree /\ old \in Tree
    /\ unit \in BOOLEAN
    /\ enabled \in BOOLEAN
    /\ running \in Contents
    /\ sweep \in [Dirs -> Nat]
    /\ faults \in 0..MaxFaults
    /\ crashes \in 0..MaxCrashes
    /\ installs \in 0..MaxInstalls
    /\ uninstalls \in 0..MaxUninstalls

\* switchOciInstall's rollback, once it has run to its end, leaves every part
\* that existed before the switch as it was; a part that did not exist is
\* absent or new.
RollbackRestores ==
    pc = "rolledback" => \A p \in Parts : \/ org[p] = old[p]
                                          \/ old[p] = None /\ org[p] = image

\* At every point of a switch and of its rollback, every part of the earlier
\* installation is whole, in place or in the scratch directory.
NoPartLost ==
    pc \in SwitchPcs =>
       \A p \in Parts : old[p] # None => old[p] \in {org[p], scr[p]}

\* A doInstall that succeeded, with or without switching, leaves a whole tree
\* of the image it pulled: an installed ID equal to the pulled one stands for
\* all the parts (installPxFromOciImage, "same as pulled image ID").
FinishedWhole == result = "ok" => Whole(org) = image

\* A doInstall that succeeded leaves the service enabled, and running the
\* image it pulled: "restart not required" is only said of such a service.
FinishedRunning == result = "ok" => running = image /\ enabled

\* However often the process dies, main() gets through doInstall in the end:
\* what it finds on disk never makes it fail for good.
BootEnds == pc = "boot" ~> pc = "idle"

\* Whatever else fails, there is one way to be stuck: a bin that is missing or
\* half there, under a config.json that says it need not be installed.
Stuck == org[1] \in {None, Torn} /\ org[N] = image
BootEndsOrStuck == pc = "boot" ~> (pc = "idle" \/ []Stuck)

\* The installation is replaced as a whole or not at all: AtomicUpgrade, with
\* a switch seen at its end.
Switching == pc \in SwitchPcs
Atomic == INSTANCE AtomicUpgrade WITH
             inst <- IF Switching THEN Whole(old) ELSE Whole(org),
             busy <- Switching,
             live <- running
Refines == Atomic!ASpec
=============================================================================

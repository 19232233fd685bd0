----------------------------- MODULE InstallerRun -----------------------------
(***************************************************************************)
(* What doInstall of px-oci-mon reads from Docker and from px-runc, and    *)
(* what it decides from it (src/px-oci-mon/utils/installer.go, main.go     *)
(* 112-287 and 572-646): the output of the pull, of which only the first   *)
(* buffer is searched for a download; the framed log of the installer      *)
(* container, which says whether the node must be drained; and the output  *)
(* of px-runc, which says whether the service must be restarted.           *)
(*                                                                         *)
(* Files and service are modelled in OciSwitch, what the readiness probe   *)
(* sees of a download in RestServlet, the drain in NodeDrain.              *)
(***************************************************************************)
EXTENDS Naturals, FiniteSets

CONSTANTS
    Images,      \* the PX images the registry may serve
    None,        \* no image, no container, no layer, no list, no report
    BufSize,     \* how much the first read of a pull's output takes
    MarkLen,     \* length of "Pulling fs layer", which announces a layer
    MaxLen,      \* bound: length of the output of a pull
    Frames,      \* how many frames the installer's log has
    Mounts,      \* the mounts px-runc may report as changed
    PodMounts,   \* those in the kubelet's directory of pods
    MaxFaults,   \* bound: how many calls fail in one doInstall
    MaxStarts    \* bound: how many times doInstall begins

ASSUME NoneAssumption == None \notin Nat
ASSUME ImagesAssumption == Images # {} /\ None \notin Images
ASSUME SizesAssumption == /\ BufSize \in Nat \ {0} /\ MarkLen \in Nat \ {0}
                          /\ MaxLen \in Nat
ASSUME FramesAssumption == Frames \in Nat
ASSUME MountsAssumption == PodMounts \subseteq Mounts
ASSUME BoundsAssumption == MaxFaults \in Nat /\ MaxStarts \in Nat

Calls == {"cutfirst", "cut", "error", "id", "remove", "start", "logs", "cutlog", "short",
          "wait", "runc", "kubelet", "stat"}

VARIABLES
    pc,          \* where doInstall is
    failed,      \* the calls that have failed in this doInstall
    wanted,      \* the image the registry serves in this pull
    local,       \* the image that has the tag on the node
    installed,   \* the image ID in the installed config.json
    stream,      \* the pull's output: its length, where a layer is announced
    arrived,     \* how much of it reaches the process
    told,        \* was the download callback called?
    cntr,        \* the installer container: its state and image
    mark,        \* the frame that says " require reboot ", 0 if none does
    got,         \* how many whole frames the log reader has passed on
    broken,      \* no more bytes of the log will come
    needInstall, needCordon, needRestart,    \* installStatus
    output,      \* what px-runc printed
    host,        \* what else asks for a restart: the unit file, config.json
    starts       \* spent of MaxStarts

docker == <<wanted, local, installed, cntr>>
pull   == <<stream, arrived, told>>
log    == <<mark, got, broken>>
runc   == <<output, host, needRestart>>
need   == <<needInstall, needCordon>>
vars   == <<pc, failed, docker, pull, log, runc, need, starts>>

-----------------------------------------------------------------------------
\* The first announcement of a layer is the one that counts.
Streams == {s \in [len : 0..MaxLen, layer : 0..MaxLen \union {None}] :
               s.layer # None => s.layer + MarkLen <= s.len}
NoStream == [len |-> 0, layer |-> None]

\* Faulty variant: any output that fills the buffer is taken for a download.
AnnouncedByAny(s) == s.len > 0

\* Is a layer announced, and to the end of the marker, in the first buffer?
Announced(s) == s.layer # None /\ s.layer + MarkLen <= BufSize

\* px-runc reports on the specification, and lists the mounts it added and
\* removed; a list may lack its closing brace, the report may come first.
Lists    == [mounts : SUBSET Mounts, closed : BOOLEAN] \union {None}
Outputs  == [spec : {"unchanged", "created", "updated", None},
             first : BOOLEAN, add : Lists, rm : Lists]
NoOutput == [spec |-> None, first |-> FALSE, add |-> None, rm |-> None]

\* A list makes a restart necessary if it names a mount not of a pod; it is
\* also taken to when its brace is missing, or follows at once.
Forces(list) == /\ list # None
                /\ \/ ~list.closed \/ list.mounts = {}
                   \/ \E m \in list.mounts : m \notin PodMounts

\* A report is only found when something stands before it.
Reported(o, what) == o.spec = what /\ ~o.first

RestartFor(o, kubelet, lists) ==
    /\ ~Reported(o, "unchanged")
    /\ Reported(o, "created") \/ ~kubelet \/ \E l \in lists : Forces(l)

\* Faulty variant: the list of removed mounts is not looked at.
IgnoreRemoved(o, kubelet) == RestartFor(o, kubelet, {o.add})

isRestartRequired(o, kubelet) == RestartFor(o, kubelet, {o.add, o.rm})

Fault(call) == /\ Cardinality(failed) < MaxFaults
               /\ failed' = failed \union {call}
Ok == UNCHANGED failed
Goto(from, to) == pc = from /\ pc' = to

\* usage() or an error that main() ends with; the process starts over.
Exit == pc' = "boot" /\ UNCHANGED <<docker, pull, log, runc, need, starts>>

Init == /\ pc = "boot" /\ failed = {}
        /\ wanted \in Images
        /\ local \in Images \union {None}
        /\ installed \in {None, local}
        /\ cntr = [state |-> "none", image |-> None]
        /\ stream = NoStream /\ arrived = 0 /\ told = FALSE
        /\ mark = 0 /\ got = 0 /\ broken = FALSE
        /\ needInstall = FALSE /\ needCordon = FALSE /\ needRestart = FALSE
        /\ output = NoOutput /\ host = "same"
        /\ starts = 0

-----------------------------------------------------------------------------
\* doInstall pulls the image.  The output announces layers only when they are
\* not on the node, may break off at any point, and may be whole but carry an
\* error message of Docker's, which reports a failing pull in its output.
ImagePull ==
    /\ Goto("boot", "first")
    /\ starts < MaxStarts /\ starts' = starts + 1
    /\ \E v \in Images, s \in Streams :
          /\ v = local => s.layer = None
          /\ wanted' = v
          /\ stream' = s
          /\ \/ arrived' = s.len /\ failed' = {}
             \/ /\ MaxFaults > 0
                /\ arrived' \in 0..MaxLen /\ arrived' < s.len
                /\ failed' = IF arrived' < BufSize THEN {"cutfirst"} ELSE {"cut"}
             \/ MaxFaults > 0 /\ arrived' = s.len /\ failed' = {"error"}
    /\ told' = FALSE
    /\ needInstall' = FALSE /\ needCordon' = FALSE /\ needRestart' = FALSE
    /\ mark' = 0 /\ got' = 0 /\ broken' = FALSE
    /\ UNCHANGED <<local, installed, cntr, output, host>>

Complete == arrived = stream.len

\* The pull is over for PullImageCb, which looks for no error message.  The
\* tag has moved if the daemon was through with it.
Pulled == /\ pc' = "inspect"
          /\ local' = IF Complete /\ "error" \notin failed THEN wanted ELSE local
          /\ Ok
          /\ UNCHANGED <<wanted, installed, cntr, stream, arrived, log, runc,
                         need, starts>>

\* io.ReadFull of the first buffer.
ReadFirst ==
    /\ Goto("first", "copy")
    /\ arrived >= BufSize
    /\ told' = Announced(stream)
    /\ Ok
    /\ UNCHANGED <<docker, stream, arrived, log, runc, need, starts>>

\* Fewer bytes are an OK condition, however the output ended.
ReadShort == /\ pc = "first" /\ arrived < BufSize
             /\ arrived > 0 \/ ~Complete
             /\ UNCHANGED told
             /\ Pulled

\* Nothing at all, or an error other than an early end of the output.
ReadFails == /\ pc = "first" /\ arrived < BufSize
             /\ (arrived = 0 /\ Complete) \/ ~Complete
             /\ Ok
             /\ Exit

\* Faulty variant: an error of the copy is dropped.
CopyAnything == pc = "copy" /\ UNCHANGED told /\ Pulled

\* io.CopyBuffer of the rest.
CopyRest == pc = "copy" /\ Complete /\ UNCHANGED told /\ Pulled

CopyFails == pc = "copy" /\ ~Complete /\ Ok /\ Exit

\* The pulled ID is compared with the installed one.
Inspect ==
    /\ pc = "inspect"
    /\ \/ needInstall' = (local = None \/ installed # local) /\ Ok
       \/ needInstall' = TRUE /\ Fault("id")
    /\ pc' = IF needInstall' THEN "run" ELSE "runc"
    /\ stream' = NoStream /\ arrived' = 0
    /\ UNCHANGED <<docker, told, log, runc, needCordon, starts>>

-----------------------------------------------------------------------------
\* RunOnce removes an old installer container, creates and starts a new one.
RunContainer ==
    /\ Goto("run", "logs")
    /\ local # None
    /\ cntr' = [state |-> "running", image |-> local]
    /\ mark' \in 0..Frames /\ got' = 0 /\ broken' = FALSE
    /\ Ok
    /\ UNCHANGED <<wanted, local, installed, pull, runc, need, starts>>

\* The error of the removal is ignored, but then the name is taken.
RunFails ==
    /\ Goto("run", "boot")
    /\ \/ cntr.state # "none" /\ UNCHANGED cntr /\ Fault("remove")
       \/ /\ cntr' = [state |-> "none", image |-> None]
          /\ (local = None /\ Ok) \/ Fault("start")
    /\ UNCHANGED <<wanted, local, installed, pull, log, runc, need, starts>>

OpenLog ==
    /\ pc = "logs"
    /\ \/ pc' = "header" /\ Ok
       \/ pc' = "wait" /\ Fault("logs")
    /\ UNCHANGED <<docker, pull, log, runc, need, starts>>

\* Faulty variant: the end of the log is not recognised.
FramesPastEnd == ~broken /\ got <= Frames

MoreFrames == ~broken /\ got < Frames

EndLog(cordon) == /\ pc' = "wait"
                  /\ needCordon' = cordon
                  /\ UNCHANGED <<got, broken>>

\* Faulty variant: whether the log was complete makes no difference.
ProcessedAnyway(err) == EndLog(mark \in 1..got)

\* The callback of the log: an incomplete one requires cordoning.
LogProcessed(err) == EndLog(err \/ mark \in 1..got)

ReadHeader ==
    /\ pc = "header"
    /\ \/ /\ MoreFrames
          /\ pc' = "data"
          /\ Ok
          /\ UNCHANGED <<got, broken, needCordon>>
       \/ /\ ~broken /\ got = Frames /\ cntr.state # "running"
          /\ LogProcessed(FALSE)
          /\ Ok
       \/ /\ LogProcessed(TRUE)
          /\ (broken /\ Ok) \/ Fault("cutlog")
    /\ UNCHANGED <<docker, pull, mark, runc, needInstall, starts>>

\* One Read is expected to return the whole frame.  When it does not and the
\* log goes on, what is left of it is taken for headers and frames.
ReadData ==
    /\ pc = "data"
    /\ \/ /\ pc' = "header"
          /\ got' = got + 1
          /\ Ok
          /\ UNCHANGED <<broken, needCordon>>
       \/ /\ pc' = "header"
          /\ broken' = TRUE
          /\ Fault("cutlog")
          /\ UNCHANGED <<got, needCordon>>
       \/ LogProcessed(TRUE) /\ Fault("cutlog")
       \/ \E err \in BOOLEAN : LogProcessed(err) /\ Fault("short")
    /\ UNCHANGED <<docker, pull, mark, runc, needInstall, starts>>

Wait ==
    /\ Goto("wait", "runc")
    /\ cntr.state = "ok"
    /\ Ok
    /\ UNCHANGED <<docker, pull, log, runc, need, starts>>

WaitFails == /\ pc = "wait"
             /\ (cntr.state = "failed" /\ Ok) \/ Fault("wait")
             /\ Exit

\* px-runc install, and what is then known about the need to restart: the
\* unit file is new or has changed, /etc/pwx/config.json is missing, or the
\* output says so.
Configure ==
    /\ Goto("runc", "done")
    /\ host' \in {"same", "new", "later", "noconfig"}
    /\ needInstall => host' \in {"same", "noconfig"}
    /\ output' \in Outputs
    /\ \E kubelet \in BOOLEAN :
          /\ IF kubelet THEN Ok ELSE Fault("kubelet")
          /\ needRestart' = \/ needInstall
                            \/ host' # "same"
                            \/ isRestartRequired(output', kubelet)
    /\ UNCHANGED <<docker, pull, log, need, starts>>

ConfigureFails == pc = "runc" /\ (Fault("runc") \/ Fault("stat")) /\ Exit

\* The rest of doInstall puts the new files in place; the watcher calls it
\* again some day.
Finish ==
    /\ Goto("done", "boot")
    /\ installed' = IF needInstall THEN cntr.image ELSE installed
    /\ output' = NoOutput /\ host' = "same"
    /\ Ok
    /\ UNCHANGED <<wanted, local, cntr, pull, log, needRestart, need, starts>>

\* The installer container ends by itself.
ContainerEnds ==
    /\ cntr.state = "running"
    /\ \E s \in {"ok", "failed"} : cntr' = [cntr EXCEPT !.state = s]
    /\ Ok
    /\ UNCHANGED <<pc, wanted, local, installed, pull, log, runc, need, starts>>

\* The process is killed; Docker's containers go on.
Crash == pc \notin {"boot", "done"} /\ Ok /\ Exit

Rest == pc = "boot" /\ starts = MaxStarts /\ UNCHANGED vars

Next == \/ ImagePull \/ ReadFirst \/ ReadShort \/ ReadFails
        \/ CopyRest \/ CopyFails \/ Inspect
        \/ RunContainer \/ RunFails \/ OpenLog \/ ReadHeader \/ ReadData
        \/ Wait \/ WaitFails \/ Configure \/ ConfigureFails \/ Finish
        \/ ContainerEnds \/ Crash \/ Rest

Spec == Init /\ [][Next]_vars

-----------------------------------------------------------------------------
TypeOK ==
    /\ pc \in {"boot", "first", "copy", "inspect", "run", "logs", "header",
               "data", "wait", "runc", "done"}
    /\ failed \subseteq Calls
    /\ wanted \in Images
    /\ local \in Images \union {None} /\ installed \in Images \union {None}
    /\ stream \in Streams /\ arrived \in 0..MaxLen /\ told \in BOOLEAN
    /\ cntr \in [state : {"none", "running", "ok", "failed"},
                 image : Images \union {None}]
    /\ mark \in 0..Frames /\ got \in 0..Frames /\ broken \in BOOLEAN
    /\ needInstall \in BOOLEAN /\ needCordon \in BOOLEAN /\ needRestart \in BOOLEAN
    /\ output \in Outputs
    /\ host \in {"same", "new", "later", "noconfig"}
    /\ starts \in 0..MaxStarts

\* The servlet is told of a download only when there is one: a pull of an image
\* that is up to date does not make the node look as if it were upgraded.
NoFalseAlarm == pc = "copy" /\ told => local # wanted

\* installPxFromOciImage hands px-runc files of the image that has the tag,
\* whatever fails: those of an installer container of its own that ended well,
\* or those that are installed.  It is the image the registry served, unless
\* the pull broke off in the first buffer or Docker reported an error in its
\* output, which PullImageCb takes for a pull that went well.
RightImage ==
    pc \in {"runc", "done"} =>
       /\ IF needInstall THEN cntr = [state |-> "ok", image |-> local]
                         ELSE installed = local
       /\ failed \intersect {"cutfirst", "error"} = {} => local = wanted

\* The log decides on cordoning the node (logProcCb): the switch goes on
\* without a drain only if the whole log was read and asked for no reboot.  A
\* log that could not be opened, or was read with short Reads, is excepted.
CordonIfInDoubt ==
    /\ pc \in {"wait", "runc", "done"}
    /\ needInstall
    /\ failed \intersect {"logs", "short"} = {}
    => /\ mark # 0 \/ got < Frames => needCordon
       /\ needCordon => mark # 0 \/ "cutlog" \in failed

\* isRestartRequired as its comment has it, for outputs of the shape of
\* main_test.go: "TRUE if spec is new ... or non POD-mounts -specific updates".
\* An update always lists the mounts; one that is of something else, and output
\* with neither report nor list, are not of this shape: they get no restart.
Usual(o) == /\ ~o.first
            /\ o.spec \in {None, "updated"} => {o.add, o.rm} # {None}
            /\ o.spec = "unchanged" => {o.add, o.rm} = {None}
            /\ \A l \in {o.add, o.rm} : l # None => l.closed /\ l.mounts # {}
Changed(o) == \/ o.spec = "created"
              \/ \E l \in {o.add, o.rm} :
                    l # None /\ ~(l.mounts \subseteq PodMounts)
RestartIfChanged ==
    /\ pc = "done" /\ ~needInstall /\ host = "same"
    /\ "kubelet" \notin failed /\ Usual(output)
    => needRestart = Changed(output)
=============================================================================

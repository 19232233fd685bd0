# Verification of the Portworx installer

This directory holds TLA+ specifications of the programs of this repository:
px-oci-mon, the DaemonSet that keeps a Portworx OCI installation and its systemd
service on a Kubernetes node, px-spec-websvc, which generates the specification
a user applies, and px-mon, the older monitor for Docker Swarm; with them TLC
configurations that check them, and TLAPS proofs about them. `PROJECT.json` lists every run, property, theorem, hazard and finding,
and the source lines of every definition.

    tlc -workers 2 -config OciSwitch_faults.cfg OciSwitch     # one run
    tlapm OciSwitchProofs.tla                                 # the proofs

## The system

| Component | Source | State it keeps | Operations |
|---|---|---|---|
| Installation switch | `px-oci-mon/main.go` 107-262, 320-530, `utils/inspect.go`, `utils/installer.go` | `/opt/pwx/{bin,oci/rootfs,oci/config.json}`, `oci/inst-k8s`, `oci/inst-scratchDir`, the unit file | pull, compare image IDs, RunOnce, `px-runc install`, save and place part by part, rollback, asynchronous cleanup, restart |
| Uninstall, service control | `main.go` 533-571, `utils/service-control.go` | unit file, enabled flag, running service | Stop, Disable, Remove, Start, Restart, Enable, HandleRequest |
| Start and label watch | `main.go` 636-687, 778-812, `utils/kubernetes.go`, vendored `sched-ops/k8s` | globals `lastPxDisabled`, `lastServiceCmd`; the node's labels | FindMyNode, WatchNode, watchNodeLabels, DisablePx, RemoveServiceLabel |
| Draining | `utils/kubernetes.go` 86-150, `main.go` 423-476, `sched-ops/k8s` | cordon of the node, pods on it | list pods, cordon, delete, wait, uncordon |
| REST servlet | `utils/servlet.go` | state unknown / installing / finished, `errorsGrace`, one mutex | health proxy, `/service/{cmd}`: systemctl commands, drain, drain-managed |
| Docker client | `utils/installer.go` | the pull's and the container's output streams, the installer container | PullImage, RunOnce, stream readers |
| Restart decision | `main.go` 572-646 | none | isRestartRequired |
| Arguments, mounts | `main.go` 65-90, 194-235, 290-318, 702-777, `utils/inspect.go` | `os.Args`, options; the environment in the installed config.json | parse, validateMounted, formatMounts, compose px-runc's command |
| px-spec-websvc | `px-spec-websvc/` | none between requests | parse parameters, render YAML, parseKubeVer |
| its upgrade and wipe scripts | `px-spec-websvc/templates/*.sh` | cluster objects | wait loops over kubectl |
| px-mon (deprecated) | `px-mon/` | the PX container; one channel of signals | install, signal handlers |
| px-init (deprecated) | `px-init/` | none | one nsenter command |

How they interact.  `main()` finds its node, calls `doInstall` when the node is
enabled, and registers `watchNodeLabels` as the callback of a watch.  Every
update of the node object runs the callback, which calls `doInstall` or
`doUninstall` when the label `px/enabled` changed, or `HandleRequest` when
`px/service` did; some of these edit the labels in turn.  `doInstall` ends in
`finalizePxOciInstall`, which drains the node when a reboot is required,
switches the installation, restarts the service and uncordons the node.  The
servlet runs in goroutines of its own and shares with all of this the
service, the node's cordon and its state variable.  Whether the node is drained
and the service restarted is decided by what the installer container and px-runc
print; which image is installed is known from the environment px-runc was given.
px-spec-websvc and px-mon share nothing with px-oci-mon but the image they name.

What is hard in it, with the lines in `PROJECT.json`: the switch is a sequence of
renames with no journal, and the process may be killed between any two; the
image ID in `config.json` stands for a complete installation; the cleanup is a
goroutine nobody waits for; watch callbacks act on node objects as old as the
previous callback was long; two watches of one node share unprotected globals;
errors of the watcher's installs are dropped; a drain succeeds, fails or times
out while pods come and go and others cordon the node; decisions hang on streams
that may be cut short at any byte; px-mon's signal handlers work on lists of
containers that install() changes meanwhile.

What makes each part correct.  *Switch*: afterwards the old or the new
installation is there as a whole, and a success means that the pulled image
runs.  *Watch*: once nothing is under way, the node agrees with its labels, and
a request is carried out, once.  *Drain*: the pods are gone before the switch,
and the cordon lasts as long as it is wanted.  *Servlet*: the state reflects
the last install, and a request is answered while another one works.  *Docker
client, restart decision*: what is announced, installed, drained and restarted
is what the output asks for, and a doubt means drain.  *Arguments*: px-runc gets
what is meant for it, and what it records is recognised.  *px-spec-websvc*: one
Portworx per node, on the drives named.  *px-mon*: Portworx runs, until stopped.

## The modules

**`OciSwitch`** is the process's work on the disk and on the service.  `N` parts
(the code has three: bin, oci/rootfs, oci/config.json) exist in three
trees: `org` (/opt/pwx), `neo` (inst-k8s) and `scr` (inst-scratchDir).  A part's
value is the image it came from, `None` or `Torn`.  `pc` names the point in
`doInstall` or `doUninstall`, one action per call that may fail:

| Code | Actions |
|---|---|
| `installPxFromOciImage` | `StartInstall` (up to the pull; it may fail before), `Decide`, `Populate`, `ConfigureNew` or `ConfigureInPlace`, `GiveUp` |
| `switchOciInstall` | `Purge`, `MakeScratch`, `StopService`, `Save`, `Place`, `Reconfigure` |
| its deferred function | `RollbackRemove`, `RollbackMove`, `Launch`; `SweepFile`, `SweepNext` |
| `finalizePxOciInstall`, `doInstall` | `Purge` (initialInstall), `Restart`, `RestartFails`, `ReturnError` |
| `doUninstall`, `OciServiceControl` | `StartUninstall`, `UninstallStop`, `UninstallDisable`, `UninstallRemove` |
| process death, pod restart | `Crash`, with what the step under way leaves on disk (`CutShort`): a file half written (`CutWrite`), a directory half deleted (`CutDelete`) or half copied (`CutMove`) |

`moveFileOrDir` is `mv`: between two directories of one mount it is a rename,
and across mounts (`CrossMount`) a copy that may leave half; a directory
moved onto an existing directory ends up inside it (`Landed`).  A deletion that fails
or is cut short leaves any part of what it was to delete (`PartlyDeleted`).  The part bin and
the tree oci/ may be on different mounts in a deployment, hence the constant.
`Revert` lets the registry serve an older image than before.  `SerialSweep`
restricts behaviours to those where an install starts after the cleanup of the
one before has ended; see "What the code does not ensure" for what happens
otherwise.
Faults are picked from `FaultKinds`, one kind per call.

**`AtomicUpgrade`** is the abstract specification: an installed image, a flag
that a switch is under way, and the image the service runs; a switch commits
or aborts as a whole, and the service is only started outside of a switch, on
what is installed.  `OciSwitch!Refines` maps `inst` to the image of a tree
whose parts all agree, taken before the switch while one is under way.

**`LabelWatch`** is `main()` and the two watches a node found disabled gets.
`queue[w]` holds the node objects of events not yet handled, `at[w]` the point
inside a callback.  `Return` is the deferred assignment to `lastPxDisabled`.
`Handle` reads the event; `Install`, `Uninstall`, `DisablePx`, `Serve` and
`ClearService` are separate steps, since users edit labels in between and the
edits are queued.  `CloseWatch` and `Rewatch` are `handleWatch` of sched-ops: a watch
that is closed still delivers what is on its way, some first part of its queue, and is
established again when that has been handled.
In the model one update is one event and the new watch starts with the current
object, which is how the API server is used by sched-ops.

**`NodeDrain`** is the installer's drain around its switch and a drain asked for
over REST, with pods that are scheduled, terminate or vanish and an
administrator's `kubectl cordon`.  `List`, `Cordon`, `DeletePod`,
`RollbackCordon` and `WaitPod` are the calls of `DrainPxVolumeConsumerPods` and
`DrainPodsFromNode`, `Finish` the end of `finalizePxOciInstall`.  The servlet's
lock allows one REST operation at a time, so one REST drainer is all there is.
`holds` and `meddled` are history variables for the properties.

**`RestServlet`** is the state the readiness probe is answered from.  Its
installers are `main()` and the two watches; of `doInstall` only the places are
kept that set the state or end the process (`Notify`, `SameImage`, `Finish`,
`Settle`, `Exit`; the last also when a disabled node cannot be watched).  A POST holds the mutex from `Begin` to `End`, all the others
take and release it in one step and need it to be free.  A GET reads the state
twice, as `handleGetHead` does.  Nothing in it is bounded but the number of
handlers: requests, installs and failures may recur for ever.

**`InstallerRun`** is what `doInstall` reads and concludes.  `PullImageCb` is
`ImagePull`, `ReadFirst`, `ReadShort`, `ReadFails`, `CopyRest` and `CopyFails` on a
stream of which the length, the place of the first layer announcement and whether it
carries an error message matter (`BufSize` is the 512 bytes of the code, `MarkLen` the
marker's length).  Docker answers a pull with status 200 and reports in the stream that it
failed; `PullImageCb` looks for no such message, so that only the image with the
tag, `local`, tells this pull from one that went well (`Pulled`).
`RunOnce` is `RunContainer`, `OpenLog`, `Wait` and their failures;
`dockerLogReader` is `ReadHeader` and `ReadData`, one per Read, and
`LogProcessed` the callback that sets needCordon.  `Inspect` sets needInstall,
`Configure` needRestart, with `isRestartRequired` as an operator on px-runc's
output.  `failed` remembers which calls have failed, so that properties can name
their exceptions.

**`PxRuncArgs`** is the loop over the arguments, one action per case, and the
composition of px-runc's command line: the arguments, the mounts (`formatMounts`,
the private ones left out) and the image ID, which the next `doInstall` reads
back from config.json.  `InstallWords` are the arguments that end in "install": as the
first one such a word is not handed on (`Handed`), and `given` keeps the command line as it
was, so that `ArgsPassed` can compare it with what px-runc is to get.
Of the environment only PX_IMAGE_ID is kept; PATH,
PX_IMAGE and the user's own entries are passed on without being looked at.

**`SpecService`** is one request of px-spec-websvc from arrival to answer:
`parseInstallRequest`, `generateInstallSpec`, and of the templates the
DaemonSets, the nodes they select and the RBAC version.  Versions are sequences of
character codes, since they are compared as strings.  A node (`Nodes`) has the role label of
Kubernetes, OpenShift's two labels, px/enabled and the masters' taint, each for itself, and
`Runs` is the affinity and the tolerations of the templates.  The text that is sent is
modelled as far as it is printed as a format: the URL in the comment, one value, and
what `strings.Replace` and `fmt.Fprintf` make of their percent signs.

**`PxMon`** is `main()` and `install()` of px-mon beside the goroutines of its
SIGTERM handler.  `cntr` is the state of each Docker container, `list` and
`todo[h]` the lists that `install()` and handler `h` work on.  Docker lists containers by
the image that has px's tag now (`Listed`): those of an image that had it before (`old`, by
`MoveTag`) still exist and hold the name px.

**`OciSwitchProofs`**, **`LabelWatchProofs`**, **`NodeDrainProofs`**,
**`RestServletProofs`**, **`InstallerRunProofs`**, **`PxRuncArgsProofs`**,
**`SpecServiceProofs`** and **`PxMonProofs`** hold the theorems about the module
each is named after.

The definitions marked "Faulty variant" in the modules are not part of the
specifications.  Each is a plausible mistake in the action next to it; put in
its place it breaks a property, which shows that the property depends on
that code.

## The runs

Only `args_command` uses symmetry, of its images, which are just compared there (and it checks
no liveness); in `OciSwitch` the images are ordered and the parts are not alike.
N = 3 as in the code, two images (the installed and a new one), so that every
mixture of old, new, torn and missing parts occurs.

| Run | Shows | Bounds |
|---|---|---|
| `switch_faults` | `RollbackRestores`, `NoPartLost`, `Refines`: one failing call anywhere but in the rollback; older images may come back | 1 fault, 3 installs: one fails, the next finds its remains |
| `switch_crash` | `FinishedWhole`: up to three deaths, inside a copy across mounts as well, with a failure and a rollback among them, and what succeeds is whole.  `BootEnds`: the monitor gets through its boot in the end | 3 crashes: in the switch, in the boot after it or in its rollback, and again; 1 fault of 14 kinds |
| `switch_uninstall` | `FinishedRunning`, `Refines`: installs and a removal in turn, with up to two switches that fail before the second `px-runc install` and are rolled back.  The service such a switch leaves stopped is running again after the next install that succeeds | 2 faults: two switches rolled back in a row, or one and a failing pull; 1 removal, 3 installs |
| `switch_recover` | `TypeOK`; `BootEndsOrStuck`: all 19 kinds of failure, two of them, with a crash and a removal.  A bin that is missing or torn under the config.json of the pulled image is the only state in which every later boot fails | 2 faults, 1 crash, 1 removal |
| `watch_labels` | `Agreement`, `EnabledIsInstalled`, `RequestServed`: two edits, heartbeats, a closed watch, any one failure | two edits are what it takes to go and come back while a callback works |
| `drain_upgrade` | `SwitchDrained`, `CordonBalanced`, `KeptOut`, `DrainEnds`: two upgrades and two REST drains, a managed and an unmanaged pod, an administrator, two failures | two rounds: what the first leaves, the second finds |
| `rest_health` | `Unhealthy`: the pod is unhealthy while an announced install is under way.  `Recovers`, `Answered`: neither a probe nor the installer waits for ever behind POST operations, and the pod becomes healthy again | one GET, two POSTs that keep the mutex busy in turn |
| `installer_decide` | `NoFalseAlarm`, `RightImage`, `CordonIfInDoubt`, `RestartIfChanged`: a failing call anywhere, a stream cut at any byte or with an error message in it, two doInstalls with a crash between any two steps | output of 0 to 5 units against a buffer of 3: shorter, equal, marker inside, across and behind the edge; 2 log frames: the reboot line first, last or absent; 1 failure per doInstall |
| `args_command` | `ArgsPassed` against a declarative reference, `MountsPassed`, `Recognised`: every command line, one mount, installs and restarts without end | 3 arguments out of 7 kinds, one of them "install": an option, its value and a neighbour; mounts are treated one by one, and one is enough to meet the two that are added; 2 images |
| `spec_requests` | `ApiAsUpgrade`, `OnePerNode`, `OnlyNamedDrives`, `Verbatim`: every combination of parameters; `OnePerNode` for every combination of node labels and taint | minors 5 to 10: below, at and above each version that is told apart, and two digits; one drive, since lists are only passed on; a URL with and without an escape, values without, with one and with two percent signs |
| `mon_signals` | `StopHolds`, `Undisturbed`, `ComesUp`: two handlers beside `install()` | 3 container IDs, 2 handlers that may share a list, 1 failure, 1 death, 1 kill, the tag moved once (`MaxMoves`): every pair of them beside each step of `install()` |

`watch_lost` is expected to violate its property, and is the entry under
`findings`: a node disabled when found and enabled before its first event is
never installed, because `lastPxDisabled` starts as false.

### What the code does not ensure

The following also go wrong; the counterexamples are found by the passing runs'
configurations with the change named:

- `OciSwitch_uninstall.cfg` with `FaultKinds = {"runc2"}` and `FinishedWhole`:
  `Remove()` leaves bin; if the next install fails after its moves, the rollback
  restores that bin and leaves the new rootfs and config.json (nothing was saved
  for them), and the install after that takes the mixture for complete.
- `OciSwitch_faults.cfg` with `MaxFaults = 2`, `MaxInstalls = 3` and
  `FinishedWhole`: a first install that fails after it has placed bin leaves it
  there, since the rollback only removes what it has something to replace
  with; the next install, of another image, fails in the second `px-runc install` and is rolled back to
  the bin of the first and its own rootfs and config.json, which the
  one after that takes for complete.
- `OciSwitch_crash.cfg` with `Revert = TRUE` and `FinishedWhole`: a death while bin
  is being copied leaves it torn under the old config.json; if the registry then
  serves the old image again, its ID matches and nothing is installed.
- `OciSwitch_crash.cfg` with `MaxUninstalls = 1` and `FinishedWhole`: a death in the
  `rm -fr` of a removal may leave config.json without rootfs, and the next install,
  of the same image, takes it for complete.
- `OciSwitch_crash.cfg` with "runc2" among the failures, or with a mount at config.json
  (`CrossMount = {3}`), and `FinishedWhole`: the switch fails with the new
  config.json in place, and a death in the rollback leaves it over parts that have
  been moved back.  With "id": an installed ID that cannot be read makes the same
  image be installed again, and a death while its parts are moved leaves them torn or
  missing under an ID that matches.
- `OciSwitch_faults.cfg` with `SerialSweep = FALSE` and `RollbackRestores`: the
  cleanup goroutine of one install deletes the parts the next one has saved, and
  its rollback restores nothing.
- `OciSwitch_uninstall.cfg` with `MaxCrashes = 1` and `FinishedRunning`: a death
  between the move of config.json and the restart leaves the service stopped; the
  next boot finds nothing to do.
- The same configuration with `Revert = TRUE` instead: a switch is rolled back, the service stays stopped, and if
  the registry then serves the old image again, its ID matches and doInstall succeeds
  without starting the service.
- `NodeDrain_upgrade.cfg` with `FaultKinds = {"timeout"}` and `CordonBalanced`: a
  drain that times out leaves the node cordoned for good.
- `SpecService`, `ApiAsUpgrade` without its bound of 1.9: Kubernetes 1.10 gets the
  RBAC API v1alpha1, because "1.10" < "1.7." as strings, although
  px-spec-websvc.go:213 quotes "As of 1.8, RBAC mode is stable".
- `ApiAsUpgrade` without its exception of GKE's 1.6: the specification avoids v1alpha1,
  "which doesn't work on GKE" (px-spec-websvc.go:225), and k8s-px-upgrade.sh:124 uses it
  on every 1.6.
- `OnePerNode` with one Portworx on every node: on OpenShift, a node with only one of the
  labels openshift-infra and type = master or infra is selected by neither the DaemonSet of
  the masters nor that of the workers.  And without its exception of flags that are
  "false": z=false makes the specification one with zero storage on the masters,
  f=false takes drives with filesystems too (-A), osft=false counts as OpenShift in
  the templates, because only the length of these values is looked at.
- `Verbatim` without its exception: only the URL has its percent signs doubled, so one in
  a value, a password for instance, arrives as a complaint of `fmt.Fprintf`.
- `PxRuncArgs`, `ArgsPassed` without its exception of empty arguments:
  `case ""` (main.go:713) advances the index that the loop advances as well, so
  the argument after an empty one is dropped, where the comment says
  "skip empty args".
- `InstallerRun`, `RightImage` without the exceptions it names: a pull that breaks off in
  its first 512 bytes counts as complete, and so does one that Docker ends with an error
  message in the stream.  The installer then goes on with the image that had the tag
  before: it is installed, or stays installed, and doInstall succeeds.
- `InstallerRun`, `CordonIfInDoubt` without its exceptions: when the log cannot be opened
  the callback is not called, and nothing is cordoned; a short read of a frame may hide the
  request for a reboot.
- `InstallerRun`, `RestartIfChanged` without `Usual`: "SPEC UNCHANGED" at the very start of
  px-runc's output is not found; "SPEC UPDATED" without lists of mounts, and output that is
  neither a report nor a list, lead to no restart.  The comment on the function
  (main.go:591-592) says that it returns TRUE "if input not parseable, or non POD-mounts
  -specific updates present".  What px-runc prints is not in this repository, so whether
  it ever reports an update without lists is open.
- `PxMon`, `StopHolds` with `Exists` for `Listed`: a container whose image has lost the tag,
  by a pull of a newer one, is listed neither by `install()` nor by a handler.  It goes on
  running, and its name px makes each new `CreateContainer` fail; `ComesUp`
  excepts it.

Each of these reasons is kept out of the passing runs by a named constant
(`SerialSweep`, `Revert`, `FaultKinds`, the crash bound) or by the antecedent of the
property (`EnabledIsInstalled`, `Unhealthy`, `~meddled`, `Usual`, `failed \intersect {"cutfirst", "error"} = {}`),
so the passing runs say what holds apart from it: `FinishedWhole` is checked with crashes and without `id` and `runc2`,
`FinishedRunning` without crashes and with a registry that only goes forward, `CordonBalanced` without `timeout` and
`uncordon`.

### Fairness

`OciSwitch`: weak fairness of the step `doInstall` is at (which is what a booting
process runs), of `doUninstall` and of the cleanup: each is a goroutine that
runs as long as the process does, and calls into docker and systemd return.  No
fairness of faults, crashes or of the watcher's decision to start anything.
With `MaxCrashes` and `MaxFaults` finite, `BootEnds` says that finitely many
failures do not prevent the boot for ever.  `LabelWatch`: weak fairness of
`main()`, of each watch's handler, and of the kubelet's heartbeats, which are
periodic; `RequestServed` needs them, as the code retries only on the next
event.  A handler that may fail is not assumed to succeed: failures are
bounded instead.  `NodeDrain`: weak fairness of each drain, of `Finish` and of the
kubelet ending terminating pods.  Steps of `Start`, `Schedule`, `PodRemoved` and
the administrator are never forced.  `RestServlet`: weak fairness of goroutines and
of POST operations, which are systemctl commands and drains with timeouts; strong
fairness of what waits for the mutex, since it is free again and again and
sync.Mutex hands it to a goroutine that has waited long.  Failures are not
bounded there; `Recovers` and `Answered` hold all the same, because a process
that ends drops its requests and starts as unknown.  `PxMon`: weak fairness of
`install()` with the restart of the monitor, since the orchestrator starts it again
and each call of Docker returns, and of Docker's restart of a container that died
("unless-stopped"); none of signals, handlers, failures, deaths or kills.
README.md of the sources says px-mon is there to "ensure Portworx is running".
The other modules state no liveness.

## The proofs

All theorems hold for every value of the constants that the modules' ASSUMEs
allow: any number of parts, images, pods and containers, any sizes, any bounds.

- `OciSwitchProofs!TypeCorrect`: `Spec => []TypeOK`, with one lemma step per
  action.  The other theorems of the module each hold under assumptions on the constants, named
  below; all but `CrossMount` and `SerialSweep` say which calls do not fail or
  that the process does not die, and everything they do not name may happen,
  any number of times.

| Theorem | Assumes | Says |
|---|---|---|
| `PartsKept` | `SafeMoves`: renames in one mount, an earlier cleanup that has ended, and removals (the purge of the scratch directory, the rollback's) that do not fail | `NoPartLost`, even if a move of the rollback fails |
| `RollbackCorrect` | `SafeRollback`: also the rollback's moves succeed | `RollbackRestores` |
| `WholeAfterDeaths` | `SafeDeaths`: no older image; an installed ID is always read, the second `px-runc install` does not fail, config.json is not on a mount of its own if its move may fail, and a removal of Portworx is not cut short (its `rm` does not fail, and there are no deaths if there are removals).  Any number of deaths, failures and rollbacks otherwise, copies across mounts | `FinishedWhole` |
| `WholeAfterFaults` | `SafeUpgrade`: `SafeRollback` without deaths; no removal if a unit file cannot be removed or the last step of a switch fails.  `Founded`: if that last step may fail, the node had an installation | `FinishedWhole` |
| `ServiceCorrect` | `SafeService`: no deaths, no rollback, systemctl does what it is told.  Older images too | `FinishedRunning` |
| `ServiceAfterRollbacks` | `SafeRestarts`: `SafeDeaths` without deaths, and systemctl enables, disables and restarts as it is told.  Any number of failures and rollbacks otherwise | `FinishedRunning` |
| `UpgradeCorrect` | `SafeUpgrade`, `Founded` | `Refines`: `OciSwitch` implements `AtomicUpgrade`, step by step |

  None of the properties is inductive.  All the invariants contain `FlowInv`:
  the types; `Quiet` (no cleanup runs from `decide` to the end of a switch);
  `Ready` (what has been filled in inst-k8s is of the pulled image, and the scratch
  directory is empty when a switch begins); `Placed` (the parts before `part` are in
  place during the moves) and `Matches` (the installed ID is the pulled one whenever
  the switch is skipped or has come to its end).
  `RollbackInv` (and `MovesInv`, its first half) adds `Progress`: during the
  moves, the parts before `part` are recoverable - saved, or there was none - and those
  from `part` on are untouched; during the rollback, those before `part` are
  as they were, with nothing left to move back (`Restored`).
  `DeathInv` is about the order of the parts instead: the installed ID differs from the
  pulled one while parts are made and moved, and moved back (`Stale`); it is never
  ahead of the pulled one, and when it has caught up with it so have all the parts
  (`CaughtUp`); and an ID that has been saved, which a rollback may bring back, is
  behind it (`Saved`).  That is why the ID in config.json can stand for a complete
  installation although nothing records the progress of a switch: it is the last part
  to be moved.  What the failures and the rollback do to the other parts does not matter:
  under an older ID they are all installed again.
  `ServiceInv` says that no switch is rolled back (`Forward`), that between switches and removals the service runs the whole tree that is
  installed, or there is neither (`Settled`), and that a switch knows whether it has
  to enable the service at its end (`Noted`).
  `ServingInv` takes the rollback in by way of `DeathInv`: the service runs the pulled image
  whenever its ID is the installed one, but at the end of a switch and in a removal
  (`Serving`).  A rollback leaves the service stopped, but under an older ID (`Stale`), and
  so the next install does not skip the switch that starts it.
  `UpgradeInv` says that the tree visible from outside is whole at every step, and
  that a switch is rolled back before it has placed config.json, or else has an
  earlier part for each it has placed (`Undoable`); with it each step of
  `OciSwitch` is a step of `AtomicUpgrade` or a stutter.
  The assumptions are needed: without any one of those of `SafeRollback` TLC
  finds `RollbackRestores` violated on the instance of `switch_faults`, and what
  happens without `Founded` is described under "What the code does not ensure".
- `LabelWatchProofs!TypeCorrect`, `AgreementCorrect`, `EnabledCorrect`: for any
  number of edits, heartbeats, closed watches and failures.  `AgreeInv` says in
  which order the watches come (`Started`), that what an open watch has brought last is
  the label as it is (`Fresh`), and that once `main()` is done, what is
  remembered agrees with the label or some watch is not through with what it
  has brought, or has to be made again (`Noted`).  `EnabledInv` adds that a
  removal works on an event that says disabled, and a request is served by a
  callback that agrees with what is remembered (`Acting`), and that an enabled
  node has Portworx, or its last install failed, or the monitor knows that it is
  disabled by now (`Kept`).
- `NodeDrainProofs!TypeCorrect`, and `DrainCorrect`: `SwitchDrained` holds
  whatever fails.  The invariant `DrainInv` says that while the installer waits,
  the pods of `todo` it no longer waits for are gone.
- `NodeDrainProofs!CordonCorrect`, `KeepsOut`: assuming `SafeCordon` (no timeout
  and no failed uncordon), `CordonBalanced` and `KeptOut`
  hold.  The invariant `CordonInv` ties `holds` to where the installer is,
  says that a REST drain past its cordon has meddled, that a drain past `List`
  has something to drain, and that pods that are drained exist.
- `RestServletProofs!TypeCorrect`, and `HealthCorrect`: `Unhealthy` always holds.
  The invariant `HealthInv` adds `UnderWay` (an announced install is past its
  announcement) and `Alone` (on a node found enabled, the watch of a disabled node
  is never opened and the other one only when `main()` is done): from
  these, nobody sets the state to finished while another install is announced.
- `InstallerRunProofs!TypeCorrect`, `CordonCorrect`, `ImageCorrect`: `CordonIfInDoubt`
  and `RightImage` hold whatever fails.  `LogInv` adds to the types that a frame
  is only read while there is one; `CordonInv` is that with the property, which
  it makes inductive because a failed call stays on record until the next pull
  (`Remembers`); `ImageInv` adds `PullInv`, which says in the steps between the
  pull and the end of the container that the tag has moved to the image pulled, unless
  the stream was cut before its first message was complete or carried an error.
  `AlarmCorrect`: `NoFalseAlarm`, for any place of the announcement and any buffer;
  `AlarmInv` adds that the daemon announces a layer only of an image that is not the
  local one, and that this stays so until the pull is over.
  `RestartCorrect`: `RestartIfChanged`, for any mounts, rests on `RestartUsual`, a lemma
  about `isRestartRequired` on output of the usual shape.
- `PxRuncArgsProofs!TypeCorrect`: for any command line; `StartInv` bounds the
  index that an empty last argument takes past the end, and says that there is a
  first argument for px-runc.  `ArgsCorrect`: `ArgsPassed`, for a command line of any
  length.  `ArgsPassed` says at which positions of the command line the words
  passed on are, and not by recursion over it, so that the loop itself is the
  induction: `PassedOn`, in `ArgsInv`, is the same for the positions the loop has come
  past, and each case of the loop adds the next one, or two for an option with its
  value (`ExtendOrder`); `HandedOrder` carries it over to what px-runc is handed, from
  which a first word that ends in install is dropped.  `RecognisedCorrect`: the invariant `Recorded` is
  that the last ID in the environment is the image's, in memory, on px-runc's
  command line and in config.json, whichever of them is current.
  `MountsCorrect` rests on `VolumeFacts`, which says of one container, with any
  number of mounts, what `formatMounts` and the exclusions make of them: a
  destination occurs once.
- `SpecServiceProofs!TypeCorrect`, `NodesCorrect`, `DrivesCorrect`, `ApiCorrect`:
  the invariant `ServiceInv` says that what is answered was
  made of the parameters of this request (`Made`) and that there is no answer
  before (`Silent`).  What remains are facts about operators: `NodeFacts` (the
  DaemonSets of each template, with and without OpenShift, on a node with any labels),
  `DriveFacts`, and for `ApiCorrect` the
  order of strings: `PrefixFacts` and `LessFacts` reduce it to the first
  character that differs, `UpgradeFacts` applies it to the versions compared.
- `PxMonProofs!TypeCorrect`, `NeverDisturbs`, `StopCorrect`: `Undisturbed` is an action
  property and follows from the types, one step per action.  `StopHolds` needs
  `Covered`: a container that Docker would list is on the list of every handler that
  listed after `install()` had ended and has missed nothing, or in its hands.

Model-checked only are `Verbatim`, which is about what a recursive function computes on a
text of any length and would need induction over the text, and the liveness properties
(`BootEnds`, `BootEndsOrStuck`, `RequestServed`, `DrainEnds`, `Recovers`,
`Answered`, `ComesUp`): these need fairness and ENABLED.  Both are out of the prover's reach.
Each other property of the passing runs is stated by a theorem.  The constants of a run
that checks it satisfy the theorem's assumptions (`switch_crash` those of
`WholeAfterDeaths`, `switch_uninstall` those of `ServiceAfterRollbacks` and
`UpgradeCorrect`), so that these are not empty.
`FinishedWhole` is proved twice, since what makes it hold differs: with deaths for a
registry that only goes forward, and without deaths for older images too and for a
second `px-runc install` that fails.  Without the assumptions of
both it does not hold (see "What the code does not ensure").  `FinishedRunning` is
proved twice for the same reason: an older image that is served again after a rollback
finds its ID installed and the service stopped.

## What is not modelled

- Data the properties do not tell apart: the user's environment, log output,
  the text of the YAML.  In `OciSwitch` the outcome of `isRestartRequired` is left
  open (`ConfigureInPlace` may or may not restart when the unit existed before);
  what it is, is `InstallerRun`.
- In `OciSwitch`, a pulled image whose own ID cannot be read; the portworx-reboot unit; the
  umount in `Remove`.  A pull that Docker reports as failed in its stream is there the same as
  a registry that serves the image of the pull before; which image that is, and that it is not the
  one that was asked for, is the subject of `InstallerRun`.
- In `SpecService`, Stork and the parameters that are only copied into the text.
- In `PxMon`, `handlerSigKill`, which never runs because SIGKILL cannot be caught.
- The upgrade and wipe scripts, shell loops over kubectl, and px-init, a single command.
- Installs that overlap.  Two watches may both be in `doInstall`: `LabelWatch`
  models them concurrently, with an install as one step; `OciSwitch` runs one
  install or removal at a time.
- `DoRetryWithTimeout` is: done, or an error at the timeout.  That an attempt under
  way may take effect after the timeout is listed under the hazards.
- A pod with two PX volumes, which is listed twice, and a drain's pods being
  replaced under the same name.
- The grace period in which the servlet logs a failed probe of PX as debug output
  (the pointer race in it is listed under the hazards).  On a node found
  disabled, `main()` may set the state to finished while its first watch
  installs; `Unhealthy` leaves this case out.  That a POST may start the
  service while parts are being moved is a hazard no module covers yet.

## Plan

1. Done: the switch and its abstraction, the label watch, the drain, the servlet's
   state, the decisions of an install, the command line of px-runc, the web
   service, px-mon, and the theorems above.
2. The servlet's operations composed with `OciSwitch`: a start or restart over REST
   in the middle of a switch; drains composed with retries that take effect
   after their timeout.
3. `PxWipe`: the job waiting loops of the scripts.
4. Proofs: every safety property of the runs but `Verbatim` is proved.  Left is the refinement with
   deaths, for an abstraction that lets a tree be incomplete until the next boot has
   ended, and removals that a death cuts short, for which the code would have to
   remove config.json first.
5. A fine-grained composition of `OciSwitch` with two watchers, for installs that
   overlap.

------------------------------ MODULE PxRuncArgs ------------------------------
(***************************************************************************)
(* What px-oci-mon makes of its own arguments, mounts and environment: the *)
(* command line of "px-runc install", by which the service is set up on    *)
(* the node, and in it the image ID by which later starts recognise what   *)
(* is installed (src/px-oci-mon/main.go, utils/inspect.go).                *)
(*                                                                         *)
(* Paths, words and images are values that are only compared.  A mount is  *)
(* written source:destination[:options]; here it is a record of the three. *)
(* Of an environment only the values of PX_IMAGE_ID are kept, in order.    *)
(* Files and failures of the switch are modelled in OciSwitch.             *)
(***************************************************************************)
EXTENDS Naturals, Sequences, SequencesExt

CONSTANTS
    Words,      \* the arguments a DaemonSet may give
    InstallWords,   \* those that end in "install", in letters of any case
    MaxArgs,    \* bound: how many of them
    Paths,      \* what may be mounted, and where
    MaxMounts,  \* bound: how many mounts a container has
    Images      \* image IDs

ASSUME WordsAssumption == InstallWords \intersect {"-x", "kubernetes"} = {}
ASSUME BoundsAssumption == MaxArgs \in Nat /\ MaxMounts \in Nat

Socket == "/var/run/docker.sock"
Extras == {"/etc/hosts", "/etc/resolv.conf"}
Plain(from, to) == [src |-> from, dst |-> to, opts |-> {}]
ociPrivateMounts ==
    {Plain(p, p) : p \in {"/etc/pwx", "/opt/pwx", "/etc/systemd/system", Socket}}
    \union {Plain("/proc/1/ns", "/host_proc/1/ns")}
kubernetesArgs == <<"-x", "kubernetes">>

Switches == {"--sync", "--drain-all"}
Valued   == {"--endpoint", "--log"}
Help     == {"--help", "-h"}
Special  == Switches \union Valued \union Help \union {"", "-x"}

Mounts == [src : Paths, dst : Paths, prop : {"rprivate", "rshared"}, rw : BOOLEAN]
\* A container has one mount at most for a destination.
MountSets == {ms \in {{f[n] : n \in 1..MaxMounts} : f \in [1..MaxMounts -> Mounts]} :
                 \A m1, m2 \in ms : m1.dst = m2.dst => m1 = m2}
Containers == [mounts : MountSets \union {{}}, extras : SUBSET (Extras \intersect Paths),
               env : {<<>>} \union {<<v>> : v \in Images}]

VARIABLES
    pc,         \* where main() or doInstall is
    given,      \* os.Args as they were; history once the start-up is over
    i,          \* the index of the loop over them
    args,       \* the new os.Args
    scheduler,  \* was -x given?
    opts,       \* the switches that are set
    container,  \* what Docker says of this container
    env,        \* cfg.Env
    pulled,     \* the ID of the pulled image, and whether it could be read
    needInstall,
    command,    \* the command line of px-runc
    installed   \* the environment in the installed config.json, whose files
                \* they are, and (history) is it their ID?

startup == <<given, i, args, scheduler, opts>>
config  == <<container, env, pulled, needInstall>>
vars    == <<pc, startup, config, command, installed>>

NoContainer == [mounts |-> {}, extras |-> {}, env |-> <<>>]
NoPull      == [id |-> "", known |-> FALSE]
NoCommand   == [args |-> <<>>, vols |-> {}, env |-> <<>>]

Init == /\ pc = "boot" /\ given = <<>> /\ i = 1
        /\ args = <<>> /\ scheduler = FALSE /\ opts = {}
        /\ container = NoContainer /\ env = <<>>
        /\ pulled = NoPull /\ needInstall = FALSE /\ command = NoCommand
        /\ installed = [env |-> <<>>, id |-> "", known |-> FALSE]

Exit == /\ pc' = "boot" /\ given' = <<>> /\ i' = 1
        /\ args' = <<>> /\ scheduler' = FALSE /\ opts' = {}
        /\ container' = NoContainer /\ env' = <<>>
        /\ pulled' = NoPull /\ needInstall' = FALSE /\ command' = NoCommand
        /\ UNCHANGED installed

\* The DaemonSet starts the pod, perhaps with other arguments than before.
Boot == /\ pc = "boot" /\ pc' = "args"
        /\ given' \in UNION {[1..n -> Words] : n \in 0..MaxArgs}
        /\ UNCHANGED <<i, args, scheduler, opts, config, command, installed>>

-----------------------------------------------------------------------------
At(words) == pc = "args" /\ i <= Len(given) /\ given[i] \in words
HasValue  == i < Len(given)
StepTo(n) == i' = n /\ UNCHANGED <<pc, given, config, command, installed>>

\* The loop steps over an empty argument, and then over one more.
SkipEmpty == At({""}) /\ StepTo(i + 2) /\ UNCHANGED <<args, scheduler, opts>>

SetSwitch == /\ At(Switches) /\ StepTo(i + 1)
             /\ opts' = opts \union {given[i]}
             /\ UNCHANGED <<args, scheduler>>

TakeValue == /\ At(Valued) /\ HasValue /\ StepTo(i + 2)
             /\ UNCHANGED <<args, scheduler, opts>>

TakeScheduler == /\ At({"-x"}) /\ HasValue /\ given[i + 1] = "kubernetes"
                 /\ StepTo(i + 2)
                 /\ args' = args \o kubernetesArgs
                 /\ scheduler' = TRUE
                 /\ UNCHANGED opts

PassOn == /\ At(Words \ Special) /\ StepTo(i + 1)
          /\ args' = Append(args, given[i])
          /\ UNCHANGED <<scheduler, opts>>

\* usage(), an invalid scheduler, or a log file that cannot be opened.
BadArgs == /\ \/ At(Help)
              \/ At(Valued \union {"-x"}) /\ ~HasValue
              \/ At({"-x"}) /\ HasValue /\ given[i + 1] # "kubernetes"
              \/ At({"--log"}) /\ HasValue
           /\ Exit

EndWith(all) == /\ pc = "args" /\ i > Len(given)
                /\ pc' = "validate"
                /\ args' = all
                /\ UNCHANGED <<given, i, scheduler, opts, config, command, installed>>

\* Faulty variant: the scheduler is never added.
EndNever == EndWith(args)

EndArgs == EndWith(IF scheduler THEN args ELSE args \o kubernetesArgs)

\* The directories of px-oci-mon are on other devices than "/"; else it exits.
Validate == /\ pc = "validate" /\ pc' = "idle"
            /\ UNCHANGED <<startup, config, command, installed>>

-----------------------------------------------------------------------------
\* doInstall, of main() or of the watcher: it asks Docker about its own
\* container.
doInstall ==
    /\ pc = "idle" /\ pc' = "compare"
    /\ container' \in Containers
    /\ env' = container'.env
    /\ UNCHANGED <<startup, pulled, needInstall, command, installed>>

\* The image of that name is pulled, and its ID appended and compared with
\* the installed one: the last that config.json has.
CompareWith(found) ==
    /\ pc = "compare" /\ pc' = "compose"
    /\ pulled' \in [id : Images, known : BOOLEAN]
    /\ env' = IF pulled'.known THEN Append(env, pulled'.id) ELSE env
    /\ needInstall' = ~(pulled'.known /\ found # <<>> /\ Last(found) = pulled'.id)
    /\ UNCHANGED <<startup, container, command, installed>>

\* Faulty variant: the first entry of config.json counts.
CompareFirst == CompareWith(IF installed.env = <<>> THEN <<>>
                            ELSE <<Head(installed.env)>>)

Compare == CompareWith(installed.env)

\* A mount as it is written for px-runc; private is the default propagation.
Written(m, default) == [src |-> m.src, dst |-> m.dst,
                        opts |-> ({m.prop} \ default)
                                 \union (IF m.rw THEN {} ELSE {"ro"})]

\* /etc/hosts and /etc/resolv.conf of the container are added if the mounts
\* do not replace them.
Formatted(c, default) ==
    {Written(m, default) : m \in c.mounts}
    \union {[src |-> "docker", dst |-> x, opts |-> {"ro"}] :
               x \in {y \in c.extras : \A m \in c.mounts : m.dst # y}}

\* Faulty variant: the default is written out.
FormatAll(c) == Formatted(c, {})

formatMounts(c) == Formatted(c, {"private", "rprivate"})

\* Faulty variant: the first argument is taken for "install" unseen.
AllButFirst(all) == Tail(all)

\* A first argument that ends in "install" is not repeated.
Handed(all) == IF Head(all) \in InstallWords THEN Tail(all) ELSE all

\* Own mounts are left out, as they are written without options; so is
\* Docker's socket in any form.
Compose ==
    /\ pc = "compose" /\ pc' = "run"
    /\ command' = [args |-> Handed(args),
                   vols |-> {v \in formatMounts(container) :
                               v \notin ociPrivateMounts /\ v.src # Socket},
                   env  |-> env]
    /\ UNCHANGED <<startup, config, installed>>

Done == /\ pc' = "idle"
        /\ container' = NoContainer /\ env' = <<>>
        /\ pulled' = NoPull /\ needInstall' = FALSE /\ command' = NoCommand
        /\ UNCHANGED startup

\* px-runc writes its environment to config.json, of the new image or of the
\* installed one.
RunExternal == /\ pc = "run"
               /\ installed' = [env |-> command.env,
                                id |-> IF needInstall THEN pulled.id ELSE installed.id,
                                known |-> pulled.known
                                          /\ (needInstall \/ installed.known)]
               /\ Done

\* A call of doInstall fails, and the watcher drops the error.
InstallFails == pc \in {"compare", "compose", "run"} /\ UNCHANGED installed /\ Done

\* main() exits, or the pod is replaced.
Crash == pc \notin {"boot", "args"} /\ Exit

Next == \/ Boot \/ SkipEmpty \/ SetSwitch \/ TakeValue \/ TakeScheduler \/ PassOn
        \/ BadArgs \/ EndArgs \/ Validate
        \/ doInstall \/ Compare \/ Compose \/ RunExternal \/ InstallFails
        \/ Crash

Spec == Init /\ [][Next]_vars

-----------------------------------------------------------------------------
TypeOK ==
    /\ pc \in {"boot", "args", "validate", "idle", "compare", "compose", "run"}
    /\ given \in Seq(Words) /\ i \in 1..(MaxArgs + 2)
    /\ args \in Seq((Words \ Special) \union {"-x", "kubernetes"})
    /\ scheduler \in BOOLEAN /\ opts \subseteq Switches
    /\ container \in Containers \union {NoContainer}
    /\ env \in Seq(Images) /\ installed.env \in Seq(Images)
    /\ pc # "run" => command = NoCommand
    /\ pc \notin {"boot", "args"} => args # <<>>

\* px-runc is handed what the usage text says, "any options not explicitly
\* listed", in their order - those at the positions kept, each once, but not a
\* first one that ends in "install" - and the scheduler once for each time it
\* is given and at least once, in every doInstall of the process.  Excepted are
\* empty arguments, which take the next one with them, and values that look
\* like options of px-oci-mon.
IsValue(n) == n > 1 /\ given[n - 1] \in Valued \union {"-x"}
Usual == \A n \in DOMAIN given : /\ given[n] # ""
                                 /\ IsValue(n) => given[n] \notin Special
Kept(n) == IF IsValue(n) THEN given[n - 1] = "-x"
                         ELSE given[n] \notin Special \ {"-x"}
InOrder(s, g, ns) ==
    \E at \in [DOMAIN s -> ns] :
       /\ \A k, l \in DOMAIN s : k < l => at[k] < at[l]
       /\ \A n \in ns : \E k \in DOMAIN s : at[k] = n
       /\ \A k \in DOMAIN s : s[k] = g[at[k]]
FirstOf(n, ns) == \A m \in ns : n <= m
ArgsPassed ==
    pc = "run" /\ Usual =>
       LET kept   == {n \in DOMAIN given : Kept(n)}
           handed == {n \in kept : ~(FirstOf(n, kept) /\ given[n] \in InstallWords)}
           own    == SubSeq(command.args, 1, Len(command.args) - 2)
       IN /\ IF \E n \in handed : given[n] = "-x"
             THEN InOrder(command.args, given, handed)
             ELSE command.args = own \o kubernetesArgs /\ InOrder(own, given, handed)
          /\ opts = {given[n] : n \in {m \in DOMAIN given :
                                         ~IsValue(m) /\ given[m] \in Switches}}

\* PX does not get the directories px-oci-mon has for itself, nor Docker's
\* socket: main.go:222, "under no circumstances should we pass docker.sock
\* directly".  It gets one /etc/hosts and one resolv.conf, the pod's own if
\* there is one.  A private mount with options is excepted: it is passed on.
Among(dst) == {v \in command.vols : v.dst = dst}
MountsPassed ==
    pc = "run" =>
       /\ \A m \in container.mounts :
             /\ m.src = Socket => \A v \in command.vols : v.src # m.src
             /\ /\ Plain(m.src, m.dst) \in ociPrivateMounts
                /\ m.rw /\ m.prop = "rprivate"
                => Among(m.dst) = {}
       /\ \A x \in container.extras :
             LET own == {m \in container.mounts : m.dst = x}
             IN IF own = {} THEN \E v \in Among(x) : Among(x) = {v} /\ v.src = "docker"
                ELSE \A v \in Among(x) : \E m \in own : v.src = m.src

\* What px-runc records is recognised by the next doInstall, in this process or
\* another: files are replaced exactly when the pulled image is another one,
\* also if the pod sets PX_IMAGE_ID itself.  An ID that could not be read is
\* excepted.
Recognised ==
    pc = "compose" /\ pulled.known /\ installed.known =>
       needInstall = (installed.id # pulled.id)

\* Images are only compared: TLC may take one for another.
ImageSymmetry == Permutations(Images)
===============================================================================

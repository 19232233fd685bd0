------------------------------ MODULE RestServlet ------------------------------
(***************************************************************************)
(* The health that px-oci-mon reports over REST while it installs          *)
(* (src/px-oci-mon/utils/servlet.go, main.go).                             *)
(*                                                                         *)
(* The servlet answers the readiness probe of the pod from its state:      *)
(* unknown, installing, or finished, when it asks PX itself.  doInstall    *)
(* sets the state, in main() or in a handler of a node watch.  One mutex   *)
(* guards the state; a POST holds it for its whole operation, which may be *)
(* a drain of many minutes.                                                *)
(*                                                                         *)
(* What an install does is modelled in OciSwitch, what starts it in        *)
(* LabelWatch, the drains in NodeDrain.                                    *)
(***************************************************************************)
CONSTANTS
    Gets, Posts,   \* the handlers of GET or HEAD, and of POST requests
    Free,          \* nobody holds the mutex
    FaultKinds     \* what may fail

Watches    == {"first", "last"}   \* of a disabled node, and that of every start
Installers == {"main"} \union Watches
Kinds      == {"watch", "pull", "runonce", "install"}

ASSUME HandlersAssumption == Free \notin Posts \union Gets \union Installers
ASSUME KindsAssumption == FaultKinds \subseteq Kinds

VARIABLES
    state,       \* the servlet's installState
    lock,        \* the POST that holds the mutex, or Free
    at,          \* where each goroutine that may run doInstall is
    open,        \* the watches main() has registered
    get, post,   \* where each request is
    found,       \* history: how main() found its node
    announced,   \* history: the installs that download a new image and said so
    failed       \* history: did the last of these end in an error?

install  == <<at, open, found, announced, failed>>
requests == <<get, post>>
vars     == <<state, lock, install, requests>>

Fault(kind) == kind \in FaultKinds

\* The initial values of a process; its clients' connections are gone.
Init == /\ state = "unknown"
        /\ lock = Free
        /\ at = [i \in Installers |-> IF i = "main" THEN "boot" ELSE "idle"]
        /\ open = {}
        /\ get = [g \in Gets |-> "idle"]
        /\ post = [p \in Posts |-> "idle"]
        /\ found \in {"enabled", "disabled"}
        /\ announced = {}
        /\ failed = FALSE

Die == /\ state' = "unknown"
       /\ lock' = Free
       /\ at' = [i \in Installers |-> IF i = "main" THEN "boot" ELSE "idle"]
       /\ open' = {}
       /\ get' = [g \in Gets |-> "idle"]
       /\ post' = [p \in Posts |-> "idle"]
       /\ found' \in {"enabled", "disabled"}
       /\ announced' = {}
       /\ failed' = FALSE

Go(i, from, to) == at[i] = from /\ at' = [at EXCEPT ![i] = to]

\* Lock, assign, Unlock: done at once when the mutex is free.
SetState(s) == lock = Free /\ state' = s /\ UNCHANGED lock

-----------------------------------------------------------------------------
\* The servlet is up; an enabled node is installed, a disabled one watched.
Boot == /\ \/ found = "enabled" /\ Go("main", "boot", "pull") /\ UNCHANGED open
           \/ found = "disabled" /\ Go("main", "boot", "settle") /\ open' = {"first"}
        /\ UNCHANGED <<state, lock, requests, found, announced, failed>>

\* A node that became enabled makes a watch install.
Handle(w) == /\ w \in open
             /\ Go(w, "idle", "pull")
             /\ UNCHANGED <<state, lock, requests, open, found, announced, failed>>

\* PullImageCb looks for a layer being pulled in the first 512 bytes that
\* docker sends: the image is up to date, or the download is announced, or it
\* goes on unannounced.
Pull(i) == /\ Go(i, "pull", "notify") \/ Go(i, "pull", "compare")
                                      \/ Go(i, "pull", "download")
           /\ UNCHANGED <<state, lock, requests, open, found, announced, failed>>

\* Faulty variant: Unlock is forgotten.
NotifyKeepsLock(i) ==
    /\ Go(i, "notify", "download")
    /\ lock = Free /\ lock' = i
    /\ state' = "installing"
    /\ announced' = announced \union {i}
    /\ failed' = FALSE
    /\ UNCHANGED <<requests, open, found>>

\* The callback sets the servlet to installing, "unhealthy".
Notify(i) == /\ Go(i, "notify", "download")
             /\ SetState("installing")
             /\ announced' = announced \union {i}
             /\ failed' = FALSE
             /\ UNCHANGED <<requests, open, found>>

Download(i) == /\ Go(i, "download", "compare")
               /\ UNCHANGED <<state, lock, requests, open, found, announced, failed>>

\* Faulty variant: the state is set to finished for a different image as well.
CompareFinishes(i) ==
    /\ Go(i, "compare", "same")
    /\ announced' \in {announced, announced \ {i}}
    /\ UNCHANGED <<state, lock, requests, open, found, failed>>

\* The image is the one installed, or another one or unknown.
Compare(i) == /\ \/ Go(i, "compare", "same") /\ announced' = announced \ {i}
                 \/ Go(i, "compare", "install") /\ UNCHANGED announced
              /\ UNCHANGED <<state, lock, requests, open, found, failed>>

\* Nothing is to be installed, but px-runc and perhaps a restart follow.
SameImage(i) == /\ Go(i, "same", "install")
                /\ SetState("finished")
                /\ UNCHANGED <<requests, open, found, announced, failed>>

\* Faulty variant: an install without a restart returns early.
InstallReturns(i) ==
    /\ \/ Go(i, "install", "finish") /\ UNCHANGED announced
       \/ /\ Go(i, "install", IF i = "main" THEN "settle" ELSE "idle")
          /\ announced' = announced \ {i}
    /\ UNCHANGED <<state, lock, requests, open, found, failed>>

\* RunOnce, px-runc, switch and restart.
Install(i) == /\ Go(i, "install", "finish")
              /\ UNCHANGED <<state, lock, requests, open, found, announced, failed>>

\* An error of doInstall, before the pull or after it: the watcher drops it.
InstallFails(w) == /\ Fault("install")
                   /\ w \in Watches
                   /\ Go(w, "pull", "idle") \/ Go(w, "install", "idle")
                   /\ announced' = announced \ {w}
                   /\ failed' = (failed \/ w \in announced)
                   /\ UNCHANGED <<state, lock, requests, open, found>>

\* A failed pull or RunOnce ends the process, as does any error in main(), that
\* of the watch of a disabled node too; it is started again, with all its
\* requests and goroutines gone.
Exit(i) == /\ \/ Fault("watch") /\ at[i] = "boot" /\ found = "disabled"
              \/ Fault("pull") /\ at[i] \in {"pull", "download"}
              \/ Fault("runonce") /\ at[i] = "install"
              \/ Fault("install") /\ at[i] = "install" /\ i = "main"
           /\ Die

\* The end of doInstall.
Finish(i) == /\ Go(i, "finish", IF i = "main" THEN "settle" ELSE "idle")
             /\ SetState("finished")
             /\ announced' = announced \ {i}
             /\ UNCHANGED <<requests, open, found, failed>>

\* The end of main(): the state once more, and the watch of every start.
Settle == /\ Go("main", "settle", "done")
          /\ SetState("finished")
          /\ open' = open \union {"last"}
          /\ UNCHANGED <<requests, found, announced, failed>>

-----------------------------------------------------------------------------
\* A GET or HEAD arrives.
Ask(g) == /\ get[g] = "idle"
          /\ get' = [get EXCEPT ![g] = "first"]
          /\ UNCHANGED <<state, lock, install, post>>

\* handleGetHead reads the state, and then again if it was not unknown.
ReadFirst(g) == /\ get[g] = "first" /\ lock = Free
                /\ get' = [get EXCEPT ![g] = IF state = "unknown" THEN "idle"
                                             ELSE "second"]
                /\ UNCHANGED <<state, lock, install, post>>

ReadSecond(g) == /\ get[g] = "second" /\ lock = Free
                 /\ get' = [get EXCEPT ![g] = IF state = "finished" THEN "proxy"
                                              ELSE "idle"]
                 /\ UNCHANGED <<state, lock, install, post>>

\* PX is asked; the client's timeout ends that in any case.
Proxy(g) == /\ get[g] = "proxy"
            /\ get' = [get EXCEPT ![g] = "idle"]
            /\ UNCHANGED <<state, lock, install, post>>

\* A POST to /service/<op> arrives; it takes the mutex and works.
Order(p) == /\ post[p] = "idle"
            /\ post' = [post EXCEPT ![p] = "wait"]
            /\ UNCHANGED <<state, lock, install, get>>

Begin(p) == /\ post[p] = "wait" /\ lock = Free
            /\ lock' = p
            /\ post' = [post EXCEPT ![p] = "work"]
            /\ UNCHANGED <<state, install, get>>

\* Faulty variant: an operation that fails returns without Unlock.
EndKeepsLock(p) == /\ post[p] = "work"
                   /\ lock' \in {Free, lock}
                   /\ post' = [post EXCEPT ![p] = "idle"]
                   /\ UNCHANGED <<state, install, get>>

\* The operation has ended, well or not; the deferred Unlock follows.
End(p) == /\ post[p] = "work"
          /\ lock' = Free
          /\ post' = [post EXCEPT ![p] = "idle"]
          /\ UNCHANGED <<state, install, get>>

-----------------------------------------------------------------------------
Locking(i) == Notify(i) \/ SameImage(i) \/ Finish(i) \/ (i = "main" /\ Settle)
Working(i) == Pull(i) \/ Download(i) \/ Compare(i) \/ Install(i) \/ InstallFails(i)
              \/ Exit(i)
Reading(g) == ReadFirst(g) \/ ReadSecond(g)

Next == \/ Boot
        \/ \E w \in Watches : Handle(w)
        \/ \E i \in Installers : Locking(i) \/ Working(i)
        \/ \E g \in Gets : Ask(g) \/ Reading(g) \/ Proxy(g)
        \/ \E p \in Posts : Order(p) \/ Begin(p) \/ End(p)

Spec == Init /\ [][Next]_vars

\* Goroutines run, operations end, and sync.Mutex does not starve one that
\* waits while others come and go.
Fairness == /\ WF_vars(Boot)
            /\ \A i \in Installers : SF_vars(Locking(i)) /\ WF_vars(Working(i))
            /\ \A g \in Gets : SF_vars(Reading(g)) /\ WF_vars(Proxy(g))
            /\ \A p \in Posts : SF_vars(Begin(p)) /\ WF_vars(End(p))

FairSpec == Spec /\ Fairness

-----------------------------------------------------------------------------
TypeOK ==
    /\ state \in {"unknown", "installing", "finished"}
    /\ lock \in Posts \union {Free}
    /\ at \in [Installers -> {"boot", "idle", "pull", "notify", "download", "compare",
                              "same", "install", "finish", "settle", "done"}]
    /\ open \in SUBSET Watches
    /\ get \in [Gets -> {"idle", "first", "second", "proxy"}]
    /\ post \in [Posts -> {"idle", "wait", "work"}]
    /\ found \in {"enabled", "disabled"}
    /\ announced \in SUBSET Installers
    /\ failed \in BOOLEAN

\* While an install of a new image that was announced is under way, the
\* servlet says so ("setting OCI-mon to unhealthy"), if the node was enabled
\* when main() found it; on a disabled one main() may say finished meanwhile.
Unhealthy == found = "enabled" /\ announced # {} => state = "installing"

\* The pod does not stay unhealthy: the state becomes finished, the process
\* is started again, or the install failed.
Recovers == state = "installing" ~> state # "installing" \/ failed

\* Every request is answered, whatever is drained and installed meanwhile.
Answered == /\ \A g \in Gets : get[g] = "first" ~> get[g] = "idle"
            /\ \A p \in Posts : post[p] = "wait" ~> post[p] = "idle"
=============================================================================

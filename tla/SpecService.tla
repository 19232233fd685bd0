----------------------------- MODULE SpecService ------------------------------
(***************************************************************************)
(* px-spec-websvc (src/px-spec-websvc/px-spec-websvc.go): a web service    *)
(* that answers the parameters of a request with the YAML the user applies *)
(* to the cluster: which DaemonSets run Portworx on which nodes, with which*)
(* drives, and in which version of the RBAC API.  Requests share no state, *)
(* so one at a time is modelled, from its arrival to the answer.           *)
(*                                                                         *)
(* Kubernetes versions are strings to this service, and are compared as    *)
(* strings: they are modelled as sequences of character codes.  Of the text *)
(* that is sent the request's URL and one value are modelled, character by *)
(* character, since it is printed as a format.                             *)
(***************************************************************************)
EXTENDS Naturals, Sequences, FiniteSets, SequencesExt

CONSTANTS
    Minors,     \* minor versions of Kubernetes, as in 1.8.3
    Devices,    \* drives a user may name
    NotGiven,   \* a parameter that is not in the request
    Multiline   \* a value of several lines

ASSUME MinorsAssumption == Minors \subseteq 0..99
ASSUME ValuesAssumption == NotGiven # Multiline

Dot      == 46
Digit(d) == 48 + d
Number(n) == IF n < 10 THEN <<Digit(n)>> ELSE <<Digit(n \div 10), Digit(n % 10)>>
V(minor)  == Number(1) \o <<Dot>> \o Number(minor) \o <<Dot>>
V16z      == V(6) \o <<122>>

\* Go's order of strings.
Less(a, b) == \E i \in 1..Len(b) :
                 /\ i <= Len(a) + 1
                 /\ SubSeq(a, 1, i - 1) = SubSeq(b, 1, i - 1)
                 /\ i > Len(a) \/ a[i] < b[i]

\* A version as it is requested: complete, perhaps with GKE's suffix; none at
\* all; a single character; or one the regular expression does not match.
KubeVers == [text : {V(m) \o Number(3) : m \in Minors}, gke : BOOLEAN, ok : {TRUE}]
            \union [text : {<<>>, Number(1)}, gke : {FALSE}, ok : {TRUE}]
            \union [text : {V(8)}, gke : {FALSE}, ok : {FALSE}]

Flags == {"", "true", "false"}

\* Characters: "%", any other "a", and the end of a line ";".  A URL has percent
\* signs in its escapes only; the values are those of all parameters that are
\* printed as they came.
Urls   == {<<"a">>, <<"%", "a">>}
Values == {<<>>, <<"a">>, <<"%", "a">>, <<"%", "%">>}

Params == [Drives : (SUBSET Devices) \union {NotGiven, Multiline},
           Env : {NotGiven, Multiline}, Kvdb : Values,
           KubeVer : KubeVers, Master : Flags, ZeroStorage : Flags,
           Force : Flags, Openshift : Flags]

\* What the client sent: the parameters, and those of them whose keys are of the
\* other style than the rest ("s" is "drives" in the old one).
Requests == [path : {"/", "/precheck"}, url : Urls, params : Params,
             odd : {{}, {"Drives"}, {"Master"}}]

VARIABLES
    parseStrict,   \* the program was started with -strict
    pc,            \* how far the request is
    req,           \* the request
    config,        \* InstallParams
    resp           \* the answer

vars == <<parseStrict, pc, req, config, resp>>

Missing(f) == CASE f = "Drives"  -> NotGiven
                [] f = "Env"     -> NotGiven
                [] f = "Kvdb"    -> <<>>
                [] f = "KubeVer" -> [text |-> <<>>, gke |-> FALSE, ok |-> TRUE]
                [] OTHER         -> ""
NoParams == [f \in {"Drives", "Env", "Kvdb", "KubeVer", "Master", "ZeroStorage",
                    "Force", "Openshift"} |-> Missing(f)]
NoReq    == [path |-> "/", url |-> <<"a">>, params |-> NoParams, odd |-> {}]
Answer(kind) == [kind |-> kind, sets |-> {}, rbac |-> "", subjects |-> FALSE,
                 controller |-> FALSE, text |-> <<>>]

Init == /\ parseStrict \in BOOLEAN
        /\ pc = "idle"
        /\ req = NoReq /\ config = NoParams /\ resp = Answer("none")

-----------------------------------------------------------------------------
\* Without parameters there is the usage page; /upgrade and /px-wipe have none,
\* and send their script, which has no percent signs, as it is.  The files may
\* not be there.
SendUsage == /\ pc = "idle" /\ pc' = "sent"
             /\ resp' \in {Answer("usage"), Answer("script"), Answer("error")}
             /\ UNCHANGED <<parseStrict, req, config>>

Receive == /\ pc = "idle" /\ pc' = "parse"
           /\ req' \in Requests
           /\ UNCHANGED <<parseStrict, config, resp>>

SendError == /\ pc' = "sent"
             /\ resp' = Answer("error")

\* A form that cannot be parsed, a value that cannot be converted ("stork" is a
\* Boolean), or a template that cannot be read.
Refuse == /\ pc \in {"parse", "generate"}
          /\ SendError
          /\ UNCHANGED <<parseStrict, req, config>>

\* The handler ends, and nothing of the request is kept.
Close == /\ pc = "sent" /\ pc' = "idle"
         /\ req' = NoReq /\ config' = NoParams /\ resp' = Answer("none")
         /\ UNCHANGED parseStrict

\* The decoder takes the keys of one style.  Others are unknown to it: skipped,
\* unless parsing is strict.
Parse(strict) ==
    /\ pc = "parse"
    /\ IF strict /\ req.odd # {}
       THEN SendError /\ UNCHANGED config
       ELSE /\ pc' = "generate"
            /\ config' = [f \in DOMAIN NoParams |->
                             IF f \in req.odd THEN Missing(f) ELSE req.params[f]]
            /\ UNCHANGED resp
    /\ UNCHANGED <<parseStrict, req>>

\* Faulty variant: the flag is not handed to the decoder.
ParseLoosely == Parse(FALSE)

parseInstallRequest == Parse(parseStrict)

-----------------------------------------------------------------------------
\* The second half of parseKubeVer; GKE has no use for alpha.
Rbac(ver, isGKE, isBeta) ==
    CASE isBeta -> "v1beta1"
      [] ~isBeta /\ Less(ver, V(7)) -> IF isGKE THEN "v1beta1" ELSE "v1alpha1"
      [] OTHER -> "v1"

\* Faulty variants: 1.7 is not told from what follows it, or only 1.7 has an
\* answer.
RbacNoSeven(ver, isGKE) == Rbac(ver, isGKE, ver = <<>>)
RbacUnset(ver, isGKE)   == IF IsPrefix(V(7), ver) THEN "v1beta1" ELSE ""

rbacAuthVer(ver, isGKE) == Rbac(ver, isGKE, ver = <<>> \/ IsPrefix(V(7), ver))

\* Without a list of drives PX takes all that are unused, with force those
\* with a filesystem too.
DriveArgs(p) == IF p.Drives # NotGiven THEN p.Drives
                ELSE IF p.Force # "" THEN {"-A"} ELSE {"-a"}

\* Faulty variant: the zero-storage template whenever z is given.
ZeroAlways(p) == p.ZeroStorage # ""

UsesZeroTemplate(p) == p.ZeroStorage # "" /\ p.Master \in {"", "true"}

\* A DaemonSet selects nodes by labels of OpenShift's or of Kubernetes' own, and
\* may tolerate the taint of Kubernetes' masters.
DaemonSet(p, nodes, tol, args) == [nodes |-> nodes, osft |-> p.Openshift # "",
                                   tolerates |-> tol, drives |-> args]

\* The zero-storage template has two, the other template one, for all nodes or
\* for the workers only.
ZeroStorageSet(p) == DaemonSet(p, "masters", TRUE, {})
WorkerSet(p)      == DaemonSet(p, "workers", FALSE, DriveArgs(p))
PortworxSet(p)    == IF p.Master # "true" THEN WorkerSet(p)
                                          ELSE DaemonSet(p, "all", TRUE, DriveArgs(p))

DaemonSets(p) == IF UsesZeroTemplate(p) THEN {ZeroStorageSet(p), WorkerSet(p)}
                                        ELSE {PortworxSet(p)}

\* Faulty variant: percent signs are left as they are.
LeftAlone(text) == text

\* strings.Replace of each percent sign by two.
Doubled(text) == FlattenSeq([i \in 1..Len(text) |->
                               IF text[i] = "%" THEN <<"%", "%">> ELSE <<text[i]>>])

\* fmt.Fprintf of a text without arguments: two percent signs are printed as
\* one, one and the character after it as a complaint, "!".
Printed(text) ==
    LET from[i \in 1..(Len(text) + 2)] ==
          IF i > Len(text) THEN <<>>
          ELSE IF text[i] # "%" THEN <<text[i]>> \o from[i + 1]
          ELSE (IF i < Len(text) /\ text[i + 1] = "%" THEN <<"%">> ELSE <<"!">>)
               \o from[i + 2]
    IN from[1]

\* The comment with the URL is not in the precheck.
Template(path, origin, value) ==
    (IF path = "/precheck" THEN <<>> ELSE origin \o <<";">>) \o value \o <<";">>

\* The text is printed as a format: the percent signs of the URL were doubled.
generateInstallSpec ==
    /\ pc = "generate"
    /\ IF Multiline \in {config.Drives, config.Env} \/ ~config.KubeVer.ok
       THEN SendError
       ELSE LET text == Printed(Template(req.path, Doubled(req.url), config.Kvdb))
            IN /\ pc' = "sent"
               /\ resp' =
                    IF req.path = "/precheck"
                    THEN [Answer("precheck") EXCEPT !.text = text]
                    ELSE [kind |-> "spec",
                          sets |-> DaemonSets(config),
                          rbac |-> rbacAuthVer(config.KubeVer.text, config.KubeVer.gke),
                          subjects |-> Less(config.KubeVer.text, V16z),
                          controller |-> config.Openshift = "true" \/ config.KubeVer.gke,
                          text |-> text]
    /\ UNCHANGED <<parseStrict, req, config>>

Next == \/ SendUsage \/ Receive \/ parseInstallRequest \/ generateInstallSpec
        \/ Refuse \/ Close

Spec == Init /\ [][Next]_vars

-----------------------------------------------------------------------------
TypeOK ==
    /\ parseStrict \in BOOLEAN
    /\ pc \in {"idle", "parse", "generate", "sent"}
    /\ req \in Requests
    /\ config \in Params
    /\ resp.kind \in {"none", "usage", "script", "error", "precheck",
                      "spec"}
    /\ resp.rbac \in IF resp.kind = "spec" THEN {"v1alpha1", "v1beta1", "v1"}
                                           ELSE {""}
    /\ {resp.subjects, resp.controller} \subseteq BOOLEAN
    /\ resp.kind \notin {"precheck", "spec"} => resp.text = <<>>

\* The versions k8s-px-upgrade.sh installs its own role binding with on the
\* same cluster: "1.6", "1.7" and "1.8 and greater".
UpgradeRbac(minor) == [rbac |-> CASE minor = 6 -> "v1alpha1"
                                  [] minor = 7 -> "v1beta1"
                                  [] OTHER     -> "v1",
                       subjects |-> minor = 6]
ForVersion(minor) == resp.kind = "spec" /\ config.KubeVer.text = V(minor) \o Number(3)

\* The roles of the specification and the role binding of the upgrade script
\* are written for the same API, for Kubernetes 1.6 to 1.9.  GKE's 1.6 is
\* excepted: the script uses v1alpha1 there, which "doesn't work on GKE", and the
\* specification never does.  1.10 and later are excepted too: as strings they
\* come before 1.7, and get v1alpha1.
ApiAsUpgrade ==
    /\ \A m \in Minors \intersect 6..9 : ForVersion(m) =>
          /\ resp.subjects = UpgradeRbac(m).subjects
          /\ (m = 6 /\ config.KubeVer.gke) \/ resp.rbac = UpgradeRbac(m).rbac
    /\ resp.kind = "spec" /\ config.KubeVer.gke => resp.rbac # "v1alpha1"

\* A node: its labels node-role.kubernetes.io/master, openshift-infra, type and
\* px/enabled=false, and whether it has the taint of Kubernetes' masters.
Nodes == [role : BOOLEAN, infra : BOOLEAN, type : {"master", "infra", "node"},
          disabled : BOOLEAN, tainted : BOOLEAN]

OfMasters(node) == node.type \in {"master", "infra"}

\* Does the DaemonSet run a pod on the node?
Runs(set, node) ==
    /\ ~node.disabled
    /\ set.nodes = "masters" => IF set.osft THEN node.infra /\ OfMasters(node)
                                           ELSE node.role
    /\ set.nodes = "workers" => IF set.osft THEN ~node.infra /\ ~OfMasters(node)
                                           ELSE ~node.role
    /\ node.tainted => set.tolerates

\* What the user applies puts no two PX on a node and none where px/enabled is
\* false; one on a worker, with the drives the request asks for; and one on a
\* master only if it is to run there, in zero-storage mode if that is asked for.
\* Excepted are flags that are "false", which count as set, and from "one on" the
\* nodes with one of OpenShift's two labels, which may get none.
OnePerNode ==
    /\ resp.kind = "spec"
    /\ "false" \notin {config.Openshift, config.ZeroStorage, config.Force}
    => LET On(node) == {s \in resp.sets : Runs(s, node)}
           One(node, drives) == \E s \in resp.sets : On(node) = {s} /\ s.drives = drives
           zero   == config.ZeroStorage = "true" /\ config.Master # "false"
           asked  == IF config.Drives # NotGiven THEN config.Drives
                     ELSE {IF config.Force = "true" THEN "-A" ELSE "-a"}
           Master(node) == IF config.Openshift = "true" THEN node.infra /\ OfMasters(node)
                                                        ELSE node.role
           Worker(node) == IF config.Openshift = "true" THEN ~node.infra /\ ~OfMasters(node)
                                                        ELSE ~node.role
       IN \A node \in Nodes :
             /\ \A s, t \in On(node) : s = t
             /\ node.disabled => On(node) = {}
             /\ ~node.disabled /\ Worker(node) /\ ~node.tainted => One(node, asked)
             /\ ~node.disabled /\ Master(node) =>
                   IF zero THEN One(node, {})
                   ELSE IF config.Master = "true" THEN One(node, asked)
                   ELSE On(node) = {}

\* PX takes no drive but those the request names: a list is not lost on the
\* way and replaced by "all unused drives".  Keys of two styles in one request
\* are excepted, unless parsing is strict.
OnlyNamedDrives ==
    resp.kind = "spec" /\ (parseStrict \/ req.odd = {})
                       /\ req.params.Drives # NotGiven =>
       \A s \in resp.sets : s.drives \in {{}, req.params.Drives}

\* What is generated reaches the client as it is, though it is printed as a
\* format: the URL, escapes and all, and the values.  A value with a percent
\* sign of its own is excepted.
Verbatim ==
    resp.kind \in {"precheck", "spec"} /\ "%" \notin Range(config.Kvdb) =>
       resp.text = Template(req.path, req.url, config.Kvdb)
=============================================================================

--------------------------- MODULE SpecServiceProofs ---------------------------
(***************************************************************************)
(* What holds of SpecService for any versions and drives: it is well       *)
(* typed; the DaemonSets it answers with put one PX on every node, with    *)
(* the drives of the request; and the RBAC API is the one the upgrade      *)
(* script uses on the same cluster.                                        *)
(***************************************************************************)
EXTENDS SpecService, SequenceTheorems, TLAPS

Names == {"Drives", "Env", "Kvdb", "KubeVer", "Master", "ZeroStorage", "Force", "Openshift"}

\* The parameters are a record of known names.
LEMMA Domain == DOMAIN NoParams = Names
  BY DEF NoParams, Names

\* A function of these names is a set of parameters if its values are.
LEMMA RecordFacts ==
  ASSUME NEW c, c = [f \in Names |-> c[f]],
         c["Drives"] \in (SUBSET Devices) \union {NotGiven, Multiline},
         c["Env"] \in {NotGiven, Multiline}, c["Kvdb"] \in Values,
         c["KubeVer"] \in KubeVers, c["Master"] \in Flags, c["ZeroStorage"] \in Flags,
         c["Force"] \in Flags, c["Openshift"] \in Flags
  PROVE  c \in Params
  BY DEF Params, Names

\* The values that are taken for those that are missing.
LEMMA MissingFacts ==
  /\ Missing("Drives") = NotGiven /\ Missing("Env") = NotGiven /\ Missing("Kvdb") \in Values
  /\ Missing("KubeVer") \in KubeVers
  /\ \A f \in {"Master", "ZeroStorage", "Force", "Openshift"} : Missing(f) = ""
  BY DEF Missing, KubeVers, Values

\* A request without parameters is one.
LEMMA NothingFacts == NoParams \in Params /\ NoReq \in Requests
  <1>1. NoParams = [f \in Names |-> NoParams[f]]
    BY DEF NoParams, Names
  <1>2. \A f \in Names : NoParams[f] = Missing(f)
    BY DEF NoParams, Names
  <1>3. /\ NoParams["Drives"] = NotGiven /\ NoParams["Env"] = NotGiven
        /\ NoParams["KubeVer"] \in KubeVers /\ NoParams["Kvdb"] \in Values
        /\ NoParams["Master"] = "" /\ NoParams["ZeroStorage"] = ""
        /\ NoParams["Force"] = "" /\ NoParams["Openshift"] = ""
    BY <1>2, MissingFacts DEF Names
  <1>4. NoParams \in Params
    <2> DEFINE c == NoParams
    <2>1. c = [f \in Names |-> c[f]]
      BY <1>1
    <2>2. c["Drives"] \in (SUBSET Devices) \union {NotGiven, Multiline}
      BY <1>3
    <2>3. c["Env"] \in {NotGiven, Multiline}
      BY <1>3
    <2>4. c["KubeVer"] \in KubeVers
      BY <1>3
    <2>5. /\ c["Master"] \in Flags /\ c["Openshift"] \in Flags
          /\ c["ZeroStorage"] \in Flags /\ c["Force"] \in Flags
          /\ c["Kvdb"] \in Values
      BY <1>3 DEF Flags
    <2> HIDE DEF c
    <2>6. c \in Params
      BY <2>1, <2>2, <2>3, <2>4, <2>5, RecordFacts
    <2> QED
      BY <2>6 DEF c
  <1> QED
    BY <1>4 DEF NoReq, Requests, Urls

\* What is decoded of a request.
Decoded(r) == [f \in DOMAIN NoParams |-> IF f \in r.odd THEN Missing(f) ELSE r.params[f]]

\* What is decoded of a request are parameters, and the drives those that are
\* named, unless their key is of the other style.
LEMMA DecodedFacts ==
  ASSUME NEW r \in Requests
  PROVE  /\ Decoded(r) \in Params
         /\ Decoded(r).Drives = IF "Drives" \in r.odd THEN NotGiven ELSE r.params.Drives
  <1> DEFINE c == Decoded(r)
  <1>1. c = [f \in Names |-> c[f]]
    BY Domain DEF Decoded
  <1>2. \A f \in Names : c[f] = IF f \in r.odd THEN Missing(f) ELSE r.params[f]
    BY Domain DEF Decoded
  <1>3. r.params \in Params
    BY DEF Requests
  <1>4. /\ r.params["Drives"] \in (SUBSET Devices) \union {NotGiven, Multiline}
        /\ r.params["Env"] \in {NotGiven, Multiline}
        /\ r.params["KubeVer"] \in KubeVers /\ r.params["Master"] \in Flags
        /\ r.params["ZeroStorage"] \in Flags /\ r.params["Force"] \in Flags
        /\ r.params["Openshift"] \in Flags /\ r.params["Kvdb"] \in Values
    BY <1>3 DEF Params
  <1> HIDE DEF c
  <1>5. c \in Params
    <2>0. \A f \in Names : c[f] \in {Missing(f), r.params[f]}
      BY <1>2
    <2>1. c["Drives"] \in {Missing("Drives"), r.params["Drives"]}
      BY <2>0 DEF Names
    <2>2. c["Drives"] \in (SUBSET Devices) \union {NotGiven, Multiline}
      BY <1>4, <2>1, MissingFacts
    <2>3. c["Env"] \in {Missing("Env"), r.params["Env"]}
      BY <2>0 DEF Names
    <2>4. c["Env"] \in {NotGiven, Multiline}
      BY <1>4, <2>3, MissingFacts
    <2>5. c["KubeVer"] \in {Missing("KubeVer"), r.params["KubeVer"]}
      BY <2>0 DEF Names
    <2>6. c["KubeVer"] \in KubeVers
      BY <1>4, <2>5, MissingFacts
    <2>7. \A f \in {"Master", "ZeroStorage", "Force", "Openshift"} :
             c[f] \in {"", r.params[f]}
      BY <2>0, MissingFacts DEF Names
    <2>8. c["Kvdb"] \in {Missing("Kvdb"), r.params["Kvdb"]}
      BY <2>0 DEF Names
    <2>9. /\ c["Master"] \in Flags /\ c["Openshift"] \in Flags
          /\ c["ZeroStorage"] \in Flags /\ c["Force"] \in Flags
          /\ c["Kvdb"] \in Values
      BY <1>4, <2>7, <2>8, MissingFacts DEF Flags
    <2> QED
      BY <1>1, <2>2, <2>4, <2>6, <2>9, RecordFacts
  <1>6. c.Drives = IF "Drives" \in r.odd THEN NotGiven ELSE r.params.Drives
    <2>1. "Drives" \in Names
      BY DEF Names
    <2>2. c["Drives"] = IF "Drives" \in r.odd THEN NotGiven ELSE r.params["Drives"]
      BY <1>2, <2>1, MissingFacts
    <2> QED
      BY <2>2
  <1> QED
    BY <1>5, <1>6 DEF c

-----------------------------------------------------------------------------
\* Before the answer there is none.
Silent == pc # "sent" => resp = Answer("none")

\* A specification is made of the parameters that were decoded, these of the
\* request, and strictly if the program is strict.
Made == /\ pc = "generate" \/ resp.kind = "spec" =>
              /\ config.Drives = IF "Drives" \in req.odd THEN NotGiven ELSE req.params.Drives
              /\ parseStrict => req.odd = {}
        /\ resp.kind = "spec" =>
              /\ resp.sets = DaemonSets(config)
              /\ resp.rbac = rbacAuthVer(config.KubeVer.text, config.KubeVer.gke)
              /\ resp.subjects = Less(config.KubeVer.text, V16z)

ServiceInv == TypeOK /\ Silent /\ Made

\* What is answered without a specification is typed.
LEMMA AnswerFacts ==
  ASSUME NEW k \in {"none", "usage", "script", "error", "precheck"}
  PROVE  /\ Answer(k).kind = k /\ Answer(k).kind # "spec" /\ Answer(k).rbac = ""
         /\ Answer(k).text = <<>>
         /\ {Answer(k).subjects, Answer(k).controller} \subseteq BOOLEAN
  BY DEF Answer

\* A version of the RBAC API is chosen for every version.
LEMMA RbacFacts ==
  ASSUME NEW ver, NEW isGKE
  PROVE  rbacAuthVer(ver, isGKE) \in {"v1alpha1", "v1beta1", "v1"}
  BY DEF rbacAuthVer, Rbac

\* The service starts with no request.
LEMMA InitService == Init => ServiceInv
  <1> SUFFICES ASSUME Init PROVE ServiceInv
    OBVIOUS
  <1> QED
    BY NothingFacts, AnswerFacts DEF Init, ServiceInv, TypeOK, Silent, Made

\* Every step of the service keeps what it answers typed and true to the
\* request.
LEMMA ServiceStep == ServiceInv /\ [Next]_vars => ServiceInv'
  <1> SUFFICES ASSUME ServiceInv, [Next]_vars PROVE ServiceInv'
    OBVIOUS
  <1> USE DEF Silent
  <1>1. CASE SendUsage
    BY <1>1, AnswerFacts DEF SendUsage, ServiceInv, TypeOK, Made
  <1>2. CASE Receive
    BY <1>2, AnswerFacts DEF Receive, ServiceInv, TypeOK, Made
  <1>3. CASE parseInstallRequest
    <2>1. /\ pc = "parse" /\ req \in Requests /\ UNCHANGED <<parseStrict, req>>
          /\ resp = Answer("none")
      BY <1>3 DEF parseInstallRequest, Parse, ServiceInv, TypeOK
    <2>2. CASE parseStrict /\ req.odd # {}
      BY <1>3, <2>1, <2>2, AnswerFacts
         DEF parseInstallRequest, Parse, SendError, ServiceInv, TypeOK, Made
    <2>3. CASE ~(parseStrict /\ req.odd # {})
      <3>1. pc' = "generate" /\ config' = Decoded(req) /\ UNCHANGED resp
        BY <1>3, <2>3 DEF parseInstallRequest, Parse, Decoded
      <3> QED
        BY <2>1, <2>3, <3>1, DecodedFacts, AnswerFacts DEF ServiceInv, TypeOK, Made
    <2> QED
      BY <2>2, <2>3
  <1>4. CASE generateInstallSpec
    <2>1. /\ pc = "generate" /\ pc' = "sent" /\ UNCHANGED <<parseStrict, req, config>>
      BY <1>4 DEF generateInstallSpec, SendError
    <2>2. CASE resp' = Answer("error")
      BY <2>1, <2>2, AnswerFacts DEF ServiceInv, TypeOK, Made
    <2> DEFINE text == Printed(Template(req.path, Doubled(req.url), config.Kvdb))
    <2> HIDE DEF text
    <2>3. CASE resp' = [Answer("precheck") EXCEPT !.text = text]
      <3>1. /\ resp'.kind = "precheck" /\ resp'.rbac = ""
            /\ resp'.subjects = FALSE /\ resp'.controller = FALSE
        BY <2>3 DEF Answer
      <3> QED
        BY <2>1, <3>1 DEF ServiceInv, TypeOK, Made
    <2>4. CASE resp' = [kind |-> "spec",
                        sets |-> DaemonSets(config),
                        rbac |-> rbacAuthVer(config.KubeVer.text, config.KubeVer.gke),
                        subjects |-> Less(config.KubeVer.text, V16z),
                        controller |-> config.Openshift = "true" \/ config.KubeVer.gke,
                        text |-> text]
      <3>1. /\ resp'.kind = "spec" /\ resp'.sets = DaemonSets(config)
            /\ resp'.rbac = rbacAuthVer(config.KubeVer.text, config.KubeVer.gke)
            /\ resp'.subjects = Less(config.KubeVer.text, V16z)
            /\ resp'.controller = (config.Openshift = "true" \/ config.KubeVer.gke)
        BY <2>4
      <3>2. Less(config.KubeVer.text, V16z) \in BOOLEAN
        BY DEF Less
      <3>3. {resp'.subjects, resp'.controller} \subseteq BOOLEAN
        BY <3>1, <3>2
      <3>4. TypeOK'
        BY <2>1, <3>1, <3>3, RbacFacts DEF ServiceInv, TypeOK
      <3> QED
        BY <2>1, <3>1, <3>4 DEF ServiceInv, Made
    <2> QED
      BY <1>4, <2>2, <2>3, <2>4 DEF generateInstallSpec, SendError, text
  <1>5. CASE Close
    BY <1>5, NothingFacts, AnswerFacts DEF Close, ServiceInv, TypeOK, Made
  <1>6. CASE Refuse
    BY <1>6, AnswerFacts DEF Refuse, SendError, ServiceInv, TypeOK, Made
  <1>7. CASE UNCHANGED vars
    BY <1>7 DEF vars, ServiceInv, TypeOK, Made
  <1> QED
    BY <1>1, <1>2, <1>3, <1>4, <1>5, <1>6, <1>7 DEF Next

\* The variables of SpecService always have their types; in particular every
\* specification has a version of the RBAC API.
THEOREM TypeCorrect == Spec => []TypeOK
  <1>1. ServiceInv => TypeOK
    BY DEF ServiceInv
  <1> QED
    BY <1>1, InitService, ServiceStep, PTL DEF Spec

-----------------------------------------------------------------------------
\* What the templates' DaemonSets are.
LEMMA SetFacts ==
  ASSUME NEW p
  PROVE  /\ ZeroStorageSet(p).nodes = "masters" /\ ZeroStorageSet(p).tolerates
         /\ ZeroStorageSet(p).drives = {}
         /\ WorkerSet(p).nodes = "workers" /\ ~WorkerSet(p).tolerates
         /\ WorkerSet(p).drives = DriveArgs(p)
         /\ PortworxSet(p).nodes = IF p.Master # "true" THEN "workers" ELSE "all"
         /\ PortworxSet(p).tolerates <=> p.Master = "true"
         /\ PortworxSet(p).drives = DriveArgs(p)
         /\ \A s \in {ZeroStorageSet(p), WorkerSet(p), PortworxSet(p)} :
               s.osft = (p.Openshift # "")
  <1> DEFINE all == DaemonSet(p, "all", TRUE, DriveArgs(p))
  <1>1. /\ ZeroStorageSet(p).nodes = "masters" /\ ZeroStorageSet(p).tolerates
        /\ ZeroStorageSet(p).drives = {} /\ ZeroStorageSet(p).osft = (p.Openshift # "")
    BY DEF ZeroStorageSet, DaemonSet
  <1>2. /\ WorkerSet(p).nodes = "workers" /\ ~WorkerSet(p).tolerates
        /\ WorkerSet(p).drives = DriveArgs(p) /\ WorkerSet(p).osft = (p.Openshift # "")
    BY DEF WorkerSet, DaemonSet
  <1>3. /\ all.nodes = "all" /\ all.tolerates
        /\ all.drives = DriveArgs(p) /\ all.osft = (p.Openshift # "")
    BY DEF DaemonSet
  <1>4. /\ p.Master # "true" => PortworxSet(p) = WorkerSet(p)
        /\ p.Master = "true" => PortworxSet(p) = all
    BY DEF PortworxSet
  <1> HIDE DEF all
  <1>5. CASE p.Master = "true"
    BY <1>1, <1>2, <1>3, <1>4, <1>5
  <1>6. CASE p.Master # "true"
    BY <1>1, <1>2, <1>4, <1>6
  <1> QED
    BY <1>5, <1>6

\* Every DaemonSet has the drives of the parameters, or none.
LEMMA DriveFacts ==
  ASSUME NEW p, NEW s \in DaemonSets(p)
  PROVE  s.drives \in {{}, DriveArgs(p)}
  BY SetFacts DEF DaemonSets

\* PX takes no drive but those the request names.
THEOREM DrivesCorrect == Spec => []OnlyNamedDrives
  <1>1. ServiceInv => OnlyNamedDrives
    <2> SUFFICES ASSUME ServiceInv, resp.kind = "spec", parseStrict \/ req.odd = {},
                        req.params.Drives # NotGiven, NEW s \in resp.sets
                 PROVE  s.drives \in {{}, req.params.Drives}
      BY DEF OnlyNamedDrives
    <2>1. config.Drives = req.params.Drives /\ resp.sets = DaemonSets(config)
      BY DEF ServiceInv, Made
    <2>2. DriveArgs(config) = req.params.Drives
      BY <2>1 DEF DriveArgs
    <2> QED
      BY <2>1, <2>2, DriveFacts
  <1> QED
    BY <1>1, InitService, ServiceStep, PTL DEF Spec

-----------------------------------------------------------------------------
\* The sets that run on a node, those that should run there, and how many.
On(sets, node) == {s \in sets : Runs(s, node)}
Asked(p) == IF p.Drives # NotGiven THEN p.Drives
            ELSE {IF p.Force = "true" THEN "-A" ELSE "-a"}
One(sets, node, drives) == \E s \in sets : On(sets, node) = {s} /\ s.drives = drives
MasterOf(p, node) == IF p.Openshift = "true" THEN node.infra /\ OfMasters(node) ELSE node.role
WorkerOf(p, node) == IF p.Openshift = "true" THEN ~node.infra /\ ~OfMasters(node) ELSE ~node.role

NodeRight(p, sets, node) ==
    /\ \A s, t \in On(sets, node) : s = t
    /\ node.disabled => On(sets, node) = {}
    /\ ~node.disabled /\ WorkerOf(p, node) /\ ~node.tainted => One(sets, node, Asked(p))
    /\ ~node.disabled /\ MasterOf(p, node) =>
          IF p.ZeroStorage = "true" /\ p.Master # "false" THEN One(sets, node, {})
          ELSE IF p.Master = "true" THEN One(sets, node, Asked(p))
          ELSE On(sets, node) = {}

\* A set that is the only one, and runs on a node, is the one there.
LEMMA OneFacts ==
  ASSUME NEW sets, NEW node, NEW s \in sets, Runs(s, node),
         \A t \in sets : Runs(t, node) => t = s
  PROVE  One(sets, node, s.drives)
  BY DEF One, On

\* The DaemonSets of the templates put PX where it is to run, whatever the
\* parameters are and whatever labels a node has.
LEMMA NodeFacts ==
  ASSUME NEW p \in Params, "false" \notin {p.Openshift, p.ZeroStorage, p.Force},
         NEW node \in Nodes
  PROVE  NodeRight(p, DaemonSets(p), node)
  <1> DEFINE sets == DaemonSets(p)
             masters == ZeroStorageSet(p)
             workers == WorkerSet(p)
             all     == PortworxSet(p)
             m == MasterOf(p, node)
             w == WorkerOf(p, node)
  <1>1. /\ p.Openshift \in {"", "true"} /\ p.ZeroStorage \in {"", "true"}
        /\ p.Force \in {"", "true"} /\ p.Master \in {"", "true", "false"}
    BY DEF Params, Flags
  <1>2. DriveArgs(p) = Asked(p)
    BY <1>1 DEF DriveArgs, Asked
  <1>3. ~(m /\ w)
    BY DEF MasterOf, WorkerOf
  <1>4. /\ Runs(masters, node) <=> ~node.disabled /\ m
        /\ Runs(workers, node) <=> ~node.disabled /\ w /\ ~node.tainted
    BY <1>1, SetFacts DEF Runs, MasterOf, WorkerOf
  <1>5. /\ p.Master = "true" => (Runs(all, node) <=> ~node.disabled)
        /\ p.Master # "true" => (Runs(all, node) <=> Runs(workers, node))
    BY SetFacts DEF Runs, PortworxSet
  <1>6. masters.drives = {} /\ workers.drives = Asked(p) /\ all.drives = Asked(p)
    BY <1>2, SetFacts
  <1> HIDE DEF masters, workers, all, m, w
  <1>7. CASE UsesZeroTemplate(p)
    <2>1. sets = {masters, workers}
      BY <1>7 DEF DaemonSets, masters, workers
    <2>2. p.ZeroStorage = "true" /\ p.Master # "false"
      BY <1>1, <1>7 DEF UsesZeroTemplate
    <2> HIDE DEF sets
    <2>3. \A s, t \in On(sets, node) : s = t
      BY <1>3, <1>4, <2>1 DEF On
    <2>4. node.disabled => On(sets, node) = {}
      BY <1>4, <2>1 DEF On
    <2>5. ASSUME ~node.disabled, w, ~node.tainted PROVE One(sets, node, Asked(p))
      BY <1>3, <1>4, <1>6, <2>1, <2>5, OneFacts
    <2>6. ASSUME ~node.disabled, m PROVE One(sets, node, {})
      BY <1>3, <1>4, <1>6, <2>1, <2>6, OneFacts
    <2> QED
      BY <2>2, <2>3, <2>4, <2>5, <2>6 DEF NodeRight, m, w, sets
  <1>8. CASE ~UsesZeroTemplate(p)
    <2>1. sets = {all}
      BY <1>8 DEF DaemonSets, all
    <2>2. ~(p.ZeroStorage = "true" /\ p.Master # "false")
      BY <1>1, <1>8 DEF UsesZeroTemplate
    <2> HIDE DEF sets
    <2>3. \A s, t \in On(sets, node) : s = t
      BY <2>1 DEF On
    <2>4. node.disabled => On(sets, node) = {}
      BY <1>4, <1>5, <2>1 DEF On
    <2>5. ASSUME Runs(all, node) PROVE One(sets, node, Asked(p))
      BY <1>6, <2>1, <2>5, OneFacts
    <2>6. ASSUME ~Runs(all, node) PROVE On(sets, node) = {}
      BY <2>1, <2>6 DEF On
    <2>7. ASSUME ~node.disabled, w, ~node.tainted PROVE One(sets, node, Asked(p))
      BY <1>4, <1>5, <2>5, <2>7
    <2>8. ASSUME ~node.disabled, m
          PROVE  IF p.Master = "true" THEN One(sets, node, Asked(p))
                                      ELSE On(sets, node) = {}
      BY <1>3, <1>4, <1>5, <2>5, <2>6, <2>8
    <2> QED
      BY <2>2, <2>3, <2>4, <2>7, <2>8 DEF NodeRight, m, w, sets
  <1> QED
    BY <1>7, <1>8

\* What the user applies puts no two PX on a node, none where it is disabled,
\* and one on every node it is to run on, with the drives the request asks for,
\* unless a flag is "false" or a node has one of OpenShift's two labels only.
THEOREM NodesCorrect == Spec => []OnePerNode
  <1>1. ServiceInv => OnePerNode
    <2> SUFFICES ASSUME ServiceInv, resp.kind = "spec",
                        "false" \notin {config.Openshift, config.ZeroStorage, config.Force}
                 PROVE  OnePerNode
      BY DEF OnePerNode
    <2>1. config \in Params /\ resp.sets = DaemonSets(config)
      BY DEF ServiceInv, TypeOK, Made
    <2>2. \A node \in Nodes : NodeRight(config, resp.sets, node)
      BY <2>1, NodeFacts
    <2> QED
      BY <2>2 DEF OnePerNode, NodeRight, On, One, Asked, MasterOf, WorkerOf
  <1> QED
    BY <1>1, InitService, ServiceStep, PTL DEF Spec

-----------------------------------------------------------------------------
\* Two strings begin alike when their characters agree.
LEMMA PrefixFacts ==
  ASSUME NEW s \in Seq(Nat), NEW t \in Seq(Nat), NEW k \in Nat, k <= Len(s), k <= Len(t)
  PROVE  SubSeq(s, 1, k) = SubSeq(t, 1, k) <=> \A j \in 1..k : s[j] = t[j]
  <1>1. \A j \in 1..k : s[j] \in Nat /\ t[j] \in Nat
    OBVIOUS
  <1>2. /\ SubSeq(s, 1, k) \in Seq(Nat) /\ Len(SubSeq(s, 1, k)) = k
        /\ \A j \in 1..k : SubSeq(s, 1, k)[j] = s[j]
    BY <1>1, SubSeqProperties
  <1>3. /\ SubSeq(t, 1, k) \in Seq(Nat) /\ Len(SubSeq(t, 1, k)) = k
        /\ \A j \in 1..k : SubSeq(t, 1, k)[j] = t[j]
    BY <1>1, SubSeqProperties
  <1>4. ASSUME \A j \in 1..k : s[j] = t[j] PROVE SubSeq(s, 1, k) = SubSeq(t, 1, k)
    BY <1>2, <1>3, <1>4, SeqEqual
  <1>5. ASSUME SubSeq(s, 1, k) = SubSeq(t, 1, k), NEW j \in 1..k PROVE s[j] = t[j]
    BY <1>2, <1>3, <1>5
  <1> QED
    BY <1>4, <1>5

\* Of two strings the one with the smaller character, where they first differ,
\* comes first.
LEMMA LessFacts ==
  ASSUME NEW a \in Seq(Nat), NEW b \in Seq(Nat), Len(a) >= Len(b)
  PROVE  Less(a, b) <=> \E i \in 1..Len(b) : /\ \A j \in 1..(i - 1) : a[j] = b[j]
                                             /\ a[i] < b[i]
  <1>1. Len(a) \in Nat /\ Len(b) \in Nat
    OBVIOUS
  <1>2. \A i \in 1..Len(b) : SubSeq(a, 1, i - 1) = SubSeq(b, 1, i - 1)
                             <=> \A j \in 1..(i - 1) : a[j] = b[j]
    <2> SUFFICES ASSUME NEW i \in 1..Len(b)
                 PROVE  SubSeq(a, 1, i - 1) = SubSeq(b, 1, i - 1)
                        <=> \A j \in 1..(i - 1) : a[j] = b[j]
      OBVIOUS
    <2>1. i - 1 \in Nat /\ i - 1 <= Len(a) /\ i - 1 <= Len(b)
      BY <1>1
    <2> QED
      BY <2>1, PrefixFacts
  <1>3. \A i \in 1..Len(b) : i <= Len(a) + 1 /\ ~(i > Len(a))
    BY <1>1
  <1> QED
    BY <1>2, <1>3 DEF Less

\* A character more.
LEMMA JoinFacts ==
  ASSUME NEW s \in Seq(Nat), NEW x \in Nat
  PROVE  /\ s \o <<x>> \in Seq(Nat) /\ Len(s \o <<x>>) = Len(s) + 1
         /\ \A i \in 1..Len(s) : (s \o <<x>>)[i] = s[i]
         /\ (s \o <<x>>)[Len(s) + 1] = x
  <1>1. <<x>> \in Seq(Nat) /\ Len(<<x>>) = 1 /\ <<x>>[1] = x /\ Len(s) \in Nat
    OBVIOUS
  <1> QED
    BY <1>1, ConcatProperties

\* The characters of a version of one digit: "1", ".", the digit, ".".
LEMMA VersionFacts ==
  ASSUME NEW m \in 0..9
  PROVE  /\ V(m) \in Seq(Nat) /\ Len(V(m)) = 4
         /\ V(m)[1] = 49 /\ V(m)[2] = 46 /\ V(m)[3] = 48 + m /\ V(m)[4] = 46
  <1> DEFINE a == <<49>>
             b == a \o <<46>>
             c == b \o <<48 + m>>
             d == c \o <<46>>
  <1>1. V(m) = d
    BY DEF V, Number, Digit, Dot
  <1>2. a \in Seq(Nat) /\ Len(a) = 1 /\ a[1] = 49
    OBVIOUS
  <1> HIDE DEF a
  <1>3. b \in Seq(Nat) /\ Len(b) = 2 /\ b[1] = 49 /\ b[2] = 46
    <2>0. a \in Seq(Nat) /\ 46 \in Nat
      BY <1>2
    <2>1. /\ b \in Seq(Nat) /\ Len(b) = Len(a) + 1
          /\ \A i \in 1..Len(a) : b[i] = a[i]
          /\ b[Len(a) + 1] = 46
      BY <2>0, JoinFacts, Zenon
    <2> HIDE DEF b
    <2> QED
      BY <1>2, <2>1
  <1> HIDE DEF b
  <1>4. c \in Seq(Nat) /\ Len(c) = 3 /\ c[1] = 49 /\ c[2] = 46 /\ c[3] = 48 + m
    <2>0. b \in Seq(Nat) /\ 48 + m \in Nat
      BY <1>3
    <2>1. /\ c \in Seq(Nat) /\ Len(c) = Len(b) + 1
          /\ \A i \in 1..Len(b) : c[i] = b[i]
          /\ c[Len(b) + 1] = 48 + m
      BY <2>0, JoinFacts, Zenon
    <2> HIDE DEF c
    <2> QED
      BY <1>3, <2>1
  <1> HIDE DEF c
  <1>5. d \in Seq(Nat) /\ Len(d) = 4 /\ d[1] = 49 /\ d[2] = 46 /\ d[3] = 48 + m /\ d[4] = 46
    <2>0. c \in Seq(Nat) /\ 46 \in Nat
      BY <1>4
    <2>1. /\ d \in Seq(Nat) /\ Len(d) = Len(c) + 1
          /\ \A i \in 1..Len(c) : d[i] = c[i]
          /\ d[Len(c) + 1] = 46
      BY <2>0, JoinFacts, Zenon
    <2> HIDE DEF d
    <2> QED
      BY <1>4, <2>1
  <1> HIDE DEF d
  <1> QED
    BY <1>1, <1>5

\* The characters of a version of one digit and one more after them.
LEMMA TextFacts ==
  ASSUME NEW m \in 0..9, NEW x \in Nat, NEW t, t = V(m) \o <<x>>
  PROVE  /\ t \in Seq(Nat) /\ Len(t) = 5
         /\ t[1] = 49 /\ t[2] = 46 /\ t[3] = 48 + m /\ t[4] = 46 /\ t[5] = x
  <1> DEFINE v == V(m)
  <1>1. v \in Seq(Nat) /\ Len(v) = 4 /\ v[1] = 49 /\ v[2] = 46 /\ v[3] = 48 + m /\ v[4] = 46
    BY VersionFacts
  <1> HIDE DEF v
  <1>2. /\ t \in Seq(Nat) /\ Len(t) = Len(v) + 1
        /\ \A i \in 1..Len(v) : t[i] = v[i]
        /\ t[Len(v) + 1] = x
    <2> DEFINE u == v \o <<x>>
    <2>1. t = u
      BY DEF v
    <2>2. /\ u \in Seq(Nat) /\ Len(u) = Len(v) + 1
          /\ \A i \in 1..Len(v) : u[i] = v[i]
          /\ u[Len(v) + 1] = x
      BY <1>1, JoinFacts, Zenon
    <2> HIDE DEF u
    <2> QED
      BY <2>1, <2>2, Zenon
  <1> QED
    BY <1>1, <1>2

\* What the service answers a version of Kubernetes with is what the upgrade
\* script uses on it.
LEMMA UpgradeFacts ==
  ASSUME NEW m \in 6..9
  PROVE  LET t == V(m) \o Number(3)
         IN /\ Less(t, V16z) = UpgradeRbac(m).subjects
            /\ \A gke \in BOOLEAN :
                  (m = 6 /\ gke) \/ rbacAuthVer(t, gke) = UpgradeRbac(m).rbac
  <1> DEFINE t == V(m) \o Number(3)
             s == V(7)
             z == V16z
  <1>1. /\ t \in Seq(Nat) /\ Len(t) = 5
        /\ t[1] = 49 /\ t[2] = 46 /\ t[3] = 48 + m /\ t[4] = 46 /\ t[5] = 51
    <2>1. Number(3) = <<51>>
      BY DEF Number, Digit
    <2>2. m \in 0..9 /\ 51 \in Nat
      OBVIOUS
    <2>3. t = V(m) \o <<51>>
      BY <2>1, Zenon
    <2> HIDE DEF t
    <2>4. \A u : u = V(m) \o <<51>> =>
             /\ u \in Seq(Nat) /\ Len(u) = 5
             /\ u[1] = 49 /\ u[2] = 46 /\ u[3] = 48 + m /\ u[4] = 46 /\ u[5] = 51
      BY <2>2, TextFacts
    <2> QED
      BY <2>3, <2>4, Zenon
  <1>2. /\ s \in Seq(Nat) /\ Len(s) = 4
        /\ s[1] = 49 /\ s[2] = 46 /\ s[3] = 55 /\ s[4] = 46
    BY VersionFacts
  <1>3. /\ z \in Seq(Nat) /\ Len(z) = 5
        /\ z[1] = 49 /\ z[2] = 46 /\ z[3] = 54 /\ z[4] = 46 /\ z[5] = 122
    <2> DEFINE v == V(6)
               u == v \o <<122>>
    <2>1. /\ v \in Seq(Nat) /\ Len(v) = 4
          /\ v[1] = 49 /\ v[2] = 46 /\ v[3] = 54 /\ v[4] = 46
      BY VersionFacts
    <2>2. z = u
      BY DEF V16z
    <2> HIDE DEF v, z
    <2>3. v \in Seq(Nat) /\ 122 \in Nat
      BY <2>1
    <2>4. /\ u \in Seq(Nat) /\ Len(u) = Len(v) + 1
          /\ \A i \in 1..Len(v) : u[i] = v[i]
          /\ u[Len(v) + 1] = 122
      BY <2>3, JoinFacts, Zenon
    <2> HIDE DEF u
    <2>5. /\ u \in Seq(Nat) /\ Len(u) = 5
          /\ u[1] = 49 /\ u[2] = 46 /\ u[3] = 54 /\ u[4] = 46 /\ u[5] = 122
      BY <2>1, <2>4
    <2> QED
      BY <2>2, <2>5, Zenon
  <1> HIDE DEF t, s, z
  <1>4. t # <<>>
    <2>1. Len(<<>>) = 0 /\ 5 # 0
      BY EmptySeq
    <2> QED
      BY <1>1, <2>1, Zenon
  <1>5. IsPrefix(s, t) <=> m = 7
    <2>1. SubSeq(s, 1, 4) = SubSeq(t, 1, 4) <=> \A j \in 1..4 : s[j] = t[j]
      BY <1>1, <1>2, PrefixFacts
    <2>2. (\A j \in 1..4 : s[j] = t[j]) <=> m = 7
      BY <1>1, <1>2
    <2> QED
      BY <1>1, <1>2, <2>1, <2>2 DEF IsPrefix
  <1>6. Less(t, s) <=> m < 7
    <2>1. Less(t, s) <=> \E i \in 1..4 : /\ \A j \in 1..(i - 1) : t[j] = s[j]
                                         /\ t[i] < s[i]
      <3>1. Len(t) >= Len(s)
        BY <1>1, <1>2
      <3> QED
        BY <1>1, <1>2, <3>1, LessFacts, Zenon
    <2>2. ASSUME m < 7 PROVE Less(t, s)
      <3>1. (\A j \in 1..(3 - 1) : t[j] = s[j]) /\ t[3] < s[3]
        BY <1>1, <1>2, <2>2
      <3> QED
        BY <2>1, <3>1
    <2>3. ASSUME ~(m < 7), NEW i \in 1..4 PROVE ~(t[i] < s[i])
      BY <1>1, <1>2, <2>3
    <2> QED
      BY <2>1, <2>2, <2>3
  <1>7. Less(t, z) <=> m = 6
    <2>1. Less(t, z) <=> \E i \in 1..5 : /\ \A j \in 1..(i - 1) : t[j] = z[j]
                                         /\ t[i] < z[i]
      <3>1. Len(t) >= Len(z)
        BY <1>1, <1>3
      <3> QED
        BY <1>1, <1>3, <3>1, LessFacts, Zenon
    <2>2. ASSUME m = 6 PROVE Less(t, z)
      <3>1. (\A j \in 1..(5 - 1) : t[j] = z[j]) /\ t[5] < z[5]
        BY <1>1, <1>3, <2>2
      <3> QED
        BY <2>1, <3>1
    <2>3. ASSUME m # 6, NEW i \in 1..5, \A j \in 1..(i - 1) : t[j] = z[j]
          PROVE  ~(t[i] < z[i])
      BY <1>1, <1>3, <2>3
    <2> QED
      BY <2>1, <2>2, <2>3
  <1>8. ASSUME NEW gke \in BOOLEAN
        PROVE  /\ m = 6 /\ ~gke => rbacAuthVer(t, gke) = "v1alpha1"
               /\ m = 7 => rbacAuthVer(t, gke) = "v1beta1"
               /\ m > 7 => rbacAuthVer(t, gke) = "v1"
    <2>1. /\ m = 6 => Less(t, V(7)) /\ ~IsPrefix(V(7), t)
          /\ m = 7 => IsPrefix(V(7), t)
          /\ m > 7 => ~Less(t, V(7)) /\ ~IsPrefix(V(7), t)
      BY <1>5, <1>6 DEF s
    <2>2. ASSUME m = 6, ~gke PROVE rbacAuthVer(t, gke) = "v1alpha1"
      BY <1>4, <2>1, <2>2 DEF rbacAuthVer, Rbac
    <2>3. ASSUME m = 7 PROVE rbacAuthVer(t, gke) = "v1beta1"
      BY <2>1, <2>3 DEF rbacAuthVer, Rbac
    <2>4. ASSUME m > 7 PROVE rbacAuthVer(t, gke) = "v1"
      BY <1>4, <2>1, <2>4 DEF rbacAuthVer, Rbac
    <2> QED
      BY <2>2, <2>3, <2>4
  <1>9. Less(t, z) = (m = 6)
    BY <1>7 DEF Less
  <1>10. /\ UpgradeRbac(m).subjects = (m = 6)
         /\ m = 6 => UpgradeRbac(m).rbac = "v1alpha1"
         /\ m = 7 => UpgradeRbac(m).rbac = "v1beta1"
         /\ m > 7 => UpgradeRbac(m).rbac = "v1"
    <2>1. CASE m = 6
      BY <2>1 DEF UpgradeRbac
    <2>2. CASE m = 7
      BY <2>2 DEF UpgradeRbac
    <2>3. CASE m > 7
      BY <2>3 DEF UpgradeRbac
    <2> QED
      BY <2>1, <2>2, <2>3
  <1>11. m = 6 \/ m = 7 \/ m > 7
    OBVIOUS
  <1>12. \A gke \in BOOLEAN : (m = 6 /\ gke) \/ rbacAuthVer(t, gke) = UpgradeRbac(m).rbac
    BY <1>8, <1>10, <1>11
  <1> QED
    BY <1>9, <1>10, <1>12 DEF t, z

\* The roles of a specification and the role binding of the upgrade script are
\* written for the same API, for Kubernetes 1.6 to 1.9, except on GKE's 1.6; no
\* specification for GKE uses v1alpha1.
THEOREM ApiCorrect == Spec => []ApiAsUpgrade
  <1>1. ServiceInv => ApiAsUpgrade
    <2> SUFFICES ASSUME ServiceInv, resp.kind = "spec" PROVE ApiAsUpgrade
      BY DEF ApiAsUpgrade, ForVersion
    <2>1. /\ resp.rbac = rbacAuthVer(config.KubeVer.text, config.KubeVer.gke)
          /\ resp.subjects = Less(config.KubeVer.text, V16z)
          /\ config.KubeVer \in KubeVers
      BY DEF ServiceInv, Made, TypeOK, Params
    <2>2. config.KubeVer.gke \in BOOLEAN
      BY <2>1 DEF KubeVers
    <2>3. ASSUME NEW m \in Minors \intersect 6..9, ForVersion(m)
          PROVE  /\ resp.subjects = UpgradeRbac(m).subjects
                 /\ (m = 6 /\ config.KubeVer.gke) \/ resp.rbac = UpgradeRbac(m).rbac
      <3>1. config.KubeVer.text = V(m) \o Number(3)
        BY <2>3 DEF ForVersion
      <3> QED
        BY <2>1, <2>2, <3>1, UpgradeFacts
    <2>4. config.KubeVer.gke => resp.rbac # "v1alpha1"
      BY <2>1 DEF rbacAuthVer, Rbac
    <2> QED
      BY <2>3, <2>4 DEF ApiAsUpgrade
  <1> QED
    BY <1>1, InitService, ServiceStep, PTL DEF Spec
================================================================================

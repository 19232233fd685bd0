--------------------------- MODULE RestServletProofs ---------------------------
(***************************************************************************)
(* What holds of RestServlet for any number of requests: it is well typed, *)
(* and on a node found enabled the servlet says "installing" as long as an *)
(* announced install is under way.                                         *)
(***************************************************************************)
EXTENDS RestServlet, TLAPS

LEMMA InstallerFacts ==
    /\ Installers = {"main", "first", "last"}
    /\ Watches = {"first", "last"}
  BY DEF Installers, Watches

\* The initial states are well typed.
LEMMA InitType == Init => TypeOK
  BY InstallerFacts DEF Init, TypeOK

\* So is what a process starts with that died.
LEMMA DieType == ASSUME Die PROVE TypeOK'
  BY InstallerFacts DEF Die, TypeOK

\* An installer goes from one point to another.
LEMMA GoType ==
    ASSUME TypeOK, NEW i, NEW from,
           NEW to \in {"boot", "idle", "pull", "notify", "download", "compare",
                       "same", "install", "finish", "settle", "done"},
           Go(i, from, to)
    PROVE  at' \in [Installers -> {"boot", "idle", "pull", "notify", "download",
                       "compare", "same", "install", "finish", "settle", "done"}]
  BY DEF Go, TypeOK

\* Every step preserves the types.
LEMMA StepType == TypeOK /\ [Next]_vars => TypeOK'
  <1> SUFFICES ASSUME TypeOK, [Next]_vars PROVE TypeOK'
    OBVIOUS
  <1>1. CASE Boot
    BY <1>1, GoType, InstallerFacts DEF Boot, TypeOK, requests
  <1>2. ASSUME NEW w \in Watches, Handle(w) PROVE TypeOK'
    BY <1>2, GoType DEF Handle, TypeOK, requests
  <1>3. ASSUME NEW i \in Installers, Locking(i) PROVE TypeOK'
    <2>1. CASE Notify(i)
      BY <2>1, GoType DEF Notify, SetState, TypeOK, requests
    <2>2. CASE SameImage(i)
      BY <2>2, GoType DEF SameImage, SetState, TypeOK, requests
    <2>3. CASE Finish(i)
      BY <2>3, GoType DEF Finish, SetState, TypeOK, requests
    <2>4. CASE Settle
      BY <2>4, GoType, InstallerFacts DEF Settle, SetState, TypeOK, requests
    <2> QED BY <1>3, <2>1, <2>2, <2>3, <2>4 DEF Locking
  <1>4. ASSUME NEW i \in Installers, Working(i) PROVE TypeOK'
    <2>1. CASE Pull(i)
      BY <2>1, GoType DEF Pull, TypeOK, requests
    <2>2. CASE Download(i)
      BY <2>2, GoType DEF Download, TypeOK, requests
    <2>3. CASE Compare(i)
      BY <2>3, GoType DEF Compare, TypeOK, requests
    <2>4. CASE Install(i)
      BY <2>4, GoType DEF Install, TypeOK, requests
    <2>5. CASE InstallFails(i)
      BY <2>5, GoType DEF InstallFails, TypeOK, requests
    <2>6. CASE Exit(i)
      BY <2>6, DieType DEF Exit
    <2> QED BY <1>4, <2>1, <2>2, <2>3, <2>4, <2>5, <2>6 DEF Working
  <1>5. ASSUME NEW g \in Gets, Ask(g) \/ Reading(g) \/ Proxy(g) PROVE TypeOK'
    BY <1>5 DEF Ask, Reading, ReadFirst, ReadSecond, Proxy, TypeOK, install
  <1>6. ASSUME NEW p \in Posts, Order(p) \/ Begin(p) \/ End(p) PROVE TypeOK'
    BY <1>6 DEF Order, Begin, End, TypeOK, install
  <1>7. CASE UNCHANGED vars
    BY <1>7 DEF vars, install, requests, TypeOK
  <1> QED BY <1>1, <1>2, <1>3, <1>4, <1>5, <1>6, <1>7 DEF Next

\* Every reachable state of the servlet is well typed.
THEOREM TypeCorrect == Spec => []TypeOK
  BY InitType, StepType, PTL DEF Spec

-----------------------------------------------------------------------------
\* Why Unhealthy holds: an announced install is past its announcement, and on
\* an enabled node nobody else installs or sets the state meanwhile.
UnderWay == \A i \in announced : at[i] \in {"download", "compare", "install", "finish"}
Alone    == found = "enabled" =>
               /\ open \subseteq {"last"}
               /\ at["main"] # "done" => open = {}
               /\ at["first"] = "idle"
               /\ open = {} => at["last"] = "idle"
               /\ at["main"] # "boot" \/ announced = {}
HealthInv == TypeOK /\ UnderWay /\ Alone /\ Unhealthy

\* On an enabled node an installer that is at work is the only one there is.
LEMMA OnlyOne ==
    ASSUME HealthInv, found = "enabled", NEW i \in Installers,
           at[i] \notin {"idle", "done"}
    PROVE  announced \subseteq {i}
  BY InstallerFacts DEF HealthInv, TypeOK, UnderWay, Alone

\* Every step preserves the invariant.
LEMMA HealthStep == HealthInv /\ [Next]_vars => HealthInv'
  <1> SUFFICES ASSUME HealthInv, [Next]_vars
               PROVE  UnderWay' /\ Alone' /\ Unhealthy'
    BY StepType DEF HealthInv
  <1> USE DEF HealthInv
  <1>0. TypeOK' BY StepType
  <1>1. CASE Boot
    BY <1>1, InstallerFacts DEF Boot, Go, TypeOK, UnderWay, Alone, Unhealthy
  <1>2. ASSUME NEW w \in Watches, Handle(w) PROVE UnderWay' /\ Alone' /\ Unhealthy'
    BY <1>2, InstallerFacts DEF Handle, Go, TypeOK, UnderWay, Alone, Unhealthy
  <1>3. ASSUME NEW i \in Installers, Locking(i)
        PROVE  UnderWay' /\ Alone' /\ Unhealthy'
    <2>1. CASE Notify(i)
      BY <2>1, OnlyOne, InstallerFacts
         DEF Notify, Go, SetState, TypeOK, UnderWay, Alone, Unhealthy
    <2>2. CASE SameImage(i)
      BY <2>2, OnlyOne, InstallerFacts
         DEF SameImage, Go, SetState, TypeOK, UnderWay, Alone, Unhealthy
    <2>3. CASE Finish(i)
      BY <2>3, OnlyOne, InstallerFacts
         DEF Finish, Go, SetState, TypeOK, UnderWay, Alone, Unhealthy
    <2>4. CASE Settle
      BY <2>4, OnlyOne, InstallerFacts
         DEF Settle, Go, SetState, TypeOK, UnderWay, Alone, Unhealthy
    <2> QED BY <1>3, <2>1, <2>2, <2>3, <2>4 DEF Locking
  <1>4. ASSUME NEW i \in Installers, Working(i)
        PROVE  UnderWay' /\ Alone' /\ Unhealthy'
    <2>1. CASE Pull(i) \/ Download(i) \/ Compare(i) \/ Install(i)
      BY <2>1, InstallerFacts DEF Pull, Download, Compare, Install, Go, TypeOK,
                                  UnderWay, Alone, Unhealthy
    <2>2. CASE InstallFails(i)
      BY <2>2, InstallerFacts DEF InstallFails, Go, TypeOK, UnderWay, Alone, Unhealthy
    <2>3. CASE Exit(i)
      BY <2>3, InstallerFacts DEF Exit, Die, UnderWay, Alone, Unhealthy
    <2> QED BY <1>4, <2>1, <2>2, <2>3 DEF Working
  <1>5. ASSUME UNCHANGED install, UNCHANGED state
        PROVE  UnderWay' /\ Alone' /\ Unhealthy'
    BY <1>5 DEF install, UnderWay, Alone, Unhealthy
  <1>6. ASSUME NEW g \in Gets, Ask(g) \/ Reading(g) \/ Proxy(g)
        PROVE  UNCHANGED install /\ UNCHANGED state
    BY <1>6 DEF Ask, Reading, ReadFirst, ReadSecond, Proxy
  <1>7. ASSUME NEW p \in Posts, Order(p) \/ Begin(p) \/ End(p)
        PROVE  UNCHANGED install /\ UNCHANGED state
    BY <1>7 DEF Order, Begin, End
  <1>8. CASE UNCHANGED vars
    BY <1>5, <1>8 DEF vars
  <1> QED BY <1>1, <1>2, <1>3, <1>4, <1>5, <1>6, <1>7, <1>8 DEF Next

\* On a node found enabled the pod is unhealthy from the announcement of a new
\* image to the end of its install.
THEOREM HealthCorrect == Spec => []Unhealthy
  <1>1. Init => HealthInv
    BY InitType, InstallerFacts DEF Init, HealthInv, UnderWay, Alone, Unhealthy
  <1>2. HealthInv => Unhealthy
    BY DEF HealthInv
  <1> QED BY <1>1, <1>2, HealthStep, PTL DEF Spec
=============================================================================

--------------------------- MODULE PxRuncArgsProofs ---------------------------
(***************************************************************************)
(* What holds of PxRuncArgs for any arguments, mounts and images: it is    *)
(* well typed, px-runc gets the mounts it should, and what is installed is *)
(* recognised by the doInstalls that follow.                               *)
(***************************************************************************)
EXTENDS PxRuncArgs, SequenceTheorems, TLAPS

\* What is passed on to px-runc.
Passed == (Words \ Special) \union {"-x", "kubernetes"}

\* The arguments of the pod are a sequence of words.
LEMMA GivenFacts ==
  ASSUME NEW g \in UNION {[1..n -> Words] : n \in 0..MaxArgs}
  PROVE  g \in Seq(Words) /\ Len(g) \in Nat /\ Len(g) <= MaxArgs
  <1>1. PICK n \in 0..MaxArgs : g \in [1..n -> Words]
    OBVIOUS
  <1>2. n \in Nat /\ n <= MaxArgs
    BY BoundsAssumption
  <1>3. g \in Seq(Words)
    BY <1>1, <1>2, IsASeq
  <1>4. Len(g) = n
    BY <1>1, <1>2, <1>3, LenProperties
  <1> QED
    BY <1>2, <1>3, <1>4

\* The scheduler's arguments are added at the end.
LEMMA SchedulerFacts ==
  ASSUME NEW s \in Seq(Passed)
  PROVE  s \o kubernetesArgs \in Seq(Passed) /\ s \o kubernetesArgs # <<>>
  <1> DEFINE x == "-x"
             k == "kubernetes"
  <1>0. x \in Passed /\ k \in Passed
    BY DEF Passed
  <1>1. kubernetesArgs \in Seq(Passed) /\ Len(kubernetesArgs) = 2
    <2>1. kubernetesArgs = <<x, k>>
      BY DEF kubernetesArgs
    <2> HIDE DEF x, k
    <2>2. <<x, k>> \in Seq(Passed) /\ Len(<<x, k>>) = 2
      BY <1>0
    <2> QED
      BY <2>1, <2>2
  <1>2. /\ s \o kubernetesArgs \in Seq(Passed)
        /\ Len(s \o kubernetesArgs) = Len(s) + 2
    <2> DEFINE t == kubernetesArgs
    <2>1. t \in Seq(Passed) /\ Len(t) = 2
      BY <1>1
    <2> HIDE DEF t
    <2>2. s \o t \in Seq(Passed) /\ Len(s \o t) = Len(s) + Len(t)
      BY <2>1, ConcatProperties
    <2>3. s \o t \in Seq(Passed) /\ Len(s \o t) = Len(s) + 2
      BY <2>1, <2>2
    <2> QED
      BY <2>3 DEF t
  <1>3. Len(s) \in Nat /\ Len(<<>>) = 0
    BY LenProperties, EmptySeq
  <1> QED
    BY <1>2, <1>3

\* What is appended is last.
LEMMA AppendFacts ==
  ASSUME NEW S, NEW s \in Seq(S), NEW x \in S
  PROVE  Append(s, x) \in Seq(S) /\ Append(s, x) # <<>> /\ Last(Append(s, x)) = x
  BY AppendProperties DEF Last

\* The loop over the arguments ends at most one past the end, after an empty
\* last argument; a scheduler that was given is among the new arguments.
LoopInv == /\ pc = "boot" => i = 1
           /\ Len(given) <= MaxArgs
           /\ pc = "args" => i <= Len(given) + 2
           /\ scheduler => args # <<>>
           /\ pc = "run" => command.env \in Seq(Images)

StartInv == TypeOK /\ LoopInv

\* The process starts with nothing.
LEMMA InitStart == Init => StartInv
  <1> SUFFICES ASSUME Init PROVE StartInv
    OBVIOUS
  <1>1. <<>> \in Seq(Words) /\ <<>> \in Seq(Passed) /\ <<>> \in Seq(Images) /\ Len(<<>>) = 0
    BY EmptySeq
  <1>2. 1 \in 1..(MaxArgs + 2) /\ 0 <= MaxArgs
    BY BoundsAssumption
  <1> QED
    BY <1>1, <1>2 DEF Init, StartInv, TypeOK, LoopInv, Passed

\* A process that ends starts with nothing again.
LEMMA ExitStart == StartInv /\ Exit => StartInv'
  <1> SUFFICES ASSUME StartInv, Exit PROVE StartInv'
    OBVIOUS
  <1>1. <<>> \in Seq(Words) /\ <<>> \in Seq(Passed) /\ <<>> \in Seq(Images) /\ Len(<<>>) = 0
    BY EmptySeq
  <1>2. 1 \in 1..(MaxArgs + 2) /\ 0 <= MaxArgs
    BY BoundsAssumption
  <1> QED
    BY <1>1, <1>2 DEF Exit, StartInv, TypeOK, LoopInv, Passed

\* Every step of main()'s loop over its arguments keeps them typed.
LEMMA LoopStep ==
  ASSUME StartInv, SkipEmpty \/ SetSwitch \/ TakeValue \/ TakeScheduler \/ PassOn
  PROVE  StartInv'
  <1> USE DEF config, StepTo
  <1>1. /\ pc = "args" /\ given \in Seq(Words) /\ args \in Seq(Passed)
        /\ i \in Nat /\ i >= 1 /\ i <= Len(given) /\ Len(given) \in Nat
        /\ Len(given) <= MaxArgs /\ MaxArgs \in Nat
        /\ given[i] \in Words
    <2>1. pc = "args" /\ i <= Len(given)
      BY DEF SkipEmpty, SetSwitch, TakeValue, TakeScheduler, PassOn, At
    <2>2. /\ given \in Seq(Words) /\ args \in Seq(Passed) /\ i \in 1..(MaxArgs + 2)
          /\ Len(given) <= MaxArgs
      BY DEF StartInv, TypeOK, LoopInv, Passed
    <2>3. MaxArgs \in Nat /\ Len(given) \in Nat
      BY <2>2, BoundsAssumption, LenProperties
    <2>4. i \in Nat /\ i >= 1
      BY <2>2, <2>3
    <2> QED
      BY <2>1, <2>2, <2>3, <2>4, ElementOfSeq
  <1>2. /\ i' \in {i + 1, i + 2} /\ pc' = "args" /\ given' = given
        /\ UNCHANGED <<config, command, installed>>
    BY <1>1 DEF SkipEmpty, SetSwitch, TakeValue, TakeScheduler, PassOn
  <1>3. i' \in 1..(MaxArgs + 2) /\ i' <= Len(given') + 2
    BY <1>1, <1>2
  <1>4. args' \in Seq(Passed) /\ (scheduler' => args' # <<>>)
    <2>1. CASE SkipEmpty \/ SetSwitch \/ TakeValue
      <3>1. args' = args /\ scheduler' = scheduler
        BY <2>1 DEF SkipEmpty, SetSwitch, TakeValue
      <3>2. args \in Seq(Passed) /\ (scheduler => args # <<>>)
        BY <1>1 DEF StartInv, LoopInv
      <3> QED
        BY <3>1, <3>2
    <2>2. CASE TakeScheduler
      BY <1>1, <2>2, SchedulerFacts DEF TakeScheduler
    <2>3. CASE PassOn
      <3>1. given[i] \in Passed
        BY <2>3 DEF PassOn, At, Passed
      <3> QED
        BY <1>1, <2>3, <3>1, AppendFacts DEF PassOn
    <2> QED
      BY <2>1, <2>2, <2>3
  <1>5. scheduler' \in BOOLEAN /\ opts' \subseteq Switches
    BY DEF SkipEmpty, SetSwitch, TakeValue, TakeScheduler, PassOn, At, StartInv, TypeOK
  <1> QED
    BY <1>1, <1>2, <1>3, <1>4, <1>5 DEF StartInv, TypeOK, LoopInv, Passed

\* Every step preserves the types.
LEMMA StartStep == StartInv /\ [Next]_vars => StartInv'
  <1> SUFFICES ASSUME StartInv, [Next]_vars PROVE StartInv'
    OBVIOUS
  <1> USE DEF startup, config
  <1>0. /\ given \in Seq(Words) /\ i \in 1..(MaxArgs + 2) /\ args \in Seq(Passed)
        /\ env \in Seq(Images) /\ installed.env \in Seq(Images)
    BY DEF StartInv, TypeOK, Passed
  <1>1. CASE Boot
    <2>1. given' \in Seq(Words) /\ Len(given') \in Nat /\ Len(given') <= MaxArgs
      BY <1>1, GivenFacts DEF Boot
    <2> QED
      BY <1>1, <2>1 DEF Boot, StartInv, TypeOK, LoopInv
  <1>2. CASE SkipEmpty \/ SetSwitch \/ TakeValue \/ TakeScheduler \/ PassOn
    BY <1>2, LoopStep
  <1>3. CASE BadArgs \/ Crash
    BY <1>3, ExitStart DEF BadArgs, Crash
  <1>4. CASE EndArgs
    <2>1. args' \in Seq(Passed) /\ args' # <<>>
      BY <1>0, <1>4, SchedulerFacts DEF EndArgs, EndWith, StartInv, LoopInv
    <2> QED
      BY <1>4, <2>1 DEF EndArgs, EndWith, StartInv, TypeOK, LoopInv, Passed
  <1>5. CASE Validate
    BY <1>5 DEF Validate, StartInv, TypeOK, LoopInv
  <1>6. CASE doInstall
    <2>1. container' \in Containers /\ env' = container'.env
      BY <1>6 DEF doInstall
    <2>2. env' \in {<<>>} \union {<<v>> : v \in Images}
      BY <2>1 DEF Containers
    <2>3. \A v \in Images : <<v>> \in Seq(Images)
      OBVIOUS
    <2>4. <<>> \in Seq(Images)
      BY EmptySeq
    <2>5. env' \in Seq(Images)
      BY <2>2, <2>3, <2>4
    <2> QED
      BY <1>6, <2>1, <2>5 DEF doInstall, StartInv, TypeOK, LoopInv
  <1>7. CASE Compare
    <2>1. pulled' \in [id : Images, known : BOOLEAN]
      BY <1>7 DEF Compare, CompareWith
    <2>2. env' \in Seq(Images)
      BY <1>0, <1>7, <2>1, AppendFacts DEF Compare, CompareWith
    <2> QED
      BY <1>7, <2>2 DEF Compare, CompareWith, StartInv, TypeOK, LoopInv
  <1>8. CASE Compose
    BY <1>0, <1>8 DEF Compose, StartInv, TypeOK, LoopInv
  <1>9. CASE RunExternal
    <2>1. installed'.env = command.env /\ <<>> \in Seq(Images)
      BY <1>9, EmptySeq DEF RunExternal
    <2> QED
      BY <1>9, <2>1 DEF RunExternal, Done, StartInv, TypeOK, LoopInv
  <1>10. CASE InstallFails
    <2>1. <<>> \in Seq(Images)
      BY EmptySeq
    <2> QED
      BY <1>10, <2>1 DEF InstallFails, Done, StartInv, TypeOK, LoopInv
  <1>11. CASE UNCHANGED vars
    BY <1>11 DEF vars, StartInv, TypeOK, LoopInv
  <1> QED
    BY <1>1, <1>2, <1>3, <1>4, <1>5, <1>6, <1>7, <1>8, <1>9, <1>10, <1>11 DEF Next

\* The variables of PxRuncArgs always have their types; in particular the
\* first argument of px-runc exists, which doInstall looks at without a test.
THEOREM TypeCorrect == Spec => []TypeOK
  <1>1. StartInv => TypeOK
    BY DEF StartInv
  <1> QED
    BY <1>1, InitStart, StartStep, PTL DEF Spec

-----------------------------------------------------------------------------
\* One more word of a later position is in order after the others.
LEMMA ExtendOrder ==
  ASSUME NEW S, NEW s \in Seq(S), NEW x \in S, NEW g, NEW ns \in SUBSET Nat,
         NEW n \in Nat \ ns, \A m \in ns : m < n, g[n] = x, InOrder(s, g, ns)
  PROVE  InOrder(Append(s, x), g, ns \union {n})
  <1> DEFINE t == Append(s, x)
             L == Len(s) + 1
  <1>1. /\ Len(s) \in Nat /\ DOMAIN s = 1..Len(s) /\ DOMAIN t = 1..L
        /\ \A k \in DOMAIN s : t[k] = s[k]
        /\ t[L] = x
    BY LenProperties, AppendProperties
  <1>2. PICK at \in [DOMAIN s -> ns] :
           /\ \A k, l \in DOMAIN s : k < l => at[k] < at[l]
           /\ \A m \in ns : \E k \in DOMAIN s : at[k] = m
           /\ \A k \in DOMAIN s : s[k] = g[at[k]]
    BY DEF InOrder
  <1> DEFINE to == [k \in DOMAIN t |-> IF k = L THEN n ELSE at[k]]
  <1>3. \A k \in DOMAIN t : k = L \/ (k \in DOMAIN s /\ k < L)
    BY <1>1
  <1>4. DOMAIN s \subseteq DOMAIN t /\ L \in DOMAIN t /\ L \notin DOMAIN s
    BY <1>1
  <1> HIDE DEF t, L
  <1>5. to \in [DOMAIN t -> ns \union {n}]
    BY <1>2, <1>3
  <1>6. to[L] = n /\ \A k \in DOMAIN s : to[k] = at[k] /\ at[k] \in ns
    BY <1>2, <1>4
  <1>7. DOMAIN t \subseteq Nat /\ L \in Nat
    BY <1>1 DEF L
  <1> HIDE DEF to
  <1>8. ASSUME NEW k \in DOMAIN t, NEW l \in DOMAIN t, k < l
        PROVE  to[k] < to[l]
    <2>1. k \in DOMAIN s
      BY <1>3, <1>7, <1>8
    <2>2. CASE l = L
      BY <1>6, <2>1, <2>2
    <2>3. CASE l \in DOMAIN s
      BY <1>2, <1>6, <1>8, <2>1, <2>3
    <2> QED
      BY <1>3, <2>2, <2>3
  <1>9. \A m \in ns \union {n} : \E k \in DOMAIN t : to[k] = m
    BY <1>2, <1>4, <1>6
  <1>10. \A k \in DOMAIN t : t[k] = g[to[k]]
    BY <1>1, <1>2, <1>3, <1>6
  <1> QED
    BY <1>5, <1>8, <1>9, <1>10 DEF InOrder, t

\* No words are in order at no positions.
LEMMA EmptyOrder ==
  ASSUME NEW g
  PROVE  InOrder(<<>>, g, {})
  <1>1. <<>> \in [DOMAIN <<>> -> {}] /\ DOMAIN <<>> = {}
    OBVIOUS
  <1> QED
    BY <1>1 DEF InOrder

\* The scheduler's arguments are two words more.
LEMMA SchedulerTwice ==
  ASSUME NEW s \in Seq(Passed)
  PROVE  /\ s \o kubernetesArgs = Append(Append(s, "-x"), "kubernetes")
         /\ SubSeq(s \o kubernetesArgs, 1, Len(s \o kubernetesArgs) - 2) = s
  <1> DEFINE x == "-x"
             k == "kubernetes"
             t == s \o <<x, k>>
  <1>1. x \in Passed /\ k \in Passed
    BY DEF Passed
  <1> HIDE DEF x, k
  <1>2. Len(s) \in Nat
    BY LenProperties
  <1>3. t = Append(Append(s, x), k)
    BY <1>1
  <1>4. Len(t) = Len(s) + 2 /\ SubSeq(t, 1, Len(s)) = s
    BY <1>1
  <1>5. SubSeq(t, 1, Len(t) - 2) = s
    BY <1>2, <1>4
  <1> QED
    BY <1>3, <1>5 DEF kubernetesArgs, x, k

\* The positions the loop has come past whose words are passed on, and those
\* at which a switch is set.
Before(n)   == {m \in DOMAIN given : m < n /\ Kept(m)}
SwitchAt(n) == {m \in DOMAIN given : m < n /\ ~IsValue(m) /\ given[m] \in Switches}

\* The loop has done what the arguments before i ask for, and is never at the
\* value of one of them.
PassedOn ==
    /\ i <= Len(given) => ~IsValue(i)
    /\ InOrder(args, given, Before(i))
    /\ scheduler = \E n \in Before(i) : given[n] = "-x"
    /\ opts = {given[n] : n \in SwitchAt(i)}

\* What main() has made of the arguments when the loop is over.
ArgsKept ==
    pc \notin {"boot", "args"} /\ Usual =>
       LET kept == {n \in DOMAIN given : Kept(n)}
           own  == SubSeq(args, 1, Len(args) - 2)
       IN /\ IF \E n \in kept : given[n] = "-x"
             THEN InOrder(args, given, kept)
             ELSE args = own \o kubernetesArgs /\ InOrder(own, given, kept)
          /\ opts = {given[n] : n \in {m \in DOMAIN given :
                                         ~IsValue(m) /\ given[m] \in Switches}}

ArgsInv == /\ StartInv /\ ArgsKept
           /\ pc = "run" => command.args = Handed(args)
           /\ pc = "boot" => args = <<>> /\ scheduler = FALSE /\ opts = {}
           /\ pc = "args" /\ Usual => PassedOn

\* Which positions these are when the loop comes past one more.
LEMMA PositionStep ==
  ASSUME given \in Seq(Words), NEW n \in 1..Len(given)
  PROVE  /\ Before(n + 1) = Before(n) \union (IF Kept(n) THEN {n} ELSE {})
         /\ SwitchAt(n + 1) = SwitchAt(n) \union
               (IF ~IsValue(n) /\ given[n] \in Switches THEN {n} ELSE {})
         /\ Before(n) \in SUBSET Nat /\ n \in Nat \ Before(n)
         /\ \A m \in Before(n) : m < n
  <1>1. DOMAIN given = 1..Len(given) /\ Len(given) \in Nat
    BY LenProperties
  <1>2. \A m \in DOMAIN given : m \in Nat /\ (m < n + 1 <=> m < n \/ m = n)
    BY <1>1
  <1> QED
    BY <1>1, <1>2 DEF Before, SwitchAt

\* They depend on the arguments and on where the loop is.
LEMMA PositionPrime ==
  ASSUME given' = given
  PROVE  /\ Before(i)' = Before(i') /\ SwitchAt(i)' = SwitchAt(i')
         /\ (IsValue(i)') = IsValue(i') /\ (Usual') = Usual
  BY DEF Before, SwitchAt, Kept, IsValue, Usual

\* The loop passes on what it should.
LEMMA PassedStep ==
  ASSUME ArgsInv, Usual, SkipEmpty \/ SetSwitch \/ TakeValue \/ TakeScheduler \/ PassOn
  PROVE  PassedOn'
  <1> USE DEF StepTo
  <1> DEFINE s == "-x"
             k == "kubernetes"
  <1>1. /\ pc = "args" /\ given' = given /\ given \in Seq(Words) /\ args \in Seq(Passed)
        /\ i \in 1..Len(given) /\ Len(given) \in Nat /\ DOMAIN given = 1..Len(given)
        /\ PassedOn
    <2>1. /\ pc = "args" /\ given' = given /\ i <= Len(given)
      BY DEF SkipEmpty, SetSwitch, TakeValue, TakeScheduler, PassOn, At
    <2>2. given \in Seq(Words) /\ args \in Seq(Passed) /\ i \in 1..(MaxArgs + 2) /\ PassedOn
      BY <2>1 DEF ArgsInv, StartInv, TypeOK, Passed
    <2>3. i \in Nat /\ i >= 1
      BY <2>2, BoundsAssumption
    <2> QED
      BY <2>1, <2>2, <2>3, LenProperties
  <1>2. /\ ~IsValue(i) /\ given[i] # ""
        /\ i + 1 \in DOMAIN given /\ IsValue(i + 1) => given[i + 1] \notin Special
    <2>1. i <= Len(given) /\ i \in DOMAIN given
      BY <1>1
    <2>2. ~IsValue(i)
      BY <1>1, <2>1 DEF PassedOn
    <2>3. \A n \in DOMAIN given : given[n] # "" /\ (IsValue(n) => given[n] \notin Special)
      BY DEF Usual
    <2> QED
      BY <2>1, <2>2, <2>3
  <1>3. \A n \in Nat : n >= 1 => (IsValue(n + 1) <=> given[n] \in Valued \union {s})
    BY DEF IsValue
  <1>4. CASE SkipEmpty
    BY <1>2, <1>4 DEF SkipEmpty, At
  <1>5. CASE SetSwitch
    <2>1. /\ i' = i + 1 /\ given[i] \in Switches
          /\ args' = args /\ scheduler' = scheduler /\ opts' = opts \union {given[i]}
      BY <1>5 DEF SetSwitch, At
    <2>2. ~IsValue(i + 1)
      <3>1. given[i] \notin Valued \union {s}
        BY <2>1 DEF Switches, Valued
      <3> QED
        BY <1>1, <1>3, <3>1
    <2>3. ~Kept(i)
      BY <1>2, <2>1 DEF Kept, Special, Switches
    <2>4. Before(i') = Before(i) /\ SwitchAt(i') = SwitchAt(i) \union {i}
      BY <1>1, <1>2, <2>1, <2>3, PositionStep
    <2> QED
      BY <1>1, <2>1, <2>2, <2>4, PositionPrime DEF PassedOn
  <1>6. CASE PassOn
    <2>1. /\ i' = i + 1 /\ given[i] \in Words \ Special
          /\ args' = Append(args, given[i]) /\ scheduler' = scheduler /\ opts' = opts
      BY <1>6 DEF PassOn, At
    <2>2. ~IsValue(i + 1) /\ Kept(i) /\ given[i] \notin Switches /\ given[i] # s
      <3>1. given[i] \notin Valued \union {s} \union Switches
        BY <2>1 DEF Special
      <3>2. ~IsValue(i + 1)
        BY <1>1, <1>3, <3>1
      <3> QED
        BY <1>2, <2>1, <3>1, <3>2 DEF Kept
    <2>3. Before(i') = Before(i) \union {i} /\ SwitchAt(i') = SwitchAt(i)
      BY <1>1, <1>2, <2>1, <2>2, PositionStep
    <2>4. InOrder(args', given, Before(i'))
      <3>1. given[i] \in Passed
        BY <2>1 DEF Passed
      <3>2. InOrder(args, given, Before(i)) /\ i \in 1..Len(given)
        BY <1>1 DEF PassedOn
      <3>3. /\ Before(i) \in SUBSET Nat /\ i \in Nat \ Before(i)
            /\ \A m \in Before(i) : m < i
        BY <1>1, PositionStep
      <3>4. InOrder(Append(args, given[i]), given, Before(i) \union {i})
        BY <1>1, <3>1, <3>2, <3>3, ExtendOrder
      <3> QED
        BY <2>1, <2>3, <3>4
    <2> QED
      BY <1>1, <2>1, <2>2, <2>3, <2>4, PositionPrime DEF PassedOn
  <1>7. ASSUME i < Len(given), given[i] \in Valued \union {s}
        PROVE  /\ i + 1 \in 1..Len(given) /\ (i + 1) + 1 = i + 2
               /\ IsValue(i + 1) /\ ~IsValue(i + 2) /\ (Kept(i + 1) <=> given[i] = s)
    <2>1. /\ i + 1 \in 1..Len(given) /\ (i + 1) + 1 = i + 2 /\ i + 1 \in Nat
          /\ i + 1 >= 1 /\ i \in Nat /\ i >= 1 /\ (i + 1) - 1 = i /\ (i + 2) - 1 = i + 1
      BY <1>1, <1>7
    <2>2. IsValue(i + 1)
      BY <1>3, <1>7, <2>1
    <2>3. given[i + 1] \notin Valued \union {s}
      BY <1>1, <1>2, <2>1, <2>2 DEF Special
    <2>4. ~IsValue(i + 2)
      BY <2>1, <2>3 DEF IsValue
    <2> QED
      BY <2>1, <2>2, <2>4 DEF Kept
  <1>8. CASE TakeValue
    <2>1. /\ i' = i + 2 /\ given[i] \in Valued /\ i < Len(given)
          /\ args' = args /\ scheduler' = scheduler /\ opts' = opts
      BY <1>8 DEF TakeValue, At, HasValue
    <2>2. given[i] \notin Switches /\ given[i] # s /\ ~Kept(i)
      BY <1>2, <2>1 DEF Kept, Special, Valued, Switches
    <2>3. Before(i') = Before(i) /\ SwitchAt(i') = SwitchAt(i)
      BY <1>1, <1>7, <2>1, <2>2, PositionStep
    <2> QED
      BY <1>1, <1>7, <2>1, <2>3, PositionPrime DEF PassedOn
  <1>9. CASE TakeScheduler
    <2>1. /\ i' = i + 2 /\ given[i] = s /\ i < Len(given) /\ given[i + 1] = k
          /\ args' = args \o kubernetesArgs /\ scheduler' = TRUE /\ opts' = opts
      BY <1>9 DEF TakeScheduler, At, HasValue
    <2>2. given[i] \notin Switches /\ Kept(i)
      BY <1>2, <2>1 DEF Kept, Special, Valued, Switches
    <2>3. /\ Before(i + 1) = Before(i) \union {i}
          /\ Before(i') = Before(i + 1) \union {i + 1} /\ SwitchAt(i') = SwitchAt(i)
      BY <1>1, <1>7, <2>1, <2>2, PositionStep
    <2>4. InOrder(args', given, Before(i'))
      <3>1. s \in Passed /\ k \in Passed /\ args' = Append(Append(args, s), k)
        BY <1>1, <2>1, SchedulerTwice DEF Passed
      <3> HIDE DEF s, k
      <3>2. Append(args, s) \in Seq(Passed)
        BY <1>1, <3>1
      <3>3. InOrder(Append(args, s), given, Before(i + 1))
        <4>1. /\ InOrder(args, given, Before(i)) /\ Before(i) \in SUBSET Nat
              /\ i \in Nat \ Before(i) /\ \A m \in Before(i) : m < i
          BY <1>1, PositionStep DEF PassedOn
        <4>2. InOrder(Append(args, s), given, Before(i) \union {i})
          BY <1>1, <2>1, <3>1, <4>1, ExtendOrder
        <4> QED
          BY <2>3, <4>2
      <3>4. InOrder(Append(Append(args, s), k), given, Before(i + 1) \union {i + 1})
        BY <1>1, <1>7, <2>1, <3>1, <3>2, <3>3, PositionStep, ExtendOrder
      <3> QED
        BY <2>3, <3>1, <3>4
    <2>5. \E n \in Before(i') : given[n] = s
      BY <2>1, <2>3
    <2> QED
      BY <1>1, <1>7, <2>1, <2>3, <2>4, <2>5, PositionPrime DEF PassedOn
  <1> QED
    BY <1>4, <1>5, <1>6, <1>8, <1>9

\* At the end of the loop every argument has been passed.
LEMMA EndStep == ArgsInv /\ EndArgs => ArgsKept'
  <1> SUFFICES ASSUME ArgsInv, EndArgs, Usual' PROVE ArgsKept'
    BY DEF ArgsKept
  <1> DEFINE kept == {n \in DOMAIN given : Kept(n)}
             own  == SubSeq(args', 1, Len(args') - 2)
  <1>1. /\ pc = "args" /\ given' = given /\ opts' = opts /\ i > Len(given)
        /\ args' = (IF scheduler THEN args ELSE args \o kubernetesArgs)
    BY DEF EndArgs, EndWith
  <1>2. PassedOn /\ args \in Seq(Passed) /\ given \in Seq(Words) /\ i \in Nat
    <2>1. Usual
      BY <1>1, PositionPrime
    <2>2. args \in Seq(Passed) /\ given \in Seq(Words) /\ i \in 1..(MaxArgs + 2)
      BY DEF ArgsInv, StartInv, TypeOK, Passed
    <2>3. PassedOn
      BY <1>1, <2>1 DEF ArgsInv
    <2> QED
      BY <2>2, <2>3, BoundsAssumption
  <1>3. \A m \in DOMAIN given : m < i
    BY <1>1, <1>2, LenProperties
  <1>4. Before(i) = kept
    BY <1>3 DEF Before
  <1>5. SwitchAt(i) = {m \in DOMAIN given : ~IsValue(m) /\ given[m] \in Switches}
    BY <1>3 DEF SwitchAt
  <1>6. IF \E n \in kept : given[n] = "-x"
        THEN InOrder(args', given, kept)
        ELSE args' = own \o kubernetesArgs /\ InOrder(own, given, kept)
    <2>1. CASE scheduler
      BY <1>1, <1>2, <1>4, <2>1 DEF PassedOn
    <2>2. CASE ~scheduler
      <3>1. args' = args \o kubernetesArgs /\ own = args
        BY <1>1, <1>2, <2>2, SchedulerTwice
      <3> HIDE DEF own
      <3> QED
        BY <1>2, <1>4, <2>2, <3>1 DEF PassedOn
    <2> QED
      BY <2>1, <2>2
  <1>7. opts' = {given[n] : n \in {m \in DOMAIN given :
                                     ~IsValue(m) /\ given[m] \in Switches}}
    BY <1>1, <1>2, <1>5 DEF PassedOn
  <1> QED
    BY <1>1, <1>6, <1>7 DEF ArgsKept, Kept, IsValue

\* Every step preserves it.
LEMMA ArgsStep == ArgsInv /\ [Next]_vars => ArgsInv'
  <1> SUFFICES ASSUME ArgsInv, [Next]_vars PROVE ArgsInv'
    OBVIOUS
  <1> USE DEF startup
  <1>0. StartInv'
    BY StartStep DEF ArgsInv
  <1>1. CASE Boot
    <2>1. /\ i = 1 /\ args = <<>> /\ scheduler = FALSE /\ opts = {}
          /\ UNCHANGED <<i, args, scheduler, opts>> /\ pc' = "args" /\ given' \in Seq(Words)
      BY <1>0, <1>1 DEF Boot, ArgsInv, StartInv, LoopInv, TypeOK
    <2>2. /\ (Before(i)') = {} /\ (SwitchAt(i)') = {} /\ ~(IsValue(i)')
      <3>1. \A m \in DOMAIN given' : ~(m < 1)
        BY <2>1, LenProperties
      <3> QED
        BY <2>1, <3>1 DEF Before, SwitchAt, IsValue
    <2>3. InOrder(<<>>, given', {})
      BY EmptyOrder
    <2> QED
      <3>1. PassedOn'
        BY <2>1, <2>2, <2>3 DEF PassedOn
      <3> QED
        BY <1>0, <2>1, <3>1 DEF ArgsInv, ArgsKept
  <1>2. CASE SkipEmpty \/ SetSwitch \/ TakeValue \/ TakeScheduler \/ PassOn
    <2>1. pc' = "args" /\ given' = given
      BY <1>2 DEF SkipEmpty, SetSwitch, TakeValue, TakeScheduler, PassOn, At, StepTo
    <2> QED
      <3>1. ASSUME Usual' PROVE PassedOn'
        <4>1. Usual
          BY <2>1, <3>1, PositionPrime
        <4> QED
          BY <1>2, <4>1, PassedStep
      <3> QED
        BY <1>0, <2>1, <3>1 DEF ArgsInv, ArgsKept
  <1>3. CASE BadArgs \/ Crash
    BY <1>0, <1>3 DEF BadArgs, Crash, Exit, ArgsInv, ArgsKept
  <1>4. CASE EndArgs
    BY <1>0, <1>4, EndStep DEF EndArgs, EndWith, ArgsInv
  <1>5. CASE Validate \/ doInstall \/ Compare \/ Compose \/ RunExternal \/ InstallFails
    <2>1. /\ UNCHANGED <<given, i, args, scheduler, opts>>
          /\ pc \notin {"boot", "args"} /\ pc' \notin {"boot", "args"}
      BY <1>5 DEF Validate, doInstall, Compare, CompareWith, Compose, RunExternal,
                  InstallFails, Done
    <2>2. ArgsKept'
      BY <2>1 DEF ArgsInv, ArgsKept, Usual, Kept, IsValue
    <2>3. pc' = "run" => command'.args = Handed(args')
      BY <1>5, <2>1 DEF Validate, doInstall, Compare, CompareWith, Compose, RunExternal,
                        InstallFails, Done
    <2> QED
      BY <1>0, <2>1, <2>2, <2>3 DEF ArgsInv
  <1>6. CASE UNCHANGED vars
    <2>1. UNCHANGED <<pc, given, i, args, scheduler, opts, command>>
      BY <1>6 DEF vars
    <2>2. ArgsKept'
      BY <2>1 DEF ArgsInv, ArgsKept, Usual, Kept, IsValue
    <2>3. pc' = "args" /\ Usual' => PassedOn'
      BY <2>1, PositionPrime DEF ArgsInv, PassedOn
    <2> QED
      BY <1>0, <2>1, <2>2, <2>3 DEF ArgsInv
  <1> QED
    BY <1>1, <1>2, <1>3, <1>4, <1>5, <1>6 DEF Next

\* Without its first word a sequence in order is in order at the positions
\* that are left, and the word was at the first of them.
LEMMA TailOrder ==
  ASSUME NEW S, NEW s \in Seq(S), s # <<>>, NEW g, NEW ns \in SUBSET Nat,
         InOrder(s, g, ns)
  PROVE  \E n \in ns : /\ FirstOf(n, ns) /\ g[n] = Head(s)
                       /\ InOrder(Tail(s), g, ns \ {n})
  <1> DEFINE t == Tail(s)
  <1>1. /\ Len(s) \in Nat /\ Len(s) >= 1 /\ DOMAIN s = 1..Len(s)
        /\ DOMAIN t = 1..(Len(s) - 1) /\ Head(s) = s[1]
        /\ \A k \in DOMAIN t : t[k] = s[k + 1]
    BY LenProperties, EmptySeq, HeadTailProperties
  <1>2. PICK at \in [DOMAIN s -> ns] :
           /\ \A k, l \in DOMAIN s : k < l => at[k] < at[l]
           /\ \A m \in ns : \E k \in DOMAIN s : at[k] = m
           /\ \A k \in DOMAIN s : s[k] = g[at[k]]
    BY DEF InOrder
  <1> HIDE DEF t
  <1>3. 1 \in DOMAIN s /\ at[1] \in ns /\ g[at[1]] = Head(s)
    BY <1>1, <1>2
  <1>4. ASSUME NEW k \in DOMAIN s, k # 1
        PROVE  at[1] < at[k] /\ at[k] # at[1]
    <2>1. k \in Nat /\ 1 < k
      BY <1>1, <1>4
    <2>2. at[1] < at[k] /\ at[1] \in Nat /\ at[k] \in Nat
      BY <1>2, <1>3, <2>1
    <2> QED
      BY <2>2
  <1>5. ASSUME NEW m \in ns PROVE at[1] <= m
    <2>1. PICK k \in DOMAIN s : at[k] = m
      BY <1>2
    <2>2. at[1] \in Nat /\ m \in Nat
      BY <1>3
    <2>3. CASE k = 1
      BY <2>1, <2>2, <2>3
    <2>4. CASE k # 1
      BY <1>4, <2>1, <2>2, <2>4
    <2> QED
      BY <2>3, <2>4
  <1> DEFINE to == [k \in DOMAIN t |-> at[k + 1]]
  <1>6. \A k \in DOMAIN t : k + 1 \in DOMAIN s /\ k + 1 # 1 /\ k \in Nat
    BY <1>1
  <1>7. to \in [DOMAIN t -> ns \ {at[1]}]
    BY <1>2, <1>4, <1>6
  <1>8. \A k, l \in DOMAIN t : k < l => to[k] < to[l]
    BY <1>2, <1>6
  <1>9. ASSUME NEW m \in ns \ {at[1]} PROVE \E k \in DOMAIN t : to[k] = m
    <2>1. PICK l \in DOMAIN s : at[l] = m
      BY <1>2
    <2>2. l - 1 \in DOMAIN t /\ (l - 1) + 1 = l
      BY <1>1, <2>1
    <2> QED
      BY <2>1, <2>2
  <1>10. \A k \in DOMAIN t : t[k] = g[to[k]]
    BY <1>1, <1>2, <1>6
  <1> HIDE DEF to
  <1>11. InOrder(t, g, ns \ {at[1]})
    BY <1>7, <1>8, <1>9, <1>10 DEF InOrder
  <1> QED
    BY <1>3, <1>5, <1>11 DEF t, FirstOf

\* Of the positions kept, those that are handed to px-runc.
HandedAt(g, ns) == {n \in ns : ~(FirstOf(n, ns) /\ g[n] \in InstallWords)}

\* What is handed on is in order at those positions.
LEMMA HandedOrder ==
  ASSUME NEW S, NEW s \in Seq(S), s # <<>>, NEW g, NEW ns \in SUBSET Nat,
         InOrder(s, g, ns)
  PROVE  InOrder(Handed(s), g, HandedAt(g, ns))
  <1>1. PICK n \in ns : /\ FirstOf(n, ns) /\ g[n] = Head(s)
                        /\ InOrder(Tail(s), g, ns \ {n})
    BY TailOrder
  <1>2. \A m \in ns : FirstOf(m, ns) <=> m = n
    <2>1. ASSUME NEW m \in ns, FirstOf(m, ns) PROVE m = n
      BY <1>1, <2>1 DEF FirstOf
    <2> QED
      BY <1>1, <2>1
  <1>3. HandedAt(g, ns) = IF Head(s) \in InstallWords THEN ns \ {n} ELSE ns
    BY <1>1, <1>2 DEF HandedAt
  <1> QED
    BY <1>1, <1>3 DEF Handed

\* The scheduler's arguments are not what is dropped.
LEMMA HandedScheduler ==
  ASSUME NEW s \in Seq(Passed), NEW g, NEW ns \in SUBSET Nat, InOrder(s, g, ns)
  PROVE  \E h \in Seq(Passed) : /\ Handed(s \o kubernetesArgs) = h \o kubernetesArgs
                                /\ InOrder(h, g, HandedAt(g, ns))
  <1> DEFINE k == kubernetesArgs
  <1>1. k \in Seq(Passed) /\ k # <<>> /\ Head(k) = "-x" /\ Len(k) = 2
    <2> DEFINE x == "-x"
               y == "kubernetes"
    <2>1. x \in Passed /\ y \in Passed
      BY DEF Passed
    <2> HIDE DEF x, y
    <2>2. <<x, y>> \in Seq(Passed) /\ <<x, y>> # <<>> /\ Head(<<x, y>>) = x
          /\ Len(<<x, y>>) = 2
      BY <2>1
    <2> QED
      BY <2>2 DEF kubernetesArgs, x, y
  <1> HIDE DEF k
  <1>2. CASE s = <<>>
    <2>1. s \o k = k
      BY <1>1, <1>2
    <2>2. Handed(k) = k
      BY <1>1, WordsAssumption DEF Handed
    <2>3. DOMAIN s = {}
      BY <1>2
    <2>4. ns = {}
      BY <2>3 DEF InOrder
    <2>5. HandedAt(g, ns) = ns
      BY <2>4 DEF HandedAt
    <2> QED
      BY <2>1, <2>2, <2>5 DEF k
  <1>3. CASE s # <<>>
    <2>1. /\ Head(s \o k) = Head(s) /\ Tail(s \o k) = Tail(s) \o k
          /\ Tail(s) \in Seq(Passed)
      BY <1>1, <1>3
    <2>2. Handed(s \o k) = Handed(s) \o k /\ Handed(s) \in Seq(Passed)
      BY <2>1 DEF Handed
    <2>3. InOrder(Handed(s), g, HandedAt(g, ns))
      BY <1>3, HandedOrder
    <2> QED
      BY <2>2, <2>3 DEF k
  <1> QED
    BY <1>2, <1>3

\* What main() has kept is handed to px-runc.
LEMMA ArgsHanded == ArgsInv => ArgsPassed
  <1> SUFFICES ASSUME ArgsInv, pc = "run", Usual PROVE ArgsPassed
    BY DEF ArgsPassed
  <1> DEFINE kept   == {n \in DOMAIN given : Kept(n)}
             handed == {n \in kept : ~(FirstOf(n, kept) /\ given[n] \in InstallWords)}
             words  == command.args
             mine   == SubSeq(words, 1, Len(words) - 2)
             own    == SubSeq(args, 1, Len(args) - 2)
             set    == {given[n] : n \in {m \in DOMAIN given :
                                           ~IsValue(m) /\ given[m] \in Switches}}
  <1>1. /\ words = Handed(args) /\ args \in Seq(Passed) /\ args # <<>>
        /\ given \in Seq(Words)
    BY DEF ArgsInv, StartInv, TypeOK, Passed
  <1>2. /\ IF \E n \in kept : given[n] = "-x"
           THEN InOrder(args, given, kept)
           ELSE args = own \o kubernetesArgs /\ InOrder(own, given, kept)
        /\ opts = set
    BY DEF ArgsInv, ArgsKept
  <1>3. kept \in SUBSET Nat
    BY <1>1, LenProperties
  <1>4. handed = HandedAt(given, kept)
    BY DEF HandedAt
  <1>5. (\E n \in handed : given[n] = "-x") <=> \E n \in kept : given[n] = "-x"
    BY WordsAssumption
  <1>6. own \in Seq(Passed)
    <2>1. Len(args) \in Nat /\ Len(args) >= 1 /\ DOMAIN args = 1..Len(args)
      BY <1>1, LenProperties, EmptySeq
    <2>2. \A n \in 1..(Len(args) - 2) : args[n] \in Passed
      BY <1>1, <2>1, ElementOfSeq
    <2> QED
      BY <2>1, <2>2, SubSeqProperties
  <1> HIDE DEF kept, handed, own
  <1>7. IF \E n \in handed : given[n] = "-x"
        THEN InOrder(words, given, handed)
        ELSE words = mine \o kubernetesArgs /\ InOrder(mine, given, handed)
    <2>1. CASE \E n \in kept : given[n] = "-x"
      BY <1>1, <1>2, <1>3, <1>4, <1>5, <2>1, HandedOrder
    <2>2. CASE ~ \E n \in kept : given[n] = "-x"
      <3>1. args = own \o kubernetesArgs /\ InOrder(own, given, kept)
        BY <1>2, <2>2
      <3>2. PICK h \in Seq(Passed) : /\ words = h \o kubernetesArgs
                                     /\ InOrder(h, given, handed)
        BY <1>1, <1>3, <1>4, <1>6, <3>1, HandedScheduler
      <3>3. mine = h
        BY <3>2, SchedulerTwice
      <3> HIDE DEF mine
      <3> QED
        BY <1>5, <2>2, <3>2, <3>3
    <2> QED
      BY <2>1, <2>2
  <1> QED
    BY <1>2, <1>7 DEF ArgsPassed, kept, handed

\* px-runc is handed the arguments that are not px-oci-mon's own, all of them
\* once and in their order, but not a first one that ends in "install", and the
\* scheduler; the switches are those given.
THEOREM ArgsCorrect == Spec => []ArgsPassed
  <1>1. Init => ArgsInv
    BY InitStart DEF Init, ArgsInv, ArgsKept
  <1> QED
    BY <1>1, ArgsHanded, ArgsStep, PTL DEF Spec

-----------------------------------------------------------------------------
\* A known ID is the last that was written.
LastIs(e, image) == image.known => e # <<>> /\ Last(e) = image.id

\* The ID that is compared is the one that was appended, also once it is
\* written to config.json.
Recorded == /\ LastIs(installed.env, installed)
            /\ pc = "compose" => LastIs(env, pulled)
            /\ pc = "run" => LastIs(command.env, pulled)
            /\ pc \in {"compose", "run"} /\ pulled.known /\ installed.known =>
                  needInstall = (installed.id # pulled.id)

RecordInv == StartInv /\ Recorded

\* Every step keeps what is recorded.
LEMMA RecordStep == RecordInv /\ [Next]_vars => RecordInv'
  <1> SUFFICES ASSUME RecordInv, [Next]_vars PROVE RecordInv'
    OBVIOUS
  <1>0. StartInv'
    BY StartStep DEF RecordInv
  <1> SUFFICES Recorded'
    BY <1>0 DEF RecordInv
  <1> USE DEF startup, config, Recorded, LastIs
  <1>1. CASE Boot \/ SkipEmpty \/ SetSwitch \/ TakeValue \/ TakeScheduler \/ PassOn
             \/ EndArgs \/ Validate
    <2>1. UNCHANGED installed /\ pc' \notin {"compose", "run"}
      BY <1>1 DEF Boot, SkipEmpty, SetSwitch, TakeValue, TakeScheduler, PassOn, EndArgs,
                  EndWith, Validate, StepTo, At
    <2> QED
      BY <2>1 DEF RecordInv
  <1>2. CASE BadArgs \/ Crash \/ InstallFails
    <2>1. UNCHANGED installed /\ pc' \notin {"compose", "run"}
      BY <1>2 DEF BadArgs, Crash, Exit, InstallFails, Done
    <2> QED
      BY <2>1 DEF RecordInv
  <1>3. CASE doInstall
    BY <1>3 DEF doInstall, RecordInv
  <1>4. CASE Compare
    <2>1. /\ pulled' \in [id : Images, known : BOOLEAN] /\ pc' = "compose"
          /\ env' = IF pulled'.known THEN Append(env, pulled'.id) ELSE env
          /\ needInstall' = ~(pulled'.known /\ installed.env # <<>>
                              /\ Last(installed.env) = pulled'.id)
          /\ UNCHANGED installed
      BY <1>4 DEF Compare, CompareWith
    <2>2. env \in Seq(Images)
      BY DEF RecordInv, StartInv, TypeOK
    <2>3. pulled'.known => env' # <<>> /\ Last(env') = pulled'.id
      BY <2>1, <2>2, AppendFacts
    <2> QED
      BY <2>1, <2>3 DEF RecordInv
  <1>5. CASE Compose
    BY <1>5 DEF Compose, RecordInv
  <1>6. CASE RunExternal
    <2>1. /\ pc = "run" /\ pc' = "idle"
          /\ installed'.env = command.env
          /\ installed'.id = IF needInstall THEN pulled.id ELSE installed.id
          /\ installed'.known = (pulled.known /\ (needInstall \/ installed.known))
      BY <1>6 DEF RunExternal, Done
    <2> QED
      BY <2>1 DEF RecordInv
  <1>7. CASE UNCHANGED vars
    BY <1>7 DEF vars, RecordInv
  <1> QED
    BY <1>1, <1>2, <1>3, <1>4, <1>5, <1>6, <1>7 DEF Next

\* What px-runc records is recognised by every later doInstall: files are
\* replaced exactly when the pulled image is another one.
THEOREM RecognisedCorrect == Spec => []Recognised
  <1>1. Init => RecordInv
    <2>0. [env |-> <<>>, id |-> "", known |-> FALSE].known = FALSE
      OBVIOUS
    <2>1. Init => ~installed.known /\ pc = "boot"
      BY <2>0, Zenon DEF Init
    <2>2. Init => Recorded
      BY <2>1 DEF Recorded, LastIs
    <2> QED
      BY <2>2, InitStart DEF RecordInv
  <1>2. RecordInv => Recognised
    BY DEF RecordInv, Recorded, Recognised
  <1> QED
    BY <1>1, <1>2, RecordStep, PTL DEF Spec

-----------------------------------------------------------------------------
\* The mounts PX is given for a container.
Volumes(c) == {v \in formatMounts(c) : v \notin ociPrivateMounts /\ v.src # Socket}

\* What is written for a container: its mounts, and files of Docker that no
\* mount replaces.
LEMMA FormattedFacts ==
  ASSUME NEW c, NEW v \in formatMounts(c)
  PROVE  \/ \E m \in c.mounts : v = Written(m, {"private", "rprivate"})
         \/ /\ v.src = "docker" /\ v = [src |-> "docker", dst |-> v.dst, opts |-> {"ro"}]
            /\ v.dst \in c.extras /\ \A m \in c.mounts : m.dst # v.dst
  BY DEF formatMounts, Formatted

\* Of a container's mounts and files each destination has one.
LEMMA VolumeFacts ==
  ASSUME NEW c \in Containers
  PROVE  /\ \A m \in c.mounts :
               Plain(m.src, m.dst) \in ociPrivateMounts /\ m.rw /\ m.prop = "rprivate"
               => \A v \in Volumes(c) : v.dst # m.dst
         /\ \A x \in c.extras :
               LET own == {m \in c.mounts : m.dst = x}
               IN IF own = {} THEN \E v \in Volumes(c) :
                                      /\ {w \in Volumes(c) : w.dst = x} = {v}
                                      /\ v.src = "docker"
                  ELSE \A v \in Volumes(c) :
                          v.dst = x => \E m \in own : v.src = m.src
  <1> DEFINE Default == {"private", "rprivate"}
  <1>0. \A m1, m2 \in c.mounts : m1.dst = m2.dst => m1 = m2
    BY DEF Containers, MountSets
  <1>1. ASSUME NEW m \in c.mounts, Plain(m.src, m.dst) \in ociPrivateMounts,
               m.rw, m.prop = "rprivate", NEW v \in Volumes(c), v.dst = m.dst
        PROVE  FALSE
    <2>1. v \in formatMounts(c) /\ v \notin ociPrivateMounts
      BY <1>1 DEF Volumes
    <2>2. PICK n \in c.mounts : v = Written(n, Default)
      BY <1>1, <2>1, FormattedFacts
    <2>3. v.dst = n.dst
      BY <2>2 DEF Written
    <2>4. v = Written(m, Default)
      BY <1>0, <1>1, <2>2, <2>3
    <2>5. {m.prop} \ Default = {}
      BY <1>1
    <2>6. v = Plain(m.src, m.dst)
      BY <1>1, <2>4, <2>5 DEF Written, Plain
    <2> QED
      BY <1>1, <2>1, <2>6
  <1>2. ASSUME NEW x \in c.extras, \A m \in c.mounts : m.dst # x
        PROVE  \E v \in Volumes(c) : /\ {w \in Volumes(c) : w.dst = x} = {v}
                                     /\ v.src = "docker"
    <2> DEFINE d == [src |-> "docker", dst |-> x, opts |-> {"ro"}]
    <2>1. d \in formatMounts(c)
      BY <1>2 DEF formatMounts, Formatted
    <2>2. d.src = "docker" /\ d.dst = x /\ d.src # Socket
      BY DEF Socket
    <2>3. \A w \in ociPrivateMounts : w.opts = {}
      BY DEF ociPrivateMounts, Plain
    <2>4. d \in Volumes(c)
      BY <2>1, <2>2, <2>3 DEF Volumes
    <2>5. ASSUME NEW w \in Volumes(c), w.dst = x PROVE w = d
      <3>1. w \in formatMounts(c)
        BY DEF Volumes
      <3>2. ~ \E m \in c.mounts : w = Written(m, Default)
        BY <1>2, <2>5 DEF Written
      <3> QED
        BY <2>5, <3>1, <3>2, FormattedFacts
    <2> HIDE DEF d
    <2>6. {w \in Volumes(c) : w.dst = x} = {d}
      BY <2>2, <2>4, <2>5
    <2> QED
      BY <2>2, <2>4, <2>6
  <1>3. ASSUME NEW x \in c.extras, NEW n \in c.mounts, n.dst = x,
               NEW v \in Volumes(c), v.dst = x
        PROVE  \E m \in c.mounts : m.dst = x /\ v.src = m.src
    <2>1. v \in formatMounts(c)
      BY DEF Volumes
    <2>2. PICK m \in c.mounts : v = Written(m, Default)
      BY <1>3, <2>1, FormattedFacts
    <2>3. v.dst = m.dst /\ v.src = m.src
      BY <2>2 DEF Written
    <2> QED
      BY <1>3, <2>3
  <1>4. ASSUME NEW x \in c.extras
        PROVE  LET own == {m \in c.mounts : m.dst = x}
               IN IF own = {} THEN \E v \in Volumes(c) :
                                      /\ {w \in Volumes(c) : w.dst = x} = {v}
                                      /\ v.src = "docker"
                  ELSE \A v \in Volumes(c) :
                          v.dst = x => \E m \in own : v.src = m.src
    <2> DEFINE own == {m \in c.mounts : m.dst = x}
    <2>1. CASE own = {}
      BY <1>2, <2>1
    <2>2. CASE own # {}
      BY <1>3, <2>2
    <2> QED
      BY <2>1, <2>2
  <1> QED
    BY <1>1, <1>4

\* What px-runc is run with was made of the container's mounts.
Composed == pc = "run" => command.vols = Volumes(container)

MountInv == StartInv /\ Composed

\* Every step keeps the mounts of the command those of the container.
LEMMA MountStep == MountInv /\ [Next]_vars => MountInv'
  <1> SUFFICES ASSUME MountInv, [Next]_vars PROVE MountInv'
    OBVIOUS
  <1>0. StartInv'
    BY StartStep DEF MountInv
  <1> SUFFICES Composed'
    BY <1>0 DEF MountInv
  <1>1. CASE Compose
    BY <1>1 DEF Compose, Composed, Volumes, config
  <1>2. CASE UNCHANGED vars
    BY <1>2 DEF vars, config, MountInv, Composed
  <1>3. CASE ~Compose /\ Next
    <2>1. pc' # "run"
      BY <1>3 DEF Next, Boot, SkipEmpty, SetSwitch, TakeValue, TakeScheduler, PassOn, BadArgs,
                  EndArgs, EndWith, Validate, StepTo, At, doInstall, Compare, CompareWith,
                  RunExternal, InstallFails, Done, Crash, Exit
    <2> QED
      BY <2>1 DEF Composed
  <1> QED
    BY <1>1, <1>2, <1>3

\* PX does not get the directories px-oci-mon has for itself, nor Docker's
\* socket, and one /etc/hosts and one resolv.conf, the pod's own if there is
\* one.
THEOREM MountsCorrect == Spec => []MountsPassed
  <1>1. Init => MountInv
    BY InitStart DEF Init, MountInv, Composed
  <1>2. MountInv => MountsPassed
    <2> SUFFICES ASSUME MountInv, pc = "run" PROVE MountsPassed
      BY DEF MountsPassed
    <2>1. command.vols = Volumes(container)
      BY DEF MountInv, Composed
    <2>2. container \in Containers
      <3>1. CASE container = NoContainer
        BY <3>1 DEF NoContainer, Containers
      <3> QED
        BY <3>1 DEF MountInv, StartInv, TypeOK
    <2>3. \A v \in command.vols : v.src # Socket
      BY <2>1 DEF Volumes
    <2> QED
      BY <2>1, <2>2, <2>3, VolumeFacts DEF MountsPassed, Among
  <1> QED
    BY <1>1, <1>2, MountStep, PTL DEF Spec
=============================================================================

----------------------------- MODULE PartsProofs -----------------------------
(***************************************************************************)
(* Theorems about the parts that MCParts runs, for any number of writers,  *)
(* processes, tabs, rooms and messages: the limiter, config.json,          *)
(* identity.key, the tabs, Claude Code's files, the hook's text and the    *)
(* search for the claude process.                                          *)
(***************************************************************************)
EXTENDS MCParts, Lists, FiniteSetTheorems, SequenceTheorems, WellFoundedInduction, TLAPS

\* Only the part that was picked takes steps, and they are its own.
LEMMA StepsOfConfig ==
    ASSUME [PartsNext]_<<part, vars, installVars, configVars, identityVars, tabsVars,
                         walkVars, hookVars>>
    PROVE  /\ part' = part
           /\ (part = "config" /\ C!Next) \/ UNCHANGED configVars
BY DEF PartsNext, installVars, configVars, identityVars, tabsVars, walkVars, hookVars

LEMMA StepsOfIdentity ==
    ASSUME [PartsNext]_<<part, vars, installVars, configVars, identityVars, tabsVars,
                         walkVars, hookVars>>
    PROVE  /\ part' = part
           /\ (part = "identity" /\ K!Next) \/ UNCHANGED identityVars
BY DEF PartsNext, installVars, configVars, identityVars, tabsVars, walkVars, hookVars

LEMMA StepsOfTabs ==
    ASSUME [PartsNext]_<<part, vars, installVars, configVars, identityVars, tabsVars,
                         walkVars, hookVars>>
    PROVE  /\ part' = part
           /\ (part = "tabs" /\ T!Next) \/ UNCHANGED tabsVars
BY DEF PartsNext, installVars, configVars, identityVars, tabsVars, walkVars, hookVars

LEMMA StepsOfInstall ==
    ASSUME [PartsNext]_<<part, vars, installVars, configVars, identityVars, tabsVars,
                         walkVars, hookVars>>
    PROVE  /\ part' = part
           /\ (part = "install" /\ I!Next) \/ UNCHANGED installVars
BY DEF PartsNext, installVars, configVars, identityVars, tabsVars, walkVars, hookVars

LEMMA StepsOfWalk ==
    ASSUME [PartsNext]_<<part, vars, installVars, configVars, identityVars, tabsVars,
                         walkVars, hookVars>>
    PROVE  /\ part' = part
           /\ (part = "walk" /\ W!Next) \/ UNCHANGED walkVars
BY DEF PartsNext, installVars, configVars, identityVars, tabsVars, walkVars, hookVars

LEMMA StepsOfHook ==
    ASSUME [PartsNext]_<<part, vars, installVars, configVars, identityVars, tabsVars,
                         walkVars, hookVars>>
    PROVE  /\ part' = part
           /\ (part = "hook" /\ H!Next) \/ UNCHANGED hookVars
BY DEF PartsNext, installVars, configVars, identityVars, tabsVars, walkVars, hookVars

-----------------------------------------------------------------------------
\* Lists

\* A set of numbers that has 0, and with n - 1 has n, has them all up to m.
LEMMA UpTo ==
    ASSUME NEW m \in Nat, NEW P, 0 \in P, \A n \in 1..m : n - 1 \in P => n \in P
    PROVE  0..m \subseteq P
<1> DEFINE Left == (0..m) \ P
           Less == OpToRel(<, Nat)
<1> SUFFICES ASSUME Left # {} PROVE FALSE
  OBVIOUS
<1>1. Left \subseteq Nat
  OBVIOUS
<1>2. \E n \in Left : \A k \in Left : ~ (<<k, n>> \in Less)
  <2>1. IsWellFoundedOn(Less, Nat)
    BY NatLessThanWellFounded
  <2> HIDE DEF Left, Less
  <2> QED BY <1>1, <2>1, WFMin
<1>3. PICK n \in Left : \A k \in Left : ~ (<<k, n>> \in Less)
  BY <1>2
<1>4. n \in 1..m /\ n - 1 \in 0..m /\ n - 1 \in Nat /\ n \in Nat /\ n - 1 < n
  <2>1. n \in 0..m /\ n # 0
    BY <1>3
  <2> HIDE DEF Left, Less
  <2> QED BY <2>1
<1>5. <<n - 1, n>> \in Less
  BY <1>4 DEF OpToRel
<1>6. n - 1 \in P
  BY <1>3, <1>4, <1>5
<1> QED BY <1>3, <1>4, <1>6

\* Vec::retain: the list that is kept of the first n elements, from those of fewer.
KeptNext(s, Good, f, n) ==
    IF n = 0 THEN <<>>
    ELSE IF s[n] \in Good THEN Append(f[n - 1], s[n]) ELSE f[n - 1]

KeptOf(s, Good, f) == f = [n \in 0..Len(s) |-> KeptNext(s, Good, f, n)]

LEMMA KeepIs == ASSUME NEW s, NEW Good PROVE Keep(s, Good) = (CHOOSE f : KeptOf(s, Good, f))[Len(s)]
BY DEF Keep, KeptOf, KeptNext

LEMMA KeptExists ==
    ASSUME NEW S, NEW s \in Seq(S), NEW Good
    PROVE  \E f : KeptOf(s, Good, f)
<1> DEFINE Kept(m, f) == \A n \in 0..m : f[n] = KeptNext(s, Good, f, n)
           P == {m \in Nat : \E f \in [0..m -> Seq(S)] : Kept(m, f)}
<1>1. 0 \in P
  <2> DEFINE g == [n \in 0..0 |-> <<>>]
  <2>1. g \in [0..0 -> Seq(S)] /\ Kept(0, g)
    BY DEF KeptNext
  <2> HIDE DEF g
  <2> QED BY <2>1
<1>2. ASSUME NEW m \in 1..Len(s), m - 1 \in P PROVE m \in P
  <2>1. PICK f \in [0..(m - 1) -> Seq(S)] : Kept(m - 1, f)
    BY <1>2
  <2>2. m - 1 \in 0..(m - 1) /\ m \in Nat /\ s[m] \in S
    BY ElementOfSeq, LenProperties
  <2>3. PICK t \in Seq(S) : t = KeptNext(s, Good, f, m)
    <3>1. f[m - 1] \in Seq(S)
      BY <2>1, <2>2
    <3>2. Append(f[m - 1], s[m]) \in Seq(S)
      BY <2>2, <3>1, AppendProperties
    <3>3. m # 0
      OBVIOUS
    <3>4. KeptNext(s, Good, f, m) \in Seq(S)
      BY <3>1, <3>2, <3>3 DEF KeptNext
    <3> QED BY <3>4
  <2> DEFINE g == [n \in 0..m |-> IF n = m THEN t ELSE f[n]]
  <2>4. g \in [0..m -> Seq(S)]
    <3>1. \A n \in 0..m : n # m => n \in 0..(m - 1)
      BY <2>2
    <3> QED BY <3>1
  <2>5. ASSUME NEW n \in 0..m PROVE g[n] = KeptNext(s, Good, g, n)
    <3>1. n = m \/ n \in 0..(m - 1)
      BY <2>2
    <3>2. n # 0 => n - 1 \in 0..(m - 1) /\ g[n - 1] = f[n - 1]
      BY <2>2
    <3>3. g[n] = KeptNext(s, Good, f, n)
      BY <2>1, <2>2, <2>3, <3>1
    <3> HIDE DEF g
    <3> QED BY <3>2, <3>3 DEF KeptNext
  <2> HIDE DEF g
  <2> QED BY <2>2, <2>4, <2>5
<1>3. Len(s) \in Nat
  BY LenProperties
<1>4. Len(s) \in P
  <2> HIDE DEF P
  <2>1. 0..Len(s) \subseteq P
    BY <1>1, <1>2, <1>3, UpTo
  <2> QED BY <1>3, <2>1
<1>5. PICK f \in [0..Len(s) -> Seq(S)] : Kept(Len(s), f)
  BY <1>4
<1>6. KeptOf(s, Good, f)
  <2>1. f = [n \in 0..Len(s) |-> f[n]]
    OBVIOUS
  <2> QED BY <1>5, <2>1 DEF KeptOf
<1> QED BY <1>6

\* What Vec::retain leaves.
LEMMA KeepFacts ==
    ASSUME NEW S, NEW s \in Seq(S), NEW Good
    PROVE  /\ Keep(s, Good) \in Seq(S)
           /\ \A x : x \in {Keep(s, Good)[i] : i \in DOMAIN Keep(s, Good)} <=>
                        x \in Good /\ x \in {s[i] : i \in DOMAIN s}
<1> DEFINE f == CHOOSE f : KeptOf(s, Good, f)
<1>1. KeptOf(s, Good, f)
  BY KeptExists
<1>2. Keep(s, Good) = f[Len(s)]
  BY KeepIs
<1> HIDE DEF f
<1>3. Len(s) \in Nat /\ DOMAIN s = 1..Len(s) /\ \A i \in 1..Len(s) : s[i] \in S
  BY LenProperties, ElementOfSeq
<1>4. \A n \in 0..Len(s) : f[n] = KeptNext(s, Good, f, n)
  BY <1>1 DEF KeptOf
<1> DEFINE Right(n) == /\ f[n] \in Seq(S)
                       /\ \A x : (\E i \in 1..Len(f[n]) : x = f[n][i]) <=> x \in Good /\ \E i \in 1..n : x = s[i]
           P == {n \in Nat : Right(n)}
<1>5. 0 \in P
  <2>1. f[0] = <<>>
    BY <1>3, <1>4 DEF KeptNext
  <2>2. <<>> \in Seq(S) /\ Len(<<>>) = 0
    BY EmptySeq
  <2>3. Right(0)
    BY <2>1, <2>2
  <2> QED BY <2>3
<1>6. ASSUME NEW m \in 1..Len(s), m - 1 \in P PROVE m \in P
  <2>1. m \in Nat /\ s[m] \in S /\ m \in 0..Len(s) /\ m # 0 /\ \A i : i \in 1..m <=> i \in 1..(m - 1) \/ i = m
    BY <1>3
  <2>2. PICK t \in Seq(S) : t = f[m - 1]
    BY <1>6
  <2>3. \A x : (\E i \in 1..Len(t) : x = t[i]) <=> x \in Good /\ \E i \in 1..(m - 1) : x = s[i]
    BY <1>6, <2>2
  <2>4. CASE s[m] \in Good
    <3>1. f[m] = Append(t, s[m])
      BY <1>4, <2>1, <2>2, <2>4 DEF KeptNext
    <3>2. PICK u \in Seq(S) : u = Append(t, s[m])
      <4>1. Append(t, s[m]) \in Seq(S)
        BY <2>1, AppendProperties
      <4> QED BY <4>1
    <3>3. /\ Len(t) \in Nat /\ Len(u) = Len(t) + 1 /\ u[Len(t) + 1] = s[m]
          /\ \A i \in 1..Len(t) : u[i] = t[i]
      BY <2>1, <3>2
    <3>4. 1..Len(u) = (1..Len(t)) \union {Len(t) + 1}
      BY <3>3
    <3>5. \A x : (\E i \in 1..Len(u) : x = u[i]) <=> (\E i \in 1..Len(t) : x = t[i]) \/ x = s[m]
      BY <3>3, <3>4
    <3>6. \A x : (\E i \in 1..m : x = s[i]) <=> (\E i \in 1..(m - 1) : x = s[i]) \/ x = s[m]
      BY <2>1
    <3>7. \A x : (\E i \in 1..Len(u) : x = u[i]) <=> x \in Good /\ \E i \in 1..m : x = s[i]
      <4> TAKE x
      <4>1. CASE x = s[m]
        BY <2>4, <3>5, <3>6, <4>1
      <4>2. CASE x # s[m]
        <5>1. (\E i \in 1..Len(u) : x = u[i]) <=> (\E i \in 1..Len(t) : x = t[i])
          BY <3>5, <4>2
        <5>2. (\E i \in 1..m : x = s[i]) <=> (\E i \in 1..(m - 1) : x = s[i])
          BY <3>6, <4>2
        <5> QED BY <2>3, <5>1, <5>2
      <4> QED BY <4>1, <4>2
    <3>8. Right(m)
      <4>1. f[m] = u
        BY <3>1, <3>2
      <4> QED BY <3>7, <4>1
    <3> QED BY <2>1, <3>8
  <2>5. CASE s[m] \notin Good
    <3>1. f[m] = t
      BY <1>4, <2>1, <2>2, <2>5 DEF KeptNext
    <3>2. \A x : (\E i \in 1..m : x = s[i]) <=> (\E i \in 1..(m - 1) : x = s[i]) \/ x = s[m]
      BY <2>1
    <3>3. Right(m)
      BY <2>3, <2>5, <3>1, <3>2
    <3> QED BY <2>1, <3>3
  <2> QED BY <2>4, <2>5
<1>7. Len(s) \in P
  <2> HIDE DEF P
  <2>1. 0..Len(s) \subseteq P
    BY <1>3, <1>5, <1>6, UpTo
  <2> QED BY <1>3, <2>1
<1>8. Right(Len(s))
  BY <1>7
<1>9. DOMAIN Keep(s, Good) = 1..Len(Keep(s, Good))
  BY <1>2, <1>8, LenProperties
<1> QED BY <1>2, <1>3, <1>8, <1>9

\* The sum of the first n numbers, from that of fewer.
SumNext(s, f, n) == IF n = 0 THEN 0 ELSE f[n - 1] + s[n]

TotalOf(s, f) == f = [n \in 0..Len(s) |-> SumNext(s, f, n)]

LEMMA SumIs == ASSUME NEW s PROVE SumOf(s) = (CHOOSE f : TotalOf(s, f))[Len(s)]
BY DEF SumOf, TotalOf, SumNext

LEMMA SumExists ==
    ASSUME NEW s \in Seq(Nat)
    PROVE  \E f : TotalOf(s, f) /\ f \in [0..Len(s) -> Nat]
<1> DEFINE Summed(m, f) == \A n \in 0..m : f[n] = SumNext(s, f, n)
           P == {m \in Nat : \E f \in [0..m -> Nat] : Summed(m, f)}
<1>1. 0 \in P
  <2> DEFINE g == [n \in 0..0 |-> 0]
  <2>1. g \in [0..0 -> Nat] /\ Summed(0, g)
    BY DEF SumNext
  <2> HIDE DEF g
  <2> QED BY <2>1
<1>2. ASSUME NEW m \in 1..Len(s), m - 1 \in P PROVE m \in P
  <2>1. PICK f \in [0..(m - 1) -> Nat] : Summed(m - 1, f)
    BY <1>2
  <2>2. m - 1 \in 0..(m - 1) /\ m \in Nat /\ s[m] \in Nat
    BY ElementOfSeq, LenProperties
  <2>3. PICK t \in Nat : t = SumNext(s, f, m)
    <3>1. f[m - 1] \in Nat
      BY <2>1, <2>2
    <3>2. SumNext(s, f, m) \in Nat
      BY <2>2, <3>1 DEF SumNext
    <3> QED BY <3>2
  <2> DEFINE g == [n \in 0..m |-> IF n = m THEN t ELSE f[n]]
  <2>4. g \in [0..m -> Nat]
    <3>1. \A n \in 0..m : n # m => n \in 0..(m - 1)
      BY <2>2
    <3> QED BY <3>1
  <2>5. ASSUME NEW n \in 0..m PROVE g[n] = SumNext(s, g, n)
    <3>1. n = m \/ n \in 0..(m - 1)
      BY <2>2
    <3>2. n # 0 => n - 1 \in 0..(m - 1) /\ g[n - 1] = f[n - 1]
      BY <2>2
    <3>3. g[n] = SumNext(s, f, n)
      BY <2>1, <2>2, <2>3, <3>1
    <3> HIDE DEF g
    <3> QED BY <3>2, <3>3 DEF SumNext
  <2> HIDE DEF g
  <2> QED BY <2>2, <2>4, <2>5
<1>3. Len(s) \in Nat
  BY LenProperties
<1>4. Len(s) \in P
  <2> HIDE DEF P
  <2>1. 0..Len(s) \subseteq P
    BY <1>1, <1>2, <1>3, UpTo
  <2> QED BY <1>3, <2>1
<1>5. PICK f \in [0..Len(s) -> Nat] : Summed(Len(s), f)
  BY <1>4
<1>6. TotalOf(s, f)
  <2>1. f = [n \in 0..Len(s) |-> f[n]]
    OBVIOUS
  <2> QED BY <1>5, <2>1 DEF TotalOf
<1> QED BY <1>5, <1>6

\* A sum of numbers is a number; of up to two elements it is what one thinks.
LEMMA SumFacts ==
    ASSUME NEW s \in Seq(Nat)
    PROVE  /\ SumOf(s) \in Nat
           /\ Len(s) = 0 => SumOf(s) = 0
           /\ Len(s) = 1 => SumOf(s) = s[1]
           /\ Len(s) = 2 => SumOf(s) = s[1] + s[2]
<1> DEFINE f == CHOOSE f : TotalOf(s, f)
<1>1. TotalOf(s, f)
  BY SumExists
<1>2. SumOf(s) = f[Len(s)]
  BY SumIs
<1> HIDE DEF f
<1>3. Len(s) \in Nat /\ DOMAIN s = 1..Len(s)
  BY LenProperties
<1>4. \A n \in 0..Len(s) : f[n] = SumNext(s, f, n)
  BY <1>1 DEF TotalOf
<1>5. f[0] = 0
  BY <1>3, <1>4 DEF SumNext
<1>6. \A n \in 1..Len(s) : s[n] \in Nat /\ f[n] = f[n - 1] + s[n]
  BY <1>3, <1>4, ElementOfSeq DEF SumNext
<1>7. SumOf(s) \in Nat
  <2> DEFINE P == {n \in Nat : f[n] \in Nat}
  <2>1. 0 \in P
    BY <1>5
  <2>2. ASSUME NEW m \in 1..Len(s), m - 1 \in P PROVE m \in P
    <3>1. s[m] \in Nat /\ f[m] = f[m - 1] + s[m] /\ m \in Nat /\ f[m - 1] \in Nat
      BY <1>3, <1>6, <2>2
    <3> QED BY <3>1
  <2> HIDE DEF P
  <2>3. 0..Len(s) \subseteq P
    BY <1>3, <2>1, <2>2, UpTo
  <2>4. Len(s) \in P
    BY <1>3, <2>3
  <2> QED BY <1>2, <2>4 DEF P
<1>8. Len(s) = 1 => SumOf(s) = s[1]
  <2> SUFFICES ASSUME Len(s) = 1 PROVE SumOf(s) = s[1]
    OBVIOUS
  <2>1. s[1] \in Nat /\ f[1] = f[0] + s[1]
    BY <1>6
  <2> QED BY <1>2, <1>5, <2>1
<1>9. Len(s) = 2 => SumOf(s) = s[1] + s[2]
  <2> SUFFICES ASSUME Len(s) = 2 PROVE SumOf(s) = s[1] + s[2]
    OBVIOUS
  <2>1. s[1] \in Nat /\ f[1] = f[0] + s[1] /\ f[2] = f[1] + s[2]
    BY <1>6
  <2> QED BY <1>2, <1>5, <2>1
<1> QED BY <1>2, <1>5, <1>7, <1>8, <1>9

-----------------------------------------------------------------------------
\* The limiter

\* What popping n entries leaves of a window.
LEMMA RestOf ==
    ASSUME NEW S, NEW w \in Seq(S), NEW n \in 0..Len(w)
    PROVE  /\ Rest(w, n) \in Seq(S)
           /\ Len(Rest(w, n)) = Len(w) - n
           /\ \A j \in 1..(Len(w) - n) : Rest(w, n)[j] = w[n + j]
BY DEF Rest

-----------------------------------------------------------------------------
\* Every variable keeps its type, and no window its cap exceeds (RateLimiter).
THEOREM LimiterTypes == Spec => []TypeOK
<1> USE ConstantsAssumption DEF Time
<1>1. Init => TypeOK
  BY DEF Init, TypeOK
<1>2. TypeOK /\ [Next]_vars => TypeOK'
  <2> SUFFICES ASSUME TypeOK, Next PROVE TypeOK'
    BY DEF TypeOK, vars
  <2>1. PICK a \in Author, now \in Time : check_and_record(a, now)
    BY DEF Next
  <2>2. PICK n \in 0..Len(by_author[a]) : Allow(a, now, n) \/ Drop(a, now, n)
    BY <2>1 DEF check_and_record
  <2> DEFINE w == Rest(by_author[a], n)
  <2>3. w \in Seq(Time) /\ Len(w) <= Len(by_author[a])
    BY RestOf DEF TypeOK
  <2> HIDE DEF w
  <2>4. clock' \in Time
    BY <2>1 DEF check_and_record
  <2>5. CASE Allow(a, now, n)
    <3>1. by_author' = [by_author EXCEPT ![a] = Append(w, now)] /\ ~Full(w)
      BY <2>5 DEF Allow, w
    <3>2. Append(w, now) \in Seq(Time) /\ Len(Append(w, now)) <= Max
      BY <3>1, <2>3 DEF Full
    <3>3. /\ by_author' \in [Author -> Seq(Time)]
          /\ \A b \in Author : Len(by_author'[b]) <= Max
      BY <3>1, <3>2 DEF TypeOK
    <3>4. kept' \in [Author -> Seq(Time)]
      <4>1. kept' = [kept EXCEPT ![a] = Append(kept[a], now)]
        BY <2>5 DEF Allow
      <4>2. Append(kept[a], now) \in Seq(Time)
        BY DEF TypeOK
      <4> QED BY <4>1, <4>2 DEF TypeOK
    <3>5. UNCHANGED <<last_warned, warned>>
      BY <2>5 DEF Allow
    <3> QED BY <2>4, <3>3, <3>4, <3>5 DEF TypeOK
  <2>6. CASE Drop(a, now, n)
    <3>1. by_author' = [by_author EXCEPT ![a] = w]
      BY <2>6 DEF Drop, w
    <3>2. /\ by_author' \in [Author -> Seq(Time)]
          /\ \A b \in Author : Len(by_author'[b]) <= Max
      <4>1. Len(w) <= Max
        BY <2>3 DEF TypeOK
      <4> QED BY <2>3, <3>1, <4>1 DEF TypeOK
    <3>3. /\ last_warned' \in [Author -> Time \union {Never}]
          /\ warned' \in [Author -> SUBSET Time]
          /\ kept' = kept
      <4>1. kept' = kept
        BY <2>6 DEF Drop
      <4>2. CASE Warn(a, now)
        <5>1. /\ last_warned' = [last_warned EXCEPT ![a] = now]
              /\ warned' = [warned EXCEPT ![a] = @ \union {now}]
          BY <2>6, <4>2 DEF Drop
        <5> QED BY <4>1, <5>1 DEF TypeOK
      <4>3. CASE ~Warn(a, now)
        <5>1. UNCHANGED <<last_warned, warned>>
          BY <2>6, <4>3 DEF Drop
        <5> QED BY <4>1, <5>1 DEF TypeOK
      <4> QED BY <4>2, <4>3
    <3> QED BY <2>4, <3>2, <3>3 DEF TypeOK
  <2> QED BY <2>2, <2>5, <2>6
<1> QED BY <1>1, <1>2, PTL DEF Spec

-----------------------------------------------------------------------------
\* How many allowed messages of a are no longer in its window.
Forgotten(a) == Len(kept[a]) - Len(by_author[a])

\* The window is the end of what was allowed, and the rest is too old to matter.
TailInv ==
    \A a \in Author :
        /\ Forgotten(a) \in Nat
        /\ \A j \in 1..Len(by_author[a]) : by_author[a][j] = kept[a][Forgotten(a) + j]
        /\ \A i \in 1..Forgotten(a) : Expired(kept[a][i], clock)

\* Times are allowed in order.
OrderInv ==
    \A a \in Author :
        /\ \A i \in DOMAIN kept[a] : kept[a][i] <= clock
        /\ \A i, j \in DOMAIN kept[a] : i <= j => kept[a][i] <= kept[a][j]

\* last_warned is the latest warning.
WarnInv ==
    \A a \in Author :
        /\ last_warned[a] = Never <=> warned[a] = {}
        /\ last_warned[a] # Never => last_warned[a] \in warned[a]
        /\ \A u \in warned[a] : u <= clock /\ u <= last_warned[a]

LimiterInv == TailInv /\ OrderInv /\ WarnInv /\ WindowCap

\* At a call at time now that pops n entries, what is left of the window of a are
\* exactly the messages allowed in the window that ends now.
LEMMA LeftInWindow ==
    ASSUME TypeOK, LimiterInv, NEW a \in Author, NEW now \in Time, now >= clock,
           NEW n \in 0..Len(by_author[a]), Pops(by_author[a], now, n)
    PROVE  /\ \A i \in 1..(Forgotten(a) + n) : Expired(kept[a][i], now)
           /\ \A i \in (Forgotten(a) + n + 1)..Len(kept[a]) : ~Expired(kept[a][i], now)
<1> DEFINE f == Forgotten(a)
           w == by_author[a]
           k == kept[a]
<1>1. /\ k \in Seq(Time) /\ w \in Seq(Time) /\ clock \in Time
      /\ f \in Nat /\ f = Len(k) - Len(w)
      /\ \A j \in 1..Len(w) : w[j] = k[f + j]
      /\ \A i \in 1..f : Expired(k[i], clock)
      /\ \A i, j \in 1..Len(k) : i <= j => k[i] <= k[j]
      /\ Len(k) \in Nat /\ Len(w) \in Nat
      /\ \A i \in 1..Len(k) : k[i] \in Time
  BY DEF TypeOK, LimiterInv, TailInv, OrderInv, Forgotten
<1> HIDE DEF f, w, k
<1>2. n \in 0..Len(w) /\ (\A i \in 1..n : Expired(w[i], now))
      /\ (n < Len(w) => ~Expired(w[n + 1], now))
  BY DEF Pops, w
<1> USE ConstantsAssumption DEF Time, Expired
\* The numbers among these facts.
<1>0. /\ f \in Nat /\ Len(k) \in Nat /\ Len(w) \in Nat /\ f = Len(k) - Len(w)
      /\ n \in Nat /\ n <= Len(w) /\ now \in Nat /\ clock \in Nat
  BY <1>1, <1>2
<1>3. ASSUME NEW i \in 1..(f + n) PROVE Expired(k[i], now)
  <2>1. CASE i <= f
    <3>1. i \in 1..f /\ i \in 1..Len(k)
      BY <1>0, <2>1
    <3>2. k[i] \in Time /\ Expired(k[i], clock)
      BY <1>1, <3>1
    <3> QED BY <1>0, <3>2
  <2>2. CASE i > f
    <3>1. i - f \in 1..n /\ i - f \in 1..Len(w)
      BY <1>0, <2>2
    <3>2. w[i - f] = k[f + (i - f)]
      BY <1>1, <3>1
    <3>3. f + (i - f) = i
      BY <1>0
    <3> QED BY <1>2, <3>1, <3>2, <3>3
  <2> QED BY <1>0, <2>1, <2>2
<1>4. ASSUME NEW i \in (f + n + 1)..Len(k) PROVE ~Expired(k[i], now)
  <2>1. n < Len(w) /\ n + 1 \in 1..Len(w)
    BY <1>0
  <2>2. ~Expired(k[f + n + 1], now)
    <3>1. w[n + 1] = k[f + (n + 1)] /\ f + (n + 1) = f + n + 1
      BY <1>1, <2>1
    <3> QED BY <1>2, <2>1, <3>1
  <2> DEFINE m == f + n + 1
  <2>3. m \in 1..Len(k) /\ i \in 1..Len(k) /\ m <= i
    BY <1>0, <2>1
  <2>4. k[m] \in Time /\ k[i] \in Time /\ k[m] <= k[i]
    <3> HIDE DEF m
    <3> QED BY <1>1, <2>3
  <2> QED BY <2>2, <2>4
<1> QED BY <1>3, <1>4 DEF f, k

\* The same, counted.
LEMMA CountInWindow ==
    ASSUME TypeOK, LimiterInv, NEW a \in Author, NEW now \in Time, now >= clock,
           NEW n \in 0..Len(by_author[a]), Pops(by_author[a], now, n)
    PROVE  Cardinality(Ideal!InWindow(a, now)) = Len(Rest(by_author[a], n))
<1> DEFINE f == Forgotten(a)
           l == Len(by_author[a])
           hi == Len(kept[a])
           lo == f + n + 1
<1>1. /\ f \in Nat /\ l \in Nat /\ hi \in Nat /\ f = hi - l
      /\ n \in Nat /\ n <= l
      /\ kept[a] \in Seq(Time) /\ by_author[a] \in Seq(Time)
  <2>1. f \in Nat /\ f = hi - l
    BY DEF LimiterInv, TailInv, Forgotten
  <2>2. kept[a] \in Seq(Time) /\ by_author[a] \in Seq(Time)
    BY DEF TypeOK
  <2>3. l \in Nat /\ hi \in Nat
    BY <2>2
  <2> HIDE DEF f, hi
  <2>4. n \in Nat /\ n <= l
    BY <2>3
  <2> QED BY <2>1, <2>2, <2>3, <2>4
<1>2. lo \in Nat /\ lo >= 1 /\ lo <= hi + 1 /\ lo - 1 = f + n /\ hi - lo + 1 = l - n
  <2> HIDE DEF f, hi, l
  <2> QED BY <1>1
<1>3. DOMAIN kept[a] = 1..hi
  BY <1>1
<1>4. \A i \in 1..hi : kept[a][i] \in Int
  BY <1>1, ConstantsAssumption DEF Time
<1>5. /\ \A i \in 1..(lo - 1) : Expired(kept[a][i], now)
      /\ \A i \in lo..hi : ~Expired(kept[a][i], now)
  BY LeftInWindow, <1>2
<1>6. Len(Rest(by_author[a], n)) = l - n
  BY <1>1, RestOf
<1> HIDE DEF lo, hi, f, l
<1>7. Ideal!InWindow(a, now) = lo..hi
  <2>1. \A i \in 1..hi : Expired(kept[a][i], now) <=> ~(now - kept[a][i] <= Window)
    BY <1>4, ConstantsAssumption DEF Expired, Time
  <2>2. \A i \in 1..hi : i \in lo..hi <=> now - kept[a][i] <= Window
    BY <1>1, <1>2, <1>5, <2>1
  <2>3. lo..hi \subseteq 1..hi
    BY <1>1, <1>2
  <2> QED BY <1>3, <2>2, <2>3 DEF Ideal!InWindow
<1>8. Cardinality(lo..hi) = hi - lo + 1
  <2>1. lo \in Int /\ hi \in Int
    BY <1>1, <1>2
  <2>2. Cardinality(lo..hi) = IF lo > hi THEN 0 ELSE hi - lo + 1
    BY <2>1, FS_Interval
  <2> QED BY <1>1, <1>2, <2>2
<1> QED BY <1>2, <1>6, <1>7, <1>8

LEMMA LimiterHeld == Spec => []LimiterInv
<1> USE ConstantsAssumption
<1>1. Init => LimiterInv
  BY DEF Init, LimiterInv, TailInv, OrderInv, WarnInv, WindowCap, Forgotten
<1>2. TypeOK /\ LimiterInv /\ [Next]_vars => LimiterInv'
  <2> SUFFICES ASSUME TypeOK, LimiterInv, Next PROVE LimiterInv'
    <3>1. LimiterInv /\ UNCHANGED vars => LimiterInv'
      <4> SUFFICES ASSUME UNCHANGED vars
                   PROVE  /\ TailInv' <=> TailInv
                          /\ OrderInv' <=> OrderInv
                          /\ WarnInv' <=> WarnInv
                          /\ WindowCap' <=> WindowCap
        BY DEF LimiterInv
      <4>1. TailInv' <=> TailInv
        BY DEF TailInv, Forgotten, vars
      <4>2. OrderInv' <=> OrderInv
        BY DEF OrderInv, vars
      <4>3. WarnInv' <=> WarnInv
        BY DEF WarnInv, vars
      <4>4. WindowCap' <=> WindowCap
        BY DEF WindowCap, vars
      <4> QED BY <4>1, <4>2, <4>3, <4>4
    <3> QED BY <3>1
  <2>1. PICK a \in Author, now \in Time : check_and_record(a, now)
    BY DEF Next
  <2>2. PICK n \in 0..Len(by_author[a]) :
            /\ Pops(by_author[a], now, n)
            /\ Allow(a, now, n) \/ Drop(a, now, n)
    BY <2>1 DEF check_and_record
  <2>3. now >= clock /\ clock' = now /\ now \in Int /\ clock \in Int
    BY <2>1 DEF check_and_record, TypeOK, Time
  <2> DEFINE w == Rest(by_author[a], n)
             f == Forgotten(a)
             k == kept[a]
             l == Len(by_author[a])
  <2>4. /\ \A i \in 1..(f + n) : Expired(k[i], now)
        /\ Len(w) = l - n
        /\ \A j \in 1..Len(w) : w[j] = k[f + n + j]
    <3>1. /\ \A j \in 1..(l - n) : w[j] = by_author[a][n + j]
          /\ Len(w) = l - n
      <4>1. by_author[a] \in Seq(Time) /\ n \in 0..Len(by_author[a])
        BY DEF TypeOK
      <4> QED BY ONLY <4>1, RestOf
    <3>2. \A j \in 1..(l - n) : by_author[a][n + j] = k[f + n + j]
      <4>1. /\ l \in Nat /\ f \in Nat
            /\ \A j \in 1..l : by_author[a][j] = kept[a][f + j]
        BY DEF TypeOK, LimiterInv, TailInv
      <4> SUFFICES ASSUME NEW j \in 1..(l - n) PROVE by_author[a][n + j] = kept[a][f + n + j]
        OBVIOUS
      <4>2. n + j \in 1..l /\ f + (n + j) = f + n + j
        <5> HIDE DEF f, l
        <5> QED BY <4>1
      <4> QED BY <4>1, <4>2
    <3> QED BY <2>2, <2>3, <3>1, <3>2, LeftInWindow
  <2>5. /\ k \in Seq(Time) /\ Len(k) \in Nat /\ l \in Nat /\ f \in Nat /\ f = Len(k) - l
        /\ \A i \in 1..Len(k) : k[i] \in Int /\ k[i] <= clock
        /\ w \in Seq(Time)
    <3>1. k \in Seq(Time) /\ by_author[a] \in Seq(Time)
      BY DEF TypeOK
    <3>2. Len(k) \in Nat /\ l \in Nat /\ w \in Seq(Time)
      BY <3>1, RestOf
    <3>3. f \in Nat /\ f = Len(k) - l
      BY DEF LimiterInv, TailInv, Forgotten
    <3>4. \A i \in 1..Len(k) : k[i] \in Int /\ k[i] <= clock
      BY <3>1 DEF LimiterInv, OrderInv, Time
    <3> QED BY <3>1, <3>2, <3>3, <3>4
  <2>6. \A b \in Author \ {a} :
            kept'[b] = kept[b] /\ by_author'[b] = by_author[b] /\ warned'[b] = warned[b]
            /\ last_warned'[b] = last_warned[b]
    BY <2>2 DEF Allow, Drop, TypeOK
  <2>7. /\ n \in Nat /\ n <= l /\ f + n \in Nat /\ f + n + Len(w) = Len(k)
        /\ Len(w) \in Nat /\ Len(k) \in Nat
    <3> HIDE DEF f, k, w
    <3>1. n \in Nat /\ n <= l
      BY <2>5
    <3>2. Len(w) \in Nat
      BY <2>5
    <3> HIDE DEF l
    <3>3. f \in Nat /\ l \in Nat /\ Len(k) \in Nat /\ f = Len(k) - l /\ Len(w) = l - n
      BY <2>4, <2>5
    <3> QED BY <3>1, <3>2, <3>3
  <2> DEFINE Suffix(b) == /\ Forgotten(b) \in Nat
                          /\ \A j \in 1..Len(by_author[b]) :
                                by_author[b][j] = kept[b][Forgotten(b) + j]
                          /\ \A i \in 1..Forgotten(b) : Expired(kept[b][i], clock)
             Order(b) == /\ \A i \in DOMAIN kept[b] : kept[b][i] <= clock
                         /\ \A i, j \in DOMAIN kept[b] : i <= j => kept[b][i] <= kept[b][j]
             Warned(b) == /\ last_warned[b] = Never <=> warned[b] = {}
                          /\ last_warned[b] # Never => last_warned[b] \in warned[b]
                          /\ \A u \in warned[b] : u <= clock /\ u <= last_warned[b]
             Cap(b) == \A i \in DOMAIN kept[b] :
                          i + Max <= Len(kept[b]) => kept[b][i + Max] - kept[b][i] > Window
  <2>8. \A b \in Author : Suffix(b) /\ Order(b) /\ Warned(b) /\ Cap(b)
    BY DEF LimiterInv, TailInv, OrderInv, WarnInv, WindowCap
  <2>9. ASSUME NEW b \in Author \ {a}
        PROVE  Suffix(b)' /\ Order(b)' /\ Warned(b)' /\ Cap(b)'
    <3>1. Forgotten(b)' = Forgotten(b)
      BY <2>6 DEF Forgotten
    <3>2. \A i \in DOMAIN kept[b] : kept[b][i] \in Int
      BY DEF TypeOK, Time
    <3>3. Forgotten(b) <= Len(kept[b]) /\ DOMAIN kept[b] = 1..Len(kept[b])
      BY DEF TypeOK, Forgotten
    <3>4. \A u \in warned[b] : u \in Int
      BY DEF TypeOK, Time
    <3>5. Suffix(b)'
      <4>1. \A i \in 1..Forgotten(b) : kept[b][i] \in Int
        BY <2>8, <3>2, <3>3
      <4>2. Suffix(b)
        BY <2>8
      <4>3. \A i \in 1..Forgotten(b) : Expired(kept[b][i], now)
        BY <2>3, <4>1, <4>2 DEF Expired
      <4> QED BY <2>3, <2>6, <3>1, <4>2, <4>3
    <3>6. Order(b)'
      BY <2>3, <2>6, <2>8, <3>2
    <3>7. Warned(b)'
      BY <2>3, <2>6, <2>8, <3>4
    <3> QED BY <2>6, <2>8, <3>5, <3>6, <3>7
  <2>10. ASSUME Allow(a, now, n)
         PROVE  Suffix(a)' /\ Order(a)' /\ Warned(a)' /\ Cap(a)'
    <3>1. /\ Len(w) < Max /\ by_author'[a] = Append(w, now) /\ kept'[a] = Append(k, now)
          /\ UNCHANGED <<last_warned, warned>>
      <4>1. /\ ~Full(w) /\ by_author' = [by_author EXCEPT ![a] = Append(w, now)]
            /\ kept' = [kept EXCEPT ![a] = Append(k, now)]
            /\ UNCHANGED <<last_warned, warned>>
        BY <2>10 DEF Allow
      <4>2. a \in DOMAIN by_author /\ a \in DOMAIN kept
        BY DEF TypeOK
      <4>3. Len(w) \in Nat /\ (Full(w) <=> Len(w) >= Max)
        BY <2>5 DEF Full
      <4> HIDE DEF f, k, w, l
      <4> QED BY <4>1, <4>2, <4>3
    <3>2. /\ DOMAIN kept'[a] = 1..(Len(k) + 1) /\ Len(kept'[a]) = Len(k) + 1
          /\ \A i \in 1..Len(k) : kept'[a][i] = k[i]
          /\ kept'[a][Len(k) + 1] = now
          /\ Len(by_author'[a]) = Len(w) + 1
          /\ \A i \in 1..Len(w) : by_author'[a][i] = w[i]
          /\ by_author'[a][Len(w) + 1] = now
      BY <2>5, <3>1
    <3>3. Len(w) \in Nat /\ Len(k) \in Nat /\ f + n \in Nat /\ f + n + Len(w) = Len(k)
      BY <2>7
    <3>4. Forgotten(a)' = f + n
      <4>1. Forgotten(a)' = (Len(k) + 1) - (Len(w) + 1)
        BY <3>2 DEF Forgotten
      <4> HIDE DEF f, k, w
      <4>2. (Len(k) + 1) - (Len(w) + 1) = f + n
        <5>1. /\ Len(k) \in Nat /\ Len(w) \in Nat /\ f + n \in Nat
              /\ f + n + Len(w) = Len(k)
          BY <3>3
        <5> QED BY <5>1
      <4> QED BY <4>1, <4>2
    <3>5. Suffix(a)'
      <4> HIDE DEF f, k, w, l
      <4>1. \A j \in 1..(Len(w) + 1) : by_author'[a][j] = kept'[a][f + n + j]
        <5> TAKE j \in 1..(Len(w) + 1)
        <5>1. CASE j \in 1..Len(w)
          <6>1. f + n + j \in 1..Len(k)
            BY <3>3, <5>1
          <6> QED BY <2>4, <3>2, <5>1, <6>1
        <5>2. CASE j = Len(w) + 1
          <6>1. f + n + j = Len(k) + 1
            BY <3>3, <5>2
          <6> QED BY <3>2, <5>2, <6>1
        <5> QED BY <3>3, <5>1, <5>2
      <4>2. \A i \in 1..(f + n) : Expired(kept'[a][i], now)
        <5>1. \A i \in 1..(f + n) : i \in 1..Len(k)
          BY <3>3
        <5> QED BY <2>4, <3>2, <5>1
      <4> QED BY <2>3, <2>7, <3>2, <3>4, <4>1, <4>2 DEF Expired
    <3>6. Order(a)'
      <4>1. \A i, j \in 1..Len(k) : i <= j => k[i] <= k[j]
        <5>1. Order(a) /\ DOMAIN k = 1..Len(k)
          BY <2>5, <2>8
        <5> QED BY <5>1
      <4> HIDE DEF k, w, f, l
      <4>2. \A i \in 1..(Len(k) + 1) : i \in 1..Len(k) \/ i = Len(k) + 1
        BY <2>5
      <4>3. \A i \in DOMAIN kept'[a] : kept'[a][i] <= now
        <5> TAKE i \in DOMAIN kept'[a]
        <5>1. CASE i \in 1..Len(k)
          <6>1. kept'[a][i] = k[i] /\ k[i] \in Int /\ k[i] <= clock
            BY <2>5, <3>2, <5>1
          <6> QED BY <2>3, <6>1
        <5>2. CASE i = Len(k) + 1
          BY <2>3, <3>2, <5>2
        <5> QED BY <3>2, <4>2, <5>1, <5>2
      <4>4. ASSUME NEW i \in DOMAIN kept'[a], NEW j \in DOMAIN kept'[a], i <= j
            PROVE  kept'[a][i] <= kept'[a][j]
        <5>1. CASE j = Len(k) + 1
          BY <3>2, <4>3, <5>1
        <5>2. CASE j \in 1..Len(k)
          <6>1. i \in 1..Len(k)
            BY <2>5, <3>2, <4>4, <5>2
          <6> QED BY <3>2, <4>1, <4>4, <5>2, <6>1
        <5> QED BY <3>2, <4>2, <5>1, <5>2
      <4> QED BY <2>3, <4>3, <4>4
    <3>7. Warned(a)'
      <4>1. \A u \in warned[a] : u \in Int
        BY DEF TypeOK, Time
      <4> QED BY <2>3, <2>8, <3>1, <4>1
    <3>8. Cap(a)'
      <4>1. \A i \in 1..Len(k) : i + Max <= Len(k) => k[i + Max] - k[i] > Window
        <5>1. DOMAIN k = 1..Len(k) /\ Cap(a)
          BY <2>5, <2>8
        <5> QED BY <5>1
      <4> HIDE DEF k, w, f, l
      <4> SUFFICES ASSUME NEW i \in 1..(Len(k) + 1), i + Max <= Len(k) + 1
                   PROVE  kept'[a][i + Max] - kept'[a][i] > Window
        BY <3>2
      <4>2. i \in 1..Len(k)
        BY <3>3
      <4>3. CASE i + Max <= Len(k)
        <5>1. i + Max \in 1..Len(k)
          BY <2>5, <4>3
        <5> QED BY <3>2, <4>1, <4>2, <4>3, <5>1
      <4>4. CASE i + Max = Len(k) + 1
        <5>1. i \in 1..(f + n)
          BY <3>1, <3>3, <4>2, <4>4
        <5>2. now - k[i] > Window
          BY <2>4, <5>1 DEF Expired
        <5> QED BY <3>2, <4>2, <4>4, <5>2
      <4>5. i + Max <= Len(k) \/ i + Max = Len(k) + 1
        BY <3>3
      <4> QED BY <4>3, <4>4, <4>5
    <3> QED BY <3>5, <3>6, <3>7, <3>8
  <2>11. ASSUME Drop(a, now, n)
         PROVE  Suffix(a)' /\ Order(a)' /\ Warned(a)' /\ Cap(a)'
    <3>1. by_author'[a] = w /\ kept' = kept
      BY <2>11 DEF Drop, TypeOK
    <3>2. Forgotten(a)' = f + n
      <4>1. Len(w) \in Nat
        BY <2>5
      <4>2. Forgotten(a)' = Len(k) - Len(w)
        BY <3>1 DEF Forgotten
      <4> HIDE DEF f, k, w
      <4> QED BY <2>5, <2>7, <4>1, <4>2
    <3>3. Suffix(a)'
      BY <2>3, <2>4, <2>7, <3>1, <3>2
    <3>4. Order(a)'
      <4>1. \A i \in DOMAIN kept[a] : kept[a][i] \in Int
        BY DEF TypeOK, Time
      <4> QED BY <2>3, <2>8, <3>1, <4>1
    <3>5. Warned(a)'
      <4>1. \A u \in warned[a] : u \in Int
        BY DEF TypeOK, Time
      <4>2. CASE last_warned'[a] = now /\ warned'[a] = warned[a] \union {now}
        BY <2>3, <2>8, <4>1, <4>2
      <4>3. CASE UNCHANGED <<last_warned, warned>>
        BY <2>3, <2>8, <4>1, <4>3
      <4> QED BY <2>11, <4>2, <4>3 DEF Drop, TypeOK
    <3> QED BY <2>8, <3>1, <3>3, <3>4, <3>5
  <2>12. \A b \in Author : Suffix(b)' /\ Order(b)' /\ Warned(b)' /\ Cap(b)'
    <3> HIDE DEF Suffix, Order, Warned, Cap
    <3> QED BY <2>2, <2>9, <2>10, <2>11
  <2> QED BY <2>12 DEF LimiterInv, TailInv, OrderInv, WarnInv, WindowCap
<1> QED BY LimiterTypes, <1>1, <1>2, PTL DEF Spec

\* No window holds more than the cap, whatever the limiter has forgotten (WindowCap).
THEOREM CapHeld == Spec => []WindowCap
BY LimiterHeld, PTL DEF LimiterInv

\* The instance counts like this module does.
LEMMA SameCardinality == \A S : Ideal!Cardinality(S) = Cardinality(S)
BY Zenon DEF Cardinality, Ideal!Cardinality, IsFiniteSet, Ideal!IsFiniteSet

\* The limiter decides, and warns, like one that forgets nothing (ImplementsLimiter).
THEOREM RefinesLimiter == Spec => ImplementsLimiter
<1> USE ConstantsAssumption
<1>1. Init => Ideal!Init
  BY DEF Init, Ideal!Init
<1>2. TypeOK /\ LimiterInv /\ [Next]_vars => [Ideal!Next]_Ideal!lvars
  <2> SUFFICES ASSUME TypeOK, LimiterInv, Next PROVE Ideal!Next
    BY DEF vars, Ideal!lvars
  <2>1. PICK a \in Author, now \in Time : check_and_record(a, now)
    BY DEF Next
  <2>2. PICK n \in 0..Len(by_author[a]) :
            /\ Pops(by_author[a], now, n)
            /\ Allow(a, now, n) \/ Drop(a, now, n)
    BY <2>1 DEF check_and_record
  <2>3. clock' = now /\ now >= clock /\ now \in Nat
    BY <2>1 DEF check_and_record, Time
  <2>4. Cardinality(Ideal!InWindow(a, now)) = Len(Rest(by_author[a], n))
    BY <2>2, <2>3, CountInWindow
  <2>5. CASE Allow(a, now, n)
    <3>1. Len(Rest(by_author[a], n)) < Max
      <4>1. Len(Rest(by_author[a], n)) \in Nat
        BY RestOf DEF TypeOK
      <4> QED BY <2>5, <4>1 DEF Allow, Full
    <3>2. Ideal!Keep(a, now)
      <4>1. Ideal!Cardinality(Ideal!InWindow(a, now)) < Max
        BY <2>4, <3>1, SameCardinality, Zenon
      <4>2. kept' = [kept EXCEPT ![a] = Append(@, now)] /\ UNCHANGED warned
        BY <2>5 DEF Allow
      <4> QED BY <4>1, <4>2, Zenon DEF Ideal!Keep
    <3> QED BY <2>3, <3>2 DEF Ideal!Next, Ideal!Message
  <2>6. CASE Drop(a, now, n)
    <3>1. Len(Rest(by_author[a], n)) >= Max
      BY <2>6 DEF Drop, Full
    <3>2. Warn(a, now) <=> Ideal!Quiet(a, now)
      <4>1. /\ last_warned[a] = Never <=> warned[a] = {}
            /\ last_warned[a] # Never => last_warned[a] \in warned[a]
            /\ \A u \in warned[a] : u <= last_warned[a] /\ u \in Int
        BY DEF LimiterInv, WarnInv, TypeOK, Time
      <4>2. CASE last_warned[a] = Never
        BY <4>1, <4>2 DEF Warn, Ideal!Quiet
      <4>3. CASE last_warned[a] # Never
        <5>1. last_warned[a] \in Int
          BY <4>1, <4>3
        <5> QED BY <2>3, <4>1, <4>3, <5>1 DEF Warn, Ideal!Quiet
      <4> QED BY <4>2, <4>3
    <3>3. warned' = [warned EXCEPT ![a] = IF Ideal!Quiet(a, now) THEN @ \union {now} ELSE @]
      <4>1. CASE Warn(a, now)
        BY <2>6, <3>2, <4>1 DEF Drop
      <4>2. CASE ~Warn(a, now)
        BY <2>6, <3>2, <4>2 DEF Drop, TypeOK
      <4> QED BY <4>1, <4>2
    <3>4. kept' = kept
      BY <2>6 DEF Drop
    <3>5. Ideal!Reject(a, now)
      <4>1. Ideal!Cardinality(Ideal!InWindow(a, now)) >= Max
        BY <2>4, <3>1, SameCardinality, Zenon
      <4> QED BY <3>3, <3>4, <4>1, Zenon DEF Ideal!Reject
    <3> QED BY <2>3, <3>5 DEF Ideal!Next, Ideal!Message
  <2> QED BY <2>2, <2>5, <2>6
<1> QED BY LimiterTypes, LimiterHeld, <1>1, <1>2, PTL DEF Spec, ImplementsLimiter, Ideal!Spec

-----------------------------------------------------------------------------
\* config.json

\* While no two calls overlap, one writer at most is at work, and what it holds
\* differs from what was set only in its own field.
ConfigInv ==
    ~mixed =>
        /\ \A w, v \in Writer : writing[w] # "idle" /\ writing[v] # "idle" => w = v
        /\ (\A w \in Writer : writing[w] = "idle") => config = set
        /\ \A w \in Writer : writing[w] # "idle" =>
              \A f \in C!Field : f # job[w] => read[w][f] = set[f]

LEMMA ConfigTypes ==
    ASSUME MaxWrite \in Nat, C!TypeOK, C!Next
    PROVE  C!TypeOK'
<1> USE DEF C!TypeOK
<1>1. C!Default \in [C!Field -> C!Value]
  BY DEF C!Default, C!Value, C!Unset
<1>2. ASSUME NEW w \in Writer, NEW f \in C!Field, C!Read(w, f) PROVE C!TypeOK'
  <2>1. writes + 1 \in C!Value
    BY <1>2 DEF C!Read, C!Value
  <2>2. C!Changed(config, f) \in [C!Field -> C!Value]
    BY <2>1 DEF C!Changed, C!NextValue
  <2> QED BY <1>2, <2>1, <2>2 DEF C!Read
<1>3. ASSUME NEW w \in Writer, C!Truncate(w) \/ C!Crash(w) PROVE C!TypeOK'
  BY <1>1, <1>3 DEF C!Truncate, C!Crash
<1>4. ASSUME NEW w \in Writer, C!Fill(w) PROVE C!TypeOK'
  BY <1>1, <1>4 DEF C!Fill
<1> QED BY <1>2, <1>3, <1>4 DEF C!Next

LEMMA ConfigKept ==
    ASSUME MaxWrite \in Nat, C!TypeOK, ConfigInv, C!Next
    PROVE  ConfigInv'
<1> USE DEF C!TypeOK, ConfigInv
<1>1. ASSUME NEW w \in Writer, NEW f \in C!Field, C!Read(w, f) PROVE ConfigInv'
  <2> SUFFICES ASSUME ~mixed' PROVE ConfigInv'
    OBVIOUS
  <2>1. ~mixed /\ (\A v \in Writer : writing[v] = "idle") /\ config = set
    BY <1>1 DEF C!Read
  <2>2. /\ writing'[w] = "trunc" /\ job'[w] = f /\ read'[w] = C!Changed(config, f)
        /\ \A v \in Writer : v # w => writing'[v] = "idle"
        /\ UNCHANGED <<config, set>>
    BY <1>1, <2>1 DEF C!Read
  <2>3. \A g \in C!Field : g # f => read'[w][g] = set'[g]
    BY <2>1, <2>2 DEF C!Changed
  <2> QED BY <2>2, <2>3
<1>2. ASSUME NEW w \in Writer, C!Truncate(w) PROVE ConfigInv'
  <2>1. /\ writing[w] # "idle" /\ writing'[w] # "idle"
        /\ \A v \in Writer : v # w => writing'[v] = writing[v]
        /\ UNCHANGED <<job, read, set, mixed>>
    BY <1>2 DEF C!Truncate
  <2> QED BY <2>1
<1>3. ASSUME NEW w \in Writer, C!Fill(w) PROVE ConfigInv'
  <2> SUFFICES ASSUME ~mixed' PROVE ConfigInv'
    OBVIOUS
  <2>1. ~mixed /\ writing[w] # "idle" /\ \A v \in Writer : v # w => writing[v] = "idle"
    BY <1>3 DEF C!Fill
  <2>2. \A v \in Writer : writing'[v] = "idle"
    BY <1>3, <2>1 DEF C!Fill
  <2>3. /\ config' = read[w] /\ set' = [set EXCEPT ![job[w]] = read[w][job[w]]]
        /\ \A f \in C!Field : f # job[w] => read[w][f] = set[f]
    BY <1>3, <2>1 DEF C!Fill
  <2>4. config' = set'
    BY <2>3
  <2> QED BY <2>2, <2>4
<1>4. ASSUME NEW w \in Writer, C!Crash(w) PROVE ConfigInv'
  BY <1>4 DEF C!Crash
<1> QED BY <1>1, <1>2, <1>3, <1>4 DEF C!Next

\* A write of one field of config.json keeps all others, for any number of programs
\* that write one after the other.
THEOREM ConfigKeepsFields == PartsSpec => []FieldsKept
<1> DEFINE IInv == part = "config" => C!TypeOK /\ ConfigInv
<1>1. PartsInit => IInv
  <2> SUFFICES ASSUME C!Init PROVE C!TypeOK /\ ConfigInv
    BY DEF PartsInit
  <2>1. C!Default \in [C!Field -> C!Value] /\ 0 \in C!Value
    BY PartsAssumption DEF C!Default, C!Value, C!Unset
  <2>2. C!TypeOK
    BY <2>1 DEF C!Init, C!TypeOK, C!Field
  <2>3. ConfigInv
    BY DEF C!Init, ConfigInv
  <2> QED BY <2>2, <2>3
<1>2. IInv /\ [PartsNext]_<<part, vars, installVars, configVars, identityVars, tabsVars,
                            walkVars, hookVars>> => IInv'
  <2>1. CASE part = "config" /\ C!Next
    BY <2>1, StepsOfConfig, ConfigTypes, ConfigKept, PartsAssumption
  <2>2. CASE UNCHANGED configVars
    BY <2>2, StepsOfConfig DEF configVars, C!TypeOK, ConfigInv
  <2> QED BY <2>1, <2>2, StepsOfConfig
<1>3. IInv => FieldsKept
  BY DEF FieldsKept, C!FieldsKept, ConfigInv
<1> QED BY <1>1, <1>2, <1>3, PTL DEF PartsSpec

-----------------------------------------------------------------------------
\* identity.key

\* One process at most writes the key, before anybody runs, and who runs has it.
IdentityInv ==
    /\ key \in Seed \union {K!NoSeed, K!Absent}
    /\ \A p \in Starter :
          /\ starting[p] = "runs" => key \in Seed /\ seed[p] = key
          /\ starting[p] = "write" =>
                /\ key = K!NoSeed /\ seed[p] \in Seed
                /\ \A q \in Starter : starting[q] = "write" => q = p

LEMMA IdentityKept ==
    ASSUME K!NoSeed \notin Seed, K!Absent \notin Seed, K!NoSeed # K!Absent,
           K!TypeOK, IdentityInv, K!Next
    PROVE  K!TypeOK' /\ IdentityInv'
<1> USE DEF K!TypeOK, IdentityInv
<1>1. ASSUME NEW p \in Starter, K!Start(p) \/ K!Load(p) PROVE K!TypeOK' /\ IdentityInv'
  BY <1>1 DEF K!Start, K!Load
<1>2. ASSUME NEW p \in Starter, K!Write(p) PROVE K!TypeOK' /\ IdentityInv'
  <2>1. seed[p] \in Seed /\ key' = seed[p] /\ seed' = seed /\ starting'[p] = "runs"
    BY <1>2 DEF K!Write
  <2>2. \A q \in Starter : q # p =>
          starting'[q] = starting[q] /\ starting'[q] \notin {"runs", "write"}
    BY <1>2 DEF K!Write
  <2>3. starting' \in [Starter -> {"start", "load", "create", "write", "runs", "failed"}]
    BY <1>2 DEF K!Write
  <2> QED BY <2>1, <2>2, <2>3
<1>3. ASSUME NEW p \in Starter, K!Stop(p) PROVE K!TypeOK' /\ IdentityInv'
  BY <1>3 DEF K!Stop
<1>4. ASSUME NEW p \in Starter, NEW s \in Seed, K!Create(p, s)
      PROVE  K!TypeOK' /\ IdentityInv'
  <2>1. CASE K!MayCreate
    BY <1>4, <2>1 DEF K!Create, K!MayCreate
  <2>2. CASE ~K!MayCreate
    BY <1>4, <2>2 DEF K!Create
  <2> QED BY <2>1, <2>2
<1> QED BY <1>1, <1>2, <1>3, <1>4 DEF K!Next

\* Any number of processes that start together, before there is a key, and are killed
\* and started again, run with the one key in the file.
THEOREM OneKeyForAll == PartsSpec => []OneIdentity
<1> DEFINE IInv == part = "identity" => K!TypeOK /\ IdentityInv
<1>1. K!NoSeed \notin Seed /\ K!Absent \notin Seed /\ K!NoSeed # K!Absent
  BY PartsAssumption DEF K!NoSeed, K!Absent
<1>2. PartsInit => IInv
  BY <1>1 DEF PartsInit, K!Init, K!TypeOK, IdentityInv
<1>3. IInv /\ [PartsNext]_<<part, vars, installVars, configVars, identityVars, tabsVars,
                            walkVars, hookVars>> => IInv'
  <2>1. CASE part = "identity" /\ K!Next
    BY <1>1, <2>1, StepsOfIdentity, IdentityKept
  <2>2. CASE UNCHANGED identityVars
    BY <2>2, StepsOfIdentity DEF identityVars, K!TypeOK, IdentityInv
  <2> QED BY <2>1, <2>2, StepsOfIdentity
<1>4. IInv => OneIdentity
  BY DEF OneIdentity, K!OneIdentity, IdentityInv
<1> QED BY <1>2, <1>3, <1>4, PTL DEF PartsSpec

-----------------------------------------------------------------------------
\* The question about a daemon

\* There is a tab while the question stands, and it is the one asked about.
AskingInv ==
    overlay.is = "confirm" =>
        order # <<>> /\ hosting[active] /\ overlay.topic = room[active]

LEMMA AskingKept ==
    ASSUME AskingInv, T!Next
    PROVE  AskingInv'
<1> USE DEF AskingInv, T!Running, T!Nothing, T!Notice
<1>1. CASE T!CloseTab
  BY <1>1 DEF T!CloseTab, T!DropActive
<1>2. CASE T!ConfirmStop \/ T!ConfirmKeep
  BY <1>2 DEF T!ConfirmStop, T!ConfirmKeep
<1>3. CASE T!OpenOverlay \/ T!LeaveOverlay
  BY <1>3 DEF T!OpenOverlay, T!LeaveOverlay
<1>4. CASE T!JoinRefused \/ T!Quit
  BY <1>4 DEF T!JoinRefused, T!Quit
<1>5. ASSUME NEW t \in Topic, T!Join(t) \/ T!JoinFails(t) \/ T!DaemonEnds(t)
      PROVE  AskingInv'
  BY <1>5 DEF T!Join, T!JoinFails, T!DaemonEnds
<1>6. ASSUME NEW i \in T!TabId, T!SwitchTab(i) \/ T!SessionEnds(i) \/ T!ClaudeEnds(i)
      PROVE  AskingInv'
  BY <1>6 DEF T!SwitchTab, T!OverlayFirst, T!SessionEnds, T!ClaudeEnds
<1> QED BY <1>1, <1>2, <1>3, <1>4, <1>5, <1>6 DEF T!Next

\* The question whether a daemon shall go is about the tab that the answer closes,
\* however many tabs there are and whatever ends while it stands: an overlay takes
\* every key, so no key moves the active tab under it.
THEOREM QuestionFitsTab == PartsSpec => []AsksAboutActive
<1> DEFINE IInv == part = "tabs" => AskingInv
<1>1. PartsInit => IInv
  BY DEF PartsInit, T!Init, T!Nothing, AskingInv
<1>2. IInv /\ [PartsNext]_<<part, vars, installVars, configVars, identityVars, tabsVars,
                            walkVars, hookVars>> => IInv'
  <2>1. CASE part = "tabs" /\ T!Next
    BY <2>1, StepsOfTabs, AskingKept
  <2>2. CASE UNCHANGED tabsVars
    BY <2>2, StepsOfTabs DEF tabsVars, AskingInv
  <2> QED BY <2>1, <2>2, StepsOfTabs
<1>3. IInv => AsksAboutActive
  BY DEF AsksAboutActive, T!AsksAboutActive, AskingInv
<1> QED BY <1>1, <1>2, <1>3, PTL DEF PartsSpec

-----------------------------------------------------------------------------
\* The tabs

\* The tabs' order is a list, and what is kept of it the others.
LEMMA DroppedTab ==
    ASSUME order \in Seq(T!TabId)
    PROVE  /\ T!Keep(order, T!TabId \ {active}) \in Seq(T!TabId)
           /\ T!ToSet(T!Keep(order, T!TabId \ {active})) = T!ToSet(order) \ {active}
<1>1. PICK k : k = Keep(order, T!TabId \ {active})
  OBVIOUS
<1>2. k = T!Keep(order, T!TabId \ {active})
  BY <1>1 DEF Keep, T!Keep
<1>3. /\ k \in Seq(T!TabId)
      /\ \A x : x \in {k[i] : i \in DOMAIN k} <=>
                    x \in T!TabId \ {active} /\ x \in {order[i] : i \in DOMAIN order}
  <2>1. PICK others : others = T!TabId \ {active}
    OBVIOUS
  <2>2. /\ Keep(order, others) \in Seq(T!TabId)
        /\ \A x : x \in {Keep(order, others)[i] : i \in DOMAIN Keep(order, others)} <=>
                    x \in others /\ x \in {order[i] : i \in DOMAIN order}
    BY KeepFacts
  <2> QED BY <1>1, <2>1, <2>2
<1>4. \A i \in DOMAIN order : order[i] \in T!TabId
  BY LenProperties, ElementOfSeq
<1> QED BY <1>2, <1>3, <1>4 DEF T!ToSet

TabsTypes ==
    /\ order \in Seq(T!TabId)
    /\ next \in Nat \ {0}

LEMMA NoneLeftKept ==
    ASSUME TabsTypes, T!NoneLeftBehind, T!Next
    PROVE  TabsTypes' /\ T!NoneLeftBehind'
<1> USE DEF TabsTypes, T!Running
<1>1. ASSUME T!DropActive, UNCHANGED <<failed, next>> PROVE TabsTypes' /\ T!NoneLeftBehind'
  <2>1. /\ order' = T!Keep(order, T!TabId \ {active})
        /\ sessions' = sessions \ {active} /\ claudes' = claudes \ {active}
    BY <1>1 DEF T!DropActive, T!DropTabs, T!Aborted
  <2>2. order' \in Seq(T!TabId) /\ T!ToSet(order') = T!ToSet(order) \ {active}
    BY <2>1, DroppedTab
  <2>3. T!NoneLeftBehind'
    BY <1>1, <2>1, <2>2 DEF T!NoneLeftBehind
  <2> QED BY <1>1, <2>2, <2>3
<1>2. ASSUME UNCHANGED <<order, next>>, sessions' \subseteq sessions, claudes' \subseteq claudes,
             failed \subseteq failed'
      PROVE  TabsTypes' /\ T!NoneLeftBehind'
  BY <1>2 DEF T!NoneLeftBehind, T!ToSet
<1>3. CASE T!CloseTab
  <2>1. CASE hosting[active]
    BY <1>2, <1>3, <2>1 DEF T!CloseTab
  <2>2. CASE ~hosting[active]
    BY <1>1, <1>3, <2>2 DEF T!CloseTab
  <2> QED BY <2>1, <2>2
<1>4. CASE T!ConfirmStop \/ T!ConfirmKeep
  BY <1>1, <1>4 DEF T!ConfirmStop, T!ConfirmKeep
<1>5. CASE T!OpenOverlay \/ T!LeaveOverlay
  BY <1>2, <1>5 DEF T!OpenOverlay, T!LeaveOverlay
<1>6. CASE T!JoinRefused
  BY <1>6 DEF T!JoinRefused, T!NoneLeftBehind, T!ToSet
<1>7. CASE T!Quit
  BY <1>7, EmptySeq DEF T!Quit, T!NoneLeftBehind, T!ToSet
<1>8. ASSUME NEW t \in Topic, T!Join(t) PROVE TabsTypes' /\ T!NoneLeftBehind'
  <2>1. next \in T!TabId /\ order' = Append(order, next)
        /\ sessions' = sessions \union {next} /\ claudes' = claudes \union {next}
        /\ next' = next + 1 /\ failed' = failed
    BY <1>8 DEF T!Join, T!TabId
  <2>2. PICK o \in Seq(T!TabId) : o = Append(order, next)
    BY <2>1, AppendProperties
  <2>3. /\ Len(order) \in Nat /\ DOMAIN order = 1..Len(order) /\ DOMAIN o = 1..(Len(order) + 1)
        /\ o[Len(order) + 1] = next /\ \A i \in 1..Len(order) : o[i] = order[i]
    BY <2>1, <2>2, AppendProperties, LenProperties
  <2>4. T!ToSet(order) \union {next} \subseteq T!ToSet(o)
    BY <2>3 DEF T!ToSet
  <2> QED BY <2>1, <2>2, <2>4 DEF T!NoneLeftBehind
<1>9. ASSUME NEW t \in Topic, T!JoinFails(t) PROVE TabsTypes' /\ T!NoneLeftBehind'
  BY <1>9 DEF T!JoinFails, T!NoneLeftBehind, T!ToSet
<1>10. ASSUME NEW t \in Topic, T!DaemonEnds(t) PROVE TabsTypes' /\ T!NoneLeftBehind'
  BY <1>2, <1>10 DEF T!DaemonEnds
<1>11. ASSUME NEW i \in T!TabId, T!SwitchTab(i) \/ T!SessionEnds(i) \/ T!ClaudeEnds(i)
       PROVE  TabsTypes' /\ T!NoneLeftBehind'
  BY <1>2, <1>11 DEF T!SwitchTab, T!SessionEnds, T!ClaudeEnds
<1> QED BY <1>3, <1>4, <1>5, <1>6, <1>7, <1>8, <1>9, <1>10, <1>11 DEF T!Next

\* No session and no claude outlives its tab, however many are opened and closed, but
\* the session of a join whose claude could not be started (NoneLeftBehind).
THEOREM NoneOutlivesTab == PartsSpec => []NoneLeftBehind
<1> DEFINE IInv == part = "tabs" => TabsTypes /\ T!NoneLeftBehind
<1>1. PartsInit => IInv
  <2> SUFFICES ASSUME T!Init PROVE TabsTypes /\ T!NoneLeftBehind
    BY DEF PartsInit
  <2>1. order = <<1>> /\ next = 2 /\ sessions = {1} /\ claudes = {1}
    BY DEF T!Init
  <2>2. T!ToSet(order) = {1}
    BY <2>1 DEF T!ToSet
  <2>3. order \in Seq(T!TabId)
    <3>1. MaxTab \in Nat \ {0}
      BY PartsAssumption DEF PartsAssumption
    <3>2. 1 \in T!TabId
      BY <3>1 DEF T!TabId
    <3> QED BY <2>1, <3>2
  <2> QED BY <2>1, <2>2, <2>3 DEF TabsTypes, T!NoneLeftBehind
<1>2. IInv /\ [PartsNext]_<<part, vars, installVars, configVars, identityVars, tabsVars,
                            walkVars, hookVars>> => IInv'
  <2>1. CASE part = "tabs" /\ T!Next
    BY <2>1, StepsOfTabs, NoneLeftKept
  <2>2. CASE UNCHANGED tabsVars
    BY <2>2, StepsOfTabs DEF tabsVars, TabsTypes, T!NoneLeftBehind, T!ToSet
  <2> QED BY <2>1, <2>2, StepsOfTabs
<1>3. IInv => NoneLeftBehind
  BY DEF NoneLeftBehind
<1> QED BY <1>1, <1>2, <1>3, PTL DEF PartsSpec

-----------------------------------------------------------------------------
\* Claude Code's files

\* What is kept of a list of entries.
LEMMA KeptEntries ==
    ASSUME NEW s \in Seq(I!Entry), NEW good
    PROVE  /\ I!Keep(s, good) \in Seq(I!Entry)
           /\ \A e : e \in I!ToSet(I!Keep(s, good)) <=> e \in good /\ e \in I!ToSet(s)
<1>1. PICK k : k = Keep(s, good)
  OBVIOUS
<1>2. k = I!Keep(s, good)
  BY <1>1 DEF Keep, I!Keep
<1>3. /\ k \in Seq(I!Entry)
      /\ \A x : x \in {k[i] : i \in DOMAIN k} <=> x \in good /\ x \in {s[i] : i \in DOMAIN s}
  BY <1>1, KeepFacts
<1> QED BY <1>2, <1>3 DEF I!ToSet

LEMMA EntryAppended ==
    ASSUME NEW s \in Seq(I!Entry), NEW e \in I!Entry
    PROVE  /\ Append(s, e) \in Seq(I!Entry)
           /\ Len(s) \in Nat /\ DOMAIN s = 1..Len(s) /\ DOMAIN Append(s, e) = 1..(Len(s) + 1)
           /\ \A i \in 1..Len(s) : Append(s, e)[i] = s[i]
           /\ Append(s, e)[Len(s) + 1] = e
           /\ I!ToSet(Append(s, e)) = I!ToSet(s) \union {e}
<1>1. /\ Append(s, e) \in Seq(I!Entry)
      /\ Len(s) \in Nat /\ Len(Append(s, e)) = Len(s) + 1
      /\ DOMAIN s = 1..Len(s)
      /\ \A i \in 1..Len(s) : Append(s, e)[i] = s[i]
      /\ Append(s, e)[Len(s) + 1] = e
  BY AppendProperties, LenProperties
<1>2. DOMAIN Append(s, e) = 1..(Len(s) + 1)
  BY <1>1, LenProperties
<1>3. 1..(Len(s) + 1) = (1..Len(s)) \union {Len(s) + 1}
  BY <1>1
<1>4. I!ToSet(Append(s, e)) \subseteq I!ToSet(s) \union {e}
  BY <1>1, <1>2, <1>3 DEF I!ToSet
<1>5. I!ToSet(s) \union {e} \subseteq I!ToSet(Append(s, e))
  BY <1>1, <1>2, <1>3 DEF I!ToSet
<1> QED BY <1>1, <1>2, <1>4, <1>5

-----------------------------------------------------------------------------
\* Our entry is in a list once at most; in ~/.claude.json it has its key, and no other
\* tool has it.
Once(s) == \A i, j \in DOMAIN s : "ours" \in s[i].runs /\ "ours" \in s[j].runs => i = j

OwnEntry == I!Server("cc-connect", "ours")
OtherEntry == I!Server("theirs", "other")

Sound(f, s) ==
    /\ s \in Seq(I!Entry)
    /\ Once(s)
    /\ f = "claude" => \A e \in I!ToSet(s) : e = OwnEntry \/ e = OtherEntry

Editing == {"hook", "mcp", "unhook", "unmcp"}

LEMMA EntriesAre ==
    /\ OwnEntry \in I!Entry /\ OtherEntry \in I!Entry /\ I!Hook({"ours"}) \in I!Entry
    /\ OwnEntry.runs = {"ours"} /\ OwnEntry.key = "cc-connect"
    /\ OtherEntry.runs = {"other"} /\ OtherEntry.key = "theirs"
    /\ I!Hook({"ours"}).runs = {"ours"}
BY DEF OwnEntry, OtherEntry, I!Server, I!Hook, I!Entry, I!Command

LEMMA EmptyIsSound == ASSUME NEW f PROVE Sound(f, <<>>)
BY EmptySeq DEF Sound, Once, I!ToSet

\* A list without our entry, and our entry behind it.
LEMMA OnceAppended ==
    ASSUME NEW s \in Seq(I!Entry), \A e \in I!ToSet(s) : "ours" \notin e.runs, NEW e \in I!Entry
    PROVE  Once(Append(s, e))
<1>1. PICK t \in Seq(I!Entry) : t = Append(s, e)
  BY EntryAppended
<1>2. /\ Len(s) \in Nat /\ DOMAIN t = 1..(Len(s) + 1)
      /\ \A i \in 1..Len(s) : t[i] = s[i] /\ s[i] \in I!ToSet(s)
  BY <1>1, EntryAppended DEF I!ToSet
<1>3. \A i \in DOMAIN t : "ours" \in t[i].runs => i = Len(s) + 1
  BY <1>2
<1> QED BY <1>1, <1>3 DEF Once

LEMMA HookIsSound ==
    ASSUME NEW s \in Seq(I!Entry)
    PROVE  Sound("settings", I!WithHook(s))
<1>1. PICK k \in Seq(I!Entry) :
        /\ I!WithHook(s) = Append(k, I!Hook({"ours"}))
        /\ \A e \in I!ToSet(k) : "ours" \notin e.runs
  <2>1. PICK good : good = {e \in I!Entry : "ours" \notin e.runs}
    OBVIOUS
  <2>2. I!WithHook(s) = Append(I!Keep(s, good), I!Hook({"ours"}))
    BY <2>1 DEF I!WithHook
  <2>3. PICK t \in Seq(I!Entry) :
          /\ t = I!Keep(s, good)
          /\ \A e : e \in I!ToSet(t) <=> e \in good /\ e \in I!ToSet(s)
    BY KeptEntries
  <2>4. \A e : e \in I!ToSet(t) => e \in I!Entry
    BY <2>1, <2>3
  <2> QED BY <2>1, <2>2, <2>3, <2>4
<1> QED BY <1>1, OnceAppended, EntryAppended, EntriesAre DEF Sound

LEMMA UnhookedIsSound ==
    ASSUME NEW s \in Seq(I!Entry)
    PROVE  Sound("settings", I!WithoutHook(s))
<1>1. PICK r : r = [i \in DOMAIN s |-> [s[i] EXCEPT !.runs = @ \ {"ours", "moved"}]]
  OBVIOUS
<1>2. Len(s) \in Nat /\ DOMAIN s = 1..Len(s) /\ \A i \in 1..Len(s) : s[i] \in I!Entry
  BY LenProperties, ElementOfSeq
<1>3. \A i \in 1..Len(s) : r[i] \in I!Entry /\ "ours" \notin r[i].runs
  BY <1>1, <1>2 DEF I!Entry
<1>4. r \in Seq(I!Entry)
  <2>1. r \in [1..Len(s) -> I!Entry]
    BY <1>1, <1>2, <1>3
  <2> QED BY <1>2, <2>1
<1>5. \A e \in I!ToSet(r) : "ours" \notin e.runs
  BY <1>1, <1>2, <1>3 DEF I!ToSet
<1>6. PICK k \in Seq(I!Entry) : k = I!WithoutHook(s) /\ \A e \in I!ToSet(k) : e \in I!ToSet(r)
  <2>1. PICK good : good = {e \in I!Entry : e.runs # {}}
    OBVIOUS
  <2>2. I!WithoutHook(s) = I!Keep(r, good)
    BY <1>1, <2>1 DEF I!WithoutHook
  <2> QED BY <1>4, <2>2, KeptEntries
<1>7. \A i \in DOMAIN k : "ours" \notin k[i].runs
  BY <1>5, <1>6 DEF I!ToSet
<1> QED BY <1>6, <1>7 DEF Sound, Once

LEMMA ServerIsSound ==
    ASSUME NEW s, Sound("claude", s)
    PROVE  /\ Sound("claude", I!WithServer(s))
           /\ "other" \in I!Commands(s) => "other" \in I!Commands(I!WithServer(s))
<1>1. s \in Seq(I!Entry)
  BY DEF Sound
<1>2. PICK k \in Seq(I!Entry) :
        /\ I!WithServer(s) = Append(k, OwnEntry)
        /\ \A e : e \in I!ToSet(k) <=> /\ e \in I!Entry /\ "ours" \notin e.runs /\ e.key # "cc-connect"
                                       /\ e \in I!ToSet(s)
  <2>1. PICK good : good = {e \in I!Entry : "ours" \notin e.runs /\ e.key # "cc-connect"}
    OBVIOUS
  <2>2. I!WithServer(s) = Append(I!Keep(s, good), OwnEntry)
    BY <2>1 DEF I!WithServer, OwnEntry
  <2>3. PICK t \in Seq(I!Entry) :
          /\ t = I!Keep(s, good)
          /\ \A e : e \in I!ToSet(t) <=> e \in good /\ e \in I!ToSet(s)
    BY <1>1, KeptEntries
  <2>4. \A e : e \in I!ToSet(t) => e \in I!Entry
    BY <2>1, <2>3
  <2> QED BY <2>1, <2>2, <2>3, <2>4
<1>3. Append(k, OwnEntry) \in Seq(I!Entry) /\ I!ToSet(Append(k, OwnEntry)) = I!ToSet(k) \union {OwnEntry}
  BY EntriesAre, EntryAppended
<1>4. Sound("claude", Append(k, OwnEntry))
  BY <1>2, <1>3, OnceAppended, EntriesAre DEF Sound
<1>5. ASSUME "other" \in I!Commands(s) PROVE "other" \in I!Commands(Append(k, OwnEntry))
  <2>1. PICK e \in I!ToSet(s) : "other" \in e.runs
    BY <1>5 DEF I!Commands
  <2>2. e = OtherEntry
    BY <2>1, EntriesAre DEF Sound
  <2>3. e \in I!ToSet(k)
    BY <1>2, <2>1, <2>2, EntriesAre
  <2> QED BY <1>3, <2>1, <2>3 DEF I!Commands
<1> QED BY <1>2, <1>4, <1>5

LEMMA UnservedIsSound ==
    ASSUME NEW s, Sound("claude", s)
    PROVE  /\ Sound("claude", I!WithoutServer(s))
           /\ "other" \in I!Commands(s) => "other" \in I!Commands(I!WithoutServer(s))
<1>1. s \in Seq(I!Entry)
  BY DEF Sound
<1>2. PICK k \in Seq(I!Entry) :
        /\ I!WithoutServer(s) = k
        /\ \A e : e \in I!ToSet(k) <=> e \in I!Entry /\ e.key # "cc-connect" /\ e \in I!ToSet(s)
  <2>1. PICK good : good = {e \in I!Entry : e.key # "cc-connect"}
    OBVIOUS
  <2>2. I!WithoutServer(s) = I!Keep(s, good)
    BY <2>1 DEF I!WithoutServer
  <2>3. PICK t \in Seq(I!Entry) :
          /\ t = I!Keep(s, good)
          /\ \A e : e \in I!ToSet(t) <=> e \in good /\ e \in I!ToSet(s)
    BY <1>1, KeptEntries
  <2>4. \A e : e \in I!ToSet(t) => e \in I!Entry
    BY <2>1, <2>3
  <2> QED BY <2>1, <2>2, <2>3, <2>4
<1>3. \A e \in I!ToSet(k) : e = OtherEntry
  BY <1>2, EntriesAre DEF Sound
<1>4. Sound("claude", k)
  <2>1. \A i \in DOMAIN k : "ours" \notin k[i].runs
    BY <1>3, EntriesAre DEF I!ToSet
  <2> QED BY <1>3, <2>1 DEF Sound, Once
<1>5. ASSUME "other" \in I!Commands(s) PROVE "other" \in I!Commands(k)
  <2>1. PICK e \in I!ToSet(s) : "other" \in e.runs
    BY <1>5 DEF I!Commands
  <2>2. e = OtherEntry
    BY <2>1, EntriesAre DEF Sound
  <2>3. e \in I!ToSet(k)
    BY <1>2, <2>1, <2>2, EntriesAre
  <2> QED BY <2>1, <2>3 DEF I!Commands
<1> QED BY <1>2, <1>4, <1>5

LEMMA EditedIsSound ==
    ASSUME NEW task \in Editing, NEW s, Sound(I!FileOf(task), s)
    PROVE  Sound(I!FileOf(task), I!Edited(task, s))
<1> USE DEF I!FileOf, I!Edited, Editing
<1>1. s \in Seq(I!Entry)
  BY DEF Sound
<1>2. CASE task = "hook"
  BY <1>1, <1>2, HookIsSound
<1>3. CASE task = "unhook"
  BY <1>1, <1>3, UnhookedIsSound
<1>4. CASE task = "mcp"
  BY <1>4, ServerIsSound
<1>5. CASE task = "unmcp"
  BY <1>5, UnservedIsSound
<1> QED BY <1>2, <1>3, <1>4, <1>5

\* The files: their lists are sound, and what others have is in them or backed up.
FilesInv ==
    /\ file \in [I!File -> [ok : BOOLEAN, has : Seq(I!Entry)]]
    /\ DOMAIN saved = I!File
    /\ \A f \in I!File : Sound(f, file[f].has)
    /\ I!OthersKept

\* A run: between looking and writing it holds a sound list for the file of its job;
\* when it comes to read to install, or to write, that file's backup has been made.
RunInv(p) ==
    /\ installing[p] = "look" => held[p] = <<>>
    /\ installing[p] # "look" =>
          /\ todo[p] # <<>> /\ Head(todo[p]) \in Editing
          /\ Sound(I!FileOf(Head(todo[p])), held[p])
    /\ installing[p] \in {"read", "trunc", "fill"} => "other" \in saved[I!FileOf(Head(todo[p]))] \/ purged

RunsInv ==
    /\ DOMAIN todo = Proc /\ DOMAIN installing = Proc /\ DOMAIN held = Proc
    /\ \A p \in Proc : RunInv(p)

\* No step takes a backup away, but for a purge.
BackupsStay == (\A f \in I!File : saved[f] \subseteq saved'[f] \/ purged') /\ (purged => purged')

LEMMA FileWritten ==
    ASSUME FilesInv, BackupsStay, DOMAIN saved' = I!File,
           NEW f \in I!File, NEW s, Sound(f, s),
           \/ file' = [file EXCEPT ![f].has = s]
           \/ file' = [file EXCEPT ![f] = [ok |-> TRUE, has |-> s]],
           "other" \in I!Commands(s) \union saved'[f] \/ purged'
    PROVE  FilesInv'
<1>1. s \in Seq(I!Entry)
  BY DEF Sound
<1>2. /\ file' \in [I!File -> [ok : BOOLEAN, has : Seq(I!Entry)]]
      /\ file'[f].has = s
      /\ \A g \in I!File : g # f => file'[g] = file[g]
  <2>1. file \in [I!File -> [ok : BOOLEAN, has : Seq(I!Entry)]]
    BY DEF FilesInv
  <2>2. CASE file' = [file EXCEPT ![f].has = s]
    BY <1>1, <2>1, <2>2
  <2>3. CASE file' = [file EXCEPT ![f] = [ok |-> TRUE, has |-> s]]
    BY <1>1, <2>1, <2>3
  <2> QED BY <2>2, <2>3
<1>3. \A g \in I!File : Sound(g, file'[g].has)
  BY <1>2 DEF FilesInv
<1>4. \A g \in I!File : "other" \in I!Commands(file'[g].has) \union saved'[g] \/ purged'
  BY <1>2 DEF FilesInv, I!OthersKept, BackupsStay
<1>5. I!OthersKept'
  BY <1>4 DEF I!OthersKept, I!Commands, I!ToSet
<1>6. \A g \in I!File : Sound(g, file[g].has)'
  BY <1>3 DEF Sound, Once, I!ToSet
<1> QED BY <1>2, <1>5, <1>6 DEF FilesInv

LEMMA FilesLeft ==
    ASSUME FilesInv, BackupsStay, DOMAIN saved' = I!File, UNCHANGED file
    PROVE  FilesInv'
BY DEF FilesInv, BackupsStay, I!OthersKept, I!Commands, I!ToSet, Sound, Once

LEMMA RunsGoOn ==
    ASSUME RunsInv, BackupsStay, NEW p \in Proc,
           \A q \in Proc : q # p =>
              todo'[q] = todo[q] /\ installing'[q] = installing[q] /\ held'[q] = held[q],
           DOMAIN todo' = Proc, DOMAIN installing' = Proc, DOMAIN held' = Proc,
           RunInv(p)'
    PROVE  RunsInv'
<1>1. ASSUME NEW q \in Proc, q # p PROVE RunInv(q)'
  <2>1. RunInv(q)
    BY DEF RunsInv
  <2>2. installing[q] # "look" => I!FileOf(Head(todo[q])) \in I!File
    BY DEF I!FileOf, I!File
  <2> QED BY <1>1, <2>1, <2>2 DEF RunInv, BackupsStay, Sound, Once, I!ToSet
<1> QED BY <1>1 DEF RunsInv

LEMMA JobDone ==
    ASSUME RunsInv, BackupsStay, NEW p \in Proc, I!Done(p)
    PROVE  RunsInv'
<1>1. RunInv(p)'
  BY DEF I!Done, RunsInv, RunInv
<1> QED BY <1>1, RunsGoOn DEF I!Done, RunsInv

LEMMA InstallSteps ==
    ASSUME FilesInv, RunsInv, NEW p \in Proc,
           \/ \E jobs : I!Start(p, jobs)
           \/ \E task \in {"hook", "mcp"} : I!Skip(p, task) \/ I!Look(p, task) \/ I!ReadToInstall(p, task)
           \/ \E task \in {"unhook", "unmcp"} : I!ReadToRemove(p, task)
           \/ \E task \in {"hook", "mcp", "unhook", "unmcp"} :
                 I!Backup(p, task) \/ I!Truncate(p, task) \/ I!Fill(p, task)
           \/ I!ByCli(p) \/ I!RemoveByCli(p) \/ I!Unlink(p) \/ I!Purge(p) \/ I!Pull(p)
           \/ I!Script(p) \/ I!Crash(p)
    PROVE  FilesInv' /\ RunsInv'
<1>1. RunInv(p) /\ DOMAIN todo = Proc /\ DOMAIN installing = Proc /\ DOMAIN held = Proc
  BY DEF RunsInv
<1>2. DOMAIN saved = I!File /\ \A f \in I!File : Sound(f, file[f].has)
  BY DEF FilesInv
<1>3. \A task \in Editing : I!FileOf(task) \in I!File
  BY DEF I!FileOf, I!File
<1>4. ASSUME NEW jobs, I!Start(p, jobs) PROVE FilesInv' /\ RunsInv'
  <2>1. BackupsStay /\ UNCHANGED <<file, saved>>
    BY <1>4 DEF I!Start, BackupsStay
  <2>2. RunInv(p)'
    BY <1>1, <1>4 DEF I!Start, RunInv
  <2>3. RunsInv'
    BY <1>1, <1>4, <2>1, <2>2, RunsGoOn DEF I!Start
  <2> QED BY <1>2, <2>1, <2>3, FilesLeft
<1>5. ASSUME I!Done(p), UNCHANGED <<file, saved, purged>> PROVE FilesInv' /\ RunsInv'
  <2>1. BackupsStay
    BY <1>5 DEF BackupsStay
  <2> QED BY <1>2, <1>5, <2>1, FilesLeft, JobDone
<1>6. ASSUME NEW task \in {"hook", "mcp"}, I!Skip(p, task) PROVE FilesInv' /\ RunsInv'
  BY <1>5, <1>6 DEF I!Skip
\* The job goes on, and reads the file.
<1>7. ASSUME NEW task \in Editing, I!Doing(p, task), NEW step, I!Goto(p, step), step # "look",
             UNCHANGED <<file, saved, purged>>, DOMAIN held' = Proc,
             \A q \in Proc : q # p => held'[q] = held[q],
             Sound(I!FileOf(task), held'[p]),
             step \in {"read", "trunc", "fill"} => "other" \in saved[I!FileOf(task)] \/ purged
      PROVE  FilesInv' /\ RunsInv'
  <2>1. BackupsStay
    BY <1>7 DEF BackupsStay
  <2>2. RunInv(p)'
    BY <1>1, <1>7 DEF RunInv, I!Doing, I!Goto
  <2>3. RunsInv'
    BY <1>1, <1>7, <2>1, <2>2, RunsGoOn DEF I!Goto
  <2> QED BY <1>2, <1>7, <2>1, <2>3, FilesLeft
<1>8. ASSUME NEW task \in {"hook", "mcp"}, I!Look(p, task) PROVE FilesInv' /\ RunsInv'
  <2>1. Sound(I!FileOf(task), held'[p])
    BY <1>1, <1>8, EmptyIsSound DEF I!Look, RunInv
  <2> QED BY <1>1, <1>7, <1>8, <2>1 DEF I!Look, Editing
<1>9. ASSUME NEW task \in {"hook", "mcp"}, I!ReadToInstall(p, task) PROVE FilesInv' /\ RunsInv'
  <2>1. PICK s : /\ s = IF file[I!FileOf(task)].ok THEN file[I!FileOf(task)].has ELSE <<>>
                 /\ held' = [held EXCEPT ![p] = I!Edited(task, s)]
    BY <1>9 DEF I!ReadToInstall
  <2>2. task \in Editing /\ Sound(I!FileOf(task), s)
    BY <1>2, <1>3, <2>1, EmptyIsSound DEF Editing
  <2>3. Sound(I!FileOf(task), held'[p])
    BY <1>1, <2>1, <2>2, EditedIsSound
  <2>4. "other" \in saved[I!FileOf(task)] \/ purged
    BY <1>1, <1>9 DEF I!ReadToInstall, I!Doing, RunInv
  <2> QED BY <1>1, <1>7, <1>9, <2>1, <2>2, <2>3, <2>4 DEF I!ReadToInstall
<1>10. ASSUME NEW task \in {"unhook", "unmcp"}, I!ReadToRemove(p, task) PROVE FilesInv' /\ RunsInv'
  <2>1. CASE I!Done(p)
    BY <1>5, <1>10, <2>1 DEF I!ReadToRemove
  <2>2. CASE /\ held' = [held EXCEPT ![p] = I!Edited(task, file[I!FileOf(task)].has)]
             /\ I!Goto(p, "back")
    <3>1. task \in Editing
      BY DEF Editing
    <3>2. Sound(I!FileOf(task), held'[p])
      BY <1>1, <1>2, <1>3, <2>2, <3>1, EditedIsSound
    <3> QED BY <1>1, <1>7, <1>10, <2>2, <3>1, <3>2 DEF I!ReadToRemove
  <2> QED BY <1>10, <2>1, <2>2 DEF I!ReadToRemove
<1>11. ASSUME NEW task \in Editing, I!Backup(p, task) PROVE FilesInv' /\ RunsInv'
  <2>1. PICK f \in I!File : f = I!FileOf(task)
    BY <1>3
  <2>2. saved' = [saved EXCEPT ![f] = I!Backed(f)] /\ UNCHANGED <<file, purged, held>>
    BY <1>11, <2>1 DEF I!Backup
  <2>3. BackupsStay
    BY <1>2, <2>2 DEF BackupsStay, I!Backed
  <2>4. "other" \in saved'[f] \/ purged'
    BY <1>2, <2>2 DEF FilesInv, I!OthersKept, I!Backed
  <2>5. RunInv(p)'
    BY <1>1, <1>11, <2>1, <2>2, <2>4 DEF I!Backup, RunInv, I!Doing, I!Goto
  <2>6. RunsInv'
    BY <1>1, <1>11, <2>2, <2>3, <2>5, RunsGoOn DEF I!Backup, I!Goto
  <2> QED BY <1>2, <2>2, <2>3, <2>6, FilesLeft
<1>12. ASSUME NEW task \in Editing, I!Truncate(p, task) PROVE FilesInv' /\ RunsInv'
  <2>1. PICK f \in I!File : f = I!FileOf(task)
    BY <1>3
  <2>2. file' = [file EXCEPT ![f] = [ok |-> TRUE, has |-> <<>>]] /\ UNCHANGED <<saved, purged, held>>
    BY <1>12, <2>1 DEF I!Truncate
  <2>3. BackupsStay /\ ("other" \in saved'[f] \/ purged')
    BY <1>1, <1>12, <2>1, <2>2 DEF I!Truncate, I!Doing, RunInv, BackupsStay
  <2>4. FilesInv'
    BY <1>2, <2>2, <2>3, EmptyIsSound, FileWritten
  <2>5. RunInv(p)'
    BY <1>1, <1>12, <2>1, <2>2, <2>3 DEF I!Truncate, RunInv, I!Doing, I!Goto
  <2> QED BY <1>1, <1>12, <2>2, <2>3, <2>4, <2>5, RunsGoOn DEF I!Truncate, I!Goto
<1>13. ASSUME NEW task \in Editing, I!Fill(p, task) PROVE FilesInv' /\ RunsInv'
  <2>1. PICK f \in I!File : f = I!FileOf(task)
    BY <1>3
  <2>2. PICK s : s = held[p]
    OBVIOUS
  <2>3. file' = [file EXCEPT ![f] = [ok |-> TRUE, has |-> s]] /\ UNCHANGED <<saved, purged>>
    BY <1>13, <2>1, <2>2 DEF I!Fill
  <2>4. BackupsStay /\ ("other" \in saved'[f] \/ purged') /\ Sound(f, s)
    BY <1>1, <1>13, <2>1, <2>2, <2>3 DEF I!Fill, I!Doing, RunInv, BackupsStay
  <2>5. FilesInv'
    BY <1>2, <2>3, <2>4, FileWritten
  <2> QED BY <1>13, <2>4, <2>5, JobDone DEF I!Fill
<1>14. CASE I!ByCli(p)
  <2>1. PICK s : s = I!WithServer(file["claude"].has)
    OBVIOUS
  <2>2. file' = [file EXCEPT !["claude"].has = s] /\ UNCHANGED <<saved, purged>> /\ "claude" \in I!File
    BY <1>14, <2>1 DEF I!ByCli, I!File
  <2>3. BackupsStay
    BY <2>2 DEF BackupsStay
  <2>4. Sound("claude", s) /\ ("other" \in I!Commands(s) \union saved'["claude"] \/ purged')
    BY <1>2, <2>1, <2>2, ServerIsSound DEF FilesInv, I!OthersKept
  <2>5. FilesInv'
    BY <1>2, <2>2, <2>3, <2>4, FileWritten
  <2> QED BY <1>14, <2>3, <2>5, JobDone DEF I!ByCli
<1>15. CASE I!RemoveByCli(p)
  <2>1. PICK s : s = I!WithoutServer(file["claude"].has)
    OBVIOUS
  <2>2. UNCHANGED <<saved, purged>> /\ I!Done(p) /\ "claude" \in I!File
    BY <1>15 DEF I!RemoveByCli, I!File
  <2>3. BackupsStay
    BY <2>2 DEF BackupsStay
  <2>4. CASE file' = [file EXCEPT !["claude"].has = s]
    <3>1. Sound("claude", s) /\ ("other" \in I!Commands(s) \union saved'["claude"] \/ purged')
      BY <1>2, <2>1, <2>2, UnservedIsSound DEF FilesInv, I!OthersKept
    <3>2. FilesInv'
      BY <1>2, <2>2, <2>3, <2>4, <3>1, FileWritten
    <3> QED BY <2>2, <2>3, <3>2, JobDone
  <2>5. CASE UNCHANGED file
    BY <1>5, <2>2, <2>5
  <2> QED BY <1>15, <2>1, <2>4, <2>5 DEF I!RemoveByCli
<1>16. CASE I!Unlink(p)
  BY <1>5, <1>16 DEF I!Unlink
<1>17. CASE I!Purge(p)
  <2>1. BackupsStay /\ UNCHANGED file /\ I!Done(p) /\ DOMAIN saved' = I!File
    BY <1>17 DEF I!Purge, BackupsStay
  <2> QED BY <2>1, FilesLeft, JobDone
<1>18. CASE I!Pull(p)
  <2>1. CASE I!Done(p)
    BY <1>5, <1>18, <2>1 DEF I!Pull
  <2>2. CASE todo' = [todo EXCEPT ![p] = <<>>] /\ UNCHANGED <<installing, held>>
    <3>1. BackupsStay /\ UNCHANGED <<file, saved, purged>>
      BY <1>18 DEF I!Pull, BackupsStay
    <3>2. installing[p] = "look"
      BY <1>1, <1>18 DEF I!Pull, I!Doing, RunInv, Editing
    <3>3. RunInv(p)'
      BY <1>1, <2>2, <3>2 DEF RunInv
    <3>4. RunsInv'
      BY <1>1, <2>2, <3>1, <3>3, RunsGoOn
    <3> QED BY <1>2, <3>1, <3>4, FilesLeft
  <2> QED BY <1>18, <2>1, <2>2 DEF I!Pull
<1>19. CASE I!Script(p)
  <2>1. saved' = [saved EXCEPT !["settings"] = I!Backed("settings")] /\ UNCHANGED purged
        /\ I!Done(p) /\ I!File = {"settings", "claude"}
    BY <1>19 DEF I!Script, I!File
  <2>2. BackupsStay /\ ("other" \in saved'["settings"] \/ purged') /\ DOMAIN saved' = I!File
    BY <1>2, <2>1 DEF BackupsStay, I!Backed, FilesInv, I!OthersKept
  <2>3. PICK h : h = I!WithHook(file["settings"].has)
    OBVIOUS
  <2>4. PICK s : s = I!WithServer(file["claude"].has)
    OBVIOUS
  <2>5. Sound("settings", h)
    BY <1>2, <2>1, <2>3, HookIsSound DEF Sound
  <2>6. Sound("claude", s) /\ ("other" \in I!Commands(s) \union saved'["claude"] \/ purged')
    BY <1>2, <2>1, <2>4, ServerIsSound DEF FilesInv, I!OthersKept
  <2>7. CASE file' = [file EXCEPT !["settings"].has = h, !["claude"].has = s]
    <3>1. h \in Seq(I!Entry) /\ s \in Seq(I!Entry)
      BY <2>5, <2>6 DEF Sound
    <3>2. /\ file'["settings"].has = h /\ file'["claude"].has = s
          /\ file' \in [I!File -> [ok : BOOLEAN, has : Seq(I!Entry)]]
      <4>1. file \in [I!File -> [ok : BOOLEAN, has : Seq(I!Entry)]]
        BY DEF FilesInv
      <4>2. /\ file'["settings"] = [file["settings"] EXCEPT !.has = h]
            /\ file'["claude"] = [file["claude"] EXCEPT !.has = s]
            /\ DOMAIN file' = I!File
        BY <2>1, <2>7, <4>1
      <4>3. /\ [file["settings"] EXCEPT !.has = h] \in [ok : BOOLEAN, has : Seq(I!Entry)]
            /\ [file["claude"] EXCEPT !.has = s] \in [ok : BOOLEAN, has : Seq(I!Entry)]
            /\ [file["settings"] EXCEPT !.has = h].has = h
            /\ [file["claude"] EXCEPT !.has = s].has = s
        BY <2>1, <3>1, <4>1
      <4>4. file' = [f \in I!File |-> file'[f]]
        BY <2>7, <4>1
      <4>5. /\ file'["settings"] \in [ok : BOOLEAN, has : Seq(I!Entry)]
            /\ file'["claude"] \in [ok : BOOLEAN, has : Seq(I!Entry)]
        BY <4>2, <4>3
      <4>6. \A g \in I!File : file'[g] \in [ok : BOOLEAN, has : Seq(I!Entry)]
        BY <2>1, <4>5
      <4>7. file' \in [I!File -> [ok : BOOLEAN, has : Seq(I!Entry)]]
        BY <4>4, <4>6
      <4> QED BY <4>2, <4>3, <4>7
    <3>3. \A g \in I!File : "other" \in I!Commands(file'[g].has) \union saved'[g] \/ purged'
      BY <2>1, <2>2, <2>6, <3>2
    <3>4. I!OthersKept'
      BY <3>3 DEF I!OthersKept, I!Commands, I!ToSet
    <3>5. \A g \in I!File : Sound(g, file'[g].has)
      BY <2>1, <2>5, <2>6, <3>2
    <3>6. \A g \in I!File : Sound(g, file[g].has)'
      BY <3>5 DEF Sound, Once, I!ToSet
    <3>7. FilesInv'
      BY <2>2, <3>2, <3>4, <3>6 DEF FilesInv
    <3> QED BY <2>1, <2>2, <3>7, JobDone
  <2>8. CASE file' = [file EXCEPT !["settings"].has = h]
    <3>1. FilesInv'
      BY <2>1, <2>2, <2>5, <2>8, FileWritten
    <3> QED BY <2>1, <2>2, <3>1, JobDone
  <2>9. CASE UNCHANGED file
    BY <2>1, <2>2, <2>9, FilesLeft, JobDone
  <2> QED BY <1>19, <2>3, <2>4, <2>7, <2>8, <2>9 DEF I!Script
<1>20. CASE I!Crash(p)
  <2>1. BackupsStay /\ UNCHANGED <<file, saved>>
    BY <1>20 DEF I!Crash, BackupsStay
  <2>2. RunInv(p)'
    BY <1>1, <1>20 DEF I!Crash, RunInv
  <2>3. RunsInv'
    BY <1>1, <1>20, <2>1, <2>2, RunsGoOn DEF I!Crash
  <2> QED BY <1>2, <2>1, <2>3, FilesLeft
<1> QED BY <1>4, <1>6, <1>8, <1>9, <1>10, <1>11, <1>12, <1>13, <1>14, <1>15, <1>16, <1>17,
           <1>18, <1>19, <1>20 DEF Editing

LEMMA CountAlike == \A S : I!Cardinality(S) = Cardinality(S)
BY Zenon DEF Cardinality, I!Cardinality, IsFiniteSet, I!IsFiniteSet

\* What is there before the first run.
LEMMA FilesFirst ==
    ASSUME I!Init
    PROVE  FilesInv /\ RunsInv
<1> DEFINE hooks == {<<I!Hook({"other"})>>, <<I!Hook({"moved"}), I!Hook({"other", "ours"})>>}
<1>1. PICK h \in hooks, k \in BOOLEAN, l \in BOOLEAN :
        file = [f \in I!File |-> IF f = "settings" THEN [ok |-> k, has |-> h]
                                ELSE [ok |-> l, has |-> <<OtherEntry>>]]
  <2>1. PICK s \in {[ok |-> TRUE, has |-> <<I!Hook({"other"})>>],
                    [ok |-> TRUE, has |-> <<I!Hook({"moved"}), I!Hook({"other", "ours"})>>],
                    [ok |-> FALSE, has |-> <<I!Hook({"other"})>>]},
             c \in {[ok |-> TRUE, has |-> <<OtherEntry>>], [ok |-> FALSE, has |-> <<OtherEntry>>]} :
          file = [f \in I!File |-> IF f = "settings" THEN s ELSE c]
    BY DEF I!Init, OtherEntry
  <2>2. PICK h \in hooks, k \in BOOLEAN : s = [ok |-> k, has |-> h]
    BY <2>1
  <2>3. PICK l \in BOOLEAN : c = [ok |-> l, has |-> <<OtherEntry>>]
    BY <2>1
  <2> QED BY <2>1, <2>2, <2>3
<1>2. I!Hook({"other"}) \in I!Entry /\ I!Hook({"moved"}) \in I!Entry
      /\ I!Hook({"other", "ours"}) \in I!Entry
      /\ I!Hook({"other"}).runs = {"other"} /\ I!Hook({"moved"}).runs = {"moved"}
      /\ I!Hook({"other", "ours"}).runs = {"other", "ours"}
  BY DEF I!Hook, I!Entry, I!Command
<1>3. /\ h \in Seq(I!Entry) /\ DOMAIN h \subseteq {1, 2}
      /\ \A i \in DOMAIN h : "ours" \in h[i].runs => i = 2
      /\ \E i \in DOMAIN h : "other" \in h[i].runs
  <2>1. CASE h = <<I!Hook({"other"})>>
    <3>1. 1 \in DOMAIN h /\ "other" \in h[1].runs
      BY <1>2, <2>1
    <3> QED BY <1>2, <2>1, <3>1
  <2>2. CASE h = <<I!Hook({"moved"}), I!Hook({"other", "ours"})>>
    <3>1. 2 \in DOMAIN h /\ "other" \in h[2].runs
      BY <1>2, <2>2
    <3> QED BY <1>2, <2>2, <3>1
  <2> QED BY <1>1, <2>1, <2>2
<1>4. Sound("settings", h)
  BY <1>3 DEF Sound, Once
<1>5. Sound("claude", <<OtherEntry>>) /\ "other" \in I!Commands(<<OtherEntry>>)
  BY EntriesAre DEF Sound, Once, I!ToSet, I!Commands
<1>6. "other" \in I!Commands(h)
  <2>1. PICK i \in DOMAIN h : "other" \in h[i].runs
    BY <1>3
  <2>2. h[i] \in I!ToSet(h)
    BY DEF I!ToSet
  <2> QED BY <2>1, <2>2 DEF I!Commands
<1>7. <<OtherEntry>> \in Seq(I!Entry)
  BY EntriesAre
<1>8. file \in [I!File -> [ok : BOOLEAN, has : Seq(I!Entry)]]
  BY <1>1, <1>3, <1>7
<1>9. \A f \in I!File : Sound(f, file[f].has) /\ "other" \in I!Commands(file[f].has)
  <2>1. "settings" \in I!File /\ "claude" \in I!File
        /\ \A f \in I!File : f = "settings" \/ f = "claude"
    BY DEF I!File
  <2>2. file["settings"].has = h /\ file["claude"].has = <<OtherEntry>>
    BY <1>1, <2>1
  <2> QED BY <1>4, <1>5, <1>6, <2>1, <2>2
<1>10. FilesInv
  BY <1>8, <1>9 DEF FilesInv, I!Init, I!OthersKept
<1>11. RunsInv
  BY DEF I!Init, RunsInv, RunInv
<1> QED BY <1>10, <1>11

InstallInv == part = "install" => FilesInv /\ RunsInv

LEMMA InstallKept == PartsSpec => []InstallInv
<1>1. PartsInit => InstallInv
  BY FilesFirst DEF PartsInit, InstallInv
<1>2. InstallInv /\ [PartsNext]_<<part, vars, installVars, configVars, identityVars, tabsVars,
                                  walkVars, hookVars>> => InstallInv'
  <2>1. CASE part = "install" /\ I!Next
    BY <2>1, StepsOfInstall, InstallSteps DEF I!Next, InstallInv
  <2>2. CASE UNCHANGED installVars
    <3> SUFFICES ASSUME FilesInv, RunsInv, part' = "install" PROVE FilesInv' /\ RunsInv'
      BY StepsOfInstall DEF InstallInv
    <3>1. UNCHANGED <<file, saved, purged, todo, installing, held>>
      BY <2>2 DEF installVars
    <3>2. FilesInv'
      BY <3>1, FilesLeft DEF BackupsStay, FilesInv
    <3>3. RunsInv'
      <4>1. ASSUME NEW p \in Proc PROVE RunInv(p)'
        <5>1. RunInv(p)
          BY DEF RunsInv
        <5> QED BY <3>1, <5>1 DEF RunInv, Sound, Once, I!ToSet
      <4> QED BY <3>1, <4>1 DEF RunsInv
    <3> QED BY <3>2, <3>3
  <2> QED BY <2>1, <2>2, StepsOfInstall
<1> QED BY <1>1, <1>2, PTL DEF PartsSpec

\* What another tool has in Claude Code's two files is never lost, for any number of
\* runs that overlap and are killed (OthersKept): the file is backed up before it is
\* read to be changed, and what is written was in a list that was read after.
THEOREM OthersAreKept == PartsSpec => []OthersKept
<1>1. InstallInv => OthersKept
  BY DEF InstallInv, FilesInv, OthersKept
<1> QED BY <1>1, InstallKept, PTL

\* Our command is in a file once at most, for any number of such runs (NeverTwice).
THEOREM NeverInTwice == PartsSpec => []NeverTwice
<1>1. InstallInv => NeverTwice
  <2> SUFFICES ASSUME FilesInv, NEW f \in I!File
               PROVE  I!Cardinality({i \in DOMAIN file[f].has : "ours" \in file[f].has[i].runs}) <= 1
    BY DEF InstallInv, NeverTwice, I!NeverTwice
  <2>1. PICK S : S = {i \in DOMAIN file[f].has : "ours" \in file[f].has[i].runs}
    OBVIOUS
  <2>2. \A i, j \in S : i = j
    BY <2>1 DEF FilesInv, Sound, Once
  <2>3. CASE S = {}
    <3>1. Cardinality(S) = 0
      BY <2>3, FS_EmptySet
    <3> QED BY <2>1, <3>1, CountAlike
  <2>4. CASE S # {}
    <3>1. PICK i \in S : S = {i}
      BY <2>2, <2>4
    <3>2. Cardinality({i}) = 1
      BY FS_Singleton
    <3>3. Cardinality(S) <= 1
      BY <3>1, <3>2
    <3> QED BY <2>1, <3>3, CountAlike
  <2> QED BY <2>3, <2>4
<1> QED BY <1>1, InstallKept, PTL

-----------------------------------------------------------------------------
\* The hook's text

LEMMA SumOfHook == \A s : H!SumOf(s) = SumOf(s)
BY DEF SumOf, H!SumOf

LEMMA MarkerIsNat == \A n \in Nat : H!MarkerLen(n) \in Nat
<1> SUFFICES ASSUME NEW n \in Nat PROVE H!MarkerLen(n) \in Nat
  OBVIOUS
<1>1. \A m \in Nat : IsFiniteSet(0..m)
  BY FS_Interval
<1>2. PICK m \in Nat : m = 10000
  OBVIOUS
<1> DEFINE D == {p \in {1, 10, 100, 1000, 10000} : p <= n}
<1>3. D \subseteq 0..m
  BY <1>2
<1> HIDE DEF D
<1>4. Cardinality(D) \in Nat
  <2>1. IsFiniteSet(D)
    BY <1>1, <1>3, FS_Subset
  <2> QED BY <2>1, FS_CardinalityType
<1>5. H!Cardinality(D) = Cardinality(D)
  BY Zenon DEF Cardinality, H!Cardinality, IsFiniteSet, H!IsFiniteSet
<1> QED BY <1>4, <1>5 DEF H!MarkerLen, D

\* The texts are lists; the lines that are left are those of the newest messages; of
\* what was left on the way nothing fitted, nor does what is left until there is a block.
HookInv ==
    /\ summary \in Seq(TextLen) /\ index \in Seq(TextLen) /\ Len(index) = Len(summary)
    /\ mention \in BOOLEAN
    /\ bodies \in Seq(BodyLen)
    /\ skipped \in 0..Len(bodies)
    /\ lines = H!Suffix(skipped)
    /\ \A n \in 1..(skipped - 1) : ~H!Fits(H!Suffix(n), n)
    /\ out = H!NotYet /\ skipped > 0 => ~H!Fits(H!Suffix(skipped), skipped)
    /\ skipped > 0 => H!SumOf(H!Suffix(0)) > H!Budget
    /\ out \in Nat
    /\ out # H!NotYet => out <= H!Budget

LEMMA Lengths == TextLen \subseteq Nat /\ BodyLen \subseteq Nat
BY PartsAssumption DEF PartsAssumption

\* A text's section is no longer than its budget and its frame.
SummarySection(n) == H!Section(20, H!HeadCut(n, H!SUMMARY_BUDGET))
IndexSection(n) == H!Section(18, H!TailCut(n, H!FILES_INDEX_BUDGET))
SummaryMax == 1566
IndexMax == 1593

LEMMA SectionBounds ==
    \A n \in Nat : /\ SummarySection(n) \in Nat /\ SummarySection(n) <= SummaryMax
                   /\ IndexSection(n) \in Nat /\ IndexSection(n) <= IndexMax
<1> SUFFICES ASSUME NEW n \in Nat
             PROVE  /\ SummarySection(n) \in Nat /\ SummarySection(n) <= 1566
                    /\ IndexSection(n) \in Nat /\ IndexSection(n) <= 1593
  BY DEF SummaryMax, IndexMax
<1>1. PICK t \in Nat : t <= 7 /\ t = IF H!Rooms >= 2 THEN 7 ELSE 0
  OBVIOUS
<1>2. PICK c \in Nat : c <= 1536 /\ c = H!HeadCut(n, H!SUMMARY_BUDGET)
  BY DEF H!HeadCut, H!SUMMARY_BUDGET
<1>3. PICK d \in Nat : d <= 1565 /\ d = H!TailCut(n, H!FILES_INDEX_BUDGET)
  BY DEF H!TailCut, H!FILES_INDEX_BUDGET
<1>4. H!Section(20, c) \in Nat /\ H!Section(20, c) <= 1566
  <2>1. H!Section(20, c) = IF c = 0 THEN 0 ELSE 20 + t + 1 + c + 2
    BY <1>1 DEF H!Section
  <2> QED BY <1>1, <1>2, <2>1
<1>5. H!Section(18, d) \in Nat /\ H!Section(18, d) <= 1593
  <2>1. H!Section(18, d) = IF d = 0 THEN 0 ELSE 18 + t + 1 + d + 2
    BY <1>1 DEF H!Section
  <2> QED BY <1>1, <1>3, <2>1
<1> QED BY <1>2, <1>3, <1>4, <1>5 DEF SummarySection, IndexSection

\* What is printed before the messages is a number, and for two rooms less than the budget.
LEMMA PreambleBounds ==
    ASSUME summary \in Seq(TextLen), index \in Seq(TextLen), Len(index) = Len(summary),
           mention \in BOOLEAN
    PROVE  /\ H!Preamble \in Nat /\ H!HeaderLen \in Nat
           /\ H!Rooms <= 2 => H!Preamble + H!HeaderLen <= 7597
<1>1. PICK s : s = [r \in DOMAIN summary |-> H!Section(20, H!HeadCut(summary[r], H!SUMMARY_BUDGET))]
  OBVIOUS
<1>2. PICK x : x = [r \in DOMAIN index |-> H!Section(18, H!TailCut(index[r], H!FILES_INDEX_BUDGET))]
  OBVIOUS
<1>3. PICK m \in Nat : m = Len(summary) /\ DOMAIN summary = 1..m /\ DOMAIN index = 1..m
  BY LenProperties
<1>4. /\ s \in [1..m -> Nat] /\ \A r \in 1..m : s[r] <= SummaryMax
      /\ x \in [1..m -> Nat] /\ \A r \in 1..m : x[r] <= IndexMax
  <2>1. \A r \in 1..m : summary[r] \in Nat /\ index[r] \in Nat
    <3>1. \A r \in 1..m : summary[r] \in TextLen /\ index[r] \in TextLen
      BY <1>3, LenProperties, ElementOfSeq
    <3> QED BY <3>1, Lengths
  <2>2. ASSUME NEW r \in 1..m
        PROVE  s[r] \in Nat /\ s[r] <= SummaryMax /\ x[r] \in Nat /\ x[r] <= IndexMax
    <3>1. s[r] = SummarySection(summary[r])
      BY <1>1, <1>3 DEF SummarySection
    <3>2. x[r] = IndexSection(index[r])
      BY <1>2, <1>3 DEF IndexSection
    <3>3. summary[r] \in Nat /\ index[r] \in Nat
      BY <2>1
    <3> QED BY <3>1, <3>2, <3>3, SectionBounds
  <2>3. s = [r \in 1..m |-> s[r]] /\ x = [r \in 1..m |-> x[r]]
    BY <1>1, <1>2, <1>3
  <2> QED BY <2>2, <2>3
<1>5. s \in Seq(Nat) /\ x \in Seq(Nat) /\ Len(s) = m /\ Len(x) = m
  BY <1>4
<1>6. H!Preamble = SumOf(s) + SumOf(x)
  BY <1>1, <1>2, SumOfHook DEF H!Preamble
<1>7. SumOf(s) \in Nat /\ SumOf(x) \in Nat
  BY <1>5, SumFacts
<1>8. H!HeaderLen \in Nat /\ (m <= 2 => H!HeaderLen <= 1279)
  BY <1>3 DEF H!HeaderLen, H!Rooms
<1>9. m <= 2 => SumOf(s) <= 2 * SummaryMax /\ SumOf(x) <= 2 * IndexMax
  <2>0. SummaryMax \in Nat /\ IndexMax \in Nat
    BY DEF SummaryMax, IndexMax
  <2>1. CASE m = 0
    <3>1. SumOf(s) = 0 /\ SumOf(x) = 0
      BY <1>5, <2>1, SumFacts
    <3> QED BY <2>0, <3>1
  <2>2. CASE m = 1
    <3>1. SumOf(s) = s[1] /\ SumOf(x) = x[1]
      BY <1>5, <2>2, SumFacts
    <3>2. s[1] \in Nat /\ s[1] <= SummaryMax /\ x[1] \in Nat /\ x[1] <= IndexMax
      BY <1>4, <2>2
    <3> QED BY <2>0, <3>1, <3>2
  <2>3. CASE m = 2
    <3>1. SumOf(s) = s[1] + s[2] /\ SumOf(x) = x[1] + x[2]
      BY <1>5, <2>3, SumFacts
    <3>2. /\ s[1] \in Nat /\ s[1] <= SummaryMax /\ x[1] \in Nat /\ x[1] <= IndexMax
          /\ s[2] \in Nat /\ s[2] <= SummaryMax /\ x[2] \in Nat /\ x[2] <= IndexMax
      BY <1>4, <2>3
    <3> QED BY <2>0, <3>1, <3>2
  <2> QED BY <1>3, <2>1, <2>2, <2>3
<1>10. m <= 2 => SumOf(s) + SumOf(x) + H!HeaderLen <= 7597
  BY <1>7, <1>8, <1>9 DEF SummaryMax, IndexMax
<1> QED BY <1>3, <1>6, <1>7, <1>8, <1>10 DEF H!Rooms

LEMMA BudgetBounds ==
    ASSUME HookInv
    PROVE  /\ H!Budget \in Nat /\ H!Budget <= H!HOOK_OUTPUT_BUDGET
           /\ H!Rooms <= 2 => H!HeaderLen + H!Preamble + H!Budget <= H!HOOK_OUTPUT_BUDGET
<1>1. /\ H!Preamble \in Nat /\ H!HeaderLen \in Nat
      /\ H!Rooms <= 2 => H!Preamble + H!HeaderLen <= 7597
  BY PreambleBounds DEF HookInv
<1>2. PICK p \in Nat : p = H!Preamble
  BY <1>1
<1>3. PICK h \in Nat : h = H!HeaderLen
  BY <1>1
<1>4. H!Budget = IF p + h < 8192 THEN 8192 - (p + h) ELSE 0
  BY <1>2, <1>3 DEF H!Budget, H!HOOK_OUTPUT_BUDGET
<1>5. H!Rooms <= 2 => p + h <= 7597
  BY <1>1, <1>2, <1>3
<1>6. H!Rooms <= 2 => h + p + H!Budget <= 8192
  BY <1>4, <1>5
<1> QED BY <1>2, <1>3, <1>4, <1>6 DEF H!HOOK_OUTPUT_BUDGET

\* The lines of the newest messages are numbers.
LEMMA SuffixIs ==
    ASSUME bodies \in Seq(BodyLen), NEW n \in 0..Len(bodies)
    PROVE  /\ H!Suffix(n) \in Seq(Nat) /\ Len(H!Suffix(n)) = Len(bodies) - n
           /\ H!SumOf(H!Suffix(n)) \in Nat
           /\ n < Len(bodies) => /\ H!Suffix(n) # <<>>
                                 /\ Tail(H!Suffix(n)) = H!Suffix(n + 1)
<1>1. Len(bodies) \in Nat /\ \A i \in 1..Len(bodies) : bodies[i] \in Nat
  <2>1. Len(bodies) \in Nat /\ \A i \in 1..Len(bodies) : bodies[i] \in BodyLen
    BY LenProperties, ElementOfSeq
  <2>2. BodyLen \subseteq Nat
    BY Lengths
  <2> QED BY <2>1, <2>2
<1>2. \A k \in Nat : H!LineOf(k) \in Nat
  BY DEF H!LineOf
<1>3. PICK m \in Nat : m = Len(bodies) - n
  BY <1>1
<1>4. ASSUME NEW i \in 1..m PROVE H!LineOf(bodies[i + n]) \in Nat
  <2>1. i + n \in 1..Len(bodies)
    BY <1>1, <1>3
  <2>2. PICK k \in Nat : k = bodies[i + n]
    BY <1>1, <2>1
  <2> QED BY <1>2, <2>2
<1>5. PICK s : s = H!Suffix(n)
  OBVIOUS
<1>6. s = [i \in 1..m |-> H!LineOf(bodies[i + n])]
  BY <1>3, <1>5 DEF H!Suffix
<1>7. s \in Seq(Nat) /\ Len(s) = m
  BY <1>4, <1>6
<1>8. SumOf(s) \in Nat
  BY <1>7, SumFacts
<1>9. ASSUME n < Len(bodies) PROVE s # <<>> /\ Tail(s) = H!Suffix(n + 1)
  <2>1. m > 0
    BY <1>1, <1>3, <1>9
  <2>2. s # <<>>
    BY <1>7, <2>1
  <2>3. Tail(s) = [i \in 1..(m - 1) |-> s[i + 1]]
    <3>1. PICK t \in Seq(Nat) : /\ t = Tail(s) /\ Len(t) = Len(s) - 1
                               /\ \A i \in 1..Len(t) : t[i] = s[i + 1]
      BY <1>7, <2>2, HeadTailProperties
    <3>2. DOMAIN t = 1..(m - 1) /\ Len(t) = m - 1
      BY <1>7, <3>1, LenProperties
    <3>3. t = [i \in 1..(m - 1) |-> t[i]]
      BY <3>2
    <3> QED BY <3>1, <3>2, <3>3
  <2>4. Tail(s) = [i \in 1..(m - 1) |-> H!LineOf(bodies[i + (n + 1)])]
    <3>1. \A i \in 1..(m - 1) : s[i + 1] = H!LineOf(bodies[i + (n + 1)])
      <4> SUFFICES ASSUME NEW i \in 1..(m - 1) PROVE s[i + 1] = H!LineOf(bodies[i + (n + 1)])
        OBVIOUS
      <4>1. i + 1 \in 1..m /\ (i + 1) + n = i + (n + 1)
        OBVIOUS
      <4> QED BY <1>6, <4>1
    <3> QED BY <2>3, <3>1
  <2>5. Len(bodies) - (n + 1) = m - 1
    BY <1>1, <1>3
  <2> QED BY <2>2, <2>4, <2>5 DEF H!Suffix
<1> QED BY <1>3, <1>5, <1>7, <1>8, <1>9, SumOfHook

LEMMA HookFirst ==
    ASSUME H!Init
    PROVE  HookInv
<1>1. PICK n \in Nat : n >= 1 /\ summary \in [1..n -> TextLen] /\ index \in [1..n -> TextLen]
  BY PartsAssumption DEF H!Init, PartsAssumption
<1>2. summary \in Seq(TextLen) /\ index \in Seq(TextLen) /\ Len(index) = Len(summary)
  BY <1>1
<1>3. PICK m \in Nat : bodies \in [1..m -> BodyLen]
  BY PartsAssumption DEF H!Init, PartsAssumption
<1>4. bodies \in Seq(BodyLen) /\ Len(bodies) = m /\ DOMAIN bodies = 1..m
  BY <1>3
<1>5. lines = H!Suffix(0)
  <2>1. lines = [i \in 1..m |-> H!LineOf(bodies[i])]
    BY <1>4 DEF H!Init
  <2>2. H!Suffix(0) = [i \in 1..(m - 0) |-> H!LineOf(bodies[i + 0])]
    BY <1>4 DEF H!Suffix
  <2>3. m - 0 = m /\ \A i \in 1..m : i + 0 = i
    OBVIOUS
  <2> QED BY <2>1, <2>2, <2>3
<1>6. skipped = 0 /\ out = H!NotYet /\ mention \in BOOLEAN
  BY DEF H!Init
<1>7. out \in Nat
  BY <1>6 DEF H!NotYet
<1> QED BY <1>2, <1>4, <1>5, <1>6, <1>7 DEF HookInv

\* The text that is there to print stays the same.
LEMMA InputStays ==
    ASSUME HookInv, UNCHANGED H!input
    PROVE  /\ summary' \in Seq(TextLen) /\ index' \in Seq(TextLen) /\ Len(index') = Len(summary')
           /\ mention' \in BOOLEAN /\ bodies' \in Seq(BodyLen)
           /\ H!Budget' = H!Budget
           /\ \A n : H!Suffix(n)' = H!Suffix(n)
BY DEF HookInv, H!input, H!Budget, H!Preamble, H!HeaderLen, H!Rooms, H!Section, H!Suffix, H!LineOf

LEMMA FitsStays ==
    ASSUME HookInv, UNCHANGED H!input
    PROVE  \A s, n : H!Fits(s, n)' <=> H!Fits(s, n)
BY InputStays DEF H!Fits

\* So what is left to show of a step is about the lines and the block.
LEMMA HookGoesOn ==
    ASSUME HookInv, UNCHANGED H!input,
           NEW n \in Nat, n <= Len(bodies), skipped' = n, lines' = H!Suffix(n),
           \A k \in 1..(n - 1) : ~H!Fits(H!Suffix(k), k),
           out' = H!NotYet /\ n > 0 => ~H!Fits(H!Suffix(n), n),
           n > 0 => H!SumOf(H!Suffix(0)) > H!Budget,
           out' \in Nat, out' # H!NotYet => out' <= H!Budget
    PROVE  HookInv'
<1>2. H!Suffix(n)' = H!Suffix(n) /\ H!Suffix(0)' = H!Suffix(0) /\ H!Budget' = H!Budget
  BY InputStays
<1>3. lines' = H!Suffix(skipped)'
  BY <1>2
<1>4. \A k \in 1..(n - 1) : ~H!Fits(H!Suffix(k), k)'
  BY InputStays, FitsStays
<1>5. out' = H!NotYet /\ n > 0 => ~H!Fits(H!Suffix(skipped), skipped)'
  BY <1>2, FitsStays
<1>6. n > 0 => H!SumOf(H!Suffix(0))' > H!Budget'
  BY <1>2, SumOfHook
<1>7. skipped' \in 0..Len(bodies')
  BY LenProperties DEF HookInv, H!input
<1> QED BY <1>2, <1>3, <1>4, <1>5, <1>6, <1>7, InputStays DEF HookInv

LEMMA HookStep ==
    ASSUME HookInv, H!Next
    PROVE  HookInv'
<1>1. UNCHANGED H!input
  BY DEF H!Next, H!FitsWhole, H!DropOldest, H!Silent
<1>2. Len(bodies) \in Nat /\ skipped \in Nat /\ skipped <= Len(bodies)
  BY LenProperties DEF HookInv
<1>3. lines = H!Suffix(skipped) /\ H!SumOf(lines) \in Nat
  BY SuffixIs DEF HookInv
<1>4. H!Budget \in Nat /\ H!Budget <= H!HOOK_OUTPUT_BUDGET
  BY BudgetBounds
<1>5. CASE H!FitsWhole
  <2>1. skipped = 0 /\ skipped' = 0 /\ lines' = lines
        /\ out' = H!SumOf(lines) /\ H!SumOf(lines) <= H!Budget
    BY <1>5 DEF H!FitsWhole
  <2> QED BY <1>1, <1>2, <1>3, <2>1, HookGoesOn
<1>6. CASE H!Silent
  <2>1. UNCHANGED <<lines, skipped>> /\ out' = 0
    BY <1>6 DEF H!Silent
  <2>2. 0 # H!NotYet
    BY DEF H!NotYet
  <2>3. PICK n \in Nat : n = skipped /\ n <= Len(bodies)
    BY <1>2
  <2> QED BY <1>1, <1>4, <2>1, <2>2, <2>3, HookGoesOn DEF HookInv
<1>7. CASE H!DropOldest
  <2>1. PICK n \in Nat : n = skipped
    BY <1>2
  <2>2. n < Len(bodies)
    <3>1. lines # <<>>
      BY <1>7 DEF H!DropOldest
    <3>2. Len(lines) = Len(bodies) - n /\ lines \in Seq(Nat)
      BY <1>2, <1>3, <2>1, SuffixIs DEF HookInv
    <3>3. Len(lines) # 0
      BY <3>1, <3>2, EmptySeq
    <3> QED BY <1>2, <2>1, <3>2, <3>3
  <2>3. lines' = H!Suffix(n + 1) /\ skipped' = n + 1
    <3>1. Tail(H!Suffix(n)) = H!Suffix(n + 1)
      BY <1>2, <2>1, <2>2, SuffixIs DEF HookInv
    <3> QED BY <1>3, <1>7, <2>1, <3>1 DEF H!DropOldest
  <2>4. H!SumOf(lines') \in Nat
    <3>1. n + 1 \in 0..Len(bodies)
      BY <1>2, <2>2
    <3>2. H!SumOf(H!Suffix(n + 1)) \in Nat
      BY <3>1, SuffixIs DEF HookInv
    <3> QED BY <2>3, <3>2
  <2>5. H!MarkerLen(n + 1) \in Nat
    BY <2>1, MarkerIsNat
  <2>6. out' = IF H!Fits(lines', n + 1) THEN H!MarkerLen(n + 1) + H!SumOf(lines') ELSE H!NotYet
    BY <1>7, <2>3 DEF H!DropOldest
  <2>7. H!NotYet \in Nat /\ H!NotYet > H!HOOK_OUTPUT_BUDGET /\ H!HOOK_OUTPUT_BUDGET \in Nat
    BY DEF H!NotYet, H!HOOK_OUTPUT_BUDGET
  <2>8. out' \in Nat /\ (out' # H!NotYet => out' <= H!Budget)
        /\ (out' = H!NotYet => ~H!Fits(lines', n + 1))
    <3>1. CASE H!Fits(lines', n + 1)
      BY <1>4, <2>4, <2>5, <2>6, <2>7, <3>1 DEF H!Fits
    <3>2. CASE ~H!Fits(lines', n + 1)
      BY <2>6, <2>7, <3>2
    <3> QED BY <3>1, <3>2
  <2>9. \A k \in 1..n : ~H!Fits(H!Suffix(k), k)
    <3>1. out = H!NotYet
      BY <1>7 DEF H!DropOldest
    <3>2. n > 0 => ~H!Fits(H!Suffix(n), n)
      BY <2>1, <3>1 DEF HookInv
    <3>3. \A k \in 1..(n - 1) : ~H!Fits(H!Suffix(k), k)
      BY <2>1 DEF HookInv
    <3>4. \A k \in 1..n : k \in 1..(n - 1) \/ k = n
      BY <2>1
    <3> QED BY <3>2, <3>3, <3>4
  <2>10. H!SumOf(H!Suffix(0)) > H!Budget
    BY <1>3, <1>7, <2>1 DEF HookInv, H!DropOldest
  <2>11. PICK m \in Nat : m = n + 1 /\ m <= Len(bodies) /\ m - 1 = n
    BY <1>2, <2>2
  <2> QED BY <1>1, <2>3, <2>8, <2>9, <2>10, <2>11, HookGoesOn
<1> QED BY <1>5, <1>6, <1>7 DEF H!Next

\* Of the messages the longest run of the newest that fits is printed, for any number of
\* rooms and texts, and for two rooms the output keeps to its 8 KiB (NewestWithinCap).
THEOREM NewestFit == PartsSpec => []NewestWithinCap
<1> DEFINE IInv == part = "hook" => HookInv
<1>1. PartsInit => IInv
  BY HookFirst DEF PartsInit
<1>2. IInv /\ [PartsNext]_<<part, vars, installVars, configVars, identityVars, tabsVars,
                            walkVars, hookVars>> => IInv'
  <2>1. CASE part = "hook" /\ H!Next
    BY <2>1, StepsOfHook, HookStep
  <2>2. CASE UNCHANGED hookVars
    <3> SUFFICES ASSUME HookInv, part' = "hook" PROVE HookInv'
      BY <2>2, StepsOfHook
    <3>1. UNCHANGED H!input /\ UNCHANGED <<lines, skipped, out>>
      BY <2>2 DEF hookVars, H!input
    <3>2. PICK n \in Nat : n = skipped /\ n <= Len(bodies)
      BY LenProperties DEF HookInv
    <3> QED BY <3>1, <3>2, HookGoesOn DEF HookInv
  <2> QED BY <2>1, <2>2, StepsOfHook
<1>3. IInv => NewestWithinCap
  <2> SUFFICES ASSUME HookInv PROVE H!NewestWithinCap
    BY DEF NewestWithinCap
  <2>1. H!Budget \in Nat /\ (H!Rooms <= 2 => H!HeaderLen + H!Preamble + H!Budget <= H!HOOK_OUTPUT_BUDGET)
    BY BudgetBounds
  <2>2. H!Preamble \in Nat /\ H!HeaderLen \in Nat
    BY PreambleBounds DEF HookInv
  <2>3. out # H!NotYet /\ H!Rooms <= 2 => H!HeaderLen + H!Preamble + out <= H!HOOK_OUTPUT_BUDGET
    <3>1. H!HOOK_OUTPUT_BUDGET \in Nat
      BY DEF H!HOOK_OUTPUT_BUDGET
    <3> QED BY <2>1, <2>2, <3>1 DEF HookInv
  <2> QED BY <2>3 DEF HookInv, H!NewestWithinCap
<1> QED BY <1>1, <1>2, <1>3, PTL DEF PartsSpec

-----------------------------------------------------------------------------
\* The search for the claude process

Processes == W!Pid \union {W!InitPid}
Trees == {f \in [W!Pid -> Processes] : \A p \in W!Pid : f[p] < p}
Closed(f, S) == S \in SUBSET Processes /\ \A r \in S \intersect W!Pid : f[r] \in S

LEMMA AboveIs ==
    ASSUME NEW f, NEW p
    PROVE  /\ W!Above(f, p) \subseteq Processes
           /\ \A q : q \in W!Above(f, p) <=>
                /\ q \in Processes /\ q # p
                /\ \A S : Closed(f, S) /\ p \in S => q \in S
BY DEF W!Above, Processes, Closed

LEMMA PidsAreNumbers ==
    /\ Processes \subseteq Nat /\ W!Pid \subseteq Processes /\ W!InitPid \in Processes
    /\ W!InitPid \notin W!Pid /\ W!NoPid \notin Processes
    /\ \A p \in Processes : p \notin W!Pid => p = W!InitPid
BY PartsAssumption DEF PartsAssumption, Processes, W!Pid, W!InitPid, W!NoPid

\* Above a process there are its parent and those above that; they have smaller PIDs.
LEMMA OneUp ==
    ASSUME NEW f \in Trees, NEW p \in W!Pid
    PROVE  /\ f[p] \in Processes /\ f[p] < p
           /\ W!Above(f, p) = W!Above(f, f[p]) \union {f[p]}
           /\ f[p] \notin W!Above(f, f[p])
           /\ \A q \in W!Above(f, p) : q <= f[p]
<1>1. PICK u \in Processes : u = f[p] /\ u < p
  BY DEF Trees
<1>2. u \in Nat /\ p \in Nat /\ p \in Processes /\ u # p
  BY <1>1, PidsAreNumbers
<1>3. ASSUME NEW q \in W!Above(f, u) PROVE q <= u
  <2>1. PICK S : S = {s \in Processes : s <= u}
    OBVIOUS
  <2>2. Closed(f, S)
    <3>1. ASSUME NEW r \in S \intersect W!Pid PROVE f[r] \in S
      <4>1. r \in Nat /\ r <= u /\ f[r] \in Processes /\ f[r] < r
        BY <2>1, PidsAreNumbers DEF Trees
      <4>2. PICK v \in Nat : v = f[r] /\ v < r
        BY <4>1, PidsAreNumbers
      <4>3. v <= u
        BY <1>2, <4>1, <4>2
      <4> QED BY <2>1, <4>1, <4>2, <4>3
    <3> QED BY <2>1, <3>1 DEF Closed
  <2>3. u \in S
    BY <1>1, <1>2, <2>1
  <2>4. q \in S
    BY <2>2, <2>3, AboveIs
  <2> QED BY <2>1, <2>4
<1>4. u \in W!Above(f, p)
  <2>1. \A S : Closed(f, S) /\ p \in S => u \in S
    BY <1>1 DEF Closed
  <2> QED BY <1>1, <1>2, <2>1, AboveIs
<1>5. ASSUME NEW q \in W!Above(f, u) PROVE q \in W!Above(f, p)
  <2>1. q \in Processes /\ q # p
    BY <1>1, <1>2, <1>3, <1>5, AboveIs, PidsAreNumbers
  <2>2. ASSUME NEW S, Closed(f, S), p \in S PROVE q \in S
    <3>1. u \in S
      BY <1>1, <2>2 DEF Closed
    <3> QED BY <2>2, <3>1, <1>5, AboveIs
  <2> QED BY <2>1, <2>2, AboveIs
<1>6. ASSUME NEW q \in W!Above(f, p), q # u PROVE q \in W!Above(f, u)
  <2>1. q \in Processes /\ q # p
    BY AboveIs
  <2>2. ASSUME NEW S, Closed(f, S), u \in S PROVE q \in S
    <3>1. PICK R : R = S \union {p}
      OBVIOUS
    <3>2. Closed(f, R)
      BY <1>1, <1>2, <2>2, <3>1 DEF Closed
    <3>3. q \in R
      BY <3>1, <3>2, AboveIs
    <3> QED BY <2>1, <3>1, <3>3
  <2> QED BY <1>6, <2>1, <2>2, AboveIs
<1>7. u \notin W!Above(f, u)
  BY AboveIs
<1>8. W!Above(f, p) = W!Above(f, u) \union {u}
  BY <1>4, <1>5, <1>6
<1>9. \A q \in W!Above(f, p) : q <= u
  BY <1>2, <1>3, <1>8
<1> QED BY <1>1, <1>7, <1>8, <1>9

LEMMA NoneAboveInit == ASSUME NEW f PROVE W!Above(f, W!InitPid) = {}
<1>1. PICK S : S = {W!InitPid}
  OBVIOUS
<1>2. Closed(f, S)
  BY <1>1, PidsAreNumbers DEF Closed
<1> QED BY <1>1, <1>2, AboveIs

\* How many they are.
LEMMA CountAbove ==
    ASSUME NEW f
    PROVE  \A p : /\ IsFiniteSet(W!Above(f, p)) /\ Cardinality(W!Above(f, p)) \in Nat
                  /\ W!Cardinality(W!Above(f, p)) = Cardinality(W!Above(f, p))
<1>1. IsFiniteSet(0..MaxPid)
  BY PartsAssumption, FS_Interval DEF PartsAssumption
<1>2. IsFiniteSet(Processes)
  <2>1. W!Pid \subseteq 0..MaxPid
    BY PartsAssumption DEF PartsAssumption, W!Pid, W!InitPid
  <2>2. IsFiniteSet(W!Pid)
    BY <1>1, <2>1, FS_Subset
  <2> QED BY <2>2, FS_AddElement DEF Processes
<1>3. \A S : W!Cardinality(S) = Cardinality(S)
  BY Zenon DEF Cardinality, W!Cardinality, IsFiniteSet, W!IsFiniteSet
<1>4. \A p : IsFiniteSet(W!Above(f, p))
  BY <1>2, AboveIs, FS_Subset
<1> QED BY <1>3, <1>4, FS_CardinalityType

LEMMA OneMoreAbove ==
    ASSUME NEW f \in Trees, NEW p \in W!Pid
    PROVE  Cardinality(W!Above(f, p)) = Cardinality(W!Above(f, f[p])) + 1
BY OneUp, CountAbove, FS_AddElement

\* The nearest claude is the parent, or else that of the parent.
LEMMA NearestIs ==
    ASSUME claude \subseteq W!Pid, NEW f \in Trees, NEW p \in W!Pid
    PROVE  /\ f[p] \in claude => W!Nearest(f, p) = f[p]
           /\ f[p] \notin claude => W!Nearest(f, p) = W!Nearest(f, f[p])
<1>1. PICK u : u = f[p]
  OBVIOUS
<1>2. ASSUME u \in claude PROVE W!Nearest(f, p) = u
  <2>1. PICK up : up = W!Above(f, p) \intersect claude
    OBVIOUS
  <2>2. u \in up /\ \A r \in up : r <= u
    BY <1>1, <1>2, <2>1, OneUp
  <2>3. \A r \in up : r \in Nat
    BY <2>1, PidsAreNumbers
  <2>4. \A q \in up : (\A r \in up : r <= q) => q = u
    BY <2>2, <2>3
  <2>5. (CHOOSE q \in up : \A r \in up : r <= q) = u
    BY <2>2, <2>4
  <2> QED BY <2>1, <2>2, <2>5 DEF W!Nearest
<1>3. ASSUME u \notin claude PROVE W!Nearest(f, p) = W!Nearest(f, u)
  <2>1. W!Above(f, p) \intersect claude = W!Above(f, u) \intersect claude
    BY <1>1, <1>3, OneUp
  <2>2. PICK up : up = W!Above(f, p) \intersect claude
    OBVIOUS
  <2>3. up = W!Above(f, u) \intersect claude
    BY <2>1, <2>2
  <2>4. W!Nearest(f, p) = IF up = {} THEN W!NoPid ELSE CHOOSE q \in up : \A r \in up : r <= q
    BY <2>2 DEF W!Nearest
  <2>5. W!Nearest(f, u) = IF up = {} THEN W!NoPid ELSE CHOOSE q \in up : \A r \in up : r <= q
    BY <2>3 DEF W!Nearest
  <2> QED BY <2>4, <2>5
<1> QED BY <1>1, <1>2, <1>3

LEMMA NoneNearInit == ASSUME NEW f PROVE W!Nearest(f, W!InitPid) = W!NoPid
BY NoneAboveInit DEF W!Nearest

\* The processes' tree when the walk began: a parent is what it was or, once that has
\* ended, init; the walk is as far up that tree as it is deep, below the claude it looks for.
Walked(tree) ==
    /\ parent \in [W!Pid -> Processes]
    /\ \A p \in W!Pid : parent[p] \in {tree[p], W!InitPid}
    /\ alive = W!Pid => parent = tree
    /\ nearest = W!Nearest(tree, start)
    /\ walking # "done" =>
          /\ W!Nearest(tree, pid) = nearest
          /\ Cardinality(W!Above(tree, start)) = depth + Cardinality(W!Above(tree, pid))
    /\ walking = "parent" => ppid \in W!Pid /\ ppid = tree[pid]
    /\ walking = "done" =>
          \/ found = nearest
          \/ found = W!NoPid /\ (alive # W!Pid \/ Cardinality(W!Above(tree, start)) > MaxDepth)

WalkTypes ==
    /\ claude \subseteq W!Pid /\ alive \subseteq W!Pid
    /\ start \in W!Pid /\ pid \in W!Pid
    /\ depth \in Nat
    /\ walking \in {"own", "parent", "done"}

WalkInv == WalkTypes /\ \E tree \in Trees : Walked(tree)

\* Nothing of what a tree has above a process depends on the state but for the claudes.
LEMMA NearestStays == ASSUME UNCHANGED claude, NEW f, NEW p PROVE W!Nearest(f, p)' = W!Nearest(f, p)
BY DEF W!Nearest

LEMMA WalkFirst ==
    ASSUME W!Init
    PROVE  WalkInv
<1>1. parent \in Trees
  BY DEF W!Init, Trees, Processes
<1>2. Walked(parent)
  <2>1. Cardinality(W!Above(parent, start)) = 0 + Cardinality(W!Above(parent, start))
    BY CountAbove
  <2> QED BY <1>1, <2>1 DEF Walked, W!Init, Trees
<1> QED BY <1>1, <1>2 DEF WalkInv, WalkTypes, W!Init

LEMMA WalkStep ==
    ASSUME WalkInv, W!Next
    PROVE  WalkInv'
<1>1. PICK tree \in Trees : Walked(tree)
  BY DEF WalkInv
<1>2. WalkTypes
  BY DEF WalkInv
<1>3. claude' = claude /\ UNCHANGED <<start, nearest>>
  BY DEF W!Next, W!LookupOwn, W!LookupParent, W!Ends, W!Answer, W!walk
<1>4. PICK c \in Nat : c = Cardinality(W!Above(tree, start))
  BY CountAbove
<1>5. \A p : W!Nearest(tree, p)' = W!Nearest(tree, p)
  BY <1>3, NearestStays
<1>6. W!Nearest(tree, start)' = W!Nearest(tree, start)
  BY <1>3, <1>5
<1>7. ASSUME NEW a, W!Answer(a), a = nearest \/ (a = W!NoPid /\ (alive # W!Pid \/ c > MaxDepth))
      PROVE  WalkInv'
  <2>1. UNCHANGED <<parent, alive, start, nearest, pid, depth>> /\ walking' = "done" /\ found' = a
    BY <1>7 DEF W!Answer
  <2>2. Walked(tree)'
    BY <1>1, <1>4, <1>6, <1>7, <2>1 DEF Walked
  <2>3. WalkTypes'
    BY <1>2, <1>3, <2>1 DEF WalkTypes
  <2> QED BY <2>2, <2>3 DEF WalkInv
<1>8. ASSUME NEW p \in W!Pid, W!Ends(p) PROVE WalkInv'
  <2>1. /\ UNCHANGED <<pid, ppid, depth, walking, found>> /\ walking # "done"
        /\ p \in alive /\ alive' = alive \ {p}
        /\ parent' = [q \in W!Pid |-> IF parent[q] = p THEN W!InitPid ELSE parent[q]]
    BY <1>8 DEF W!Ends, W!walk
  <2>2. alive' # W!Pid /\ alive' \subseteq W!Pid
    BY <1>2, <2>1 DEF WalkTypes
  <2>3. parent' \in [W!Pid -> Processes] /\ \A q \in W!Pid : parent'[q] \in {tree[q], W!InitPid}
    BY <1>1, <2>1, PidsAreNumbers DEF Walked
  <2>4. W!Nearest(tree, pid)' = nearest
    BY <1>1, <1>5, <2>1 DEF Walked
  <2>5. Walked(tree)'
    BY <1>1, <1>3, <1>6, <2>1, <2>2, <2>3, <2>4 DEF Walked
  <2>6. WalkTypes'
    BY <1>2, <1>3, <2>1, <2>2 DEF WalkTypes
  <2> QED BY <2>5, <2>6 DEF WalkInv
<1>9. CASE W!LookupOwn
  <2>1. PICK p \in W!Pid : p = pid
    BY <1>2 DEF WalkTypes
  <2>2. tree[p] \in Processes /\ parent[p] \in Processes /\ parent[p] \in {tree[p], W!InitPid}
    BY <1>1 DEF Walked, Trees
  <2>3. CASE p \notin alive
    <3>1. W!Answer(W!NoPid) /\ alive # W!Pid
      BY <1>9, <2>1, <2>3 DEF W!LookupOwn
    <3> QED BY <1>7, <3>1
  <2>4. CASE parent[p] = W!InitPid
    <3>1. W!Answer(W!NoPid)
      BY <1>9, <2>1, <2>4 DEF W!LookupOwn, W!InitPid
    <3>2. CASE alive = W!Pid
      <4>1. tree[p] = W!InitPid /\ W!Nearest(tree, p) = nearest
        BY <1>1, <1>9, <2>1, <2>4, <3>2 DEF Walked, W!LookupOwn
      <4>2. nearest = W!NoPid
        BY <1>2, <4>1, NearestIs, NoneNearInit, PidsAreNumbers DEF WalkTypes
      <4> QED BY <1>7, <3>1, <4>2
    <3>3. CASE alive # W!Pid
      BY <1>7, <3>1, <3>3
    <3> QED BY <3>2, <3>3
  <2>5. CASE p \in alive /\ parent[p] # W!InitPid
    <3>1. parent[p] \in W!Pid /\ parent[p] = tree[p]
      BY <2>2, <2>5 DEF Processes
    <3>2. ~(parent[p] <= W!InitPid)
      BY <3>1 DEF W!Pid, W!InitPid
    <3>3. /\ ppid' = parent[p] /\ walking' = "parent" /\ walking = "own"
          /\ UNCHANGED <<parent, claude, alive, pid, depth, found>>
      BY <1>9, <2>1, <2>5, <3>2 DEF W!LookupOwn
    <3>4. W!Nearest(tree, pid)' = nearest
      BY <1>1, <1>5, <3>3 DEF Walked
    <3>5. Walked(tree)'
      BY <1>1, <1>3, <1>6, <2>1, <3>1, <3>3, <3>4 DEF Walked
    <3>6. WalkTypes'
      BY <1>2, <1>3, <3>3 DEF WalkTypes
    <3> QED BY <3>5, <3>6 DEF WalkInv
  <2> QED BY <2>3, <2>4, <2>5
<1>10. CASE W!LookupParent
  <2>1. PICK p \in W!Pid : p = pid
    BY <1>2 DEF WalkTypes
  <2>2. PICK u \in W!Pid : u = ppid /\ u = tree[p]
    BY <1>1, <1>10, <2>1 DEF Walked, W!LookupParent
  <2>3. PICK d \in Nat : d = Cardinality(W!Above(tree, u))
    BY CountAbove
  <2>4. W!Nearest(tree, p) = nearest /\ c = depth + (d + 1) /\ depth \in Nat
    <3>1. Cardinality(W!Above(tree, p)) = d + 1
      BY <2>2, <2>3, OneMoreAbove
    <3> QED BY <1>1, <1>2, <1>4, <1>10, <2>1, <3>1 DEF Walked, WalkTypes, W!LookupParent
  <2>5. CASE u \notin alive
    <3>1. W!Answer(W!NoPid) /\ alive # W!Pid
      BY <1>10, <2>2, <2>5 DEF W!LookupParent
    <3> QED BY <1>7, <3>1
  <2>6. CASE u \in alive /\ u \in claude
    <3>1. u # W!NoPid
      BY PidsAreNumbers
    <3>2. W!Answer(u)
      BY <1>10, <2>2, <2>6, <3>1 DEF W!LookupParent, W!Match
    <3>3. u = nearest
      BY <1>2, <2>2, <2>4, <2>6, NearestIs DEF WalkTypes
    <3> QED BY <1>7, <3>2, <3>3
  <2>7. CASE u \in alive /\ u \notin claude /\ depth + 1 = MaxDepth
    <3>1. W!Answer(W!NoPid)
      BY <1>10, <2>2, <2>7 DEF W!LookupParent, W!Match
    <3>2. d >= 1
      <4>1. PICK e \in Nat : e = Cardinality(W!Above(tree, tree[u]))
        BY CountAbove
      <4>2. d = e + 1
        BY <2>3, <4>1, OneMoreAbove
      <4> QED BY <4>1, <4>2
    <3>3. c > MaxDepth
      BY <2>4, <2>7, <3>2
    <3> QED BY <1>7, <3>1, <3>3
  <2>8. CASE u \in alive /\ u \notin claude /\ depth + 1 # MaxDepth
    <3>1. /\ pid' = u /\ depth' = depth + 1 /\ walking' = "own"
          /\ UNCHANGED <<parent, alive, found>>
      BY <1>10, <2>2, <2>8 DEF W!LookupParent, W!Match
    <3>2. W!Nearest(tree, u) = nearest
      BY <1>2, <2>2, <2>4, <2>8, NearestIs DEF WalkTypes
    <3>3. W!Nearest(tree, pid)' = nearest
      BY <1>5, <3>1, <3>2
    <3>4. c = depth' + Cardinality(W!Above(tree, pid'))
      BY <2>3, <2>4, <3>1
    <3>5. Walked(tree)'
      BY <1>1, <1>3, <1>4, <1>6, <3>1, <3>3, <3>4 DEF Walked
    <3>6. WalkTypes'
      BY <1>2, <1>3, <2>4, <3>1 DEF WalkTypes
    <3> QED BY <3>5, <3>6 DEF WalkInv
  <2> QED BY <2>5, <2>6, <2>7, <2>8
<1> QED BY <1>8, <1>9, <1>10 DEF W!Next

\* A walk that answers found the claude its process belonged to, for any tree of
\* processes, and whichever of them end meanwhile (RightClaude).
THEOREM FindsRightClaude == PartsSpec => []RightClaude
<1> DEFINE IInv == part = "walk" => WalkInv
<1>1. PartsInit => IInv
  BY WalkFirst DEF PartsInit
<1>2. IInv /\ [PartsNext]_<<part, vars, installVars, configVars, identityVars, tabsVars,
                            walkVars, hookVars>> => IInv'
  <2>1. CASE part = "walk" /\ W!Next
    BY <2>1, StepsOfWalk, WalkStep
  <2>2. CASE UNCHANGED walkVars
    <3> SUFFICES ASSUME WalkInv, part' = "walk" PROVE WalkInv'
      BY <2>2, StepsOfWalk
    <3>1. UNCHANGED <<parent, claude, alive, start, pid, ppid, depth, walking, found, nearest>>
      BY <2>2 DEF walkVars
    <3>2. PICK tree \in Trees : Walked(tree)
      BY DEF WalkInv
    <3>3. W!Nearest(tree, start)' = W!Nearest(tree, start) /\ W!Nearest(tree, pid)' = W!Nearest(tree, pid)
      BY <3>1 DEF W!Nearest
    <3>4. Walked(tree)'
      BY <3>1, <3>2, <3>3 DEF Walked
    <3>5. WalkTypes'
      BY <3>1 DEF WalkInv, WalkTypes
    <3> QED BY <3>4, <3>5 DEF WalkInv
  <2> QED BY <2>1, <2>2, StepsOfWalk
<1>3. IInv => RightClaude
  <2> SUFFICES ASSUME WalkInv, walking = "done"
               PROVE  \/ found = nearest
                      \/ found = W!NoPid /\ (alive # W!Pid \/ W!Cardinality(W!Above(parent, start)) > MaxDepth)
    BY DEF RightClaude, W!RightClaude
  <2>1. PICK tree \in Trees : Walked(tree)
    BY DEF WalkInv
  <2> QED BY <2>1, CountAbove DEF Walked
<1> QED BY <1>1, <1>2, <1>3, PTL DEF PartsSpec
=============================================================================

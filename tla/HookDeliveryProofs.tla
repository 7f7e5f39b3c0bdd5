------------------------- MODULE HookDeliveryProofs -------------------------
(***************************************************************************)
(* Theorems about HookDelivery: types, and that no message is missed while *)
(* the logs are in order of id, for any number of hooks at once, rooms and *)
(* messages, any budget, and any failure or kill.                          *)
(***************************************************************************)
EXTENDS HookDelivery, WellFoundedInduction, TLAPS

\* A set of numbers up to n that is not empty has a largest one.
LEMMA LargestExists ==
    ASSUME NEW n \in Nat, NEW S \in SUBSET (0..n), S # {}
    PROVE  \E i \in S : \A j \in S : j <= i
<1> DEFINE Less == OpToRel(<, Nat)
           Distance == {m \in Nat : \E i \in S : m = n - i}
<1>1. IsWellFoundedOn(Less, Nat)
  BY NatLessThanWellFounded
<1>2. Distance \subseteq Nat
  OBVIOUS
<1>3. \A i \in S : n - i \in Distance
  OBVIOUS
<1> HIDE DEF Less, Distance
<1>4. PICK x \in Distance : \A y \in Distance : ~ (<<y, x>> \in Less)
  BY <1>1, <1>2, <1>3, WFMin
<1>5. \A y \in Distance : ~ (y < x)
  BY <1>2, <1>4 DEF OpToRel, Less
<1>6. PICK i \in S : x = n - i
  BY DEF Distance
<1> QED BY <1>3, <1>5, <1>6

\* read_since's last message is one of those it found.
LEMMA LastFoundIsFound ==
    ASSUME TypeOK, NEW r \in Room, NEW c \in Id \union {None}, Found(r, c) # {}
    PROVE  \E i \in Found(r, c) : LastFound(r, c) = log[r][i]
<1>1. log[r] \in Seq(Id)
  BY DEF TypeOK
<1>2. Found(r, c) \in SUBSET (0..Len(log[r]))
  BY <1>1 DEF Found
<1>3. Len(log[r]) \in Nat
  BY <1>1
<1>4. \E i \in Found(r, c) : \A j \in Found(r, c) : j <= i
  <2> HIDE DEF Found
  <2> QED BY <1>2, <1>3, LargestExists
<1> QED BY <1>4 DEF LastFound

-----------------------------------------------------------------------------
\* Every variable keeps its range; a cursor is never set to anything but an id
\* that was read from its log.
THEOREM TypeCorrect == Spec => []TypeOK
<1>1. Init => TypeOK
  BY ConstantsAssumption DEF Init, TypeOK, NothingFound, NoTarget, None, Id
<1>2. TypeOK /\ [Next]_vars => TypeOK'
  <2> SUFFICES ASSUME TypeOK, [Next]_vars PROVE TypeOK'
    OBVIOUS
  <2> USE DEF TypeOK, locals, history, daemons, None
  <2>1. ASSUME NEW r \in Room, NEW id \in Id, AppendLog(r, id) PROVE TypeOK'
    BY <2>1 DEF AppendLog
  <2>2. ASSUME NEW h \in Hook, NEW rs \in SUBSET Room, Fire(h, rs) PROVE TypeOK'
    BY <2>2 DEF Fire
  <2>3. ASSUME NEW h \in Hook, NEW r \in Room, ReadCursor(h, r) PROVE TypeOK'
    BY <2>3 DEF ReadCursor, None
  <2>4. ASSUME NEW h \in Hook, ScanLog(h) PROVE TypeOK'
    <3>1. LastFound(room[h], from[h]) \in Id \union {None}
      <4>1. CASE Found(room[h], from[h]) = {}
        BY <4>1 DEF LastFound
      <4>2. CASE Found(room[h], from[h]) # {}
        <5>1. PICK i \in Found(room[h], from[h]) :
                 LastFound(room[h], from[h]) = log[room[h]][i]
          BY <4>2, LastFoundIsFound
        <5> QED BY <5>1 DEF Found
      <4> QED BY <4>1, <4>2
    <3>2. {log[room[h]][i] : i \in Found(room[h], from[h])} \in SUBSET Id
      BY DEF Found
    <3> HIDE DEF None
    <3> QED BY <2>4, <3>1, <3>2 DEF ScanLog, NextRoom
  <2>5. ASSUME NEW h \in Hook, ScanFails(h) PROVE TypeOK'
    BY <2>5 DEF ScanFails, NextRoom
  <2>6. ASSUME NEW h \in Hook, WriteStdout(h) PROVE TypeOK'
    BY <2>6 DEF WriteStdout
  <2>7. ASSUME NEW h \in Hook, Exit(h), UNCHANGED <<daemons, cursor, room, from, history>>
        PROVE  TypeOK'
    <3>1. NothingFound \in [Room -> SUBSET Id] /\ NoTarget \in [Room -> Id \union {None}]
      BY DEF NothingFound, NoTarget
    <3> QED BY <2>7, <3>1 DEF Exit
  <2>8. ASSUME NEW h \in Hook, NEW r \in Room, Advance(h, r) \/ AdvanceFails(h, r)
        PROVE  TypeOK'
    <3>1. target[h][r] \in Id \union {None}
      OBVIOUS
    <3>2. CASE Advance(h, r)
      BY <3>1, <3>2 DEF Advance, NewCursor
    <3>3. CASE AdvanceFails(h, r)
      BY <3>3 DEF AdvanceFails
    <3> QED BY <2>8, <3>2, <3>3
  <2>9. CASE UNCHANGED vars
    BY <2>9 DEF vars
  <2> QED BY <2>1, <2>2, <2>3, <2>4, <2>5, <2>6, <2>7, <2>8, <2>9
          DEF Next, Step, WriteNothing, Done, Dies
<1> QED BY <1>1, <1>2, PTL DEF Spec

-----------------------------------------------------------------------------
Increasing(s) == \A i, j \in DOMAIN s : i < j => s[i] < s[j]

\* What c has moved past in the log of r is in S, and the log has come as far as c.
Covers(r, c, S) ==
    /\ \A i \in DOMAIN log[r] : log[r][i] <= c => log[r][i] \in S
    /\ c = None \/ \E i \in DOMAIN log[r] : log[r][i] = c

\* The inductive invariant: behind every cursor, behind the cursor a hook has
\* read and behind the id a hook is to advance to, there are only messages
\* that were printed or left out, or that this very hook is about to print.
DeliveryInv ==
    /\ \A r \in Room : Increasing(log[r])
    /\ \A r \in Room : Covers(r, cursor[r], Passed(r))
    /\ \A h \in Hook :
          /\ pc[h] = "scan" => Covers(room[h], from[h], Passed(room[h]))
          /\ pc[h] \in {"read", "scan", "print"} =>
                \A r \in Room : Covers(r, target[h][r], Passed(r) \union unread[h][r])
          /\ pc[h] = "advance" =>
                \A r \in todo[h] : Covers(r, target[h][r], Passed(r))
          /\ pc[h] = "idle" => target[h] = NoTarget

\* Covers survives a log that grows in order, and a larger S.
LEMMA CoversGrows ==
    ASSUME NEW r \in Room, NEW c \in Id \union {None}, NEW S, NEW T, S \subseteq T,
           log[r] \in Seq(Id), Covers(r, c, S),
           \/ log'[r] = log[r]
           \/ \E id \in Id : /\ log'[r] = Append(log[r], id)
                             /\ \A i \in DOMAIN log[r] : log[r][i] < id
    PROVE  /\ \A i \in DOMAIN log'[r] : log'[r][i] <= c => log'[r][i] \in T
           /\ c = None \/ \E i \in DOMAIN log'[r] : log'[r][i] = c
<1>1. CASE log'[r] = log[r]
  BY <1>1 DEF Covers
<1>2. ASSUME NEW id \in Id, log'[r] = Append(log[r], id),
             \A i \in DOMAIN log[r] : log[r][i] < id
      PROVE  /\ \A i \in DOMAIN log'[r] : log'[r][i] <= c => log'[r][i] \in T
             /\ c = None \/ \E i \in DOMAIN log'[r] : log'[r][i] = c
  <2>1. \A i \in DOMAIN log[r] : i \in DOMAIN log'[r] /\ log'[r][i] = log[r][i]
    BY <1>2
  <2>2. \A i \in DOMAIN log'[r] : i \in DOMAIN log[r] \/ log'[r][i] = id
    BY <1>2
  <2>3. c < id
    BY <1>2, ConstantsAssumption DEF Covers, Id, None
  <2>4. ~ (id <= c)
    BY <2>3, ConstantsAssumption DEF Id, None
  <2> QED BY <2>1, <2>2, <2>4 DEF Covers
<1> QED BY <1>1, <1>2
\* A scan: what it has found, with what was behind the cursor it read, is all
\* there is up to the last line.
LEMMA ScanCovers ==
    ASSUME TypeOK, NEW r \in Room, NEW c \in Id \union {None},
           Increasing(log[r]), Covers(r, c, Passed(r))
    PROVE  Covers(r, LastFound(r, c), Passed(r) \union {log[r][i] : i \in Found(r, c)})
<1>1. CASE Found(r, c) = {}
  BY <1>1, ConstantsAssumption DEF LastFound, Covers, TypeOK, Id, None
<1>2. CASE Found(r, c) # {}
  <2>1. PICK i \in Found(r, c) : LastFound(r, c) = log[r][i]
    BY <1>2, LastFoundIsFound
  <2>2. \A j \in DOMAIN log[r] : log[r][j] <= c \/ j \in Found(r, c)
    BY ConstantsAssumption DEF Found, Unseen, TypeOK, Id, None
  <2>3. i \in DOMAIN log[r]
    BY DEF Found
  <2> QED BY <2>1, <2>2, <2>3 DEF Covers
<1> QED BY <1>1, <1>2

LEMMA DeliveryCovered == ASSUME InOrder PROVE Spec => []DeliveryInv
<1>1. Init => DeliveryInv
  BY ConstantsAssumption DEF Init, DeliveryInv, Covers, Increasing, NoTarget, None
<1>2. TypeOK /\ TypeOK' /\ DeliveryInv /\ [Next]_vars => DeliveryInv'
  <2> SUFFICES ASSUME TypeOK, TypeOK', DeliveryInv, [Next]_vars PROVE DeliveryInv'
    OBVIOUS
  <2> USE DEF locals, history, daemons
  <2>1. ASSUME NEW r \in Room, NEW id \in Id, AppendLog(r, id) PROVE DeliveryInv'
    <3>1. \A s \in Room :
            \/ log'[s] = log[s]
            \/ /\ log'[s] = Append(log[s], id)
               /\ \A i \in DOMAIN log[s] : log[s][i] < id
      BY <2>1, InOrder DEF AppendLog, Logged, TypeOK
    <3>2. ASSUME NEW s \in Room PROVE Increasing(log'[s])
      <4>1. log[s] \in Seq(Id) /\ Increasing(log[s])
        BY DEF TypeOK, DeliveryInv
      <4>2. CASE log'[s] = log[s]
        BY <4>1, <4>2
      <4>3. CASE log'[s] = Append(log[s], id) /\ \A i \in DOMAIN log[s] : log[s][i] < id
        <5>1. \A i \in DOMAIN log[s] : log'[s][i] = log[s][i]
          BY <4>1, <4>3
        <5>2. \A i \in DOMAIN log'[s] :
                 i \in DOMAIN log[s] \/ (i = Len(log[s]) + 1 /\ log'[s][i] = id)
          BY <4>1, <4>3
        <5>3. \A i, j \in DOMAIN log'[s] : i < j => i \in DOMAIN log[s]
          BY <4>1, <4>3
        <5> QED BY <4>1, <4>3, <5>1, <5>2, <5>3 DEF Increasing
      <4> QED BY <3>1, <4>2, <4>3
    <3>3. \A s \in Room : Passed(s)' = Passed(s)
      BY <2>1 DEF AppendLog, Passed
    <3>a. ASSUME NEW s \in Room, NEW c \in Id \union {None}, NEW S, Covers(s, c, S)
          PROVE  /\ \A i \in DOMAIN log'[s] : log'[s][i] <= c => log'[s][i] \in S
                 /\ c = None \/ \E i \in DOMAIN log'[s] : log'[s][i] = c
      <4>1. log[s] \in Seq(Id)
        BY DEF TypeOK
      <4>2. \/ log'[s] = log[s]
            \/ \E k \in Id : /\ log'[s] = Append(log[s], k)
                             /\ \A i \in DOMAIN log[s] : log[s][i] < k
        BY <3>1
      <4> QED BY <3>a, <4>1, <4>2, CoversGrows
    <3>4. ASSUME NEW s \in Room PROVE Covers(s, cursor[s], Passed(s))'
      <4>1. cursor[s] \in Id \union {None} /\ Covers(s, cursor[s], Passed(s))
        BY DEF TypeOK, DeliveryInv
      <4>2. cursor' = cursor
        BY <2>1 DEF AppendLog
      <4> QED BY <3>3, <3>a, <4>1, <4>2 DEF Covers
    <3>5. ASSUME NEW h \in Hook, pc[h] = "scan"
          PROVE  Covers(room[h], from[h], Passed(room[h]))'
      <4>1. /\ room[h] \in Room /\ from[h] \in Id \union {None}
            /\ Covers(room[h], from[h], Passed(room[h]))
        BY <3>5 DEF TypeOK, DeliveryInv
      <4>2. room'[h] = room[h] /\ from'[h] = from[h] /\ Passed(room[h])' = Passed(room[h])
        BY <2>1 DEF AppendLog, Passed
      <4>3. LET s == room[h]
                c == from[h]
            IN  /\ \A i \in DOMAIN log'[s] : log'[s][i] <= c => log'[s][i] \in Passed(s)
                /\ c = None \/ \E i \in DOMAIN log'[s] : log'[s][i] = c
        BY <3>a, <4>1
      <4> QED BY <4>2, <4>3 DEF Covers
    <3>6. ASSUME NEW h \in Hook, NEW s \in Room, pc[h] \in {"read", "scan", "print"}
          PROVE  Covers(s, target[h][s], Passed(s) \union unread[h][s])'
      <4>1. /\ target[h][s] \in Id \union {None}
            /\ Covers(s, target[h][s], Passed(s) \union unread[h][s])
        BY <3>6 DEF TypeOK, DeliveryInv
      <4>2. target' = target /\ unread' = unread
        BY <2>1 DEF AppendLog
      <4>3. LET c == target[h][s]
                S == Passed(s) \union unread[h][s]
            IN  /\ \A i \in DOMAIN log'[s] : log'[s][i] <= c => log'[s][i] \in S
                /\ c = None \/ \E i \in DOMAIN log'[s] : log'[s][i] = c
        BY <3>a, <4>1
      <4> QED BY <3>3, <4>2, <4>3 DEF Covers
    <3>7. ASSUME NEW h \in Hook, pc[h] = "advance", NEW s \in todo[h]
          PROVE  Covers(s, target[h][s], Passed(s))'
      <4>1. /\ s \in Room /\ target[h][s] \in Id \union {None}
            /\ Covers(s, target[h][s], Passed(s))
        BY <3>7 DEF TypeOK, DeliveryInv
      <4>2. target' = target
        BY <2>1 DEF AppendLog
      <4> QED BY <3>3, <3>a, <4>1, <4>2 DEF Covers
    <3>8. UNCHANGED <<pc, todo, target>>
      BY <2>1 DEF AppendLog
    <3> QED BY <3>2, <3>4, <3>5, <3>6, <3>7, <3>8 DEF DeliveryInv, NoTarget
  <2>2. ASSUME NEW h \in Hook, NEW rs \in SUBSET Room, Fire(h, rs) PROVE DeliveryInv'
    BY <2>2, ConstantsAssumption
       DEF Fire, DeliveryInv, Covers, Passed, NoTarget, TypeOK, Id, None
  <2>3. ASSUME NEW h \in Hook, NEW r \in Room, ReadCursor(h, r) PROVE DeliveryInv'
    <3>1. PICK c \in {cursor[r], None} : from' = [from EXCEPT ![h] = c]
      BY <2>3 DEF ReadCursor
    <3>2. Covers(r, c, Passed(r))
      <4>1. Covers(r, cursor[r], Passed(r))
        BY DEF DeliveryInv
      <4>2. \A i \in DOMAIN log[r] : log[r][i] \in Id
        BY DEF TypeOK
      <4>3. Covers(r, None, Passed(r))
        BY <4>2, ConstantsAssumption DEF Covers, None, Id
      <4> QED BY <3>1, <4>1, <4>3
    <3> QED BY <2>3, <3>1, <3>2 DEF ReadCursor, DeliveryInv, Covers, Passed, TypeOK
  <2>4. ASSUME NEW h \in Hook, ScanLog(h) PROVE DeliveryInv'
    <3> DEFINE r == room[h]
               new == {log[r][i] : i \in Found(r, from[h])}
    <3>1. r \in Room /\ from[h] \in Id \union {None} /\ pc[h] = "scan"
      BY <2>4 DEF TypeOK, ScanLog
    <3>2. Covers(r, LastFound(r, from[h]), Passed(r) \union new)
      BY <3>1, ScanCovers DEF DeliveryInv
    <3>3. /\ UNCHANGED <<log, cursor, injected, dropped, room, from>>
          /\ unread' = [unread EXCEPT ![h][r] = new]
          /\ target' = [target EXCEPT ![h][r] = LastFound(r, from[h])]
          /\ todo' = [todo EXCEPT ![h] = @ \ {r}]
          /\ \E k \in {"print", "read"} : pc' = [pc EXCEPT ![h] = k]
      BY <2>4 DEF ScanLog, NextRoom
    <3>4. ASSUME NEW s \in Room PROVE Covers(s, target'[h][s], Passed(s) \union unread'[h][s])
      <4>1. CASE s = r
        <5>1. unread'[h][s] = new /\ target'[h][s] = LastFound(r, from[h])
          BY <3>1, <3>3, <4>1 DEF TypeOK
        <5> QED BY <3>2, <4>1, <5>1
      <4>2. CASE s # r
        <5>1. unread'[h][s] = unread[h][s] /\ target'[h][s] = target[h][s]
          BY <3>1, <3>3, <4>2 DEF TypeOK
        <5> QED BY <3>1, <5>1 DEF DeliveryInv
      <4> QED BY <4>1, <4>2
    <3>5. \A k \in Hook \ {h} : /\ pc'[k] = pc[k] /\ todo'[k] = todo[k]
                              /\ target'[k] = target[k] /\ unread'[k] = unread[k]
      BY <3>3 DEF TypeOK
    <3>6. pc'[h] \in {"print", "read"}
      BY <3>3 DEF TypeOK
    <3> HIDE DEF r, new
    <3> QED BY <3>3, <3>4, <3>5, <3>6 DEF DeliveryInv, Covers, Passed, TypeOK
  <2>5. ASSUME NEW h \in Hook, ScanFails(h) PROVE DeliveryInv'
    BY <2>5 DEF ScanFails, NextRoom, DeliveryInv, Covers, Passed, TypeOK
  <2>6. ASSUME NEW h \in Hook, WriteStdout(h) PROVE DeliveryInv'
    BY <2>6 DEF WriteStdout, DeliveryInv, Covers, Passed, TypeOK
  <2>7. ASSUME NEW h \in Hook, Exit(h), UNCHANGED <<daemons, cursor, room, from, history>>
        PROVE  DeliveryInv'
    BY <2>7 DEF Exit, DeliveryInv, Covers, Passed, TypeOK
  <2>8. ASSUME NEW h \in Hook, NEW r \in Room, Advance(h, r) PROVE DeliveryInv'
    BY <2>8 DEF Advance, NewCursor, DeliveryInv, Covers, Passed, TypeOK
  <2>9. ASSUME NEW h \in Hook, NEW r \in Room, AdvanceFails(h, r) PROVE DeliveryInv'
    BY <2>9 DEF AdvanceFails, DeliveryInv, Covers, Passed, TypeOK
  <2>10. CASE UNCHANGED vars
    BY <2>10 DEF vars, DeliveryInv, Covers, Passed
  <2> QED BY <2>1, <2>2, <2>3, <2>4, <2>5, <2>6, <2>7, <2>8, <2>9, <2>10
          DEF Next, Step, WriteNothing, Done, Dies
<1> QED BY <1>1, <1>2, TypeCorrect, PTL DEF Spec

\* With logs in order of id, a cursor has no message behind it that was neither
\* printed nor left out to fit: a hook that overlaps another, fails or is killed
\* may print a message twice, and never misses one.
THEOREM NeverMissed == ASSUME InOrder PROVE Spec => []NothingMissed
<1>1. DeliveryInv => NothingMissed
  BY DEF DeliveryInv, Covers, NothingMissed
<1> QED BY <1>1, DeliveryCovered, InOrder, PTL

-----------------------------------------------------------------------------
\* read_since's last message is the newest, if the log is in order.
LEMMA LastFoundIsNewest ==
    ASSUME TypeOK, NEW r \in Room, NEW c \in Id \union {None}, Increasing(log[r]),
           NEW i \in Found(r, c)
    PROVE  log[r][i] <= LastFound(r, c) /\ c < LastFound(r, c)
<1>1. log[r] \in Seq(Id) /\ Found(r, c) \subseteq DOMAIN log[r] /\ Found(r, c) # {}
  BY DEF TypeOK, Found
<1>2. DOMAIN log[r] = 1..Len(log[r]) /\ Len(log[r]) \in Nat
  BY <1>1
<1>3. \E k \in Found(r, c) : \A j \in Found(r, c) : j <= k
  <2>1. Found(r, c) \in SUBSET (0..Len(log[r]))
    BY <1>1, <1>2
  <2> HIDE DEF Found
  <2> QED BY <1>1, <1>2, <2>1, LargestExists
<1>4. PICK k \in Found(r, c) :
        LastFound(r, c) = log[r][k] /\ \A j \in Found(r, c) : j <= k
  BY <1>1, <1>3 DEF LastFound
<1>5. log[r][i] = log[r][k] \/ log[r][i] < log[r][k]
  BY <1>1, <1>2, <1>4 DEF Increasing
<1>6. log[r][k] > c
  BY <1>4 DEF Found, Unseen
<1>7. log[r][i] \in Id /\ log[r][k] \in Id
  BY <1>1, <1>2, <1>4
<1>8. log[r][i] \in Int /\ log[r][k] \in Int /\ c \in Int
  BY <1>7, ConstantsAssumption DEF Id, None
<1> HIDE DEF Found, LastFound
<1> QED BY <1>4, <1>5, <1>6, <1>8

Below(S, c) == \A id \in S : id <= c

\* What a hook that is alone has printed is behind the cursor, or behind the id it is
\* about to set the cursor to; what it is about to print is not.
OnceInv ==
    /\ \A r \in Room : again[r] = {}
    /\ \A h \in Hook :
          /\ pc[h] = "idle" => unread[h] = NothingFound /\ target[h] = NoTarget
          /\ pc[h] = "scan" => from[h] = cursor[room[h]]
          /\ pc[h] # "advance" => \A r \in Room :
                /\ Below(injected[r], cursor[r])
                /\ Below(unread[h][r], target[h][r])
                /\ \A id \in unread[h][r] : cursor[r] < id
                /\ target[h][r] # None => cursor[r] < target[h][r]
                /\ target[h][r] = None => unread[h][r] = {}
          /\ pc[h] = "advance" => \A r \in Room :
                Below(injected[r], IF r \in todo[h] THEN target[h][r] ELSE cursor[r])

\* While hooks of the session neither overlap nor fail, and the logs are in order of
\* id, none prints a message that one before it has printed.
THEOREM PrintedOnce ==
    ASSUME InOrder, ~Faulty, \A h1, h2 \in Hook : h1 = h2
    PROVE  Spec => []NothingTwice
<1>1. Init => OnceInv
  BY DEF Init, OnceInv, Below, NothingFound, NoTarget, None
<1>2. TypeOK /\ DeliveryInv /\ OnceInv /\ [Next]_vars => OnceInv'
  <2> SUFFICES ASSUME TypeOK, DeliveryInv, OnceInv, [Next]_vars PROVE OnceInv'
    OBVIOUS
  <2> USE DEF locals, history, daemons
  <2>1. ASSUME NEW r \in Room, NEW id \in Id, AppendLog(r, id) PROVE OnceInv'
    BY <2>1 DEF AppendLog, OnceInv
  <2>2. ASSUME NEW h \in Hook, NEW rs \in SUBSET Room, Fire(h, rs) PROVE OnceInv'
    <3>1. \A k \in Hook : k = h
      OBVIOUS
    <3>2. pc[h] = "idle" /\ pc'[h] = "read"
      BY <2>2 DEF Fire, TypeOK
    <3> QED BY <2>2, <3>1, <3>2 DEF Fire, OnceInv
  <2>3. ASSUME NEW h \in Hook, NEW r \in Room, ReadCursor(h, r) PROVE OnceInv'
    <3>1. \A k \in Hook : k = h
      OBVIOUS
    <3>2. pc[h] = "read" /\ pc'[h] = "scan" /\ room'[h] = r /\ from'[h] = cursor[r]
      BY <2>3 DEF ReadCursor, TypeOK
    <3> QED BY <2>3, <3>1, <3>2 DEF ReadCursor, OnceInv
  <2>4. ASSUME NEW h \in Hook, ScanLog(h) PROVE OnceInv'
    <3> DEFINE r == room[h]
               new == {log[r][i] : i \in Found(r, from[h])}
               last == LastFound(r, from[h])
    <3>1. r \in Room /\ from[h] \in Id \union {None} /\ pc[h] = "scan" /\ from[h] = cursor[r]
      BY <2>4 DEF ScanLog, TypeOK, OnceInv
    <3>2. \A k \in Hook : k = h
      OBVIOUS
    <3>3. /\ UNCHANGED <<log, cursor, injected, again, room, from>>
          /\ unread'[h][r] = new /\ target'[h][r] = last
          /\ \A s \in Room : s # r => unread'[h][s] = unread[h][s] /\ target'[h][s] = target[h][s]
          /\ pc'[h] \in {"print", "read"}
      BY <2>4, <3>1 DEF ScanLog, NextRoom, TypeOK
    <3>4. Below(new, last) /\ \A id \in new : cursor[r] < id
      <4>1. ASSUME NEW i \in Found(r, from[h])
            PROVE  log[r][i] <= last /\ cursor[r] < log[r][i]
        <5>1. log[r][i] <= last
          BY <3>1, LastFoundIsNewest DEF DeliveryInv
        <5>2. log[r][i] > cursor[r] /\ log[r][i] \in Id /\ cursor[r] \in Id \union {None}
          BY <3>1 DEF Found, Unseen, TypeOK
        <5> QED BY <5>1, <5>2, ConstantsAssumption DEF Id, None
      <4> QED BY <4>1 DEF Below
    <3>5. /\ last # None => cursor[r] < last
          /\ last = None => new = {}
      <4>1. CASE Found(r, from[h]) = {}
        BY <4>1 DEF LastFound
      <4>2. ASSUME NEW i \in Found(r, from[h]) PROVE cursor[r] < last /\ last # None
        <5>1. from[h] < last
          BY <3>1, LastFoundIsNewest DEF DeliveryInv
        <5>2. from[h] >= 0
          BY <3>1, ConstantsAssumption DEF Id, None
        <5>3. last # 0
          BY <3>1, <5>1, <5>2, ConstantsAssumption DEF Id, None
        <5> QED BY <3>1, <5>1, <5>3 DEF None
      <4> QED BY <4>1, <4>2
    <3> HIDE DEF r, new, last
    <3> QED BY <3>1, <3>2, <3>3, <3>4, <3>5 DEF OnceInv, Below
  <2>5. ASSUME NEW h \in Hook, WriteStdout(h) PROVE OnceInv'
    <3>1. \A k \in Hook : k = h
      OBVIOUS
    <3>2. /\ pc[h] = "print" /\ pc'[h] = "advance"
          /\ todo'[h] = {r \in Room : target[h][r] # None}
          /\ UNCHANGED <<cursor, unread, target>>
      BY <2>5 DEF WriteStdout, TypeOK
    <3>3. ASSUME NEW r \in Room
          PROVE  /\ again'[r] = {}
                 /\ injected'[r] \subseteq injected[r] \union unread[h][r]
      <4>1. \A id \in injected[r] : id \notin unread[h][r]
        <5>1. cursor[r] \in Id \union {None} /\ injected[r] \subseteq Id
          BY DEF TypeOK
        <5>2. Below(injected[r], cursor[r]) /\ \A id \in unread[h][r] : cursor[r] < id
          BY <3>2 DEF OnceInv
        <5> QED BY <5>1, <5>2, ConstantsAssumption DEF Below, Id, None
      <4>2. /\ again'[r] = again[r] \union (unread[h][r] \cap Kept(h) \cap injected[r])
            /\ injected'[r] = injected[r] \union (unread[h][r] \cap Kept(h))
        BY <2>5 DEF WriteStdout
      <4> QED BY <4>1, <4>2 DEF OnceInv
    <3>4. ASSUME NEW r \in Room
          PROVE  Below(injected'[r], IF r \in todo'[h] THEN target'[h][r] ELSE cursor'[r])
      <4>1. /\ Below(injected[r], cursor[r]) /\ Below(unread[h][r], target[h][r])
            /\ target[h][r] # None => cursor[r] < target[h][r]
            /\ target[h][r] = None => unread[h][r] = {}
        BY <3>2 DEF OnceInv
      <4>2. /\ cursor[r] \in Int /\ target[h][r] \in Int
            /\ injected[r] \subseteq Int
        BY ConstantsAssumption DEF TypeOK, Id, None
      <4>3. CASE target[h][r] = None
        BY <3>2, <3>3, <4>1, <4>3 DEF Below
      <4>4. CASE target[h][r] # None
        BY <3>2, <3>3, <4>1, <4>2, <4>4 DEF Below
      <4> QED BY <4>3, <4>4
    <3> QED BY <3>1, <3>2, <3>3, <3>4 DEF OnceInv
  <2>6. ASSUME NEW h \in Hook, Exit(h), UNCHANGED <<daemons, cursor, room, from, history>>,
               pc[h] = "print" \/ todo[h] = {}, pc[h] # "idle"
        PROVE  OnceInv'
    <3>1. \A k \in Hook : k = h
      OBVIOUS
    <3>2. pc'[h] = "idle" /\ unread'[h] = NothingFound /\ target'[h] = NoTarget
      BY <2>6 DEF Exit, TypeOK
    <3>3. \A r \in Room : Below(injected[r], cursor[r])
      BY <2>6 DEF OnceInv
    <3>4. \A r \in Room : unread'[h][r] = {} /\ target'[h][r] = None
      BY <3>2 DEF NothingFound, NoTarget
    <3> QED BY <2>6, <3>1, <3>2, <3>3, <3>4 DEF OnceInv, Below
  <2>7. ASSUME NEW h \in Hook, NEW r \in Room, Advance(h, r) PROVE OnceInv'
    <3>1. \A k \in Hook : k = h
      OBVIOUS
    <3>2. /\ pc[h] = "advance" /\ pc'[h] = "advance" /\ r \in todo[h]
          /\ cursor'[r] = target[h][r] /\ todo'[h] = todo[h] \ {r}
          /\ \A s \in Room : s # r => cursor'[s] = cursor[s]
          /\ UNCHANGED <<injected, again, target>>
      BY <2>7 DEF Advance, NewCursor, TypeOK
    <3> QED BY <3>1, <3>2 DEF OnceInv
  <2>8. CASE UNCHANGED vars
    BY <2>8 DEF vars, OnceInv
  <2> QED BY <2>1, <2>2, <2>3, <2>4, <2>5, <2>6, <2>7, <2>8
          DEF Next, Step, ScanFails, Dies, AdvanceFails, WriteNothing, Done
<1>3. OnceInv => NothingTwice
  BY DEF OnceInv, NothingTwice
<1> QED BY <1>1, <1>2, <1>3, TypeCorrect, DeliveryCovered, PTL DEF Spec
=============================================================================

----------------------------- MODULE ChatProofs -----------------------------
(***************************************************************************)
(* Theorems about Chat: types, that no AI wakes ours, that what is         *)
(* broadcast is accepted, and what a client of wait_for_mention is given   *)
(* and told, for any number of messages and lines and any capacities.      *)
(***************************************************************************)
EXTENDS Chat, SequenceTheorems, TLAPS

\* Sequences

Rising(s) == \A i, j \in DOMAIN s : i < j => s[i] < s[j]

LEMMA AppendFacts ==
    ASSUME NEW S, NEW s \in Seq(S), NEW x \in S
    PROVE  /\ Append(s, x) \in Seq(S)
           /\ Len(s) \in Nat /\ Len(Append(s, x)) = Len(s) + 1
           /\ ToSet(Append(s, x)) = ToSet(s) \union {x}
           /\ DOMAIN s = 1..Len(s) /\ DOMAIN Append(s, x) = 1..(Len(s) + 1)
           /\ \A i \in 1..Len(s) : Append(s, x)[i] = s[i]
           /\ Append(s, x)[Len(s) + 1] = x
<1>1. /\ Append(s, x) \in Seq(S)
      /\ Len(s) \in Nat /\ Len(Append(s, x)) = Len(s) + 1
      /\ DOMAIN s = 1..Len(s) /\ DOMAIN Append(s, x) = 1..(Len(s) + 1)
      /\ \A i \in 1..Len(s) : Append(s, x)[i] = s[i]
      /\ Append(s, x)[Len(s) + 1] = x
  OBVIOUS
<1>2. 1..(Len(s) + 1) = (1..Len(s)) \union {Len(s) + 1}
  BY <1>1
<1>3. ToSet(Append(s, x)) \subseteq ToSet(s) \union {x}
  BY <1>1, <1>2 DEF ToSet
<1>4. ToSet(s) \union {x} \subseteq ToSet(Append(s, x))
  BY <1>1, <1>2 DEF ToSet
<1> QED BY <1>1, <1>3, <1>4

LEMMA TailFacts ==
    ASSUME NEW S, NEW s \in Seq(S), s # <<>>
    PROVE  /\ Tail(s) \in Seq(S) /\ Head(s) \in S /\ Head(s) \in ToSet(s)
           /\ Len(s) \in Nat \ {0} /\ Len(Tail(s)) = Len(s) - 1
           /\ DOMAIN s = 1..Len(s) /\ DOMAIN Tail(s) = 1..(Len(s) - 1)
           /\ Head(s) = s[1]
           /\ \A i \in 1..(Len(s) - 1) : Tail(s)[i] = s[i + 1]
           /\ ToSet(Tail(s)) \subseteq ToSet(s)
<1>1. /\ Tail(s) \in Seq(S) /\ Head(s) \in S
      /\ Len(s) \in Nat \ {0} /\ Len(Tail(s)) = Len(s) - 1
      /\ DOMAIN s = 1..Len(s) /\ DOMAIN Tail(s) = 1..(Len(s) - 1)
      /\ Head(s) = s[1]
      /\ \A i \in 1..(Len(s) - 1) : Tail(s)[i] = s[i + 1]
  OBVIOUS
<1>2. ToSet(Tail(s)) \subseteq ToSet(s) /\ Head(s) \in ToSet(s)
  BY <1>1 DEF ToSet
<1> QED BY <1>1, <1>2

LEMMA SetOfSeq == ASSUME NEW S, NEW s \in Seq(S) PROVE ToSet(s) \subseteq S
<1>1. DOMAIN s = 1..Len(s)
  BY LenProperties
<1> QED BY <1>1, ElementOfSeq DEF ToSet

LEMMA EmptyFacts == Rising(<<>>) /\ ToSet(<<>>) = {}
BY DEF Rising, ToSet

LEMMA RisingAppend ==
    ASSUME NEW s \in Seq(Id), Rising(s), NEW x \in Id, \A y \in ToSet(s) : y < x
    PROVE  Rising(Append(s, x))
<1>1. \A i \in 1..Len(s) : s[i] \in Id /\ s[i] < x
  BY ElementOfSeq, AppendFacts DEF ToSet
<1>2. SUFFICES ASSUME NEW i \in 1..(Len(s) + 1), NEW j \in 1..(Len(s) + 1), i < j
               PROVE  Append(s, x)[i] < Append(s, x)[j]
  BY AppendFacts DEF Rising
<1>3. Len(s) \in Nat /\ i \in 1..Len(s) /\ Append(s, x)[i] = s[i]
  BY <1>2, AppendFacts
<1>4. CASE j = Len(s) + 1
  BY <1>1, <1>3, <1>4, AppendFacts
<1>5. CASE j # Len(s) + 1
  <2>1. j \in 1..Len(s) /\ Append(s, x)[j] = s[j]
    BY <1>3, <1>5, AppendFacts
  <2> QED BY <1>2, <1>3, <2>1, AppendFacts DEF Rising
<1> QED BY <1>4, <1>5

LEMMA RisingTail ==
    ASSUME NEW s \in Seq(Id), Rising(s), s # <<>>
    PROVE  /\ Rising(Tail(s))
           /\ \A y \in ToSet(s) : Head(s) <= y
<1>1. \A i \in 1..Len(s) : s[i] \in Id
  BY ElementOfSeq
<1>2. Rising(Tail(s))
  BY TailFacts DEF Rising
<1>3. ASSUME NEW i \in 1..Len(s) PROVE Head(s) <= s[i]
  <2>1. 1 \in 1..Len(s) /\ 1 <= i
    BY TailFacts
  <2>2. s[1] \in Id /\ s[i] \in Id
    BY <1>1, <2>1
  <2>3. CASE i = 1
    BY <2>2, <2>3, TailFacts DEF Id
  <2>4. CASE i # 1
    BY <2>1, <2>2, <2>4, TailFacts DEF Rising, Id
  <2> QED BY <2>3, <2>4
<1>4. \A y \in ToSet(s) : Head(s) <= y
  BY <1>3, TailFacts DEF ToSet
<1> QED BY <1>2, <1>4

\* The ring keeps the newest, and its bound.
LEMMA PushedFacts ==
    ASSUME ring \in Seq(Id), Len(ring) <= RingCap, NEW x \in Id
    PROVE  /\ Pushed(x) \in Seq(Id) /\ Len(Pushed(x)) <= RingCap
           /\ ToSet(Pushed(x)) \subseteq ToSet(ring) \union {x}
           /\ Rising(ring) /\ (\A y \in ToSet(ring) : y < x) => Rising(Pushed(x))
<1>1. Len(ring) \in Nat /\ RingCap \in Nat \ {0}
  BY ConstantsAssumption
<1>2. CASE Len(ring) >= RingCap
  <2>1. ring # <<>>
    BY <1>1, <1>2
  <2>2. PICK t \in Seq(Id) : t = Tail(ring)
    BY <2>1, TailFacts
  <2>3. Len(t) = Len(ring) - 1 /\ ToSet(t) \subseteq ToSet(ring) /\ Pushed(x) = Append(t, x)
    BY <1>2, <2>1, <2>2, TailFacts DEF Pushed
  <2>4. Append(t, x) \in Seq(Id) /\ Len(Append(t, x)) = Len(t) + 1
        /\ ToSet(Append(t, x)) = ToSet(t) \union {x}
    BY AppendFacts
  <2>5. ASSUME Rising(ring), \A y \in ToSet(ring) : y < x PROVE Rising(Pushed(x))
    <3>1. Rising(t) /\ \A y \in ToSet(t) : y < x
      BY <2>1, <2>2, <2>3, <2>5, RisingTail
    <3> QED BY <2>3, <3>1, RisingAppend
  <2> QED BY <1>1, <2>3, <2>4, <2>5
<1>3. CASE ~(Len(ring) >= RingCap)
  <2>1. Pushed(x) = Append(ring, x)
    BY <1>3 DEF Pushed
  <2> QED BY <1>1, <1>3, <2>1, AppendFacts, RisingAppend
<1> QED BY <1>2, <1>3

LEMMA PushTypes ==
    ASSUME TypeOK, NEW x \in Id, NEW who \in {"person", "AI"}, Push(x, who)
    PROVE  /\ ring' \in Seq(Id) /\ Len(ring') <= RingCap /\ inbox' \in Seq(Id)
           /\ mentions' \subseteq Id \X {"person", "AI"}
           /\ UNCHANGED <<wait, since, heard, again, told>>
<1>1. ring' = Pushed(x) /\ mentions' = mentions \union {<<x, who>>}
      /\ inbox' = (IF wait = "away" THEN inbox ELSE Append(inbox, x))
      /\ UNCHANGED <<wait, since, heard, again, told>>
  BY DEF Push
<1>2. ring \in Seq(Id) /\ Len(ring) <= RingCap /\ inbox \in Seq(Id)
      /\ mentions \subseteq Id \X {"person", "AI"}
  BY DEF TypeOK
<1>3. Append(inbox, x) \in Seq(Id)
  BY <1>2, AppendFacts
<1> QED BY <1>1, <1>2, <1>3, PushedFacts

-----------------------------------------------------------------------------
\* Every variable keeps its range: no queue, no channel and no ring grows past its
\* capacity.
THEOREM TypeCorrect == Spec => []TypeOK
<1> USE ConstantsAssumption
<1>1. Init => TypeOK
  BY EmptySeq DEF Init, TypeOK, Idle, Deaf, None, Source, LineKind
<1>2. TypeOK /\ [Next]_vars => TypeOK'
  <2> SUFFICES ASSUME TypeOK, [Next]_vars PROVE TypeOK'
    OBVIOUS
  <2> USE DEF TypeOK, store, client, pushes
  <2>1. ASSUME NEW s \in Source, NEW k \in LineKind, Give(s, k) PROVE TypeOK'
    <3>1. [kind |-> k, by |-> s] \in Line
      BY DEF Line
    <3>2. queue[s] \in Seq(Line) /\ Channel(s) = s
      BY DEF Channel
    <3>3. Append(queue[s], [kind |-> k, by |-> s]) \in Seq(Line)
          /\ Len(Append(queue[s], [kind |-> k, by |-> s])) = Len(queue[s]) + 1
          /\ Len(queue[s]) \in Nat
      BY <3>1, <3>2, AppendFacts
    <3>4. queue' \in [Source -> Seq(Line)] /\ \A r \in Source : Len(queue'[r]) <= QueueCap
      BY <2>1, <3>2, <3>3 DEF Give
    <3> QED BY <2>1, <3>4 DEF Give
  <2>2. CASE TakeLine
    <3>1. Turn \in Source /\ queue[Turn] \in Seq(Line) /\ queue[Turn] # <<>>
      BY <2>2 DEF TakeLine, Turn, Source
    <3>2. Tail(queue[Turn]) \in Seq(Line) /\ Len(Tail(queue[Turn])) = Len(queue[Turn]) - 1
          /\ Len(queue[Turn]) \in Nat /\ Head(queue[Turn]) \in Line
      BY <3>1, TailFacts
    <3>3. queue' \in [Source -> Seq(Line)] /\ \A r \in Source : Len(queue'[r]) <= QueueCap
      BY <2>2, <3>1, <3>2 DEF TakeLine
    <3>4. top' \in Id \union {None}
      BY <2>2 DEF TakeLine, FileDropped
    <3>5. out' \in [at : {"idle", "warn", "echo", "log", "air"},
                    src : Source, by : Source, kind : LineKind, id : Id \union {None}]
      <4>1. CASE out' \in {Idle, [Idle EXCEPT !.at = "warn"]}
        BY <4>1 DEF Idle, Source, LineKind
      <4>2. ASSUME NEW i \in Id \union {None},
                   out' = [at |-> "echo", src |-> Turn, by |-> Head(queue[Turn]).by,
                           kind |-> Head(queue[Turn]).kind, id |-> i]
            PROVE  out' \in [at : {"idle", "warn", "echo", "log", "air"},
                             src : Source, by : Source, kind : LineKind, id : Id \union {None}]
        <5>1. Head(queue[Turn]).by \in Source /\ Head(queue[Turn]).kind \in LineKind
          BY <3>2 DEF Line
        <5> QED BY <3>1, <4>2, <5>1
      <4> QED BY <2>2, <4>1, <4>2 DEF TakeLine
    <3> QED BY <2>2, <3>3, <3>4, <3>5 DEF TakeLine
  <2>3. CASE Echo \/ BuildFails \/ LogOwnFails \/ Air
    <3>1. display' \in 0..DisplayCap
      BY <2>3 DEF Echo, BuildFails, LogOwnFails, Air
    <3>2. out' \in [at : {"idle", "warn", "echo", "log", "air"},
                    src : Source, by : Source, kind : LineKind, id : Id \union {None}]
      <4>1. Idle \in [at : {"idle"}, src : Source, by : Source, kind : LineKind, id : {None}]
        BY DEF Idle, Source, LineKind
      <4>2. CASE Echo
        BY <4>1, <4>2 DEF Echo
      <4>3. CASE BuildFails \/ LogOwnFails \/ Air
        BY <4>1, <4>3 DEF BuildFails, LogOwnFails, Air
      <4> QED BY <2>3, <4>2, <4>3
    <3>3. /\ UNCHANGED <<nick, queue, given, ear, store, client, pushes>>
          /\ phase' \in {"up", "over"}
      BY <2>3 DEF Echo, BuildFails, LogOwnFails, Air
    <3> QED BY <3>1, <3>2, <3>3
  <2>4. ASSUME NEW i \in Id, LogOwn(i) PROVE TypeOK'
    <3>1. Append(log, i) \in Seq(Id)
      BY AppendFacts
    <3>2. /\ ring' \in Seq(Id) /\ Len(ring') <= RingCap /\ inbox' \in Seq(Id)
          /\ mentions' \subseteq Id \X {"person", "AI"}
          /\ UNCHANGED <<wait, since, heard, again, told>>
      <4>1. CASE WakesUs
        <5>1. PICK who \in {"person", "AI"} : Push(i, who)
          BY <2>4, <4>1 DEF LogOwn
        <5> QED BY <5>1, PushTypes
      <4>2. CASE ~WakesUs
        BY <2>4, <4>2 DEF LogOwn
      <4> QED BY <4>1, <4>2
    <3>3. out' \in [at : {"idle", "warn", "echo", "log", "air"},
                    src : Source, by : Source, kind : LineKind, id : Id \union {None}]
      BY <2>4 DEF LogOwn
    <3> QED BY <2>4, <3>1, <3>2, <3>3 DEF LogOwn
  <2>5. CASE HearDrops \/ ShowPeer \/ Drain
    <3>1. CASE HearDrops
      BY <3>1 DEF HearDrops, Deaf
    <3>2. CASE ShowPeer
      <4>1. display' \in 0..DisplayCap
        BY <3>2 DEF ShowPeer
      <4> QED BY <3>2, <4>1 DEF ShowPeer, Deaf
    <3>3. CASE Drain
      <4>1. display' \in 0..DisplayCap
        BY <3>3 DEF Drain
      <4> QED BY <3>3, <4>1 DEF Drain
    <3> QED BY <2>5, <3>1, <3>2, <3>3
  <2>6. ASSUME NEW i \in Id, HearFile(i) PROVE TypeOK'
    <3>1. /\ UNCHANGED <<phase, nick, queue, given, out, display, log, client, pushes>>
          /\ ear' = [at |-> "fetch", id |-> i] /\ top' = i
      BY <2>6 DEF HearFile
    <3>2. ear' \in [at : {"idle", "fetch", "show"}, id : Id \union {None}]
          /\ (ear'.at = "fetch" => ear'.id # None)
      BY <3>1 DEF Id, None
    <3> QED BY <3>1, <3>2
  <2>7. CASE FetchDone
    <3>1. ear.id \in Id
      BY <2>7 DEF FetchDone
    <3>2. Append(log, ear.id) \in Seq(Id)
      BY <3>1, AppendFacts
    <3> QED BY <2>7, <3>2 DEF FetchDone, Deaf
  <2>8. ASSUME NEW i \in Id, NEW k \in PeerKind, HearChat(k, i) PROVE TypeOK'
    <3>1. Append(log, i) \in Seq(Id)
      BY AppendFacts
    <3>2. /\ ring' \in Seq(Id) /\ Len(ring') <= RingCap /\ inbox' \in Seq(Id)
          /\ mentions' \subseteq Id \X {"person", "AI"}
          /\ UNCHANGED <<wait, since, heard, again, told>>
      <4>1. CASE PeerWakes(k)
        <5>1. PICK who \in {"person", "AI"} : Push(i, who)
          BY <2>8, <4>1 DEF HearChat
        <5> QED BY <5>1, PushTypes
      <4>2. CASE ~PeerWakes(k)
        BY <2>8, <4>2 DEF HearChat
      <4> QED BY <4>1, <4>2
    <3> QED BY <2>8, <3>1, <3>2 DEF HearChat, Deaf
  <2>9. ASSUME NEW i \in Id, ReturnMention(i) PROVE TypeOK'
    BY <2>9, EmptySeq DEF ReturnMention, Context, ToSet, tasks
  <2>10. CASE WaitCall \/ ReturnNull
    <3>1. /\ UNCHANGED <<phase, nick, queue, given, out, ear, display, store, pushes,
                         since, heard, again, told>>
          /\ wait' \in {"away", "subscribed", "waiting"} /\ inbox' = <<>>
      BY <2>10 DEF WaitCall, ReturnNull, tasks
    <3> QED BY <3>1, EmptySeq
  <2>11. CASE Snapshot
    <3>1. ASSUME NEW n \in Buffered, ReturnMention(ring[n]) PROVE TypeOK'
      <4>1. n \in 1..Len(ring)
        BY LenProperties DEF Buffered
      <4>2. ring[n] \in Id
        BY <4>1, ElementOfSeq
      <4> QED BY <2>9, <3>1, <4>2
    <3>2. CASE UNCHANGED <<tasks, store, pushes, inbox, since, heard, again, told>>
               /\ wait' = "waiting"
      BY <3>2 DEF tasks
    <3> QED BY <2>11, <3>1, <3>2 DEF Snapshot
  <2>12. CASE WaitReturns \/ WaitTimesOut
    BY <2>9, <2>10, <2>12, TailFacts DEF WaitReturns, WaitTimesOut
  <2>13. CASE UNCHANGED vars
    BY <2>13 DEF vars, tasks
  <2> QED BY <2>1, <2>2, <2>3, <2>4, <2>5, <2>6, <2>7, <2>8, <2>10, <2>11, <2>12, <2>13
          DEF Next, SendLoop, Listener
<1> QED BY <1>1, <1>2, PTL DEF Spec

-----------------------------------------------------------------------------
\* Who is heard, and what leaves the session.

\* A line lies in the queue of who gave it, and is taken for his.
LinesOwned ==
    /\ \A s \in Source : \A n \in DOMAIN queue[s] : queue[s][n].by = s
    /\ out.at \in {"echo", "log"} => out.by = out.src

LEMMA LinesStayOwned ==
    ASSUME TypeOK, LinesOwned, [Next]_vars
    PROVE  LinesOwned'
<1> USE DEF TypeOK
<1>1. ASSUME NEW s \in Source, NEW k \in LineKind, Give(s, k) PROVE LinesOwned'
  <2>1. [kind |-> k, by |-> s] \in Line /\ queue[s] \in Seq(Line) /\ Channel(s) = s
    BY DEF Line, Channel
  <2>2. PICK t \in Seq(Line) : t = Append(queue[s], [kind |-> k, by |-> s])
    BY <2>1, AppendFacts
  <2>3. /\ DOMAIN t = 1..(Len(queue[s]) + 1) /\ t[Len(queue[s]) + 1].by = s
        /\ \A n \in 1..Len(queue[s]) : t[n] = queue[s][n]
        /\ Len(queue[s]) \in Nat /\ DOMAIN queue[s] = 1..Len(queue[s])
    BY <2>1, <2>2, AppendFacts
  <2>4. ASSUME NEW n \in DOMAIN t PROVE t[n].by = s
    <3>1. CASE n = Len(queue[s]) + 1
      BY <2>3, <3>1
    <3>2. CASE n # Len(queue[s]) + 1
      <4>1. n \in 1..Len(queue[s])
        BY <2>3, <3>2
      <4> QED BY <2>3, <4>1 DEF LinesOwned
    <3> QED BY <3>1, <3>2
  <2>5. queue' = [queue EXCEPT ![s] = t] /\ out' = out
    BY <1>1, <2>1, <2>2 DEF Give
  <2>6. queue'[s] = t /\ \A r \in Source : r # s => queue'[r] = queue[r]
    BY <2>5
  <2> QED BY <2>4, <2>5, <2>6 DEF LinesOwned
<1>2. CASE TakeLine
  <2>1. Turn \in Source /\ queue[Turn] \in Seq(Line) /\ queue[Turn] # <<>>
    BY <1>2 DEF TakeLine, Turn, Source
  <2>2. PICK s \in Source : s = Turn
    BY <2>1
  <2>3. PICK t : t = Tail(queue[s])
    OBVIOUS
  <2>4. \A n \in DOMAIN t : t[n].by = s
    BY <2>1, <2>2, <2>3, TailFacts DEF LinesOwned
  <2>5. queue' = [queue EXCEPT ![s] = t]
    BY <1>2, <2>2, <2>3 DEF TakeLine
  <2>6. queue'[s] = t /\ \A r \in Source : r # s => queue'[r] = queue[r]
    BY <2>5
  <2>7. Head(queue[s]).by = s
    BY <2>1, <2>2, TailFacts DEF LinesOwned
  <2>8. out'.at \in {"echo", "log"} => out'.by = out'.src
    BY <1>2, <2>2, <2>7 DEF TakeLine, Idle
  <2> QED BY <2>4, <2>6, <2>8 DEF LinesOwned
<1>3. CASE Echo \/ BuildFails \/ LogOwnFails \/ Air \/ \E i \in Id : LogOwn(i)
  <2>1. UNCHANGED queue
    BY <1>3 DEF Echo, BuildFails, LogOwnFails, Air, LogOwn
  <2>2. CASE Echo
    BY <2>1, <2>2 DEF Echo, Idle, LinesOwned
  <2>3. CASE ~Echo
    <3>1. out' = out \/ out'.at \notin {"echo", "log"}
      <4>1. CASE BuildFails \/ LogOwnFails \/ Air
        BY <4>1 DEF BuildFails, LogOwnFails, Air, Idle
      <4>2. ASSUME NEW i \in Id, LogOwn(i) PROVE out'.at = "air"
        BY <4>2 DEF LogOwn
      <4> QED BY <1>3, <2>3, <4>1, <4>2
    <3> QED BY <2>1, <3>1 DEF LinesOwned
  <2> QED BY <2>2, <2>3
<1>4. CASE Listener \/ Drain \/ (\E i \in Id : HearFile(i)) \/ WaitCall \/ Snapshot
           \/ WaitReturns \/ WaitTimesOut \/ \E i \in Id, k \in PeerKind : HearChat(k, i)
  <2>1. UNCHANGED <<queue, out>>
    BY <1>4 DEF Listener, HearDrops, FetchDone, ShowPeer, Drain, HearFile, WaitCall, Snapshot,
           WaitReturns, WaitTimesOut, ReturnMention, ReturnNull, HearChat, tasks
  <2> QED BY <2>1 DEF LinesOwned
<1>5. CASE UNCHANGED vars
  BY <1>5 DEF vars, tasks, LinesOwned
<1> QED BY <1>1, <1>2, <1>3, <1>4, <1>5 DEF Next, SendLoop

LEMMA LinesAreOwned == Spec => []LinesOwned
<1>1. Init => LinesOwned
  BY DEF Init, LinesOwned, Idle
<1> QED BY <1>1, LinesStayOwned, TypeCorrect, PTL DEF Spec

\* No words of an AI wake ours, neither the own AI's lines, which the send loop takes
\* from their own queue, nor those of a peer's (WokenByPeople).
THEOREM OnlyPeopleWake == Spec => []WokenByPeople
<1>1. Init => WokenByPeople
  BY DEF Init, WokenByPeople
<1>2. TypeOK /\ LinesOwned /\ WokenByPeople /\ [Next]_vars => WokenByPeople'
  <2> SUFFICES ASSUME TypeOK, LinesOwned, WokenByPeople, [Next]_vars PROVE WokenByPeople'
    OBVIOUS
  <2>1. ASSUME NEW i \in Id, LogOwn(i) PROVE WokenByPeople'
    <3>1. WakesUs => out.by = "human"
      BY <2>1 DEF LogOwn, WakesUs, LinesOwned
    <3> QED BY <2>1, <3>1 DEF LogOwn, Push, pushes, WokenByPeople
  <2>2. ASSUME NEW i \in Id, NEW k \in PeerKind, HearChat(k, i) PROVE WokenByPeople'
    BY <2>2 DEF HearChat, PeerWakes, Push, pushes, WokenByPeople
  <2>3. CASE UNCHANGED mentions
    BY <2>3 DEF WokenByPeople
  <2>4. \/ UNCHANGED mentions \/ \E i \in Id : LogOwn(i)
        \/ \E i \in Id, k \in PeerKind : HearChat(k, i)
    BY DEF Next, SendLoop, Listener, Give, TakeLine, Echo, BuildFails, LogOwnFails, Air,
           HearDrops, FetchDone, ShowPeer, Drain, HearFile, WaitCall, Snapshot, WaitReturns,
           WaitTimesOut, ReturnMention, ReturnNull, vars, pushes
  <2> QED BY <2>1, <2>2, <2>3, <2>4
<1> QED BY <1>1, <1>2, LinesAreOwned, TypeCorrect, PTL DEF Spec

\* What is broadcast has been built, and what is built a receiver accepts
\* (AiredAccepted): the size limits of both sides are the same.
THEOREM AiredIsAccepted == Spec => []AiredAccepted
<1>1. Init => AiredAccepted
  BY DEF Init, AiredAccepted, Idle
<1>2. TypeOK /\ AiredAccepted /\ [Next]_vars => AiredAccepted'
  <2> SUFFICES ASSUME TypeOK, AiredAccepted, [Next]_vars PROVE AiredAccepted'
    OBVIOUS
  <2>1. ASSUME NEW i \in Id, LogOwn(i) PROVE AiredAccepted'
    BY <2>1 DEF LogOwn, Builds, Accepts, NickFor, AiredAccepted, TypeOK
  <2>2. CASE UNCHANGED <<out, nick>>
    BY <2>2 DEF AiredAccepted, NickFor
  <2>3. CASE out'.at # "air"
    BY <2>3 DEF AiredAccepted
  <2>4. UNCHANGED <<out, nick>> \/ out'.at # "air" \/ \E i \in Id : LogOwn(i)
    <3>1. CASE SendLoop
      <4>1. CASE TakeLine
        BY <4>1 DEF TakeLine, Idle
      <4>2. CASE Echo \/ BuildFails \/ LogOwnFails \/ Air
        BY <4>2 DEF Echo, BuildFails, LogOwnFails, Air, Idle, TypeOK
      <4> QED BY <3>1, <4>1, <4>2 DEF SendLoop
    <3>2. CASE ~SendLoop
      BY <3>2 DEF Next, SendLoop, Listener, Give, HearDrops, FetchDone, ShowPeer, Drain,
             HearFile, HearChat, WaitCall, Snapshot, WaitReturns, WaitTimesOut, ReturnMention,
             ReturnNull, vars, tasks
    <3> QED BY <3>1, <3>2
  <2> QED BY <2>1, <2>2, <2>3, <2>4
<1> QED BY <1>1, <1>2, TypeCorrect, PTL DEF Spec

-----------------------------------------------------------------------------
\* What the client of wait_for_mention is given.

\* No id is above top; a file's is kept for it while it is copied or fetched.
Fresh ==
    /\ \A x \in ToSet(log) : x <= top
    /\ out.at \in {"echo", "log"} /\ out.kind = "drop" => out.id <= top
    /\ ear.at = "fetch" => ear.id <= top

\* Mentions are pushed in order of id, when they are in the log.
Ordered ==
    /\ Rising(ring) /\ ToSet(ring) \subseteq ToSet(log)
    /\ Rising(inbox) /\ ToSet(inbox) \subseteq ToSet(log)

\* The client's id is the last it was given.  A client that waits has before it, in the
\* channel, every mention of the ring that it has not been given.
InStep ==
    /\ since # None => since \in ToSet(log) /\ since \in heard
    /\ \A x \in heard : since # None /\ x <= since
    /\ \A x \in ToSet(inbox) : since < x
    /\ wait = "waiting" /\ since # None => \A x \in ToSet(ring) : since < x => x \in ToSet(inbox)
    /\ wait = "away" => inbox = <<>>

ClientInv == Fresh /\ Ordered /\ InStep

LEMMA IdsAreNumbers ==
    ASSUME TypeOK
    PROVE  /\ ToSet(log) \subseteq Nat /\ top \in Nat /\ since \in Nat
           /\ out.id \in Nat /\ ear.id \in Nat
<1>1. ToSet(log) \subseteq Id
  BY SetOfSeq DEF TypeOK
<1>2. Id \union {None} \subseteq Nat
  BY DEF Id, None
<1> QED BY <1>1, <1>2 DEF TypeOK

\* A message that is pushed is above all others, also above the client's.
LEMMA NewIsAbove ==
    ASSUME TypeOK, ClientInv, NEW x \in Id, NewId(x)
    PROVE  /\ \A y \in ToSet(log) \union ToSet(ring) \union ToSet(inbox) \union heard : y < x
           /\ since < x
<1>1. top \in Nat /\ x = top + 1 /\ since \in Nat
  BY IdsAreNumbers DEF NewId
<1>2. \A y \in ToSet(log) : y \in Nat /\ y <= top
  BY IdsAreNumbers DEF ClientInv, Fresh
<1>3. since <= top
  BY <1>1, <1>2 DEF ClientInv, InStep, None
<1>4. \A y \in heard : y \in Nat /\ y <= since
  BY DEF TypeOK, ClientInv, InStep, Id
<1> QED BY <1>1, <1>2, <1>3, <1>4 DEF ClientInv, Ordered

LEMMA LogGrows ==
    ASSUME TypeOK, NEW x \in Id
    PROVE  ToSet(Append(log, x)) = ToSet(log) \union {x}
<1>1. log \in Seq(Id)
  BY DEF TypeOK
<1> QED BY <1>1, AppendFacts

\* A message that is logged, and perhaps pushed.
LEMMA LoggedStep ==
    ASSUME TypeOK, TypeOK', ClientInv, NEW x \in Id,
           log' = Append(log, x), x <= top', top <= top', Fresh',
           \/ UNCHANGED <<client, pushes>>
           \/ NewId(x) /\ \E who : Push(x, who)
    PROVE  ClientInv'
<1>1. ToSet(log') = ToSet(log) \union {x}
  BY LogGrows
<1>2. CASE UNCHANGED <<client, pushes>>
  BY <1>1, <1>2 DEF client, pushes, ClientInv, Ordered, InStep
<1>3. ASSUME NewId(x), NEW who, Push(x, who) PROVE ClientInv'
  <2>1. /\ ring' = Pushed(x) /\ inbox' = IF wait = "away" THEN inbox ELSE Append(inbox, x)
        /\ UNCHANGED <<wait, since, heard>>
    BY <1>3 DEF Push
  <2>2. ring \in Seq(Id) /\ Len(ring) <= RingCap /\ inbox \in Seq(Id)
    BY DEF TypeOK
  <2>3. Rising(ring') /\ ToSet(ring') \subseteq ToSet(ring) \union {x}
    BY <1>3, <2>1, <2>2, NewIsAbove, PushedFacts DEF ClientInv, Ordered
  <2>4. Rising(inbox') /\ ToSet(inbox') = IF wait = "away" THEN {} ELSE ToSet(inbox) \union {x}
    <3>1. CASE wait = "away"
      BY <2>1, <3>1, EmptyFacts DEF ClientInv, InStep
    <3>2. CASE wait # "away"
      <4>1. Rising(Append(inbox, x)) /\ ToSet(Append(inbox, x)) = ToSet(inbox) \union {x}
        BY <1>3, <2>2, NewIsAbove, RisingAppend, AppendFacts DEF ClientInv, Ordered
      <4> QED BY <2>1, <3>2, <4>1
    <3> QED BY <3>1, <3>2
  <2>5. Ordered'
    BY <1>1, <2>3, <2>4 DEF ClientInv, Ordered
  <2>6. InStep'
    BY <1>1, <1>3, <2>1, <2>3, <2>4, NewIsAbove DEF ClientInv, InStep
  <2> QED BY <2>5, <2>6 DEF ClientInv
<1> QED BY <1>2, <1>3

\* The client is given mention x of the log, the first one after the last it was given.
LEMMA GivenStep ==
    ASSUME TypeOK, ClientInv, NEW x \in ToSet(log), since < x, ReturnMention(x)
    PROVE  ClientInv'
<1>1. /\ UNCHANGED <<log, ring, out, ear, top>>
      /\ wait' = "away" /\ inbox' = <<>> /\ since' = x /\ heard' = heard \union {x}
  BY DEF ReturnMention, tasks, store, pushes
<1>2. since \in Nat /\ x \in Id /\ x # None
  <2>1. ToSet(log) \subseteq Id
    BY SetOfSeq DEF TypeOK
  <2> QED BY <2>1 DEF TypeOK, Id, None
<1>3. \A y \in heard : y \in Nat /\ y <= x
  BY <1>2 DEF TypeOK, ClientInv, InStep, Id
<1>4. ToSet(inbox') = {} /\ Rising(inbox')
  BY <1>1, EmptyFacts
<1>5. Fresh' /\ Ordered'
  BY <1>1, <1>4 DEF ClientInv, Fresh, Ordered
<1>6. InStep'
  BY <1>1, <1>2, <1>3, <1>4 DEF InStep, Id
<1> QED BY <1>5, <1>6 DEF ClientInv

LEMMA ClientSteps ==
    ASSUME TypeOK, TypeOK', ClientInv, [Next]_vars
    PROVE  ClientInv'
<1>1. ASSUME NEW i \in Id, LogOwn(i) PROVE ClientInv'
  <2>1. i <= top' /\ top <= top' /\ log' = Append(log, i)
    <3>1. CASE out.kind = "drop"
      <4>1. i = out.id /\ top' = top /\ out.at = "log"
        BY <1>1, <3>1 DEF LogOwn
      <4> QED BY <1>1, <3>1, <4>1, IdsAreNumbers DEF LogOwn, ClientInv, Fresh
    <3>2. CASE out.kind # "drop"
      <4>1. i = top + 1 /\ top' = i
        BY <1>1, <3>2 DEF LogOwn, NewId
      <4> QED BY <1>1, <4>1, IdsAreNumbers DEF LogOwn
    <3> QED BY <3>1, <3>2
  <2>2. ToSet(log') = ToSet(log) \union {i}
    BY <2>1, LogGrows
  <2>3. out'.at = "air" /\ ear' = ear
    BY <1>1 DEF LogOwn, TypeOK
  <2>4. top \in Nat /\ top' \in Nat /\ ear.id \in Nat /\ ToSet(log) \subseteq Nat
    BY <1>1, IdsAreNumbers DEF LogOwn, NewId
  <2>5. Fresh'
    BY <2>1, <2>2, <2>3, <2>4 DEF ClientInv, Fresh
  <2>6. CASE WakesUs
    <3>1. NewId(i) /\ \E who : Push(i, who)
      BY <1>1, <2>6 DEF LogOwn, WakesUs
    <3> QED BY <2>1, <2>5, <3>1, LoggedStep
  <2>7. CASE ~WakesUs
    BY <1>1, <2>1, <2>5, <2>7, LoggedStep DEF LogOwn
  <2> QED BY <2>6, <2>7
<1>2. ASSUME NEW i \in Id, NEW k \in PeerKind, HearChat(k, i) PROVE ClientInv'
  <2>1. NewId(i) /\ top' = i /\ log' = Append(log, i) /\ UNCHANGED out
    BY <1>2 DEF HearChat
  <2>2. ear'.at = "show"
    BY <1>2 DEF HearChat, Deaf
  <2>3. ToSet(log') = ToSet(log) \union {i}
    BY <2>1, LogGrows
  <2>4. top \in Nat /\ top' \in Nat /\ i = top + 1 /\ out.id \in Nat /\ ToSet(log) \subseteq Nat
    BY <2>1, IdsAreNumbers DEF NewId
  <2>5. Fresh'
    BY <2>1, <2>2, <2>3, <2>4 DEF ClientInv, Fresh
  <2>6. CASE PeerWakes(k)
    <3>1. \E who : Push(i, who)
      BY <1>2, <2>6 DEF HearChat
    <3> QED BY <2>1, <2>4, <2>5, <3>1, LoggedStep
  <2>7. CASE ~PeerWakes(k)
    <3>1. UNCHANGED <<client, pushes>>
      BY <1>2, <2>7 DEF HearChat
    <3> QED BY <2>1, <2>4, <2>5, <3>1, LoggedStep
  <2> QED BY <2>6, <2>7
<1>3. CASE FetchDone
  <2>1. ear.at = "fetch" /\ ear.id \in Id /\ log' = Append(log, ear.id)
        /\ UNCHANGED <<out, top, client, pushes>> /\ ear'.at = "show"
    BY <1>3 DEF FetchDone, Deaf, TypeOK
  <2>2. PICK x \in Id : x = ear.id
    BY <2>1
  <2>3. ToSet(log') = ToSet(log) \union {x} /\ x <= top /\ top <= top'
    <3>1. ToSet(Append(log, x)) = ToSet(log) \union {x}
      BY LogGrows
    <3> QED BY <2>1, <2>2, <3>1, IdsAreNumbers DEF ClientInv, Fresh
  <2>4. Fresh'
    BY <2>1, <2>3 DEF ClientInv, Fresh
  <2> QED BY <2>1, <2>2, <2>3, <2>4, LoggedStep
<1>4. ASSUME UNCHANGED <<log, client, pushes>>, Fresh' PROVE ClientInv'
  BY <1>4 DEF client, pushes, ClientInv, Ordered, InStep
<1>5. CASE TakeLine
  <2>1. UNCHANGED <<log, client, pushes, ear>> /\ top' \in Nat /\ top \in Nat /\ top <= top'
    <3>1. UNCHANGED <<log, client, pushes, ear>> /\ (top' = top \/ top' = top + 1)
      BY <1>5 DEF TakeLine, FileDropped, NewId
    <3> QED BY <3>1, IdsAreNumbers
  <2>2. out'.at = "echo" /\ out'.kind = "drop" => out'.id = top'
    BY <1>5 DEF TakeLine, FileDropped, Idle
  <2>3. out'.at # "log"
    BY <1>5 DEF TakeLine, Idle
  <2>4. ear.id \in Nat /\ ToSet(log) \subseteq Nat
    BY IdsAreNumbers
  <2>5. Fresh'
    BY <2>1, <2>2, <2>3, <2>4 DEF ClientInv, Fresh
  <2> QED BY <1>4, <2>1, <2>5
<1>6. CASE Echo \/ BuildFails \/ LogOwnFails \/ Air
  <2>1. UNCHANGED <<log, client, pushes, ear, top>>
    BY <1>6 DEF Echo, BuildFails, LogOwnFails, Air, store
  <2>2. \/ UNCHANGED out
        \/ out.at = "echo" /\ out'.at = "log" /\ out'.kind = out.kind /\ out'.id = out.id
        \/ out'.at \notin {"echo", "log"}
    <3>1. CASE Echo
      BY <3>1 DEF Echo, Idle, TypeOK
    <3>2. CASE BuildFails \/ LogOwnFails \/ Air
      BY <3>2 DEF BuildFails, LogOwnFails, Air, Idle
    <3> QED BY <1>6, <3>1, <3>2
  <2>3. Fresh'
    BY <2>1, <2>2 DEF ClientInv, Fresh
  <2> QED BY <1>4, <2>1, <2>3
<1>7. CASE HearDrops \/ ShowPeer \/ Drain \/ \E s \in Source, k \in LineKind : Give(s, k)
  <2>1. UNCHANGED <<log, client, pushes, out, top>> /\ (UNCHANGED ear \/ ear'.at # "fetch")
    <3>1. UNCHANGED <<log, client, pushes, out, top>>
      BY <1>7 DEF HearDrops, ShowPeer, Drain, Give, store
    <3>2. UNCHANGED ear \/ ear'.at # "fetch"
      <4>1. CASE HearDrops \/ ShowPeer
        BY <4>1 DEF HearDrops, ShowPeer, Deaf
      <4> QED BY <1>7, <4>1 DEF Drain, Give
    <3> QED BY <3>1, <3>2
  <2>2. Fresh'
    BY <2>1 DEF ClientInv, Fresh
  <2> QED BY <1>4, <2>1, <2>2
<1>8. ASSUME NEW i \in Id, HearFile(i) PROVE ClientInv'
  <2>1. UNCHANGED <<log, client, pushes, out>> /\ top' = i /\ i = top + 1 /\ ear'.id = i
    BY <1>8 DEF HearFile, NewId
  <2>2. top \in Nat /\ out.id \in Nat /\ ToSet(log) \subseteq Nat
    BY IdsAreNumbers
  <2>3. Fresh'
    BY <2>1, <2>2 DEF ClientInv, Fresh
  <2> QED BY <1>4, <2>1, <2>3
<1>9. CASE WaitCall \/ ReturnNull
  <2>1. UNCHANGED <<log, ring, out, ear, top, since, heard>> /\ inbox' = <<>> /\ wait' # "waiting"
    BY <1>9 DEF WaitCall, ReturnNull, tasks, store, pushes
  <2> QED BY <2>1, EmptyFacts DEF ClientInv, Fresh, Ordered, InStep
<1>10. CASE Snapshot
  <2>1. ASSUME NEW n \in Buffered, ReturnMention(ring[n]) PROVE ClientInv'
    <3>1. ring[n] \in ToSet(ring) /\ since < ring[n]
      BY DEF Buffered, ToSet
    <3>2. PICK x \in ToSet(log) : x = ring[n]
      BY <3>1 DEF ClientInv, Ordered
    <3> QED BY <2>1, <3>1, <3>2, GivenStep
  <2>2. ASSUME Buffered = {}, wait' = "waiting",
               UNCHANGED <<tasks, store, pushes, inbox, since, heard>>
        PROVE  ClientInv'
    <3>1. since # None => \A x \in ToSet(ring) : ~ (since < x)
      BY <2>2 DEF Buffered, ToSet
    <3> QED BY <2>2, <3>1 DEF tasks, store, pushes, ClientInv, Fresh, Ordered, InStep
  <2> QED BY <1>10, <2>1, <2>2 DEF Snapshot
<1>11. CASE WaitReturns
  <2>1. inbox \in Seq(Id) /\ inbox # <<>>
    BY <1>11 DEF WaitReturns, TypeOK
  <2>2. PICK x \in ToSet(log) : x = Head(inbox) /\ since < x
    BY <2>1, TailFacts DEF ClientInv, Ordered, InStep
  <2> QED BY <1>9, <1>11, <2>2, GivenStep DEF WaitReturns
<1>12. CASE WaitTimesOut
  BY <1>9, <1>12 DEF WaitTimesOut
<1>13. CASE UNCHANGED vars
  BY <1>13 DEF vars, tasks, store, client, pushes, ClientInv, Fresh, Ordered, InStep
<1> QED BY <1>1, <1>2, <1>3, <1>5, <1>6, <1>7, <1>8, <1>9, <1>10, <1>11, <1>12, <1>13
        DEF Next, SendLoop, Listener

LEMMA ClientInvariant == Spec => []ClientInv
<1>1. Init => ClientInv
  BY EmptyFacts DEF Init, Idle, Deaf, ClientInv, Fresh, Ordered, InStep
<1> QED BY <1>1, ClientSteps, TypeCorrect, PTL DEF Spec

\* Mentions reach the client that keeps calling, each once, unless the ring had to
\* evict them: what comes between two calls is in the ring, and what comes during a
\* call is in the channel (MentionsKept).
THEOREM MentionsAreKept == Spec => []MentionsKept
<1>1. Init => MentionsKept
  BY DEF Init, MentionsKept
<1>2. TypeOK /\ ClientInv /\ MentionsKept /\ [Next]_vars => MentionsKept'
  <2> SUFFICES ASSUME TypeOK, ClientInv, MentionsKept, [Next]_vars PROVE MentionsKept'
    OBVIOUS
  <2>1. ASSUME NEW x \in Id, NewId(x), NEW who, Push(x, who) PROVE MentionsKept'
    <3>1. UNCHANGED <<since, heard, again>> /\ mentions' = mentions \union {<<x, who>>}
          /\ ring' = Pushed(x)
      BY <2>1 DEF Push
    <3>2. ToSet(ring') \subseteq ToSet(ring) \union {x}
      BY <3>1, PushedFacts DEF TypeOK
    <3>3. ~ (x <= since)
      BY <2>1, NewIsAbove, IdsAreNumbers DEF Id
    <3> QED BY <3>1, <3>2, <3>3 DEF MentionsKept
  <2>2. ASSUME NEW x \in ToSet(log), since < x, ReturnMention(x),
               \A y \in ToSet(ring) : since # None /\ since < y => x <= y
        PROVE  MentionsKept'
    <3>1. UNCHANGED <<ring, mentions>> /\ since' = x /\ heard' = heard \union {x}
          /\ again' = again \union (heard \intersect {x})
      BY <2>2 DEF ReturnMention, pushes
    <3>2. since \in Nat /\ x \in Nat /\ heard \subseteq Nat /\ \A m \in mentions : m[1] \in Nat
      <4>1. Id \subseteq Nat
        BY DEF Id
      <4>2. heard \subseteq Id /\ \A m \in mentions : m[1] \in Id
        BY DEF TypeOK
      <4> QED BY <4>1, <4>2, IdsAreNumbers
    <3>3. x \notin heard
      BY <2>2, <3>2 DEF ClientInv, InStep
    <3>4. ASSUME NEW m \in mentions, m[1] <= x, NEW i \in heard \union {x}, i <= m[1],
                 m[1] \in ToSet(ring)
          PROVE  m[1] \in heard \union {x}
      <4>1. CASE m[1] = x
        BY <4>1
      <4>2. CASE m[1] # x /\ m[1] <= since
        <5>1. i \in heard
          BY <2>2, <3>2, <3>4, <4>2
        <5> QED BY <3>4, <4>2, <5>1 DEF MentionsKept
      <4>3. CASE m[1] # x /\ ~ (m[1] <= since)
        <5>1. i \in heard /\ since # None /\ since < m[1]
          BY <3>2, <3>4, <4>3 DEF ClientInv, InStep
        <5> QED BY <2>2, <3>2, <3>4, <4>3, <5>1
      <4> QED BY <4>1, <4>2, <4>3
    <3> QED BY <3>1, <3>3, <3>4 DEF MentionsKept
  <2>3. CASE Snapshot
    <3>1. ASSUME NEW n \in Buffered, \A m \in Buffered : n <= m, ReturnMention(ring[n])
          PROVE  MentionsKept'
      <4>1. ring[n] \in ToSet(ring) /\ since < ring[n] /\ n \in DOMAIN ring
        BY DEF Buffered, ToSet
      <4>2. PICK x \in ToSet(log) : x = ring[n]
        BY <4>1 DEF ClientInv, Ordered
      <4>3. ASSUME NEW m \in DOMAIN ring, since # None, since < ring[m] PROVE ring[n] <= ring[m]
        <5>1. n <= m
          BY <3>1, <4>3 DEF Buffered
        <5>2. n \in Nat /\ m \in Nat /\ ring[n] \in Nat /\ ring[m] \in Nat
          <6>1. ring \in Seq(Id) /\ Id \subseteq Nat
            BY DEF TypeOK, Id
          <6>2. n \in 1..Len(ring) /\ m \in 1..Len(ring)
            BY <4>1, <6>1, LenProperties
          <6>3. ring[n] \in Id /\ ring[m] \in Id
            BY <6>1, <6>2, ElementOfSeq
          <6>4. Len(ring) \in Nat /\ n \in Nat /\ m \in Nat
            BY <6>1, <6>2, LenProperties
          <6> QED BY <6>1, <6>3, <6>4
        <5> QED BY <4>1, <5>1, <5>2 DEF ClientInv, Ordered, Rising
      <4> QED BY <2>2, <3>1, <4>1, <4>2, <4>3 DEF ToSet
    <3>2. CASE UNCHANGED <<pushes, since, heard, again>>
      BY <3>2 DEF pushes, MentionsKept
    <3> QED BY <2>3, <3>1, <3>2 DEF Snapshot
  <2>4. CASE WaitReturns
    <3>1. CASE ReturnMention(Head(inbox))
      <4>1. inbox \in Seq(Id) /\ inbox # <<>> /\ wait = "waiting"
        BY <2>4 DEF WaitReturns, TypeOK
      <4>2. PICK x \in ToSet(log) : x = Head(inbox) /\ since < x
        BY <4>1, TailFacts DEF ClientInv, Ordered, InStep
      <4>3. \A y \in ToSet(inbox) : x <= y
        BY <4>1, <4>2, RisingTail DEF ClientInv, Ordered
      <4> QED BY <2>2, <3>1, <4>1, <4>2, <4>3 DEF ClientInv, InStep
    <3>2. CASE ReturnNull
      BY <3>2 DEF ReturnNull, pushes, MentionsKept
    <3> QED BY <2>4, <3>1, <3>2 DEF WaitReturns
  <2>5. CASE UNCHANGED <<ring, mentions, since, heard, again>>
    BY <2>5 DEF MentionsKept
  <2>6. ASSUME NEW i \in Id, LogOwn(i) PROVE MentionsKept'
    <3>1. CASE WakesUs
      <4>1. NewId(i) /\ \E who : Push(i, who)
        BY <2>6, <3>1 DEF LogOwn, WakesUs
      <4> QED BY <2>1, <4>1
    <3>2. CASE ~WakesUs
      BY <2>5, <2>6, <3>2 DEF LogOwn, client, pushes
    <3> QED BY <3>1, <3>2
  <2>7. ASSUME NEW i \in Id, NEW k \in PeerKind, HearChat(k, i) PROVE MentionsKept'
    <3>1. CASE PeerWakes(k)
      <4>1. NewId(i) /\ \E who : Push(i, who)
        BY <2>7, <3>1 DEF HearChat
      <4> QED BY <2>1, <4>1
    <3>2. CASE ~PeerWakes(k)
      BY <2>5, <2>7, <3>2 DEF HearChat, client, pushes
    <3> QED BY <3>1, <3>2
  <2>8. \/ \E i \in Id : LogOwn(i) \/ \E k \in PeerKind : HearChat(k, i)
        \/ Snapshot \/ WaitReturns
        \/ UNCHANGED <<ring, mentions, since, heard, again>>
    BY DEF Next, SendLoop, Listener, Give, TakeLine, Echo, BuildFails, LogOwnFails, Air,
           HearDrops, FetchDone, ShowPeer, Drain, HearFile, WaitCall, WaitTimesOut, ReturnNull,
           vars, tasks, store, client, pushes
  <2> QED BY <2>3, <2>4, <2>5, <2>6, <2>7, <2>8
<1> QED BY <1>1, <1>2, ClientInvariant, TypeCorrect, PTL DEF Spec

\* With its mentions the client is told what is logged between them (ContextTold): a
\* message that is appended below the id it holds comes behind that mention in the log.
THEOREM ContextIsTold == Spec => []ContextTold
<1>1. Init => ContextTold
  BY DEF Init, ContextTold
<1>2. TypeOK /\ TypeOK' /\ ClientInv /\ ContextTold /\ [Next]_vars => ContextTold'
  <2> SUFFICES ASSUME TypeOK, TypeOK', ClientInv, ContextTold, [Next]_vars PROVE ContextTold'
    OBVIOUS
  <2>1. ASSUME NEW x \in Id, log' = Append(log, x), UNCHANGED <<since, heard, told>>
        PROVE  ContextTold'
    <3>1. PICK t \in Seq(Id) : t = Append(log, x)
      BY AppendFacts DEF TypeOK
    <3>2. /\ DOMAIN log = 1..Len(log) /\ Len(log) \in Nat /\ DOMAIN t = 1..(Len(log) + 1)
          /\ \A j \in 1..Len(log) : t[j] = log[j]
          /\ t[Len(log) + 1] = x
      BY <3>1, AppendFacts DEF TypeOK
    <3>3. log' = t
      BY <2>1, <3>1
    <3>4. ASSUME NEW k \in 1..(Len(log) + 1), t[k] < since, NEW i \in heard, i < t[k],
                 ~ \E j \in 1..(k - 1) : t[j] > t[k]
          PROVE  t[k] \in told \union heard
      <4>1. CASE k = Len(log) + 1
        <5>1. since \in Nat /\ x \in Nat /\ since # None /\ x < since
          BY <3>2, <3>4, <4>1, IdsAreNumbers DEF Id, None
        <5>2. PICK j \in 1..Len(log) : log[j] = since
          BY <3>2, <5>1 DEF ClientInv, InStep, ToSet
        <5>3. j \in 1..(k - 1) /\ t[j] > t[k]
          BY <3>2, <4>1, <5>1, <5>2
        <5> QED BY <3>4, <5>3
      <4>2. CASE k # Len(log) + 1
        <5>1. k \in 1..Len(log) /\ t[k] = log[k]
          BY <3>2, <4>2
        <5>2. \A j \in 1..(k - 1) : t[j] = log[j]
          BY <3>2, <5>1
        <5>3. ~Late(k)
          BY <3>4, <5>1, <5>2 DEF Late
        <5> QED BY <3>2, <3>4, <5>1, <5>3 DEF ContextTold
      <4> QED BY <4>1, <4>2
    <3> QED BY <2>1, <3>2, <3>3, <3>4 DEF ContextTold, Late
  <2>2. ASSUME NEW x \in ToSet(log), since < x, ReturnMention(x) PROVE ContextTold'
    <3>1. UNCHANGED log /\ since' = x /\ heard' = heard \union {x} /\ told' = told \union Context(x)
      BY <2>2 DEF ReturnMention, store
    <3>2. since \in Nat /\ x \in Nat /\ heard \subseteq Nat /\ ToSet(log) \subseteq Nat
      <4>1. heard \subseteq Id
        BY DEF TypeOK
      <4>2. Id \subseteq Nat
        BY DEF Id
      <4> QED BY <4>1, <4>2, IdsAreNumbers
    <3>3. ASSUME NEW k \in DOMAIN log, log[k] < x, NEW i \in heard \union {x}, i < log[k], ~Late(k)
          PROVE  log[k] \in told \union Context(x) \union heard
      <4>1. log[k] \in ToSet(log) /\ log[k] \in Nat
        BY <3>2 DEF ToSet
      <4>2. i \in heard /\ since # None
        BY <3>2, <3>3, <4>1 DEF ClientInv, InStep
      <4>3. CASE log[k] < since
        BY <3>3, <4>2, <4>3 DEF ContextTold
      <4>4. CASE log[k] = since
        BY <4>2, <4>4 DEF ClientInv, InStep
      <4>5. CASE since < log[k]
        BY <3>3, <4>1, <4>2, <4>5 DEF Context
      <4> QED BY <3>2, <4>1, <4>3, <4>4, <4>5
    <3> QED BY <3>1, <3>3 DEF ContextTold, Late
  <2>3. CASE UNCHANGED <<log, since, heard, told>>
    BY <2>3 DEF ContextTold, Late
  <2>4. CASE Snapshot
    <3>1. ASSUME NEW n \in Buffered, ReturnMention(ring[n]) PROVE ContextTold'
      <4>1. PICK x \in ToSet(log) : x = ring[n] /\ since < x
        BY DEF Buffered, ToSet, ClientInv, Ordered
      <4> QED BY <2>2, <3>1, <4>1
    <3>2. CASE UNCHANGED <<log, since, heard, told>>
      BY <2>3, <3>2
    <3> QED BY <2>4, <3>1, <3>2 DEF Snapshot, store
  <2>5. CASE WaitReturns
    <3>1. PICK x \in ToSet(log) : x = Head(inbox) /\ since < x
      BY <2>5, TailFacts DEF WaitReturns, TypeOK, ClientInv, Ordered, InStep
    <3> QED BY <2>2, <2>3, <2>5, <3>1 DEF WaitReturns, ReturnNull, store
  <2>6. ASSUME NEW i \in Id, LogOwn(i) PROVE ContextTold'
    BY <2>1, <2>6 DEF LogOwn, Push, client
  <2>7. ASSUME NEW i \in Id, NEW k \in PeerKind, HearChat(k, i) PROVE ContextTold'
    BY <2>1, <2>7 DEF HearChat, Push, client
  <2>8. CASE FetchDone
    <3>1. ear.id \in Id
      BY <2>8 DEF FetchDone, TypeOK
    <3> QED BY <2>1, <2>8, <3>1 DEF FetchDone, client
  <2>9. \/ \E i \in Id : LogOwn(i) \/ \E k \in PeerKind : HearChat(k, i)
        \/ FetchDone \/ Snapshot \/ WaitReturns
        \/ UNCHANGED <<log, since, heard, told>>
    BY DEF Next, SendLoop, Listener, Give, TakeLine, Echo, BuildFails, LogOwnFails, Air,
           HearDrops, ShowPeer, Drain, HearFile, WaitCall, WaitTimesOut, ReturnNull,
           vars, tasks, store, client
  <2> QED BY <2>3, <2>4, <2>5, <2>6, <2>7, <2>8, <2>9
<1> QED BY <1>1, <1>2, ClientInvariant, TypeCorrect, PTL DEF Spec
=============================================================================

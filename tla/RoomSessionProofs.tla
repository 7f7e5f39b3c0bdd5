------------------------- MODULE RoomSessionProofs --------------------------
(***************************************************************************)
(* Theorems about RoomSession: types, that the logs implement Room, that a *)
(* join loses nothing, and that a log has few copies of a message, for any *)
(* number of machines and messages, any limit of the server, and any       *)
(* number of losses, ends and restarts.                                    *)
(***************************************************************************)
EXTENDS RoomSession, SequenceTheorems, FiniteSetTheorems, TLAPS

Elements(s) == {s[i] : i \in DOMAIN s}

LEMMA AppendElements ==
    ASSUME NEW S, NEW s \in Seq(S), NEW x \in S
    PROVE  /\ Append(s, x) \in Seq(S)
           /\ Len(Append(s, x)) = Len(s) + 1
           /\ Elements(Append(s, x)) = Elements(s) \union {x}
<1>1. Append(s, x) \in Seq(S) /\ Len(Append(s, x)) = Len(s) + 1
  OBVIOUS
<1>2. \A i \in 1..Len(s) : Append(s, x)[i] = s[i]
  OBVIOUS
<1>3. Append(s, x)[Len(s) + 1] = x
  OBVIOUS
<1>4. DOMAIN s = 1..Len(s) /\ DOMAIN Append(s, x) = 1..(Len(s) + 1) /\ Len(s) \in Nat
  OBVIOUS
<1>5. 1..(Len(s) + 1) = (1..Len(s)) \union {Len(s) + 1}
  BY <1>4
<1> QED
  <2>1. Elements(Append(s, x)) \subseteq Elements(s) \union {x}
    BY <1>2, <1>3, <1>4, <1>5 DEF Elements
  <2>2. Elements(s) \union {x} \subseteq Elements(Append(s, x))
    BY <1>2, <1>3, <1>4, <1>5 DEF Elements
  <2> QED BY <1>1, <2>1, <2>2

LEMMA HeadAndTail ==
    ASSUME NEW S, NEW s \in Seq(S), s # <<>>
    PROVE  /\ Tail(s) \in Seq(S)
           /\ Head(s) \in Elements(s)
           /\ Elements(s) = {Head(s)} \union Elements(Tail(s))
<1>1. Tail(s) \in Seq(S) /\ Len(s) \in Nat /\ Len(s) > 0 /\ Len(Tail(s)) = Len(s) - 1
  OBVIOUS
<1>2. DOMAIN s = 1..Len(s) /\ DOMAIN Tail(s) = 1..(Len(s) - 1) /\ Head(s) = s[1]
  BY <1>1
<1>3. \A i \in 1..(Len(s) - 1) : Tail(s)[i] = s[i + 1]
  BY <1>1
<1>4. Head(s) \in Elements(s)
  BY <1>1, <1>2 DEF Elements
<1>5. Elements(Tail(s)) \subseteq Elements(s)
  BY <1>1, <1>2, <1>3 DEF Elements
<1>6. ASSUME NEW i \in 1..Len(s), i # 1 PROVE s[i] \in Elements(Tail(s))
  <2>1. i - 1 \in 1..(Len(s) - 1) /\ Tail(s)[i - 1] = s[i]
    BY <1>1, <1>3, <1>6
  <2> QED BY <2>1, <1>2 DEF Elements
<1>7. Elements(s) \subseteq {Head(s)} \union Elements(Tail(s))
  BY <1>2, <1>6 DEF Elements
<1> QED BY <1>1, <1>4, <1>5, <1>7

\* A sequence cut to its first n elements.
LEMMA CutElements ==
    ASSUME NEW S, NEW s \in Seq(S), NEW n \in Nat, n <= Len(s)
    PROVE  /\ SubSeq(s, 1, n) \in Seq(S)
           /\ Elements(SubSeq(s, 1, n)) \subseteq Elements(s)
           /\ n = Len(s) => SubSeq(s, 1, n) = s
<1>1. Len(s) \in Nat /\ DOMAIN s = 1..Len(s) /\ \A i \in 1..n : s[i] \in S
  BY LenProperties, ElementOfSeq
<1>2. /\ SubSeq(s, 1, n) \in Seq(S)
      /\ Len(SubSeq(s, 1, n)) = n
      /\ \A i \in 1..n : SubSeq(s, 1, n)[i] = s[i]
  <2>1. /\ SubSeq(s, 1, n) \in Seq(S)
        /\ Len(SubSeq(s, 1, n)) = IF 1 <= n THEN n - 1 + 1 ELSE 0
        /\ \A i \in 1..(n - 1 + 1) : SubSeq(s, 1, n)[i] = s[1 + i - 1]
    BY <1>1, SubSeqProperties
  <2> QED BY <2>1
<1>3. DOMAIN SubSeq(s, 1, n) = 1..n
  BY <1>2, LenProperties
<1>4. Elements(SubSeq(s, 1, n)) \subseteq Elements(s)
  BY <1>1, <1>2, <1>3 DEF Elements
<1> QED BY <1>2, <1>4, SubSeqFull

\* handle_one answers with messages of its log, and with all of them if they are few.
LEMMA AnswerOfLog ==
    ASSUME TypeOK, NEW q \in Peer
    PROVE  /\ Answer(q) \in Seq(Id)
           /\ Elements(Answer(q)) \subseteq Logged(q)
           /\ Len(log[q]) <= Limit => Elements(Answer(q)) = Logged(q)
<1>1. log[q] \in Seq(Id) /\ Len(log[q]) \in Nat
  BY DEF TypeOK
<1>2. Logged(q) = Elements(log[q])
  BY DEF Logged, Elements
<1>3. CASE Len(log[q]) <= Limit
  <2>1. Answer(q) = SubSeq(log[q], 1, Len(log[q]))
    BY <1>1, <1>3, ConstantsAssumption DEF Answer
  <2> QED BY <1>1, <1>2, <2>1, SubSeqFull
<1>4. CASE ~(Len(log[q]) <= Limit)
  <2>1. Answer(q) = SubSeq(log[q], 1, Limit) /\ Limit \in Nat /\ Limit <= Len(log[q])
    BY <1>1, <1>4, ConstantsAssumption DEF Answer
  <2> QED BY <1>1, <1>2, <1>4, <2>1, CutElements
<1> QED BY <1>3, <1>4

-----------------------------------------------------------------------------
\* Every variable keeps its range; what a session has in hand is gone with it.
THEOREM TypeCorrect == Spec => []TypeOK
<1>1. Init => TypeOK
  BY ConstantsAssumption DEF Init, TypeOK
<1>2. TypeOK /\ [Next]_vars => TypeOK'
  <2> SUFFICES ASSUME TypeOK, [Next]_vars PROVE TypeOK'
    OBVIOUS
  <2> USE ConstantsAssumption DEF local, history
  <2>1. ASSUME NEW p \in Peer, NEW cs \in SUBSET (Peer \ {p}), Subscribe(p, cs) PROVE TypeOK'
    BY <2>1 DEF Subscribe, TypeOK
  <2>2. ASSUME NEW p \in Peer, NEW q \in Peer, Request(p, q) PROVE TypeOK'
    <3>1. Answer(q) \in Seq(Id) /\ Logged(p) \in SUBSET Id
      BY AnswerOfLog DEF TypeOK, Logged
    <3>2. (Len(log[q]) <= Limit) \in BOOLEAN
      OBVIOUS
    <3> QED BY <2>2, <3>1, <3>2 DEF Request, TypeOK
  <2>3. ASSUME NEW p \in Peer, NEW q \in Peer, RequestFails(p, q) PROVE TypeOK'
    BY <2>3 DEF RequestFails, TypeOK
  <2>4. ASSUME NEW p \in Peer, TakeNext(p) \/ FetchFails(p) PROVE TypeOK'
    <3>1. answer[p] \in Seq(Id) /\ answer[p] # <<>>
      BY <2>4 DEF TakeNext, FetchFails, TypeOK
    <3>2. Head(answer[p]) \in Id /\ Tail(answer[p]) \in Seq(Id)
      BY <3>1
    <3>3. Append(log[p], Head(answer[p])) \in Seq(Id)
      BY <3>2, AppendElements DEF TypeOK
    <3>4. server[p] # NoPeer
      BY <3>1 DEF TypeOK
    <3>5. CASE TakeNext(p)
      BY <3>2, <3>3, <3>4, <3>5 DEF TakeNext, TypeOK
    <3>6. CASE FetchFails(p)
      BY <3>2, <3>4, <3>6 DEF FetchFails, TypeOK
    <3> QED BY <2>4, <3>5, <3>6
  <2>5. ASSUME NEW p \in Peer, AttemptFails(p) PROVE TypeOK'
    BY <2>5 DEF AttemptFails, TypeOK
  <2>6. ASSUME NEW p \in Peer, JoinEnds(p) PROVE TypeOK'
    BY <2>6 DEF JoinEnds, NoneUnderWay, TypeOK
  <2>7. ASSUME NEW p \in Peer, SendAppend(p) PROVE TypeOK'
    <3>1. Len(author) \in Nat /\ Len(author) + 1 \in Id
      BY <2>7 DEF SendAppend, TypeOK, Id
    <3>2. Append(author, p) \in Seq(Peer) /\ Len(Append(author, p)) = Len(author) + 1
      BY AppendElements DEF TypeOK
    <3>3. Append(log[p], Len(author) + 1) \in Seq(Id)
      BY <3>1, AppendElements DEF TypeOK
    <3>4. Len(author') <= MaxId
      BY <2>7, <3>1, <3>2 DEF SendAppend, Id
    <3> QED BY <2>7, <3>1, <3>2, <3>3, <3>4 DEF SendAppend, TypeOK
  <2>8. ASSUME NEW p \in Peer, SendBroadcast(p) PROVE TypeOK'
    <3>1. PICK to \in {Subscribed, Subscribed \ {p}} :
            mesh' = [q \in Peer |-> IF q \in to THEN mesh[q] \union unaired[p] ELSE mesh[q]]
      BY <2>8 DEF SendBroadcast
    <3>2. \A q \in to : phase[q] # "off"
      BY <3>1 DEF Subscribed
    <3> QED BY <2>8, <3>1, <3>2 DEF SendBroadcast, TypeOK
  <2>9. ASSUME NEW p \in Peer, NEW x \in Id, Receive(p, x) PROVE TypeOK'
    <3>1. Append(log[p], x) \in Seq(Id)
      BY AppendElements DEF TypeOK
    <3> QED BY <2>9, <3>1 DEF Receive, TypeOK
  <2>10. ASSUME NEW p \in Peer, NEW x \in Id, ReceiveDrops(p, x) PROVE TypeOK'
    BY <2>10 DEF ReceiveDrops, TypeOK
  <2>11. ASSUME NEW p \in Peer, SessionEnds(p) PROVE TypeOK'
    BY <2>11 DEF SessionEnds, TypeOK
  <2>12. CASE UNCHANGED vars
    BY <2>12 DEF vars, TypeOK
  <2> QED BY <2>1, <2>2, <2>3, <2>4, <2>5, <2>6, <2>7, <2>8, <2>9, <2>10, <2>11, <2>12
          DEF Next
<1> QED BY <1>1, <1>2, PTL DEF Spec

-----------------------------------------------------------------------------
\* Why no message is lost in a join.

\* Whatever is on its way, logged or offered has been sent, and its author has it.
Known ==
    /\ aired \subseteq DOMAIN author
    /\ \A x \in aired : x \in Logged(author[x])
    /\ \A p \in Peer :
          /\ Logged(p) \subseteq DOMAIN author
          /\ mesh[p] \subseteq DOMAIN author
          /\ Elements(answer[p]) \subseteq DOMAIN author
          /\ unaired[p] \subseteq {x \in Logged(p) : author[x] = p}

\* Nobody asks itself.
AsksOthers == \A p \in Peer : p \notin ask[p] /\ server[p] # p /\ source[p] # p

\* What q has aired is with p, or was lost by name.
Has(p, q, more) ==
    \A x \in aired : author[x] = q => x \in Logged(p) \union mesh[p] \union missed[p] \union more

\* It is so while p looks at the whole log of q, counting what it has not looked at.
Joining ==
    \A p \in Peer :
        /\ existing[p] \subseteq Logged(p)
        /\ whole[p] => Has(p, server[p], Elements(answer[p]))

\* ... and from then on.
Joined == \A p \in Peer : source[p] # NoPeer => Has(p, source[p], {})

Inv == Known /\ AsksOthers /\ Joining /\ Joined

LEMMA AuthorsArePeers ==
    ASSUME TypeOK, Inv
    PROVE  \A x \in aired : author[x] \in Peer
BY DEF TypeOK, Inv, Known

\* The log of one machine grows by one message.
LEMMA LogGrows ==
    ASSUME TypeOK, NEW p \in Peer, NEW x \in Id,
           log' = [log EXCEPT ![p] = Append(@, x)]
    PROVE  /\ Logged(p)' = Logged(p) \union {x}
           /\ \A q \in Peer : q # p => Logged(q)' = Logged(q)
<1>1. log[p] \in Seq(Id) /\ log'[p] = Append(log[p], x)
  BY DEF TypeOK
<1>2. Logged(p)' = Elements(Append(log[p], x)) /\ Logged(p) = Elements(log[p])
  BY <1>1 DEF Logged, Elements
<1>3. \A q \in Peer : q # p => log'[q] = log[q]
  BY DEF TypeOK
<1> QED BY <1>1, <1>2, <1>3, AppendElements DEF Logged

LEMMA InitInv == Init => Inv
<1> SUFFICES ASSUME Init PROVE Inv
  OBVIOUS
<1>1. \A p \in Peer : Logged(p) = {} /\ Elements(answer[p]) = {}
  BY DEF Init, Logged, Elements
<1>2. \A p \in Peer : ask[p] = {} /\ server[p] = NoPeer /\ source[p] = NoPeer
  BY DEF Init
<1>3. Known
  BY <1>1 DEF Init, Known
<1>4. AsksOthers
  BY <1>2, ConstantsAssumption DEF AsksOthers
<1>5. Joining /\ Joined
  BY <1>1, <1>2 DEF Init, Joining, Joined, Has
<1> QED BY <1>3, <1>4, <1>5 DEF Inv

LEMMA SubscribeInv ==
    ASSUME TypeOK, Inv, NEW p \in Peer, NEW cs \in SUBSET (Peer \ {p}), Subscribe(p, cs)
    PROVE  Inv'
<1>1. UNCHANGED <<author, log, mesh, unaired, server, answer, existing, source, whole, aired, missed>>
  BY DEF Subscribe, history
<1>2. Known' /\ Joining' /\ Joined'
  BY <1>1 DEF Inv, Known, Joining, Joined, Has, Logged, Elements
<1>3. AsksOthers'
  BY <1>1 DEF Inv, AsksOthers, Subscribe, TypeOK
<1> QED BY <1>2, <1>3 DEF Inv

LEMMA RequestInv ==
    ASSUME TypeOK, Inv, NEW p \in Peer, NEW q \in Peer, Request(p, q)
    PROVE  Inv'
<1>1. UNCHANGED <<author, log, mesh, unaired, source, aired, missed>>
  BY DEF Request
<1>2. \A r \in Peer : Logged(r)' = Logged(r)
  BY <1>1 DEF Logged
<1>3. Elements(answer'[p]) = Elements(Answer(q)) /\ existing'[p] = Logged(p)
  BY DEF Request, TypeOK
<1>4. server'[p] = q /\ whole'[p] = (Len(log[q]) <= Limit)
  BY DEF Request, TypeOK
<1>5. \A r \in Peer : r # p =>
          answer'[r] = answer[r] /\ existing'[r] = existing[r] /\ whole'[r] = whole[r]
            /\ server'[r] = server[r]
  BY DEF Request, TypeOK
<1>6. Known'
  <2>1. Elements(Answer(q)) \subseteq DOMAIN author
    BY AnswerOfLog DEF Inv, Known
  <2>2. \A r \in Peer : Elements(answer'[r]) \subseteq DOMAIN author
    BY <1>3, <1>5, <2>1 DEF Inv, Known
  <2> QED BY <1>1, <1>2, <2>2, AuthorsArePeers DEF Inv, Known
<1>7. AsksOthers'
  <2>1. q # p /\ \A r \in Peer : ask'[r] \subseteq ask[r]
    BY DEF Request, Inv, AsksOthers, TypeOK
  <2> QED BY <1>1, <1>4, <1>5, <2>1 DEF Inv, AsksOthers
<1>8. Joining'
  <2>1. ASSUME NEW r \in Peer PROVE existing'[r] \subseteq Logged(r)'
    BY <1>2, <1>3, <1>5 DEF Inv, Joining
  <2>2. ASSUME whole'[p] PROVE Has(p, q, Elements(Answer(q)))
    <3>1. Elements(Answer(q)) = Logged(q)
      BY <1>4, <2>2, AnswerOfLog
    <3> QED BY <3>1 DEF Inv, Known, Has
  <2>3. ASSUME NEW r \in Peer, whole'[r] PROVE Has(r, server[r], Elements(answer[r]))' 
    <3>1. CASE r = p
      <4>1. Has(p, q, Elements(Answer(q)))
        BY <2>2, <2>3, <3>1
      <4> QED BY <1>1, <1>2, <1>3, <1>4, <3>1, <4>1 DEF Has
    <3>2. CASE r # p
      BY <1>1, <1>2, <1>5, <2>3, <3>2 DEF Inv, Joining, Has
    <3> QED BY <3>1, <3>2
  <2> QED BY <2>1, <2>3 DEF Joining
<1>9. Joined'
  BY <1>1, <1>2 DEF Inv, Joined, Has
<1> QED BY <1>6, <1>7, <1>8, <1>9 DEF Inv

LEMMA RequestFailsInv ==
    ASSUME TypeOK, Inv, NEW p \in Peer, NEW q \in Peer, RequestFails(p, q)
    PROVE  Inv'
<1>1. UNCHANGED <<author, log, mesh, unaired, server, answer, existing, source, whole, aired, missed>>
  BY DEF RequestFails, history
<1>2. Known' /\ Joining' /\ Joined'
  BY <1>1 DEF Inv, Known, Joining, Joined, Has, Logged, Elements
<1>3. \A r \in Peer : ask'[r] \subseteq ask[r]
  BY DEF RequestFails, TypeOK
<1>4. AsksOthers'
  BY <1>1, <1>3 DEF Inv, AsksOthers
<1> QED BY <1>2, <1>4 DEF Inv

\* A message of an answer is logged, or was at hand, or is our own, or is lost by name.
LEMMA TakeInv ==
    ASSUME TypeOK, Inv, NEW p \in Peer, TakeNext(p) \/ FetchFails(p)
    PROVE  Inv'
<1> DEFINE x == Head(answer[p])
<1>1. answer[p] \in Seq(Id) /\ answer[p] # <<>>
  BY DEF TakeNext, FetchFails, TypeOK
<1>2. x \in Elements(answer[p]) /\ Elements(answer[p]) = {x} \union Elements(Tail(answer[p]))
  BY <1>1, HeadAndTail
<1>3. x \in Id /\ x \in DOMAIN author
  BY <1>1, <1>2 DEF Inv, Known
<1>4. UNCHANGED <<author, mesh, unaired, ask, server, existing, source, whole, aired>>
  BY DEF TakeNext, FetchFails, history
<1>5. answer' = [answer EXCEPT ![p] = Tail(@)]
  BY DEF TakeNext, FetchFails
<1>6. /\ Elements(answer'[p]) = Elements(Tail(answer[p]))
      /\ \A r \in Peer : r # p => answer'[r] = answer[r]
  BY <1>5 DEF TypeOK
<1>7. /\ Logged(p)' \in {Logged(p), Logged(p) \union {x}}
      /\ \A r \in Peer : r # p => Logged(r)' = Logged(r)
      /\ Logged(p) \subseteq Logged(p)'
  <2>1. CASE log' = log
    BY <2>1 DEF Logged
  <2>2. CASE log' = [log EXCEPT ![p] = Append(@, x)]
    BY <1>3, <2>2, LogGrows
  <2>3. log' = log \/ log' = [log EXCEPT ![p] = Append(@, x)]
    <3>1. [log EXCEPT ![p] = log[p]] = log
      BY DEF TypeOK
    <3> QED BY <3>1 DEF TakeNext, FetchFails
  <2> QED BY <2>1, <2>2, <2>3
<1>8. \A r \in Peer : missed[r] \subseteq missed'[r]
  <2>1. CASE TakeNext(p)
    BY <2>1 DEF TakeNext, history
  <2>2. CASE FetchFails(p)
    BY <2>2 DEF FetchFails, TypeOK
  <2> QED BY <2>1, <2>2
<1>9. author[x] = p \/ x \in Logged(p)' \/ x \in missed'[p]
  <2>1. CASE TakeNext(p) /\ Unknown(p, x)
    <3>1. log' = [log EXCEPT ![p] = Append(@, x)]
      BY <2>1 DEF TakeNext
    <3>2. Logged(p)' = Logged(p) \union {x}
      BY <1>3, <3>1, LogGrows
    <3> QED BY <3>2
  <2>2. CASE TakeNext(p) /\ ~Unknown(p, x)
    BY <1>7, <2>2 DEF Unknown, Inv, Joining
  <2>3. CASE FetchFails(p)
    BY <2>3 DEF FetchFails, TypeOK
  <2> QED BY <2>1, <2>2, <2>3
<1>10. Known'
  <2>1. \A r \in Peer : Logged(r)' \subseteq DOMAIN author /\ Logged(r) \subseteq Logged(r)'
    BY <1>3, <1>7 DEF Inv, Known
  <2>2. \A r \in Peer : Elements(answer'[r]) \subseteq DOMAIN author
    BY <1>2, <1>6 DEF Inv, Known
  <2> QED BY <1>4, <2>1, <2>2, AuthorsArePeers DEF Inv, Known
<1>11. AsksOthers'
  BY <1>4 DEF Inv, AsksOthers
<1> HIDE DEF x
<1>12. Joining'
  <2>1. \A r \in Peer : existing'[r] \subseteq Logged(r)'
    BY <1>4, <1>7 DEF Inv, Joining
  <2>2. ASSUME NEW r \in Peer, whole[r] PROVE Has(r, server[r], Elements(answer[r]))'
    <3>1. Has(r, server[r], Elements(answer[r]))
      BY <2>2 DEF Inv, Joining
    <3>2. CASE r # p
      BY <1>4, <1>6, <1>7, <1>8, <3>1, <3>2 DEF Has
    <3>3. CASE r = p
      <4>1. server[p] # p
        BY DEF Inv, AsksOthers
      <4> QED BY <1>2, <1>4, <1>6, <1>7, <1>8, <1>9, <3>1, <3>3, <4>1 DEF Has
    <3> QED BY <3>2, <3>3
  <2> QED BY <1>4, <2>1, <2>2 DEF Joining
<1>13. Joined'
  BY <1>4, <1>7, <1>8 DEF Inv, Joined, Has
<1> QED BY <1>10, <1>11, <1>12, <1>13 DEF Inv

LEMMA AttemptFailsInv ==
    ASSUME TypeOK, Inv, NEW p \in Peer, AttemptFails(p)
    PROVE  Inv'
<1>1. UNCHANGED <<author, log, mesh, unaired, ask, source, aired, missed>>
  BY DEF AttemptFails
<1>2. /\ answer'[p] = <<>> /\ existing'[p] = {} /\ ~whole'[p] /\ server'[p] = NoPeer
      /\ \A r \in Peer : r # p =>
            answer'[r] = answer[r] /\ existing'[r] = existing[r] /\ whole'[r] = whole[r]
              /\ server'[r] = server[r]
  BY DEF AttemptFails, TypeOK
<1>3. Elements(answer'[p]) = {} /\ \A r \in Peer : Logged(r)' = Logged(r)
  BY <1>1, <1>2 DEF Elements, Logged
<1>4. Known'
  BY <1>1, <1>2, <1>3, AuthorsArePeers DEF Inv, Known
<1>5. AsksOthers'
  BY <1>1, <1>2, ConstantsAssumption DEF Inv, AsksOthers
<1>6. Joining' /\ Joined'
  BY <1>1, <1>2, <1>3 DEF Inv, Joining, Joined, Has
<1> QED BY <1>4, <1>5, <1>6 DEF Inv

LEMMA JoinEndsInv ==
    ASSUME TypeOK, Inv, NEW p \in Peer, JoinEnds(p)
    PROVE  Inv'
<1>1. UNCHANGED <<author, log, mesh, unaired, answer, aired, missed>>
  BY DEF JoinEnds
<1>2. /\ existing'[p] = {} /\ ~whole'[p] /\ server'[p] = NoPeer /\ ask'[p] = {}
      /\ source'[p] = IF whole[p] THEN server[p] ELSE NoPeer
      /\ \A r \in Peer : r # p =>
            existing'[r] = existing[r] /\ whole'[r] = whole[r] /\ server'[r] = server[r]
              /\ ask'[r] = ask[r] /\ source'[r] = source[r]
  BY DEF JoinEnds, TypeOK
<1>3. Elements(answer[p]) = {} /\ \A r \in Peer : Logged(r)' = Logged(r)
  BY <1>1 DEF Elements, Logged, JoinEnds, NoneUnderWay
<1>4. Known'
  BY <1>1, <1>3, AuthorsArePeers DEF Inv, Known
<1>5. AsksOthers'
  BY <1>2, ConstantsAssumption DEF Inv, AsksOthers
<1>6. Joining'
  BY <1>1, <1>2, <1>3 DEF Inv, Joining, Has
<1>7. Joined'
  <2>1. ASSUME NEW r \in Peer, source'[r] # NoPeer PROVE Has(r, source[r], {})'
    <3>1. CASE r = p
      <4>1. Has(p, server[p], Elements(answer[p])) /\ source'[p] = server[p]
        BY <1>2, <2>1, <3>1 DEF Inv, Joining
      <4> QED BY <1>1, <1>3, <3>1, <4>1 DEF Has
    <3>2. CASE r # p
      BY <1>1, <1>2, <1>3, <2>1, <3>2 DEF Inv, Joined, Has
    <3> QED BY <3>1, <3>2
  <2> QED BY <2>1 DEF Joined
<1> QED BY <1>4, <1>5, <1>6, <1>7 DEF Inv

LEMMA SendAppendInv ==
    ASSUME TypeOK, Inv, NEW p \in Peer, SendAppend(p)
    PROVE  Inv'
<1> DEFINE x == Len(author) + 1
<1>1. UNCHANGED <<mesh, ask, server, answer, existing, source, whole, aired, missed>>
  BY DEF SendAppend, local, history
<1>2. /\ author \in Seq(Peer) /\ Len(author) \in Nat /\ DOMAIN author = 1..Len(author)
      /\ x \in Id /\ x \notin DOMAIN author
  <2>1. author \in Seq(Peer)
    BY DEF TypeOK
  <2>2. Len(author) \in Nat /\ DOMAIN author = 1..Len(author)
    BY <2>1, LenProperties
  <2>3. x \in Id
    BY <2>2, ConstantsAssumption DEF SendAppend, Id
  <2> QED BY <2>1, <2>2, <2>3
<1>3. /\ DOMAIN author \subseteq DOMAIN author'
      /\ x \in DOMAIN author' /\ author'[x] = p
      /\ \A y \in DOMAIN author : author'[y] = author[y]
  BY <1>2 DEF SendAppend
<1>4. log' = [log EXCEPT ![p] = Append(@, x)]
  BY DEF SendAppend
<1>5. Logged(p)' = Logged(p) \union {x} /\ \A q \in Peer : q # p => Logged(q)' = Logged(q)
  BY <1>2, <1>4, LogGrows
<1>6. unaired'[p] = {x} /\ \A q \in Peer : q # p => unaired'[q] = unaired[q]
  BY DEF SendAppend, TypeOK
<1> HIDE DEF x
<1>7. Known'
  <2>1. \A q \in Peer : Logged(q)' \subseteq DOMAIN author' /\ Logged(q) \subseteq Logged(q)'
    BY <1>3, <1>5 DEF Inv, Known
  <2>2. \A q \in Peer : unaired'[q] \subseteq {y \in Logged(q)' : author'[y] = q}
    BY <1>3, <1>5, <1>6 DEF Inv, Known
  <2>3. \A y \in aired : y \in DOMAIN author /\ author'[y] = author[y] /\ author[y] \in Peer
    BY <1>3, AuthorsArePeers DEF Inv, Known
  <2> QED BY <1>1, <1>3, <2>1, <2>2, <2>3 DEF Inv, Known
<1>8. AsksOthers'
  BY <1>1 DEF Inv, AsksOthers
<1>9. Joining' /\ Joined'
  <2>1. \A q \in Peer : existing[q] \subseteq Logged(q)'
    BY <1>5 DEF Inv, Joining
  <2>2. ASSUME NEW q \in Peer, whole[q] PROVE Has(q, server[q], Elements(answer[q]))'
    <3>1. Has(q, server[q], Elements(answer[q]))
      BY <2>2 DEF Inv, Joining
    <3> QED BY <1>1, <1>3, <1>5, <3>1 DEF Has, Inv, Known
  <2>3. ASSUME NEW q \in Peer, source[q] # NoPeer PROVE Has(q, source[q], {})'
    <3>1. Has(q, source[q], {})
      BY <2>3 DEF Inv, Joined
    <3> QED BY <1>1, <1>3, <1>5, <3>1 DEF Has, Inv, Known
  <2> QED BY <1>1, <2>1, <2>2, <2>3 DEF Joining, Joined
<1> QED BY <1>7, <1>8, <1>9 DEF Inv

\* A broadcast reaches everyone who has subscribed, so also who is still joining.
LEMMA SendBroadcastInv ==
    ASSUME TypeOK, Inv, NEW p \in Peer, SendBroadcast(p)
    PROVE  Inv'
<1>1. UNCHANGED <<author, log, ask, server, answer, existing, source, whole, missed>>
  BY DEF SendBroadcast, local
<1>2. PICK to \in {Subscribed, Subscribed \ {p}} :
        mesh' = [q \in Peer |-> IF q \in to THEN mesh[q] \union unaired[p] ELSE mesh[q]]
  BY DEF SendBroadcast
<1>3. aired' = aired \union unaired[p] /\ \A q \in Peer : unaired'[q] \subseteq unaired[q]
  BY DEF SendBroadcast, TypeOK
<1>4. \A q \in Peer : Logged(q)' = Logged(q)
  BY <1>1 DEF Logged
<1>5. \A x \in unaired[p] : x \in DOMAIN author /\ author[x] = p /\ x \in Logged(p)
  BY DEF Inv, Known
<1>6. Known'
  <2>1. \A q \in Peer : mesh'[q] \subseteq mesh[q] \union unaired[p]
    BY <1>2
  <2>2. aired' \subseteq DOMAIN author
    BY <1>3, <1>5 DEF Inv, Known
  <2>3. ASSUME NEW x \in aired' PROVE x \in Logged(author[x])'
    <3>1. author[x] \in Peer /\ x \in Logged(author[x])
      <4>1. CASE x \in aired
        BY <4>1, AuthorsArePeers DEF Inv, Known
      <4>2. CASE x \in unaired[p]
        BY <1>5, <4>2
      <4> QED BY <1>3, <2>3, <4>1, <4>2
    <3>2. Logged(author[x])' = Logged(author[x])
      BY <1>1, <1>4, <3>1
    <3> QED BY <3>1, <3>2
  <2> QED BY <1>1, <1>3, <1>4, <1>5, <2>1, <2>2, <2>3 DEF Inv, Known
<1>7. AsksOthers'
  BY <1>1 DEF Inv, AsksOthers
<1>8. ASSUME NEW q \in Peer, NEW r \in Peer, NEW S, r # q, phase[q] # "off", Has(q, r, S)
      PROVE  \A x \in aired' : author[x] = r =>
                x \in Logged(q) \union mesh'[q] \union missed[q] \union S
  <2>1. CASE r = p
    <3>1. q \in to
      BY <1>2, <1>8, <2>1 DEF Subscribed
    <3>2. mesh'[q] = mesh[q] \union unaired[p]
      BY <1>2, <3>1
    <3> QED BY <1>3, <1>8, <3>2 DEF Has
  <2>2. CASE r # p
    <3>1. mesh[q] \subseteq mesh'[q]
      BY <1>2
    <3> QED BY <1>3, <1>5, <1>8, <2>2, <3>1 DEF Has
  <2> QED BY <2>1, <2>2
<1>9. Joining'
  <2>1. ASSUME NEW q \in Peer, whole[q] PROVE Has(q, server[q], Elements(answer[q]))'
    <3>1. Has(q, server[q], Elements(answer[q]))
      BY <2>1 DEF Inv, Joining
    <3>2. server[q] \in Peer /\ server[q] # q /\ phase[q] # "off"
      BY <2>1 DEF TypeOK, Inv, AsksOthers
    <3> QED BY <1>1, <1>4, <1>8, <3>1, <3>2 DEF Has
  <2> QED BY <1>1, <1>4, <2>1 DEF Inv, Joining
<1>10. Joined'
  <2>1. ASSUME NEW q \in Peer, source[q] # NoPeer PROVE Has(q, source[q], {})'
    <3>1. Has(q, source[q], {})
      BY <2>1 DEF Inv, Joined
    <3>2. source[q] \in Peer /\ source[q] # q /\ phase[q] # "off"
      BY <2>1 DEF TypeOK, Inv, AsksOthers
    <3> QED BY <1>1, <1>4, <1>8, <3>1, <3>2 DEF Has
  <2> QED BY <1>1, <2>1 DEF Joined
<1> QED BY <1>6, <1>7, <1>9, <1>10 DEF Inv

LEMMA ReceiveInv ==
    ASSUME TypeOK, Inv, NEW p \in Peer, NEW x \in Id, Receive(p, x) \/ ReceiveDrops(p, x)
    PROVE  Inv'
<1>1. UNCHANGED <<author, unaired, ask, server, answer, existing, source, whole, aired>>
  BY DEF Receive, ReceiveDrops, local, history
<1>2. x \in mesh[p] /\ x \in DOMAIN author
  BY DEF Receive, ReceiveDrops, Inv, Known
<1>3. mesh' = [mesh EXCEPT ![p] = @ \ {x}]
  BY DEF Receive, ReceiveDrops
<1>4. mesh'[p] = mesh[p] \ {x} /\ \A q \in Peer : q # p => mesh'[q] = mesh[q]
  BY <1>3 DEF TypeOK
<1>5. /\ Logged(p)' \in {Logged(p), Logged(p) \union {x}}
      /\ \A q \in Peer : q # p => Logged(q)' = Logged(q)
      /\ \A q \in Peer : missed[q] \subseteq missed'[q]
      /\ author[x] = p \/ x \in Logged(p)' \/ x \in missed'[p]
  <2>1. CASE Receive(p, x) /\ Foreign(p, x)
    <3>1. log' = [log EXCEPT ![p] = Append(@, x)] /\ missed' = missed
      BY <2>1 DEF Receive, history
    <3>2. Logged(p)' = Logged(p) \union {x} /\ \A q \in Peer : q # p => Logged(q)' = Logged(q)
      BY <3>1, LogGrows
    <3> QED BY <3>1, <3>2
  <2>2. CASE Receive(p, x) /\ ~Foreign(p, x)
    <3>1. [log EXCEPT ![p] = log[p]] = log
      BY DEF TypeOK
    <3>2. log' = log /\ missed' = missed
      BY <2>2, <3>1 DEF Receive, history
    <3>3. author[x] = p
      BY <2>2 DEF Foreign
    <3> QED BY <3>2, <3>3 DEF Logged
  <2>3. CASE ReceiveDrops(p, x)
    <3>1. log' = log /\ missed' = [missed EXCEPT ![p] = @ \union {x}]
      BY <2>3 DEF ReceiveDrops
    <3>2. x \in missed'[p] /\ \A q \in Peer : missed[q] \subseteq missed'[q]
      BY <3>1 DEF TypeOK
    <3> QED BY <3>1, <3>2 DEF Logged
  <2> QED BY <2>1, <2>2, <2>3
<1>6. Known'
  <2>1. \A q \in Peer : Logged(q)' \subseteq DOMAIN author /\ Logged(q) \subseteq Logged(q)'
    BY <1>2, <1>5 DEF Inv, Known
  <2>2. \A q \in Peer : mesh'[q] \subseteq mesh[q]
    BY <1>4
  <2> QED BY <1>1, <2>1, <2>2, AuthorsArePeers DEF Inv, Known
<1>7. AsksOthers'
  BY <1>1 DEF Inv, AsksOthers
<1>8. ASSUME NEW q \in Peer, NEW r, NEW S, r # q, Has(q, r, S)
      PROVE  \A y \in aired : author[y] = r =>
                y \in Logged(q)' \union mesh'[q] \union missed'[q] \union S
  <2>1. CASE q = p
    BY <1>4, <1>5, <1>8, <2>1 DEF Has
  <2>2. CASE q # p
    BY <1>4, <1>5, <1>8, <2>2 DEF Has
  <2> QED BY <2>1, <2>2
<1>9. Joining'
  <2>1. \A q \in Peer : existing[q] \subseteq Logged(q)'
    BY <1>5 DEF Inv, Joining
  <2>2. ASSUME NEW q \in Peer, whole[q] PROVE Has(q, server[q], Elements(answer[q]))'
    <3>1. Has(q, server[q], Elements(answer[q])) /\ server[q] # q
      BY <2>2 DEF Inv, Joining, AsksOthers
    <3> QED BY <1>1, <1>8, <3>1 DEF Has
  <2> QED BY <1>1, <2>1, <2>2 DEF Joining
<1>10. Joined'
  <2>1. ASSUME NEW q \in Peer, source[q] # NoPeer PROVE Has(q, source[q], {})'
    <3>1. Has(q, source[q], {}) /\ source[q] # q
      BY <2>1 DEF Inv, Joined, AsksOthers
    <3> QED BY <1>1, <1>8, <3>1 DEF Has
  <2> QED BY <1>1, <2>1 DEF Joined
<1> QED BY <1>6, <1>7, <1>9, <1>10 DEF Inv

LEMMA SessionEndsInv ==
    ASSUME TypeOK, Inv, NEW p \in Peer, SessionEnds(p)
    PROVE  Inv'
<1>1. UNCHANGED <<author, log, aired>>
  BY DEF SessionEnds
<1>2. /\ mesh'[p] = {} /\ unaired'[p] = {} /\ ask'[p] = {} /\ server'[p] = NoPeer
      /\ answer'[p] = <<>> /\ existing'[p] = {} /\ source'[p] = NoPeer /\ ~whole'[p]
  BY DEF SessionEnds, TypeOK
<1>3. \A q \in Peer : q # p =>
        /\ mesh'[q] = mesh[q] /\ unaired'[q] = unaired[q] /\ ask'[q] = ask[q]
        /\ server'[q] = server[q] /\ answer'[q] = answer[q] /\ existing'[q] = existing[q]
        /\ source'[q] = source[q] /\ whole'[q] = whole[q] /\ missed'[q] = missed[q]
  BY DEF SessionEnds, TypeOK
<1>4. Elements(answer'[p]) = {} /\ \A q \in Peer : Logged(q)' = Logged(q)
  BY <1>1, <1>2 DEF Elements, Logged
<1>5. Known'
  BY <1>1, <1>2, <1>3, <1>4, AuthorsArePeers DEF Inv, Known
<1>6. AsksOthers'
  BY <1>2, <1>3, ConstantsAssumption DEF Inv, AsksOthers
<1>7. Joining' /\ Joined'
  BY <1>1, <1>2, <1>3, <1>4 DEF Inv, Joining, Joined, Has
<1> QED BY <1>5, <1>6, <1>7 DEF Inv

LEMMA Invariance == Spec => []Inv
<1>1. TypeOK /\ Inv /\ [Next]_vars => Inv'
  <2> SUFFICES ASSUME TypeOK, Inv, [Next]_vars PROVE Inv'
    OBVIOUS
  <2>1. CASE Next
    <3>1. ASSUME NEW p \in Peer, NEW cs \in SUBSET (Peer \ {p}), Subscribe(p, cs) PROVE Inv'
      BY <3>1, SubscribeInv
    <3>2. ASSUME NEW p \in Peer, NEW q \in Peer, Request(p, q) \/ RequestFails(p, q) PROVE Inv'
      BY <3>2, RequestInv, RequestFailsInv
    <3>3. ASSUME NEW p \in Peer, TakeNext(p) \/ FetchFails(p) PROVE Inv'
      BY <3>3, TakeInv
    <3>4. ASSUME NEW p \in Peer, AttemptFails(p) \/ JoinEnds(p) \/ SessionEnds(p) PROVE Inv'
      BY <3>4, AttemptFailsInv, JoinEndsInv, SessionEndsInv
    <3>5. ASSUME NEW p \in Peer, SendAppend(p) \/ SendBroadcast(p) PROVE Inv'
      BY <3>5, SendAppendInv, SendBroadcastInv
    <3>6. ASSUME NEW p \in Peer, NEW x \in Id, Receive(p, x) \/ ReceiveDrops(p, x) PROVE Inv'
      BY <3>6, ReceiveInv
    <3> QED BY <2>1, <3>1, <3>2, <3>3, <3>4, <3>5, <3>6 DEF Next
  <2>2. CASE UNCHANGED vars
    BY <2>2 DEF vars, local, history, Inv, Known, AsksOthers, Joining, Joined, Has, Logged, Elements
  <2> QED BY <2>1, <2>2
<1> QED BY <1>1, InitInv, TypeCorrect, PTL DEF Spec

-----------------------------------------------------------------------------
\* A session whose history came whole from q has, or had on its way, every message
\* that q has ever aired: run_session subscribes before it asks, and q answers with
\* what it had logged before it broadcast.
THEOREM JoinsLoseNothing == Spec => []JoinLosesNothing
<1>1. Inv => JoinLosesNothing
  BY DEF Inv, Joined, Has, JoinLosesNothing
<1> QED BY <1>1, Invariance, PTL

-----------------------------------------------------------------------------
\* Whatever the network does and whenever sessions end, the logs do what Room
\* promises: SendAppend is a Send, a message taken from an answer or from gossip is
\* one that another machine sent before, and no other step touches a log.
THEOREM RefinesRoom == Spec => ImplementsRoom
<1>1. Init => Abstract!Init
  BY DEF Init, Abstract!Init
<1>2. TypeOK /\ Inv /\ [Next]_vars => [Abstract!Next]_(Abstract!rvars)
  <2> SUFFICES ASSUME TypeOK, Inv, [Next]_vars
               PROVE  Abstract!Next \/ UNCHANGED <<author, log>>
    BY DEF Abstract!rvars
  <2>1. ASSUME NEW p \in Peer, SendAppend(p) PROVE Abstract!Send(p)
    <3>1. Len(author) \in Nat
      BY LenProperties DEF TypeOK
    <3>2. Len(author) + 1 \in Id
      BY <2>1, <3>1, ConstantsAssumption DEF SendAppend, Id
    <3> QED BY <2>1, <3>2 DEF SendAppend, Abstract!Send
  <2>2. ASSUME NEW p \in Peer, TakeNext(p)
        PROVE  UNCHANGED <<author, log>> \/ \E x \in Id : Abstract!Learn(p, x)
    <3> DEFINE x == Head(answer[p])
    <3>1. answer[p] \in Seq(Id) /\ answer[p] # <<>>
      BY <2>2 DEF TakeNext, TypeOK
    <3>2. x \in Id /\ x \in DOMAIN author
      BY <3>1, HeadAndTail DEF Inv, Known
    <3>3. CASE Unknown(p, x)
      BY <2>2, <3>2, <3>3 DEF TakeNext, Unknown, Abstract!Learn
    <3>4. CASE ~Unknown(p, x)
      <4>1. [log EXCEPT ![p] = log[p]] = log
        BY DEF TypeOK
      <4> QED BY <2>2, <3>4, <4>1 DEF TakeNext
    <3> QED BY <3>3, <3>4
  <2>3. ASSUME NEW p \in Peer, NEW x \in Id, Receive(p, x)
        PROVE  UNCHANGED <<author, log>> \/ Abstract!Learn(p, x)
    <3>1. x \in DOMAIN author
      BY <2>3 DEF Receive, Inv, Known
    <3>2. CASE Foreign(p, x)
      BY <2>3, <3>1, <3>2 DEF Receive, Foreign, Abstract!Learn
    <3>3. CASE ~Foreign(p, x)
      <4>1. [log EXCEPT ![p] = log[p]] = log
        BY DEF TypeOK
      <4> QED BY <2>3, <3>3, <4>1 DEF Receive
    <3> QED BY <3>2, <3>3
  <2>4. ASSUME NEW p \in Peer, NEW cs, Subscribe(p, cs) PROVE UNCHANGED <<author, log>>
    BY <2>4 DEF Subscribe
  <2>5. ASSUME NEW p \in Peer, NEW q \in Peer, Request(p, q) \/ RequestFails(p, q)
        PROVE  UNCHANGED <<author, log>>
    BY <2>5 DEF Request, RequestFails
  <2>6. ASSUME NEW p \in Peer,
               \/ FetchFails(p) \/ AttemptFails(p) \/ JoinEnds(p)
               \/ SendBroadcast(p) \/ SessionEnds(p)
        PROVE  UNCHANGED <<author, log>>
    BY <2>6 DEF FetchFails, AttemptFails, JoinEnds, SendBroadcast, SessionEnds
  <2>7. ASSUME NEW p \in Peer, NEW x \in Id, ReceiveDrops(p, x)
        PROVE  UNCHANGED <<author, log>>
    BY <2>7 DEF ReceiveDrops
  <2>8. CASE UNCHANGED vars
    BY <2>8 DEF vars
  <2> QED BY <2>1, <2>2, <2>3, <2>4, <2>5, <2>6, <2>7, <2>8 DEF Next, Abstract!Next
<1> QED BY <1>1, <1>2, TypeCorrect, Invariance, PTL DEF Spec, ImplementsRoom, Abstract!Spec
-----------------------------------------------------------------------------
\* Why a log has few copies of a message.

Places(s, x) == {i \in DOMAIN s : s[i] = x}

Count(s, x) == Cardinality(Places(s, x))

LEMMA CountType ==
    ASSUME NEW S, NEW s \in Seq(S), NEW x
    PROVE  /\ IsFiniteSet(Places(s, x))
           /\ Count(s, x) \in Nat
           /\ Count(s, x) > 0 <=> x \in Elements(s)
<1>1. Len(s) \in Nat /\ DOMAIN s = 1..Len(s)
  BY LenProperties
<1>2. Places(s, x) \in SUBSET (1..Len(s)) /\ IsFiniteSet(1..Len(s))
  BY <1>1, FS_Interval DEF Places
<1>3. IsFiniteSet(Places(s, x))
  BY <1>2, FS_Subset
<1>4. Count(s, x) \in Nat
  BY <1>3, FS_CardinalityType DEF Count
<1>5. Count(s, x) = 0 <=> Places(s, x) = {}
  BY <1>3, FS_EmptySet DEF Count
<1>6. Places(s, x) = {} <=> x \notin Elements(s)
  BY DEF Places, Elements
<1> QED BY <1>3, <1>4, <1>5, <1>6

LEMMA CountAppend ==
    ASSUME NEW S, NEW s \in Seq(S), NEW y \in S, NEW x
    PROVE  Count(Append(s, y), x) = IF x = y THEN Count(s, x) + 1 ELSE Count(s, x)
<1> DEFINE t == Append(s, y)
           n == Len(s) + 1
<1>1. /\ Len(s) \in Nat /\ DOMAIN s = 1..Len(s) /\ DOMAIN t = 1..n
      /\ t[n] = y /\ \A i \in 1..Len(s) : t[i] = s[i]
  OBVIOUS
<1>2. 1..n = (1..Len(s)) \union {n} /\ n \notin 1..Len(s)
  BY <1>1
<1>3. CASE x = y
  <2>1. Places(t, x) = Places(s, x) \union {n} /\ n \notin Places(s, x)
    BY <1>1, <1>2, <1>3 DEF Places
  <2> QED BY <1>3, <2>1, CountType, FS_AddElement DEF Count
<1>4. CASE x # y
  <2>1. Places(t, x) = Places(s, x)
    BY <1>1, <1>2, <1>4 DEF Places
  <2> QED BY <1>4, <2>1 DEF Count
<1> QED BY <1>3, <1>4

LEMMA CountTail ==
    ASSUME NEW S, NEW s \in Seq(S), s # <<>>, NEW x
    PROVE  IF x = Head(s) THEN Count(Tail(s), x) + 1 <= Count(s, x)
                          ELSE Count(Tail(s), x) <= Count(s, x)
<1> DEFINE t == Tail(s)
           f == [i \in Places(t, x) |-> i + 1]
           Rest == Places(s, x) \ {1}
<1>1. /\ t \in Seq(S) /\ Len(s) \in Nat /\ Len(s) > 0 /\ DOMAIN s = 1..Len(s)
      /\ DOMAIN t = 1..(Len(s) - 1) /\ Head(s) = s[1]
      /\ \A i \in 1..(Len(s) - 1) : t[i] = s[i + 1]
  OBVIOUS
<1>2. f \in Injection(Places(t, x), Rest)
  <2>1. \A i \in Places(t, x) : i \in Nat /\ f[i] = i + 1 /\ f[i] \in Rest
    BY <1>1 DEF Places
  <2>2. f \in [Places(t, x) -> Rest]
    BY <2>1
  <2> QED BY <2>1, <2>2 DEF Injection, IsInjective
<1>3. IsFiniteSet(Places(s, x)) /\ Count(s, x) \in Nat /\ Count(t, x) \in Nat
  BY <1>1, CountType
<1>4. /\ IsFiniteSet(Rest)
      /\ Cardinality(Rest) = IF 1 \in Places(s, x) THEN Count(s, x) - 1 ELSE Count(s, x)
  BY <1>3, FS_RemoveElement DEF Count
<1>5. Count(t, x) <= Cardinality(Rest)
  BY <1>2, <1>4, FS_Injection DEF Count
<1>6. 1 \in Places(s, x) <=> x = Head(s)
  BY <1>1 DEF Places
<1> HIDE DEF t, Rest
<1> QED BY <1>3, <1>4, <1>5, <1>6 DEF t

LEMMA CountCut ==
    ASSUME NEW S, NEW s \in Seq(S), NEW n \in Nat, n <= Len(s), NEW x
    PROVE  Count(SubSeq(s, 1, n), x) <= Count(s, x)
<1> DEFINE t == SubSeq(s, 1, n)
<1>1. Len(s) \in Nat /\ DOMAIN s = 1..Len(s) /\ \A i \in 1..n : s[i] \in S
  BY LenProperties, ElementOfSeq
<1>2. /\ Len(t) = IF 1 <= n THEN n - 1 + 1 ELSE 0
      /\ \A i \in 1..(n - 1 + 1) : t[i] = s[1 + i - 1]
      /\ t \in Seq(S)
  BY <1>1, SubSeqProperties
<1>3. DOMAIN t = 1..n /\ \A i \in 1..n : t[i] = s[i]
  BY <1>2, LenProperties
<1>4. Places(t, x) \in SUBSET Places(s, x)
  BY <1>1, <1>3 DEF Places
<1> QED BY <1>4, CountType, FS_Subset DEF Count

\* The machines with a message.
Holders(x) == {p \in Peer : x \in Logged(p)}

\* What p may still log of x: from the answer it looks at,
ToTake(p, x) == IF x \in existing[p] THEN 0 ELSE Count(answer[p], x)

\* ... and by gossip, which has it once.
ToHear(p, x) == IF x \notin aired \/ x \in mesh[p] THEN 1 ELSE 0

Sum(p, x) == Count(log[p], x) + ToTake(p, x) + ToHear(p, x)

\* A machine that takes x from another's answer is not among the holders before, and
\* is afterwards: every hop adds the one copy that gossip may add, and no more.
Bounded(p, x) ==
    IF author[x] = p THEN Count(log[p], x) <= 1
    ELSE Sum(p, x) <= Cardinality(Holders(x) \union {p})

\* A message is broadcast once, and gossip has no other.
AiredOnce == \A p \in Peer : unaired[p] \intersect aired = {} /\ mesh[p] \subseteq aired

FewCopies == AiredOnce /\ \A p \in Peer, x \in DOMAIN author : Bounded(p, x)

LEMMA NatSums ==
    ASSUME TypeOK, NEW p \in Peer, NEW x
    PROVE  /\ Count(log[p], x) \in Nat /\ Count(answer[p], x) \in Nat
           /\ ToTake(p, x) \in 0..Count(answer[p], x) /\ ToHear(p, x) \in 0..1
           /\ Sum(p, x) \in Nat
           /\ Count(log[p], x) > 0 <=> x \in Logged(p)
           /\ Count(answer[p], x) > 0 <=> x \in Elements(answer[p])
<1>1. log[p] \in Seq(Id) /\ answer[p] \in Seq(Id)
  BY DEF TypeOK
<1>2. Elements(log[p]) = Logged(p)
  BY DEF Elements, Logged
<1> QED BY <1>1, <1>2, CountType DEF ToTake, ToHear, Sum

\* Nothing else matters to the bound of a machine and a message.
LEMMA HoldersGrow ==
    ASSUME NEW p \in Peer, NEW x, \A q \in Peer : Logged(q) \subseteq Logged(q)'
    PROVE  /\ Cardinality(Holders(x) \union {p}) \in Nat
           /\ Cardinality((Holders(x) \union {p})') \in Nat
           /\ Cardinality(Holders(x) \union {p}) <= Cardinality((Holders(x) \union {p})')
<1>1. Holders(x) \union {p} \in SUBSET (Holders(x) \union {p})'
  BY DEF Holders
<1>2. (Holders(x) \union {p})' \in SUBSET Peer /\ Holders(x) \union {p} \in SUBSET Peer
  BY DEF Holders
<1>3. IsFiniteSet((Holders(x) \union {p})') /\ IsFiniteSet(Holders(x) \union {p})
  BY <1>2, FS_Subset, ConstantsAssumption
<1> QED BY <1>1, <1>3, FS_Subset, FS_CardinalityType

\* What a step must show of a machine and a message.
LEMMA BoundKept ==
    ASSUME TypeOK, TypeOK', NEW p \in Peer, NEW x \in DOMAIN author, Bounded(p, x),
           author'[x] = author[x],
           \A q \in Peer : Logged(q) \subseteq Logged(q)',
           author[x] = p => Count(log'[p], x) = Count(log[p], x),
           author[x] # p => Sum(p, x)' <= Sum(p, x)
    PROVE  Bounded(p, x)'
<1>1. Sum(p, x) \in Nat /\ Sum(p, x)' \in Nat /\ Count(log[p], x) \in Nat
  <2>1. log'[p] \in Seq(Id) /\ answer'[p] \in Seq(Id)
    BY DEF TypeOK
  <2>2. Count(log'[p], x) \in Nat /\ Count(answer'[p], x) \in Nat
    BY <2>1, CountType
  <2> QED BY <2>2, NatSums DEF Sum, ToTake, ToHear, Count, Places
<1>2. CASE author[x] = p
  BY <1>1, <1>2 DEF Bounded, Count, Places
<1>3. CASE author[x] # p
  <2>1. Sum(p, x) <= Cardinality(Holders(x) \union {p})
    BY <1>3 DEF Bounded
  <2>2. Sum(p, x)' <= Cardinality((Holders(x) \union {p})')
    BY <1>1, <1>3, <2>1, HoldersGrow
  <2>3. Cardinality((Holders(x) \union {p})') = Cardinality(Holders(x) \union {p})'
    BY DEF Holders
  <2> QED BY <1>3, <2>2, <2>3 DEF Bounded
<1> QED BY <1>2, <1>3

\* Steps that log nothing, after which no more is to be taken or to be heard.
LEMMA QuietStep ==
    ASSUME TypeOK, TypeOK', Inv, FewCopies, UNCHANGED <<author, log>>, AiredOnce',
           ASSUME NEW p \in Peer, NEW x \in DOMAIN author, author[x] # p
           PROVE  ToTake(p, x)' <= ToTake(p, x) /\ ToHear(p, x)' <= ToHear(p, x)
    PROVE  FewCopies'
<1>1. \A q \in Peer : Logged(q) \subseteq Logged(q)'
  BY DEF Logged
<1> SUFFICES ASSUME NEW p \in Peer, NEW x \in DOMAIN author PROVE Bounded(p, x)'
  BY DEF FewCopies
<1>2. Count(log'[p], x) = Count(log[p], x)
  OBVIOUS
<1>3. ASSUME author[x] # p PROVE Sum(p, x)' <= Sum(p, x)
  <2>1. ToTake(p, x)' <= ToTake(p, x) /\ ToHear(p, x)' <= ToHear(p, x)
    BY <1>3
  <2>2. ToTake(p, x) \in Nat /\ ToHear(p, x) \in Nat /\ Count(log[p], x) \in Nat
    BY NatSums
  <2>3. ToTake(p, x)' \in Nat /\ ToHear(p, x)' \in Nat
    <3>1. answer'[p] \in Seq(Id)
      BY DEF TypeOK
    <3>2. Count(answer'[p], x) \in Nat
      BY <3>1, CountType
    <3> QED BY <3>2 DEF ToTake, ToHear, Count, Places
  <2>4. Sum(p, x)' = Count(log[p], x) + ToTake(p, x)' + ToHear(p, x)'
    BY DEF Sum, Count, Places
  <2> HIDE DEF Sum
  <2> QED BY <2>1, <2>2, <2>3, <2>4 DEF Sum
<1>4. Bounded(p, x)
  BY DEF FewCopies
<1> QED BY <1>1, <1>2, <1>3, <1>4, BoundKept

LEMMA RequestFew ==
    ASSUME TypeOK, TypeOK', Inv, FewCopies, NEW p \in Peer, NEW q \in Peer, Request(p, q)
    PROVE  FewCopies'
<1>1. UNCHANGED <<author, log, mesh, unaired, aired>>
  BY DEF Request
<1>2. AiredOnce'
  BY <1>1 DEF FewCopies, AiredOnce
<1>3. /\ answer'[p] = Answer(q) /\ existing'[p] = Logged(p)
      /\ \A r \in Peer : r # p => answer'[r] = answer[r] /\ existing'[r] = existing[r]
      /\ answer[p] = <<>>
      /\ q # p
  BY DEF Request, TypeOK, Inv, AsksOthers
<1>4. \A r \in Peer : Logged(r)' = Logged(r)
  BY <1>1 DEF Logged
<1> SUFFICES ASSUME NEW r \in Peer, NEW x \in DOMAIN author PROVE Bounded(r, x)'
  BY <1>1, <1>2 DEF FewCopies
<1>5. ToHear(r, x)' = ToHear(r, x) /\ Count(log'[r], x) = Count(log[r], x)
  BY <1>1 DEF ToHear
<1>6. Bounded(r, x)
  BY DEF FewCopies
<1>7. CASE author[x] = r \/ r # p \/ x \in Logged(p)
  <2>1. ASSUME author[x] # r PROVE ToTake(r, x)' <= ToTake(r, x)
    <3>1. CASE r # p
      <4>1. ToTake(r, x)' = ToTake(r, x)
        BY <1>3, <3>1 DEF ToTake, Count, Places
      <4> QED BY <4>1, NatSums
    <3>2. CASE r = p
      <4>1. ToTake(r, x)' = 0
        BY <1>3, <1>7, <2>1, <3>2 DEF ToTake
      <4> QED BY <4>1, NatSums
    <3> QED BY <3>1, <3>2
  <2>2. ASSUME author[x] # r PROVE Sum(r, x)' <= Sum(r, x)
    <3>1. Sum(r, x)' = Count(log[r], x) + ToTake(r, x)' + ToHear(r, x)
      BY <1>5 DEF Sum, Count, Places
    <3>2. ToTake(r, x)' \in Nat
      <4>1. answer'[r] \in Seq(Id)
        BY DEF TypeOK
      <4>2. Count(answer'[r], x) \in Nat
        BY <4>1, CountType
      <4> QED BY <4>2 DEF ToTake, Count, Places
    <3> HIDE DEF Sum
    <3> QED BY <2>1, <2>2, <3>1, <3>2, NatSums DEF Sum
  <2> QED BY <1>1, <1>4, <1>5, <1>6, <2>2, BoundKept
<1>8. CASE author[x] # r /\ r = p /\ x \notin Logged(p)
  <2> DEFINE H == Holders(x)
  <2>1. Count(log[p], x) = 0 /\ Count(log[q], x) \in Nat
    BY <1>8, NatSums
  <2>2. ToTake(p, x)' = Count(Answer(q), x)
    BY <1>3, <1>8 DEF ToTake, Count, Places
  <2>3. Count(Answer(q), x) \in Nat /\ Count(Answer(q), x) <= Count(log[q], x)
    <3>1. log[q] \in Seq(Id) /\ Len(log[q]) \in Nat
      BY DEF TypeOK
    <3>2. PICK n \in Nat : n <= Len(log[q]) /\ Answer(q) = SubSeq(log[q], 1, n)
      BY <3>1, ConstantsAssumption DEF Answer
    <3> QED BY <3>1, <3>2, CountCut, AnswerOfLog, CountType
  <2>4. IsFiniteSet(H) /\ Cardinality(H) \in Nat /\ Cardinality(H \union {p}) = Cardinality(H) + 1
    <3>1. H \in SUBSET Peer /\ p \notin H
      BY <1>8 DEF Holders
    <3>2. IsFiniteSet(H)
      BY <3>1, FS_Subset, ConstantsAssumption
    <3> QED BY <3>1, <3>2, FS_AddElement, FS_CardinalityType
  <2>5. Count(Answer(q), x) <= Cardinality(H)
    <3>1. CASE x \notin Logged(q)
      BY <2>1, <2>3, <2>4, <3>1, NatSums
    <3>2. CASE x \in Logged(q)
      <4>1. q \in H /\ H \union {q} = H
        BY <3>2 DEF Holders
      <4>2. H # {}
        BY <4>1
      <4>3. Cardinality(H) >= 1
        BY <2>4, <4>2, FS_EmptySet
      <4>4. CASE author[x] = q
        <5>1. Count(log[q], x) <= 1
          BY <4>4 DEF FewCopies, Bounded
        <5> HIDE DEF H
        <5> QED BY <2>1, <2>3, <2>4, <4>3, <5>1
      <4>5. CASE author[x] # q
        <5>1. Sum(q, x) <= Cardinality(H)
          BY <4>1, <4>5 DEF FewCopies, Bounded
        <5>2. Count(log[q], x) <= Sum(q, x) /\ Sum(q, x) \in Nat
          BY NatSums DEF Sum
        <5> HIDE DEF H
        <5> QED BY <2>1, <2>3, <2>4, <5>1, <5>2
      <4> QED BY <4>4, <4>5
    <3> QED BY <3>1, <3>2
  <2>6. Sum(p, x)' = Count(log[p], x) + ToTake(p, x)' + ToHear(p, x)
    BY <1>5, <1>8 DEF Sum, Count, Places
  <2>7. Sum(p, x)' <= Cardinality(H \union {p})
    <3>1. ToHear(p, x) \in 0..1
      BY NatSums
    <3> HIDE DEF H
    <3> QED BY <2>1, <2>2, <2>3, <2>4, <2>5, <2>6, <3>1
  <2>8. (Holders(x) \union {p})' = H \union {p}
    BY <1>4 DEF Holders
  <2> QED BY <1>1, <1>8, <2>7, <2>8 DEF Bounded
<1> QED BY <1>7, <1>8

\* A machine logs a message of another one that it had in hand: as much less is to come.
LEMMA LearnFew ==
    ASSUME TypeOK, TypeOK', Inv, FewCopies, AiredOnce', author' = author,
           NEW p \in Peer, NEW x \in DOMAIN author, x \in Id, author[x] # p,
           log' = [log EXCEPT ![p] = Append(@, x)],
           ASSUME NEW q \in Peer, NEW y \in DOMAIN author, author[y] # q
           PROVE  ToTake(q, y)' <= ToTake(q, y) /\ ToHear(q, y)' <= ToHear(q, y),
           ToTake(p, x)' < ToTake(p, x) \/ ToHear(p, x)' < ToHear(p, x)
    PROVE  FewCopies'
<1>2. log[p] \in Seq(Id) /\ log'[p] = Append(log[p], x)
      /\ \A q \in Peer : q # p => log'[q] = log[q]
  BY DEF TypeOK
<1>3. \A q \in Peer : Logged(q) \subseteq Logged(q)'
  BY LogGrows
<1> SUFFICES ASSUME NEW q \in Peer, NEW y \in DOMAIN author PROVE Bounded(q, y)'
  BY DEF FewCopies
<1>4. Bounded(q, y) /\ author'[y] = author[y]
  BY DEF FewCopies
<1>5. q # p \/ y # x => Count(log'[q], y) = Count(log[q], y)
  <2>1. CASE q # p
    BY <1>2, <2>1
  <2>2. CASE q = p /\ y # x
    BY <1>2, <2>2, CountAppend
  <2> QED BY <2>1, <2>2
<1>6. Count(log'[p], x) = Count(log[p], x) + 1
  BY <1>2, CountAppend
<1>7. ASSUME author[y] # q PROVE Sum(q, y)' <= Sum(q, y)
  <2>1. ToTake(q, y)' <= ToTake(q, y) /\ ToHear(q, y)' <= ToHear(q, y)
    BY <1>7
  <2>2. ToTake(q, y) \in Nat /\ ToHear(q, y) \in Nat /\ Count(log[q], y) \in Nat
    BY NatSums
  <2>3. ToTake(q, y)' \in Nat /\ ToHear(q, y)' \in Nat
    <3>1. answer'[q] \in Seq(Id)
      BY DEF TypeOK
    <3>2. Count(answer'[q], y) \in Nat
      BY <3>1, CountType
    <3> QED BY <3>2 DEF ToTake, ToHear, Count, Places
  <2>4. Sum(q, y)' = Count(log'[q], y) + ToTake(q, y)' + ToHear(q, y)'
    BY DEF Sum, Count, Places
  <2>5. CASE q = p /\ y = x
    BY <1>6, <2>1, <2>2, <2>3, <2>4, <2>5 DEF Sum
  <2>6. CASE ~(q = p /\ y = x)
    BY <1>5, <2>1, <2>2, <2>3, <2>4, <2>6 DEF Sum
  <2> QED BY <2>5, <2>6
<1>8. author[y] = q => Count(log'[q], y) = Count(log[q], y)
  BY <1>5
<1> QED BY <1>3, <1>4, <1>7, <1>8, BoundKept

LEMMA TakeFew ==
    ASSUME TypeOK, TypeOK', Inv, FewCopies, NEW p \in Peer, TakeNext(p) \/ FetchFails(p)
    PROVE  FewCopies'
<1>1. answer[p] \in Seq(Id) /\ answer[p] # <<>>
  BY DEF TakeNext, FetchFails, TypeOK
<1>2. PICK x \in DOMAIN author : x \in Id /\ x = Head(answer[p])
  BY <1>1, HeadAndTail DEF Inv, Known
<1>3. UNCHANGED <<author, mesh, unaired, existing, aired>>
  BY DEF TakeNext, FetchFails, history
<1>4. answer'[p] = Tail(answer[p]) /\ \A r \in Peer : r # p => answer'[r] = answer[r]
  BY DEF TakeNext, FetchFails, TypeOK
<1>5. AiredOnce'
  BY <1>3 DEF FewCopies, AiredOnce
<1>6. ASSUME NEW q \in Peer, NEW y \in DOMAIN author
      PROVE  ToTake(q, y)' <= ToTake(q, y) /\ ToHear(q, y)' <= ToHear(q, y)
  <2>1. ToHear(q, y)' = ToHear(q, y) /\ ToHear(q, y) \in Nat /\ ToTake(q, y) \in Nat
    BY <1>3, NatSums DEF ToHear
  <2>2. Count(answer'[q], y) \in Nat /\ Count(answer'[q], y) <= Count(answer[q], y)
    <3>1. CASE q = p
      <4>1. Count(Tail(answer[p]), y) \in Nat /\ Count(answer[p], y) \in Nat
        BY <1>1, HeadTailProperties, CountType
      <4>2. Count(Tail(answer[p]), y) <= Count(answer[p], y)
        BY <1>1, <4>1, CountTail
      <4> QED BY <1>4, <3>1, <4>1, <4>2
    <3>2. CASE q # p
      BY <1>4, <3>2, NatSums
    <3> QED BY <3>1, <3>2
  <2>3. ToTake(q, y)' = IF y \in existing[q] THEN 0 ELSE Count(answer'[q], y)
    BY <1>3 DEF ToTake, Count, Places
  <2> QED BY <2>1, <2>2, <2>3 DEF ToTake
<1>7. CASE TakeNext(p) /\ Unknown(p, x)
  <2>1. author[x] # p /\ x \notin existing[p]
    BY <1>7 DEF Unknown
  <2>2. log' = [log EXCEPT ![p] = Append(@, x)]
    BY <1>2, <1>7 DEF TakeNext
  <2>3. ToTake(p, x)' < ToTake(p, x)
    <3>1. ToTake(p, x)' = Count(Tail(answer[p]), x) /\ ToTake(p, x) = Count(answer[p], x)
      BY <1>3, <1>4, <2>1 DEF ToTake, Count, Places
    <3>2. Count(Tail(answer[p]), x) \in Nat /\ Count(answer[p], x) \in Nat
      BY <1>1, HeadTailProperties, CountType
    <3>3. Count(Tail(answer[p]), x) + 1 <= Count(answer[p], x)
      BY <1>1, <1>2, CountTail
    <3> QED BY <3>1, <3>2, <3>3
  <2> QED BY <1>2, <1>3, <1>5, <1>6, <2>1, <2>2, <2>3, LearnFew
<1>8. CASE ~(TakeNext(p) /\ Unknown(p, x))
  <2>1. log' = log
    <3>1. [log EXCEPT ![p] = log[p]] = log
      BY DEF TypeOK
    <3>2. CASE TakeNext(p)
      <4>1. ~Unknown(p, Head(answer[p]))
        BY <1>2, <1>8, <3>2
      <4> QED BY <3>1, <3>2, <4>1 DEF TakeNext
    <3> QED BY <3>2 DEF FetchFails
  <2> QED BY <1>3, <1>5, <1>6, <2>1, QuietStep
<1> QED BY <1>7, <1>8

LEMMA ReceiveFew ==
    ASSUME TypeOK, TypeOK', Inv, FewCopies, NEW p \in Peer, NEW x \in Id,
           Receive(p, x) \/ ReceiveDrops(p, x)
    PROVE  FewCopies'
<1>1. UNCHANGED <<author, unaired, answer, existing, aired>>
  BY DEF Receive, ReceiveDrops, local, history
<1>2. x \in mesh[p] /\ x \in DOMAIN author
  BY DEF Receive, ReceiveDrops, Inv, Known
<1>3. mesh'[p] = mesh[p] \ {x} /\ \A q \in Peer : q # p => mesh'[q] = mesh[q]
  BY DEF Receive, ReceiveDrops, TypeOK
<1>4. AiredOnce'
  BY <1>1, <1>3 DEF FewCopies, AiredOnce
<1>5. x \in aired
  BY <1>2 DEF FewCopies, AiredOnce
<1>6. ASSUME NEW q \in Peer, NEW y \in DOMAIN author
      PROVE  ToTake(q, y)' <= ToTake(q, y) /\ ToHear(q, y)' <= ToHear(q, y)
  <2>1. ToTake(q, y)' = ToTake(q, y) /\ ToTake(q, y) \in Nat
    BY <1>1, NatSums DEF ToTake, Count, Places
  <2> QED BY <1>1, <1>3, <2>1 DEF ToHear
<1>7. CASE Receive(p, x) /\ Foreign(p, x)
  <2>1. author[x] # p
    BY <1>7 DEF Foreign
  <2>2. log' = [log EXCEPT ![p] = Append(@, x)]
    BY <1>7 DEF Receive
  <2>3. ToHear(p, x)' < ToHear(p, x)
    BY <1>1, <1>2, <1>3, <1>5 DEF ToHear
  <2> QED BY <1>1, <1>2, <1>4, <1>6, <2>1, <2>2, <2>3, LearnFew
<1>8. CASE ~(Receive(p, x) /\ Foreign(p, x))
  <2>1. log' = log
    <3>1. [log EXCEPT ![p] = log[p]] = log
      BY DEF TypeOK
    <3> QED BY <1>8, <3>1 DEF Receive, ReceiveDrops
  <2> QED BY <1>1, <1>4, <1>6, <2>1, QuietStep
<1> QED BY <1>7, <1>8

LEMMA SendAppendFew ==
    ASSUME TypeOK, TypeOK', Inv, FewCopies, NEW p \in Peer, SendAppend(p)
    PROVE  FewCopies'
<1>1. UNCHANGED <<mesh, answer, existing, aired>>
  BY DEF SendAppend, local, history
<1>2. author \in Seq(Peer) /\ Len(author) \in Nat /\ DOMAIN author = 1..Len(author)
  BY LenProperties DEF TypeOK
<1>3. PICK x : x = Len(author) + 1
  OBVIOUS
<1>4. x \in Id /\ x \notin DOMAIN author
  BY <1>2, <1>3, ConstantsAssumption DEF SendAppend, Id
<1>5. /\ DOMAIN author' = DOMAIN author \union {x} /\ author'[x] = p
      /\ \A y \in DOMAIN author : author'[y] = author[y]
  <2>1. author' = Append(author, p)
    BY DEF SendAppend
  <2>2. DOMAIN author' = 1..x /\ 1..x = (1..Len(author)) \union {x}
    BY <1>2, <1>3, <2>1
  <2>3. author'[x] = p /\ \A y \in 1..Len(author) : author'[y] = author[y]
    BY <1>2, <1>3, <2>1
  <2> QED BY <1>2, <2>2, <2>3
<1>6. log' = [log EXCEPT ![p] = Append(@, x)]
  BY <1>3 DEF SendAppend
<1>7. /\ log[p] \in Seq(Id) /\ log'[p] = Append(log[p], x)
      /\ \A q \in Peer : q # p => log'[q] = log[q]
  BY <1>6 DEF TypeOK
<1>8. \A q \in Peer : Logged(q) \subseteq Logged(q)'
  BY <1>4, <1>6, LogGrows
<1>9. AiredOnce'
  <2>1. unaired'[p] = {x} /\ \A q \in Peer : q # p => unaired'[q] = unaired[q]
    BY <1>3 DEF SendAppend, TypeOK
  <2>2. x \notin aired
    BY <1>4 DEF Inv, Known
  <2> QED BY <1>1, <2>1, <2>2 DEF FewCopies, AiredOnce
<1>10. \A q \in Peer : Count(log[q], x) = 0 /\ Count(answer[q], x) = 0
  <2>1. \A q \in Peer : x \notin Logged(q) /\ x \notin Elements(answer[q])
    BY <1>4 DEF Inv, Known
  <2> QED BY <2>1, NatSums
<1>11. ASSUME NEW q \in Peer, NEW y \in DOMAIN author PROVE Bounded(q, y)'
  <2>1. Bounded(q, y) /\ author'[y] = author[y] /\ y # x
    BY <1>4, <1>5 DEF FewCopies
  <2>2. Count(log'[q], y) = Count(log[q], y)
    <3>1. Count(Append(log[p], x), y) = Count(log[p], y)
      BY <1>4, <1>7, <2>1, CountAppend
    <3> QED BY <1>7, <3>1
  <2>3. Sum(q, y)' = Sum(q, y)
    BY <1>1, <2>2 DEF Sum, ToTake, ToHear, Count, Places
  <2>4. Sum(q, y) \in Nat
    BY NatSums
  <2>5. Sum(q, y)' <= Sum(q, y)
    BY <2>3, <2>4
  <2> QED BY <1>8, <2>1, <2>2, <2>5, BoundKept
<1>12. ASSUME NEW q \in Peer PROVE Bounded(q, x)'
  <2>1. CASE q = p
    <3>1. Count(log'[p], x) = 1
      BY <1>4, <1>7, <1>10, CountAppend
    <3> QED BY <1>5, <2>1, <3>1 DEF Bounded, Count, Places
  <2>2. CASE q # p
    <3>1. Count(log'[q], x) = 0 /\ Count(answer'[q], x) = 0
      BY <1>1, <1>7, <1>10, <2>2
    <3>2. ToTake(q, x)' = 0 /\ ToHear(q, x)' \in 0..1
      BY <3>1 DEF ToTake, ToHear, Count, Places
    <3>3. Sum(q, x)' = Count(log'[q], x) + ToTake(q, x)' + ToHear(q, x)'
      BY DEF Sum, Count, Places
    <3>4. Sum(q, x)' <= 1
      BY <3>1, <3>2, <3>3
    <3>5. (Holders(x) \union {q})' \in SUBSET Peer /\ (Holders(x) \union {q})' # {}
      BY DEF Holders
    <3>6. Cardinality((Holders(x) \union {q})') \in Nat \ {0}
      BY <3>5, FS_Subset, FS_CardinalityType, FS_EmptySet, ConstantsAssumption
    <3>7. Sum(q, x)' \in Nat
      BY <3>1, <3>2, <3>3
    <3>8. Sum(q, x)' <= Cardinality((Holders(x) \union {q})')
      <4> HIDE DEF Sum, Holders
      <4> QED BY <3>4, <3>6, <3>7
    <3> QED BY <1>5, <2>2, <3>8 DEF Bounded, Holders
  <2> QED BY <2>1, <2>2
<1> QED BY <1>5, <1>9, <1>11, <1>12 DEF FewCopies

\* The steps of a session that neither take nor send.
LEMMA OthersFew ==
    ASSUME TypeOK, TypeOK', Inv, FewCopies, NEW p \in Peer,
           \/ \E cs \in SUBSET (Peer \ {p}) : Subscribe(p, cs)
           \/ \E q \in Peer : RequestFails(p, q)
           \/ AttemptFails(p) \/ JoinEnds(p) \/ SessionEnds(p) \/ SendBroadcast(p)
    PROVE  FewCopies'
<1>1. UNCHANGED <<author, log>>
  BY DEF Subscribe, RequestFails, AttemptFails, JoinEnds, SessionEnds, SendBroadcast
<1>2. \A q \in Peer : \/ UNCHANGED <<answer[q], existing[q]>>
                      \/ answer'[q] = <<>>
  <2>1. CASE UNCHANGED <<answer, existing>>
    BY <2>1
  <2>2. CASE answer' = [answer EXCEPT ![p] = <<>>] /\ existing' = [existing EXCEPT ![p] = {}]
    BY <2>2 DEF TypeOK
  <2>3. CASE UNCHANGED answer /\ answer[p] = <<>> /\ existing' = [existing EXCEPT ![p] = {}]
    BY <2>3 DEF TypeOK
  <2> QED BY <2>1, <2>2, <2>3 DEF Subscribe, RequestFails, AttemptFails, JoinEnds, NoneUnderWay,
                                  SessionEnds, SendBroadcast, local
<1>3. /\ aired \subseteq aired'
      /\ \A q \in Peer : /\ mesh'[q] \subseteq mesh[q] \union (aired' \ aired)
                         /\ mesh'[q] \subseteq aired'
                         /\ unaired'[q] \intersect aired' = {}
  <2>1. \A q \in Peer : mesh[q] \subseteq aired /\ unaired[q] \intersect aired = {}
    BY DEF FewCopies, AiredOnce
  <2>2. CASE SendBroadcast(p)
    <3>1. \A q \in Peer : mesh'[q] \subseteq mesh[q] \union unaired[p]
      BY <2>2 DEF SendBroadcast, TypeOK
    <3>2. aired' = aired \union unaired[p] /\ unaired'[p] = {}
          /\ \A q \in Peer : q # p => unaired'[q] = unaired[q]
      BY <2>2 DEF SendBroadcast, TypeOK
    <3>3. \A q \in Peer : q # p => unaired[q] \intersect unaired[p] = {}
      BY DEF Inv, Known
    <3> QED BY <2>1, <3>1, <3>2, <3>3
  <2>3. CASE ~SendBroadcast(p)
    <3>1. aired' = aired
      BY <2>3 DEF Subscribe, RequestFails, AttemptFails, JoinEnds, SessionEnds, history
    <3>2. \A q \in Peer : mesh'[q] \subseteq mesh[q] /\ unaired'[q] \subseteq unaired[q]
      <4>1. CASE SessionEnds(p)
        BY <4>1 DEF SessionEnds, TypeOK
      <4>2. CASE ~SessionEnds(p)
        <5>1. UNCHANGED <<mesh, unaired>>
          BY <2>3, <4>2 DEF Subscribe, RequestFails, AttemptFails, JoinEnds
        <5> QED BY <5>1
      <4> QED BY <4>1, <4>2
    <3> QED BY <2>1, <3>1, <3>2
  <2> QED BY <2>2, <2>3
<1>4. AiredOnce'
  BY <1>3 DEF AiredOnce
<1>5. ASSUME NEW q \in Peer, NEW x \in DOMAIN author, author[x] # q
      PROVE  ToTake(q, x)' <= ToTake(q, x) /\ ToHear(q, x)' <= ToHear(q, x)
  <2>1. ToHear(q, x)' <= ToHear(q, x)
    BY <1>3 DEF ToHear
  <2>2. CASE UNCHANGED <<answer[q], existing[q]>>
    <3>1. ToTake(q, x)' = ToTake(q, x)
      BY <2>2 DEF ToTake, Count, Places
    <3> QED BY <2>1, <3>1, NatSums
  <2>3. CASE answer'[q] = <<>>
    <3>1. Places(answer'[q], x) = {}
      BY <2>3 DEF Places
    <3>2. ToTake(q, x)' = 0
      BY <3>1, FS_EmptySet DEF ToTake, Count, Places
    <3> QED BY <2>1, <3>2, NatSums
  <2> QED BY <1>2, <2>2, <2>3
<1> QED BY <1>1, <1>4, <1>5, QuietStep

\* However often a message is backfilled, received and copied on, a log has no more
\* copies of it than there are machines: Unknown looks at the log before the answer
\* is taken, gossip gives a message once, and nobody takes its own.
THEOREM CopiesStayBounded == Spec => []CopiesBounded
<1>1. Init => FewCopies
  BY DEF Init, FewCopies, AiredOnce
<1>2. TypeOK /\ TypeOK' /\ Inv /\ FewCopies /\ [Next]_vars => FewCopies'
  <2> SUFFICES ASSUME TypeOK, TypeOK', Inv, FewCopies, [Next]_vars PROVE FewCopies'
    OBVIOUS
  <2>1. CASE Next
    <3>1. ASSUME NEW p \in Peer, NEW cs \in SUBSET (Peer \ {p}), Subscribe(p, cs)
          PROVE  FewCopies'
      BY <3>1, OthersFew
    <3>2. ASSUME NEW p \in Peer, NEW q \in Peer, Request(p, q) \/ RequestFails(p, q)
          PROVE  FewCopies'
      BY <3>2, RequestFew, OthersFew
    <3>3. ASSUME NEW p \in Peer, TakeNext(p) \/ FetchFails(p) PROVE FewCopies'
      BY <3>3, TakeFew
    <3>4. ASSUME NEW p \in Peer,
                 AttemptFails(p) \/ JoinEnds(p) \/ SessionEnds(p) \/ SendBroadcast(p)
          PROVE  FewCopies'
      BY <3>4, OthersFew
    <3>5. ASSUME NEW p \in Peer, SendAppend(p) PROVE FewCopies'
      BY <3>5, SendAppendFew
    <3>6. ASSUME NEW p \in Peer, NEW x \in Id, Receive(p, x) \/ ReceiveDrops(p, x)
          PROVE  FewCopies'
      BY <3>6, ReceiveFew
    <3> QED BY <2>1, <3>1, <3>2, <3>3, <3>4, <3>5, <3>6 DEF Next
  <2>2. CASE UNCHANGED vars
    BY <2>2 DEF vars, local, history, FewCopies, AiredOnce, Bounded, Sum, ToTake, ToHear,
                Holders, Logged, Count, Places
  <2> QED BY <2>1, <2>2
<1>3. TypeOK /\ Inv /\ FewCopies => CopiesBounded
  <2> SUFFICES ASSUME TypeOK, Inv, FewCopies, NEW p \in Peer, NEW x \in Id
               PROVE  Count(log[p], x) <= Cardinality(Peer)
    BY DEF CopiesBounded, Copies, Count, Places
  <2>1. Count(log[p], x) \in Nat /\ Cardinality(Peer) \in Nat \ {0}
    BY NatSums, FS_CardinalityType, FS_EmptySet, ConstantsAssumption
  <2>2. CASE x \notin DOMAIN author
    <3>1. x \notin Logged(p)
      BY <2>2 DEF Inv, Known
    <3> QED BY <2>1, <3>1, NatSums
  <2>3. CASE x \in DOMAIN author /\ author[x] = p
    <3>1. Count(log[p], x) <= 1
      BY <2>3 DEF FewCopies, Bounded
    <3> QED BY <2>1, <3>1
  <2>4. CASE x \in DOMAIN author /\ author[x] # p
    <3>1. Sum(p, x) <= Cardinality(Holders(x) \union {p})
      BY <2>4 DEF FewCopies, Bounded
    <3>2. Holders(x) \union {p} \in SUBSET Peer
      BY DEF Holders
    <3>3. /\ Cardinality(Holders(x) \union {p}) \in Nat
          /\ Cardinality(Holders(x) \union {p}) <= Cardinality(Peer)
      BY <3>2, FS_Subset, FS_CardinalityType, ConstantsAssumption
    <3>4. Sum(p, x) \in Nat /\ Count(log[p], x) <= Sum(p, x)
      BY NatSums DEF Sum
    <3> QED BY <2>1, <3>1, <3>3, <3>4
  <2> QED BY <2>2, <2>3, <2>4
<1> QED BY <1>1, <1>2, <1>3, TypeCorrect, Invariance, PTL DEF Spec
=============================================================================

------------------------- MODULE ConsentGateProofs -------------------------
(***************************************************************************)
(* ConsentGate for every number of Claudes, rooms, tokens and concurrent   *)
(* accepts: types, the bindings invariant, the single winner of a token,   *)
(* and the refinement of the abstract gate, Consent.                       *)
(***************************************************************************)
EXTENDS ConsentGate, TLAPS

\* Every variable keeps its type, through every file read, rename and sweep.
THEOREM TypeCorrect == Spec => []TypeOK
<1>1. Init => TypeOK
  BY ConstantsAssumption DEF Init, TypeOK, Writer, Sweeper, Steps
<1>2. TypeOK /\ [Next]_vars => TypeOK'
  <2> SUFFICES ASSUME TypeOK, [Next]_vars PROVE TypeOK'
    OBVIOUS
  <2> USE ConstantsAssumption DEF TypeOK, files, world, writers, hooks, history
  <2>1. ASSUME NEW p \in Claude, ClaudeStart(p) PROVE TypeOK'
    <3>1. <<"mcp", p>> \in Sweeper
      BY DEF Sweeper
    <3>2. incarnation[p] + 1 \in 1..MaxIncarnation
      BY <2>1 DEF ClaudeStart
    <3>3. QED
      BY <2>1, <3>1, <3>2 DEF ClaudeStart, HasDir
  <2>2. ASSUME NEW p \in Claude, ClaudeExit(p) PROVE TypeOK'
    BY <2>2 DEF ClaudeExit
  <2>3. ASSUME NEW p \in Claude, NewerBinaryWrites(p) PROVE TypeOK'
    BY <2>3 DEF NewerBinaryWrites, Readable, RoomsFile
  <2>4. ASSUME NEW p \in Claude, NEW t \in Topic, CreateRoom(p, t) PROVE TypeOK'
    <3>1. incarnation[p] \in 1..MaxIncarnation
      BY <2>4 DEF CreateRoom, ServerReady
    <3>2. QED
      BY <2>4, <3>1 DEF CreateRoom, Request, Writer, Steps
  <2>5. ASSUME NEW p \in Claude, NEW t \in Topic, LeaveRead(p, t) PROVE TypeOK'
    <3>1. incarnation[p] \in 1..MaxIncarnation
      BY <2>5 DEF LeaveRead, ServerReady
    <3>2. rooms[p].topics \in SUBSET Topic
      BY <2>5 DEF LeaveRead, Readable, RoomsFile
    <3>3. QED
      BY <2>5, <3>1, <3>2 DEF LeaveRead, Request, Writer, Steps
  <2>6. ASSUME NEW p \in Claude, NEW t \in Topic, NEW k \in Token, JoinRoom(p, t, k)
        PROVE  TypeOK'
    <3>1. incarnation[p] \in 1..MaxIncarnation
      BY <2>6 DEF JoinRoom, ServerReady
    <3>2. QED
      BY <2>6, <3>1 DEF JoinRoom, PendingJoin
  <2>7. ASSUME NEW p \in Claude, LeaveWrite(p) PROVE TypeOK'
    BY <2>7 DEF LeaveWrite, Return, RoomsFile, StateVersion, Writer, Steps
  <2>8. ASSUME NEW p \in Claude, LeaveAll(p) PROVE TypeOK'
    BY <2>8 DEF LeaveAll, RoomsFile, StateVersion
  <2>9. ASSUME NEW p \in Claude, HookStart(p) \/ HookBound(p) \/ HookFilter(p) \/ HookInject(p)
        PROVE  TypeOK'
    <3>1. CASE HookStart(p)
      BY <3>1 DEF HookStart, HasDir, Sweeper
    <3>2. CASE HookBound(p)
      <4>1. TopicsOrEmpty(p) \in SUBSET Topic
        BY DEF TopicsOrEmpty, Readable, RoomsFile
      <4>2. QED
        BY <3>2, <4>1 DEF HookBound
    <3>3. CASE HookFilter(p)
      BY <3>3 DEF HookFilter, Injectable
    <3>4. CASE HookInject(p)
      BY <3>4 DEF HookInject
    <3>5. QED
      BY <2>9, <3>1, <3>2, <3>3, <3>4
  <2>10. ASSUME NEW t \in Topic, DaemonGone(t) PROVE TypeOK'
    BY <2>10 DEF DaemonGone
  <2>11. ASSUME NEW w \in Writer, AddRead(w) PROVE TypeOK'
    <3>1. req[w].claude_pid \in Claude
      BY <2>11 DEF AddRead, Request
    <3>2. TopicsOrEmpty(req[w].claude_pid) \in SUBSET Topic
      BY <3>1 DEF TopicsOrEmpty, Readable, RoomsFile
    <3>3. QED
      BY <2>11, <3>2 DEF AddRead, Steps
  <2>12. ASSUME NEW w \in Writer, AddWrite(w) PROVE TypeOK'
    <3>1. req[w] \in Request
      BY <2>12 DEF AddWrite
    <3>2. QED
      BY <2>12, <3>1 DEF AddWrite, Return, WithTopic, RoomsFile, StateVersion,
                         Request, Steps
  <2>13. ASSUME NEW a \in Accepter, AcceptRead(a) PROVE TypeOK'
    BY <2>13 DEF AcceptRead, PendingJoin, Request, Writer, Steps
  <2>14. ASSUME NEW a \in Accepter, AcceptRename(a) PROVE TypeOK'
    <3>1. req[a] \in Request
      BY <2>14 DEF AcceptRename, Writer
    <3>2. QED
      BY <2>14, <3>1 DEF AcceptRename, Request, Writer, Steps
  <2>15. ASSUME NEW a \in Accepter, AcceptTooLate(a) \/ AcceptAborts(a) PROVE TypeOK'
    <3>1. Return(a) /\ UNCHANGED <<files, world, hooks, history>>
      BY <2>15 DEF AcceptTooLate, AcceptAborts
    <3>2. QED
      BY <3>1 DEF Return, Writer, Steps
  <2>16. ASSUME NEW a \in Accepter, AcceptEnsure(a) PROVE TypeOK'
    BY <2>16 DEF AcceptEnsure, Request, Writer, Steps
  <2>17. ASSUME NEW s \in Sweeper, NEW q \in Claude,
                SweepCheck(s, q) \/ SweepRemove(s, q)
         PROVE  TypeOK'
    BY <2>17 DEF SweepCheck, SweepRemove
  <2>18. CASE UNCHANGED vars
    BY <2>18 DEF vars
  <2>19. QED
    BY <2>1, <2>2, <2>3, <2>4, <2>5, <2>6, <2>7, <2>8, <2>9, <2>10, <2>11, <2>12,
       <2>13, <2>14, <2>15, <2>16, <2>17, <2>18 DEF Next
<1>3. QED
  BY <1>1, <1>2, PTL DEF Spec

-----------------------------------------------------------------------------
\* What is bound on disk, or held in memory by a writer or a hook on its way to
\* the disk or the prompt, was granted to that PID, whatever the interleaving.
THEOREM BindingsAreGranted == Spec => []BindingsGranted
<1>1. Init => BindingsGranted
  BY DEF Init, BindingsGranted, Writer
<1>2. TypeOK /\ BindingsGranted /\ [Next]_vars => BindingsGranted'
  <2> SUFFICES ASSUME TypeOK, BindingsGranted, [Next]_vars PROVE BindingsGranted'
    OBVIOUS
  <2> USE ConstantsAssumption
      DEF BindingsGranted, GrantedTopics, files, world, writers, hooks, history
  <2>1. ASSUME NEW p \in Claude,
               ClaudeStart(p) \/ ClaudeExit(p) \/ HookStart(p)
        PROVE  BindingsGranted'
    BY <2>1 DEF ClaudeStart, ClaudeExit, HookStart
  <2>2. ASSUME NEW p \in Claude, NewerBinaryWrites(p) PROVE BindingsGranted'
    BY <2>2 DEF NewerBinaryWrites, Readable, TypeOK
  <2>3. ASSUME NEW p \in Claude, NEW t \in Topic, CreateRoom(p, t)
        PROVE  BindingsGranted'
    BY <2>3 DEF CreateRoom, TypeOK, Writer
  <2>4. ASSUME NEW p \in Claude, NEW t \in Topic, LeaveRead(p, t)
        PROVE  BindingsGranted'
    BY <2>4 DEF LeaveRead, Readable, TypeOK, Writer
  <2>5. ASSUME NEW p \in Claude, NEW t \in Topic, NEW k \in Token, JoinRoom(p, t, k)
        PROVE  BindingsGranted'
    BY <2>5 DEF JoinRoom
  <2>6. ASSUME NEW p \in Claude, LeaveWrite(p) PROVE BindingsGranted'
    <3>1. p \in Writer /\ req[p].claude_pid = p
      BY <2>6 DEF LeaveWrite, Writer
    <3>2. seen[p] \subseteq GrantedTopics(p)
      BY <2>6, <3>1 DEF LeaveWrite
    <3>3. QED
      BY <2>6, <3>1, <3>2 DEF LeaveWrite, Return, TypeOK
  <2>7. ASSUME NEW p \in Claude, LeaveAll(p) PROVE BindingsGranted'
    BY <2>7 DEF LeaveAll, TypeOK
  <2>8. ASSUME NEW p \in Claude, HookBound(p) \/ HookFilter(p) PROVE BindingsGranted'
    <3>1. TopicsOrEmpty(p) \subseteq GrantedTopics(p)
      BY DEF TopicsOrEmpty, Readable
    <3>2. CASE HookBound(p)
      BY <3>1, <3>2 DEF HookBound, TypeOK
    <3>3. CASE HookFilter(p)
      BY <3>3 DEF HookFilter, Injectable, TypeOK
    <3>4. QED
      BY <2>8, <3>2, <3>3
  <2>9. ASSUME NEW p \in Claude, HookInject(p) PROVE BindingsGranted'
    BY <2>9 DEF HookInject, TypeOK
  <2>10. ASSUME NEW t \in Topic, DaemonGone(t) PROVE BindingsGranted'
    BY <2>10 DEF DaemonGone
  <2>11. ASSUME NEW w \in Writer, AddRead(w) PROVE BindingsGranted'
    <3>1. req[w].claude_pid \in Claude
      BY <2>11 DEF AddRead, TypeOK, Request
    <3>2. TopicsOrEmpty(req[w].claude_pid) \subseteq GrantedTopics(req[w].claude_pid)
      BY <3>1 DEF TopicsOrEmpty, Readable
    <3>3. QED
      BY <2>11, <3>2 DEF AddRead, TypeOK
  <2>12. ASSUME NEW w \in Writer, AddWrite(w) PROVE BindingsGranted'
    <3>1. /\ seen[w] \subseteq GrantedTopics(req[w].claude_pid)
          /\ req[w].topic \in GrantedTopics(req[w].claude_pid)
      BY <2>12 DEF AddWrite
    <3>2. QED
      BY <2>12, <3>1 DEF AddWrite, Return, WithTopic, TypeOK
  <2>13. ASSUME NEW a \in Accepter,
                AcceptRead(a) \/ AcceptTooLate(a) \/ AcceptAborts(a)
         PROVE  BindingsGranted'
    <3>1. CASE AcceptRead(a)
      BY <3>1 DEF AcceptRead, TypeOK, Writer
    <3>2. CASE AcceptTooLate(a) \/ AcceptAborts(a)
      <4>1. UNCHANGED <<rooms, granted, unread>> /\ Return(a)
        BY <3>2 DEF AcceptTooLate, AcceptAborts
      <4>2. a \in Writer /\ a \notin Claude /\ step'[a] = "idle"
        BY <4>1 DEF Return, TypeOK, Writer
      <4>3. \A w \in Writer \ {a} :
               step'[w] = step[w] /\ req'[w] = req[w] /\ seen'[w] = seen[w]
        BY <4>1 DEF Return, TypeOK
      <4>4. QED
        BY <4>1, <4>2, <4>3 DEF Writer
    <3>3. QED
      BY <2>13, <3>1, <3>2
  <2>14. ASSUME NEW a \in Accepter, AcceptRename(a) PROVE BindingsGranted'
    <3>1. req[a].claude_pid \in Claude /\ req[a].topic \in Topic
      BY <2>14 DEF AcceptRename, TypeOK, Request, Writer
    <3>2. QED
      BY <2>14, <3>1 DEF AcceptRename, TypeOK, Writer
  <2>15. ASSUME NEW a \in Accepter, AcceptEnsure(a) PROVE BindingsGranted'
    BY <2>15 DEF AcceptEnsure, TypeOK, Writer
  <2>16. ASSUME NEW s \in Sweeper, NEW q \in Claude,
                SweepCheck(s, q) \/ SweepRemove(s, q)
         PROVE  BindingsGranted'
    BY <2>16 DEF SweepCheck, SweepRemove, TypeOK
  <2>17. CASE UNCHANGED vars
    BY <2>17 DEF vars
  <2>18. QED
    BY <2>1, <2>2, <2>3, <2>4, <2>5, <2>6, <2>7, <2>8, <2>9, <2>10, <2>11, <2>12,
       <2>13, <2>14, <2>15, <2>16, <2>17 DEF Next
<1>3. QED
  BY <1>1, <1>2, TypeCorrect, PTL DEF Spec

-----------------------------------------------------------------------------
\* Why a token has one winner: it is issued once, one file stands for it, and a
\* process that has read the file holds exactly what the file says.
TokensAccounted ==
    /\ \A r \in pending : r.token \in issued
    /\ \A r1, r2 \in pending : r1.token = r2.token => r1 = r2
    /\ \A a \in Accepter : step[a] # "idle" =>
          /\ req[a].token \in issued
          /\ \A r \in pending : r.token = req[a].token => r = req[a]

WinnerInv == SingleWinner /\ TokensAccounted

\* The inductive invariant behind the single winner of consume_pending_join.
LEMMA WinnersAccounted == Spec => []WinnerInv
<1> USE DEF WinnerInv
<1>1. Init => WinnerInv
  BY DEF Init, SingleWinner, TokensAccounted, Consumed, Writer
<1>2. TypeOK /\ WinnerInv /\ [Next]_vars => WinnerInv'
  <2> SUFFICES ASSUME TypeOK, WinnerInv, [Next]_vars PROVE WinnerInv'
    OBVIOUS
  <2> USE ConstantsAssumption
      DEF SingleWinner, TokensAccounted, Consumed, files, world, writers, hooks,
          history
  <2>1. ASSUME UNCHANGED <<pending, step, req, issued>> PROVE WinnerInv'
    BY <2>1
  <2>2. ASSUME NEW p \in Claude,
               \/ LeaveWrite(p)
               \/ \E t \in Topic : CreateRoom(p, t) \/ LeaveRead(p, t)
        PROVE  WinnerInv'
    <3>1. pending' = pending /\ issued' = issued
      BY <2>2 DEF CreateRoom, LeaveRead, LeaveWrite
    <3>2. \A a \in Accepter : step'[a] = step[a] /\ req'[a] = req[a]
      BY <2>2 DEF CreateRoom, LeaveRead, LeaveWrite, Return, TypeOK, Writer
    <3>3. QED
      BY <3>1, <3>2
  <2>3. ASSUME NEW p \in Claude, NEW t \in Topic, NEW k \in Token, JoinRoom(p, t, k)
        PROVE  WinnerInv'
    BY <2>3 DEF JoinRoom
  <2>4. ASSUME NEW w \in Writer, AddRead(w) \/ AddWrite(w) PROVE WinnerInv'
    <3>1. CASE AddRead(w)
      BY <3>1 DEF AddRead, TypeOK, Writer
    <3>2. CASE AddWrite(w)
      BY <3>2 DEF AddWrite, Return, TypeOK, Writer
    <3>3. QED
      BY <2>4, <3>1, <3>2
  <2>5. ASSUME NEW a \in Accepter, AcceptRead(a) PROVE WinnerInv'
    BY <2>5 DEF AcceptRead, TypeOK, Writer
  <2>6. ASSUME NEW a \in Accepter, AcceptRename(a) PROVE WinnerInv'
    BY <2>6 DEF AcceptRename, CanConsume, TypeOK, Writer
  <2>7. ASSUME NEW a \in Accepter,
               AcceptTooLate(a) \/ AcceptAborts(a) \/ AcceptEnsure(a)
        PROVE  WinnerInv'
    BY <2>7 DEF AcceptTooLate, AcceptAborts, AcceptEnsure, Return, TypeOK, Writer
  <2>8. ASSUME NEW p \in Claude,
               \/ ClaudeStart(p) \/ ClaudeExit(p) \/ NewerBinaryWrites(p)
               \/ LeaveAll(p) \/ HookStart(p) \/ HookBound(p) \/ HookFilter(p)
               \/ HookInject(p)
        PROVE  WinnerInv'
    BY <2>1, <2>8 DEF ClaudeStart, ClaudeExit, NewerBinaryWrites, LeaveAll,
                      HookStart, HookBound, HookFilter, HookInject
  <2>9. ASSUME NEW t \in Topic, DaemonGone(t) PROVE WinnerInv'
    BY <2>1, <2>9 DEF DaemonGone
  <2>10. ASSUME NEW s \in Sweeper, NEW q \in Claude,
                SweepCheck(s, q) \/ SweepRemove(s, q)
         PROVE  WinnerInv'
    BY <2>1, <2>10 DEF SweepCheck, SweepRemove
  <2>11. CASE UNCHANGED vars
    BY <2>1, <2>11 DEF vars
  <2>12. QED
    BY <2>2, <2>3, <2>4, <2>5, <2>6, <2>7, <2>8, <2>9, <2>10, <2>11 DEF Next
<1>3. QED
  BY <1>1, <1>2, TypeCorrect, PTL DEF Spec

\* Two concurrent accepts of one token never both consume it.
THEOREM OneWinnerPerToken == Spec => []SingleWinner
<1>1. WinnerInv => SingleWinner
  BY DEF WinnerInv
<1>2. QED
  BY <1>1, WinnersAccounted, PTL

-----------------------------------------------------------------------------
\* The files and processes implement the abstract consent gate.
THEOREM RefinesConsent == Spec => ImplementsConsent
<1> USE DEF Gate!cvars
<1>1. Init => Gate!Init
  BY DEF Init, Gate!Init
<1>2. TypeOK /\ BindingsGranted /\ WinnerInv /\ [Next]_vars => [Gate!Next]_Gate!cvars
  <2> SUFFICES ASSUME TypeOK, BindingsGranted, WinnerInv, [Next]_vars
               PROVE  [Gate!Next]_Gate!cvars
    OBVIOUS
  <2> USE ConstantsAssumption DEF files, world, writers, hooks, history
  <2>1. ASSUME UNCHANGED <<pending, issued, granted, shown>>
        PROVE  UNCHANGED Gate!cvars
    BY <2>1
  <2>2. ASSUME NEW p \in Claude, NEW t \in Topic, CreateRoom(p, t)
        PROVE  Gate!Create(p, t)
    BY <2>2 DEF CreateRoom, Gate!Create
  <2>3. ASSUME NEW p \in Claude, NEW t \in Topic, NEW k \in Token, JoinRoom(p, t, k)
        PROVE  Gate!Ask(k, p, t)
    <3> DEFINE Asked(P) == {<<r.token, r.claude_pid, r.topic>> : r \in P}
               new == [token |-> k, claude_pid |-> p, topic |-> t]
    <3>1. Asked(pending') = Asked(pending) \union {<<k, p, t>>}
      <4>1. pending' = pending \union {new}
        BY <2>3 DEF JoinRoom
      <4>2. <<new.token, new.claude_pid, new.topic>> = <<k, p, t>>
        OBVIOUS
      <4>3. \A P : Asked(P \union {new})
                     = Asked(P) \union {<<new.token, new.claude_pid, new.topic>>}
        OBVIOUS
      <4>4. QED
        BY <4>1, <4>2, <4>3
    <3>2. QED
      BY <2>3, <3>1 DEF JoinRoom, Gate!Ask
  <2>4. ASSUME NEW a \in Accepter, AcceptRename(a)
        PROVE  Gate!Grant(req[a].token, req[a].claude_pid, req[a].topic)
    <3> DEFINE r == req[a]
               Asked(P) == {<<q.token, q.claude_pid, q.topic>> : q \in P}
    <3>1. r \in pending /\ pending' = pending \ {r}
      BY <2>4 DEF AcceptRename, CanConsume
    <3>2. \A q \in pending : q.token = r.token => q = r
      BY <3>1 DEF WinnerInv, TokensAccounted
    <3>3. Asked(pending') = Asked(pending) \ {<<r.token, r.claude_pid, r.topic>>}
      BY <3>1, <3>2
    <3>4. QED
      BY <2>4, <3>1, <3>3 DEF AcceptRename, Gate!Grant
  <2>5. ASSUME NEW p \in Claude, HookInject(p)
        PROVE  Gate!Show(p, unread[p])
    BY <2>5 DEF HookInject, Gate!Show, BindingsGranted, GrantedTopics
  <2>6. ASSUME NEW a \in Accepter, AcceptRename(a) PROVE Gate!Next
    <3>1. req[a].token \in Token /\ req[a].claude_pid \in Claude /\ req[a].topic \in Topic
      BY <2>6 DEF AcceptRename, CanConsume, TypeOK, PendingJoin
    <3>2. Gate!Grant(req[a].token, req[a].claude_pid, req[a].topic)
      BY <2>4, <2>6
    <3>3. \E k \in Token, p \in Claude, t \in Topic : Gate!Grant(k, p, t)
      BY <3>1, <3>2 DEF Gate!Grant
    <3>4. QED
      BY <3>3 DEF Gate!Next
  <2>7. ASSUME NEW p \in Claude, HookInject(p) PROVE Gate!Next
    <3>1. unread[p] \in SUBSET Topic
      BY DEF TypeOK
    <3>2. QED
      BY <2>5, <2>7, <3>1 DEF Gate!Next
  <2>8. ASSUME NEW p \in Claude, NEW t \in Topic,
               CreateRoom(p, t) \/ \E k \in Token : JoinRoom(p, t, k)
        PROVE  Gate!Next
    BY <2>2, <2>3, <2>8 DEF Gate!Next
  <2>9. ASSUME NEW p \in Claude,
               \/ ClaudeStart(p) \/ ClaudeExit(p) \/ NewerBinaryWrites(p)
               \/ LeaveAll(p) \/ LeaveWrite(p) \/ HookStart(p) \/ HookBound(p) \/ HookFilter(p)
               \/ \E t \in Topic : LeaveRead(p, t)
        PROVE  UNCHANGED Gate!cvars
    BY <2>1, <2>9 DEF ClaudeStart, ClaudeExit, NewerBinaryWrites, LeaveAll, LeaveRead,
                      LeaveWrite, HookStart, HookBound, HookFilter
  <2>10. ASSUME NEW a \in Accepter,
                \/ AcceptRead(a) \/ AcceptTooLate(a) \/ AcceptEnsure(a) \/ AcceptAborts(a)
         PROVE  UNCHANGED Gate!cvars
    BY <2>1, <2>10 DEF AcceptRead, AcceptTooLate, AcceptEnsure, AcceptAborts
  <2>11. ASSUME NEW w \in Writer, AddRead(w) \/ AddWrite(w)
         PROVE  UNCHANGED Gate!cvars
    BY <2>1, <2>11 DEF AddRead, AddWrite
  <2>12. ASSUME NEW t \in Topic, DaemonGone(t) PROVE UNCHANGED Gate!cvars
    BY <2>1, <2>12 DEF DaemonGone
  <2>13. ASSUME NEW s \in Sweeper, NEW q \in Claude,
                SweepCheck(s, q) \/ SweepRemove(s, q)
         PROVE  UNCHANGED Gate!cvars
    BY <2>1, <2>13 DEF SweepCheck, SweepRemove
  <2>14. CASE UNCHANGED vars
    BY <2>1, <2>14 DEF vars
  <2>15. QED
    BY <2>6, <2>7, <2>8, <2>9, <2>10, <2>11, <2>12, <2>13, <2>14 DEF Next
<1>3. QED
  BY <1>1, <1>2, TypeCorrect, BindingsAreGranted, WinnersAccounted, PTL
  DEF Spec, ImplementsConsent, Gate!Spec

-----------------------------------------------------------------------------
\* Only a PID that a Claude has had is ever swept, and one that was found dead is not
\* running, unless it was given away again meanwhile.
Used == {p \in Claude : incarnation[p] >= 1}

SweepInv ==
    /\ \A p \in Claude : rooms[p] # NoFile => p \in Used
    /\ \A r \in pending : r.claude_pid \in Used
    /\ \A w \in Writer : step[w] # "idle" => req[w].claude_pid \in Used
    /\ \A s \in Sweeper :
          /\ todo[s] \subseteq Used
          /\ \A q \in doomed[s] : q \in Used /\ (q \in alive => incarnation[q] >= 2)

LEMMA SweepsAccounted == Spec => []SweepInv
<1>1. Init => SweepInv
  BY DEF Init, SweepInv
<1>2. TypeOK /\ BindingsGranted /\ SweepInv /\ [Next]_vars => SweepInv'
  <2> SUFFICES ASSUME TypeOK, BindingsGranted, SweepInv, [Next]_vars PROVE SweepInv'
    OBVIOUS
  <2> USE DEF TypeOK, SweepInv, Used, files, world, writers, hooks, history
  <2>1. ASSUME NEW p \in Claude, ClaudeStart(p) PROVE SweepInv'
    <3>1. /\ incarnation'[p] = incarnation[p] + 1 /\ incarnation[p] \in Nat
          /\ \A q \in Claude : q # p => incarnation'[q] = incarnation[q]
          /\ alive' = alive \union {p}
      BY <2>1, ConstantsAssumption DEF ClaudeStart
    <3>2. Used \subseteq Used'
      BY <3>1
    <3>3. HasDir \subseteq Used
      BY DEF HasDir
    <3>4. \A s \in Sweeper : todo'[s] \subseteq Used'
      BY <2>1, <3>2, <3>3 DEF ClaudeStart
    <3>5. \A s \in Sweeper : \A q \in doomed[s] : q \in alive' => incarnation'[q] >= 2
      BY <3>1
    <3>6. UNCHANGED <<rooms, pending, step, req, doomed>>
      BY <2>1 DEF ClaudeStart
    <3> HIDE DEF Used
    <3> QED BY <3>2, <3>4, <3>5, <3>6
  <2>2. ASSUME NEW p \in Claude, ClaudeExit(p) PROVE SweepInv'
    BY <2>2 DEF ClaudeExit
  <2>3. ASSUME NEW p \in Claude, NewerBinaryWrites(p) PROVE SweepInv'
    BY <2>3 DEF NewerBinaryWrites, Readable
  <2>4. ASSUME NEW p \in Claude, NEW t \in Topic, CreateRoom(p, t) \/ LeaveRead(p, t)
        PROVE  SweepInv'
    BY <2>4 DEF CreateRoom, LeaveRead, ServerReady, Writer
  <2>5. ASSUME NEW p \in Claude, NEW t \in Topic, NEW k \in Token, JoinRoom(p, t, k)
        PROVE  SweepInv'
    BY <2>5 DEF JoinRoom, ServerReady
  <2>6. ASSUME NEW p \in Claude, LeaveWrite(p) PROVE SweepInv'
    <3>1. p \in Writer /\ step[p] = "leavewrite" /\ req[p].claude_pid = p
      BY <2>6 DEF LeaveWrite, Writer, BindingsGranted
    <3>2. p \in Used
      BY <3>1
    <3> QED BY <2>6, <3>1, <3>2 DEF LeaveWrite, Return
  <2>7. ASSUME NEW p \in Claude, LeaveAll(p) PROVE SweepInv'
    BY <2>7 DEF LeaveAll
  <2>8. ASSUME NEW p \in Claude, HookStart(p) PROVE SweepInv'
    BY <2>8 DEF HookStart, HasDir
  <2>9. ASSUME NEW p \in Claude, HookBound(p) \/ HookFilter(p) \/ HookInject(p)
        PROVE  SweepInv'
    BY <2>9 DEF HookBound, HookFilter, HookInject
  <2>10. ASSUME NEW t \in Topic, DaemonGone(t) PROVE SweepInv'
    BY <2>10 DEF DaemonGone
  <2>11. ASSUME NEW w \in Writer, AddRead(w) PROVE SweepInv'
    BY <2>11 DEF AddRead
  <2>12. ASSUME NEW w \in Writer, AddWrite(w) PROVE SweepInv'
    BY <2>12 DEF AddWrite, Return
  <2>13. ASSUME NEW a \in Accepter,
                \/ AcceptRead(a) \/ AcceptRename(a) \/ AcceptTooLate(a)
                \/ AcceptEnsure(a) \/ AcceptAborts(a)
         PROVE  SweepInv'
    <3>1. a \in Writer
      BY DEF Writer
    <3> QED BY <2>13, <3>1 DEF AcceptRead, AcceptRename, AcceptTooLate, AcceptEnsure,
                               AcceptAborts, Return
  <2>14. ASSUME NEW s \in Sweeper, NEW q \in Claude, SweepCheck(s, q) PROVE SweepInv'
    BY <2>14 DEF SweepCheck, FoundDead
  <2>15. ASSUME NEW s \in Sweeper, NEW q \in Claude, SweepRemove(s, q) PROVE SweepInv'
    BY <2>15 DEF SweepRemove
  <2>16. CASE UNCHANGED vars
    BY <2>16 DEF vars
  <2> QED BY <2>1, <2>2, <2>3, <2>4, <2>5, <2>6, <2>7, <2>8, <2>9, <2>10, <2>11, <2>12,
             <2>13, <2>14, <2>15, <2>16 DEF Next
<1> QED BY <1>1, <1>2, TypeCorrect, BindingsAreGranted, PTL DEF Spec

\* No sweep takes the bindings of a running Claude that is the first with its PID,
\* however many sweeps overlap: what a sweep finds dead it removes later, and in
\* between only a new Claude with the same PID can make it wrong.
THEOREM SweepsSpareTheLiving == Spec => SweepSparesTheLiving
<1> DEFINE Spared == \A p \in alive :
                        incarnation[p] = 1 /\ rooms[p] # NoFile => rooms'[p] # NoFile
<1>1. TypeOK /\ SweepInv /\ [Next]_vars => [Spared]_vars
  <2> SUFFICES ASSUME TypeOK, SweepInv, Next,
                      NEW p \in alive, incarnation[p] = 1, rooms[p] # NoFile
               PROVE  rooms'[p] # NoFile
    OBVIOUS
  <2>1. \A s \in Sweeper, q \in Claude : SweepRemove(s, q) => rooms'[p] # NoFile
    <3> SUFFICES ASSUME NEW s \in Sweeper, NEW q \in Claude, SweepRemove(s, q)
                 PROVE  rooms'[p] # NoFile
      OBVIOUS
    <3>1. q # p
      BY DEF SweepRemove, SweepInv
    <3> QED BY <3>1 DEF SweepRemove, TypeOK
  <2>2. \A file : file \in RoomsFile => file # NoFile
    BY ConstantsAssumption
  <2>3. ASSUME NEW q \in Claude, NEW file \in RoomsFile,
               rooms' = [rooms EXCEPT ![q] = file]
        PROVE  rooms'[p] # NoFile
    BY <2>2, <2>3 DEF TypeOK
  <2>4. CASE rooms' = rooms
    BY <2>4
  <2>5. ASSUME NEW q \in Claude, NewerBinaryWrites(q) PROVE rooms'[p] # NoFile
    <3>1. [v |-> 2, topics |-> rooms[q].topics] \in RoomsFile
      BY <2>5 DEF NewerBinaryWrites, Readable, RoomsFile, TypeOK
    <3> QED BY <2>3, <2>5, <3>1 DEF NewerBinaryWrites
  <2>6. ASSUME NEW q \in Claude, LeaveWrite(q) PROVE rooms'[p] # NoFile
    <3>1. [v |-> StateVersion, topics |-> seen[q] \ {req[q].topic}] \in RoomsFile
      BY DEF RoomsFile, StateVersion, TypeOK, Writer
    <3> QED BY <2>3, <2>6, <3>1 DEF LeaveWrite
  <2>7. ASSUME NEW q \in Claude, LeaveAll(q) PROVE rooms'[p] # NoFile
    <3>1. [v |-> StateVersion, topics |-> {}] \in RoomsFile
      BY DEF RoomsFile, StateVersion
    <3> QED BY <2>3, <2>7, <3>1 DEF LeaveAll
  <2>8. ASSUME NEW w \in Writer, AddWrite(w) PROVE rooms'[p] # NoFile
    <3>1. req[w] \in Request
      BY <2>8 DEF AddWrite, TypeOK
    <3>2. WithTopic(seen[w], req[w].topic) \in RoomsFile /\ req[w].claude_pid \in Claude
      BY <3>1 DEF WithTopic, RoomsFile, StateVersion, Request, TypeOK
    <3> QED BY <2>3, <2>8, <3>2 DEF AddWrite
  <2>9. \/ rooms' = rooms
        \/ \E q \in Claude : NewerBinaryWrites(q) \/ LeaveWrite(q) \/ LeaveAll(q)
        \/ \E w \in Writer : AddWrite(w)
        \/ \E s \in Sweeper, q \in Claude : SweepRemove(s, q)
    <3>1. ASSUME NEW q \in Claude,
                 \/ ClaudeStart(q) \/ ClaudeExit(q)
                 \/ HookStart(q) \/ HookBound(q) \/ HookFilter(q) \/ HookInject(q)
          PROVE  rooms' = rooms
      BY <3>1 DEF ClaudeStart, ClaudeExit, HookStart, HookBound, HookFilter, HookInject, files
    <3>2. ASSUME NEW q \in Claude, NEW t \in Topic, CreateRoom(q, t) \/ LeaveRead(q, t)
          PROVE  rooms' = rooms
      BY <3>2 DEF CreateRoom, LeaveRead, files
    <3>3. ASSUME NEW q \in Claude, NEW t \in Topic, NEW k \in Token, JoinRoom(q, t, k)
          PROVE  rooms' = rooms
      BY <3>3 DEF JoinRoom
    <3>4. ASSUME NEW t \in Topic, DaemonGone(t) PROVE rooms' = rooms
      BY <3>4 DEF DaemonGone, files
    <3>5. ASSUME NEW w \in Writer, AddRead(w) PROVE rooms' = rooms
      BY <3>5 DEF AddRead, files
    <3>6. ASSUME NEW a \in Accepter,
                 \/ AcceptRead(a) \/ AcceptRename(a) \/ AcceptTooLate(a)
                 \/ AcceptEnsure(a) \/ AcceptAborts(a)
          PROVE  rooms' = rooms
      BY <3>6 DEF AcceptRead, AcceptRename, AcceptTooLate, AcceptEnsure, AcceptAborts, files
    <3>7. ASSUME NEW s \in Sweeper, NEW q \in Claude, SweepCheck(s, q) PROVE rooms' = rooms
      BY <3>7 DEF SweepCheck, files
    <3> QED BY <3>1, <3>2, <3>3, <3>4, <3>5, <3>6, <3>7 DEF Next
  <2> QED BY <2>1, <2>4, <2>5, <2>6, <2>7, <2>8, <2>9
<1> QED BY <1>1, TypeCorrect, SweepsAccounted, PTL DEF Spec, SweepSparesTheLiving
=============================================================================

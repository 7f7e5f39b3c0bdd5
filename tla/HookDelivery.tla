---------------------------- MODULE HookDelivery ----------------------------
(***************************************************************************)
(* How the prompt hook (cc-connect-hook, run) carries the messages of the  *)
(* room logs into a Claude session: per room it reads the cursor, without  *)
(* the cursor's lock, then scans the log; prints the merged, truncated     *)
(* batch; and only then advances the cursors, one by one.  Chat-daemons    *)
(* append meanwhile, hooks of one session may overlap, and a hook can fail *)
(* or be killed between any two steps.  A cursor is the atomic register    *)
(* CursorRegister, which CursorFile implements.                            *)
(***************************************************************************)
EXTENDS Integers, Sequences, FiniteSets

CONSTANTS
    Hook,     \* hooks of the session that can run at once
    Room,     \* rooms bound to its Claude and live
    MaxId,    \* bound: ids are 1..MaxId, each a message of one room
    Budget,   \* lines that fit in HOOK_OUTPUT_BUDGET, with the marker line
    InOrder,  \* do the daemons append in increasing order of id?
    Faulty    \* may calls fail and hooks be killed?

ASSUME ConstantsAssumption ==
    /\ MaxId \in Nat
    /\ Budget \in Nat \ {0}
    /\ InOrder \in BOOLEAN
    /\ Faulty \in BOOLEAN

Id == 1..MaxId
None == 0             \* no cursor yet, nothing to advance to

VARIABLES
    log,              \* log.jsonl of each room: the ids, in file order
    cursor,           \* the session's cursor of each room
    pc, todo,         \* per hook: phase, and rooms the phase has left
    room, from,       \* per hook: the room being read, its cursor as read
    unread, target,   \* per hook and room: messages found, id to advance to
    \* History:
    injected,         \* per room: ids printed
    dropped,          \* per room: ids left out to fit the budget
    again             \* per room: ids printed more than once

daemons == <<log>>
locals == <<pc, todo, room, from, unread, target>>
history == <<injected, dropped, again>>
vars == <<daemons, cursor, locals, history>>

NothingFound == [r \in Room |-> {}]
NoTarget == [r \in Room |-> None]

TypeOK ==
    /\ log \in [Room -> Seq(Id)]
    /\ cursor \in [Room -> Id \union {None}]
    /\ pc \in [Hook -> {"idle", "read", "scan", "print", "advance"}]
    /\ todo \in [Hook -> SUBSET Room]
    /\ room \in [Hook -> Room]
    /\ from \in [Hook -> Id \union {None}]
    /\ unread \in [Hook -> [Room -> SUBSET Id]]
    /\ target \in [Hook -> [Room -> Id \union {None}]]
    /\ injected \in [Room -> SUBSET Id]
    /\ dropped \in [Room -> SUBSET Id]
    /\ again \in [Room -> SUBSET Id]

Init ==
    /\ log = [r \in Room |-> <<>>]
    /\ cursor = [r \in Room |-> None]
    /\ pc = [h \in Hook |-> "idle"]
    /\ todo = [h \in Hook |-> {}]
    /\ room \in [Hook -> Room]
    /\ from = [h \in Hook |-> None]
    /\ unread = [h \in Hook |-> NothingFound]
    /\ target = [h \in Hook |-> NoTarget]
    /\ injected = [r \in Room |-> {}]
    /\ dropped = [r \in Room |-> {}]
    /\ again = [r \in Room |-> {}]

Logged(r) == {log[r][i] : i \in DOMAIN log[r]}

-----------------------------------------------------------------------------
\* log_io::append by the room's daemon.  Its own ids come from this machine's
\* clock, a peer's from the peer's, so InOrder may fail.
AppendLog(r, id) ==
    /\ \A s \in Room : id \notin Logged(s)
    /\ InOrder => \A j \in Logged(r) : j < id
    /\ log' = [log EXCEPT ![r] = Append(@, id)]
    /\ UNCHANGED <<cursor, locals, history>>

-----------------------------------------------------------------------------
\* The hook

\* The process is over, and its variables with it.
Exit(h) ==
    /\ pc' = [pc EXCEPT ![h] = "idle"]
    /\ todo' = [todo EXCEPT ![h] = {}]
    /\ unread' = [unread EXCEPT ![h] = NothingFound]
    /\ target' = [target EXCEPT ![h] = NoTarget]

\* A prompt fires the hook, which finds rooms rs bound and live.
Fire(h, rs) ==
    /\ pc[h] = "idle"
    /\ rs # {}
    /\ pc' = [pc EXCEPT ![h] = "read"]
    /\ todo' = [todo EXCEPT ![h] = rs]
    /\ UNCHANGED <<daemons, cursor, room, from, unread, target, history>>

\* read_cursor of the next room; one that cannot be read counts as missing.
ReadCursor(h, r) ==
    /\ pc[h] = "read"
    /\ r \in todo[h]
    /\ room' = [room EXCEPT ![h] = r]
    /\ \/ from' = [from EXCEPT ![h] = cursor[r]]
       \/ Faulty /\ from' = [from EXCEPT ![h] = None]
    /\ pc' = [pc EXCEPT ![h] = "scan"]
    /\ UNCHANGED <<daemons, cursor, todo, unread, target, history>>

\* Mutant of Unseen: the cursor taken as inclusive.
UnseenInclusive(id, c) == id >= c

\* read_since keeps the ids above the cursor.
Unseen(id, c) == id > c

\* Where read_since's messages are in the log of r.
Found(r, c) == {i \in DOMAIN log[r] : Unseen(log[r][i], c)}

\* messages.last(): the one furthest down the file.
LastFound(r, c) == IF Found(r, c) = {} THEN None
                   ELSE log[r][CHOOSE i \in Found(r, c) :
                                  \A j \in Found(r, c) : j <= i]

NextRoom(h) ==
    /\ todo' = [todo EXCEPT ![h] = @ \ {room[h]}]
    /\ pc' = [pc EXCEPT ![h] = IF todo[h] = {room[h]} THEN "print" ELSE "read"]

ScanLog(h) ==
    LET r == room[h]
    IN  /\ pc[h] = "scan"
        /\ unread' = [unread EXCEPT ![h][r] = {log[r][i] : i \in Found(r, from[h])}]
        /\ target' = [target EXCEPT ![h][r] = LastFound(r, from[h])]
        /\ NextRoom(h)
        /\ UNCHANGED <<daemons, cursor, room, from, history>>

\* The log cannot be opened or read: the room is passed over.
ScanFails(h) ==
    /\ Faulty
    /\ pc[h] = "scan"
    /\ NextRoom(h)
    /\ UNCHANGED <<daemons, cursor, room, from, unread, target, history>>

\* The batch of all rooms, merged.
Batch(h) == UNION {unread[h][r] : r \in Room}

\* fit_to_budget: everything, or the newest ones beside the marker line.
Kept(h) ==
    LET n == Cardinality(Batch(h))
    IN  IF n <= Budget THEN Batch(h)
        ELSE {id \in Batch(h) :
                 Cardinality({j \in Batch(h) : j >= id}) <= Budget - 1}

\* stdout is written, if there is anything to write.
WriteStdout(h) ==
    /\ pc[h] = "print"
    /\ Batch(h) # {}
    /\ injected' = [r \in Room |-> injected[r] \union (unread[h][r] \cap Kept(h))]
    /\ dropped' = [r \in Room |-> dropped[r] \union (unread[h][r] \ Kept(h))]
    /\ again' = [r \in Room |-> again[r] \union (unread[h][r] \cap Kept(h) \cap injected[r])]
    /\ todo' = [todo EXCEPT ![h] = {r \in Room : target[h][r] # None}]
    /\ pc' = [pc EXCEPT ![h] = "advance"]
    /\ UNCHANGED <<daemons, cursor, room, from, unread, target>>

\* Nothing is unread: no output, no cursor to advance.
WriteNothing(h) ==
    /\ pc[h] = "print"
    /\ Batch(h) = {}
    /\ Exit(h)
    /\ UNCHANGED <<daemons, cursor, room, from, history>>

\* Mutant of NewCursor: the log's end at the time of the advance.
NewCursorLogEnd(h, r) == log[r][Len(log[r])]

\* What advance_cursor is called with.
NewCursor(h, r) == target[h][r]

Advance(h, r) ==
    /\ pc[h] = "advance"
    /\ r \in todo[h]
    /\ cursor' = [cursor EXCEPT ![r] = NewCursor(h, r)]
    /\ todo' = [todo EXCEPT ![h] = @ \ {r}]
    /\ UNCHANGED <<daemons, pc, room, from, unread, target, history>>

\* advance_cursor gives up; the failure is logged and the next room has its turn.
AdvanceFails(h, r) ==
    /\ Faulty
    /\ pc[h] = "advance"
    /\ r \in todo[h]
    /\ todo' = [todo EXCEPT ![h] = @ \ {r}]
    /\ UNCHANGED <<daemons, cursor, pc, room, from, unread, target, history>>

Done(h) ==
    /\ pc[h] = "advance" /\ todo[h] = {}
    /\ Exit(h)
    /\ UNCHANGED <<daemons, cursor, room, from, history>>

\* stdout cannot be written, or the hook is killed.
Dies(h) ==
    /\ Faulty
    /\ pc[h] # "idle"
    /\ Exit(h)
    /\ UNCHANGED <<daemons, cursor, room, from, history>>

-----------------------------------------------------------------------------
Step(h) ==
    \/ ScanLog(h) \/ WriteStdout(h) \/ WriteNothing(h) \/ Done(h)
    \/ \E r \in Room : ReadCursor(h, r) \/ Advance(h, r)

FireFor(r) == \E h \in Hook, rs \in SUBSET Room : r \in rs /\ Fire(h, rs)

Next ==
    \/ \E h \in Hook :
          \/ Step(h) \/ ScanFails(h) \/ Dies(h)
          \/ \E rs \in SUBSET Room : Fire(h, rs)
          \/ \E r \in Room : AdvanceFails(h, r)
    \/ \E r \in Room, id \in Id : AppendLog(r, id)

Spec == Init /\ [][Next]_vars

\* A hook that runs goes on, and the user keeps prompting while r is bound and live.
FairSpec ==
    /\ Spec
    /\ \A h \in Hook : WF_vars(Step(h))
    /\ \A r \in Room : SF_vars(FireFor(r))
-----------------------------------------------------------------------------
\* Properties

Passed(r) == injected[r] \union dropped[r]

\* What a cursor has moved past was printed, or was left out to fit the budget,
\* whatever overlaps, fails or dies in between: the hook's "Claude will see a
\* duplicate, but never miss a message".
NothingMissed ==
    \A r \in Room : \A i \in DOMAIN log[r] : log[r][i] <= cursor[r] => log[r][i] \in Passed(r)

\* A hook that runs alone and does not fail injects a message once.
NothingTwice == \A r \in Room : again[r] = {}

\* Every logged message is at last printed or left out.
AllPassed ==
    \A r \in Room, id \in Id : (id \in Logged(r)) ~> (id \in Passed(r))

\* A cursor advance is not lost (PROTOCOL.md, 7.3 steps 3 and 8: the cursor is locked
\* from its reading to its rename, "to avoid lost cursor advances").
CursorNeverRegresses == [][\A r \in Room : cursor'[r] >= cursor[r]]_vars
=============================================================================

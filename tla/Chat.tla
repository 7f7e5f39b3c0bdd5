-------------------------------- MODULE Chat --------------------------------
(***************************************************************************)
(* The tasks of a chat session that is up (chat_session.rs, run_session):  *)
(* the send loop, which takes the lines of the human and of the AI from    *)
(* two bounded queues; the gossip listener; the consumer of the bounded    *)
(* display channel both of them write to; the ring of recent mentions with *)
(* its broadcast channel; and one client of wait_for_mention, which calls  *)
(* again and again with the id of the last mention it was given.           *)
(*                                                                         *)
(* A message is its id.  The rate limiters of both tasks decide freely     *)
(* here (RateLimiter has them), calls on files may fail, and what has no   *)
(* effect (heartbeats, our own messages coming back) is no step.           *)
(***************************************************************************)
EXTENDS Naturals, Sequences, FiniteSets, SequencesExt

CONSTANTS
    MaxId,        \* bound: messages, ours and the peers'
    MaxLine,      \* bound: lines given to the session
    QueueCap,     \* capacity of the input channels
    DisplayCap,   \* capacity of the display channel
    RingCap       \* MENTION_BUFFER_CAP

ASSUME ConstantsAssumption ==
    /\ MaxId \in Nat /\ MaxLine \in Nat
    /\ QueueCap \in Nat \ {0} /\ DisplayCap \in Nat \ {0} /\ RingCap \in Nat \ {0}

Id == 1..MaxId
None == 0

Source == {"human", "ai"}
\* What a line is: chat that mentions nobody or us, chat above the size limit, a
\* /drop, and what comes to nothing (a /drop that fails, an unknown command, a blank).
LineKind == {"text", "ping", "long", "drop", "void"}
\* Chat of a peer; "bot" is a mention by another AI.
PeerKind == {"text", "ping", "bot"}

\* A line in a queue: what it is, and who gave it.
Line == [kind : LineKind, by : Source]

\* The two tasks at rest.
Idle == [at |-> "idle", src |-> "human", by |-> "human", kind |-> "text", id |-> None]
Deaf == [at |-> "idle", id |-> None]

VARIABLES
    phase,        \* "up", or "over" once the session has returned an error
    nick,         \* our nick: one that fits, or one that fits without its -cc
    queue,        \* input_rx and mcp_input_rx
    given,        \* lines given so far
    out, ear,     \* where the send loop and the listener are, and with what
    display,      \* lines in the display channel
    top,          \* the highest id in use
    log,          \* log.jsonl
    ring,         \* MentionState.recent
    wait, inbox,  \* the client: its state, and its broadcast receiver
    since,        \* the id it calls with
    \* History:
    mentions,     \* ids pushed, with who spoke
    heard, again, \* ids it was given, and those given more than once
    told          \* ids in its contexts, what their cap leaves out included

tasks == <<phase, nick, queue, given, out, ear, display>>
store == <<top, log>>
client == <<wait, inbox, since, heard, again, told>>
pushes == <<ring, mentions>>
vars == <<tasks, store, client, pushes>>

TypeOK ==
    /\ phase \in {"up", "over"}
    /\ nick \in {"short", "long"}
    /\ queue \in [Source -> Seq(Line)]
    /\ \A s \in Source : Len(queue[s]) <= QueueCap
    /\ given \in 0..MaxLine
    /\ out \in [at : {"idle", "warn", "echo", "log", "air"},
                src : Source, by : Source, kind : LineKind, id : Id \union {None}]
    /\ ear \in [at : {"idle", "fetch", "show"}, id : Id \union {None}]
    /\ ear.at = "fetch" => ear.id # None
    /\ display \in 0..DisplayCap
    /\ top \in Id \union {None}
    /\ log \in Seq(Id)
    /\ ring \in Seq(Id) /\ Len(ring) <= RingCap
    /\ wait \in {"away", "subscribed", "waiting"}
    /\ inbox \in Seq(Id) /\ since \in Id \union {None}
    /\ mentions \subseteq Id \X {"person", "AI"}
    /\ heard \subseteq Id /\ again \subseteq Id /\ told \subseteq Id

Init ==
    /\ phase = "up"
    /\ nick \in {"short", "long"}
    /\ queue = [s \in Source |-> <<>>]
    /\ given = 0
    /\ out = Idle /\ ear = Deaf
    /\ display = 0
    /\ top = None /\ log = <<>>
    /\ ring = <<>> /\ mentions = {}
    /\ wait = "away" /\ inbox = <<>> /\ since = None
    /\ heard = {} /\ again = {} /\ told = {}

-----------------------------------------------------------------------------
\* Messages

\* The clocks agree, and chat travels fast: a new id is above all others.
NewId(i) == i = top + 1

\* The nick a message of ours carries, by the cap of 64 bytes.
NickFor(s) ==
    IF s = "ai" /\ nick = "long" THEN "over" ELSE "fits"

\* Mutant of Builds: with_nick does not look.
BuildsAnyNick(kind, n) == kind # "long"

\* Message::new, new_file_drop and with_nick agree to make it.
Builds(kind, n) == kind # "long" /\ n # "over"

\* from_wire_bytes of a receiver: the body's cap, the nick's cap.
Accepts(m) == m.body # "long" /\ m.nick # "over"

\* The ring evicts its oldest.
Pushed(i) == Append(IF Len(ring) >= RingCap THEN Tail(ring) ELSE ring, i)

\* MentionState::push: the ring, then the waiters.
Push(i, who) ==
    /\ ring' = Pushed(i)
    /\ mentions' = mentions \union {<<i, who>>}
    /\ inbox' = IF wait = "away" THEN inbox ELSE Append(inbox, i)
    /\ UNCHANGED <<wait, since, heard, again, told>>

-----------------------------------------------------------------------------
\* Lines come in: from the terminal, or by IPC, which waits for room.

\* Mutant of Channel: the source of a request is not looked at.
ChannelLocal(s) == "human"

\* pick_input_channel
Channel(s) == s

Give(s, k) ==
    /\ phase = "up" /\ given < MaxLine
    /\ Len(queue[Channel(s)]) < QueueCap
    /\ queue' = [queue EXCEPT ![Channel(s)] = Append(@, [kind |-> k, by |-> s])]
    /\ given' = given + 1
    /\ UNCHANGED <<phase, nick, out, ear, display, store, client, pushes>>

-----------------------------------------------------------------------------
\* The send loop

\* The biased select: the human's lines first.
Turn == IF queue["human"] # <<>> THEN "human" ELSE "ai"

\* build_file_drop: the file is copied, and the message has its id.
FileDropped(i) == NewId(i) /\ top' = i

\* A line is taken: passed over, warned about (the limiter does so at most once in
\* a while), or to be echoed.  A file is copied, and has its id, before its echo.
TakeLine ==
    LET k == Head(queue[Turn]).kind
    IN  /\ phase = "up" /\ out.at = "idle" /\ queue[Turn] # <<>>
        /\ queue' = [queue EXCEPT ![Turn] = Tail(@)]
        /\ \/ /\ out' \in {Idle, [Idle EXCEPT !.at = "warn"]}
              /\ UNCHANGED top
           \/ /\ k # "void"
              /\ \E i \in Id \union {None} :
                    /\ IF k = "drop" THEN FileDropped(i) ELSE i = None /\ UNCHANGED top
                    /\ out' = [at |-> "echo", src |-> Turn, by |-> Head(queue[Turn]).by,
                               kind |-> k, id |-> i]
        /\ UNCHANGED <<phase, nick, given, ear, display, log, client, pushes>>

\* The line is shown once the display channel has room; a warning ends the turn.
Echo ==
    /\ phase = "up" /\ out.at \in {"warn", "echo"}
    /\ display < DisplayCap
    /\ display' = display + 1
    /\ out' = IF out.at = "warn" THEN Idle ELSE [out EXCEPT !.at = "log"]
    /\ UNCHANGED <<phase, nick, queue, given, ear, store, client, pushes>>

\* The message cannot be made: the error ends the session.
BuildFails ==
    /\ phase = "up" /\ out.at = "log"
    /\ ~Builds(out.kind, NickFor(out.src))
    /\ phase' = "over"
    /\ UNCHANGED <<nick, queue, given, out, ear, display, store, client, pushes>>

\* The human, and only the human, mentions this machine's AI.
WakesUs == out.kind = "ping" /\ out.src = "human"

\* It is made, appended, and perhaps a mention.
LogOwn(i) ==
    /\ phase = "up" /\ out.at = "log"
    /\ Builds(out.kind, NickFor(out.src))
    /\ IF out.kind = "drop" THEN i = out.id /\ UNCHANGED top ELSE NewId(i) /\ top' = i
    /\ log' = Append(log, i)
    /\ IF WakesUs THEN Push(i, IF out.by = "human" THEN "person" ELSE "AI") ELSE UNCHANGED <<client, pushes>>
    /\ out' = [out EXCEPT !.at = "air", !.id = None]
    /\ UNCHANGED <<phase, nick, queue, given, ear, display>>

\* The append fails: a warning, and no broadcast.
LogOwnFails ==
    /\ phase = "up" /\ out.at = "log"
    /\ Builds(out.kind, NickFor(out.src))
    /\ out' = [Idle EXCEPT !.at = "warn"]
    /\ UNCHANGED <<phase, nick, queue, given, ear, display, store, client, pushes>>

\* The broadcast, or a warning that it failed.
Air ==
    /\ phase = "up" /\ out.at = "air"
    /\ out' \in {Idle, [Idle EXCEPT !.at = "warn"]}
    /\ UNCHANGED <<phase, nick, queue, given, ear, display, store, client, pushes>>

-----------------------------------------------------------------------------
\* The listener

\* Malformed, over the rate, or an append or a fetch that failed: a warning.
HearDrops ==
    /\ phase = "up" /\ ear.at \in {"idle", "fetch"}
    /\ ear' = [Deaf EXCEPT !.at = "show"]
    /\ UNCHANGED <<phase, nick, queue, given, out, display, store, client, pushes>>

\* A file_drop: its bytes are fetched from the author before it is logged.
HearFile(i) ==
    /\ phase = "up" /\ ear.at = "idle"
    /\ NewId(i)
    /\ ear' = [at |-> "fetch", id |-> i]
    /\ top' = i
    /\ UNCHANGED <<phase, nick, queue, given, out, display, log, client, pushes>>

FetchDone ==
    /\ phase = "up" /\ ear.at = "fetch"
    /\ log' = Append(log, ear.id)
    /\ ear' = [Deaf EXCEPT !.at = "show"]
    /\ UNCHANGED <<phase, nick, queue, given, out, display, top, client, pushes>>

\* A peer's mention of us wakes the AI; another AI's does not.
PeerWakes(k) == k = "ping"

\* Chat is logged, and perhaps a mention.  Where only the owner may wake the AI,
\* every message is a "text".
HearChat(k, i) ==
    /\ phase = "up" /\ ear.at = "idle"
    /\ NewId(i)
    /\ top' = i
    /\ log' = Append(log, i)
    /\ IF PeerWakes(k) THEN Push(i, IF k = "bot" THEN "AI" ELSE "person") ELSE UNCHANGED <<client, pushes>>
    /\ ear' = [Deaf EXCEPT !.at = "show"]
    /\ UNCHANGED <<phase, nick, queue, given, out, display>>

\* The message, or the warning, is shown once there is room.
ShowPeer ==
    /\ phase = "up" /\ ear.at = "show"
    /\ display < DisplayCap
    /\ display' = display + 1
    /\ ear' = Deaf
    /\ UNCHANGED <<phase, nick, queue, given, out, store, client, pushes>>

-----------------------------------------------------------------------------
\* Mutant of Drains: the consumer reads while the session has a line of input.
DrainsOnInput == queue["human"] # <<>>

\* The consumer of the display channel does nothing but read it.
Drains == TRUE

Drain ==
    /\ Drains
    /\ display > 0
    /\ display' = display - 1
    /\ UNCHANGED <<phase, nick, queue, given, out, ear, store, client, pushes>>

-----------------------------------------------------------------------------
\* wait_for_mention

WaitCall ==
    /\ phase = "up" /\ wait = "away"
    /\ wait' = "subscribed"
    /\ inbox' = <<>>
    /\ UNCHANGED <<tasks, store, pushes, since, heard, again, told>>

\* Mutant of Context: the message right after the last mention is left out.
ContextLate(i) == {j \in ToSet(log) : since # None /\ since + 1 < j /\ j < i}

\* context_between: what is logged between two mentions.
Context(i) == {j \in ToSet(log) : since # None /\ since < j /\ j < i}

\* The call returns mention i with its context.
ReturnMention(i) ==
    /\ wait' = "away"
    /\ inbox' = <<>>
    /\ since' = i
    /\ heard' = heard \union {i}
    /\ again' = again \union (heard \cap {i})
    /\ told' = told \union Context(i)
    /\ UNCHANGED <<tasks, store, pushes>>

ReturnNull ==
    /\ wait' = "away"
    /\ inbox' = <<>>
    /\ UNCHANGED <<tasks, store, pushes, since, heard, again, told>>

\* Mutant of Buffered: only the newest is kept for a slow caller.
BufferedNewest == {n \in DOMAIN ring : since # None /\ since < ring[n] /\ n = Len(ring)}

\* snapshot_after: what the ring has above the client's id, if it gave one, by place.
Buffered == {n \in DOMAIN ring : since # None /\ since < ring[n]}

Snapshot ==
    /\ phase = "up" /\ wait = "subscribed"
    /\ \/ \E n \in Buffered : (\A m \in Buffered : n <= m) /\ ReturnMention(ring[n])
       \/ /\ Buffered = {}
          /\ wait' = "waiting"
          /\ UNCHANGED <<tasks, store, pushes, inbox, since, heard, again, told>>

\* The receiver has the oldest pushed since the call, unless it has fallen behind.
WaitReturns ==
    /\ phase = "up" /\ wait = "waiting" /\ inbox # <<>>
    /\ IF Len(inbox) <= RingCap THEN ReturnMention(Head(inbox)) ELSE ReturnNull

WaitTimesOut ==
    /\ phase = "up" /\ wait = "waiting" /\ inbox = <<>>
    /\ ReturnNull

-----------------------------------------------------------------------------
SendLoop ==
    \/ TakeLine \/ Echo \/ BuildFails \/ LogOwnFails \/ Air
    \/ \E i \in Id : LogOwn(i)

Listener == HearDrops \/ FetchDone \/ ShowPeer

Next ==
    \/ \E s \in Source, k \in LineKind : Give(s, k)
    \/ SendLoop \/ Listener \/ Drain
    \/ \E i \in Id : HearFile(i)
    \/ \E i \in Id, k \in PeerKind : HearChat(k, i)
    \/ WaitCall \/ Snapshot \/ WaitReturns \/ WaitTimesOut

Spec == Init /\ [][Next]_vars

\* The send loop runs on, and the consumer reads.  A sender that waits for room in
\* the display channel is served in turn (the channel's semaphore is a queue), so the
\* listener cannot take every place.  What comes in from outside is not promised.
FairSpec ==
    /\ Spec
    /\ WF_vars(SendLoop)
    /\ SF_vars(Echo)
    /\ WF_vars(Drain)
-----------------------------------------------------------------------------
\* Properties

\* From the first mention it was given, a client that calls again with the last id
\* is given every mention once, whether it comes while the client waits, subscribes
\* or is away, unless the ring had to evict it (chat_session.rs: the buffer is there
\* so that a slow caller "doesn't lose events delivered between two calls").
MentionsKept ==
    /\ \A m \in mentions :
          m[1] <= since /\ (\E i \in heard : i <= m[1]) => m[1] \in heard \/ m[1] \notin ToSet(ring)
    /\ again = {}

\* Logged behind a message with a higher id: a file that took its time.
Late(k) == \E j \in 1..(k - 1) : log[j] > log[k]

\* With its mentions the client is told all that was logged between them, but for
\* what is logged late: a mention is not pushed before it, and what precedes it, can
\* be read in the log.
ContextTold ==
    \A k \in DOMAIN log :
        log[k] < since /\ (\E i \in heard : i < log[k]) /\ ~Late(k)
            => log[k] \in told \union heard

\* Nothing an AI says, ours by its queue and its nick or a peer's by its suffix,
\* wakes our AI: two AIs do not set each other off (the "feedback loop" of
\* chat_session.rs).
WokenByPeople == \A m \in mentions : m[2] = "person"

\* What is logged and broadcast is a message that every receiver takes: the limits
\* the session keeps when it makes one are those of from_wire_bytes.
AiredAccepted ==
    out.at = "air" => Accepts([body |-> out.kind, nick |-> NickFor(out.src)])

\* With a consumer that reads, the session never wedges: the queues run empty,
\* however small the channels are and whatever the two tasks wait for.
LinesTaken ==
    \A s \in Source : queue[s] # <<>> ~> (queue[s] = <<>> \/ phase = "over")
=============================================================================

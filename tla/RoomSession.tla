----------------------------- MODULE RoomSession -----------------------------
(***************************************************************************)
(* The chat session (chat_session.rs, run_session) and the backfill        *)
(* (backfill.rs) of the machines of one room, over a gossip network that   *)
(* reorders and loses.  A session subscribes, asks the peers of its ticket *)
(* for history, one after the other, and only then runs its listener, its  *)
(* send loop and its heartbeat.  It can end, or be killed, between any two *)
(* steps; its log stays.                                                   *)
(*                                                                         *)
(* A message is its number in the order of sending.  Gossip delivers a     *)
(* message to a subscription at most once.  Heartbeats and what does not   *)
(* parse never get to the log.                                             *)
(***************************************************************************)
EXTENDS Naturals, Sequences, FiniteSets

CONSTANTS
    Peer,        \* machines
    MaxId,       \* bound: messages sent
    Limit,       \* SERVER_LIMIT_CAP
    MaxEnds,     \* bound: sessions that end
    MaxLost,     \* bound: losses in the running sessions
    NoPeer       \* nobody

ASSUME ConstantsAssumption ==
    /\ MaxId \in Nat /\ Limit \in Nat /\ MaxEnds \in Nat /\ MaxLost \in Nat
    /\ IsFiniteSet(Peer) /\ NoPeer \notin Peer

Id == 1..MaxId

VARIABLES
    author,      \* per message sent: its author
    log,         \* per machine: log.jsonl
    phase,       \* per machine: of its session
    mesh,        \* per machine: messages its subscription holds, unread
    unaired,     \* per machine: the message logged, not yet broadcast
    ask,         \* per machine: backfill candidates left
    server,      \* per machine: the peer of the attempt under way
    answer,      \* per machine: messages of the response not yet looked at
    existing,    \* per machine: ids in the log when the response came
    ends,        \* sessions ended so far
    \* History:
    source,      \* per machine: the peer whose whole log the session got
    whole,       \* per machine: does the answer under way have all of its log?
    aired,       \* messages broadcast
    missed       \* per machine: messages lost on the way to the session's log

local == <<ask, server, answer, existing>>
history == <<source, whole, aired, missed>>
vars == <<author, log, phase, mesh, unaired, local, ends, history>>

Logged(p) == {log[p][i] : i \in DOMAIN log[p]}

TypeOK ==
    /\ author \in Seq(Peer) /\ Len(author) <= MaxId
    /\ log \in [Peer -> Seq(Id)]
    /\ phase \in [Peer -> {"off", "joining", "up"}]
    /\ mesh \in [Peer -> SUBSET Id]
    /\ unaired \in [Peer -> SUBSET Id]
    /\ ask \in [Peer -> SUBSET Peer]
    /\ server \in [Peer -> Peer \union {NoPeer}]
    /\ answer \in [Peer -> Seq(Id)]
    /\ existing \in [Peer -> SUBSET Id]
    /\ ends \in 0..MaxEnds
    /\ source \in [Peer -> Peer \union {NoPeer}]
    /\ whole \in [Peer -> BOOLEAN]
    /\ aired \in SUBSET Id
    /\ missed \in [Peer -> SUBSET Id]
    /\ \A p \in Peer :
          /\ server[p] # NoPeer => phase[p] = "joining"
          /\ answer[p] # <<>> \/ existing[p] # {} \/ whole[p] => server[p] # NoPeer
          /\ ask[p] # {} => phase[p] = "joining"
          /\ unaired[p] # {} => phase[p] = "up"
          /\ source[p] # NoPeer => phase[p] = "up"
          /\ mesh[p] # {} \/ missed[p] # {} => phase[p] # "off"

Init ==
    /\ author = <<>>
    /\ log = [p \in Peer |-> <<>>]
    /\ phase = [p \in Peer |-> "off"]
    /\ mesh = [p \in Peer |-> {}]
    /\ unaired = [p \in Peer |-> {}]
    /\ ask = [p \in Peer |-> {}]
    /\ server = [p \in Peer |-> NoPeer]
    /\ answer = [p \in Peer |-> <<>>]
    /\ existing = [p \in Peer |-> {}]
    /\ ends = 0
    /\ source = [p \in Peer |-> NoPeer]
    /\ whole = [p \in Peer |-> FALSE]
    /\ aired = {}
    /\ missed = [p \in Peer |-> {}]

-----------------------------------------------------------------------------
\* Joining.  The router answers backfills from here on, and gossip is held for
\* the listener.

\* A ticket names peers cs; the join waits until one of them is there.
Subscribe(p, cs) ==
    /\ phase[p] = "off"
    /\ cs # {} => \E q \in cs : phase[q] # "off"
    /\ phase' = [phase EXCEPT ![p] = "joining"]
    /\ ask' = [ask EXCEPT ![p] = cs]
    /\ UNCHANGED <<author, log, mesh, unaired, server, answer, existing, ends, history>>

\* handle_one: the oldest Limit messages, in the order of the file.
Answer(q) == SubSeq(log[q], 1, IF Len(log[q]) < Limit THEN Len(log[q]) ELSE Limit)

\* The response of q is in, and the ids at hand are collected.
Request(p, q) ==
    /\ phase[p] = "joining" /\ server[p] = NoPeer
    /\ q \in ask[p] /\ phase[q] # "off"
    /\ ask' = [ask EXCEPT ![p] = @ \ {q}]
    /\ server' = [server EXCEPT ![p] = q]
    /\ answer' = [answer EXCEPT ![p] = Answer(q)]
    /\ existing' = [existing EXCEPT ![p] = Logged(p)]
    /\ whole' = [whole EXCEPT ![p] = Len(log[q]) <= Limit]
    /\ UNCHANGED <<author, log, phase, mesh, unaired, ends, source, aired, missed>>

\* The peer cannot be dialled: the next one has its turn.
RequestFails(p, q) ==
    /\ phase[p] = "joining" /\ server[p] = NoPeer
    /\ q \in ask[p] /\ phase[q] = "off"
    /\ ask' = [ask EXCEPT ![p] = @ \ {q}]
    /\ UNCHANGED <<author, log, phase, mesh, unaired, server, answer, existing, ends, history>>

\* Mutant of Unknown: what is in the log is taken for missing.
UnknownAgain(p, x) == author[x] # p

\* The messages of a response that attempt() appends.
Unknown(p, x) == author[x] # p /\ x \notin existing[p]

\* The loop of attempt(), one message a step.
TakeNext(p) ==
    LET x == Head(answer[p])
    IN  /\ phase[p] = "joining" /\ answer[p] # <<>>
        /\ answer' = [answer EXCEPT ![p] = Tail(@)]
        /\ log' = [log EXCEPT ![p] = IF Unknown(p, x) THEN Append(@, x) ELSE @]
        /\ UNCHANGED <<author, phase, mesh, unaired, ask, server, existing, ends, history>>

MayLose == Cardinality({m \in Peer \X Id : m[2] \in missed[m[1]]}) < MaxLost

\* A file_drop whose bytes cannot be fetched from its author is passed over.
FetchFails(p) ==
    LET x == Head(answer[p])
    IN  /\ phase[p] = "joining" /\ answer[p] # <<>>
        /\ Unknown(p, x) /\ MayLose
        /\ answer' = [answer EXCEPT ![p] = Tail(@)]
        /\ missed' = [missed EXCEPT ![p] = @ \union {x}]
        /\ UNCHANGED <<author, log, phase, mesh, unaired, ask, server, existing, ends,
                       source, whole, aired>>

\* The attempt is over before the response is: five seconds, or an append failed.
AttemptFails(p) ==
    /\ phase[p] = "joining" /\ server[p] # NoPeer
    /\ server' = [server EXCEPT ![p] = NoPeer]
    /\ answer' = [answer EXCEPT ![p] = <<>>]
    /\ existing' = [existing EXCEPT ![p] = {}]
    /\ whole' = [whole EXCEPT ![p] = FALSE]
    /\ UNCHANGED <<author, log, phase, mesh, unaired, ask, ends, source, aired, missed>>

\* An attempt the ten seconds cut off is over (AttemptFails) before the join is.
NoneUnderWay(p) == answer[p] = <<>>

\* Filled or Empty; or ten seconds are over, or nobody is left to ask.
JoinEnds(p) ==
    /\ phase[p] = "joining"
    /\ NoneUnderWay(p)
    /\ phase' = [phase EXCEPT ![p] = "up"]
    /\ source' = [source EXCEPT ![p] = IF whole[p] THEN server[p] ELSE NoPeer]
    /\ ask' = [ask EXCEPT ![p] = {}]
    /\ server' = [server EXCEPT ![p] = NoPeer]
    /\ existing' = [existing EXCEPT ![p] = {}]
    /\ whole' = [whole EXCEPT ![p] = FALSE]
    /\ UNCHANGED <<author, log, mesh, unaired, answer, ends, aired, missed>>

-----------------------------------------------------------------------------
\* The send loop: a line becomes a message, is logged, then broadcast.

SendAppend(p) ==
    /\ phase[p] = "up" /\ unaired[p] = {}
    /\ Len(author) < MaxId
    /\ author' = Append(author, p)
    /\ log' = [log EXCEPT ![p] = Append(@, Len(author) + 1)]
    /\ unaired' = [unaired EXCEPT ![p] = {Len(author) + 1}]
    /\ UNCHANGED <<phase, mesh, local, ends, history>>

\* Mutant of Subscribed: only those whose listener runs.
SubscribedUp == {q \in Peer : phase[q] = "up"}

\* Whom a broadcast reaches; the network may bring it back to its sender.
Subscribed == {q \in Peer : phase[q] # "off"}

SendBroadcast(p) ==
    /\ phase[p] = "up" /\ unaired[p] # {}
    /\ \E to \in {Subscribed, Subscribed \ {p}} :
          mesh' = [q \in Peer |-> IF q \in to THEN mesh[q] \union unaired[p] ELSE mesh[q]]
    /\ aired' = aired \union unaired[p]
    /\ unaired' = [unaired EXCEPT ![p] = {}]
    /\ UNCHANGED <<author, log, phase, local, ends, source, whole, missed>>

-----------------------------------------------------------------------------
\* The listener

\* Mutant of Foreign: our own messages that come back are taken.
ForeignAny(p, x) == TRUE

Foreign(p, x) == author[x] # p

Receive(p, x) ==
    /\ phase[p] = "up"
    /\ x \in mesh[p]
    /\ mesh' = [mesh EXCEPT ![p] = @ \ {x}]
    /\ log' = [log EXCEPT ![p] = IF Foreign(p, x) THEN Append(@, x) ELSE @]
    /\ UNCHANGED <<author, phase, unaired, local, ends, history>>

\* Lost by the network, over the rate limit, a blob that cannot be had, a failed
\* append.
ReceiveDrops(p, x) ==
    /\ phase[p] = "up"
    /\ x \in mesh[p] /\ Foreign(p, x) /\ MayLose
    /\ mesh' = [mesh EXCEPT ![p] = @ \ {x}]
    /\ missed' = [missed EXCEPT ![p] = @ \union {x}]
    /\ UNCHANGED <<author, log, phase, unaired, local, ends, source, whole, aired>>

\* The session ends: an error in a message to be sent, a stop, a kill.
SessionEnds(p) ==
    /\ phase[p] # "off"
    /\ ends < MaxEnds
    /\ ends' = ends + 1
    /\ phase' = [phase EXCEPT ![p] = "off"]
    /\ mesh' = [mesh EXCEPT ![p] = {}]
    /\ unaired' = [unaired EXCEPT ![p] = {}]
    /\ ask' = [ask EXCEPT ![p] = {}]
    /\ server' = [server EXCEPT ![p] = NoPeer]
    /\ answer' = [answer EXCEPT ![p] = <<>>]
    /\ existing' = [existing EXCEPT ![p] = {}]
    /\ source' = [source EXCEPT ![p] = NoPeer]
    /\ whole' = [whole EXCEPT ![p] = FALSE]
    /\ missed' = [missed EXCEPT ![p] = {}]
    /\ UNCHANGED <<author, log, aired>>

-----------------------------------------------------------------------------
Next ==
    \E p \in Peer :
        \/ \E cs \in SUBSET (Peer \ {p}) : Subscribe(p, cs)
        \/ \E q \in Peer : Request(p, q) \/ RequestFails(p, q)
        \/ TakeNext(p) \/ FetchFails(p) \/ AttemptFails(p) \/ JoinEnds(p)
        \/ SendAppend(p) \/ SendBroadcast(p)
        \/ \E x \in Id : Receive(p, x) \/ ReceiveDrops(p, x)
        \/ SessionEnds(p)

Spec == Init /\ [][Next]_vars
-----------------------------------------------------------------------------
\* Properties

Abstract == INSTANCE Room

\* A log grows by the machine's own message when it sends it, and else only by
\* messages others sent before: no echo of its own message, by gossip or by
\* backfill after a restart, is logged a second time (chat_session.rs "Don't echo
\* our own broadcasts back into the log", backfill.rs "self-spoof guard").
ImplementsRoom == Abstract!Spec

\* A session whose history came whole from q, and every message that q has aired
\* since or before: it is in the log, or on its way, or was lost by name.  So no
\* message falls between the backfill and the subscription, which is why
\* run_session subscribes first.
JoinLosesNothing ==
    \A p \in Peer : phase[p] = "up" /\ source[p] # NoPeer =>
        \A x \in aired : author[x] = source[p] => x \in Logged(p) \union mesh[p] \union missed[p]

Copies(p, x) == Cardinality({i \in DOMAIN log[p] : log[p][i] = x})

\* The same message can be backfilled and received, and a backfill from a log with
\* copies copies them; but a machine takes a message from one answer and from
\* gossip once, so that a log has at most as many copies as there are machines.
CopiesBounded == \A p \in Peer, x \in Id : Copies(p, x) <= Cardinality(Peer)
=============================================================================

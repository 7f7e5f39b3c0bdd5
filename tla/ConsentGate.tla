---------------------------- MODULE ConsentGate ----------------------------
(***************************************************************************)
(* The files that decide which chat a Claude is shown, and the processes   *)
(* that share them:                                                        *)
(*   - sessions/by-claude-pid/<pid>/rooms.json, the rooms of a Claude PID, *)
(*     read, changed and renamed into place without a lock by that         *)
(*     Claude's MCP server and by `cc-connect accept` processes;           *)
(*   - pending-joins/<token>.json, one per request awaiting the human;     *)
(*   - the prompt hook, which sweeps the directories of dead PIDs and then *)
(*     injects the rooms that are both bound and served by a live daemon.  *)
(* Every read, rename and removal of rooms.json and of a pending join, and *)
(* every probe of a PID, is a step of its own.                             *)
(***************************************************************************)
EXTENDS Integers, FiniteSets

CONSTANTS
    Claude,          \* PIDs a `claude` process can have
    Topic,           \* rooms
    Foreign,         \* the rooms hosted elsewhere, known by their ticket
    Token,           \* names of pending-join files
    Accepter,        \* slots for concurrent `cc-connect accept` processes
    MaxIncarnation,  \* bound: how often one PID is given to a Claude
    NewerBinary,     \* does a newer release also write rooms.json?
    NoFile, NoToken, NoRequest

StateVersion == 1

RoomsFile == [v : {1, 2}, topics : SUBSET Topic]
PendingJoin == [token : Token, claude_pid : Claude, topic : Topic]
Request == [token : Token \union {NoToken}, claude_pid : Claude, topic : Topic]

ASSUME ConstantsAssumption ==
    /\ Foreign \subseteq Topic
    /\ MaxIncarnation \in Nat \ {0}
    /\ NewerBinary \in BOOLEAN
    /\ NoToken \notin Token
    /\ NoFile \notin RoomsFile
    /\ NoRequest \notin Request
    /\ Claude \cap Accepter = {}

\* Processes that write a rooms.json: the MCP server of a Claude goes by its PID.
Writer == Claude \union Accepter
\* Processes that run prune_dead_pid_sessions.
Sweeper == {"hook", "mcp"} \X Claude
Steps == {"idle", "rename", "ensure", "add", "addwrite", "leavewrite"}

VARIABLES
    alive,        \* PIDs of running Claudes
    incarnation,  \* how many Claudes have had this PID
    rooms,        \* rooms.json of each PID
    pending,      \* the pending-join files
    live,         \* rooms with a running chat-daemon
    minted,       \* rooms hosted on this machine so far
    step, req, seen,   \* per writer: next step, its request, topics it has read
    todo, doomed,      \* per sweeper: PIDs to examine, PID found dead
    hook, unread,      \* per Claude: the hook's phase, the topics it will inject
    \* History, read by properties only:
    issued,       \* tokens handed out
    granted,      \* <<pid, topic>> accepted by the human or created by the PID
    shown,        \* <<pid, topic>> injected
    intent        \* topics the completed operations on the PID should leave bound

files == <<rooms, pending>>
world == <<alive, incarnation, live, minted>>
writers == <<step, req, seen>>
hooks == <<todo, doomed, hook, unread>>
history == <<issued, granted, shown, intent>>
vars == <<files, world, writers, hooks, history>>

TypeOK ==
    /\ alive \subseteq Claude
    /\ incarnation \in [Claude -> 0..MaxIncarnation]
    /\ \A p \in alive : incarnation[p] >= 1
    /\ rooms \in [Claude -> RoomsFile \union {NoFile}]
    /\ pending \subseteq PendingJoin
    /\ live \subseteq Topic
    /\ minted \subseteq Topic
    /\ step \in [Writer -> Steps]
    /\ req \in [Writer -> Request \union {NoRequest}]
    /\ \A w \in Writer : step[w] # "idle" => req[w] \in Request
    /\ seen \in [Writer -> SUBSET Topic]
    /\ todo \in [Sweeper -> SUBSET Claude]
    /\ doomed \in [Sweeper -> SUBSET Claude]
    /\ hook \in [Claude -> {"idle", "sweep", "filter", "inject"}]
    /\ unread \in [Claude -> SUBSET Topic]
    /\ issued \subseteq Token
    /\ granted \subseteq Claude \X Topic
    /\ shown \subseteq Claude \X Topic
    /\ intent \in [Claude -> SUBSET Topic]

Init ==
    /\ alive = {}
    /\ incarnation = [p \in Claude |-> 0]
    /\ rooms = [p \in Claude |-> NoFile]
    /\ pending = {}
    /\ live = {}
    /\ minted = {}
    /\ step = [w \in Writer |-> "idle"]
    /\ req = [w \in Writer |-> NoRequest]
    /\ seen = [w \in Writer |-> {}]
    /\ todo = [s \in Sweeper |-> {}]
    /\ doomed = [s \in Sweeper |-> {}]
    /\ hook = [p \in Claude |-> "idle"]
    /\ unread = [p \in Claude |-> {}]
    /\ issued = {}
    /\ granted = {}
    /\ shown = {}
    /\ intent = [p \in Claude |-> {}]

-----------------------------------------------------------------------------
\* Reading rooms.json

\* read_rooms_file succeeds: the file is there and of a version we know.
Readable(p) == rooms[p] # NoFile /\ rooms[p].v = StateVersion

\* What a caller that treats every error as "no rooms yet" gets.
TopicsOrEmpty(p) == IF Readable(p) THEN rooms[p].topics ELSE {}

\* add_topic's new content, from the topics it read.
WithTopic(topics, t) == [v |-> StateVersion, topics |-> topics \union {t}]

HasDir == {p \in Claude : rooms[p] # NoFile}
Swept(s) == todo[s] = {} /\ doomed[s] = {}

\* The MCP server of p is between two JSON-RPC requests.
ServerReady(p) == p \in alive /\ step[p] = "idle" /\ Swept(<<"mcp", p>>)

\* Writer w's call returns or its process ends: its local variables are gone.
Return(w) ==
    /\ step' = [step EXCEPT ![w] = "idle"]
    /\ req' = [req EXCEPT ![w] = NoRequest]
    /\ seen' = [seen EXCEPT ![w] = {}]

-----------------------------------------------------------------------------
\* Claude processes

\* A `claude` starts under PID p; its MCP server begins by sweeping.
ClaudeStart(p) ==
    /\ p \notin alive
    /\ incarnation[p] < MaxIncarnation
    /\ step[p] = "idle" /\ hook[p] = "idle" /\ Swept(<<"mcp", p>>)
    /\ alive' = alive \union {p}
    /\ incarnation' = [incarnation EXCEPT ![p] = @ + 1]
    /\ todo' = [todo EXCEPT ![<<"mcp", p>>] = HasDir]
    /\ UNCHANGED <<files, live, minted, writers, doomed, hook, unread,
                   issued, granted, shown, intent>>

\* Its MCP server and hook finish what they are doing; its files stay.
ClaudeExit(p) ==
    /\ p \in alive
    /\ alive' = alive \ {p}
    /\ UNCHANGED <<files, incarnation, live, minted, writers, hooks, history>>

\* A chat-daemon crashes or is stopped.
DaemonGone(t) ==
    /\ t \in live
    /\ live' = live \ {t}
    /\ UNCHANGED <<files, alive, incarnation, minted, writers, hooks, history>>

\* Another release, sharing the home directory, rewrites a rooms.json.
NewerBinaryWrites(p) ==
    /\ NewerBinary
    /\ Readable(p)
    /\ rooms' = [rooms EXCEPT ![p] = [v |-> 2, topics |-> @.topics]]
    /\ UNCHANGED <<pending, world, writers, hooks, history>>

-----------------------------------------------------------------------------
\* add_topic, shared by cc_create_room and accept: a read, then a rename.

AddRead(w) ==
    /\ step[w] = "add"
    /\ seen' = [seen EXCEPT ![w] = TopicsOrEmpty(req[w].claude_pid)]
    /\ step' = [step EXCEPT ![w] = "addwrite"]
    /\ UNCHANGED <<files, world, req, hooks, history>>

AddWrite(w) ==
    LET p == req[w].claude_pid
        t == req[w].topic
    IN  /\ step[w] = "addwrite"
        /\ rooms' = [rooms EXCEPT ![p] = WithTopic(seen[w], t)]
        /\ intent' = [intent EXCEPT ![p] = @ \union {t}]
        /\ Return(w)
        /\ UNCHANGED <<pending, world, hooks, issued, granted, shown>>

-----------------------------------------------------------------------------
\* The MCP tools of Claude p

\* cc_create_room: host-bg mints a room, a daemon starts, then add_topic.
CreateRoom(p, t) ==
    /\ ServerReady(p)
    /\ t \notin Foreign \union minted
    /\ minted' = minted \union {t}
    /\ live' = live \union {t}
    /\ granted' = granted \union {<<p, t>>}
    /\ req' = [req EXCEPT ![p] = [token |-> NoToken, claude_pid |-> p, topic |-> t]]
    /\ step' = [step EXCEPT ![p] = "add"]
    /\ UNCHANGED <<files, alive, incarnation, seen, hooks, issued, shown, intent>>

\* cc_join_room: a daemon starts and a request is filed under a fresh token.
JoinRoom(p, t, k) ==
    /\ ServerReady(p)
    /\ t \in Foreign \union minted
    /\ k \notin issued
    /\ live' = live \union {t}
    /\ issued' = issued \union {k}
    /\ pending' = pending \union {[token |-> k, claude_pid |-> p, topic |-> t]}
    /\ UNCHANGED <<rooms, alive, incarnation, minted, writers, hooks, granted,
                   shown, intent>>

\* cc_leave_room(topic): remove_topic reads; an unreadable file is an error and
\* a topic that is not there ends the call without a write.
LeaveRead(p, t) ==
    /\ ServerReady(p)
    /\ Readable(p) /\ t \in rooms[p].topics
    /\ seen' = [seen EXCEPT ![p] = rooms[p].topics]
    /\ req' = [req EXCEPT ![p] = [token |-> NoToken, claude_pid |-> p, topic |-> t]]
    /\ step' = [step EXCEPT ![p] = "leavewrite"]
    /\ UNCHANGED <<files, world, hooks, history>>

LeaveWrite(p) ==
    LET t == req[p].topic
    IN  /\ step[p] = "leavewrite"
        /\ rooms' = [rooms EXCEPT ![p] = [v |-> StateVersion, topics |-> seen[p] \ {t}]]
        /\ intent' = [intent EXCEPT ![p] = @ \ {t}]
        /\ Return(p)
        /\ UNCHANGED <<pending, world, hooks, issued, granted, shown>>

\* cc_leave_room(): remove_all_topics replaces an existing file unread.
LeaveAll(p) ==
    /\ ServerReady(p)
    /\ rooms[p] # NoFile
    /\ rooms' = [rooms EXCEPT ![p] = [v |-> StateVersion, topics |-> {}]]
    /\ intent' = [intent EXCEPT ![p] = {}]
    /\ UNCHANGED <<pending, world, writers, hooks, issued, granted, shown>>

-----------------------------------------------------------------------------
\* `cc-connect accept <token>` in slot a

\* consume_pending_join reads the file ...
AcceptRead(a) ==
    /\ step[a] = "idle"
    /\ \E r \in pending : req' = [req EXCEPT ![a] = r]
    /\ step' = [step EXCEPT ![a] = "rename"]
    /\ UNCHANGED <<files, world, seen, hooks, history>>

\* Mutant of CanConsume: the rename's error is ignored.
CanConsumeAnyway(r) == TRUE

\* The rename of r out of the way succeeds: the file is still there.
CanConsume(r) == r \in pending

\* ... and renames it away, which only one of the readers can do.
AcceptRename(a) ==
    LET r == req[a]
    IN  /\ step[a] = "rename"
        /\ CanConsume(r)
        /\ pending' = pending \ {r}
        /\ granted' = granted \union {<<r.claude_pid, r.topic>>}
        /\ step' = [step EXCEPT ![a] = "ensure"]
        /\ UNCHANGED <<rooms, world, req, seen, hooks, issued, shown, intent>>

\* The rename finds nothing: another accept was first.
AcceptTooLate(a) ==
    /\ step[a] = "rename"
    /\ ~CanConsume(req[a])
    /\ Return(a)
    /\ UNCHANGED <<files, world, hooks, history>>

\* chat_daemon::run_start finds or starts the daemon; then add_topic.
AcceptEnsure(a) ==
    /\ step[a] = "ensure"
    /\ live' = live \union {req[a].topic}
    /\ step' = [step EXCEPT ![a] = "add"]
    /\ UNCHANGED <<files, alive, incarnation, minted, req, seen, hooks, history>>

\* run_start fails, or the process is interrupted: the token is already gone.
AcceptAborts(a) ==
    /\ step[a] # "idle"
    /\ Return(a)
    /\ UNCHANGED <<files, world, hooks, history>>

-----------------------------------------------------------------------------
\* prune_dead_pid_sessions, by a hook or by a starting MCP server

\* Mutant of FoundDead: every answer of kill(pid, 0) counts as dead.
FoundDeadAnyway(q) == TRUE

\* pid_alive(q) is false: only ESRCH says so.
FoundDead(q) == q \notin alive

SweepCheck(s, q) ==
    /\ q \in todo[s] /\ doomed[s] = {}
    /\ todo' = [todo EXCEPT ![s] = @ \ {q}]
    /\ doomed' = [doomed EXCEPT ![s] = IF FoundDead(q) THEN {q} ELSE {}]
    /\ UNCHANGED <<files, world, writers, hook, unread, history>>

\* remove_dir_all, which may fail and then leaves q for the next sweep.
SweepRemove(s, q) ==
    /\ q \in doomed[s]
    /\ doomed' = [doomed EXCEPT ![s] = {}]
    /\ \/ /\ rooms' = [rooms EXCEPT ![q] = NoFile]
          /\ intent' = [intent EXCEPT ![q] = {}]
       \/ UNCHANGED <<rooms, intent>>
    /\ UNCHANGED <<pending, world, writers, todo, hook, unread, issued, granted,
                   shown>>

-----------------------------------------------------------------------------
\* The UserPromptSubmit hook of Claude p

HookStart(p) ==
    /\ p \in alive /\ hook[p] = "idle"
    /\ hook' = [hook EXCEPT ![p] = "sweep"]
    /\ todo' = [todo EXCEPT ![<<"hook", p>>] = HasDir]
    /\ UNCHANGED <<files, world, writers, doomed, unread, history>>

\* list_topics: no readable file, or an empty one, ends the hook.
HookBound(p) ==
    /\ hook[p] = "sweep" /\ Swept(<<"hook", p>>)
    /\ unread' = [unread EXCEPT ![p] = TopicsOrEmpty(p)]
    /\ hook' = [hook EXCEPT ![p] = IF TopicsOrEmpty(p) = {} THEN "idle" ELSE "filter"]
    /\ UNCHANGED <<files, world, writers, todo, doomed, history>>

\* Mutant of Injectable: active rooms are not filtered by rooms.json.
InjectableUnbound(p) == live

\* Of the rooms found bound, those served by a live daemon.
Injectable(p) == unread[p] \cap live

\* enumerate_active_rooms, and what it leaves of the bound rooms.
HookFilter(p) ==
    /\ hook[p] = "filter"
    /\ unread' = [unread EXCEPT ![p] = Injectable(p)]
    /\ hook' = [hook EXCEPT ![p] = IF Injectable(p) = {} THEN "idle" ELSE "inject"]
    /\ UNCHANGED <<files, world, writers, todo, doomed, history>>

HookInject(p) ==
    /\ hook[p] = "inject"
    /\ shown' = shown \union ({p} \X unread[p])
    /\ unread' = [unread EXCEPT ![p] = {}]
    /\ hook' = [hook EXCEPT ![p] = "idle"]
    /\ UNCHANGED <<files, world, writers, todo, doomed, issued, granted, intent>>

-----------------------------------------------------------------------------
Next ==
    \/ \E p \in Claude :
          \/ ClaudeStart(p) \/ ClaudeExit(p) \/ NewerBinaryWrites(p)
          \/ \E t \in Topic : CreateRoom(p, t) \/ LeaveRead(p, t)
          \/ \E t \in Topic, k \in Token : JoinRoom(p, t, k)
          \/ LeaveWrite(p) \/ LeaveAll(p)
          \/ HookStart(p) \/ HookBound(p) \/ HookFilter(p) \/ HookInject(p)
    \/ \E t \in Topic : DaemonGone(t)
    \/ \E w \in Writer : AddRead(w) \/ AddWrite(w)
    \/ \E a \in Accepter :
          \/ AcceptRead(a) \/ AcceptRename(a) \/ AcceptTooLate(a)
          \/ AcceptEnsure(a) \/ AcceptAborts(a)
    \/ \E s \in Sweeper, q \in Claude : SweepCheck(s, q) \/ SweepRemove(s, q)

Spec == Init /\ [][Next]_vars
-----------------------------------------------------------------------------
\* Properties

\* The abstract gate, with the directory of pending files as its open requests.
Gate == INSTANCE Consent WITH
            asked <- {<<r.token, r.claude_pid, r.topic>> : r \in pending}

\* The files and processes implement the gate: whatever the interleaving of MCP
\* servers, accepts, sweeps and hooks, a token is granted once, for what it asked,
\* and a hook injects nothing into a Claude but rooms granted to its PID
\* (session_state.rs, accept.rs, the hook's rooms.json gate).
ImplementsConsent == Gate!Spec

\* Every binding on disk, and every topic list a writer or a hook still holds in
\* memory from an earlier read, was granted to that very PID: a stale
\* read-modify-write can lose or revive a binding, never invent one.
GrantedTopics(p) == {t \in Topic : <<p, t>> \in granted}

BindingsGranted ==
    /\ \A p \in Claude : step[p] # "idle" => req[p].claude_pid = p
    /\ \A p \in Claude : rooms[p] # NoFile => rooms[p].topics \subseteq GrantedTopics(p)
    /\ \A p \in Claude : unread[p] \subseteq GrantedTopics(p)
    /\ \A w \in Writer : step[w] \in {"addwrite", "leavewrite"} =>
          seen[w] \subseteq GrantedTopics(req[w].claude_pid)
    /\ \A w \in Writer : step[w] \in {"ensure", "add", "addwrite"} =>
          req[w].topic \in GrantedTopics(req[w].claude_pid)

\* Two accepts of one token never both get past the rename, and a token past it
\* has no pending file left (consume_pending_join: "only one caller can
\* successfully consume").
Consumed == {"ensure", "add", "addwrite"}

SingleWinner ==
    \A a \in Accepter : step[a] \in Consumed =>
        /\ req[a] \notin pending
        /\ \A b \in Accepter \ {a} : step[b] \in Consumed => req[b].token # req[a].token

\* No sweep takes the bindings of a Claude that is running and the first with its PID
\* (prune_dead_pid_sessions checks kill(pid, 0) before remove_dir_all): what it found
\* dead stays dead until it is removed, unless the PID is given away in between.
SweepSparesTheLiving ==
    [][\A p \in alive : incarnation[p] = 1 /\ rooms[p] # NoFile => rooms'[p] # NoFile]_vars

\* A binding an accept reported is not lost while nobody left the room
\* (accept.rs: "From this point the hook will inject this Room's chat").
AcceptedStaysBound == \A p \in Claude : intent[p] \subseteq TopicsOrEmpty(p)
=============================================================================

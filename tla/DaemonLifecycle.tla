-------------------------- MODULE DaemonLifecycle --------------------------
(***************************************************************************)
(* The chat-daemons of one room and the processes around them:             *)
(*   - `chat-daemon start` looks for a live daemon in chat-daemon.pid,     *)
(*     spawns one and waits for its READY line;                            *)
(*   - a daemon runs two tasks: its main task writes chat-daemon.pid,      *)
(*     prints READY and waits for SIGTERM; its chat session joins the room *)
(*     and then writes <topic>.active, which makes the hook inject it;     *)
(*   - `chat-daemon list` and the prompt hook sweep the two files;         *)
(*   - `chat-daemon stop` signals the daemon and waits for its file to go. *)
(* Both files are written with fs::write (truncate, then fill) and neither *)
(* is locked, so every access to a file is a step of its own.              *)
(***************************************************************************)
EXTENDS Naturals, FiniteSets

CONSTANTS
    Daemon,     \* bound: the daemon processes there can be; PIDs are not reused
    Starter, Lister, Stopper, Hook,   \* slots for concurrent processes
    Fault,      \* what can go wrong, of FaultKind
    MaxFaults,  \* bound: how often
    NoFile, Torn, NoDaemon

FaultKind == {"crash", "session", "timeout", "launcher"}
File == {"pid", "active"}
Client == Starter \union Lister \union Stopper \union Hook

ASSUME ConstantsAssumption ==
    /\ Fault \subseteq FaultKind
    /\ MaxFaults \in Nat
    /\ NoFile \notin Daemon /\ Torn \notin Daemon /\ NoDaemon \notin Daemon
    /\ NoFile # Torn
    /\ Starter \cap (Lister \union Stopper \union Hook) = {}
    /\ Lister \cap (Stopper \union Hook) = {}
    /\ Stopper \cap Hook = {}

VARIABLES
    file,       \* chat-daemon.pid and <topic>.active: the PID in them, or Torn
    fds,        \* per file: daemons holding its inode open to fill it
    main, sess, \* per daemon: phase of its main task and of its chat session
    signalled,  \* daemons with a SIGTERM to handle
    phase, seen,\* per client: what it does next, the PID it has read
    child,      \* per starter: the daemon it spawned and waits for
    heard,      \* starters whose pipe holds the READY line
    faults      \* faults so far

files == <<file, fds>>
daemons == <<main, sess, signalled>>
clients == <<phase, seen, child, heard>>
vars == <<files, daemons, clients, faults>>

MainPhase == {"unborn", "boot", "open", "filled", "ready", "park", "drain",
              "leave", "gone"}
SessPhase == {"off", "join", "mark", "up", "over"}
ClientPhase == {"idle", "read", "probe", "sweep", "spawn", "wait", "signal", "poll"}

TypeOK ==
    /\ file \in [File -> Daemon \union {NoFile, Torn}]
    /\ fds \in [File -> SUBSET Daemon]
    /\ main \in [Daemon -> MainPhase]
    /\ sess \in [Daemon -> SessPhase]
    /\ signalled \subseteq Daemon
    /\ phase \in [Client -> ClientPhase]
    /\ \A c \in Lister \union Hook : phase[c] \in {"idle", "read", "probe", "sweep"}
    /\ \A c \in Stopper : phase[c] \in {"idle", "signal", "poll"}
    /\ seen \in [Client -> Daemon \union {NoDaemon}]
    /\ \A c \in Client : phase[c] \in {"probe", "signal", "poll"} => seen[c] \in Daemon
    /\ child \in [Starter -> Daemon \union {NoDaemon}]
    /\ \A s \in Starter : phase[s] = "wait" => child[s] \in Daemon
    /\ heard \subseteq Starter
    /\ faults \in 0..MaxFaults

Init ==
    /\ file = [f \in File |-> NoFile]
    /\ fds = [f \in File |-> {}]
    /\ main = [d \in Daemon |-> "unborn"]
    /\ sess = [d \in Daemon |-> "off"]
    /\ signalled = {}
    /\ phase = [c \in Client |-> "idle"]
    /\ seen = [c \in Client |-> NoDaemon]
    /\ child = [s \in Starter |-> NoDaemon]
    /\ heard = {}
    /\ faults = 0

-----------------------------------------------------------------------------
\* Files and processes

\* fs::write, first half: the file is created, or the existing one truncated.
Truncate(d, f) ==
    /\ file' = [file EXCEPT ![f] = Torn]
    /\ fds' = [fds EXCEPT ![f] = IF file[f] = NoFile THEN {d} ELSE @ \union {d}]

\* Second half: the content goes to the inode opened, which may be unlinked by now.
Fill(d, f) ==
    /\ file' = [file EXCEPT ![f] = IF d \in fds[f] THEN d ELSE @]
    /\ fds' = [fds EXCEPT ![f] = @ \ {d}]

Unlink(f) ==
    /\ file' = [file EXCEPT ![f] = NoFile]
    /\ fds' = [fds EXCEPT ![f] = {}]

Running(d) == main[d] \notin {"unborn", "gone"}

\* Mutants of Exists: any answer of kill(d, 0) counts as alive; none does.
ExistsAnyway(d) == TRUE
ExistsNever(d) == FALSE

\* kill(d, 0) succeeds: d runs, or its exit has not been waited for by its parent.
Exists(d) == Running(d) \/ \E s \in Starter : child[s] = d

\* The process of d ends; destructors run unless it was killed.
Ends(d) ==
    /\ main' = [main EXCEPT ![d] = "gone"]
    /\ sess' = [sess EXCEPT ![d] = "off"]
    /\ signalled' = signalled \ {d}

FaultOf(kind) ==
    /\ kind \in Fault
    /\ faults < MaxFaults
    /\ faults' = faults + 1

-----------------------------------------------------------------------------
\* The main task of daemon d (daemon_async)

OpenPidFile(d) ==
    /\ main[d] = "boot"
    /\ Truncate(d, "pid")
    /\ main' = [main EXCEPT ![d] = "open"]
    /\ UNCHANGED <<sess, signalled, clients, faults>>

FillPidFile(d) ==
    /\ main[d] = "open"
    /\ Fill(d, "pid")
    /\ main' = [main EXCEPT ![d] = "filled"]
    /\ UNCHANGED <<sess, signalled, clients, faults>>

\* Mutant of MayAnnounce: READY is printed before the file is written.
MayAnnounceEarly(d) == main[d] \in {"boot", "open"}

\* READY is printed once the PID file is written.
MayAnnounce(d) == main[d] = "filled"

PrintReady(d) ==
    /\ MayAnnounce(d)
    /\ \E s \in Starter : child[s] = d /\ heard' = heard \union {s}
    /\ main' = [main EXCEPT ![d] = "ready"]
    /\ UNCHANGED <<files, sess, signalled, phase, seen, child, faults>>

\* Mutant of HasGuard: PidFileGuard has no destructor.
HasGuardNever(d) == FALSE

\* d's PidFileGuard exists; its Drop unlinks the path, whoever's PID is in it.
HasGuard(d) == sess[d] = "up"

\* The launcher is gone and its pipe closed: daemon_async returns the error and
\* the runtime, going down, drops the session and its guards.
ReadyFails(d) ==
    /\ MayAnnounce(d)
    /\ \A s \in Starter : child[s] # d
    /\ sess[d] # "mark"    \* the runtime waits for a write that has begun
    /\ IF HasGuard(d) THEN Unlink("active") ELSE UNCHANGED files
    /\ Ends(d)
    /\ UNCHANGED <<clients, faults>>

\* The SIGTERM and SIGINT handlers are installed.
Park(d) ==
    /\ main[d] = "ready"
    /\ main' = [main EXCEPT ![d] = "park"]
    /\ UNCHANGED <<files, sess, signalled, clients, faults>>

\* Mutant of Withdraw: the PID file is left for others to sweep.
WithdrawNever(d) == UNCHANGED files

\* The PID file is removed, whoever's PID is in it.
Withdraw(d) == Unlink("pid")

\* The session ended by itself: d removes its PID file ...
JoinReturns(d) ==
    /\ main[d] = "park" /\ sess[d] = "over"
    /\ Withdraw(d)
    /\ main' = [main EXCEPT ![d] = "leave"]
    /\ UNCHANGED <<sess, signalled, clients, faults>>

\* ... or SIGTERM is handled: input_tx is dropped and the session awaited.
TakeSignal(d) ==
    /\ main[d] = "park" /\ d \in signalled
    /\ Withdraw(d)
    /\ main' = [main EXCEPT ![d] = "drain"]
    /\ UNCHANGED <<sess, signalled, clients, faults>>

\* The process exits; a draining one only after its session.
ExitDaemon(d) ==
    /\ \/ main[d] = "leave"
       \/ main[d] = "drain" /\ sess[d] = "over"
    /\ Ends(d)
    /\ UNCHANGED <<files, clients, faults>>

-----------------------------------------------------------------------------
\* The chat session of daemon d (run_session).  Dropping input_tx does not end
\* it: it owns local_input_tx, another sender of the channel it reads.

\* PidFileGuard::new: <topic>.active is written, after the join and the backfill.
MarkActive(d) ==
    /\ sess[d] = "join"
    /\ Truncate(d, "active")
    /\ sess' = [sess EXCEPT ![d] = "mark"]
    /\ UNCHANGED <<main, signalled, clients, faults>>

SessionUp(d) ==
    /\ sess[d] = "mark"
    /\ Fill(d, "active")
    /\ sess' = [sess EXCEPT ![d] = "up"]
    /\ UNCHANGED <<main, signalled, clients, faults>>

\* run_session returns an error (no relay, a log that cannot be read or written,
\* a message that cannot be built, ...).
SessionFails(d) ==
    /\ FaultOf("session")
    /\ sess[d] \in {"join", "mark", "up"}
    /\ IF HasGuard(d) THEN Unlink("active")
       ELSE file' = file /\ fds' = [fds EXCEPT !["active"] = @ \ {d}]
    /\ sess' = [sess EXCEPT ![d] = "over"]
    /\ UNCHANGED <<main, signalled, clients>>

\* SIGKILL, a panic that aborts, a reboot.
Crash(d) ==
    /\ FaultOf("crash")
    /\ Running(d)
    /\ fds' = [f \in File |-> fds[f] \ {d}]
    /\ Ends(d)
    /\ UNCHANGED <<file, clients>>

-----------------------------------------------------------------------------
\* Looking at a PID file: lookup_alive_for_topic for a starter, list_running for a
\* lister, enumerate_active_rooms for a hook

Watcher == Starter \union Lister \union Hook
Watched(c) == IF c \in Hook THEN "active" ELSE "pid"

\* Where c goes once it knows that there is no daemon.
Afterwards(c) == IF c \in Starter THEN "spawn" ELSE "idle"

Goto(c, p) == phase' = [phase EXCEPT ![c] = p]
Forget(c) == seen' = [seen EXCEPT ![c] = NoDaemon]

\* The path is probed, or the directory listed.
Look(c) ==
    /\ phase[c] = "idle"
    /\ \/ file[Watched(c)] = NoFile /\ c \in Starter /\ Goto(c, "spawn")
       \/ file[Watched(c)] # NoFile /\ Goto(c, "read")
    /\ UNCHANGED <<files, daemons, seen, child, heard, faults>>

\* A file that cannot be read or parsed is swept like a dead one's.
ReadFile(c) ==
    /\ phase[c] = "read"
    /\ \/ /\ file[Watched(c)] \in Daemon
          /\ seen' = [seen EXCEPT ![c] = file[Watched(c)]]
          /\ Goto(c, "probe")
       \/ /\ file[Watched(c)] \notin Daemon
          /\ Goto(c, "sweep")
          /\ UNCHANGED seen
    /\ UNCHANGED <<files, daemons, child, heard, faults>>

\* Signal 0.  For a starter that finds its daemon alive: ALREADY.
Probe(c) ==
    /\ phase[c] = "probe"
    /\ Goto(c, IF Exists(seen[c]) THEN "idle" ELSE "sweep")
    /\ Forget(c)
    /\ UNCHANGED <<files, daemons, child, heard, faults>>

\* Whatever is at the path by now is unlinked.
Sweep(c) ==
    /\ phase[c] = "sweep"
    /\ Unlink(Watched(c))
    /\ Goto(c, Afterwards(c))
    /\ UNCHANGED <<daemons, seen, child, heard, faults>>

-----------------------------------------------------------------------------
\* The rest of `chat-daemon start` (run_start)

Spawn(s, d) ==
    /\ phase[s] = "spawn"
    /\ main[d] = "unborn"
    /\ main' = [main EXCEPT ![d] = "boot"]
    /\ sess' = [sess EXCEPT ![d] = "join"]
    /\ child' = [child EXCEPT ![s] = d]
    /\ Goto(s, "wait")
    /\ UNCHANGED <<files, signalled, seen, heard, faults>>

StarterReturns(s) ==
    /\ Goto(s, "idle")
    /\ child' = [child EXCEPT ![s] = NoDaemon]
    /\ heard' = heard \ {s}

\* READY is read, or the end of the pipe of a daemon that is gone.
StartAnswered(s) ==
    /\ phase[s] = "wait"
    /\ s \in heard \/ main[child[s]] = "gone"
    /\ StarterReturns(s)
    /\ UNCHANGED <<files, daemons, seen, faults>>

\* Child::kill.
Abandoned(d) ==
    /\ fds' = [f \in File |-> fds[f] \ {d}]
    /\ Ends(d)

\* READY_TIMEOUT passes first.
StartTimesOut(s) ==
    /\ FaultOf("timeout")
    /\ phase[s] = "wait" /\ s \notin heard
    /\ Abandoned(child[s])
    /\ StarterReturns(s)
    /\ UNCHANGED <<file, seen>>

\* The launcher is killed, as the MCP server does after 15 s; the daemon is not.
StarterDies(s) ==
    /\ FaultOf("launcher")
    /\ phase[s] # "idle"
    /\ StarterReturns(s)
    /\ Forget(s)
    /\ UNCHANGED <<files, daemons>>

-----------------------------------------------------------------------------
\* `chat-daemon stop` (run_stop)

StopRead(k) ==
    /\ phase[k] = "idle"
    /\ file["pid"] \in Daemon
    /\ seen' = [seen EXCEPT ![k] = file["pid"]]
    /\ Goto(k, "signal")
    /\ UNCHANGED <<files, daemons, child, heard, faults>>

\* ESRCH: the file is removed.
StopFindsNone(k) ==
    /\ phase[k] = "signal" /\ ~Exists(seen[k])
    /\ Unlink("pid")
    /\ Goto(k, "idle") /\ Forget(k)
    /\ UNCHANGED <<daemons, child, heard, faults>>

\* SIGTERM kills a daemon that has not installed its handlers.
StopSignals(k) ==
    LET d == seen[k]
    IN  /\ phase[k] = "signal" /\ Exists(d)
        /\ \/ /\ main[d] \in {"park", "drain", "leave"}
              /\ signalled' = signalled \union {d}
              /\ UNCHANGED <<fds, main, sess>>
           \/ /\ main[d] \notin {"park", "drain", "leave"}
              /\ fds' = [f \in File |-> fds[f] \ {d}]
              /\ Ends(d)
        /\ Goto(k, "poll")
        /\ UNCHANGED <<file, seen, child, heard, faults>>

\* The file is seen gone: "daemon stopped".
StopSees(k) ==
    /\ phase[k] = "poll" /\ file["pid"] = NoFile
    /\ Goto(k, "idle") /\ Forget(k)
    /\ UNCHANGED <<files, daemons, child, heard, faults>>

\* STOP_WAIT passes: the file there now is removed.
StopForces(k) ==
    /\ phase[k] = "poll"
    /\ Unlink("pid")
    /\ Goto(k, "idle") /\ Forget(k)
    /\ UNCHANGED <<daemons, child, heard, faults>>

-----------------------------------------------------------------------------
DaemonStep(d) ==
    \/ OpenPidFile(d) \/ FillPidFile(d) \/ PrintReady(d) \/ ReadyFails(d)
    \/ Park(d) \/ JoinReturns(d) \/ TakeSignal(d) \/ ExitDaemon(d)

SessionStep(d) == MarkActive(d) \/ SessionUp(d)

ClientStep(c) ==
    \/ c \in Watcher /\ (ReadFile(c) \/ Probe(c) \/ Sweep(c))
    \/ c \in Starter /\ (StartAnswered(c) \/ \E d \in Daemon : Spawn(c, d))
    \/ c \in Stopper /\ (StopFindsNone(c) \/ StopSignals(c) \/ StopSees(c) \/ StopForces(c))

Next ==
    \/ \E d \in Daemon : DaemonStep(d) \/ SessionStep(d) \/ SessionFails(d) \/ Crash(d)
    \/ \E c \in Client : ClientStep(c)
    \/ \E c \in Watcher : Look(c)
    \/ \E s \in Starter : StartTimesOut(s) \/ StarterDies(s)
    \/ \E k \in Stopper : StopRead(k)

Spec == Init /\ [][Next]_vars

\* Processes that run go on, and users keep running `chat-daemon start`.
FairSpec ==
    /\ Spec
    /\ \A d \in Daemon : WF_vars(DaemonStep(d)) /\ WF_vars(SessionStep(d))
    /\ \A c \in Client : WF_vars(ClientStep(c))
    /\ \A s \in Starter : WF_vars(Look(s))
-----------------------------------------------------------------------------
\* Properties

\* Where <topic>.active names a running daemon, that daemon's session has joined,
\* backfilled and not ended: the hook never injects from a room that is not ready
\* (PidFileGuard is made after the backfill and dropped with the session), however
\* many daemons share and unlink the path.
ActiveMeansUp == \A d \in Daemon : file["active"] = d /\ Running(d) => sess[d] = "up"

\* Where chat-daemon.pid names a running daemon, that daemon has not begun to shut
\* down: a later start never reads the PID of a daemon that is draining.
ListedMeansServing ==
    \A d \in Daemon : file["pid"] = d /\ Running(d) => main[d] \in {"filled", "ready", "park"}

\* No two daemons are in the room at once (chat_daemon.rs: "without spawning a
\* duplicate").  Starts made one after the other keep to it whatever crashes, fails or
\* times out in between, since the PID file is written before READY and the child of a
\* start that gives up is killed; two starts that overlap do not.
InRoom(d) == sess[d] \in {"join", "mark", "up"}

SoleSession == \A d, e \in Daemon : InRoom(d) /\ InRoom(e) => d = e

\* Users who keep running `chat-daemon start` end up with a daemon that is listed
\* and that the hook sees, whatever torn or stale files the faults left behind.
Serving(d) ==
    /\ main[d] = "park" /\ sess[d] = "up"
    /\ file["pid"] = d /\ file["active"] = d

Served == <>[](\E d \in Daemon : Serving(d))

\* Every daemon that waits for its SIGTERM is in the PID file, where list and stop
\* look for it (chat_daemon.rs: list prints "one line per running daemon"), as long as
\* starts come one after the other and nobody sweeps a file that is being written.
ParkedIsListed ==
    \A d \in Daemon : main[d] = "park" /\ sess[d] = "up" => file["pid"] = d

\* A daemon that takes its SIGTERM exits (ChatHandle::input_tx: "Closing this (drop)
\* makes the session exit cleanly").
DrainEnds == \A d \in Daemon : main[d] = "drain" ~> main[d] = "gone"
=============================================================================

------------------------------- MODULE Machine -------------------------------
(***************************************************************************)
(* One machine: the sessions of a room with their sockets (IpcSocket), the *)
(* host-bg daemons (HostBg), and `cc-connect clear [--purge]`, which stops *)
(* the daemons, then deletes their files: the rooms, and with them the     *)
(* marker of the socket, then the sockets (lifecycle.rs).                  *)
(*                                                                         *)
(* The chat-daemons that clear stops are sessions that end; they may do so *)
(* at any time here, and may outlive the ten seconds they are given.       *)
(***************************************************************************)
EXTENDS Naturals, FiniteSets

CONSTANTS
    Session, Path, NoPath, MaxSweeps,   \* of IpcSocket
    Host, NoHost,                       \* of HostBg; nobody
    Apart     \* bound: no sessions beside hosts, with which they share no file

ASSUME MachineAssumption ==
    /\ Path \subseteq Nat /\ NoPath \notin Path
    /\ MaxSweeps \in Nat
    /\ NoHost \notin Host
    /\ Apart \in BOOLEAN

VARIABLES
    sess, task, own, new, sockets, tree, marker, sweeps, solo, bound, cut,
    starter, daemon, file, term, lister, stopper, swept,
    clear,       \* where `clear` is
    purge,       \* was it asked to purge?
    todo,        \* hosts it has yet to stop
    doing        \* the one it is stopping

sockVars == <<sess, task, own, new, sockets, tree, marker, sweeps, solo, bound, cut>>
hostVars == <<starter, daemon, file, term, lister, stopper, swept>>
clearVars == <<clear, purge, todo, doing>>
vars == <<sockVars, hostVars, clearVars>>

Sock == INSTANCE IpcSocket
Hosts == INSTANCE HostBg

TypeOK ==
    /\ Sock!TypeOK
    /\ Hosts!TypeOK
    /\ clear \in {"idle", "hosts", "rooms", "tmp", "done", "failed"}
    /\ purge \in BOOLEAN
    /\ todo \subseteq Host
    /\ doing \in Host \union {NoHost}
    /\ clear # "hosts" => todo = {} /\ doing = NoHost

Init ==
    /\ Sock!Init
    /\ Hosts!Init
    /\ clear = "idle"
    /\ purge = FALSE
    /\ todo = {}
    /\ doing = NoHost

-----------------------------------------------------------------------------
\* run_clear

\* The hosts that list_running shows.
ClearStarts ==
    /\ clear = "idle"
    /\ clear' = "hosts"
    /\ purge' \in BOOLEAN
    /\ todo' = {h \in Host : file[h] = "full" /\ Hosts!Alive(h)}
    /\ UNCHANGED <<sockVars, hostVars, doing>>

\* They are stopped one after the other; an error is kept for the end.
ClearStops(h) ==
    /\ doing = NoHost /\ h \in todo
    /\ todo' = todo \ {h}
    /\ IF file[h] = "full"
       THEN Hosts!Stop(h) /\ doing' = h
       ELSE UNCHANGED <<hostVars, doing>>
    /\ UNCHANGED <<sockVars, clear, purge>>

ClearStopped ==
    /\ doing # NoHost
    /\ stopper[doing] \notin {"signal", "poll"}
    /\ doing' = NoHost
    /\ UNCHANGED <<sockVars, hostVars, clear, purge, todo>>

\* Mutant of After: the sockets first.
AfterSwapped(step) ==
    CASE step = "hosts" -> IF purge THEN "tmp" ELSE "done"
      [] step = "tmp" -> "rooms"
      [] step = "rooms" -> "done"

\* What comes after a step.
After(step) ==
    CASE step = "hosts" -> IF purge THEN "rooms" ELSE "done"
      [] step = "rooms" -> "tmp"
      [] step = "tmp" -> "done"

ClearGoesOn ==
    /\ clear = "hosts" /\ todo = {} /\ doing = NoHost
    /\ clear' = After("hosts")
    /\ UNCHANGED <<sockVars, hostVars, purge, todo, doing>>

\* The rooms are deleted, or some of them: a daemon that writes while its directory
\* is deleted makes it fail, and nothing more is deleted then.
ClearRooms ==
    /\ clear = "rooms"
    /\ \/ Sock!WipeMarker /\ clear' \in {After("rooms"), "failed"}
       \/ clear' = "failed" /\ UNCHANGED sockVars
    /\ UNCHANGED <<hostVars, purge, todo, doing>>

\* purge_tmp_uid_dir
ClearTmp ==
    /\ clear = "tmp"
    /\ Sock!WipeSockets
    /\ clear' = After("tmp")
    /\ UNCHANGED <<hostVars, purge, todo, doing>>

Clear ==
    \/ ClearStarts \/ ClearStopped \/ ClearGoesOn \/ ClearRooms \/ ClearTmp
    \/ \E h \in Host : ClearStops(h)

Next ==
    \/ /\ Apart => \A h \in Host : starter[h] = "none"
       /\ Sock!Next
       /\ UNCHANGED <<hostVars, clearVars>>
    \/ /\ Apart => \A s \in Session : sess[s] = "off"
       /\ Hosts!Next
       /\ UNCHANGED <<sockVars, clearVars>>
    \/ Clear

\* Of all the tasks, only those that serve a socket are promised to run on.
Serve(s) ==
    /\ Sock!Rebind(s) \/ \E p \in Path : Sock!Watch(s, p)
    /\ UNCHANGED <<hostVars, clearVars>>

Spec == Init /\ [][Next]_vars /\ \A s \in Session : WF_vars(Serve(s))
-----------------------------------------------------------------------------
\* Properties

\* The ends of sessions leave no socket files behind, swept and cleared as they may
\* be in between (the watchdog swaps the guard's paths: "otherwise a rebind would leak
\* the new socket file").
NothingLeaked == Sock!NothingLeaked

\* A session of a room never takes away the socket of another.
OwnSocketOnly == Sock!OwnSocketOnly

\* A session that is up with its IPC server, alone in its room from its start, is
\* reachable in the end: whatever the sweeps and a `clear --purge` that came through
\* deleted, and at whatever point of its own start or rebind, the watchdog repairs.
ReachableAtLast ==
    \A s \in Session :
        <>[](s \in solo /\ sess[s] = "up" /\ task[s] # "none" /\ clear \in {"idle", "done"})
            => <>[]Sock!Reachable(s)

\* A `host-bg start` that fails leaves no daemon behind, however late its READY is.
FailedLeavesNone == Hosts!FailedLeavesNone

\* A `host-bg start` that succeeds leaves a daemon that list shows and stop can stop.
ReadyIsListed == Hosts!ReadyIsListed

\* `host-bg stop`, and clear with it, tells the truth about a daemon that is gone.
StoppedIsGone == Hosts!StoppedIsGone
=============================================================================

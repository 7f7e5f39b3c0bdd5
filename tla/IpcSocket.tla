------------------------------ MODULE IpcSocket ------------------------------
(***************************************************************************)
(* How the chat sessions of one room on one machine are reached            *)
(* (chat_session.rs).  A session binds a Unix socket at a random path      *)
(* under /tmp and writes that path into the room's marker, chat.sock; a    *)
(* client reads the marker and connects.  A watchdog in the task that      *)
(* serves the socket binds another when the file is gone.  The marker is   *)
(* one for all sessions of the room: a daemon's, and those of the TUI.     *)
(*                                                                         *)
(* The files can go at any time: the system sweeps /tmp, and `cc-connect   *)
(* clear --purge` (Machine) deletes rooms and sockets.                     *)
(***************************************************************************)
EXTENDS Naturals, FiniteSets

CONSTANTS
    Session,     \* bound: the sessions there can be
    Path,        \* bound: paths of sockets
    NoPath,      \* no file, or none in hand
    MaxSweeps    \* bound: sweeps of /tmp

VARIABLES
    sess,      \* per session: "off", "up", "over"
    task,      \* per session: its IPC server task
    own,       \* per session: the socket of its IpcSocketGuard
    new,       \* per session: the path drawn for a bind to come
    sockets,   \* socket files
    tree,      \* does the directory of the sockets exist?
    marker,    \* what chat.sock says
    sweeps,    \* sweeps of /tmp so far
    \* History:
    solo,      \* sessions that no other session of the room met or followed
    bound,     \* per session that was not killed: the path it bound last
    cut        \* sessions that ended in the middle of a rebind

files == <<sockets, tree, marker>>
history == <<solo, bound, cut>>
vars == <<sess, task, own, new, files, sweeps, history>>

TypeOK ==
    /\ sess \in [Session -> {"off", "up", "over"}]
    /\ task \in [Session -> {"none", "serving", "rebinding"}]
    /\ own \in [Session -> Path \union {NoPath}]
    /\ new \in [Session -> Path \union {NoPath}]
    /\ sockets \subseteq Path
    /\ tree \in BOOLEAN
    /\ marker \in Path \union {NoPath}
    /\ sweeps \in 0..MaxSweeps
    /\ solo \subseteq Session /\ cut \subseteq Session
    /\ bound \in [Session -> Path \union {NoPath}]
    /\ ~tree => sockets = {}
    /\ \A s \in Session :
          /\ task[s] = "rebinding" => new[s] # NoPath
          /\ new[s] # NoPath => task[s] = "rebinding" \/ (sess[s] = "up" /\ task[s] = "none")
          /\ sess[s] = "off" => own[s] = NoPath /\ task[s] = "none"

Init ==
    /\ sess = [s \in Session |-> "off"]
    /\ task = [s \in Session |-> "none"]
    /\ own = [s \in Session |-> NoPath]
    /\ new = [s \in Session |-> NoPath]
    /\ sockets = {} /\ tree = FALSE /\ marker = NoPath
    /\ sweeps = 0
    /\ solo = {} /\ cut = {} /\ bound = [s \in Session |-> NoPath]

-----------------------------------------------------------------------------
\* Mutant of InUse: the path is one for all sessions.
InUseFixed(p) == p # CHOOSE q \in Path : TRUE

InUse(p) == p \in sockets \union {marker} \/ \E s \in Session : p \in {own[s], new[s]}

\* ipc_socket_path: a path that nobody has, as 32 random bits are taken to be (which
\* one is all the same: the least); the directories are made if need be, and the
\* marker names the path before it is bound.
Draw(s, p) ==
    /\ p \in Path /\ ~InUse(p)
    /\ \A q \in Path : q < p => InUse(q)
    /\ new' = [new EXCEPT ![s] = p]
    /\ marker' = p
    /\ tree' = TRUE

\* A session gets that far.
Open(s, p) ==
    /\ sess[s] = "off"
    /\ Draw(s, p)
    /\ sess' = [sess EXCEPT ![s] = "up"]
    /\ own' = [own EXCEPT ![s] = p]
    /\ solo' = IF \A t \in Session : sess[t] # "up" /\ task[t] = "none" THEN {s} ELSE {}
    /\ UNCHANGED <<task, sockets, sweeps, bound, cut>>

\* The socket is bound, or the directory is gone: then there is no IPC server.
Bind(s) ==
    /\ sess[s] = "up" /\ task[s] = "none" /\ new[s] # NoPath
    /\ new' = [new EXCEPT ![s] = NoPath]
    /\ sockets' = IF tree THEN sockets \union {new[s]} ELSE sockets
    /\ bound' = IF tree THEN [bound EXCEPT ![s] = new[s]] ELSE bound
    /\ task' = [task EXCEPT ![s] = IF tree THEN "serving" ELSE "none"]
    /\ UNCHANGED <<sess, own, tree, marker, sweeps, solo, cut>>

\* The watchdog finds its socket gone and draws a new path.
Watch(s, p) ==
    /\ task[s] = "serving" /\ own[s] \notin sockets
    /\ Draw(s, p)
    /\ task' = [task EXCEPT ![s] = "rebinding"]
    /\ UNCHANGED <<sess, own, sockets, sweeps, history>>

\* Mutant of Published: the guard keeps the path it was made with.
PublishedOnce(s) == own

\* The guard's pair is swapped for the new one.
Published(s) == [own EXCEPT ![s] = new[s]]

\* rebind_ipc_listener binds it, or fails, and the watchdog tries again.  A task
\* that was aborted meanwhile ends here.
Rebind(s) ==
    /\ task[s] = "rebinding"
    /\ IF tree THEN /\ sockets' = sockets \union {new[s]}
                    /\ own' = Published(s)
                    /\ bound' = [bound EXCEPT ![s] = new[s]]
               ELSE UNCHANGED <<sockets, own, bound>>
    /\ new' = [new EXCEPT ![s] = NoPath]
    /\ task' = [task EXCEPT ![s] = IF s \in cut THEN "none" ELSE "serving"]
    /\ UNCHANGED <<sess, tree, marker, sweeps, solo, cut>>

-----------------------------------------------------------------------------
\* IpcSocketGuard::drop: the socket and the marker go, whoever wrote the marker.
Drop(s) ==
    /\ sockets' = sockets \ {own[s]}
    /\ marker' = NoPath
    /\ UNCHANGED tree

\* Nothing is awaited between the marker and the first bind.
Opened(s) == sess[s] = "up" /\ (task[s] = "none" => new[s] = NoPath)

\* The session ends, and its task is aborted; a bind that is running is not.
End(s) ==
    /\ Opened(s)
    /\ sess' = [sess EXCEPT ![s] = "over"]
    /\ Drop(s)
    /\ cut' = IF task[s] = "rebinding" THEN cut \union {s} ELSE cut
    /\ task' = [task EXCEPT ![s] = IF @ = "serving" THEN "none" ELSE @]
    /\ UNCHANGED <<own, new, sweeps, solo, bound>>

\* An error in the send loop, or a tab that is closed: run_session is dropped where
\* it stands.  Its task is detached, and lives on with the process.
EndDetached(s) ==
    /\ Opened(s) /\ task[s] # "none"
    /\ sess' = [sess EXCEPT ![s] = "over"]
    /\ Drop(s)
    /\ UNCHANGED <<task, own, new, sweeps, history>>

\* The process ends or is killed; its files stay.
Kill(s) ==
    /\ sess[s] = "up" \/ task[s] # "none"
    /\ sess' = [sess EXCEPT ![s] = "over"]
    /\ task' = [task EXCEPT ![s] = "none"]
    /\ own' = [own EXCEPT ![s] = NoPath]
    /\ new' = [new EXCEPT ![s] = NoPath]
    /\ bound' = [bound EXCEPT ![s] = NoPath]
    /\ UNCHANGED <<files, sweeps, solo, cut>>

-----------------------------------------------------------------------------
\* The files go from under the sessions.
WipeSockets ==
    /\ sockets' = {}
    /\ tree' = FALSE
    /\ UNCHANGED <<sess, task, own, new, marker, sweeps, history>>

WipeMarker ==
    /\ marker' = NoPath
    /\ UNCHANGED <<sess, task, own, new, sockets, tree, sweeps, history>>

Sweep ==
    /\ sweeps < MaxSweeps
    /\ sweeps' = sweeps + 1
    /\ sockets' = {}
    /\ tree' = FALSE
    /\ UNCHANGED <<sess, task, own, new, marker, history>>

Step(s) ==
    \/ \E p \in Path : Open(s, p) \/ Watch(s, p)
    \/ Bind(s) \/ Rebind(s)
    \/ End(s) \/ EndDetached(s) \/ Kill(s)

Next == Sweep \/ \E s \in Session : Step(s)

\* The server task of a session runs on: its interval ticks, and its bind returns.
Fairness ==
    \A s \in Session : WF_vars(Rebind(s) \/ \E p \in Path : Watch(s, p))
-----------------------------------------------------------------------------
\* Properties

\* A session that has ended leaves no socket behind, whether or not its watchdog has
\* moved it, but for one that ended in the middle of a rebind, or whose task was left
\* behind and bound it again.
NothingLeaked ==
    \A s \in Session :
        sess[s] = "over" /\ task[s] = "none" /\ s \notin cut => bound[s] \notin sockets

\* A socket file goes by its own session's end or by a sweep of them all: no session
\* ever takes another's socket away.
OwnSocketOnly ==
    [][\A s \in Session : own[s] \in sockets \ sockets' => sess'[s] = "over" \/ ~tree']_vars

\* A client that reads the marker now is led to this session.
Reachable(s) ==
    sess[s] = "up" /\ task[s] = "serving" /\ marker = own[s] /\ own[s] \in sockets
=============================================================================

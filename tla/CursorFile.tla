----------------------------- MODULE CursorFile -----------------------------
(***************************************************************************)
(* cursor_io.rs on one <session_id>.cursor file: hooks that advance it     *)
(* with open, lock, inode check, temporary file, rename, each system call  *)
(* a step of its own; hooks that read it without the lock; failing calls   *)
(* and killed hooks; and loss of power, which keeps what was fsynced.      *)
(***************************************************************************)
EXTENDS Integers, FiniteSets

CONSTANTS
    Proc,            \* hooks inside advance_cursor
    Reader,          \* hooks inside read_cursor
    Id,              \* message ids
    Inode,           \* bound: inodes of the cursors directory
    RaceRetryLimit,  \* attempts of one advance; 5 in the code
    Faulty,          \* may calls fail, hooks be killed, the power go?
    NoId, NoInode, NoProc

ASSUME ConstantsAssumption ==
    /\ RaceRetryLimit \in Nat \ {0}
    /\ Faulty \in BOOLEAN
    /\ NoId \notin Id
    /\ NoInode \notin Inode
    /\ NoProc \notin Proc

VARIABLES
    path,      \* the inode at the cursor's path
    content,   \* what each inode holds; NoId: empty
    lock,      \* holder of the exclusive fcntl lock of each inode
    synced,    \* inodes whose content was fsynced
    onDisk,    \* what the directory entry can be after a power loss
    pc, fd, tmp, attempt, value,   \* per advancing hook
    rfd,       \* per reading hook: the inode it has open
    overtaken  \* history: renames of others during the call, up to the limit

advancers == <<pc, fd, tmp, attempt, value, overtaken>>
vars == <<path, content, lock, synced, onDisk, advancers, rfd>>

Writing == {"write", "sync", "rename"}            \* owns a temporary file
Critical == {"create"} \union Writing             \* between check and rename
Locked == {"check", "retry", "syncdir", "unlock"} \union Critical
Opened == {"lock"} \union Locked

TypeOK ==
    /\ path \in Inode \union {NoInode}
    /\ content \in [Inode -> Id \union {NoId}]
    /\ lock \in [Inode -> Proc \union {NoProc}]
    /\ synced \subseteq Inode
    /\ onDisk \subseteq Inode \union {NoInode}
    /\ pc \in [Proc -> {"idle", "open"} \union Opened]
    /\ fd \in [Proc -> Inode \union {NoInode}]
    /\ tmp \in [Proc -> Inode \union {NoInode}]
    /\ \A p \in Proc : pc[p] \in Writing => tmp[p] \in Inode
    /\ attempt \in [Proc -> 1..RaceRetryLimit]
    /\ value \in [Proc -> Id \union {NoId}]
    /\ rfd \in [Reader -> Inode \union {NoInode}]
    /\ overtaken \in [Proc -> 0..RaceRetryLimit]

Init ==
    /\ path = NoInode
    /\ content = [i \in Inode |-> NoId]
    /\ lock = [i \in Inode |-> NoProc]
    /\ synced = {}
    /\ onDisk = {NoInode}
    /\ pc = [p \in Proc |-> "idle"]
    /\ fd = [p \in Proc |-> NoInode]
    /\ tmp = [p \in Proc |-> NoInode]
    /\ attempt = [p \in Proc |-> 1]
    /\ value = [p \in Proc |-> NoId]
    /\ rfd = [r \in Reader |-> NoInode]
    /\ overtaken = [p \in Proc |-> 0]

-----------------------------------------------------------------------------
\* An inode the file system can hand out: no name leads to it and none can come
\* back, and nobody has it open. (A temporary file somebody left behind is never
\* opened again, and counts as free.)
Free(i) ==
    /\ i # path /\ i \notin onDisk
    /\ \A p \in Proc : fd[p] # i /\ tmp[p] # i
    /\ \A r \in Reader : rfd[r] # i

\* The locks once p has closed its file.
LocksWithout(p) == [i \in Inode |-> IF lock[i] = p THEN NoProc ELSE lock[i]]

\* Mutant of LocksAfterRetry: the file of a lost attempt stays open.
LocksKept(p) == lock

\* The locks when p tries again with a new file.
LocksAfterRetry(p) == LocksWithout(p)

\* advance_cursor of p returns or its process ends.
Return(p) ==
    /\ pc' = [pc EXCEPT ![p] = "idle"]
    /\ fd' = [fd EXCEPT ![p] = NoInode]
    /\ tmp' = [tmp EXCEPT ![p] = NoInode]
    /\ attempt' = [attempt EXCEPT ![p] = 1]
    /\ value' = [value EXCEPT ![p] = NoId]
    /\ overtaken' = [overtaken EXCEPT ![p] = 0]
    /\ lock' = LocksWithout(p)

-----------------------------------------------------------------------------
\* advance_cursor

Begin(p, id) ==
    /\ pc[p] = "idle"
    /\ pc' = [pc EXCEPT ![p] = "open"]
    /\ value' = [value EXCEPT ![p] = id]
    /\ UNCHANGED <<path, content, lock, synced, onDisk, fd, tmp, attempt, rfd, overtaken>>

\* The path is there: open_cursor_rwc opens it and leaves what the file holds.
Open(p) ==
    /\ pc[p] = "open"
    /\ path # NoInode
    /\ fd' = [fd EXCEPT ![p] = path]
    /\ pc' = [pc EXCEPT ![p] = "lock"]
    /\ UNCHANGED <<path, content, lock, synced, onDisk, tmp, attempt, value, rfd, overtaken>>

\* It is not: O_CREAT makes it, empty.
OpenNew(p, i) ==
    /\ pc[p] = "open"
    /\ path = NoInode
    /\ Free(i)
    /\ path' = i
    /\ content' = [content EXCEPT ![i] = NoId]
    /\ synced' = synced \ {i}
    /\ onDisk' = onDisk \union {i}
    /\ fd' = [fd EXCEPT ![p] = i]
    /\ pc' = [pc EXCEPT ![p] = "lock"]
    /\ UNCHANGED <<lock, tmp, attempt, value, rfd, overtaken>>

\* acquire_lock returns.
Lock(p) ==
    /\ pc[p] = "lock"
    /\ lock[fd[p]] = NoProc
    /\ lock' = [lock EXCEPT ![fd[p]] = p]
    /\ pc' = [pc EXCEPT ![p] = "check"]
    /\ UNCHANGED <<path, content, synced, onDisk, fd, tmp, attempt, value, rfd, overtaken>>

\* Mutant of PathMatchesFd: no comparison of inodes after locking.
PathMatchesFdAnyway(p) == TRUE

\* path_matches_fd: the locked file is still the one at the path.
PathMatchesFd(p) == path = fd[p]

Check(p) ==
    /\ pc[p] = "check"
    /\ pc' = [pc EXCEPT ![p] = IF PathMatchesFd(p) THEN "create" ELSE "retry"]
    /\ UNCHANGED <<path, content, lock, synced, onDisk, fd, tmp, attempt, value, rfd,
                   overtaken>>

MayRetry(p) == attempt[p] < RaceRetryLimit

\* Mutant of Again: the same open file is locked and checked again.
AgainSameFile(p) == [pc |-> "lock", fd |-> fd[p]]

\* Where the next attempt begins.
Again(p) == [pc |-> "open", fd |-> NoInode]

\* A rename came between open and lock: close, and open again ...
Retry(p) ==
    /\ pc[p] = "retry"
    /\ MayRetry(p)
    /\ lock' = LocksAfterRetry(p)
    /\ fd' = [fd EXCEPT ![p] = Again(p).fd]
    /\ attempt' = [attempt EXCEPT ![p] = @ + 1]
    /\ pc' = [pc EXCEPT ![p] = Again(p).pc]
    /\ UNCHANGED <<path, content, synced, onDisk, tmp, value, rfd, overtaken>>

\* ... or, at the last attempt, CURSOR_RACE_RETRY_EXHAUSTED.
GiveUp(p) ==
    /\ pc[p] = "retry"
    /\ ~MayRetry(p)
    /\ Return(p)
    /\ UNCHANGED <<path, content, synced, onDisk, rfd>>

-----------------------------------------------------------------------------
\* write_atomically

CreateTmp(p, i) ==
    /\ pc[p] = "create"
    /\ Free(i)
    /\ tmp' = [tmp EXCEPT ![p] = i]
    /\ content' = [content EXCEPT ![i] = NoId]
    /\ synced' = synced \ {i}
    /\ pc' = [pc EXCEPT ![p] = "write"]
    /\ UNCHANGED <<path, lock, onDisk, fd, attempt, value, rfd, overtaken>>

WriteTmp(p) ==
    /\ pc[p] = "write"
    /\ content' = [content EXCEPT ![tmp[p]] = value[p]]
    /\ pc' = [pc EXCEPT ![p] = "sync"]
    /\ UNCHANGED <<path, lock, synced, onDisk, fd, tmp, attempt, value, rfd, overtaken>>

\* Mutant of AfterSyncTmp: no fsync of the temporary file.
AfterSyncTmpOmitted(p) == synced

\* sync_all on the temporary file.
AfterSyncTmp(p) == synced \union {tmp[p]}

SyncTmp(p) ==
    /\ pc[p] = "sync"
    /\ synced' = AfterSyncTmp(p)
    /\ pc' = [pc EXCEPT ![p] = "rename"]
    /\ UNCHANGED <<path, content, lock, onDisk, fd, tmp, attempt, value, rfd, overtaken>>

Busy(q) == pc[q] # "idle"

Rename(p) ==
    /\ pc[p] = "rename"
    /\ path' = tmp[p]
    /\ onDisk' = onDisk \union {tmp[p]}
    /\ tmp' = [tmp EXCEPT ![p] = NoInode]
    /\ pc' = [pc EXCEPT ![p] = "syncdir"]
    /\ overtaken' = [q \in Proc |->
                        IF q # p /\ Busy(q) /\ overtaken[q] < RaceRetryLimit
                        THEN overtaken[q] + 1 ELSE overtaken[q]]
    /\ UNCHANGED <<content, lock, synced, fd, attempt, value, rfd>>

\* fsync of the parent directory; its errors are ignored.
SyncDir(p) ==
    /\ pc[p] = "syncdir"
    /\ onDisk' = {path}
    /\ pc' = [pc EXCEPT ![p] = "unlock"]
    /\ UNCHANGED <<path, content, lock, synced, fd, tmp, attempt, value, rfd, overtaken>>

SyncDirFails(p) ==
    /\ Faulty
    /\ pc[p] = "syncdir"
    /\ pc' = [pc EXCEPT ![p] = "unlock"]
    /\ UNCHANGED <<path, content, lock, synced, onDisk, fd, tmp, attempt, value, rfd,
                   overtaken>>

\* Unlock, close, return Ok.
Unlock(p) ==
    /\ pc[p] = "unlock"
    /\ Return(p)
    /\ UNCHANGED <<path, content, synced, onDisk, rfd>>

\* A call fails and its error is returned, or the hook is killed.
Abandon(p) ==
    /\ Faulty
    /\ pc[p] # "idle"
    /\ Return(p)
    /\ UNCHANGED <<path, content, synced, onDisk, rfd>>

-----------------------------------------------------------------------------
\* read_cursor, which takes no lock

ReadOpen(r) ==
    /\ rfd[r] = NoInode
    /\ path # NoInode
    /\ rfd' = [rfd EXCEPT ![r] = path]
    /\ UNCHANGED <<path, content, lock, synced, onDisk, advancers>>

ReadReturn(r) ==
    /\ rfd[r] # NoInode
    /\ rfd' = [rfd EXCEPT ![r] = NoInode]
    /\ UNCHANGED <<path, content, lock, synced, onDisk, advancers>>

-----------------------------------------------------------------------------
\* The machine loses power: the directory entry is one of those it can be, and
\* a file that was not fsynced may be empty.
PowerLoss ==
    /\ Faulty
    /\ \E i \in onDisk :
          /\ path' = i
          /\ onDisk' = {i}
          /\ \/ UNCHANGED content
             \/ /\ i \in Inode \ synced
                /\ content' = [content EXCEPT ![i] = NoId]
    /\ lock' = [i \in Inode |-> NoProc]
    /\ pc' = [p \in Proc |-> "idle"]
    /\ fd' = [p \in Proc |-> NoInode]
    /\ tmp' = [p \in Proc |-> NoInode]
    /\ attempt' = [p \in Proc |-> 1]
    /\ value' = [p \in Proc |-> NoId]
    /\ rfd' = [r \in Reader |-> NoInode]
    /\ overtaken' = [p \in Proc |-> 0]
    /\ UNCHANGED synced

-----------------------------------------------------------------------------
\* A call in progress takes its next step.
Step(p) ==
    \/ Open(p) \/ Lock(p) \/ Check(p) \/ Retry(p) \/ GiveUp(p)
    \/ WriteTmp(p) \/ SyncTmp(p) \/ Rename(p) \/ SyncDir(p) \/ Unlock(p)
    \/ \E i \in Inode : OpenNew(p, i) \/ CreateTmp(p, i)

Next ==
    \/ \E p \in Proc :
          \/ Step(p) \/ SyncDirFails(p) \/ Abandon(p)
          \/ \E id \in Id : Begin(p, id)
    \/ \E r \in Reader : ReadOpen(r) \/ ReadReturn(r)
    \/ PowerLoss

Spec == Init /\ [][Next]_vars

\* A hook inside advance_cursor runs on.
FairSpec == Spec /\ \A p \in Proc : WF_vars(Step(p))
-----------------------------------------------------------------------------
\* Properties

Value(i) == IF i = NoInode THEN NoId ELSE content[i]

\* The abstract register, with a call in effect from its rename on.
Register == INSTANCE CursorRegister WITH
    cursor <- Value(path),
    stable <- {Value(i) : i \in onDisk},
    phase  <- [p \in Proc |->
                  CASE pc[p] = "idle" -> "idle"
                    [] pc[p] \in {"syncdir", "unlock"} -> "taken"
                    [] OTHER -> "begun"],
    arg    <- value,
    got    <- [r \in Reader |-> IF rfd[r] = NoInode THEN {} ELSE {Value(rfd[r])}]

\* The file is an atomic register: an advance shows at one instant and whole,
\* to readers without the lock and across kills and power loss, and a failed
\* one not at all (advance_cursor, write_atomically, read_cursor).
ImplementsRegister == Register!Spec

\* Two advances are never both between the inode check and the rename, although
\* the lock they hold is on an inode the rename takes out of use (the
\* open-lock-stat-fstat discipline of advance_cursor).
RenamesExclusive ==
    \A p, q \in Proc : pc[p] \in Critical /\ pc[q] \in Critical => p = q

\* The winner of the check keeps the file it checked: until its rename the path
\* leads to the inode whose lock it holds.
CheckStaysTrue ==
    \A p \in Proc : pc[p] \in Critical => path = fd[p] /\ lock[fd[p]] = p

\* An attempt is lost only to another hook's rename, so an advance reports
\* CURSOR_RACE_RETRY_EXHAUSTED only after RaceRetryLimit renames of others.
LostToRenames ==
    \A p \in Proc : pc[p] = "retry" => overtaken[p] >= attempt[p]

\* Without failing calls, every advance returns: no hook waits for the lock of an
\* abandoned inode, or retries, for ever.
AdvanceReturns == \A p \in Proc : Busy(p) ~> ~Busy(p)
=============================================================================

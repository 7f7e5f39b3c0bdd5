-------------------------- MODULE CursorFileProofs --------------------------
(***************************************************************************)
(* Theorems about CursorFile, for any number of hooks, inodes, ids and     *)
(* retries, with failing calls, kills and power loss.                      *)
(***************************************************************************)
EXTENDS CursorFile, TLAPS

-----------------------------------------------------------------------------
\* TypeOK is inductive: every variable of cursor_io keeps its range, and no
\* advance makes more than RaceRetryLimit attempts.
THEOREM TypeCorrect == Spec => []TypeOK
<1>1. Init => TypeOK
  BY ConstantsAssumption DEF Init, TypeOK, Opened, Locked, Critical, Writing
<1>2. TypeOK /\ [Next]_vars => TypeOK'
  <2> SUFFICES ASSUME TypeOK, [Next]_vars PROVE TypeOK'
    OBVIOUS
  <2> USE ConstantsAssumption DEF TypeOK, Opened, Locked, Critical, Writing
  <2>1. ASSUME NEW p \in Proc, NEW id \in Id, Begin(p, id) PROVE TypeOK'
    BY <2>1 DEF Begin
  <2>2. ASSUME NEW p \in Proc, Open(p) PROVE TypeOK'
    BY <2>2 DEF Open
  <2>3. ASSUME NEW p \in Proc, NEW i \in Inode, OpenNew(p, i) PROVE TypeOK'
    BY <2>3 DEF OpenNew
  <2>4. ASSUME NEW p \in Proc, Lock(p) PROVE TypeOK'
    BY <2>4 DEF Lock
  <2>5. ASSUME NEW p \in Proc, Check(p) PROVE TypeOK'
    BY <2>5 DEF Check
  <2>6. ASSUME NEW p \in Proc, Retry(p) PROVE TypeOK'
    <3>1. LocksWithout(p) \in [Inode -> Proc \union {NoProc}]
      BY DEF LocksWithout
    <3>2. attempt[p] + 1 \in 1..RaceRetryLimit
      BY <2>6 DEF Retry, MayRetry
    <3>3. /\ lock' = LocksWithout(p)
          /\ fd' = [fd EXCEPT ![p] = NoInode]
          /\ attempt' = [attempt EXCEPT ![p] = attempt[p] + 1]
          /\ pc' = [pc EXCEPT ![p] = "open"]
          /\ UNCHANGED <<path, content, synced, onDisk, tmp, value, rfd, overtaken>>
      BY <2>6 DEF Retry, Again, LocksAfterRetry
    <3> QED BY <3>1, <3>2, <3>3
  <2>7. ASSUME NEW p \in Proc, Return(p),
               UNCHANGED <<path, content, synced, onDisk, rfd>> PROVE TypeOK'
    <3>1. LocksWithout(p) \in [Inode -> Proc \union {NoProc}]
      BY DEF LocksWithout
    <3> QED BY <2>7, <3>1 DEF Return
  <2>8. ASSUME NEW p \in Proc, NEW i \in Inode, CreateTmp(p, i) PROVE TypeOK'
    BY <2>8 DEF CreateTmp
  <2>9. ASSUME NEW p \in Proc, WriteTmp(p) PROVE TypeOK'
    BY <2>9 DEF WriteTmp
  <2>10. ASSUME NEW p \in Proc, SyncTmp(p) PROVE TypeOK'
    BY <2>10 DEF SyncTmp, AfterSyncTmp
  <2>11. ASSUME NEW p \in Proc, Rename(p) PROVE TypeOK'
    BY <2>11 DEF Rename
  <2>12. ASSUME NEW p \in Proc, SyncDir(p) \/ SyncDirFails(p) PROVE TypeOK'
    BY <2>12 DEF SyncDir, SyncDirFails
  <2>13. ASSUME NEW r \in Reader, ReadOpen(r) \/ ReadReturn(r) PROVE TypeOK'
    BY <2>13 DEF ReadOpen, ReadReturn, advancers
  <2>14. CASE PowerLoss
    BY <2>14 DEF PowerLoss
  <2>15. CASE UNCHANGED vars
    BY <2>15 DEF vars, advancers
  <2> QED BY <2>1, <2>2, <2>3, <2>4, <2>5, <2>6, <2>7, <2>8, <2>9, <2>10, <2>11,
             <2>12, <2>13, <2>14, <2>15 DEF Next, Step, GiveUp, Unlock, Abandon
<1> QED BY <1>1, <1>2, PTL DEF Spec

-----------------------------------------------------------------------------
\* What the lock and the inode check give: a hook past acquire_lock holds the
\* lock of its file, and one past the check has the file at the path.
HeldInv ==
    \A p \in Proc :
        /\ pc[p] \in Opened => fd[p] \in Inode
        /\ pc[p] \in Locked => lock[fd[p]] = p
        /\ pc[p] \in Critical => path = fd[p]

LEMMA CriticalIsAlone ==
    ASSUME HeldInv, NEW p \in Proc, NEW q \in Proc,
           pc[p] \in Critical, pc[q] \in Critical
    PROVE  p = q
  BY DEF HeldInv, Locked

LEMMA FilesHeld == Spec => []HeldInv
<1>1. Init => HeldInv
  BY DEF Init, HeldInv, Opened, Locked, Critical, Writing
<1>2. TypeOK /\ TypeOK' /\ HeldInv /\ [Next]_vars => HeldInv'
  <2> SUFFICES ASSUME TypeOK, TypeOK', HeldInv, [Next]_vars PROVE HeldInv'
    OBVIOUS
  <2> USE ConstantsAssumption DEF TypeOK, HeldInv, Opened, Locked, Critical, Writing
  <2>1. ASSUME NEW p \in Proc, NEW id \in Id, Begin(p, id) PROVE HeldInv'
    BY <2>1 DEF Begin
  <2>2. ASSUME NEW p \in Proc, Open(p) PROVE HeldInv'
    BY <2>2 DEF Open
  <2>3. ASSUME NEW p \in Proc, NEW i \in Inode, OpenNew(p, i) PROVE HeldInv'
    BY <2>3 DEF OpenNew
  <2>4. ASSUME NEW p \in Proc, Lock(p) PROVE HeldInv'
    BY <2>4 DEF Lock
  <2>5. ASSUME NEW p \in Proc, Check(p) PROVE HeldInv'
    BY <2>5 DEF Check, PathMatchesFd
  <2>6. ASSUME NEW p \in Proc, Retry(p) PROVE HeldInv'
    BY <2>6 DEF Retry, Again, LocksAfterRetry, LocksWithout
  <2>7. ASSUME NEW p \in Proc, Return(p),
               UNCHANGED <<path, content, synced, onDisk, rfd>> PROVE HeldInv'
    BY <2>7 DEF Return, LocksWithout
  <2>8. ASSUME NEW p \in Proc, NEW i \in Inode, CreateTmp(p, i) PROVE HeldInv'
    BY <2>8 DEF CreateTmp
  <2>9. ASSUME NEW p \in Proc, WriteTmp(p) \/ SyncTmp(p) PROVE HeldInv'
    BY <2>9 DEF WriteTmp, SyncTmp
  <2>10. ASSUME NEW p \in Proc, Rename(p) PROVE HeldInv'
    BY <2>10, CriticalIsAlone DEF Rename
  <2>11. ASSUME NEW p \in Proc, SyncDir(p) \/ SyncDirFails(p) PROVE HeldInv'
    BY <2>11 DEF SyncDir, SyncDirFails
  <2>12. ASSUME NEW r \in Reader, ReadOpen(r) \/ ReadReturn(r) PROVE HeldInv'
    BY <2>12 DEF ReadOpen, ReadReturn, advancers
  <2>13. CASE PowerLoss
    BY <2>13 DEF PowerLoss
  <2>14. CASE UNCHANGED vars
    BY <2>14 DEF vars, advancers
  <2> QED BY <2>1, <2>2, <2>3, <2>4, <2>5, <2>6, <2>7, <2>8, <2>9, <2>10, <2>11,
             <2>12, <2>13, <2>14 DEF Next, Step, GiveUp, Unlock, Abandon
<1> QED BY <1>1, <1>2, TypeCorrect, PTL DEF Spec

\* No two hooks are between the inode check and the rename at once.
THEOREM Exclusive == Spec => []RenamesExclusive
<1>1. HeldInv => RenamesExclusive
  BY CriticalIsAlone DEF RenamesExclusive
<1> QED BY <1>1, FilesHeld, PTL

\* What path_matches_fd found stays true until the rename it guards.
THEOREM CheckedFileStays == Spec => []CheckStaysTrue
<1>1. HeldInv => CheckStaysTrue
  BY DEF HeldInv, CheckStaysTrue, Locked
<1> QED BY <1>1, FilesHeld, PTL

-----------------------------------------------------------------------------
\* Each attempt already lost had its own rename of another hook; and an open file
\* that is not at the path any more is one lost already.
LostInv ==
    \A p \in Proc :
        /\ pc[p] = "idle" => attempt[p] = 1
        /\ pc[p] = "open" => overtaken[p] >= attempt[p] - 1
        /\ pc[p] \in {"lock", "check"} =>
              /\ overtaken[p] >= attempt[p] - 1
              /\ path # fd[p] => overtaken[p] >= attempt[p]
        /\ pc[p] = "retry" => overtaken[p] >= attempt[p]

LEMMA AttemptsLost == Spec => []LostInv
<1>1. Init => LostInv
  BY DEF Init, LostInv
<1>2. TypeOK /\ TypeOK' /\ HeldInv /\ LostInv /\ [Next]_vars => LostInv'
  <2> SUFFICES ASSUME TypeOK, TypeOK', HeldInv, LostInv, [Next]_vars PROVE LostInv'
    OBVIOUS
  <2> USE ConstantsAssumption DEF TypeOK, LostInv
  <2>1. ASSUME NEW p \in Proc, NEW id \in Id, Begin(p, id) PROVE LostInv'
    BY <2>1 DEF Begin
  <2>2. ASSUME NEW p \in Proc, Open(p) PROVE LostInv'
    BY <2>2 DEF Open
  <2>3. ASSUME NEW p \in Proc, NEW i \in Inode, OpenNew(p, i) PROVE LostInv'
    BY <2>3, HeldInv DEF OpenNew, HeldInv, Opened, Locked
  <2>4. ASSUME NEW p \in Proc, Lock(p) PROVE LostInv'
    BY <2>4 DEF Lock
  <2>5. ASSUME NEW p \in Proc, Check(p) PROVE LostInv'
    BY <2>5 DEF Check, PathMatchesFd
  <2>6. ASSUME NEW p \in Proc, Retry(p) PROVE LostInv'
    BY <2>6 DEF Retry, Again
  <2>7. ASSUME NEW p \in Proc, Return(p),
               UNCHANGED <<path, content, synced, onDisk, rfd>> PROVE LostInv'
    BY <2>7 DEF Return
  <2>8. ASSUME NEW p \in Proc, NEW i \in Inode, CreateTmp(p, i) PROVE LostInv'
    BY <2>8 DEF CreateTmp
  <2>9. ASSUME NEW p \in Proc, WriteTmp(p) \/ SyncTmp(p) PROVE LostInv'
    BY <2>9 DEF WriteTmp, SyncTmp
  <2>10. ASSUME NEW p \in Proc, Rename(p) PROVE LostInv'
    BY <2>10 DEF Rename, Busy
  <2>11. ASSUME NEW p \in Proc, SyncDir(p) \/ SyncDirFails(p) PROVE LostInv'
    BY <2>11 DEF SyncDir, SyncDirFails
  <2>12. ASSUME NEW r \in Reader, ReadOpen(r) \/ ReadReturn(r) PROVE LostInv'
    BY <2>12 DEF ReadOpen, ReadReturn, advancers
  <2>13. CASE PowerLoss
    BY <2>13 DEF PowerLoss
  <2>14. CASE UNCHANGED vars
    BY <2>14 DEF vars, advancers
  <2> QED BY <2>1, <2>2, <2>3, <2>4, <2>5, <2>6, <2>7, <2>8, <2>9, <2>10, <2>11,
             <2>12, <2>13, <2>14 DEF Next, Step, GiveUp, Unlock, Abandon
<1> QED BY <1>1, <1>2, TypeCorrect, FilesHeld, PTL DEF Spec

\* CURSOR_RACE_RETRY_EXHAUSTED means RaceRetryLimit renames by others.
THEOREM OnlyRenamesCostAttempts == Spec => []LostToRenames
<1>1. LostInv => LostToRenames
  BY DEF LostInv, LostToRenames
<1> QED BY <1>1, AttemptsLost, PTL
-----------------------------------------------------------------------------
\* A temporary file is its writer's alone until the rename, and complete by then;
\* what the path can lead to after a power loss is fsynced or still empty.
TmpInv ==
    /\ \A p \in Proc :
          /\ pc[p] \notin Writing => tmp[p] = NoInode
          /\ pc[p] \in Writing =>
                /\ tmp[p] \in Inode
                /\ tmp[p] # path /\ tmp[p] \notin onDisk
                /\ \A r \in Reader : rfd[r] # tmp[p]
                /\ \A q \in Proc : fd[q] # tmp[p]
          /\ pc[p] \in {"sync", "rename"} => content[tmp[p]] = value[p]
          /\ pc[p] = "rename" => tmp[p] \in synced
    /\ path \in onDisk
    /\ \A i \in onDisk \cap Inode : i \in synced \/ content[i] = NoId

LEMMA TmpFilesPrivate == Spec => []TmpInv
<1>1. Init => TmpInv
  BY ConstantsAssumption DEF Init, TmpInv, Writing
<1>2. TypeOK /\ HeldInv /\ TmpInv /\ [Next]_vars => TmpInv'
  <2> SUFFICES ASSUME TypeOK, HeldInv, TmpInv, [Next]_vars PROVE TmpInv'
    OBVIOUS
  <2> USE ConstantsAssumption DEF TypeOK, TmpInv, Writing
  <2>1. ASSUME NEW p \in Proc, NEW id \in Id, Begin(p, id) PROVE TmpInv'
    BY <2>1 DEF Begin
  <2>2. ASSUME NEW p \in Proc, Open(p) PROVE TmpInv'
    BY <2>2 DEF Open
  <2>3. ASSUME NEW p \in Proc, NEW i \in Inode, OpenNew(p, i) PROVE TmpInv'
    BY <2>3 DEF OpenNew, Free
  <2>4. ASSUME NEW p \in Proc, Lock(p) PROVE TmpInv'
    BY <2>4 DEF Lock
  <2>5. ASSUME NEW p \in Proc, Check(p) PROVE TmpInv'
    BY <2>5 DEF Check
  <2>6. ASSUME NEW p \in Proc, Retry(p) PROVE TmpInv'
    BY <2>6 DEF Retry, Again
  <2>7. ASSUME NEW p \in Proc, Return(p),
               UNCHANGED <<path, content, synced, onDisk, rfd>> PROVE TmpInv'
    BY <2>7 DEF Return
  <2>8. ASSUME NEW p \in Proc, NEW i \in Inode, CreateTmp(p, i) PROVE TmpInv'
    BY <2>8, CriticalIsAlone DEF CreateTmp, Free, Critical
  <2>9. ASSUME NEW p \in Proc, WriteTmp(p) PROVE TmpInv'
    BY <2>9, CriticalIsAlone DEF WriteTmp, Critical
  <2>10. ASSUME NEW p \in Proc, SyncTmp(p) PROVE TmpInv'
    BY <2>10 DEF SyncTmp, AfterSyncTmp
  <2>11. ASSUME NEW p \in Proc, Rename(p) PROVE TmpInv'
    BY <2>11, CriticalIsAlone DEF Rename, Critical
  <2>12. ASSUME NEW p \in Proc, SyncDir(p) \/ SyncDirFails(p) PROVE TmpInv'
    BY <2>12 DEF SyncDir, SyncDirFails
  <2>13. ASSUME NEW r \in Reader, ReadOpen(r) \/ ReadReturn(r) PROVE TmpInv'
    BY <2>13 DEF ReadOpen, ReadReturn, advancers
  <2>14. CASE PowerLoss
    BY <2>14 DEF PowerLoss
  <2>15. CASE UNCHANGED vars
    BY <2>15 DEF vars, advancers
  <2> QED BY <2>1, <2>2, <2>3, <2>4, <2>5, <2>6, <2>7, <2>8, <2>9, <2>10, <2>11,
             <2>12, <2>13, <2>14, <2>15 DEF Next, Step, GiveUp, Unlock, Abandon
<1> QED BY <1>1, <1>2, TypeCorrect, FilesHeld, PTL DEF Spec

\* cursor_io implements the atomic register of CursorRegister.
THEOREM RefinesRegister == Spec => ImplementsRegister
<1> DEFINE Phase == [p \in Proc |->
                  CASE pc[p] = "idle" -> "idle"
                    [] pc[p] \in {"syncdir", "unlock"} -> "taken"
                    [] OTHER -> "begun"]
           Stable == {Value(i) : i \in onDisk}
           Got == [r \in Reader |-> IF rfd[r] = NoInode THEN {} ELSE {Value(rfd[r])}]
<1>1. Init => Register!Init
  BY ConstantsAssumption DEF Init, Register!Init, Value
<1>2. TypeOK /\ TypeOK' /\ TmpInv /\ TmpInv' /\ [Next]_vars
        => [Register!Next]_(Register!vars)
  <2> SUFFICES ASSUME TypeOK, TypeOK', TmpInv, TmpInv', [Next]_vars
               PROVE  Register!Next \/ UNCHANGED <<Value(path), Stable, Phase, value, Got>>
    BY DEF Register!vars
  <2> USE ConstantsAssumption DEF TypeOK, Opened, Locked, Critical, Writing
  \* What the register shows depends on the content of files that are open or
  \* that a name can lead to.
  <2>a. ASSUME path' = path, onDisk' = onDisk, rfd' = rfd,
               \A i \in Inode : i = path \/ i \in onDisk \/ (\E r \in Reader : rfd[r] = i)
                                => content'[i] = content[i]
        PROVE  UNCHANGED <<Value(path), Stable, Got>>
    <3>1. \A i \in onDisk : Value(i)' = Value(i)
      BY <2>a DEF Value
    <3>2. \A r \in Reader : rfd[r] # NoInode => Value(rfd[r])' = Value(rfd[r])
      BY <2>a DEF Value
    <3>3. UNCHANGED Value(path)
      BY <2>a DEF Value
    <3>4. UNCHANGED Stable
      BY <2>a, <3>1
    <3>5. UNCHANGED Got
      BY <2>a, <3>2
    <3> QED BY <3>3, <3>4, <3>5
  <2>1. ASSUME NEW p \in Proc, NEW id \in Id, Begin(p, id) PROVE Register!Begin(p, id)
    <3>1. UNCHANGED <<Value(path), Stable, Got>>
      BY <2>1, <2>a DEF Begin
    <3>2. Phase[p] = "idle" /\ Phase' = [Phase EXCEPT ![p] = "begun"]
      BY <2>1 DEF Begin
    <3> QED BY <2>1, <3>1, <3>2 DEF Begin, Register!Begin
  \* Before its rename an advance touches only files nobody can see.
  <2>2. ASSUME NEW p \in Proc,
               \/ Open(p) \/ Lock(p) \/ Check(p) \/ Retry(p) \/ WriteTmp(p) \/ SyncTmp(p)
               \/ \E i \in Inode : CreateTmp(p, i)
        PROVE  UNCHANGED <<Value(path), Stable, Phase, value, Got>>
    <3>1. path' = path /\ onDisk' = onDisk /\ rfd' = rfd /\ value' = value
      BY <2>2 DEF Open, Lock, Check, Retry, WriteTmp, SyncTmp, CreateTmp
    <3>2. ASSUME NEW i \in Inode,
                 i = path \/ i \in onDisk \/ (\E r \in Reader : rfd[r] = i)
          PROVE  content'[i] = content[i]
      BY <2>2, <3>2 DEF Open, Lock, Check, Retry, WriteTmp, SyncTmp,
                        CreateTmp, Free, TmpInv
    <3>3. UNCHANGED Phase
      BY <2>2 DEF Open, Lock, Check, Retry, Again, WriteTmp, SyncTmp, CreateTmp
    <3> QED BY <3>1, <3>2, <3>3, <2>a
  <2>3. ASSUME NEW p \in Proc, NEW i \in Inode, OpenNew(p, i)
        PROVE  UNCHANGED <<Value(path), Stable, Phase, value, Got>>
    <3>1. UNCHANGED Value(path)
      BY <2>3 DEF OpenNew, Value
    <3>2. \A j \in onDisk : Value(j)' = Value(j)
      BY <2>3 DEF OpenNew, Value, Free
    <3>3. Value(i)' = NoId /\ Value(NoInode) = NoId /\ NoInode \in onDisk
      BY <2>3 DEF OpenNew, Value, TmpInv
    <3>4. UNCHANGED Stable
      BY <2>3, <3>2, <3>3 DEF OpenNew
    <3>5. UNCHANGED Got
      BY <2>3 DEF OpenNew, Value, Free
    <3>6. UNCHANGED <<Phase, value>>
      BY <2>3 DEF OpenNew
    <3> QED BY <3>1, <3>4, <3>5, <3>6
  <2>4. ASSUME NEW p \in Proc, pc[p] # "idle", Return(p),
               UNCHANGED <<path, content, synced, onDisk, rfd>>
        PROVE  Register!End(p)
    <3>1. UNCHANGED <<Value(path), Stable, Got>>
      BY <2>4, <2>a
    <3>2. Phase[p] # "idle" /\ Phase' = [Phase EXCEPT ![p] = "idle"]
      BY <2>4 DEF Return
    <3> QED BY <2>4, <3>1, <3>2 DEF Return, Register!End
  <2>5. ASSUME NEW p \in Proc, Rename(p) PROVE Register!Take(p)
    <3>1. tmp[p] \in Inode /\ content[tmp[p]] = value[p]
      BY <2>5 DEF Rename, TmpInv
    <3>2. \A i \in Inode \union {NoInode} : Value(i)' = Value(i)
      BY <2>5 DEF Rename, Value
    <3>3. Value(path)' = value[p]
      BY <2>5, <3>1 DEF Rename, Value
    <3>4. Stable' = Stable \union {value[p]}
      BY <2>5, <3>1, <3>2 DEF Rename, Value
    <3>5. UNCHANGED <<value, Got>>
      BY <2>5 DEF Rename, Value
    <3>6. Phase[p] = "begun" /\ Phase' = [Phase EXCEPT ![p] = "taken"]
      BY <2>5 DEF Rename
    <3> QED BY <3>3, <3>4, <3>5, <3>6 DEF Register!Take
  <2>6. ASSUME NEW p \in Proc, SyncDir(p) PROVE Register!Settle
    <3>1. UNCHANGED <<Value(path), value, Got>>
      BY <2>6 DEF SyncDir, Value
    <3>2. Stable' = {Value(path)}
      BY <2>6 DEF SyncDir, Value
    <3>3. UNCHANGED Phase
      BY <2>6 DEF SyncDir
    <3> QED BY <3>1, <3>2, <3>3 DEF Register!Settle
  <2>7. ASSUME NEW p \in Proc, SyncDirFails(p)
        PROVE  UNCHANGED <<Value(path), Stable, Phase, value, Got>>
    <3>1. UNCHANGED <<Phase, value>>
      BY <2>7 DEF SyncDirFails
    <3> QED BY <2>7, <3>1, <2>a DEF SyncDirFails
  <2>8. ASSUME NEW r \in Reader, ReadOpen(r) PROVE Register!Read(r)
    <3>1. UNCHANGED <<Value(path), Stable, Phase, value>>
      BY <2>8 DEF ReadOpen, Value, advancers
    <3>2. Got[r] = {} /\ Got' = [Got EXCEPT ![r] = {Value(path)}]
      BY <2>8 DEF ReadOpen, Value
    <3> QED BY <3>1, <3>2 DEF Register!Read
  <2>9. ASSUME NEW r \in Reader, ReadReturn(r) PROVE Register!ReadEnd(r)
    <3>1. UNCHANGED <<Value(path), Stable, Phase, value>>
      BY <2>9 DEF ReadReturn, Value, advancers
    <3>2. Got[r] # {} /\ Got' = [Got EXCEPT ![r] = {}]
      BY <2>9 DEF ReadReturn, Value
    <3> QED BY <3>1, <3>2 DEF Register!ReadEnd
  <2>10. ASSUME PowerLoss PROVE Register!PowerLoss
    <3>1. PICK i \in onDisk :
             /\ path' = i /\ onDisk' = {i}
             /\ \/ UNCHANGED content
                \/ /\ i \in Inode \ synced
                   /\ content' = [content EXCEPT ![i] = NoId]
      BY <2>10 DEF PowerLoss
    <3>2. content' = content
      BY <3>1 DEF TmpInv
    <3>3. Value(path)' \in Stable /\ Stable' = {Value(path)'}
      BY <3>1, <3>2 DEF Value
    <3>4. /\ Phase' = [p \in Proc |-> "idle"]
          /\ value' = [p \in Proc |-> NoId]
          /\ Got' = [r \in Reader |-> {}]
      BY <2>10 DEF PowerLoss
    <3> QED BY <3>3, <3>4 DEF Register!PowerLoss
  <2>11. CASE UNCHANGED vars
    BY <2>11 DEF vars, advancers, Value
  <2>12. CASE \E p \in Proc : Step(p) \/ SyncDirFails(p) \/ Abandon(p)
    BY <2>12, <2>2, <2>3, <2>4, <2>5, <2>6, <2>7
       DEF Step, GiveUp, Unlock, Abandon, Register!Next
  <2> QED BY <2>1, <2>8, <2>9, <2>10, <2>11, <2>12 DEF Next, Register!Next
<1> QED BY <1>1, <1>2, TypeCorrect, TmpFilesPrivate, PTL
        DEF Spec, ImplementsRegister, Register!Spec
=============================================================================

----------------------- MODULE DaemonLifecycleProofs -----------------------
(***************************************************************************)
(* What the two PID files say of running daemons, for any number of        *)
(* daemons, starts, lists, stops and hooks; and that starts made one after *)
(* the other have at most one daemon in the room.  Last, what MCProgress   *)
(* takes over from HookDelivery.                                           *)
(***************************************************************************)
EXTENDS MCProgress, TLAPS

\* The kinds of steps, for case analysis.
LEMMA NextCases ==
    ASSUME Next
    PROVE  \/ \E d \in Daemon : DaemonStep(d) \/ SessionStep(d) \/ SessionFails(d) \/ Crash(d)
           \/ \E c \in Watcher : ReadFile(c) \/ Probe(c) \/ Sweep(c) \/ Look(c)
           \/ \E s \in Starter : StartAnswered(s) \/ StartTimesOut(s) \/ StarterDies(s)
           \/ \E s \in Starter, d \in Daemon : Spawn(s, d)
           \/ \E k \in Stopper : \/ StopRead(k) \/ StopFindsNone(k) \/ StopSignals(k)
                                 \/ StopSees(k) \/ StopForces(k)
BY DEF Next, ClientStep

-----------------------------------------------------------------------------
\* Every variable keeps its type, and every client its phases (DaemonLifecycle).
THEOREM TypeCorrect == Spec => []TypeOK
<1>1. Init => TypeOK
  BY ConstantsAssumption DEF Init, TypeOK, File, MainPhase, SessPhase, ClientPhase, Client
<1>2. TypeOK /\ [Next]_vars => TypeOK'
  <2> SUFFICES ASSUME TypeOK, [Next]_vars PROVE TypeOK'
    OBVIOUS
  <2> USE ConstantsAssumption DEF TypeOK, File, MainPhase, SessPhase, ClientPhase, Client
  <2>1. CASE UNCHANGED vars
    BY <2>1 DEF vars, files, daemons, clients
  <2>2. ASSUME NEW d \in Daemon, DaemonStep(d) PROVE TypeOK'
    <3>1. CASE OpenPidFile(d)
      BY <3>1 DEF OpenPidFile, Truncate, clients
    <3>2. CASE FillPidFile(d)
      BY <3>2 DEF FillPidFile, Fill, clients
    <3>3. CASE PrintReady(d)
      BY <3>3 DEF PrintReady, files
    <3>4. CASE ReadyFails(d)
      BY <3>4 DEF ReadyFails, Unlink, Ends, files, clients
    <3>5. CASE Park(d)
      BY <3>5 DEF Park, files, clients
    <3>6. CASE JoinReturns(d)
      BY <3>6 DEF JoinReturns, Withdraw, Unlink, clients
    <3>7. CASE TakeSignal(d)
      BY <3>7 DEF TakeSignal, Withdraw, Unlink, clients
    <3>8. CASE ExitDaemon(d)
      BY <3>8 DEF ExitDaemon, Ends, files, clients
    <3> QED BY <2>2, <3>1, <3>2, <3>3, <3>4, <3>5, <3>6, <3>7, <3>8 DEF DaemonStep
  <2>3. ASSUME NEW d \in Daemon, SessionStep(d) \/ SessionFails(d) \/ Crash(d) PROVE TypeOK'
    <3>1. CASE MarkActive(d)
      BY <3>1 DEF MarkActive, Truncate, clients
    <3>2. CASE SessionUp(d)
      BY <3>2 DEF SessionUp, Fill, clients
    <3>3. CASE SessionFails(d)
      BY <3>3 DEF SessionFails, FaultOf, Unlink, clients
    <3>4. CASE Crash(d)
      BY <3>4 DEF Crash, FaultOf, Ends, clients
    <3> QED BY <2>3, <3>1, <3>2, <3>3, <3>4 DEF SessionStep
  <2>4. ASSUME NEW c \in Watcher, ReadFile(c) \/ Probe(c) \/ Sweep(c) \/ Look(c) PROVE TypeOK'
    <3> c \in Client /\ c \notin Stopper /\ Watched(c) \in File
      BY DEF Watcher, Watched
    <3>1. CASE ReadFile(c)
      BY <3>1 DEF ReadFile, Goto, files, daemons, Watcher
    <3>2. CASE Probe(c)
      BY <3>2 DEF Probe, Goto, Forget, files, daemons, Watcher
    <3>3. CASE Sweep(c)
      BY <3>3 DEF Sweep, Goto, Unlink, Afterwards, daemons, Watcher
    <3>4. CASE Look(c)
      BY <3>4 DEF Look, Goto, files, daemons, Watcher
    <3> QED BY <2>4, <3>1, <3>2, <3>3, <3>4
  <2>5. ASSUME NEW s \in Starter, StartAnswered(s) \/ StartTimesOut(s) \/ StarterDies(s)
        PROVE  TypeOK'
    <3>1. CASE StartAnswered(s)
      BY <3>1 DEF StartAnswered, StarterReturns, Goto, files, daemons
    <3>2. CASE StartTimesOut(s)
      BY <3>2 DEF StartTimesOut, FaultOf, Abandoned, Ends, StarterReturns, Goto
    <3>3. CASE StarterDies(s)
      BY <3>3 DEF StarterDies, FaultOf, StarterReturns, Goto, Forget, files, daemons
    <3> QED BY <2>5, <3>1, <3>2, <3>3
  <2>6. ASSUME NEW s \in Starter, NEW d \in Daemon, Spawn(s, d) PROVE TypeOK'
    BY <2>6 DEF Spawn, Goto, files
  <2>7. ASSUME NEW k \in Stopper,
               \/ StopRead(k) \/ StopFindsNone(k) \/ StopSignals(k)
               \/ StopSees(k) \/ StopForces(k)
        PROVE  TypeOK'
    <3>1. CASE StopRead(k)
      BY <3>1 DEF StopRead, Goto, files, daemons
    <3>2. CASE StopFindsNone(k)
      BY <3>2 DEF StopFindsNone, Unlink, Goto, Forget, daemons
    <3>3. CASE StopSignals(k)
      BY <3>3 DEF StopSignals, Ends, Goto
    <3>4. CASE StopSees(k)
      BY <3>4 DEF StopSees, Goto, Forget, files, daemons
    <3>5. CASE StopForces(k)
      BY <3>5 DEF StopForces, Unlink, Goto, Forget, daemons
    <3> QED BY <2>7, <3>1, <3>2, <3>3, <3>4, <3>5
  <2> QED
    <3> HIDE DEF TypeOK
    <3> QED BY <2>1, <2>2, <2>3, <2>4, <2>5, <2>6, <2>7, NextCases
<1> QED BY <1>1, <1>2, PTL DEF Spec

-----------------------------------------------------------------------------
\* What the two files and the two tasks of a daemon have to do with each other.
\* ActiveMeansUp and ListedMeansServing are not inductive: they need to know who
\* may still fill a file, and that a session goes with a running process.
TasksAgree ==
    \A d \in Daemon :
        /\ sess[d] = "off" <=> ~Running(d)
        /\ main[d] = "leave" => sess[d] = "over"

FilesOfBorn == \A d \in Daemon : main[d] = "unborn" => file["pid"] # d /\ file["active"] # d

Fillers ==
    /\ \A d \in fds["pid"] : main[d] = "open"
    /\ \A d \in fds["active"] : sess[d] = "mark"

FilesInv == TasksAgree /\ FilesOfBorn /\ Fillers /\ ActiveMeansUp /\ ListedMeansServing

LEMMA FilesTruthful == Spec => []FilesInv
<1>1. Init => FilesInv
  BY ConstantsAssumption DEF Init, FilesInv, TasksAgree, FilesOfBorn, Fillers,
     ActiveMeansUp, ListedMeansServing, Running, File
<1>2. TypeOK /\ FilesInv /\ [Next]_vars => FilesInv'
  <2> SUFFICES ASSUME TypeOK, FilesInv, [Next]_vars PROVE FilesInv'
    OBVIOUS
  <2>0. /\ file \in [File -> Daemon \union {NoFile, Torn}] /\ fds \in [File -> SUBSET Daemon]
        /\ main \in [Daemon -> MainPhase] /\ sess \in [Daemon -> SessPhase]
        /\ NoFile \notin Daemon /\ Torn \notin Daemon
        /\ \A s \in Starter : phase[s] = "wait" => child[s] \in Daemon
        /\ \A k \in Stopper : phase[k] = "signal" => seen[k] \in Daemon
    BY ConstantsAssumption DEF TypeOK, Client
  <2> USE <2>0 DEF FilesInv, TasksAgree, FilesOfBorn, Fillers, ActiveMeansUp,
                   ListedMeansServing, Running, File, MainPhase, SessPhase
  <2>1. CASE UNCHANGED vars
    BY <2>1 DEF vars, files, daemons
  <2>2. ASSUME NEW d \in Daemon, DaemonStep(d) PROVE FilesInv'
    <3>1. CASE OpenPidFile(d)
      BY <3>1 DEF OpenPidFile, Truncate
    <3>2. CASE FillPidFile(d)
      BY <3>2 DEF FillPidFile, Fill
    <3>3. CASE PrintReady(d)
      BY <3>3 DEF PrintReady, files, MayAnnounce
    <3>4. CASE ReadyFails(d)
      BY <3>4 DEF ReadyFails, Unlink, Ends, files, MayAnnounce, HasGuard
    <3>5. CASE Park(d)
      BY <3>5 DEF Park, files
    <3>6. CASE JoinReturns(d)
      BY <3>6 DEF JoinReturns, Withdraw, Unlink
    <3>7. CASE TakeSignal(d)
      BY <3>7 DEF TakeSignal, Withdraw, Unlink
    <3>8. CASE ExitDaemon(d)
      BY <3>8 DEF ExitDaemon, Ends, files
    <3> QED BY <2>2, <3>1, <3>2, <3>3, <3>4, <3>5, <3>6, <3>7, <3>8 DEF DaemonStep
  <2>3. ASSUME NEW d \in Daemon, SessionStep(d) \/ SessionFails(d) \/ Crash(d) PROVE FilesInv'
    <3>1. CASE MarkActive(d)
      BY <3>1 DEF MarkActive, Truncate
    <3>2. CASE SessionUp(d)
      BY <3>2 DEF SessionUp, Fill
    <3>3. CASE SessionFails(d)
      BY <3>3 DEF SessionFails, Unlink, HasGuard
    <3>4. CASE Crash(d)
      BY <3>4 DEF Crash, Ends
    <3> QED BY <2>3, <3>1, <3>2, <3>3, <3>4 DEF SessionStep
  <2>4. ASSUME NEW c \in Watcher, ReadFile(c) \/ Probe(c) \/ Sweep(c) \/ Look(c) PROVE FilesInv'
    <3>1. CASE ReadFile(c) \/ Probe(c) \/ Look(c)
      BY <3>1 DEF ReadFile, Probe, Look, files, daemons
    <3>2. CASE Sweep(c)
      BY <3>2 DEF Sweep, Unlink, Watched, daemons
    <3> QED BY <2>4, <3>1, <3>2
  <2>5. ASSUME NEW s \in Starter, StartAnswered(s) \/ StartTimesOut(s) \/ StarterDies(s)
        PROVE  FilesInv'
    <3>1. CASE StartAnswered(s) \/ StarterDies(s)
      BY <3>1 DEF StartAnswered, StarterDies, files, daemons
    <3>2. CASE StartTimesOut(s)
      BY <3>2 DEF StartTimesOut, Abandoned, Ends
    <3> QED BY <2>5, <3>1, <3>2
  <2>6. ASSUME NEW s \in Starter, NEW d \in Daemon, Spawn(s, d) PROVE FilesInv'
    BY <2>6 DEF Spawn, files
  <2>7. ASSUME NEW k \in Stopper,
               \/ StopRead(k) \/ StopFindsNone(k) \/ StopSignals(k)
               \/ StopSees(k) \/ StopForces(k)
        PROVE  FilesInv'
    <3>1. CASE StopRead(k) \/ StopSees(k)
      BY <3>1 DEF StopRead, StopSees, files, daemons
    <3>2. CASE StopFindsNone(k) \/ StopForces(k)
      BY <3>2 DEF StopFindsNone, StopForces, Unlink, daemons
    <3>3. CASE StopSignals(k)
      BY <3>3 DEF StopSignals, Ends
    <3> QED BY <2>7, <3>1, <3>2, <3>3
  <2> QED
    <3> HIDE DEF FilesInv
    <3> QED BY <2>1, <2>2, <2>3, <2>4, <2>5, <2>6, <2>7, NextCases
<1> QED BY TypeCorrect, <1>1, <1>2, PTL DEF Spec

\* However many daemons, launchers and sweepers share the two files, the hook is
\* never shown a running daemon whose room is not ready (ActiveMeansUp) ...
THEOREM ActiveIsUp == Spec => []ActiveMeansUp
BY FilesTruthful, PTL DEF FilesInv

\* ... and a start or a stop never reads the PID of a daemon that is shutting down
\* (ListedMeansServing).
THEOREM ListedIsServing == Spec => []ListedMeansServing
BY FilesTruthful, PTL DEF FilesInv

-----------------------------------------------------------------------------
\* Starts made one after the other.  Hooks do not matter: they only sweep the
\* other file.
Sequential ==
    /\ \A s, t \in Starter : s = t
    /\ Lister = {} /\ Stopper = {}
    /\ "launcher" \notin Fault

\* Daemons that are in the room or may get there.
Current(d) == Running(d) /\ main[d] # "leave"

\* How far the PID file is in the hands of a current daemon.
Placed(d) ==
    \/ main[d] = "boot"
    \/ main[d] = "open" /\ file["pid"] = Torn /\ d \in fds["pid"]
    \/ main[d] \in {"filled", "ready", "park"} /\ file["pid"] = d

\* What a starter knows of the current daemon in each of its phases.
Known(s, d) ==
    /\ phase[s] = "wait" => child[s] = d
    /\ phase[s] = "probe" => seen[s] = d
    /\ phase[s] \notin {"sweep", "spawn"}

SoleInv ==
    /\ signalled = {}
    /\ \A d \in Daemon : Current(d) => Placed(d) /\ \A s \in Starter : Known(s, d)
    /\ \A d, e \in Daemon : Current(d) /\ Current(e) => d = e
    /\ \A d \in Daemon : main[d] \in {"boot", "open", "filled"} =>
          \E s \in Starter : phase[s] = "wait" /\ child[s] = d
    /\ \A s \in heard : /\ phase[s] = "wait"
                        /\ main[child[s]] \in {"ready", "park", "leave", "gone"}

LEMMA SoleDaemon ==
    ASSUME Sequential
    PROVE  Spec => []SoleInv
<1>1. Init => SoleInv
  BY DEF Init, SoleInv, Current, Running
<1>2. TypeOK /\ FilesInv /\ SoleInv /\ [Next]_vars => SoleInv'
  <2> SUFFICES ASSUME TypeOK, FilesInv, SoleInv, [Next]_vars PROVE SoleInv'
    OBVIOUS
  <2>0. /\ file \in [File -> Daemon \union {NoFile, Torn}] /\ fds \in [File -> SUBSET Daemon]
        /\ main \in [Daemon -> MainPhase] /\ sess \in [Daemon -> SessPhase]
        /\ phase \in [Client -> ClientPhase] /\ seen \in [Client -> Daemon \union {NoDaemon}]
        /\ child \in [Starter -> Daemon \union {NoDaemon}] /\ heard \subseteq Starter
        /\ NoFile \notin Daemon /\ Torn \notin Daemon /\ NoFile # Torn
        /\ \A s \in Starter : phase[s] = "wait" => child[s] \in Daemon
        /\ Starter \subseteq Client /\ Hook \subseteq Client
        /\ Starter \cap Hook = {}
    BY ConstantsAssumption DEF TypeOK, Client
  <2> USE Sequential, <2>0 DEF Sequential, SoleInv, Current, Placed, Known, Running,
                               File, MainPhase, SessPhase, ClientPhase
  <2>1. CASE UNCHANGED vars
    BY <2>1 DEF vars, files, daemons, clients
  <2>2. ASSUME NEW d \in Daemon, DaemonStep(d) PROVE SoleInv'
    <3>1. CASE OpenPidFile(d)
      BY <3>1 DEF OpenPidFile, Truncate, clients
    <3>2. CASE FillPidFile(d)
      BY <3>2 DEF FillPidFile, Fill, clients
    <3>3. CASE PrintReady(d)
      BY <3>3 DEF PrintReady, files, MayAnnounce
    <3>4. CASE ReadyFails(d)
      BY <3>4 DEF ReadyFails, MayAnnounce
    <3>5. CASE Park(d)
      BY <3>5 DEF Park, files, clients
    <3>6. CASE JoinReturns(d)
      BY <3>6 DEF JoinReturns, Withdraw, Unlink, clients
    <3>7. CASE TakeSignal(d)
      BY <3>7 DEF TakeSignal
    <3>8. CASE ExitDaemon(d)
      BY <3>8 DEF ExitDaemon, Ends, files, clients
    <3> QED BY <2>2, <3>1, <3>2, <3>3, <3>4, <3>5, <3>6, <3>7, <3>8 DEF DaemonStep
  <2>3. ASSUME NEW d \in Daemon, SessionStep(d) \/ SessionFails(d) \/ Crash(d) PROVE SoleInv'
    <3>1. CASE MarkActive(d)
      BY <3>1 DEF MarkActive, Truncate, clients
    <3>2. CASE SessionUp(d)
      BY <3>2 DEF SessionUp, Fill, clients
    <3>3. CASE SessionFails(d)
      BY <3>3 DEF SessionFails, Unlink, HasGuard, clients
    <3>4. CASE Crash(d)
      BY <3>4 DEF Crash, Ends, clients
    <3> QED BY <2>3, <3>1, <3>2, <3>3, <3>4 DEF SessionStep
  <2>4. ASSUME NEW s \in Starter, ReadFile(s) \/ Probe(s) \/ Sweep(s) \/ Look(s) PROVE SoleInv'
    <3> Watched(s) = "pid" /\ Afterwards(s) = "spawn"
      BY DEF Watched, Afterwards
    <3>1. CASE ReadFile(s)
      BY <3>1 DEF ReadFile, Goto, files, daemons
    <3>2. CASE Probe(s)
      BY <3>2 DEF Probe, Goto, Forget, Exists, files, daemons
    <3>3. CASE Sweep(s)
      BY <3>3 DEF Sweep, Unlink, Goto, daemons
    <3>4. CASE Look(s)
      BY <3>4 DEF Look, Goto, files, daemons
    <3> QED BY <2>4, <3>1, <3>2, <3>3, <3>4
  <2>5. ASSUME NEW h \in Hook, ReadFile(h) \/ Probe(h) \/ Sweep(h) \/ Look(h) PROVE SoleInv'
    <3> Watched(h) = "active" /\ h \notin Starter
      BY DEF Watched
    <3>1. CASE ReadFile(h) \/ Probe(h) \/ Look(h)
      BY <3>1 DEF ReadFile, Probe, Look, Goto, Forget, files, daemons
    <3>2. CASE Sweep(h)
      BY <3>2 DEF Sweep, Unlink, Goto, daemons
    <3> QED BY <2>5, <3>1, <3>2
  <2>6. ASSUME NEW c \in Watcher, ReadFile(c) \/ Probe(c) \/ Sweep(c) \/ Look(c) PROVE SoleInv'
    <3> HIDE DEF SoleInv
    <3> QED BY <2>4, <2>5, <2>6 DEF Watcher
  <2>7. ASSUME NEW s \in Starter, StartAnswered(s) \/ StartTimesOut(s) \/ StarterDies(s)
        PROVE  SoleInv'
    <3>1. CASE StartAnswered(s)
      BY <3>1 DEF StartAnswered, StarterReturns, Goto, files, daemons
    <3>2. CASE StartTimesOut(s)
      BY <3>2 DEF StartTimesOut, Abandoned, Ends, StarterReturns, Goto
    <3>3. CASE StarterDies(s)
      BY <3>3 DEF StarterDies, FaultOf
    <3> QED BY <2>7, <3>1, <3>2, <3>3
  <2>8. ASSUME NEW s \in Starter, NEW d \in Daemon, Spawn(s, d) PROVE SoleInv'
    BY <2>8 DEF Spawn, Goto, files
  <2>9. ASSUME NEW k \in Stopper PROVE SoleInv'
    BY <2>9
  <2> QED
    <3> HIDE DEF SoleInv
    <3> QED BY <2>1, <2>2, <2>3, <2>6, <2>7, <2>8, <2>9, NextCases
<1> QED BY TypeCorrect, FilesTruthful, <1>1, <1>2, PTL DEF Spec

\* Starts made one after the other, in any number and with any crashes, session
\* failures and timeouts between them, never have two daemons in the room (SoleSession).
THEOREM NeverTwo ==
    ASSUME Sequential
    PROVE  Spec => []SoleSession
<1>1. FilesInv /\ SoleInv => SoleSession
  BY DEF FilesInv, TasksAgree, SoleInv, SoleSession, InRoom, Current
<1> QED BY SoleDaemon, FilesTruthful, <1>1, PTL

\* Under the same conditions a daemon in the room that waits for its SIGTERM can be
\* found in the PID file, whatever the earlier ones left there (ParkedIsListed).
THEOREM FoundWhileParked ==
    ASSUME Sequential
    PROVE  Spec => []ParkedIsListed
<1>1. SoleInv => ParkedIsListed
  BY DEF SoleInv, ParkedIsListed, Current, Running, Placed
<1> QED BY SoleDaemon, <1>1, PTL

-----------------------------------------------------------------------------
\* The hook of MCProgress.

Proved == INSTANCE HookDeliveryProofs
              WITH Hook <- Prompter, InOrder <- TRUE, Faulty <- FALSE, pc <- hook

\* The instance of the proofs is that of the model.
LEMMA SameHook ==
    /\ H!Init <=> Proved!Init
    /\ H!Next <=> Proved!Next
    /\ H!NothingTwice <=> Proved!NothingTwice
<1>1. H!Init <=> Proved!Init
  BY DEF H!Init, Proved!Init, H!None, Proved!None, H!NothingFound, Proved!NothingFound,
         H!NoTarget, Proved!NoTarget
<1>2. H!NothingTwice <=> Proved!NothingTwice
  BY DEF H!NothingTwice, Proved!NothingTwice
<1> USE DEF H!None, Proved!None, H!NothingFound, Proved!NothingFound, H!NoTarget,
            Proved!NoTarget, H!Id, Proved!Id, H!daemons, Proved!daemons, H!locals,
            Proved!locals, H!history, Proved!history, H!Exit, Proved!Exit
<1>3. ASSUME NEW h PROVE H!ScanLog(h) <=> Proved!ScanLog(h)
  BY DEF H!ScanLog, Proved!ScanLog, H!Found, Proved!Found, H!Unseen, Proved!Unseen,
         H!LastFound, Proved!LastFound, H!NextRoom, Proved!NextRoom
<1>4. ASSUME NEW h PROVE H!Batch(h) = Proved!Batch(h) /\ H!Kept(h) = Proved!Kept(h)
  BY DEF H!Batch, Proved!Batch, H!Kept, Proved!Kept, H!Cardinality, Proved!Cardinality
<1>5. ASSUME NEW h PROVE H!WriteStdout(h) <=> Proved!WriteStdout(h)
  BY <1>4 DEF H!WriteStdout, Proved!WriteStdout
<1>6. ASSUME NEW h
      PROVE  /\ H!WriteNothing(h) <=> Proved!WriteNothing(h)
             /\ H!Done(h) <=> Proved!Done(h)
             /\ H!ScanFails(h) <=> Proved!ScanFails(h)
             /\ H!Dies(h) <=> Proved!Dies(h)
  BY <1>4 DEF H!WriteNothing, Proved!WriteNothing, H!Done, Proved!Done, H!ScanFails,
              Proved!ScanFails, H!Dies, Proved!Dies
<1>7. ASSUME NEW h, NEW r
      PROVE  /\ H!ReadCursor(h, r) <=> Proved!ReadCursor(h, r)
             /\ H!Advance(h, r) <=> Proved!Advance(h, r)
             /\ H!AdvanceFails(h, r) <=> Proved!AdvanceFails(h, r)
             /\ H!Fire(h, r) <=> Proved!Fire(h, r)
  BY DEF H!ReadCursor, Proved!ReadCursor, H!Advance, Proved!Advance, H!NewCursor,
         Proved!NewCursor, H!AdvanceFails, Proved!AdvanceFails, H!Fire, Proved!Fire
<1>8. ASSUME NEW r, NEW id PROVE H!AppendLog(r, id) <=> Proved!AppendLog(r, id)
  BY DEF H!AppendLog, Proved!AppendLog, H!Logged, Proved!Logged
<1>9. H!Next <=> Proved!Next
  BY <1>3, <1>5, <1>6, <1>7, <1>8 DEF H!Next, Proved!Next, H!Step, Proved!Step
<1> QED BY <1>1, <1>2, <1>9

\* With one hook at a time that does not fail, and daemons that append in order of id,
\* no message is injected twice (NothingTwice, of the run that asks for progress).
THEOREM HookPrintsOnce ==
    ASSUME \A h1, h2 \in Prompter : h1 = h2
    PROVE  PartsSpec => []NothingTwice
<1>1. Proved!Spec => []Proved!NothingTwice
  <2>1. Proved!ConstantsAssumption
    BY HookAssumption DEF H!ConstantsAssumption, Proved!ConstantsAssumption
  <2> QED BY <2>1, Proved!PrintedOnce
<1>2. PartsInit /\ part = "hook" => Proved!Init
  BY SameHook DEF PartsInit
<1>3. part = "hook" /\ [PartsNext]_<<part, vars, hookVars, advanceVars>>
        => (part = "hook")' /\ [Proved!Next]_(Proved!vars)
  BY SameHook DEF PartsNext, hookVars, Proved!vars, Proved!daemons, Proved!locals,
                  Proved!history
<1>4. ~(part = "hook") /\ [PartsNext]_<<part, vars, hookVars, advanceVars>>
        => ~(part = "hook")'
  BY DEF PartsNext
<1>5. Proved!NothingTwice => NothingTwice
  BY SameHook DEF NothingTwice
<1>6. ~(part = "hook") => NothingTwice
  BY DEF NothingTwice
<1> QED BY <1>1, <1>2, <1>3, <1>4, <1>5, <1>6, PTL DEF PartsSpec, Proved!Spec
=============================================================================

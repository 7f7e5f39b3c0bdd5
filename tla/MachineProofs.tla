---------------------------- MODULE MachineProofs ----------------------------
(***************************************************************************)
(* Theorems about Machine, for any number of sessions, paths, sweeps and   *)
(* host-bg daemons: what the starts and stops of the daemons promise, and  *)
(* that a session removes its own socket and no other.                     *)
(***************************************************************************)
EXTENDS Machine, TLAPS

\* What a step of the machine is for the sockets, and for the daemons.
SockStep ==
    \/ UNCHANGED sockVars
    \/ Sock!Sweep \/ Sock!WipeSockets \/ Sock!WipeMarker
    \/ \E s \in Session : Sock!Step(s)

HostStep == UNCHANGED hostVars \/ \E h \in Host : Hosts!Step(h)

LEMMA StepsOfParts == [Next]_vars => SockStep /\ HostStep
<1> SUFFICES ASSUME [Next]_vars PROVE SockStep /\ HostStep
  OBVIOUS
<1>1. CASE Sock!Next /\ UNCHANGED <<hostVars, clearVars>>
  BY <1>1 DEF Sock!Next, SockStep, HostStep
<1>2. CASE Hosts!Next /\ UNCHANGED <<sockVars, clearVars>>
  BY <1>2 DEF Hosts!Next, SockStep, HostStep
<1>3. CASE Clear
  <2>1. ASSUME NEW h \in Host, ClearStops(h) PROVE SockStep /\ HostStep
    BY <2>1 DEF ClearStops, SockStep, HostStep, Hosts!Step
  <2>2. CASE ClearStarts \/ ClearStopped \/ ClearGoesOn \/ ClearRooms \/ ClearTmp
    BY <2>2 DEF ClearStarts, ClearStopped, ClearGoesOn, ClearRooms, ClearTmp,
                SockStep, HostStep
  <2> QED BY <1>3, <2>1, <2>2 DEF Clear
<1>4. CASE UNCHANGED vars
  BY <1>4 DEF vars, SockStep, HostStep
<1> QED BY <1>1, <1>2, <1>3, <1>4 DEF Next

-----------------------------------------------------------------------------
\* The daemons.  Types first.

LEMMA HostTypes == Hosts!TypeOK /\ HostStep => Hosts!TypeOK'
<1> SUFFICES ASSUME Hosts!TypeOK, HostStep PROVE Hosts!TypeOK'
  OBVIOUS
<1> USE DEF Hosts!TypeOK
<1>1. CASE UNCHANGED hostVars
  BY <1>1 DEF hostVars
<1>2. ASSUME NEW h \in Host, Hosts!Step(h) PROVE Hosts!TypeOK'
  <2>1. CASE Hosts!Start(h) \/ Hosts!StartReturns(h) \/ Hosts!StartQuits(h)
    BY <2>1 DEF Hosts!Start, Hosts!StartReturns, Hosts!StartQuits, Hosts!Killed
  <2>2. CASE Hosts!Create(h) \/ Hosts!Fill(h)
    BY <2>2 DEF Hosts!Create, Hosts!Fill
  <2>3. CASE Hosts!Tell(h) \/ Hosts!Park(h)
    BY <2>3 DEF Hosts!Tell, Hosts!MayTell, Hosts!Park
  <2>4. CASE Hosts!Terminate(h) \/ Hosts!Die(h)
    BY <2>4 DEF Hosts!Terminate, Hosts!Die, Hosts!Alive
  <2>5. CASE Hosts!RemoveDead(h) \/ Hosts!ReadGarbage(h) \/ Hosts!RemoveGarbage(h)
    BY <2>5 DEF Hosts!RemoveDead, Hosts!ReadGarbage, Hosts!RemoveGarbage
  <2>6. CASE Hosts!Stop(h) \/ Hosts!Signal(h) \/ Hosts!Poll(h)
    BY <2>6 DEF Hosts!Stop, Hosts!Signal, Hosts!Poll, Hosts!Alive
  <2> QED BY <1>2, <2>1, <2>2, <2>3, <2>4, <2>5, <2>6 DEF Hosts!Step
<1> QED BY <1>1, <1>2 DEF HostStep

\* What the starts and stops rely on: a daemon that serves has its file, but for one
\* that a list or an impatient stop took away, and a stop found its daemon served.
HostInv ==
    \A h \in Host :
        /\ starter[h] = "failed" => ~Hosts!Alive(h)
        /\ starter[h] = "ok" => daemon[h] \in {"ready", "parked", "leaving", "gone"}
        /\ daemon[h] \in {"writing", "filled", "ready", "parked"} =>
              file[h] # "none" \/ h \in swept \/ stopper[h] = "forced"
        /\ stopper[h] # "idle" => daemon[h] \notin {"none", "boot"}
        /\ stopper[h] \in {"stopped", "already"} => ~Hosts!Serving(h) \/ h \in swept

LEMMA HostInvariance == Hosts!TypeOK /\ HostInv /\ HostStep => HostInv'
<1> SUFFICES ASSUME Hosts!TypeOK, HostInv, HostStep PROVE HostInv'
  OBVIOUS
<1> USE DEF Hosts!TypeOK, HostInv, Hosts!Alive, Hosts!Serving
<1>1. CASE UNCHANGED hostVars
  BY <1>1 DEF hostVars
<1>2. ASSUME NEW h \in Host, Hosts!Step(h) PROVE HostInv'
  <2>1. CASE Hosts!Start(h) \/ Hosts!StartQuits(h)
    BY <2>1 DEF Hosts!Start, Hosts!StartQuits
  <2>2. CASE Hosts!StartReturns(h)
    BY <2>2 DEF Hosts!StartReturns, Hosts!Killed
  <2>3. CASE Hosts!Create(h) \/ Hosts!Fill(h)
    BY <2>3 DEF Hosts!Create, Hosts!Fill
  <2>4. CASE Hosts!Tell(h) \/ Hosts!Park(h)
    BY <2>4 DEF Hosts!Tell, Hosts!MayTell, Hosts!Park
  <2>5. CASE Hosts!Terminate(h)
    BY <2>5 DEF Hosts!Terminate
  <2>6. CASE Hosts!Die(h)
    BY <2>6 DEF Hosts!Die
  <2>7. CASE Hosts!RemoveDead(h)
    BY <2>7 DEF Hosts!RemoveDead, Hosts!Dead
  <2>8. CASE Hosts!ReadGarbage(h) \/ Hosts!RemoveGarbage(h)
    BY <2>8 DEF Hosts!ReadGarbage, Hosts!RemoveGarbage
  <2>9. CASE Hosts!Stop(h)
    BY <2>9 DEF Hosts!Stop
  <2>10. CASE Hosts!Signal(h)
    BY <2>10 DEF Hosts!Signal
  <2>11. CASE Hosts!Poll(h)
    BY <2>11 DEF Hosts!Poll
  <2> QED BY <1>2, <2>1, <2>2, <2>3, <2>4, <2>5, <2>6, <2>7, <2>8, <2>9, <2>10, <2>11
          DEF Hosts!Step
<1> QED BY <1>1, <1>2 DEF HostStep

LEMMA HostsInvariant == Spec => [](Hosts!TypeOK /\ HostInv)
<1>1. Init => Hosts!TypeOK /\ HostInv
  BY DEF Init, Hosts!Init, Hosts!TypeOK, HostInv, Hosts!Alive
<1>2. Hosts!TypeOK /\ HostInv /\ [Next]_vars => (Hosts!TypeOK /\ HostInv)'
  BY StepsOfParts, HostTypes, HostInvariance
<1> QED BY <1>1, <1>2, PTL DEF Spec

\* A `host-bg start` that fails leaves no daemon behind: the child is killed, and
\* nothing brings it back.
THEOREM FailedStartIsClean == Spec => []FailedLeavesNone
<1>1. HostInv => FailedLeavesNone
  BY DEF HostInv, FailedLeavesNone, Hosts!FailedLeavesNone
<1> QED BY <1>1, HostsInvariant, PTL

\* A `host-bg start` that succeeds leaves a daemon that list shows, for the file is
\* there before READY is said, and only a list that read it half written or a stop
\* that gave up waiting takes it from a daemon that serves.
THEOREM ReadyMeansListed == Spec => []ReadyIsListed
<1>1. Hosts!TypeOK /\ HostInv => ReadyIsListed
  BY DEF Hosts!TypeOK, HostInv, ReadyIsListed, Hosts!ReadyIsListed, Hosts!Serving
<1> QED BY <1>1, HostsInvariant, PTL

\* A `host-bg stop` that reports success tells the truth, whatever list, start and
\* other stops do meanwhile.
THEOREM StoppedMeansGone == Spec => []StoppedIsGone
<1>1. HostInv => StoppedIsGone
  BY DEF HostInv, StoppedIsGone, Hosts!StoppedIsGone
<1> QED BY <1>1, HostsInvariant, PTL

-----------------------------------------------------------------------------
\* The sockets.

LEMMA SockTypes == Sock!TypeOK /\ SockStep => Sock!TypeOK'
<1> SUFFICES ASSUME Sock!TypeOK, SockStep PROVE Sock!TypeOK'
  OBVIOUS
<1> USE MachineAssumption DEF Sock!TypeOK, Sock!files, Sock!history
<1>1. CASE UNCHANGED sockVars
  BY <1>1 DEF sockVars
<1>2. CASE Sock!Sweep \/ Sock!WipeSockets \/ Sock!WipeMarker
  <2>1. sweeps' \in 0..MaxSweeps
    BY <1>2 DEF Sock!Sweep, Sock!WipeSockets, Sock!WipeMarker
  <2>2. CASE Sock!Sweep
    BY <2>1, <2>2 DEF Sock!Sweep
  <2>3. CASE Sock!WipeSockets
    BY <2>1, <2>3 DEF Sock!WipeSockets
  <2>4. CASE Sock!WipeMarker
    BY <2>1, <2>4 DEF Sock!WipeMarker
  <2> QED BY <1>2, <2>2, <2>3, <2>4
<1>3. ASSUME NEW s \in Session, Sock!Step(s) PROVE Sock!TypeOK'
  <2>1. ASSUME NEW p \in Path, Sock!Open(s, p) PROVE Sock!TypeOK'
    BY <2>1 DEF Sock!Open, Sock!Draw
  <2>2. ASSUME NEW p \in Path, Sock!Watch(s, p) PROVE Sock!TypeOK'
    BY <2>2 DEF Sock!Watch, Sock!Draw
  <2>3. CASE Sock!Bind(s)
    BY <2>3 DEF Sock!Bind
  <2>4. CASE Sock!Rebind(s)
    <3>1. new[s] \in Path /\ sess[s] # "off"
      BY <2>4 DEF Sock!Rebind
    <3>2. /\ sockets' \subseteq Path /\ (~tree' => sockets' = {})
          /\ own' \in [Session -> Path \union {NoPath}]
          /\ bound' \in [Session -> Path \union {NoPath}]
          /\ \A t \in Session : t # s => own'[t] = own[t]
      <4>1. CASE tree
        <5>1. /\ sockets' = sockets \union {new[s]} /\ tree' = tree
              /\ own' = [own EXCEPT ![s] = new[s]]
              /\ bound' = [bound EXCEPT ![s] = new[s]]
          BY <2>4, <4>1 DEF Sock!Rebind, Sock!Published
        <5>2. sockets' \subseteq Path /\ tree'
          BY <3>1, <4>1, <5>1
        <5>3. own' \in [Session -> Path \union {NoPath}]
          BY <3>1, <5>1
        <5>4. bound' \in [Session -> Path \union {NoPath}]
          BY <3>1, <5>1
        <5> QED BY <5>1, <5>2, <5>3, <5>4
      <4>2. CASE ~tree
        BY <2>4, <4>2 DEF Sock!Rebind
      <4> QED BY <4>1, <4>2
    <3>3. /\ task' \in [Session -> {"none", "serving", "rebinding"}]
          /\ task'[s] # "rebinding" /\ new'[s] = NoPath
          /\ \A t \in Session : t # s => task'[t] = task[t] /\ new'[t] = new[t]
          /\ new' \in [Session -> Path \union {NoPath}]
      BY <2>4 DEF Sock!Rebind
    <3>4. UNCHANGED <<sess, tree, marker, sweeps, solo, cut>>
      BY <2>4 DEF Sock!Rebind
    <3> QED BY <3>1, <3>2, <3>3, <3>4
  <2>5. CASE Sock!End(s)
    <3>1. sockets' \subseteq Path /\ (~tree' => sockets' = {})
      BY <2>5 DEF Sock!End, Sock!Drop
    <3> QED BY <2>5, <3>1 DEF Sock!End, Sock!Opened, Sock!Drop
  <2>6. CASE Sock!EndDetached(s)
    <3>1. sockets' \subseteq Path /\ (~tree' => sockets' = {})
      BY <2>6 DEF Sock!EndDetached, Sock!Drop
    <3> QED BY <2>6, <3>1 DEF Sock!EndDetached, Sock!Opened, Sock!Drop
  <2>7. CASE Sock!Kill(s)
    BY <2>7 DEF Sock!Kill
  <2> QED BY <1>3, <2>1, <2>2, <2>3, <2>4, <2>5, <2>6, <2>7 DEF Sock!Step
<1> QED BY <1>1, <1>2, <1>3 DEF SockStep

\* No path is two sessions', bound or about to be.
Distinct(s, t) ==
    /\ own[s] # NoPath => own[s] # own[t] /\ own[s] # new[t]
    /\ new[s] # NoPath => new[s] # new[t]

\* Why a session removes its own socket: its guard has the path it bound last.
SockInv ==
    /\ \A s, t \in Session : s # t => Distinct(s, t)
    /\ \A s \in Session :
          /\ new[s] # NoPath /\ task[s] = "none" => new[s] = own[s]
          /\ bound[s] # NoPath => bound[s] = own[s]
          /\ sess[s] = "over" /\ task[s] = "none" /\ s \notin cut => bound[s] \notin sockets

LEMMA SockInvariance == Sock!TypeOK /\ SockInv /\ SockStep => SockInv'
<1> SUFFICES ASSUME Sock!TypeOK, SockInv, SockStep PROVE SockInv'
  OBVIOUS
<1> USE MachineAssumption DEF Sock!TypeOK, SockInv, Distinct, Sock!files, Sock!history
<1>1. CASE UNCHANGED sockVars
  BY <1>1 DEF sockVars
<1>2. CASE Sock!Sweep \/ Sock!WipeSockets \/ Sock!WipeMarker
  BY <1>2 DEF Sock!Sweep, Sock!WipeSockets, Sock!WipeMarker
<1>3. ASSUME NEW s \in Session, Sock!Step(s) PROVE SockInv'
  <2>1. ASSUME NEW p \in Path, Sock!Open(s, p) PROVE SockInv'
    BY <2>1 DEF Sock!Open, Sock!Draw, Sock!InUse
  <2>2. ASSUME NEW p \in Path, Sock!Watch(s, p) PROVE SockInv'
    BY <2>2 DEF Sock!Watch, Sock!Draw, Sock!InUse
  <2>3. CASE Sock!Bind(s)
    BY <2>3 DEF Sock!Bind
  <2>4. CASE Sock!Rebind(s)
    BY <2>4 DEF Sock!Rebind, Sock!Published
  <2>5. CASE Sock!End(s)
    <3>1. UNCHANGED <<own, new, bound>> /\ sockets' = sockets \ {own[s]}
      BY <2>5 DEF Sock!End, Sock!Drop
    <3>2. /\ \A t \in Session : t # s => sess'[t] = sess[t] /\ task'[t] = task[t]
          /\ \A t \in Session : t # s => (t \in cut' <=> t \in cut)
          /\ task'[s] = "none" /\ s \notin cut' => task[s] # "rebinding"
      BY <2>5 DEF Sock!End
    <3>3. new[s] # NoPath => task'[s] = "rebinding"
      BY <2>5 DEF Sock!End, Sock!Opened
    <3>4. bound[s] \notin sockets'
      BY <3>1
    <3> QED BY <3>1, <3>2, <3>3, <3>4
  <2>6. CASE Sock!EndDetached(s)
    BY <2>6 DEF Sock!EndDetached, Sock!Opened, Sock!Drop
  <2>7. CASE Sock!Kill(s)
    <3>1. /\ own'[s] = NoPath /\ new'[s] = NoPath /\ bound'[s] = NoPath /\ sockets' = sockets
          /\ cut' = cut
          /\ \A t \in Session : t # s =>
                /\ own'[t] = own[t] /\ new'[t] = new[t] /\ bound'[t] = bound[t]
                /\ sess'[t] = sess[t] /\ task'[t] = task[t]
      BY <2>7 DEF Sock!Kill
    <3>2. NoPath \notin sockets'
      BY <3>1
    <3> QED BY <3>1, <3>2
  <2> QED BY <1>3, <2>1, <2>2, <2>3, <2>4, <2>5, <2>6, <2>7 DEF Sock!Step
<1> QED BY <1>1, <1>2, <1>3 DEF SockStep

LEMMA SocksInvariant == Spec => [](Sock!TypeOK /\ SockInv)
<1>1. Init => Sock!TypeOK /\ SockInv
  <2> SUFFICES ASSUME Sock!Init PROVE Sock!TypeOK /\ SockInv
    BY DEF Init
  <2>1. Sock!TypeOK
    <3>1. sweeps \in 0..MaxSweeps
      BY MachineAssumption DEF Sock!Init
    <3>2. /\ sess \in [Session -> {"off", "up", "over"}]
          /\ task \in [Session -> {"none", "serving", "rebinding"}]
          /\ own \in [Session -> Path \union {NoPath}]
          /\ new \in [Session -> Path \union {NoPath}]
          /\ bound \in [Session -> Path \union {NoPath}]
      BY DEF Sock!Init
    <3>3. \A s \in Session : task[s] = "none" /\ new[s] = NoPath /\ own[s] = NoPath
      BY DEF Sock!Init
    <3>4. /\ sockets \subseteq Path /\ tree \in BOOLEAN /\ marker \in Path \union {NoPath}
          /\ solo \subseteq Session /\ cut \subseteq Session
          /\ ~tree => sockets = {}
      BY DEF Sock!Init
    <3> QED BY <3>1, <3>2, <3>3, <3>4 DEF Sock!TypeOK
  <2>2. SockInv
    BY DEF Sock!Init, SockInv, Distinct
  <2> QED BY <2>1, <2>2
<1>2. Sock!TypeOK /\ SockInv /\ [Next]_vars => (Sock!TypeOK /\ SockInv)'
  BY StepsOfParts, SockTypes, SockInvariance
<1> QED BY <1>1, <1>2, PTL DEF Spec

\* A session that has ended leaves no socket file, wherever sweeps and `clear` made
\* its watchdog move it: the guard's path is swapped with every rebind.
THEOREM EndsCleanly == Spec => []NothingLeaked
<1>1. SockInv => NothingLeaked
  BY DEF SockInv, NothingLeaked, Sock!NothingLeaked
<1> QED BY <1>1, SocksInvariant, PTL

\* Paths are never shared, so the Drop of one session's guard cannot take away the
\* socket of another, however often both have been moved.
THEOREM DropsItsOwn == Spec => OwnSocketOnly
<1> DEFINE Kept == \A s \in Session :
                      own[s] \in sockets \ sockets' => sess'[s] = "over" \/ ~tree'
<1>1. Sock!TypeOK /\ SockInv /\ [Next]_vars => [Kept]_(Sock!vars)
  <2> SUFFICES ASSUME Sock!TypeOK, SockInv, SockStep,
                      NEW s \in Session, own[s] \in sockets \ sockets'
               PROVE  sess'[s] = "over" \/ ~tree'
    BY StepsOfParts
  <2> USE MachineAssumption DEF Sock!TypeOK, Sock!files, Sock!history
  <2>1. CASE UNCHANGED sockVars
    BY <2>1 DEF sockVars
  <2>2. CASE Sock!Sweep \/ Sock!WipeSockets \/ Sock!WipeMarker
    BY <2>2 DEF Sock!Sweep, Sock!WipeSockets, Sock!WipeMarker
  <2>3. ASSUME NEW t \in Session, Sock!Step(t) PROVE sess'[s] = "over" \/ ~tree'
    <3>1. CASE \E p \in Path : Sock!Open(t, p) \/ Sock!Watch(t, p)
      BY <3>1 DEF Sock!Open, Sock!Watch, Sock!Draw
    <3>2. CASE Sock!Bind(t) \/ Sock!Rebind(t) \/ Sock!Kill(t)
      BY <3>2 DEF Sock!Bind, Sock!Rebind, Sock!Kill
    <3>3. CASE Sock!End(t) \/ Sock!EndDetached(t)
      <4>1. sockets' = sockets \ {own[t]} /\ sess'[t] = "over"
        BY <3>3 DEF Sock!End, Sock!EndDetached, Sock!Drop
      <4>2. own[s] = own[t] /\ own[s] # NoPath
        BY <4>1
      <4>3. s = t
        BY <4>2 DEF SockInv, Distinct
      <4> QED BY <4>1, <4>3
    <3> QED BY <2>3, <3>1, <3>2, <3>3 DEF Sock!Step
  <2> QED BY <2>1, <2>2, <2>3 DEF SockStep
<1> QED BY <1>1, SocksInvariant, PTL DEF Spec, OwnSocketOnly, Sock!OwnSocketOnly

-----------------------------------------------------------------------------
\* Every variable keeps its range; what is on disk fits to what runs.
THEOREM TypeCorrect == Spec => []TypeOK
<1> DEFINE ClearTypes == /\ clear \in {"idle", "hosts", "rooms", "tmp", "done", "failed"}
                         /\ purge \in BOOLEAN
                         /\ todo \subseteq Host
                         /\ doing \in Host \union {NoHost}
                         /\ clear # "hosts" => todo = {} /\ doing = NoHost
<1>1. Init => ClearTypes
  BY DEF Init
<1>2. ClearTypes /\ [Next]_vars => ClearTypes'
  <2> SUFFICES ASSUME ClearTypes, [Next]_vars PROVE ClearTypes'
    OBVIOUS
  <2>1. CASE UNCHANGED clearVars
    BY <2>1 DEF clearVars
  <2>2. CASE Clear
    <3>1. ASSUME NEW h \in Host, ClearStops(h) PROVE ClearTypes'
      BY <3>1 DEF ClearStops
    <3>2. CASE ClearStarts
      BY <3>2 DEF ClearStarts
    <3>3. CASE ClearStopped
      BY <3>3 DEF ClearStopped
    <3>4. CASE ClearGoesOn \/ ClearRooms \/ ClearTmp
      BY <3>4 DEF ClearGoesOn, ClearRooms, ClearTmp, After
    <3> QED BY <2>2, <3>1, <3>2, <3>3, <3>4 DEF Clear
  <2> QED BY <2>1, <2>2 DEF Next, vars, clearVars
<1>3. Sock!TypeOK /\ Hosts!TypeOK /\ ClearTypes => TypeOK
  BY DEF TypeOK
<1> QED BY <1>1, <1>2, <1>3, HostsInvariant, SocksInvariant, PTL DEF Spec
=============================================================================

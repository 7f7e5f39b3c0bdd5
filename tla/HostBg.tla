-------------------------------- MODULE HostBg --------------------------------
(***************************************************************************)
(* The host-bg daemons of a machine (host_bg.rs).  `host-bg start` spawns  *)
(* a daemon, which draws a topic of its own, and waits for its READY line; *)
(* `host-bg list` sweeps what is dead or does not parse; `host-bg stop`    *)
(* signals a daemon and waits for its PID file to go.  As every daemon has *)
(* its own topic, its file is its alone; but the file is created, then     *)
(* filled, under the eyes of list.                                         *)
(***************************************************************************)
EXTENDS Naturals, FiniteSets

CONSTANTS
    Host         \* bound: the daemons started; a PID is not reused

VARIABLES
    starter,     \* per host: its `start`
    daemon,      \* per host: its process
    file,        \* per host: its PID file
    term,        \* hosts with a SIGTERM to handle
    lister,      \* per host: what a `list` does with its entry
    stopper,     \* per host: a `stop` of it
    \* History:
    swept        \* hosts whose file a list took for garbage

vars == <<starter, daemon, file, term, lister, stopper, swept>>

TypeOK ==
    /\ starter \in [Host -> {"none", "waiting", "ok", "failed", "quit"}]
    /\ daemon \in [Host -> {"none", "boot", "writing", "filled", "ready", "parked",
                           "leaving", "gone"}]
    /\ file \in [Host -> {"none", "torn", "full"}]
    /\ term \subseteq Host
    /\ lister \in [Host -> {"idle", "garbage"}]
    /\ stopper \in [Host -> {"idle", "signal", "poll", "stopped", "already", "forced"}]
    /\ swept \subseteq Host
    /\ \A h \in Host :
          /\ daemon[h] = "none" <=> starter[h] = "none"
          /\ file[h] = "torn" => daemon[h] \in {"writing", "gone"}
          /\ daemon[h] \in {"none", "boot"} => file[h] = "none"
          /\ h \in term => daemon[h] # "none"

Init ==
    /\ starter = [h \in Host |-> "none"]
    /\ daemon = [h \in Host |-> "none"]
    /\ file = [h \in Host |-> "none"]
    /\ term = {}
    /\ lister = [h \in Host |-> "idle"]
    /\ stopper = [h \in Host |-> "idle"]
    /\ swept = {}

Alive(h) == daemon[h] \notin {"none", "gone"}

\* Up, and not on its way out.
Serving(h) == daemon[h] \notin {"none", "leaving", "gone"}

-----------------------------------------------------------------------------
\* run_start

Start(h) ==
    /\ starter[h] = "none"
    /\ starter' = [starter EXCEPT ![h] = "waiting"]
    /\ daemon' = [daemon EXCEPT ![h] = "boot"]
    /\ UNCHANGED <<file, term, lister, stopper, swept>>

\* Mutant of Killed: a start that gives up lets its child be.
KilledNot(h) == daemon

\* child.kill
Killed(h) == [daemon EXCEPT ![h] = "gone"]

\* READY has come, or the pipe was closed without it, or 30 seconds are over.
StartReturns(h) ==
    /\ starter[h] = "waiting"
    /\ \/ /\ daemon[h] \in {"ready", "parked", "leaving"}
          /\ starter' = [starter EXCEPT ![h] = "ok"]
          /\ UNCHANGED daemon
       \/ /\ daemon[h] = "gone"
          /\ starter' \in {[starter EXCEPT ![h] = "ok"], [starter EXCEPT ![h] = "failed"]}
          /\ UNCHANGED daemon
       \/ /\ starter' = [starter EXCEPT ![h] = "failed"]
          /\ daemon' = Killed(h)
    /\ UNCHANGED <<file, term, lister, stopper, swept>>

\* The starter is interrupted; its child has a session of its own.
StartQuits(h) ==
    /\ starter[h] = "waiting"
    /\ starter' = [starter EXCEPT ![h] = "quit"]
    /\ UNCHANGED <<daemon, file, term, lister, stopper, swept>>

-----------------------------------------------------------------------------
\* daemon_async

\* The topic is served; the PID file is created, then filled.
Create(h) ==
    /\ daemon[h] = "boot"
    /\ daemon' = [daemon EXCEPT ![h] = "writing"]
    /\ file' = [file EXCEPT ![h] = "torn"]
    /\ UNCHANGED <<starter, term, lister, stopper, swept>>

Fill(h) ==
    /\ daemon[h] = "writing"
    /\ daemon' = [daemon EXCEPT ![h] = "filled"]
    /\ file' = [file EXCEPT ![h] = IF @ = "torn" THEN "full" ELSE @]
    /\ UNCHANGED <<starter, term, lister, stopper, swept>>

\* Mutant of MayTell: READY is printed before the file is there.
MayTellAtOnce(h) == daemon[h] = "writing"

\* READY comes after the file.
MayTell(h) == daemon[h] = "filled"

Tell(h) ==
    /\ MayTell(h)
    /\ daemon' = [daemon EXCEPT ![h] = "ready"]
    /\ UNCHANGED <<starter, file, term, lister, stopper, swept>>

\* The handlers of SIGTERM and SIGINT are installed.
Park(h) ==
    /\ daemon[h] = "ready"
    /\ daemon' = [daemon EXCEPT ![h] = "parked"]
    /\ UNCHANGED <<starter, file, term, lister, stopper, swept>>

\* SIGTERM: the file is removed, once there is a handler; it is fatal before.
Terminate(h) ==
    /\ h \in term
    /\ term' = term \ {h}
    /\ IF daemon[h] = "parked"
       THEN /\ daemon' = [daemon EXCEPT ![h] = "leaving"]
            /\ file' = [file EXCEPT ![h] = "none"]
       ELSE /\ daemon' = [daemon EXCEPT ![h] = IF @ = "leaving" THEN @ ELSE "gone"]
            /\ UNCHANGED file
    /\ UNCHANGED <<starter, lister, stopper, swept>>

\* The end: after a SIGTERM, or an error, a kill, a reboot.  What is on disk stays.
Die(h) ==
    /\ Alive(h)
    /\ daemon' = [daemon EXCEPT ![h] = "gone"]
    /\ term' = term \ {h}
    /\ UNCHANGED <<starter, file, lister, stopper, swept>>

-----------------------------------------------------------------------------
\* list_running

\* Mutant of Dead: the PID of an entry is not probed.
DeadUnprobed(h) == file[h] = "full"

Dead(h) == file[h] = "full" /\ ~Alive(h)

\* A dead daemon's entry goes; nobody else can have written it.
RemoveDead(h) ==
    /\ Dead(h)
    /\ file' = [file EXCEPT ![h] = "none"]
    /\ UNCHANGED <<starter, daemon, term, lister, stopper, swept>>

\* What does not parse is garbage, and may be full by the time it is removed.
ReadGarbage(h) ==
    /\ lister[h] = "idle" /\ file[h] = "torn"
    /\ lister' = [lister EXCEPT ![h] = "garbage"]
    /\ UNCHANGED <<starter, daemon, file, term, stopper, swept>>

RemoveGarbage(h) ==
    /\ lister[h] = "garbage"
    /\ lister' = [lister EXCEPT ![h] = "idle"]
    /\ file' = [file EXCEPT ![h] = "none"]
    /\ swept' = swept \union {h}
    /\ UNCHANGED <<starter, daemon, term, stopper>>

-----------------------------------------------------------------------------
\* run_stop

\* Entries that do not parse are passed over.
Stop(h) ==
    /\ stopper[h] \notin {"signal", "poll"} /\ file[h] = "full"
    /\ stopper' = [stopper EXCEPT ![h] = "signal"]
    /\ UNCHANGED <<starter, daemon, file, term, lister, swept>>

Signal(h) ==
    /\ stopper[h] = "signal"
    /\ IF Alive(h)
       THEN /\ term' = term \union {h}
            /\ stopper' = [stopper EXCEPT ![h] = "poll"]
            /\ UNCHANGED file
       ELSE /\ stopper' = [stopper EXCEPT ![h] = "already"]
            /\ file' = [file EXCEPT ![h] = "none"]
            /\ UNCHANGED term
    /\ UNCHANGED <<starter, daemon, lister, swept>>

\* The file is gone, or ten seconds are over, and it is removed.
Poll(h) ==
    /\ stopper[h] = "poll"
    /\ stopper' = [stopper EXCEPT ![h] = IF file[h] = "none" THEN "stopped" ELSE "forced"]
    /\ file' = [file EXCEPT ![h] = "none"]
    /\ UNCHANGED <<starter, daemon, term, lister, swept>>

Step(h) ==
    \/ Start(h) \/ StartReturns(h) \/ StartQuits(h)
    \/ Create(h) \/ Fill(h) \/ Tell(h) \/ Park(h) \/ Terminate(h) \/ Die(h)
    \/ RemoveDead(h) \/ ReadGarbage(h) \/ RemoveGarbage(h)
    \/ Stop(h) \/ Signal(h) \/ Poll(h)

Next == \E h \in Host : Step(h)
-----------------------------------------------------------------------------
\* Properties

\* A start that fails leaves no daemon behind, however late its READY comes.
FailedLeavesNone == \A h \in Host : starter[h] = "failed" => ~Alive(h)

\* A start that succeeds leaves a daemon that list shows, or one that is gone or on
\* its way out, or one whose file a list took away that had read it half written, or
\* a stop that gave up waiting ("Write PID file BEFORE printing READY").
ReadyIsListed ==
    \A h \in Host : starter[h] = "ok" =>
        file[h] = "full" \/ ~Serving(h) \/ h \in swept \/ stopper[h] = "forced"

\* When stop says that a daemon has stopped, it is gone or about to go, or a list took
\* its file away while it was being written; a daemon with its handler still missing is
\* no exception.
StoppedIsGone ==
    \A h \in Host : stopper[h] \in {"stopped", "already"} => ~Serving(h) \/ h \in swept
=============================================================================

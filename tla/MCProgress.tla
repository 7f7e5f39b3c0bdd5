----------------------------- MODULE MCProgress -----------------------------
(***************************************************************************)
(* What must come to an end, or to good, as long as processes go on: the   *)
(* daemon of a room that is started again after every fault, one hook of a *)
(* session, and hooks inside advance_cursor whose calls do not fail.  The  *)
(* first state picks one of the three; the daemon's variables then stay as *)
(* they are, and those of the other two are Idle.                          *)
(***************************************************************************)
EXTENDS DaemonLifecycle, TLC

CONSTANTS
    Prompter, Room, MaxId, Budget,
    Proc, CursorId, Inode, RaceRetryLimit, NoId, NoInode, NoProc

VARIABLES
    part,
    log, cursor, hook, todo, room, from, unread, target, injected, dropped, again,
    path, content, lock, synced, onDisk, pc, fd, tmp, attempt, value, rfd, overtaken

hookVars ==
    <<log, cursor, hook, todo, room, from, unread, target, injected, dropped, again>>
advanceVars ==
    <<path, content, lock, synced, onDisk, pc, fd, tmp, attempt, value, rfd, overtaken>>

H == INSTANCE HookDelivery WITH Hook <- Prompter, InOrder <- TRUE, Faulty <- FALSE, pc <- hook
A == INSTANCE CursorFile WITH Id <- CursorId, Reader <- {}, Faulty <- FALSE

ASSUME HookAssumption == H!ConstantsAssumption

Idle(v) == v = "idle"

IdleHook ==
    /\ Idle(log) /\ Idle(cursor) /\ Idle(hook) /\ Idle(todo) /\ Idle(room) /\ Idle(from)
    /\ Idle(unread) /\ Idle(target) /\ Idle(injected) /\ Idle(dropped) /\ Idle(again)

IdleAdvance ==
    /\ Idle(path) /\ Idle(content) /\ Idle(lock) /\ Idle(synced) /\ Idle(onDisk) /\ Idle(pc)
    /\ Idle(fd) /\ Idle(tmp) /\ Idle(attempt) /\ Idle(value) /\ Idle(rfd) /\ Idle(overtaken)

PartsInit ==
    /\ part \in {"daemon", "hook", "advance"}
    /\ Init
    /\ IF part = "hook" THEN H!Init ELSE IdleHook
    /\ IF part = "advance" THEN A!Init ELSE IdleAdvance

PartsNext ==
    /\ UNCHANGED part
    /\ \/ part = "daemon" /\ Next /\ UNCHANGED <<hookVars, advanceVars>>
       \/ part = "hook" /\ H!Next /\ UNCHANGED <<vars, advanceVars>>
       \/ part = "advance" /\ A!Next /\ UNCHANGED <<vars, hookVars>>

\* Each part under the fairness its own FairSpec states.
FairDaemon ==
    /\ \A d \in Daemon : /\ WF_vars(part = "daemon" /\ DaemonStep(d))
                         /\ WF_vars(part = "daemon" /\ SessionStep(d))
    /\ \A s \in Starter : /\ WF_vars(part = "daemon" /\ ClientStep(s))
                          /\ WF_vars(part = "daemon" /\ Look(s))

FairHook ==
    /\ \A h \in Prompter : WF_hookVars(part = "hook" /\ H!Step(h))
    /\ \A r \in Room : SF_hookVars(part = "hook" /\ H!FireFor(r))

FairAdvance == \A p \in Proc : WF_advanceVars(part = "advance" /\ A!Step(p))

PartsSpec ==
    /\ PartsInit /\ [][PartsNext]_<<part, vars, hookVars, advanceVars>>
    /\ FairDaemon /\ FairHook /\ FairAdvance
-----------------------------------------------------------------------------
\* Properties: those of the parts; SoleSession and ParkedIsListed as they are.

\* HookDelivery.tla: a hook that runs alone and does not fail injects a message once.
NothingTwice == part = "hook" => H!NothingTwice

\* DaemonLifecycle.tla: whoever keeps starting ends up with a daemon that serves.
ServedAtLast == <>[](part = "daemon" => \E d \in Daemon : Serving(d))

\* HookDelivery.tla: every logged message is at last printed or left out.
AllPassed ==
    \A r \in Room, id \in 1..MaxId :
        (part = "hook" /\ id \in H!Logged(r)) ~> (part = "hook" /\ id \in H!Passed(r))

\* CursorFile.tla: without failing calls, every advance returns.
AdvanceReturns ==
    \A p \in Proc : (part = "advance" /\ A!Busy(p)) ~> (part = "advance" /\ ~A!Busy(p))
=============================================================================

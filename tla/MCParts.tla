------------------------------ MODULE MCParts ------------------------------
(***************************************************************************)
(* The parts that share no state, one per behaviour: the limiter, the two  *)
(* files of Claude Code, config.json, identity.key, the terminal's tabs,   *)
(* the search for the claude process and the text of the hook.  The first  *)
(* state picks the part that runs; the variables of all others are Idle.   *)
(***************************************************************************)
EXTENDS RateLimiter, TLC

CONSTANTS
    Proc, MaxRun, Writer, MaxWrite, Starter, Seed,
    Topic, MaxTab, MaxPid, MaxDepth,
    MaxRoom, TextLen, BodyLen, MaxMessage

VARIABLES
    part,
    file, saved, purged, links, todo, installing, held, runs,
    config, job, read, writing, writes, set, mixed,
    key, starting, seed,
    order, room, hosting, active, overlay, next, sessions, claudes, daemons, over, failed,
    parent, claude, alive, start, pid, ppid, depth, walking, found, nearest,
    summary, index, mention, bodies, lines, skipped, out

I == INSTANCE Install WITH at <- installing
C == INSTANCE Config WITH at <- writing
K == INSTANCE Identity WITH Proc <- Starter, at <- starting
T == INSTANCE Tabs
W == INSTANCE ClaudePid WITH at <- walking
H == INSTANCE HookFormat

installVars == <<file, saved, purged, links, todo, installing, held, runs>>
configVars == <<config, job, read, writing, writes, set, mixed>>
identityVars == <<key, starting, seed>>
tabsVars == <<order, room, hosting, active, overlay, next, sessions, claudes, daemons, over, failed>>
walkVars == <<parent, claude, alive, start, pid, ppid, depth, walking, found, nearest>>
hookVars == <<summary, index, mention, bodies, lines, skipped, out>>

\* The seeds are bytes; an empty and a missing file are none of them.
ASSUME PartsAssumption ==
    /\ MaxWrite \in Nat
    /\ Seed \intersect {K!NoSeed, K!Absent} = {}
    /\ MaxRoom \in Nat /\ TextLen \subseteq Nat
    /\ MaxMessage \in Nat /\ MaxMessage <= H!NotYet /\ BodyLen \subseteq Nat
    /\ MaxPid \in Nat /\ MaxTab \in Nat \ {0}

Idle(v) == v = "idle"

IdleInstall ==
    /\ Idle(file) /\ Idle(saved) /\ Idle(purged) /\ Idle(links)
    /\ Idle(todo) /\ Idle(installing) /\ Idle(held) /\ Idle(runs)

IdleConfig ==
    /\ Idle(config) /\ Idle(job) /\ Idle(read) /\ Idle(writing)
    /\ Idle(writes) /\ Idle(set) /\ Idle(mixed)

IdleIdentity == Idle(key) /\ Idle(starting) /\ Idle(seed)

IdleTabs ==
    /\ Idle(order) /\ Idle(room) /\ Idle(hosting) /\ Idle(active) /\ Idle(overlay) /\ Idle(next)
    /\ Idle(sessions) /\ Idle(claudes) /\ Idle(daemons) /\ Idle(over) /\ Idle(failed)

IdleWalk ==
    /\ Idle(parent) /\ Idle(claude) /\ Idle(alive) /\ Idle(start) /\ Idle(pid) /\ Idle(ppid)
    /\ Idle(depth) /\ Idle(walking) /\ Idle(found) /\ Idle(nearest)

IdleHook ==
    /\ Idle(summary) /\ Idle(index) /\ Idle(mention) /\ Idle(bodies)
    /\ Idle(lines) /\ Idle(skipped) /\ Idle(out)

Part == {"limiter", "install", "config", "identity", "tabs", "walk", "hook"}

PartsInit ==
    /\ part \in Part
    /\ Init
    /\ IF part = "install" THEN I!Init ELSE IdleInstall
    /\ IF part = "config" THEN C!Init ELSE IdleConfig
    /\ IF part = "identity" THEN K!Init ELSE IdleIdentity
    /\ IF part = "tabs" THEN T!Init ELSE IdleTabs
    /\ IF part = "walk" THEN W!Init ELSE IdleWalk
    /\ IF part = "hook" THEN H!Init ELSE IdleHook

PartsNext ==
    /\ UNCHANGED part
    /\ \/ part = "limiter" /\ Next
          /\ UNCHANGED <<installVars, configVars, identityVars, tabsVars, walkVars, hookVars>>
       \/ part = "install" /\ I!Next
          /\ UNCHANGED <<vars, configVars, identityVars, tabsVars, walkVars, hookVars>>
       \/ part = "config" /\ C!Next
          /\ UNCHANGED <<vars, installVars, identityVars, tabsVars, walkVars, hookVars>>
       \/ part = "identity" /\ K!Next
          /\ UNCHANGED <<vars, installVars, configVars, tabsVars, walkVars, hookVars>>
       \/ part = "tabs" /\ T!Next
          /\ UNCHANGED <<vars, installVars, configVars, identityVars, walkVars, hookVars>>
       \/ part = "walk" /\ W!Next
          /\ UNCHANGED <<vars, installVars, configVars, identityVars, tabsVars, hookVars>>
       \/ part = "hook" /\ H!Next
          /\ UNCHANGED <<vars, installVars, configVars, identityVars, tabsVars, walkVars>>

PartsSpec ==
    /\ PartsInit
    /\ [][PartsNext]_<<part, vars, installVars, configVars, identityVars, tabsVars,
                       walkVars, hookVars>>
-----------------------------------------------------------------------------
\* Properties: those of the parts.

\* Install.tla: what other tools have in Claude Code's files is never lost.
OthersKept == part = "install" => I!OthersKept

\* Install.tla: our command is never in one of these files twice.
NeverTwice == part = "install" => I!NeverTwice

\* Config.tla: a write of one field of config.json keeps the others.
FieldsKept == part = "config" => C!FieldsKept

\* Identity.tla: processes that start together run with one key.
OneIdentity == part = "identity" => K!OneIdentity

\* Tabs.tla: no session and no claude outlives its tab.
NoneLeftBehind == part = "tabs" => T!NoneLeftBehind

\* Tabs.tla: the question about a daemon is about the tab its answer closes.
AsksAboutActive == part = "tabs" => T!AsksAboutActive

\* ClaudePid.tla: the walk finds the claude that the process belongs to.
RightClaude == part = "walk" => W!RightClaude

\* HookFormat.tla: the newest messages that fit, within 8 KiB for two rooms.
NewestWithinCap == part = "hook" => H!NewestWithinCap
=============================================================================

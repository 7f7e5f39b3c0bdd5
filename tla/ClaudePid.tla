----------------------------- MODULE ClaudePid -----------------------------
(***************************************************************************)
(* find_claude_ancestor (claude_pid.rs): the hook and the MCP server walk  *)
(* up their parents to the claude they belong to, whose PID is the key of  *)
(* the session's rooms.  Each look at a process is a moment of its own,    *)
(* and processes may end meanwhile, which leaves their children to init.   *)
(* A PID is not used again, and no executable replaced, during a walk.     *)
(***************************************************************************)
EXTENDS Naturals, FiniteSets

CONSTANTS
    MaxPid,      \* bound: PIDs, init being 1
    MaxDepth     \* MAX_DEPTH

InitPid == 1
Pid == (InitPid + 1)..MaxPid
NoPid == 0

VARIABLES
    parent,     \* the parent of each process
    claude,     \* those whose executable is called claude
    alive,      \* processes there are
    start, pid, ppid, depth,    \* the walk's variables
    at, found,                  \* its step, its answer
    nearest     \* History: the claude the process belonged to when the walk began

walk == <<start, pid, ppid, depth, at, found, nearest>>
vars == <<parent, claude, alive, walk>>

TypeOK ==
    /\ parent \in [Pid -> Pid \union {InitPid}]
    /\ claude \subseteq Pid /\ alive \subseteq Pid
    /\ start \in Pid /\ pid \in Pid
    /\ ppid \in Pid \union {InitPid, NoPid}
    /\ depth \in 0..MaxDepth
    /\ at \in {"own", "parent", "done"}
    /\ found \in Pid \union {NoPid}
    /\ nearest \in Pid \union {NoPid}

\* All above p, in any number of steps, where f has the parents: those that every set
\* has that p is in and that no parent leaves.
Above(f, p) ==
    {q \in Pid \union {InitPid} :
        /\ q # p
        /\ \A S \in SUBSET (Pid \union {InitPid}) :
              p \in S /\ (\A r \in S \intersect Pid : f[r] \in S) => q \in S}

\* The nearest claude strictly above p: parents have smaller PIDs here.
Nearest(f, p) ==
    LET up == Above(f, p) \intersect claude
    IN  IF up = {} THEN NoPid
        ELSE CHOOSE q \in up : \A r \in up : r <= q

Init ==
    /\ parent \in {f \in [Pid -> Pid \union {InitPid}] : \A p \in Pid : f[p] < p}
    /\ claude \in SUBSET Pid
    /\ alive = Pid
    /\ start \in Pid /\ pid = start
    /\ ppid = NoPid /\ depth = 0
    /\ at = "own" /\ found = NoPid
    /\ nearest = Nearest(parent, start)

-----------------------------------------------------------------------------
Ends(p) ==
    /\ at # "done" /\ p \in alive
    /\ alive' = alive \ {p}
    /\ parent' = [q \in Pid |-> IF parent[q] = p THEN InitPid ELSE parent[q]]
    /\ UNCHANGED <<claude, walk>>

Answer(a) ==
    /\ at' = "done"
    /\ found' = a
    /\ UNCHANGED <<parent, claude, alive, start, pid, ppid, depth, nearest>>

\* The process itself: only its parent counts.
LookupOwn ==
    /\ at = "own"
    /\ IF pid \notin alive \/ parent[pid] <= InitPid
       THEN Answer(NoPid)
       ELSE /\ ppid' = parent[pid]
            /\ at' = "parent"
            /\ UNCHANGED <<parent, claude, alive, start, pid, depth, found, nearest>>

\* Mutant of Match: a claude's own PID is an answer too.
MatchOwn == IF pid \in claude THEN pid ELSE IF ppid \in claude THEN ppid ELSE NoPid

\* The parent is looked up, and called claude.
Match == IF ppid \in claude THEN ppid ELSE NoPid

LookupParent ==
    /\ at = "parent"
    /\ IF ppid \notin alive THEN Answer(NoPid)
       ELSE IF Match # NoPid THEN Answer(Match)
       ELSE IF depth + 1 = MaxDepth THEN Answer(NoPid)
       ELSE /\ pid' = ppid
            /\ depth' = depth + 1
            /\ at' = "own"
            /\ UNCHANGED <<parent, claude, alive, start, ppid, found, nearest>>

Next == LookupOwn \/ LookupParent \/ \E p \in Pid : Ends(p)

Spec == Init /\ [][Next]_vars
-----------------------------------------------------------------------------
\* Properties

\* An answer is the claude that the process belonged to when the walk began, also if
\* claudes are nested and processes end: never the one around it, and never itself.
\* So a hook and an MCP server of one claude use one key.  Only a chain longer than
\* MaxDepth, or a process that ended, leaves a walk without an answer.
RightClaude ==
    at = "done" =>
        \/ found = nearest
        \/ found = NoPid /\ (alive # Pid \/ Cardinality(Above(parent, start)) > MaxDepth)
=============================================================================

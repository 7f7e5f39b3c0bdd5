------------------------------ MODULE Consent ------------------------------
(***************************************************************************)
(* What the consent gate promises, without files or processes: a Claude    *)
(* asks to join a room and gets a fresh token, the human grants what a     *)
(* token asked for at most once, a Claude may also enter a room it created *)
(* itself, and the prompt hook shows a Claude only rooms granted to it.    *)
(***************************************************************************)
CONSTANTS Claude,   \* PIDs of `claude` processes
          Topic,    \* rooms
          Token     \* names of pending-join requests

VARIABLES issued,   \* tokens handed out so far
          asked,    \* <<token, pid, topic>>: requests nobody has granted yet
          granted,  \* <<pid, topic>>: what a human stands behind
          shown     \* <<pid, topic>>: what the hook has injected

cvars == <<issued, asked, granted, shown>>

Init ==
    /\ issued = {}
    /\ asked = {}
    /\ granted = {}
    /\ shown = {}

\* A Claude asks to join: nothing is granted by asking.
Ask(k, p, t) ==
    /\ k \notin issued
    /\ issued' = issued \union {k}
    /\ asked' = asked \union {<<k, p, t>>}
    /\ UNCHANGED <<granted, shown>>

\* The human grants exactly what token k asked for, and k is spent.
Grant(k, p, t) ==
    /\ <<k, p, t>> \in asked
    /\ asked' = asked \ {<<k, p, t>>}
    /\ granted' = granted \union {<<p, t>>}
    /\ UNCHANGED <<issued, shown>>

\* A room the Claude creates on the user's own machine needs no token.
Create(p, t) ==
    /\ granted' = granted \union {<<p, t>>}
    /\ UNCHANGED <<issued, asked, shown>>

\* The hook shows p some rooms, all of them granted.
Show(p, S) ==
    /\ {p} \X S \subseteq granted
    /\ shown' = shown \union ({p} \X S)
    /\ UNCHANGED <<issued, asked, granted>>

Next ==
    \/ \E k \in Token, p \in Claude, t \in Topic : Ask(k, p, t) \/ Grant(k, p, t)
    \/ \E p \in Claude, t \in Topic : Create(p, t)
    \/ \E p \in Claude, S \in SUBSET Topic : Show(p, S)

Spec == Init /\ [][Next]_cvars
=============================================================================

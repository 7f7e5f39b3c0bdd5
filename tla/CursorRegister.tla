--------------------------- MODULE CursorRegister ---------------------------
(***************************************************************************)
(* What cursor_io promises about one (Room, Session) cursor: a register    *)
(* that advances atomically, that a reader sees at one instant, and that a *)
(* power loss sets back at most to a value it had and that was never       *)
(* settled on disk, not to a torn or an empty one.                         *)
(***************************************************************************)
CONSTANTS Proc,     \* hooks that advance the cursor
          Reader,   \* hooks that read it
          Id,       \* message ids
          NoId      \* empty or missing file: nothing seen yet

VARIABLES cursor,   \* the value
          stable,   \* values a power loss can leave
          phase,    \* per advancer: "idle", "begun" or "taken"
          arg,      \* per advancer: the value it is to write
          got       \* per reader: the value it is returning, {} when idle

vars == <<cursor, stable, phase, arg, got>>

Init ==
    /\ cursor = NoId
    /\ stable = {NoId}
    /\ phase = [p \in Proc |-> "idle"]
    /\ arg = [p \in Proc |-> NoId]
    /\ got = [r \in Reader |-> {}]

Begin(p, id) ==
    /\ phase[p] = "idle"
    /\ phase' = [phase EXCEPT ![p] = "begun"]
    /\ arg' = [arg EXCEPT ![p] = id]
    /\ UNCHANGED <<cursor, stable, got>>

\* The advance takes effect, all at once.
Take(p) ==
    /\ phase[p] = "begun"
    /\ phase' = [phase EXCEPT ![p] = "taken"]
    /\ cursor' = arg[p]
    /\ stable' = stable \union {arg[p]}
    /\ UNCHANGED <<arg, got>>

\* The value is on disk for good.
Settle ==
    /\ stable' = {cursor}
    /\ UNCHANGED <<cursor, phase, arg, got>>

\* The call returns; one that had not taken effect reports an error or dies.
End(p) ==
    /\ phase[p] # "idle"
    /\ phase' = [phase EXCEPT ![p] = "idle"]
    /\ arg' = [arg EXCEPT ![p] = NoId]
    /\ UNCHANGED <<cursor, stable, got>>

Read(r) ==
    /\ got[r] = {}
    /\ got' = [got EXCEPT ![r] = {cursor}]
    /\ UNCHANGED <<cursor, stable, phase, arg>>

ReadEnd(r) ==
    /\ got[r] # {}
    /\ got' = [got EXCEPT ![r] = {}]
    /\ UNCHANGED <<cursor, stable, phase, arg>>

PowerLoss ==
    /\ cursor' \in stable
    /\ stable' = {cursor'}
    /\ phase' = [p \in Proc |-> "idle"]
    /\ arg' = [p \in Proc |-> NoId]
    /\ got' = [r \in Reader |-> {}]

Next ==
    \/ \E p \in Proc : Take(p) \/ End(p) \/ \E id \in Id : Begin(p, id)
    \/ \E r \in Reader : Read(r) \/ ReadEnd(r)
    \/ Settle \/ PowerLoss

Spec == Init /\ [][Next]_vars
=============================================================================

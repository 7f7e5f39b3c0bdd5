------------------------------ MODULE Limiter ------------------------------
(***************************************************************************)
(* What a receiver's rate limit promises, with the whole past at hand: a   *)
(* message of an author is kept iff fewer than Max of those kept before    *)
(* fall in the window that ends now, and a dropped one is reported iff the *)
(* author was not reported in the cooldown that ends now.                  *)
(***************************************************************************)
EXTENDS Integers, Sequences, FiniteSets

CONSTANTS Author, Window, Max, Cooldown

VARIABLES clock,   \* time of the last message
          kept,    \* per author: times of the messages kept, oldest first
          warned   \* per author: times its flood was reported

lvars == <<clock, kept, warned>>

Init ==
    /\ clock = 0
    /\ kept = [a \in Author |-> <<>>]
    /\ warned = [a \in Author |-> {}]

InWindow(a, t) == {i \in DOMAIN kept[a] : t - kept[a][i] <= Window}

Quiet(a, t) == \A u \in warned[a] : t - u >= Cooldown

Keep(a, t) ==
    /\ Cardinality(InWindow(a, t)) < Max
    /\ kept' = [kept EXCEPT ![a] = Append(@, t)]
    /\ UNCHANGED warned

Reject(a, t) ==
    /\ Cardinality(InWindow(a, t)) >= Max
    /\ warned' = [warned EXCEPT ![a] = IF Quiet(a, t) THEN @ \union {t} ELSE @]
    /\ UNCHANGED kept

Message(a) ==
    /\ clock' \in Nat
    /\ clock' >= clock
    /\ Keep(a, clock') \/ Reject(a, clock')

Next == \E a \in Author : Message(a)

Spec == Init /\ [][Next]_lvars
=============================================================================

-------------------------------- MODULE Room --------------------------------
(***************************************************************************)
(* What a room promises, whatever its network does: each machine has a log *)
(* that only grows; a message enters the log of its author when it is      *)
(* sent, once, and that of another machine only after that.  How often and *)
(* in which order the others log it is left open.                          *)
(***************************************************************************)
EXTENDS Naturals, Sequences

CONSTANTS Peer, Id

VARIABLES
    author,   \* of each message sent so far: who sent it
    log       \* log.jsonl of each machine

rvars == <<author, log>>

Init ==
    /\ author = <<>>
    /\ log = [p \in Peer |-> <<>>]

Send(p) ==
    /\ Len(author) + 1 \in Id
    /\ author' = Append(author, p)
    /\ log' = [log EXCEPT ![p] = Append(@, Len(author) + 1)]

Learn(p, x) ==
    /\ x \in DOMAIN author
    /\ author[x] # p
    /\ log' = [log EXCEPT ![p] = Append(@, x)]
    /\ UNCHANGED author

Next == \E p \in Peer : Send(p) \/ \E x \in Id : Learn(p, x)

Spec == Init /\ [][Next]_rvars
=============================================================================

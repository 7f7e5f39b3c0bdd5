---------------------------- MODULE RateLimiter ----------------------------
(***************************************************************************)
(* RateLimiter::check_and_record (rate_limit.rs): the per-author sliding   *)
(* window in front of the log, for the messages of peers and for our own.  *)
(* The limiter forgets what it pops.  The wall clock is taken not to be    *)
(* set back between two calls.                                             *)
(***************************************************************************)
EXTENDS Integers, Sequences, FiniteSets

CONSTANTS
    Author,
    Window,     \* RATE_LIMIT_WINDOW_MS
    Max,        \* RATE_LIMIT_MAX_PER_WINDOW
    Cooldown,   \* RATE_LIMIT_WARN_COOLDOWN_MS
    MaxClock,   \* bound: now_ms is in 0..MaxClock
    Never       \* an author that was not reported yet

Time == 0..MaxClock

ASSUME ConstantsAssumption ==
    /\ Window \in Nat /\ Max \in Nat \ {0} /\ Cooldown \in Nat
    /\ MaxClock \in Nat
    /\ Never \notin Int

VARIABLES
    clock,        \* now_ms of the last call
    by_author,    \* per author: the times in its window
    last_warned,  \* per author: the time of the last warning
    kept, warned  \* History: all times allowed, all times warned of

vars == <<clock, by_author, last_warned, kept, warned>>

TypeOK ==
    /\ clock \in Time
    /\ by_author \in [Author -> Seq(Time)]
    /\ \A a \in Author : Len(by_author[a]) <= Max
    /\ last_warned \in [Author -> Time \union {Never}]
    /\ kept \in [Author -> Seq(Time)]
    /\ warned \in [Author -> SUBSET Time]

Init ==
    /\ clock = 0
    /\ by_author = [a \in Author |-> <<>>]
    /\ last_warned = [a \in Author |-> Never]
    /\ kept = [a \in Author |-> <<>>]
    /\ warned = [a \in Author |-> {}]

\* Mutants of Expired: the window taken as half open; as one cell too long.
ExpiredEarly(t, now) == now - t >= Window
ExpiredLate(t, now) == now - t > Window + 1

\* The window is closed: a message exactly Window old still counts.
Expired(t, now) == now - t > Window

\* The loop over the front of w pops n entries.
Pops(w, now, n) ==
    /\ \A i \in 1..n : Expired(w[i], now)
    /\ n < Len(w) => ~Expired(w[n + 1], now)

Rest(w, n) == SubSeq(w, n + 1, Len(w))

Full(w) == Len(w) >= Max

Allow(a, now, n) ==
    LET w == Rest(by_author[a], n)
    IN  /\ ~Full(w)
        /\ by_author' = [by_author EXCEPT ![a] = Append(w, now)]
        /\ kept' = [kept EXCEPT ![a] = Append(@, now)]
        /\ UNCHANGED <<last_warned, warned>>

Warn(a, now) == last_warned[a] # Never => now - last_warned[a] >= Cooldown

\* A dropped message is not recorded.
Drop(a, now, n) ==
    LET w == Rest(by_author[a], n)
    IN  /\ Full(w)
        /\ by_author' = [by_author EXCEPT ![a] = w]
        /\ \/ /\ Warn(a, now)
              /\ last_warned' = [last_warned EXCEPT ![a] = now]
              /\ warned' = [warned EXCEPT ![a] = @ \union {now}]
           \/ /\ ~Warn(a, now)
              /\ UNCHANGED <<last_warned, warned>>
        /\ UNCHANGED kept

check_and_record(a, now) ==
    /\ now >= clock
    /\ clock' = now
    /\ \E n \in 0..Len(by_author[a]) :
          /\ Pops(by_author[a], now, n)
          /\ Allow(a, now, n) \/ Drop(a, now, n)

Next == \E a \in Author, now \in Time : check_and_record(a, now)

Spec == Init /\ [][Next]_vars
-----------------------------------------------------------------------------
\* Properties

Ideal == INSTANCE Limiter

\* What the limiter forgets never matters: it decides like one that looks at
\* everything it ever allowed, author by author (check_and_record).
ImplementsLimiter == Ideal!Spec

\* No window of Window ms holds more than Max allowed messages of an author: the
\* one Max places later in its log comes more than Window later
\* (rate_limit.rs: authors that exceed the cap "inside any window" are dropped).
WindowCap ==
    \A a \in Author : \A i \in DOMAIN kept[a] :
        i + Max <= Len(kept[a]) => kept[a][i + Max] - kept[a][i] > Window
=============================================================================

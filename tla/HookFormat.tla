----------------------------- MODULE HookFormat -----------------------------
(***************************************************************************)
(* render (hook_format.rs): the text the hook prints.  Of a text there is  *)
(* its length in bytes.  For each room a summary and an index of files,    *)
(* each cut to a budget of its own, then the unread messages of all rooms  *)
(* in the order of their ids, the oldest dropped until the rest fits what  *)
(* is left of HOOK_OUTPUT_BUDGET.                                          *)
(***************************************************************************)
EXTENDS Naturals, Sequences, FiniteSets, Lists

CONSTANTS
    MaxRoom,      \* bound: rooms that are active
    TextLen,      \* lengths of summaries and indexes
    BodyLen,      \* lengths of messages
    MaxMessage    \* bound: unread messages

HOOK_OUTPUT_BUDGET == 8192
SUMMARY_BUDGET == 1536
FILES_INDEX_BUDGET == 1536

VARIABLES
    summary, index,   \* per active room, in the order of the topics: their lengths
    mention,          \* is every message a mention of the owner's claude?
    bodies,           \* of the unread messages, in the order of their ids
    lines,            \* lengths of the lines that are kept
    skipped,          \* lines dropped
    out               \* length of the block of messages, once it is made

input == <<summary, index, mention, bodies>>
vars == <<summary, index, mention, bodies, lines, skipped, out>>

NotYet == 99999

Rooms == Len(summary)

-----------------------------------------------------------------------------
\* truncate_head: with its marker no longer than max.
HeadCut(n, max) == IF n <= max THEN n ELSE max

\* tail_lines_within_budget: lines of up to max bytes behind a marker of 29; here the
\* longest such text.
TailCut(n, max) == IF n <= max THEN n ELSE max + 29

\* A section has a header, with the room's tag if there are several, and two newlines
\* after its text; there is none without text.
Section(title, n) ==
    IF n = 0 THEN 0 ELSE title + (IF Rooms >= 2 THEN 7 ELSE 0) + 1 + n + 2

Preamble ==
    SumOf([r \in DOMAIN summary |-> Section(20, HeadCut(summary[r], SUMMARY_BUDGET))])
      + SumOf([r \in DOMAIN index |-> Section(18, TailCut(index[r], FILES_INDEX_BUDGET))])

\* build_orientation_header, which the hook prints before: the start of each topic's
\* name, a nick of eight bytes, the rules; one more if a message is a mention.
HeaderLen == 1027 + 14 * Rooms + (IF mention THEN 224 ELSE 0)

\* format_line: "[chatroom for-you tag @nick HH:MMZ] body", the nick of eight bytes.
LineOf(n) ==
    10 + (IF mention THEN 8 ELSE 0) + (IF Rooms >= 2 THEN 7 ELSE 0) + 9 + 8 + n + 2

\* marker_line, with the number of dropped lines in decimal, up to 99999.
MarkerLen(n) == 44 + Cardinality({p \in {1, 10, 100, 1000, 10000} : p <= n})

\* Mutant of Budget: what the hook prints before is not charged.
BudgetAlone == IF Preamble < HOOK_OUTPUT_BUDGET THEN HOOK_OUTPUT_BUDGET - Preamble ELSE 0

\* What is left for the messages (saturating_sub).
Budget ==
    IF Preamble + HeaderLen < HOOK_OUTPUT_BUDGET
    THEN HOOK_OUTPUT_BUDGET - (Preamble + HeaderLen) ELSE 0

-----------------------------------------------------------------------------
Init ==
    /\ \E n \in 1..MaxRoom : summary \in [1..n -> TextLen] /\ index \in [1..n -> TextLen]
    /\ mention \in BOOLEAN
    /\ bodies \in UNION {[1..n -> BodyLen] : n \in 1..MaxMessage}
    /\ lines = [i \in DOMAIN bodies |-> LineOf(bodies[i])]
    /\ skipped = 0
    /\ out = NotYet

\* fit_to_budget
FitsWhole ==
    /\ out = NotYet /\ skipped = 0 /\ SumOf(lines) <= Budget
    /\ out' = SumOf(lines)
    /\ UNCHANGED <<input, lines, skipped>>

\* What is left with the marker of n dropped lines.
Fits(s, n) == MarkerLen(n) + SumOf(s) <= Budget

\* The oldest line goes; the rest is the block if the marker fits beside it.
DropOldest ==
    /\ out = NotYet /\ lines # <<>>
    /\ skipped = 0 => SumOf(lines) > Budget
    /\ lines' = Tail(lines)
    /\ skipped' = skipped + 1
    /\ out' = IF Fits(lines', skipped') THEN MarkerLen(skipped') + SumOf(lines') ELSE NotYet
    /\ UNCHANGED input

\* Not even the marker fits: nothing is said.
Silent ==
    /\ out = NotYet /\ lines = <<>>
    /\ out' = 0
    /\ UNCHANGED <<input, lines, skipped>>

Next == FitsWhole \/ DropOldest \/ Silent

Spec == Init /\ [][Next]_vars
-----------------------------------------------------------------------------
\* Properties

Suffix(n) == [i \in 1..(Len(bodies) - n) |-> LineOf(bodies[i + n])]

\* What is printed of the messages is the longest run of the newest ones that fits,
\* with the marker if any is left out, and with all there is before it the output
\* keeps to 8 KiB, for one or two rooms whatever the texts (ADR-0004's "hard cap").
\* Three rooms' sections alone can be longer, and then nothing is said of the messages.
NewestWithinCap ==
    out # NotYet =>
        /\ lines = Suffix(skipped)
        /\ \A n \in 1..(skipped - 1) : ~Fits(Suffix(n), n)
        /\ skipped > 0 => SumOf(Suffix(0)) > Budget
        /\ Rooms <= 2 => HeaderLen + Preamble + out <= HOOK_OUTPUT_BUDGET
=============================================================================

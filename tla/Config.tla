------------------------------- MODULE Config -------------------------------
(***************************************************************************)
(* ~/.cc-connect/config.json: the relay, the nick and who may wake the AI. *)
(* The wizard (setup.rs) and the MCP servers (cc_set_nick) each read it,   *)
(* set their field and write the whole back in place, without a lock; one  *)
(* that is killed in between leaves it empty.  The daemons only read it.   *)
(***************************************************************************)
EXTENDS Naturals, FiniteSets

CONSTANTS
    Writer,     \* processes that can write at once
    MaxWrite    \* bound: writes

Field == {"relay_mode", "self_nick", "owner_only_mentions"}
Unset == 0
Value == 0..MaxWrite      \* the n-th write writes n

\* ConnectConfig::default()
Default == [f \in Field |-> Unset]

VARIABLES
    config,       \* the file; an empty one reads as the default
    job, read,    \* per writer: the field it sets, what it read
    at,           \* per writer: its step
    writes,       \* writes begun
    \* History:
    set,          \* the last value each field was set to by a call that returned
    mixed         \* has a call overlapped another one, or been killed?

vars == <<config, job, read, at, writes, set, mixed>>

TypeOK ==
    /\ config \in [Field -> Value]
    /\ job \in [Writer -> Field]
    /\ read \in [Writer -> [Field -> Value]]
    /\ at \in [Writer -> {"idle", "trunc", "fill"}]
    /\ writes \in Value
    /\ set \in [Field -> Value]
    /\ mixed \in BOOLEAN

Init ==
    /\ config = Default /\ set = Default
    /\ job = [w \in Writer |-> "self_nick"]
    /\ read = [w \in Writer |-> Default]
    /\ at = [w \in Writer |-> "idle"]
    /\ writes = 0
    /\ mixed = FALSE

\* What the next write sets a field to.
NextValue == writes + 1

\* Mutant of Changed: what is not set is not carried over.
ChangedOnly(c, f) == [Default EXCEPT ![f] = NextValue]

\* The configuration with field f set: the others keep what was read.
Changed(c, f) == [c EXCEPT ![f] = NextValue]

\* ensure_relay_choice and ensure_self_nick ask only if there is no answer yet;
\* --nick, set_owner_only_mentions and cc_set_nick write in any case.
Asks(f) == f = "relay_mode" => config[f] = Unset

Read(w, f) ==
    /\ at[w] = "idle" /\ writes < MaxWrite
    /\ Asks(f)
    /\ read' = [read EXCEPT ![w] = Changed(config, f)]
    /\ job' = [job EXCEPT ![w] = f]
    /\ at' = [at EXCEPT ![w] = "trunc"]
    /\ writes' = writes + 1
    /\ mixed' = (mixed \/ \E v \in Writer : at[v] # "idle")
    /\ UNCHANGED <<config, set>>

\* Opened with O_TRUNC.
Truncate(w) ==
    /\ at[w] = "trunc"
    /\ config' = Default
    /\ at' = [at EXCEPT ![w] = "fill"]
    /\ UNCHANGED <<job, read, writes, set, mixed>>

Fill(w) ==
    /\ at[w] = "fill"
    /\ config' = read[w]
    /\ at' = [at EXCEPT ![w] = "idle"]
    /\ read' = [read EXCEPT ![w] = Default]
    /\ set' = [set EXCEPT ![job[w]] = read[w][job[w]]]
    /\ UNCHANGED <<job, writes, mixed>>

Crash(w) ==
    /\ at[w] # "idle"
    /\ at' = [at EXCEPT ![w] = "idle"]
    /\ read' = [read EXCEPT ![w] = Default]
    /\ mixed' = TRUE
    /\ UNCHANGED <<config, job, writes, set>>

Next ==
    \E w \in Writer : \/ \E f \in Field : Read(w, f)
                      \/ Truncate(w) \/ Fill(w) \/ Crash(w)

Spec == Init /\ [][Next]_vars
-----------------------------------------------------------------------------
\* Properties

\* As long as no two writes overlap and none is killed, every field has the value it
\* was last set to, whichever programs set the other ones since (setup.rs: "Other
\* config fields are preserved").  With an overlap or a kill they may all be lost.
FieldsKept == ~mixed /\ (\A w \in Writer : at[w] = "idle") => config = set
=============================================================================

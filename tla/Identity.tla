------------------------------ MODULE Identity ------------------------------
(***************************************************************************)
(* identity.key (identity.rs, generate_or_load): the first process that    *)
(* needs the key makes it, every other one loads it, also when they start  *)
(* together and when one is killed in between.                             *)
(***************************************************************************)
EXTENDS FiniteSets

CONSTANTS
    Proc,     \* processes that need the identity
    Seed      \* seeds the random source can give

NoSeed == "none"     \* no bytes: the file is there and empty
Absent == "absent"

VARIABLES
    key,      \* identity.key
    at,       \* per process: its step
    seed      \* per process: the seed it goes on with

vars == <<key, at, seed>>

TypeOK ==
    /\ key \in Seed \union {NoSeed, Absent}
    /\ at \in [Proc -> {"start", "load", "create", "write", "runs", "failed"}]
    /\ seed \in [Proc -> Seed \union {NoSeed}]

Init ==
    /\ key = Absent
    /\ at = [p \in Proc |-> "start"]
    /\ seed = [p \in Proc |-> NoSeed]

\* path.exists()
Start(p) ==
    /\ at[p] = "start"
    /\ at' = [at EXCEPT ![p] = IF key = Absent THEN "create" ELSE "load"]
    /\ UNCHANGED <<key, seed>>

\* Anything but exactly SEED_LEN bytes is an error.
Load(p) ==
    /\ at[p] = "load"
    /\ IF key \in Seed
       THEN seed' = [seed EXCEPT ![p] = key] /\ at' = [at EXCEPT ![p] = "runs"]
       ELSE at' = [at EXCEPT ![p] = "failed"] /\ UNCHANGED seed
    /\ UNCHANGED key

\* Mutant of MayCreate: create instead of create_new.
MayCreateOver == TRUE

\* create_new
MayCreate == key = Absent

Create(p, s) ==
    /\ at[p] = "create"
    /\ IF MayCreate
       THEN /\ key' = NoSeed
            /\ seed' = [seed EXCEPT ![p] = s]
            /\ at' = [at EXCEPT ![p] = "write"]
       ELSE /\ at' = [at EXCEPT ![p] = "failed"]
            /\ UNCHANGED <<key, seed>>

\* Written and synced.
Write(p) ==
    /\ at[p] = "write"
    /\ key' = seed[p]
    /\ at' = [at EXCEPT ![p] = "runs"]
    /\ UNCHANGED seed

\* Killed, or it ends; the program can be started again.
Stop(p) ==
    /\ at[p] # "start"
    /\ at' = [at EXCEPT ![p] = "start"]
    /\ seed' = [seed EXCEPT ![p] = NoSeed]
    /\ UNCHANGED key

Next ==
    \E p \in Proc : \/ Start(p) \/ Load(p) \/ Write(p) \/ Stop(p)
                    \/ \E s \in Seed : Create(p, s)

Spec == Init /\ [][Next]_vars
-----------------------------------------------------------------------------
\* Properties

\* Whoever runs, runs as the one in the file: processes that start together, before
\* there is a key, do not go on with two (PROTOCOL.md:32: "Each
\* Peer MUST hold exactly one Ed25519 keypair").
OneIdentity == \A p \in Proc : at[p] = "runs" => seed[p] = key
=============================================================================

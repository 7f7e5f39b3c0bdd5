------------------------------ MODULE Install ------------------------------
(***************************************************************************)
(* What setup, uninstall and upgrade do to the two files of Claude Code:   *)
(* the hook in ~/.claude/settings.json and the MCP server in               *)
(* ~/.claude.json (setup.rs, lifecycle.rs, install.sh).  Each is read,     *)
(* changed and written in place, truncated first, by runs that may overlap *)
(* and may be killed at any point; each change is preceded by a backup.    *)
(*                                                                         *)
(* Of a file there are the entries of its list, a command being ours, that *)
(* of another clone of this repository, or another tool's.  Backups        *)
(* succeed, and two of them are a second apart.                            *)
(***************************************************************************)
EXTENDS Naturals, Sequences, SequencesExt, FiniteSets, Lists

CONSTANTS
    Proc,      \* runs of the program that can overlap
    MaxRun     \* bound: runs started

Command == {"ours", "moved", "other"}
File == {"settings", "claude"}

\* An entry: its key in mcpServers (or "" in the list of hooks), its commands.
Entry == [key : {"", "cc-connect", "theirs"}, runs : SUBSET Command]
Hook(c) == [key |-> "", runs |-> c]
Server(k, c) == [key |-> k, runs |-> {c}]

Job == {"hook", "mcp", "unhook", "unmcp", "uncli", "links", "pull", "script", "purge"}

VARIABLES
    file,      \* per file: does it parse, and its entries
    saved,     \* per file: commands of other tools in its backups
    purged,    \* were the backups removed?
    links,     \* are our binaries on the PATH?
    todo, at,  \* per run: the jobs it has left, the step it is at
    held,      \* per run: the entries it has read
    runs       \* runs started

vars == <<file, saved, purged, links, todo, at, held, runs>>

TypeOK ==
    /\ file \in [File -> [ok : BOOLEAN, has : Seq(Entry)]]
    /\ saved \in [File -> SUBSET {"other"}]
    /\ purged \in BOOLEAN /\ links \in BOOLEAN
    /\ todo \in [Proc -> Seq(Job)]
    /\ at \in [Proc -> {"look", "read", "back", "trunc", "fill"}]
    /\ held \in [Proc -> Seq(Entry)]
    /\ runs \in 0..MaxRun

\* Before the first run: the other tool's entry, perhaps edited to hold ours too,
\* perhaps in a file that does not parse.
Init ==
    /\ \E s \in {[ok |-> TRUE, has |-> <<Hook({"other"})>>],
                [ok |-> TRUE, has |-> <<Hook({"moved"}), Hook({"other", "ours"})>>],
                [ok |-> FALSE, has |-> <<Hook({"other"})>>]},
          c \in {[ok |-> TRUE, has |-> <<Server("theirs", "other")>>],
                [ok |-> FALSE, has |-> <<Server("theirs", "other")>>]} :
          file = [f \in File |-> IF f = "settings" THEN s ELSE c]
    /\ saved = [f \in File |-> {}]
    /\ purged = FALSE /\ links = FALSE
    /\ todo = [p \in Proc |-> <<>>]
    /\ at = [p \in Proc |-> "look"]
    /\ held = [p \in Proc |-> <<>>]
    /\ runs = 0

-----------------------------------------------------------------------------
\* The lists

Commands(s) == UNION {e.runs : e \in ToSet(s)}

\* hook_already_installed, mcp_already_installed: anywhere in the list.
Installed(s) == "ours" \in Commands(s)

\* Mutant of WithHook: the entry that is there already is not dropped.
WithHookAgain(s) == Append(s, Hook({"ours"}))

\* install_hook: the entry that has our command goes, whatever else it has.
WithHook(s) == Append(Keep(s, {e \in Entry : "ours" \notin e.runs}), Hook({"ours"}))

\* strip_cc_connect_hook: commands of any clone go, and entries left empty.
WithoutHook(s) ==
    LET rest == [i \in DOMAIN s |-> [s[i] EXCEPT !.runs = @ \ {"ours", "moved"}]]
    IN  Keep(rest, {e \in Entry : e.runs # {}})

\* install_mcp_in_claude_json: by command and by key.
WithServer(s) ==
    Append(Keep(s, {e \in Entry : "ours" \notin e.runs /\ e.key # "cc-connect"}),
           Server("cc-connect", "ours"))

\* remove_mcp_from_claude_json: by key.
WithoutServer(s) == Keep(s, {e \in Entry : e.key # "cc-connect"})

FileOf(job) == IF job \in {"hook", "unhook"} THEN "settings" ELSE "claude"

Edited(job, s) ==
    CASE job = "hook" -> WithHook(s)
      [] job = "unhook" -> WithoutHook(s)
      [] job = "mcp" -> WithServer(s)
      [] job = "unmcp" -> WithoutServer(s)

-----------------------------------------------------------------------------
\* A run: the wizard of room start, uninstall, uninstall --purge, upgrade.
Wizard == <<"hook", "mcp">>
Uninstall == <<"unhook", "unmcp", "uncli", "links">>
Upgrade == Uninstall \o <<"pull", "script">>

Start(p, jobs) ==
    /\ todo[p] = <<>> /\ runs < MaxRun
    /\ todo' = [todo EXCEPT ![p] = jobs]
    /\ runs' = runs + 1
    /\ UNCHANGED <<file, saved, purged, links, at, held>>

Doing(p, job) == todo[p] # <<>> /\ Head(todo[p]) = job

\* The job is over, the next one begins.
Done(p) ==
    /\ todo' = [todo EXCEPT ![p] = Tail(@)]
    /\ at' = [at EXCEPT ![p] = "look"]
    /\ held' = [held EXCEPT ![p] = <<>>]

Goto(p, step) == at' = [at EXCEPT ![p] = step] /\ UNCHANGED todo

\* Nothing to do, the user says no, or an error that is only reported.  A hook is not
\* installed in settings that do not parse; a server is.
Skip(p, job) ==
    /\ Doing(p, job) /\ at[p] = "look" /\ job \in {"hook", "mcp"}
    /\ Done(p)
    /\ UNCHANGED <<file, saved, purged, links, runs>>

MayInstall(job) ==
    LET f == file[FileOf(job)]
    IN  IF job = "hook" THEN f.ok /\ ~Installed(f.has) ELSE f.ok => ~Installed(f.has)

\* ensure_hook_installed, ensure_mcp_installed: not there, and the user says yes.
Look(p, job) ==
    /\ Doing(p, job) /\ at[p] = "look" /\ job \in {"hook", "mcp"}
    /\ MayInstall(job)
    /\ Goto(p, "back")
    /\ UNCHANGED <<file, saved, purged, links, held, runs>>

\* try_install_via_claude_cli: `claude mcp` replaces its entry, if it can parse the file.
ByCli(p) ==
    /\ Doing(p, "mcp") /\ at[p] = "back" /\ file["claude"].ok
    /\ file' = [file EXCEPT !["claude"].has = WithServer(@)]
    /\ Done(p)
    /\ UNCHANGED <<saved, purged, links, runs>>

\* Mutant of Backed: nothing is backed up.
BackedNot(f) == saved[f]

\* What the backups of f hold once it is copied.
Backed(f) == saved[f] \union (Commands(file[f].has) \intersect {"other"})

\* Installing backs up before it reads, removing after.
Backup(p, job) ==
    LET f == FileOf(job)
    IN  /\ Doing(p, job) /\ at[p] = "back"
        /\ saved' = [saved EXCEPT ![f] = Backed(f)]
        /\ Goto(p, IF job \in {"hook", "mcp"} THEN "read" ELSE "trunc")
        /\ UNCHANGED <<file, purged, links, held, runs>>

\* What does not parse counts as empty when installing.
ReadToInstall(p, job) ==
    LET f == file[FileOf(job)]
    IN  /\ Doing(p, job) /\ at[p] = "read" /\ job \in {"hook", "mcp"}
        /\ held' = [held EXCEPT ![p] = Edited(job, IF f.ok THEN f.has ELSE <<>>)]
        /\ Goto(p, "trunc")
        /\ UNCHANGED <<file, saved, purged, links, runs>>

\* ... and is an error when removing.
ReadToRemove(p, job) ==
    LET f == file[FileOf(job)]
    IN  /\ Doing(p, job) /\ at[p] = "look" /\ job \in {"unhook", "unmcp"}
        /\ IF f.ok /\ Edited(job, f.has) # f.has
           THEN /\ held' = [held EXCEPT ![p] = Edited(job, f.has)]
                /\ Goto(p, "back")
           ELSE Done(p)
        /\ UNCHANGED <<file, saved, purged, links, runs>>

\* fs::write: truncated, then filled.
Truncate(p, job) ==
    /\ Doing(p, job) /\ at[p] = "trunc"
    /\ file' = [file EXCEPT ![FileOf(job)] = [ok |-> TRUE, has |-> <<>>]]
    /\ Goto(p, "fill")
    /\ UNCHANGED <<saved, purged, links, held, runs>>

Fill(p, job) ==
    /\ Doing(p, job) /\ at[p] = "fill"
    /\ file' = [file EXCEPT ![FileOf(job)] = [ok |-> TRUE, has |-> held[p]]]
    /\ Done(p)
    /\ UNCHANGED <<saved, purged, links, runs>>

\* remove_mcp_via_claude_cli, if there is a claude that can parse the file.
RemoveByCli(p) ==
    /\ Doing(p, "uncli")
    /\ \/ /\ file["claude"].ok
          /\ file' = [file EXCEPT !["claude"].has = WithoutServer(@)]
       \/ UNCHANGED file
    /\ Done(p)
    /\ UNCHANGED <<saved, purged, links, runs>>

\* The links of ~/.local/bin.
Unlink(p) ==
    /\ Doing(p, "links")
    /\ links' = FALSE
    /\ Done(p)
    /\ UNCHANGED <<file, saved, purged, runs>>

Purge(p) ==
    /\ Doing(p, "purge")
    /\ saved' = [f \in File |-> {}] /\ purged' = TRUE
    /\ Done(p)
    /\ UNCHANGED <<file, links, runs>>

\* git pull --ff-only: a failure ends the upgrade, with nothing installed.
Pull(p) ==
    /\ Doing(p, "pull")
    /\ \/ Done(p)
       \/ todo' = [todo EXCEPT ![p] = <<>>] /\ UNCHANGED <<at, held>>
    /\ UNCHANGED <<file, saved, purged, links, runs>>

\* install.sh: the settings are backed up; each file is replaced by a rename; one
\* that does not parse ends the script.
Script(p) ==
    /\ Doing(p, "script")
    /\ saved' = [saved EXCEPT !["settings"] = Backed("settings")]
    /\ IF file["settings"].ok
       THEN IF file["claude"].ok
            THEN /\ file' = [file EXCEPT !["settings"].has = WithHook(@),
                                         !["claude"].has = WithServer(@)]
                 /\ links' = TRUE
            ELSE /\ file' = [file EXCEPT !["settings"].has = WithHook(@)]
                 /\ UNCHANGED links
       ELSE UNCHANGED <<file, links>>
    /\ Done(p)
    /\ UNCHANGED <<purged, runs>>

\* Killed, or the machine is switched off.
Crash(p) ==
    /\ todo[p] # <<>>
    /\ todo' = [todo EXCEPT ![p] = <<>>]
    /\ at' = [at EXCEPT ![p] = "look"]
    /\ held' = [held EXCEPT ![p] = <<>>]
    /\ UNCHANGED <<file, saved, purged, links, runs>>

Next ==
    \E p \in Proc :
        \/ \E jobs \in {Wizard, Uninstall, Append(Uninstall, "purge"), Upgrade} : Start(p, jobs)
        \/ \E job \in {"hook", "mcp"} : Skip(p, job) \/ Look(p, job) \/ ReadToInstall(p, job)
        \/ \E job \in {"unhook", "unmcp"} : ReadToRemove(p, job)
        \/ \E job \in {"hook", "mcp", "unhook", "unmcp"} :
              Backup(p, job) \/ Truncate(p, job) \/ Fill(p, job)
        \/ ByCli(p) \/ RemoveByCli(p) \/ Unlink(p) \/ Purge(p) \/ Pull(p) \/ Script(p) \/ Crash(p)

Spec == Init /\ [][Next]_vars
-----------------------------------------------------------------------------
\* Properties

\* What another tool has in the two files is never lost, however runs overlap or
\* end: it is in the file, or in one of its backups as long as these are kept
\* (install.sh: "Non-destructive: always backs up settings.json before edit").
OthersKept ==
    \A f \in File : "other" \in Commands(file[f].has) \union saved[f] \/ purged

\* Our command is never in a file twice, so that a prompt fires the hook once,
\* however many runs install it at the same time.
NeverTwice ==
    \A f \in File : Cardinality({i \in DOMAIN file[f].has : "ours" \in file[f].has[i].runs}) <= 1
=============================================================================

# A verification development of cc-connect

cc-connect puts Claude Code sessions of several people into one chat room. Each
machine runs a *chat-daemon* per room, which exchanges signed messages with its
peers by gossip and appends them to the room's `log.jsonl`. A prompt hook, run by
Claude Code before every prompt, injects what is new in the rooms that this very
Claude process was bound to, with the consent of its human.

The program is a set of short-lived and long-lived processes that share files in
`~/.cc-connect` and `$TMPDIR/cc-connect-$UID` and hardly ever lock them. What is hard
about it is not in a function but between processes: a read of a file and the rename
that follows it, a check of a PID and the removal of a path, a print and the update of
a cursor, a subscription and the history asked for after it. This directory models
those protocols in TLA+, checks them with TLC on small instances and proves the central
facts with TLAPS for all instances. Paths below are relative to `src/crates/` unless
they start otherwise.

## 1. Inventory

| Component | State | Operations | What is hard | What makes it correct |
|---|---|---|---|---|
| Consent gate (`cc-connect-core/src/session_state.rs`, `cc-connect/src/accept.rs`, room tools of `cc-connect-mcp/src/main.rs`) | `rooms.json` per Claude PID, one `pending-joins/<token>.json` per request | `add_topic`, `remove_topic`, `remove_all_topics`, `create_pending_join`, `consume_pending_join`, `prune_dead_pid_sessions`, `list_topics` | read-modify-write without a lock by two processes; PID reuse; a token consumed twice; a sweep beside a starting Claude | only granted rooms are bound or shown; a token is granted once; sweeps spare the living |
| Cursor files (`cc-connect-core/src/cursor_io.rs`, `posix.rs`) | one `<session>.cursor` per room and session | `read_cursor`, `advance_cursor` | a lock on an inode that a rename replaces; kills and power loss between fsync and rename | an atomic register; advances exclude each other; each returns |
| Prompt hook (`cc-connect-hook/src/main.rs`, `log_io.rs`) | none of its own: cursors, logs, stdout | read cursors, scan logs, print, advance | hooks of one session overlap; killed between print and advance; several rooms, one of which fails | no message missed; eventually all considered; none twice without a fault |
| Hook output (`cc-connect-core/src/hook_format.rs`) | none | `render`, `fit_to_budget` | what the preamble leaves of 8 KiB | the newest messages that fit |
| chat-daemon (`cc-connect/src/chat_daemon.rs`) | `chat-daemon.pid`, `<topic>.active`, the process | start, list, stop, the daemon's main task | check-then-spawn; files truncated, then filled; sweeps by path; two tasks of a daemon; shutdown | one daemon per room; the files tell the truth; the room is served at last |
| Chat session (`cc-connect/src/chat_session.rs`) | the gossip topic, `log.jsonl`, `chat.sock`, the ring of mentions | `run_session`: join, backfill, listener, send loop, IPC server, watchdog | gossip and backfill together; bounded channels between its tasks; mentions while nobody waits; a watchdog that moves the socket | logs faithful to what was sent; joins miss nothing; mentions delivered; no deadlock; the socket reachable |
| Backfill (`cc-connect/src/backfill.rs`) | requests to peers, the log | server, client with timeouts | a limit; a timeout between appends; duplicates | what a whole answer promises |
| Rate limiter (`cc-connect-core/src/rate_limit.rs`) | per author a queue of times | `check_and_record` | the boundary of the window; what is forgotten | no window above the cap; the decision of a limiter that remembers everything |
| host-bg (`cc-connect/src/host_bg.rs`) | PID file per hosted room | start, list, stop | a file created, then filled, under list; READY before the signal handler | start and stop tell the truth |
| Lifecycle commands (`cc-connect/src/lifecycle.rs`) | all of the above, and Claude Code's files | clear, upgrade, uninstall | deletes under running processes, half-way failures | running sessions recover; other tools' entries stay |
| Setup (`cc-connect/src/setup.rs`, `room.rs`, `src/install.sh`) | `~/.claude/settings.json`, `~/.claude.json`, `config.json` | install and remove hook and server, answer the wizard's questions | in-place writes of overlapping or killed runs | nothing of others lost; ours once; fields kept |
| MCP server (`cc-connect-mcp/src/main.rs`) | none but `config.json` | the `cc_*` tools | requests beside accepts and daemons | those of the gate, the session and the configuration |
| Claude PID discovery (`cc-connect-core/src/claude_pid.rs`) | none | walk up the parents | depth limit, processes that end during the walk | finds the nearest `claude` or none |
| Identity (`cc-connect-core/src/identity.rs`) | `identity.key` | `generate_or_load` | two processes without a key; a kill after creating it | one key |
| Terminal UI (`cc-connect-tui/src`) | tabs, an overlay, a session and a claude per tab | keys, joins, closing | an answer about a tab while tabs change; dropping a tab | questions about the right tab; nothing outlives its tab |
| Messages and tickets (`cc-connect-core/src/message.rs`, `ticket_payload.rs`) | none | build, encode, validate | a limit kept by one side only | what is sent is accepted |
| File drop safety; launcher, foreground host and chat, doctor, command line; `src/chat-ui`; `src/vscode-extension`; vendored ed25519 | see `PROJECT.json` | | data, I/O, or front ends | |

How they interact. The MCP server of a Claude and `cc-connect accept`, run by the
human, write the same `rooms.json`; the hook reads it. The MCP server, the terminal UI
and accept start daemons through `chat-daemon start`. The daemon's session writes
`<topic>.active` and appends to the log; the hook reads both. The hook alone writes
cursors. Sessions of one room meet by gossip and by backfill; clients on the machine
find a session through its marker `chat.sock`. `clear` stops daemons and deletes what
sessions have open. Nothing but the pending-join rename, the cursor's lock and the
log's lock arbitrates between processes.

## 2. Modules

| Module | Models | Checked with | Proofs |
|---|---|---|---|
| `Consent` | what the gate promises: ask, grant, create, show | as `ImplementsConsent` | |
| `ConsentGate` | the gate's files and processes | `MCConsentGate` | `ConsentGateProofs` |
| `CursorRegister` | what a cursor promises: an atomic register with a power loss | as `ImplementsRegister` | |
| `CursorFile` | `cursor_io.rs`, system call by system call | `MCCursorFile`, `MCProgress` | `CursorFileProofs` |
| `HookDelivery` | the hook from the cursors it reads to those it writes | `MCHookDelivery`, `MCProgress` | `HookDeliveryProofs` |
| `HookFormat` | the lengths of all that the hook prints | `MCParts` | `PartsProofs` |
| `DaemonLifecycle` | start, list, stop, daemon, `.active`, hook sweep of one room | `MCDaemonLifecycle`, `MCProgress` | `DaemonLifecycleProofs` |
| `Room` | what a room promises: logs that only grow by what was sent | as `ImplementsRoom` | |
| `RoomSession` | sessions of a room on several machines: join, backfill, send, receive, end | `MCRoomSession` | `RoomSessionProofs` |
| `Chat` | the tasks of one session: send loop, listener, display, mentions | itself | `ChatProofs` |
| `IpcSocket` | marker, sockets, watchdog and guard of the sessions of a room | `Machine` | `MachineProofs` |
| `HostBg` | start, list, stop and process of host-bg daemons | `Machine` | `MachineProofs` |
| `Machine` | composes `IpcSocket` and `HostBg` with `clear [--purge]` | itself | `MachineProofs` |
| `Limiter` | the rate limit with all the past at hand | as `ImplementsLimiter` | |
| `RateLimiter` | `check_and_record` | `MCParts` | `PartsProofs` |
| `Install` | wizard, uninstall, upgrade, install.sh over Claude Code's two files | `MCParts` | `PartsProofs` |
| `Config` | the writers of `config.json` | `MCParts` | `PartsProofs` |
| `Identity` | `generate_or_load` | `MCParts` | `PartsProofs` |
| `Tabs` | tabs, overlays, sessions and claudes of the terminal UI | `MCParts` | `PartsProofs` |
| `ClaudePid` | `find_claude_ancestor` | `MCParts` | `PartsProofs` |
| `Lists` | `Vec::retain` and a sum of lengths, for `Install`, `Tabs` and `HookFormat` | `MCParts` | `PartsProofs` |

`PROJECT.json` maps each definition to the lines it models. Variables under a comment
`History` are read by properties only. An operator under a comment `Mutant of` is a
plausible bug in the definition after it; nothing but the mutants of `PROJECT.json`
uses it, and with it in place the named property fails.

`MCProgress` and `MCParts` put parts that share no state into one run: the first state
picks a part, whose own `Init` and `Next` then run while the variables of the others
stand still. A property there is the part's own, under the condition that it is the one
that runs, so the state space is the sum of the parts' and not their product.

### ConsentGate

A PID runs a Claude (`alive`); `incarnation` counts how many Claudes had it. Each
Claude has an MCP server, which handles one request at a time, and a hook. `rooms[p]`
is the file of PID `p` with its version, `pending` the directory of requests, `live`
the rooms with a daemon. A writer's `step`, `req` and `seen` are where it is in
`add_topic` or `remove_topic` and the list it has read: `AddRead` and `AddWrite` are
the two halves of the unlocked read-modify-write. `accept` is read, rename, ensure the
daemon, add. A sweeper (each hook, each starting MCP server) takes the PIDs of the
directory one by one, probes, and removes what it found dead in a step of its own.
The hook reads `rooms.json`, filters by active rooms, and injects, in three steps.
`NewerBinaryWrites` makes a file this release cannot read, which `add_topic` takes for
an empty one.

### CursorFile, HookDelivery and HookFormat

`CursorFile` has inodes, because the algorithm is about them: `path` is the inode at the
cursor's path, `lock` the holder of the lock of each inode, `onDisk` the entries the
directory can have after a power loss, `synced` the inodes with durable content.
`Open`, `OpenNew`, `Lock`, `Check`, `Retry`, `GiveUp`, `CreateTmp`, `WriteTmp`,
`SyncTmp`, `Rename`, `SyncDir`, `Unlock` are the calls of `advance_cursor` in order;
`Abandon` is any of them failing, or a kill. It implements `CursorRegister`, and
`HookDelivery` uses that: there a cursor is read and written atomically. `HookDelivery`
keeps the order of `run`: for each room `ReadCursor` then `ScanLog`, then `WriteStdout`
of the merged batch, then `Advance` for each room. A message is its id; the budget of
8 KiB is a number of lines, one of which the marker takes. `HookFormat` has the real
budgets in bytes: header, summaries and indexes with their own cuts, lines and marker,
whose length grows with the digits of the count in it.

### DaemonLifecycle

One room. Both files are `fs::write`s, so they are truncated (`Torn`), then filled,
through an inode that may have been unlinked in between (`fds`). A daemon has a main
task (`main`) and a session (`sess`) that run side by side. A client is a start, a
list, a stop or a hook's sweep; they look, read, probe and unlink in separate steps
and act on the path, not on what they read. `Exists` knows that an unreaped child
still answers signal 0. A drained session never ends, since it holds a sender of the
channel it waits on; this is written where it is, in the comment of the session part,
and the absence of an action.

### RoomSession

A message is its number in the order of sending, `author` says whose it is, `log` is
`log.jsonl` with copies and order as they come. `Subscribe`, then for each peer of the
ticket `Request` (the answer is what `handle_one` returns, its oldest `Limit` messages,
and the ids at hand are collected once), `TakeNext` for each message of the answer with
the two guards of `attempt`, `AttemptFails` for a timeout or a failed append at any
point between, then `JoinEnds`. Only then the listener (`Receive`) and the send loop
(`SendAppend`, and in a step of its own `SendBroadcast`) run. Gossip holds for each
subscription a set of messages it has not read: they are reordered, lost
(`ReceiveDrops`, by name, within `MaxLost`) and delivered once per subscription, as the
gossip library deduplicates; the sender may get its own back. `SessionEnds` is a stop,
an error or a kill, and the machine can come back with its log.

### Chat

One session that is up. The send loop goes through `TakeLine`, `Echo` (waits for room in
the display channel), `LogOwn`, `Air`; the listener through `HearChat` or `HearFile` and
`FetchDone`, then `ShowPeer` (waits likewise); `Drain` is the consumer. A line that
cannot become a message ends the session. Mentions go to the ring and to the receivers
of waiting clients; the client subscribes, looks at the ring, waits, returns with a
context that is read from the log, and calls again with the id it was given. Which lines
the rate limiter passes is a free choice, since `RateLimiter` has the rule.

### IpcSocket, HostBg and Machine

`own[s]` is the path in the guard of session `s`, `new[s]` one that was drawn and is not
bound yet, `marker` what `chat.sock` says: `Draw` writes it before the bind, as
`ipc_socket_path` does. The watchdog (`Watch`, `Rebind`) draws and binds again when its
file is gone, and swaps the guard's paths. `End` aborts the task except where a bind is
under way, `EndDetached` leaves it running, `Kill` leaves the files. In `HostBg` a PID
file is created (`Create`), filled (`Fill`), READY is told (`Tell`), and only then is
SIGTERM handled (`Park`); `ReadGarbage` and `RemoveGarbage` are the two halves of what
list does with an unparsable file. `Machine` adds `clear`: hosts one by one, then, with
`--purge`, the rooms with their markers, then the sockets. `Apart` keeps sessions and
hosts from running at the same time, as they share no file.

### The small ones

`RateLimiter` is `check_and_record` with the pops of the queue's front, the cap and the
warning's cooldown; `Limiter` has the complete history instead of a queue. `Install`
keeps of the two files whether they parse and the commands in their entries; runs look,
back up, read, truncate and fill. `Config` and `Identity` are the reads, creates and
writes of one file by several processes. `Tabs` handles one key at a time, the overlay
first; sessions and claudes end by themselves. `ClaudePid` looks at one process a step
while others end.

## 3. Runs

Passing runs:

| Run | Shows | Bounds |
|---|---|---|
| `ConsentRaces` | only granted rooms bound or shown; one winner per token; sweeps spare the living; the gate is implemented | 2 PIDs used once, 2 rooms (a foreign and a local one), 1 token, 2 accepts at once, a newer release |
| `CursorFaults` | exclusive renames; only renames cost attempts; an atomic register | 2 advances, 1 reader, 2 ids, 4 inodes, 2 attempts, all faults |
| `HookOverlap` | nothing missed | 2 hooks, 2 rooms, 3 messages, 2 lines of budget, faults |
| `DaemonCrowd` | both files name only daemons in the right state | 2 daemons, 2 starts, a list, a stop, a hook, 1 fault of any kind |
| `Progress` | one daemon in the room, found in the PID file, and the room served at last; nothing printed twice and everything considered; advances return | 1 start at a time, 4 daemons, 3 faults; 1 hook, 2 rooms, 4 messages, 2 lines; 2 advances, 2 attempts, 4 inodes, no fault; fair |
| `Parts` | the properties of the seven parts without common state | 2 authors, window 1, cap 2, cooldown 3, clock to 5; 2 overlapping of 3 installs; 2 writers, 4 writes; 3 processes, 2 seeds; 3 tabs, 2 rooms; 5 PIDs, depth 2; 1 to 3 rooms, 3 messages |
| `RoomJoins` | logs faithful to what was sent; a join misses nothing; copies bounded | 3 machines, 2 messages, answers of 1 message, 1 session that ends, 1 loss |
| `ChatUp` | mentions, contexts, who wakes whom, limits, no deadlock | 3 messages, 2 lines, channels of one place, a ring of two; fair |
| `MachineUp` | sockets neither leaked nor stolen; host-bg start and stop true; reachable at last | 2 sessions, 6 paths, 1 sweep, 1 host, 1 clear; fair server tasks |

Why these bounds are enough to be of interest. A race on `rooms.json` takes two writers
of one file and two rooms; a token consumed twice takes two accepts. A lost inode check
takes one hook that waits on an inode while another renames; the last of two attempts
is the boundary of the retry loop. Four inodes are the file, two temporary ones and an
old one still open; with fewer, allocation would block. A batch of three or four
messages of two rooms overflows a budget of two. A daemon is replaced three times in
`Progress`, once per fault. In `Parts` a cap of two and a window of one put messages
on, inside and outside the boundary, several windows in a row; a depth of two is
exceeded by chains of four processes; texts of 4000 bytes exceed each section's budget,
bodies of 8192 the whole output. In `RoomJoins` an answer of one message cuts every
history of two; the third machine is the one that backfills from a log another has
backfilled. In `ChatUp` every channel is full after one line and the ring evicts at the
third mention. In `MachineUp` six paths are enough for each session to be moved by the
sweep and by the purge. A reused PID (`MaxIncarnation` above one) is left to the proofs,
which hold for any number.

Where `CHECK_DEADLOCK FALSE` stands, the instance may use up its PIDs, tokens, ids,
lines or daemons and then stop; the program has no such end. `SYMMETRY` is used where
the constants are interchangeable in the specification and the checked formulas, and
in no run that checks liveness.

Runs that show a disagreement. Each checks one sentence of the documentation or of a
comment against what the code does; `PROJECT.json` quotes it under `findings`.

| Run | The text says | The run shows |
|---|---|---|
| `ConsentLostAccept` | after accept the hook injects the room | a concurrent write of the same `rooms.json` drops the binding |
| `HookLostAdvance` | the cursor is locked while in use, so advances are not lost | a slower hook of the session sets the cursor back |
| `DaemonZombie` | dropping `input_tx` ends the session | it does not, and the daemon stays in the room |

The first two are bounded: `BindingsGranted` says that a race binds no room nobody
granted, `NothingMissed` that a cursor set back costs a duplicate and no message, and
both are proved.

Other things the models show that the texts do not say, without a run of their own:

- an accept can also write back a room that was left meanwhile; a Claude that gets a
  reused PID before a sweep inherits its bindings; `add_topic` and `remove_all_topics`
  overwrite a file of an unknown version;
- with ids out of order the cursor is the last id of the file and not the highest, and
  `NothingMissed` fails with `InOrder = FALSE`; a room whose cursor cannot be advanced
  has already been printed; the sections of three rooms can fill the 8 KiB, and then
  messages are dropped without a marker;
- two overlapping starts both spawn (`SoleSession` fails with two start slots); a list,
  a start or a hook that meets a half-written file, or acts on a PID it read before, can
  unlink the file of a running daemon; READY can precede the end of the join;
- a log can hold a message as often as there are machines, since the listener does not
  look for an id in the log; a history longer than the server's limit is taken for had;
- a marker that is deleted while its socket stays is never written again, and the end of
  one session of a room takes the marker of another with it;
- two writers of `config.json` at once, or one that is killed, can lose every field; an
  upgrade whose `git pull` fails leaves nothing installed;
- a join in the terminal UI whose claude cannot be started leaves its session running
  without a tab;
- the comment at `cc-connect/src/chat_session.rs:823` ("listener no longer pushes") is
  older than the listener, which pushes mentions at lines 631-649.

## 4. Fairness

- `CursorFile`: weak fairness of each hook that is inside `advance_cursor`. The operating
  system schedules it, and a lock it waits for is released by holders that run too. No
  strong fairness is needed: at most `RaceRetryLimit` waits.
- `HookDelivery`: weak fairness of a running hook, and strong fairness of a hook being
  fired with room `r` among its rooms: the user goes on prompting while the room is
  bound and live. Without prompts nothing is delivered, by design.
- `DaemonLifecycle`: weak fairness of each task of a daemon and of each client already
  started, and of a start being made: users who want the room run `chat-daemon start`
  again (the MCP server does at each join, the UI when it opens). Faults are bounded
  and not fair. Under the same fairness `DaemonZombie` shows that shutdown never ends.
- `MCProgress` states the fairness of these three for the part that runs.
- `Chat`: weak fairness of the send loop and of the consumer, which are tasks of a
  running program, and strong fairness of `Echo`: places in a bounded tokio channel are
  given to waiting senders in turn, so the listener cannot take every one. Neither
  lines nor messages from outside are promised, and the listener is not promised to go on.
- `Machine`: weak fairness of the watchdog (`Watch`) and of the bind it has begun
  (`Rebind`). No session, sweep or `clear` is promised to come or to go on;
  `ReachableAtLast` speaks of behaviours where no `clear` stays half-way.
- `RoomSession` has no liveness property: gossip may lose, and nothing retries.

## 5. Proofs

`tlapm` checks every theorem, with these assumptions on the constants and no other
(`ConstantsAssumption` of each module, `MachineAssumption`, `HookAssumption`,
`PartsAssumption`): sets are distinct where a process or a sentinel must be told from
another, bounds and lengths are naturals, and flags are Booleans. Three say a little
more, and TLC evaluates them all. The machines of a room are finite in number, without
which a bound on copies means nothing. The terminal UI can have at least the tab that it
opens with. At most 99999 messages come to one prompt, which is where the model's marker
ends its digits. A theorem that needs more says so in its `ASSUME`.

Every invariant and every action property that a passing run checks is also a theorem.

**ConsentGateProofs.** `BindingsGranted` is inductive with `TypeOK`, because it speaks
not only of the files but of every list a writer or a hook holds in memory. That is
why it is stated so: a lost update is a stale list renamed into place, and it is
harmless to consent since the list had only granted rooms and nothing is ever
un-granted. `WinnerInv` adds to `SingleWinner` that a token of a pending file is
issued and that no two pending files share one (`TokensAccounted`): without it, a new
request could reuse the token of a consumed one. `RefinesConsent` maps the pending
directory to the open requests and goes by actions: `AcceptRename` is `Grant`,
`HookInject` is `Show`, with `BindingsGranted` as its guard, and all else stutters or
is `Ask` or `Create`. `SweepsSpareTheLiving` is an action property from `SweepInv`:
a PID that a sweeper has found dead was used, and if it runs, it runs a second Claude.

**CursorFileProofs.** `HeldInv` says that a hook past its lock holds the lock of the
inode it has open and that one in the critical part has the path's inode open; from
one path and one holder per inode follows `Exclusive`. `LostInv` counts: a hook whose
open inode is no longer the path's has been overtaken once more than it has retried.
`TmpInv` says that temporary inodes are private, and hold the value and are durable
when they should be, which `RefinesRegister` needs at the rename and at a power loss.

**HookDeliveryProofs.** `NeverMissed` assumes logs in order of id (`InOrder`). The
invariant `DeliveryInv` says of every cursor, of every cursor a hook has read and of
every id it is going to write, that what is in the log up to it was printed, left out,
or is in that hook's own batch (`Covers`). It does not ask that cursors grow, since they
do not. `PrintedOnce` assumes in addition that there is no fault and one hook at a time;
its `OnceInv` puts what was printed at or below the cursor, or below the id about to be
written to it, and the batch above the cursor.

**DaemonLifecycleProofs.** `FilesInv` relates each file to the phase of the daemon in
it, and each open descriptor to a daemon about to fill it (`Fillers`); a guard that
unlinks another's file can only make `ActiveMeansUp` easier. `NeverTwo` assumes
`Sequential`: one start slot, no list, no stop, no killed launcher. Its invariant
`SoleInv` follows the PID file from the spawn to the park of the daemon that may be in
the room, and `FoundWhileParked` follows from it too. With two starts TLC refutes both
at once. `HookPrintsOnce` brings `PrintedOnce` of the module above to `NothingTwice`,
which the run `Progress` checks: each step of `MCProgress` is one of the hook's or
leaves its variables alone.

**RoomSessionProofs.** `Inv` has four parts. `Known`: what is logged, on its way or in
an answer was sent, what was broadcast is in its author's log. `AsksOthers`: nobody asks
itself. `Joining`: while a whole answer of `q` is looked at, everything `q` has
broadcast is in the log, held by the subscription, lost by name, or still in the answer.
It holds at `Request` since `q` logs before it broadcasts, and at every `SendBroadcast`
since the joiner is subscribed already. `Joined` is the same without the answer, from
`JoinEnds` on. `JoinsLoseNothing` follows from `Joined`. `RefinesRoom` goes by actions:
`SendAppend` is `Send`; `TakeNext` and `Receive` are `Learn` or a stutter, by `Known`
and the two guards against one's own messages.

`CopiesBounded` (`CopiesStayBounded`) needs an invariant about what is still to come.
`FewCopies` says of a message that is not one's own: the copies in the log, those yet to
be taken from the answer at hand, and the one gossip may yet bring are together no more
than the machines that hold it, with oneself. An answer can hold several copies, and all
are taken; but the machine that takes them was not among the holders and becomes one, so
a hop adds one copy, the one of gossip. That gossip brings one at most is `AiredOnce`.

**MachineProofs.** Every step of `Machine` is a step of the sessions, of the hosts, of
both or of neither (`StepsOfParts`), so each part has an invariant of its own.
`HostInv`: a daemon that serves has its PID file, but for one that a list or an
impatient stop took away. `SockInv`: no path is two sessions', and the guard's path is the
one its session bound last; the second is what the watchdog's swap is for.

**ChatProofs.** `TypeCorrect` includes what the channels can hold. `OnlyPeopleWake` is
inductive with `LinesOwned`: a line in the send loop is taken for the words of whoever's
queue it lay in. `AiredIsAccepted` is where the limits of the two sides meet: what
`Builds` lets through at the moment of logging, with the nickname of that moment, is
what a receiver `Accepts`. For `MentionsAreKept` and `ContextIsTold` the invariant is
`ClientInv`. `Fresh`: no id in the log, in the ear or on its way to the log is above the
last one drawn, so a mention is pushed above all the others. `Ordered`: the ring and the
client's channel rise and are in the log, since the log is written before the push.
`InStep`: the client's id is in the log and the highest it was given, its channel is
above it, and while it waits every mention of the ring above its id is in its channel;
that holds from `Snapshot` on because the client subscribes before it looks at the ring.
So a mention that the client's id passes over without its being given is one that the
ring has evicted, which is what `MentionsKept` allows.

**PartsProofs.** Each theorem is about one part of `MCParts`.

- *Lists.* `Keep` and `SumOf` are recursive functions, whose existence and values have
  to be derived. An induction is out of reach as a rule, but not as a set: `UpTo` takes
  a set with 0 that has `n` with `n - 1`, and the least element of what is left over (the
  natural numbers are well-founded) gives a contradiction. `KeepFacts` and `SumFacts` say
  what is kept, in which order, and that a sum is bounded by its parts.
- *Rate limiter.* `LimiterInv` says that the queue is the tail of the history
  (`TailInv`), that times are in order (`OrderInv`), that the last warning is the latest
  of all (`WarnInv`) and that the cap holds. `RefinesLimiter` then counts: the entries
  the ideal limiter finds in its window are exactly the queue after the pops.
- *`config.json` and `identity.key`.* `ConfigInv`: while no two calls overlap, one writer
  at most is at work, and what it holds differs from what was set in its own field alone.
  `IdentityInv`: `O_EXCL` lets one process write, before anybody runs.
- *Tabs.* `AskingInv`: while the question stands, the active tab is the one asked about,
  as no key but the answer reaches the tabs. `NoneOutlivesTab`: a session ends with its
  tab, since what is kept of the list of tabs is all but the one dropped.
- *Claude Code's files.* `OthersAreKept` and `NeverInTwice` hold for any number of
  overlapping and killed runs. `FilesInv` says of each file that its list is `Sound` (our
  command is in it once at most, under its own key in `~/.claude.json`) and that what
  others have is in it or in a backup. `RunsInv` says the same of the list that a run
  holds in memory: it is sound although it may be old, and before a run truncates, its
  file's backup has been made. So a lost update may lose an edit, but neither doubles ours
  nor loses for good what is another's.
- *The hook's text.* `HookInv`: the lines that are left are those of the newest messages,
  nothing longer than they fitted, and the block is within the budget. `BudgetBounds`
  adds up header and sections: for two rooms they leave room for the marker, so that what
  is printed stays within 8192 bytes, whatever the lengths of the texts.
- *The search for the claude process.* `WalkInv` says that there is a tree, that of the
  moment when the walk began, such that each parent is still the one in it or, where that
  has ended, init; that the walk stands as high in it as it is deep; and that the nearest
  claude above where it stands is the nearest above the start. Hence `FindsRightClaude`:
  it finds that one or, past the depth or after a process ended, none; never another.

Only model-checked: liveness, which is out of TLAPS's reach, that is `AdvanceReturns`,
`AllPassed`, `ServedAtLast`, `LinesTaken` and `ReachableAtLast`.

## 6. Limits

- A Claude that ends lets its MCP server and hook finish; a PID is reused only after.
  Creating or joining a room is one step up to its `add_topic`. Removing a directory is
  one step.
- The JSON form of a cursor and malformed cursors other than as an unreadable one, and
  the left-over temporary files of killed hooks, are left out. A power loss keeps what
  was fsynced and one of the possible directory entries.
- In `HookDelivery` ids are unique in a log and among the logs; that a log can have
  copies is `RoomSession`'s subject.
- `DaemonLifecycle` and `HostBg` do not reuse PIDs and do not know strangers that happen
  to have one, nor a `kill` refused for another user's process.
- `RateLimiter` assumes a clock that is not set back; `Chat` assumes clocks that agree,
  so that ids come in order but for files that take their time.
- `RoomSession` delivers a gossip message once per subscription, as its library is taken
  to do, and answers of a backfill are read at one moment.
- `IpcSocket` takes 32 random bits to make a path that nobody has.
- `Install` takes backups to succeed and to have names of their own.
- The network, the relay and the cryptography are taken as given everywhere.

## Not modelled

- `clear --purge` deleting `sessions/` and `pending-joins/` under accepts and hooks; the
  checks of git before an upgrade.
- `recent`, `list` and `save_summary` of the IPC server and the read-only MCP tools:
  they change nothing that another part reads back.
- File drop safety, message encodings, canonical JSON and tickets: functions of data
  without state.
- The foreground host and chat, the mention watcher and the doctor: the session in
  them is `RoomSession` and `Chat`; the rest is terminal I/O or reads.
- The choice of a multiplexer, layouts and wrappers of the launcher; the command line.
- Drawing, scrollback, completion and text fields of the terminal UI, and its event
  loop's wait on an input channel while a forwarder drains the display.
- `src/chat-ui` and `src/vscode-extension`: front ends over the log and the socket,
  which are modelled from the session's side.
- The vendored ed25519 library.

## 7. What would come next

1. `HookDelivery` composed with `ConsentGate`: a room bound, left and bound again, with
   sessions deleted by a purge in between.
2. The log tails of the two TypeScript front ends, which read while they are notified,
   and the extension's queue of prompts.
3. The terminal UI's event loop with its channels, composed with `Chat`.
4. Proofs of what the liveness properties rest on: that no state but the last ones of a
   part is without a step, as a safety property.

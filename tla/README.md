# gtlibcpp in TLA+

gtlibcpp reads and writes the memory of another process: it snapshots values,
holds them ("freezes" them) from worker threads, and lets an agent do so
over JSON-RPC under a policy; a trainer drives the same library from a cheat
table and the keyboard. This directory models the parts of it where threads, time,
failure and foreign input meet, checks them with TLC on small instances, and
proves safety results with TLAPS for every size.

Paths below are relative to the repository root.

## 1. The system

| Component | State it keeps | Operations |
|---|---|---|
| **FreezeManager** (`src/freeze.cpp`) | `entries_`: per id the request, the original bytes, a worker thread's handle, `cancel`, `active`, `restored`, counters | `freeze`, `unfreeze`, `restore`, `cancel_all`, destructor; the worker loop; read-only `status`, `all_status`, `active_count` |
| **Rate limiter** (`src/policy.cpp`) | per alias the start and the count of a window | `allow` |
| **Policy, kill switch** (`src/policy.cpp`) | the manifests (fixed), the limiter, an atomic flag and a reason | `authorize`, `authorize_with_token`, `engage`, `release` |
| **AgentService** (`src/agent.cpp`) | `pending_`: approvals by request id; the server thread and its stop flag | `handle` (12 methods), `serve`, `stop` |
| **In-process transport** (`src/inproc_transport.cpp`) | two queues, one mutex, one condition variable, `closed_` | `send`, `receive`, `close` |
| **Named pipe transport** (`src/named_pipe_transport.cpp`) | a pipe handle on each side | `send`, `receive`, `close` |
| **MemorySession** (`include/gtlibcpp/memory_session.hpp`) | the backend, the identity read once | typed and raw reads and writes, pointer chains, batches, strings, compare-write-verify |
| **Scans** (`candidate_scan.hpp`, `aob_scan.hpp`) | none: functions over memory and an earlier snapshot | `first_scan`, `next_scan`, `refine_candidates`, `scan_aob` |
| **Parser** (`src/parser.cpp`) | none between calls | `parse_string` and its XML reader |
| **Trainer CLI** (`tools/gt_trainer_cli.cpp`) | `ammo_frozen`, the bindings' key state | the hotkey triggers, the polling loop |
| **Legacy GTLibc** (`libs/gtlibc`), demos, examples, `gtctl` | see PROJECT.json | |
| **Logger, Result, backends, discovery** | a sink; an OS handle | logging; OS calls |

How they interact. A client thread calls FreezeManager, which starts one thread
per id; both go through one MemorySession to one backend and the target process
behind it. AgentService is called by its own server thread, fed by a transport,
and by anyone who calls `handle` directly; it asks Policy, keeps approvals
between `preview` and `apply`, and hands `freeze`, `unfreeze` and `restore` to
FreezeManager. Policy asks the limiter and the switch.

What is hard. Workers and clients share an entry's flags without its lock; a
thread runs before its handle is stored; `join` waits for a thread that has to
notice a flag; the target dies at any time and writes may be partial; two threads
in `handle` race for an approval and for the limiter's window; windows and
approvals end at an instant. PROJECT.json lists each of these at its line.

What makes each component correct:

- *FreezeManager*: no worker is ever without an owner that can join it; every
  call returns; after the destructor nothing runs; what `status` reports
  (`active`, `restored`) can be relied on; the original bytes go back only once
  nobody rewrites the address any more.
- *Rate limiter*: bursts are bounded; an admission is counted once, in its window.
- *Policy and AgentService*: an approval buys one write; the switch stops what
  comes in under it; what was approved was also counted.
- *Transports*: every request is answered at most once and in order, none waits
  for ever for a wakeup, `stop` returns.
- *MemorySession, scans*: no failure is reported as success; a scan finds what a
  naive search finds.
- *Parser*: an entry it cannot represent is reported, never guessed.

## 2. The modules

| Module | What it is |
|---|---|
| `FreezeContract` | abstract: an id is *absent*, then *held*, then *released*; it rewrites its value only while held, is held once, and the original goes back only after |
| `FreezeManager` | `src/freeze.cpp` in detail; `Contract` instantiates `FreezeContract` over it |
| `FreezeProofs`, `FreezeRefinement` | theorems about `FreezeManager`; that it implements the contract |
| `RateWindow` | one window of the limiter: when it rolls over, whether it has a slot; used by the two modules below |
| `RateLimiter`, `RateProofs` | `allow` on one thread against the clock; its theorems |
| `Agent`, `AgentProofs` | `preview`, `apply` and `kill_switch` on several threads, with Policy and the limiter; its theorems |
| `InProcServer`, `InProcProofs` | the in-process transport under `serve` and `stop`; its theorems |
| `NamedPipe`, `NamedPipeProofs` | the named pipe transport under `serve` and `stop`, its clients in processes of their own; its theorems |
| `TargetMemory` | request checks, what a backend's read and write come to, byte strings |
| `MemorySession` | the session's calls over `TargetMemory`, one backend call per step |
| `Scans` | the scanners over `MemorySession`, one chunk or candidate per step |
| `Library`, `LibraryProofs` | a client of the two above while the target runs on; theorems |
| `CheatTable` | the XML reader and the table it makes, one tag or entry per step |
| `Trainer`, `TrainerProofs` | `main` of the trainer over `CheatTable`, beside its freeze worker, the game, the keyboard and a signal; theorems about both |
| `MCFreeze`, `MCRateLimiter`, `MCAgent`, `MCInProcServer`, `MCNamedPipe`, `MCLibrary`, `MCTrainer` | values of the constants for TLC |

### FreezeManager

State. Each field of `Entry` is a function over ids (`request`, `original`,
`cancel`, `active`, `restored`, `okCount`, `failCount`); `entries` is the set of
keys of `entries_`. `std::thread` is two variables: `worker`, where the thread
stands in `worker_loop`, and `joinable`, whether the handle in the entry owns
it, because `freeze.cpp:96` starts the thread before it stores the handle. Each
client thread has a program counter, its operation and its id. `mem` and `alive`
are the target process, which also writes its own memory (`TargetWrites`) and
may die (`TargetDies`).

Steps. What the code does under `entries_mutex_` is one action; what it does
outside is cut wherever another thread could tell the difference:

| Code | Actions |
|---|---|
| `freeze` 39-122 | `FreezeRefused`; `FreezeRegister`, `FreezeStart` or `FreezeStartFails`, `FreezePublish` |
| `unfreeze` 158-177 | `StopMissing`; `StopBegin`, `StopRequest`, `StopJoined`, `UnfreezeFinish` |
| `restore` 179-211 | the same, then `RestoreWrite`, `RestoreFinish` |
| `cancel_all` 273-289, `~FreezeManager` 27 | `CancelBegin`, `CancelMark` per id, `CancelVisit` per id (then `StopRequest`, `StopJoined`), `CancelFinish` |
| `worker_loop` 124-156 | `WorkerGuard`, `WorkerProbe`, `WorkerWrite` |

`StopRequest` stores the cancel token and enters `join` in one step; for
`cancel_all` the store repeats what `CancelMark` did. `join` on a handle that
another client has already joined throws `std::system_error`; two clients inside
the same `join` are undefined behaviour in C++, and the model lets both through
or throws. A destructor runs alone: no call is in progress and none begins after.

Left out: failed allocations other than the creation of the thread; an exception
that escapes `worker_loop`; `last_error` and log lines; the length of the
sleep, which only delays the next `WorkerGuard`. `okCount` and `failCount`
saturate at `MaxCount`.

### RateWindow and RateLimiter

`Rolled` is the `if` of `policy.cpp:52-56`, `HasSlot` the comparison at 57; a
start of 0 means a window never opened, so the clock starts at 1. `log` is a
history variable: every admission with its time and its window.

### Agent

Threads (`Handlers`) are inside `handle()` at once. `Take` is the critical
section of `on_apply` (485-495), which erases the approval before anything else
is decided; `Authorize` is `authorize_with_token` up to the limiter, checks in
the code's order; `LimitCheck`, `LimitLoad` and `LimitCount` are the parts of `allow`,
cut because nothing guards `windows_`: this is a data race. `++window.count` (63) reads
the count once more, or the build keeps the value it compared (`LimitLoad` chooses),
and stores it in a step of its own. So updates are lost, and two threads past the
comparison take the count beyond the limit: the type invariant bounds it no more than
the code does. The race to insert an alias's first window into `windows_`, which may
damage the map, is not modelled. `Write` covers every way `write_bytes` may end. A request
is a record of what the checks tell apart: is write asked for, are address, size
and hash in order, `preview`, `approved`. Whether a manifest exists and matches
the session's identity is the constant `Granted`: neither ever changes.

`minted`, `counted`, `mutations` and `late` are history variables. `late[c]`
says that `c`'s request came in while the switch was engaged and nobody has
released it since.

`on_freeze`, `on_unfreeze` and `on_restore` (agent.cpp:546-596) forward to
FreezeManager and do not consult Policy: what follows is `FreezeManager`'s, with
the server thread as its client, and nothing here constrains it; docs/AGENT.md:211
and 363 describe it otherwise (section 7). `stoul` on a `value_hex` that
is not hexadecimal throws out of `handle` (agent.cpp:512): not modelled.

### InProcServer

State. `toServer` and `toClient` are the two deques, `closed` is `closed_`.
`Peers` are threads at the client end, `Server` is the thread `serve` starts;
`pc` says where each stands. `kept` says whether anybody but that thread holds
the server's end: docs/AGENT.md:400-401 keeps it, tests/agent_tests.cpp:198
hands it over. Requests are numbered in the order `send` accepts them and a
reply has the number of its request; what `handle` does is in `Agent`.

Steps. Every section under the pair's mutex is one action.

| Code | Actions |
|---|---|
| `send` 13-32 | `Send` by a peer, `Reply` by the server thread; each ends in `NotifyOne` |
| `receive` 34-57 | `Receive` (a peer calls it), `Look` (the predicate of `wait_for`), `TimedOut`; both end in `Finish`, which is `Take` or `Deliver` when there is a message |
| `close` 59-67, destructor 11 | `Close`, and `LoopTest` when the thread's lambda held the last reference |
| `serve`, `stop` (agent.cpp:749-771) | `Serve`, `LoopTest`; `Stop`, `StopJoined` |

One condition variable serves both ends, so `NotifyOne` may wake a thread whose
queue is empty; it looks and sleeps again. A reply that comes after the peer's
50 ms is handed to the next `receive`. After `close` replies are dropped, but
requests that were accepted before are still taken. Left out: `serve` while a
server thread is there, which ends the program, and `send` on a closed pair,
which changes nothing.

### NamedPipe

State. `pipe` is the server's handle together with what Windows says of the
instance (none, listening, connected, or closing when the client's end has been
shut), `peer` the client at the other end, `frames` what was written and not yet
read. A request is two frames, header and payload, because both sides write and
read them with two calls and may stop in between. Each client has a handle of its
own: none, open, or dead once the server has closed the pipe. `kept` says whether
anybody but the server thread holds the transport, as docs/AGENT.md:381 does:
`~NamedPipeServer` runs with the last reference, which nobody is obliged to let go.

| Code | Actions |
|---|---|
| `serve` (agent.cpp:749-757) | `LoopTest` |
| server `receive` 68-120 | `Arm`, `CallConnect`, `ReadHeader`, `ReadPayload`, `ReadFails`; `Rearm` is its end: disconnect, close, hand over |
| server `send` 47-66 | `Reply`, which finds no pipe and refuses |
| `close` 122-129 from the destructor 45 | `Close`, once the thread has returned and nobody keeps the transport; `LetGo` |
| client `send` 166-189, `ensure_connected` 238-252 | `Send`, `Connect` or `GiveUp` after the 50 attempts, `Write` per frame |
| client `receive` 191-226, `close` 228-235 | `Receive`, `ReceiveFails`; `Leave`, which is also the client's exit |

`Connect` wakes a server inside `ConnectNamedPipe` in the same step. A `Foreign`
client writes frames with another magic. How an instance behaves is Windows': it
is modelled from the calls and error codes the code distinguishes. Left out: a
`WriteFile` that blocks because a buffer is full, a header whose length
belongs to no payload, and `close()` called on a server that is serving, which
nothing in the repository does.

### TargetMemory, MemorySession, Scans, Library

`mem` is the target's memory: an address holds a cell or is not mapped.
`Validated` is the pair of checks in `backend.hpp`, on addresses that wrap;
`Fetched` and `Put` are what `WindowsBackend::read` and `write` may come to: all
bytes or a failure, before which a write may have stored a beginning. `call` is
the call in progress or the last one: its arguments, how far it is, what it has
found, how it failed. A call to the backend is one step, and `TargetMoves` may
come between two: a cell is written, mapped or unmapped, or everything goes.
`past`, a history variable, holds the memories there were since the call began:
an answer put together from several reads is of no single moment, and the
properties say in terms of `past` what it is good for.

| Code | Actions |
|---|---|
| `read`, `read_bytes`, `read_string`, `write_string` | `ReadBytes`, `ReadString`, `WriteString` |
| `compare_write_verify` 160-187 | `VerifyWrite`, `VerifyRead` |
| `resolve_pointer_chain` 351-379 | `ResolveStep` per link |
| `read_offsets`, `write_offsets` | `BatchRead`, `BatchWrite` per offset |
| `first_scan`, `scan_aob` | `FirstScan`, `AobScan` (checks), then `FirstChunk`, `AobChunk` per chunk |
| `next_scan`, `refine_candidates` | `NextScan`, `RefineCandidates`, then `NextCandidate` per candidate; the second has no upper bound to pass, so `between` compares with the target twice |

`FirstChunk` cuts without overlap and `AobChunk` with one, as the code does.
`compare_write_verify` never comes to a second attempt: every branch of its
loop returns. `attempted_addresses` of a failed batch starts with the raw offsets
(line 203), then has the addresses; `Attempted` is that list. Values are integers
read in little-endian order; floating point types are the same with a tolerance.

### CheatTable

A document is a sequence of tokens: tags with their attributes, texts, blanks,
declarations, comments, and `bad` for markup the reader refuses. The reader takes
one per step with its stack of open elements, then the entries are made one per
step. A text is an atom; what `strtoll`, splitting, trimming, lower-casing and the
entities make of each is given by constants (`Numbers`, `Modules`, `Pieces`,
`Lower`, `Entities`), so the control over those results is checked and the
character loops are not. `Kind` is the order of tests that decides what an entry
is (577-649): an unknown type, then a script, an injection, an array of bytes, and
what is left may be written. `TableIsFaithful` has two halves: the tree has the tags
and texts of the document, and each entry of the tree is in one list
(`EntriesAreSorted`). `TextAssumption` says what a text token is: it has something in
it that is no blank, and no entity stands for a blank, so a kept text is never taken
for none. Left out: title and version,
wording of diagnostics, default value, a hotkey's action, `sanitize`, the byte
order mark.

### Trainer

State. `phase` is where `main` stands; `aim` the resolved addresses and
`player_base`; `game` and `simulated` the two memories and `session` the one in
use; `frozen` is `ammo_frozen`, `lock` what FreezeManager knows of
`ammo_freeze_primary` (its detail is in `FreezeManager`; one client, one id).

| Code | Actions |
|---|---|
| tables 464-491 | `ParseTable`, `TryNextTable`, `NoTable` |
| attach, resolve, fall back 537-676 | `Attach`, `Resolve`, `FallBack`, `Unresolved` |
| the triggers 686-746 | `Healed`, `Refilled`, `ToggleAmmo`, `Jumped`, within the steps that call them |
| `--test` 760-816 | `TestStart`, `TestHealth`, `TestAmmo`, `TestHeight`, `TestJump`, `TestLand`, `TestRestore` |
| lines 872-887 | `LineTest`, `ReadLine` |
| polling 890-954 | `LookAtHotkey` per binding, `StopPolling`, `PollKey`, `Tick` |
| beside it | `Interrupt` (the signal handler), `FreezeWrites` (the worker), `GamePlays`, `KeyMoves` |

`before` keeps what the test has read: the memory (a history of it), `orig_state` and
`z_before`. The game may move between the two looks at the height (787, 789), and the
test then fails. A trigger's reads and writes are one step, resolving is one step, floats are
integers. A line that is typed after the signal is still carried out once, since
the loop looks at `g_running` before it reads. Left out: `--list`, `--help`, what
is printed, the length of the sleeps.

## 3. The runs

| Run | Instance | Question |
|---|---|---|
| `freeze_serial` | 1 client, 2 ids, 1 address | can `status` be relied on (`RestoreIsFinal`, `InactiveIsQuiet`, `DeathIsReported`), is the contract kept (`KeepsContract`) |
| `freeze_shared` | 2 clients, 1 id, fairness | is every worker owned, does every call return, does a dead target end the worker, who may leave an id active without one (`StrandedByFailure`), whatever the interleaving |
| `freeze_race` (violation) | 2 clients, 1 id | `RestoreIsFinal` with two clients: a `restore` in the gap before `freeze.cpp:96` has stored the handle joins nothing |
| `rate_limiter` | 2 aliases, limit 2, window of 3 ticks, clock to 7 | what a fixed window guarantees |
| `agent` | 2 threads, 1 request id, 2 aliases, 2 approvals | approvals, the switch and the limiter under concurrent calls |
| `inproc_server` | 2 peers, 3 requests, fairness | is the exchange in order, is any request left behind by a wakeup that went astray, does `stop` return |
| `named_pipe` | 2 clients of the library, 1 foreign, 3 sends, fairness | are requests whole whoever leaves or pipelines, is a client that waits released, what does `stop` wait for |
| `named_pipe_replies` (violation) | 1 client, 1 request | docs/AGENT.md:4-16, a reply to every request over the production transport: `WaitingClientCanBeAnswered` |
| `library` | 12 cells of 3 values, values of 2 cells, chunks of 4, 2 target steps | what calls and scans promise against a target that moves |
| `trainer` | 5 good or odd tables, 7 broken ones, 3 platforms, 2 guns, 1 game step, 1 key press | from the table to the exit: what is written, what is claimed, what is put back |
| `trainer_test` (violation) | 1 table, 1 gun, the simulation | `gt_trainer_cli.cpp:815`, everything is as before the test: `TestIsNonDestructive` |
| `agent_slots` (violation) | 1 thread | docs/POLICY.md:135, every mutation consumes a slot |

Why the bounds are enough. Two ids share one address, so that one id's worker
can undo another's `restore`; a third adds no new pair. Two clients are what
every race in `freeze.cpp` needs, and one id is what they race for. Target and
freeze values are disjoint, so that a stray write shows. Counters saturate at 1,
because only zero and non-zero are told apart. The clock runs over two whole
windows and into a third, so windows close early, late and on the tick. With two
approvals under one request id the second replaces or follows the first; one
alias is writable, the other is not; a lifetime of 1 tick lets approvals expire
between any two steps. In `inproc_server` two peers are enough for a notification to go astray: one
sends while the other and the server thread are asleep; with three requests one
can be in hand while two wait.

In `named_pipe` one client can be mid-request or gone while another waits to get
in and the foreign one breaks the protocol; three sends allow a second request
into a pipe whose first is being read. In `library` ranges cross chunks, end at
the last address and are shorter than a value; a signature of two bytes overlaps
two chunks; images hold NULLs, gaps and pointers into themselves; two target steps
can hit before and after the same read; refinements start from what scans of the
same run found. In `trainer` every token and every classification of the parser
occurs in some table; the tables agree with the layout, put the ammunition elsewhere
(the weapon chain of 178-183, which a test then passes with), or
resolve nowhere, so that all ways into and out of the simulation are taken; one
press is enough for a held key to fire twice if the edge were lost, and one step
of the game (or its exit) falls between any two of `main`. Each violation has its
passing counterpart on the same module: `RestoreIsFinal` with one client,
`ApprovedWritesAreCounted`, `ReceiveReturns`, `TestPutsBack`. `trainer_test` has a game
of one gun, so that what it shows is the table's disagreement and not the other guns.

Deadlock is not checked in the freeze and rate runs: after the destructor, and
when the clock stops, nothing more has to happen. It is checked in the agent's runs and in
`inproc_server`, and not in the three others: a service that has ended with its clients gone, a client that has
seen its last answer while the target stands still, and a trainer that has
returned have nothing more to do.

Fairness (`FreezeManager!Fairness`): a client thread inside a call and a worker
thread take their next step if they can. This is the scheduler of
`std::thread`; nothing in `freeze.cpp` can block them but the join, which is
disabled until the thread returns, and critical sections that always end. Nobody
is obliged to call and the target is not obliged to die.

In `InProcServer` a thread that can run does, the clock of `wait_for` runs
(`TimedOut` is part of `Wake`), and `handle` answers. Without the clock
neither liveness property holds: nothing else wakes the server thread for
`stop`, and nothing repairs a notification that woke the wrong thread.

In `NamedPipe` the server thread and each client inside a call are weakly fair;
nobody has to send, leave, receive or call `stop`. So `ReceiveReturns` does not
lean on a client that goes away, nor on the end of the service: `Close` is fair only
once the transport has been let go, and `LetGo` never has to happen. It need not: the
server looks at its flag before it waits for a connection and not again until it has
dropped the pipe of the client it read from. `StopEndsOrWaits` says where `stop` may stay:
the server waits for a connection that nobody makes, or for the rest of a request
from a client that is connected. The client's 50 attempts are counted neither in
time nor in number: `GiveUp` is possible whenever no instance listens.

## 4. The proofs

All of them hold for every value of the constants, under the named assumptions
of the modules, which TLC evaluates in the runs: `FreezeAssumption`,
`RateAssumption`, `TimeAssumption`, `AgentAssumption`, `PipeAssumption` (no client
is the absent one), `TableAssumption` (documents are sequences), `TextAssumption` (a
text is no blank) and `TrainerAssumption` (a layout's places are apart, a game's cells
hold numbers), and for `Library` `MemoryAssumption`, `SessionAssumption`,
`CallsAssumption` (arguments have their C++ types), `ScanAssumption` and
`PatternAssumption`.

**FreezeProofs.** For any number of clients:

- `TypeCorrect` (`TypeOK`). It needs `TInv`: past its first step a call's id is
  registered, and so is every id a `cancel_all` still has to join. Without that a
  write would go to an address nobody has given.
- `WorkersAreOwned` (`WorkerIsOwned`) and `NoWorkerOutlives`
  (`NoWorkerOutlivesManager`). `OInv` adds to `TInv` that only registered ids have
  handles (`JoinableIsEntry`), that a destructor in progress is alone and every
  handle is still on its list or is the one it is joining (`DestroyIsAlone`), and
  that afterwards nothing is left (`DestroyedIsQuiet`). A worker without a handle
  belongs to a `freeze` call, and `DestroyIsAlone` excludes one.

- `JoinsAreAsked`, `WorkersWindDown` and `CallsDrawNear`, the safety halves of
  `CallsReturn` and `DeadTargetStopsWorkers`: a join waits only for a thread that has
  been told to end; once told, or once the target is dead, every step of that thread
  brings it nearer its end (`StepsIfCancelled`, `StepsIfDead`: one more write at
  most); every step of a call takes an entry off its list or brings it nearer its
  return (`StepsToReturn`). They need `StartsOnce`: an id's worker is started by one
  client, once. What is left to TLC is that enabled steps are taken.
- `StrandsByFailure` (`StrandedByFailure`, an action property): an id becomes active
  without a worker and without a call at work on it only as a call on it returns a
  failure. It needs `AInv`, on top of the join invariant: a worker that has ended
  with its id active was asked to (`EndsAreAsked`); while it is asked and runs, the
  call that asked is still in its join; a stop that comes before the handle is stored
  asks nobody (`StartsUndisturbed`); and `cancel_all` visits only ids it has marked
  inactive (`ListsAreMarked`).

The rest holds for any number of clients that keep an order, which the hypotheses
name. `FreezesReturnFirst`: while a `freeze` call for an id has not returned, no other
call is at work on that id. `InOrder`: that, and nobody else is inside a call while
`cancel_all` or the destructor is (`CancelsRunAlone`). A single client thread, like the
agent's server loop or the trainer, always keeps both (`OneClientIsInOrder`); of several
it is the caller's business, since `freeze.cpp` does not enforce it. Both are needed:
`freeze_race` is what comes of breaking the first, and with a second client inside
`unfreeze` the join of `cancel_all` throws, which forgets the rest of its list and leaves
its workers running behind `active = false` until they see their token.

- `RestoresAreFinal` (`RestoreIsFinal`), under `FreezesReturnFirst`, from `SInv`: a
  restored id's worker does not run, and past the join of an id's worker that worker
  has ended or was never started. The handle that a stop does not find
  (`freeze.cpp:192`) is then that of a worker that never was.
- `DeathsAreReported` (`DeathIsReported`), under the same, from `OnlyCancelled`: a
  worker that runs for an inactive id has been cancelled.
- `InactiveIsReliable` (`InactiveIsQuiet`), under `InOrder`, from `QInv`, which says
  when a worker may run although its id is inactive: only while a `cancel_all` or
  destructor in progress still has it on its list or is joining it.

**FreezeRefinement.** `ManagerKeepsContract` (`KeepsContract`) under
`FreezesReturnFirst`. An id is *held* while its worker runs or is about to be started.
Steps that touch none of this are stutters (`Silent`); `FreezeRegister` is `Hold`,
`WorkerWrite` is `Rewrite`, a worker's exit or a failed start is `LetGo`, and
`RestoreWrite` is `PutBack`, which needs `SInv` to know that the id has been let
go.

**RateProofs.** `BurstsAreBounded` (`BurstIsBounded`) and `CountsAreExact`
(`CountsItsAdmissions`), from one invariant over the log: times and windows only
grow, an admission lies in its window, a window has at most `MaxPerMinute`
admissions, consecutive windows start a minute apart, and the current window's
are the last `count` entries.

**AgentProofs**, for any number of threads: `TypeCorrect` (a thread inside `handle()`
has its request and, past the lookup, its approval); `SpentOnce`
(`ApprovalIsSpentOnce`), since serial numbers are distinct among what is
pending, in hand and written; `SwitchHolds` (`KillSwitchHolds`), since a late
request never gets past `authorize` while the switch is engaged; and
`WritesAreCounted` (`ApprovedWritesAreCounted`).

**InProcProofs**, for any number of peers and requests: `TypeCorrect` (`TypeOK`);
`ExchangesAreInOrder` (`ExchangeInOrder`), inductive with `HoldsWhileServing`
(the server thread has a request in hand exactly while it serves; otherwise
`Take` could overwrite an unanswered one); `NoServerNoTalk`
(`NobodyTalksToNoServer`) from `ClosedAtExit`, which already holds when the thread
has returned and `stop` has not joined it yet. `StopsDrawNear` is the safety half of
`StopReturns`: while `stop` waits the flag is set and there is a thread to join
(`StopIsSeen`), and no step takes that thread away from its end; each either leaves it
where it is (it looks at its queue and sleeps again) or brings it nearer
(`StepsToExit`).

**NamedPipeProofs**, for any number of clients, however many are foreign:
`TypeCorrect`; `RequestsAreWhole` (`TakenWhole`); `NoReplyLeaves`
(`NoAnswerLeaves`: what `named_pipe_replies` shows of one request holds of all);
`OneRequestAfterStop` (`LastRequest`); `AbortsAreFinal`
(`AbortIsFinal`). The inductive invariant is `PInv`. `TakenWhole` alone says nothing
of the frames still in the pipe, so `FramesAlternate` says that each payload there
follows its own header, the one in the server's hand included, and `WriterInStep`
that the client at the other end goes on where they leave off. `HandlesFit` gives
that client the only open handle, and `QuietUnlessConnected` says that dropping the
pipe leaves nothing behind. `LateIsLast` adds that past its late request the
server thread is on its way out.

The safety halves of `ReceiveReturns` and `StopEndsOrWaits` are `ReceivesDrawNear` and
`StopsDrawNear`. While a client of the library is inside `receive` the server neither
waits for a connection nor for bytes that nobody has written (`NoMutualWait`), and each
of its steps brings it nearer to dropping the pipe, which is what `receive` returns
from. This needs `WInv`: a client that is between two calls has been heard of (`Heard`),
either by a frame in the pipe or by a request that is complete. After `stop` was called
every step of the server thread, and every client that connects, brings it nearer its
return.

**LibraryProofs**, for every memory, address space, width, chunk, set of calls, and
a target that may do anything between two reads:

- `ChainsAreAnchored` (`ChainIsAnchored`) and `BatchesArePrefixes`
  (`BatchIsAPrefix`) from `LInv`: the memory of now belongs to `past` while a call
  runs (`Witnessed`: without it nothing a call reads could be found there later), the
  arguments are still those of `CallsAssumption`, and a call has found exactly as many
  links or addresses as it has passed (`InStep`, `Batched`).
- `TypeCorrect` (`TypeOK`), `ScansAreExact` (`ScanIsExact`) and `RefinementsAreExact`
  (`RefineIsExact`) add `SInv`, which says of each scan in progress what has been
  settled behind the point it has reached: `FirstState`, `AobState` and `NextState`
  are predicates of the arguments, that point, the answers so far and the set of
  memories in `past`. What has been found was in one of those memories, in ascending
  order and below the point; what was in all of them, below the point and in a chunk
  that could be read, has been found, unless the maximum was reached first. A step of
  the target only adds to `past`, and that keeps all three (fewer cells were there all
  the time, more were there at some time); a step of the scan extends the answers by
  what one memory holds in the next chunk. The two kinds of chunks differ in one place:
  `FirstChunk` loses a value across a boundary, so `FirstHeld` asks for it within a
  chunk; `AobChunk` must not, and its proof uses the overlap of all but one byte.
- `WritesStayInPlace` (`WritesAreExact`), an action property, from `LInv` and `SInv`:
  each step of a session call touches only its extent, with the memory after a write
  that failed half way included; a verified value is what the last read saw, and a
  string is written with a terminator or refused, which makes reading it back exact.

What a value's bytes amount to (`ValueOf`) and how a signature is cut up (`ParseAob`)
are folds: the proofs leave them closed and hold whatever they compute. Of the second
they only need that it is a sequence of integers, which `PatternAssumption` says of the
given signatures and TLC evaluates for its own.

**TrainerProofs**, for any documents, layouts, guns and games, any play of the game
and any hand on the keyboard, from one invariant, `TInv`:

- `TypeCorrect` (`TypeOK`): `TableTyped` (an element is open while the reader is in
  the body) and `AimIsKnown` (every steady phase has its addresses).
- `FreezeFollows` (`FreezeFollowsTheToggle`), inductive with the types.
- `HeldKeysFireOnce` (`HeldKeyFiresOnce`): `FiredBehind` keeps one press in
  reserve for a combination that is down and has not been looked at since.
- `TestsPutBack` (`TestsPutBack`): `Placed` says which memory and which addresses a
  phase may have; `Tested` that during a test the player's state of before is kept and,
  if the game did not play, nothing but the targets differs from then. The theorem makes
  no assumption on the table: a resolved address is put back if it is where `orig_state`
  was read (`ReadFrom`), since any later write to the same address then writes the same
  value (`InPlace`), and the gun in hand because it is written last and a layout keeps
  clips and reserves apart (`Apart`). `Misplaced` addresses and the other guns are what
  the theorem leaves out, and `trainer_test` shows why.
- `OnlyTargets` (`OnlyItsTarget`), an action property, from the same.
- `EntriesSorted` (`EntriesAreSorted`, the second half of `TableIsFaithful`): `Trees`
  gives every element a list of children, and `Sorting` says that the entries before
  the child that is looked at are each in one list, at the place their order in the
  document gives them. Without the first, `find_child` need not find a first child.
- `TablesFaithful` (`TableIsFaithful`): `Reading` says that what the open elements
  amount to, one behind the other, is what has been read so far, and that an element
  whose tag has just been read is still empty, which is why a text cannot take the
  place of another. `Tokens` is a recursive function over the levels of a tree, given
  as many levels as the document has tokens; the proof shows that this is always
  enough (an open element at depth i keeps children of at most as many levels as there
  are tokens left above i) and so that `Tokens` obeys the recursion it stands for
  (`TokensEquation`).

**RateProofs** also has `TypeCorrect`: on one thread no window counts past its limit.

Model-checked only:

- liveness (`CallsReturn`, `DeadTargetStopsWorkers`, `RequestsAreTaken`,
  `StopReturns`, `ReceiveReturns`, `StopEndsOrWaits`): that steps which are enabled are
  taken is a matter of fairness and `ENABLED`, outside the prover's reach. The theorems
  above say what those steps do; `RequestsAreTaken`, which leans on the clock alone, has
  no such half;
- the four counterexamples.

## 5. The plan

| Order | Module | Contents | Status |
|---|---|---|---|
| 1 | `FreezeContract`, `FreezeManager` | workers, joins, refinement | done, proved |
| 2 | `RateWindow`, `RateLimiter` | windows against the clock | done, proved |
| 3 | `Agent` | approvals, switch, racing limiter | done, proved |
| 4 | `InProcServer` | transport, server thread, `stop`; FIFO exchange, no lost wakeup | done, proved |
| 5 | `NamedPipe` | one connection per request, blocking accept, clients that come and go, `stop` | done, proved |
| 6 | `TargetMemory`, `MemorySession` | pointer chains, batches, strings, verify, over a target that moves | done, proved |
| 7 | `Scans`, `Library` | chunked scans and refinements against a reference definition | done, proved |
| 8 | `CheatTable` | the reader, fail-closed classification of entries | done, proved |
| 9 | `Trainer` | from the table to the exit, with the hotkey loop and the test | done, proved |

What would come next: the compositions `Agent` with `FreezeManager` on one target,
`Agent` over `NamedPipe` (today each reply is an opaque step of the transport) and
`Trainer` over `FreezeManager` (today its
one id is cut down to four states), and `serve` called twice.

## 6. Not modelled, and why

- Operating-system calls: opening a process, its identity, its modules, finding
  it, the Mach and Windows calls beneath `read` and `write`. They keep no state
  of the library's; what `read` and `write` may come to is in `TargetMemory`.
- `gtctl`, examples and demos: straight-line clients of what is modelled.
- The legacy library under `libs/`: Windows-only, documented as unsupported,
  replaced by `MemorySession` and by `FreezeManager`, which takes the place of its
  detached freeze threads.
- Logger, `Result` and value types: a sink behind a mutex and plain data.
- JSON text, XML characters, numbers as text, wording of errors and of what is
  printed: no property is about them.

Partly modelled, with what is left out named in section 2: Policy and kill switch,
AgentService, the cheat table parser, the trainer. PROJECT.json has the reasons.

## 7. What the code does that its documents or its callers may not expect

These came up while the modules were written. They are in the models as the code
has them; a run and a finding exist only where a sentence of the repository says
otherwise and TLC can show it (section 3).

- FreezeManager. A `restore` whose write fails (freeze.cpp:198-207), or a thread that
  cannot be made (96, 110-114), leaves the id active and counted by `active_count`
  without a worker, while docs/API.md:342-344 has the worker rewrite "until `unfreeze`
  or `cancel_all` is called"; the caller is told of a failure (`StrandedByFailure`).
  Entries are never erased: an id that was unfrozen can never be frozen again, and the
  error says that it is still active (68).
- Rate limiter. docs/POLICY.md:133-134 speaks of a sliding window; the window is fixed
  (policy.cpp:52-56), so up to twice the limit may fall within a minute, which is what
  `BurstIsBounded` states and bounds.
- Named pipe. The server drops the pipe before it handles a request, so its reply
  is always refused (`NoAnswerLeaves`) and the client's `receive` fails, although
  docs/AGENT.md calls this the production transport, has a reply to every request and
  draws them (`named_pipe_replies`). A client that leaves half
  way keeps every later one out (`AbortIsFinal`), although docs/AGENT.md:385-388
  speaks of second clients: it speaks of the case after a *successful* read. A client
  that calls `receive` before `send` waits for a server that waits for it.
- Agent. `freeze`, `unfreeze` and `restore` do not ask Policy, while
  docs/AGENT.md:211 has `restore` require a capability and a token and 363-364 calls
  `preview` and `apply` the only way to a mutation. A
  `value_hex` that is not hexadecimal throws `std::invalid_argument` out of `handle`
  (agent.cpp:512); on the server thread this ends the program.
- Session. `compare_write_verify` never makes a second attempt;
  `attempted_addresses` starts with raw offsets (memory_session.hpp:203, 384).
- Scans. `first_scan` misses values across a chunk boundary when the alignment
  lets them lie there, and passes over a chunk that cannot be read; `scan_aob`
  fails as a whole on such a chunk.
- Parser. A `Color` element overwrites the section taken from the address;
  `ShowAsSigned` (570-577) cannot change the type it follows; an address that is
  not a number counts as 0 and the entry stays supported.
- Trainer. The shipped tables quote their descriptions and write hexadecimal
  without `0x`: no entry is found by name, so the built-in addresses are used. A
  second activation of the freeze is refused (freeze.cpp:68) and refills once. The
  test writes what it read at the layout's offsets to the addresses the table resolved
  to: a table that puts one elsewhere (the weapon chain of 178-183) gets another value
  back (`trainer_test`), the armour 0 where no player is known. It leaves the other guns
  at 999, and the rifle with the clip of the gun in hand if that is another, while it
  reports the state restored (815); a check that fails (772, 781, 792), at the jump also
  because the game moved the player, returns with nothing put back.
  On Windows one keystroke can reach both the edge detection and the
  console (893-928) and toggle twice. `player_base` is read once (625).

# letify, modelled and proved

letify runs a declared Python function on a machine with an accelerator that somebody rents
by the minute: a call reserves a device, starts a session on a provider, moves the session to
the project's environment, sends the call over one byte stream and ends the session when
nothing keeps it. This directory holds TLA+ specifications of that machinery, the TLC
configurations that check them on small instances, and theorems the TLA+ proof system has
checked for instances of any size. `PROJECT.json` is the index: components, runs, the lines of
code behind every definition, one mutant per property, findings, hazards and theorems.

```
tlc -workers 2 -config PoolCards.cfg MCRuntimePool.tla      # one run
tlapm RuntimePoolProofs.tla                                 # one proof module
```

## 1. The system

### Components, their state and how they meet

| Component | Code | State it keeps | Operations |
|---|---|---|---|
| Runtime pool | `runtime/pool.py` | runtimes by key, busy flags, hold depth, start count | acquire, release, discard, hold, unhold, release_idle, shutdown |
| Device reservations | `providers/base.py`, `config/inventory.py` | reserved indices, taken count per accelerator | reserve, unreserve, free |
| Declared calls | `declare/function.py` | attempt number of a call | call, retry, `host='local'`, `session()` |
| Launcher | `launcher.py` | open invocations and `keep_alive` blocks, signal handlers | keep_alive, invocation, exit |
| Declarations | `declare/instance.py`, `env.py`, ... | values | the pool key and the device count of a call |
| Sessions and leases | `runtime/session.py`, `runtime/lease.py` | channel, lease thread, volumes, device client | boot, request, shutdown, renew |
| Channels | `runtime/channel.py` | slots of requests, the turn to read, the gate, timers, the process | request, stream, pipeline, switch_interpreter, close |
| Worker | `protocol/worker.py` | frame reader, job queue, lease deadline, blobs, data inbox, pending files | serve, light requests, reexec, data operations, outputs |
| Wire frames | `protocol/wire.py`, `codec.py` | partly received messages, stripe buffers | frame, reassemble, stripe over lanes |
| Project data stream | `store/pathdata.py`, `sendorder.py` | order and state of each file, wants, write-back queue | first wave, background sender, serve a want, write back, evict |
| Content store and volumes | `store/cas.py`, `volume.py`, `backends/` | blobs by digest, named pointers, a manifest beside the files | put, get, name, materialize |
| PyTorch forwarding | `remoting/device/` | queue of entries, step tracer, handles, pending results, upload cache, patched `torch.cuda` | enqueue, flush, read, synchronise, free |
| CUDA forwarding | `letify-core/letify-driver`, `letify-agent`, `letify-wire` | batches, virtual pointers, tables on both sides | alloc, free, copy, flush |
| Connection pipeline | `transport/` | racing strategies, links, punched connections | race, open, punch, close |
| QUIC carrier | `letify-core/letify-quic` | two directions of one connection | serve, connect, copy |
| Cloud providers | `providers/colab.py`, `kaggle.py`, `elice.py`, `modal.py` | sessions and machines of an account, a record on disk | create, keep alive, sweep, stop |
| Environment bootstrap | `runtime/bootstrap.py`, `runtime/session.py` | the interpreter's tree on the machine, archives on volumes | restore, check, sync, pack |
| Configuration and command line | `config/login.py`, `writer.py`, `secrets.py`, `__init__.py`, `cli.py` | the home file, the credentials, the project file | login, logout, load |
| Editor extension | `letify-ext/src` | the last answers, the history of each day | refresh, record a sample |
| Telemetry and usage | `runtime/telemetry.py`, `providers/usage.py` | measurements | parse, print |

How a call goes through them. `Function.__call__` opens an invocation (`Launcher.invocation`
raises the pool's hold depth) and asks `RuntimePool.acquire` for a runtime. The pool reuses an
idle one, or reserves devices with the provider and boots a session, or waits for one of its
own sessions to give devices back. The provider makes a machine in its account, and a pipeline
of strategies connects to it. `Runtime.boot` starts a channel, arms the lease (a thread
that renews the worker's deadline over the same channel), builds or restores the project's
environment and moves the worker to its interpreter. Every request of every thread of the
session then shares one `Connection`: each thread writes its own request, and whichever waits
takes turns reading frames for everybody. A body opens the project's files while they are
still on their way, and what it writes goes back beside it. A `DeviceClient` in place of a body
sends the operators of a local PyTorch program. When the body has run, the call hands the
runtime back; the last hold to close ends what is idle. Pool, connection and lease interact
through three things only: a runtime that fails is discarded (the pool learns of it from the
exception of a request), a renewal is one of the requests on the connection, and its timer
kills the process all requests depend on.

### What is hard in it

* Threads of the user's program overlap at every step of the pool, and the pool drops its lock
  around everything that blocks: reserving, booting, discarding, sweeping.
* A reader that is also a waiter passes its turn on; a wake-up missed there hangs a thread.
* Timers that have fired cannot be cancelled: a late answer races the kill.
* A move to another interpreter replaces the process behind a pipe that has readers, a queue
  and a deadline; on a Modal sandbox it replaces the connection as well.
* A client that dies leaves a machine that bills; a client that lives must not lose one to its
  own safety net.
* A file is open in the body before its bytes are there, in a cache two sessions share, while
  the order in which files are sent is being changed.
* A forwarded program runs ahead of the device: entries wait in three places before they are
  sent, and what has been dropped meanwhile decides what the device keeps.
* Two sides keep tables that must agree without being compared (upload cache, driver handles).
* A login writes three files one after the other, and may be a renewal that fails.

`PROJECT.json` lists each of these as a hazard at its line, with the properties that would
catch it; hazards without a property say why.

### What makes each component correct

* Pool and reservations: a device belongs to one session at a time and comes back exactly once,
  a session serves one call at a time, nothing idle survives its last hold, nothing is ended
  while held, every call ends.
* Channel and worker: each request is executed at most once and gets its own answer, no reply is
  lost, nobody waits for what cannot come, a new interpreter starts on a clean stream.
* Lease: a worker nobody keeps ends in bounded time; a living session is not ended by it.
* Wire: what is received is what was sent, in order, with bounded buffers, over any number of lanes.
* Data stream: a body reads only complete files, a file somebody waits for is on its way or
  refused, write-back delivers whole versions and none older than what is there.
* Content store: a name refers only to complete blobs, concurrent writers do not lose each
  other's, a file that is skipped is the file the manifest describes.
* Forwarding: a read returns what the local program would compute, the device keeps nothing the
  program has dropped, `torch.cuda` is as before when the last block closes.
* Connection pipeline: one winner above the floor, every loser closed, one connection per
  punch and one SSH session per connection.
* Providers: what is left of a session is found later or ends by itself, and nothing in use is ended.
* Environment: a session never runs with less than its declaration asks for.
* Configuration: a declared account can be used and a project loads, wherever a login ended.
* Editor extension: the history holds what was spent, once.

## 2. The modules

| Module | Models | Extends / instantiates |
|---|---|---|
| `CardLedger` | what reserving promises: all the cards at once, from nobody, and back at once | - |
| `RuntimePool` | pool, reservations, calls with retries, blocks, shutdown, other users of a shared machine | refines `CardLedger` |
| `RequestReply` | what a connection promises its callers | - |
| `Connection` | `Connection`, `_Gate`, `_Watchdog`, `PersistentChannel`, the worker's frame reader, job loop, `_reexec` and the bootstrap stub | refines `RequestReply` |
| `Pipelines` | a pipeline and a streamed request over one connection, and the worker's data thread | - |
| `Frames` | messages cut into frames by several threads | - |
| `Lanes` | one byte stream striped over several lanes that may break | - |
| `TlsStream` | one reader and several writers of a TLS connection | - |
| `DataChannel` | a sandbox's channel between standard streams and data connection, with the lease beside it | - |
| `SessionLease` | the lease from boot to shutdown, timed | stands on `Connection` for the renewal |
| `LinkRace` | the race of strategies: cache, probe, floors, rounds | - |
| `Punch` | a connection through two NATs, dialled from both sides or dialled back | - |
| `QuicCarrier` | `letify-quic` serve and connect | - |
| `CloudSessions` | sessions at Kaggle, Colab and Modal: record, sweep, keeper, helper process | - |
| `EliceMachine` | the one machine of an Elice account and the sessions that share it | - |
| `EnvBuild` | an environment restored, checked, synced, packed | - |
| `DataStream` | the files of calls: first wave, sender, wants, waits, listings, eviction, edits | - |
| `Spawned` | the same file opened by processes the body starts | - |
| `WriteBack` | an output file polled and fetched beside the body | - |
| `ContentStore` | a checkpoint put and named by several writers | - |
| `Materialize` | a volume's file skipped or fetched by its manifest entry | - |
| `ArgBlobs` | large arguments sent once and named afterwards | - |
| `StepCapture` | the tracer that finds and replays a repeating step | - |
| `DeviceExecutor` | what the executor does with one message | extends `StepCapture` |
| `Forward` | queue, flushes, reads, failures and releases of a forwarded program | extends `DeviceExecutor` |
| `UploadCache` | two caches of tensors that evict by themselves | - |
| `CudaMapping` | `mapped`, `unmapped`, suspension and fork | - |
| `CudaDriver` | the driver shim, its queue and the agent | - |
| `Accounts` | login and logout: home file, credentials, trusted keys, project file | - |
| `EditorPolls` | the editor's refreshes of the quota and its history | - |
| `MCRuntimePool`, `MCConnection`, `MCChannel`, `MCSession`, `MCData`, `MCForward` | instances for TLC | see below |
| `LibraryProofs` | lemmas about the operators the models are built from | - |
| `RuntimePoolProofs`, `ConnectionProofs`, `ChannelProofs`, `SessionProofs`, `DataProofs`, `DriverProofs`, `ForwardProofs` | theorems | extend the module they are about; `ChannelProofs` extends `MCChannel`, `SessionProofs` extends `MCSession`, `DataProofs` extends `MCData` and `LibraryProofs`, `ForwardProofs` extends `MCForward` and `LibraryProofs` and instantiates `DriverProofs` |

The last four MC modules put several components into one run. A behaviour chooses a `part` in
its initial state and runs that part's actions; the others keep the state they begin with.
Parts share no variable because they share no state in the code, so the run checks their sum
and not their product, and a liveness property carries its part as a condition.

| MC module | Parts |
|---|---|
| `MCChannel` | requests (`Connection`), data (`DataChannel`), lanes, tls, frames, pipeline |
| `MCSession` | lease, race, punch (dialled from both sides, or back), quic, cloud, elice, build |
| `MCData` | files (`DataStream`), spawned, output (`WriteBack`), store, held (`Materialize`), large (`ArgBlobs`), accounts (`Accounts`), polls (`EditorPolls`) |
| `MCForward` | program (`Forward`), upload, mapping, driver (two threads) and drivers (two processes, one after the other) |

### RuntimePool

One step is one critical section of `RuntimePool._guard` or `Provider._devices_guard`, or one
blocking operation outside both. `pc` says where each thread is: a call looks for an idle
runtime (`Reuse`, `LookFails`), counts its start (`CountStart`), reserves (`Reserve` and its two
failures), creates and boots (`CreateSession`, `BootOk`, `StartFails`, `GiveBack`), undoes the
count (`Uncount`), and then runs, raises, or decides whether waiting is worth it (`Decide`).
`Release`, `DropIdle`, `Discard`, `DropUnreserve` and `DropStop` are `release` and `discard` with
their two unlocked stretches; `Leave`, `Snapshot`, `Sweep` and `SweepDone` are `unhold` with
`release_idle`; `Shutdown`, `Purge` and `PurgeDone` are the exit handlers. A session is named by
the call and the attempt that start it. One accelerator of one provider is modelled: all books
are indexed by that pair, so two of them share only the hold depth. `Indices = {}` stands for a
provider that assigns the device itself, where only a counter is kept.

### Connection and what goes over it

Every request has a thread. `pc` follows it through the gate (`GateShared`, `GateExclusive`,
`GateClear`), `_open` (`OpenSlot`, `OpenFails`), the write (`SendRequest`, `SendFails`), the wait
(`Enter`, `PumpReply`, `PumpHello`, `PumpEnd`, `FailSlots`, `Check`, `Quit`) and its end (`Return`,
`SwitchReplied`, `SendSource`). `PumpEnd` and `FailSlots` are the two critical sections of `_fail`.
The timer is `Expire` and `Kill`, two steps because the flag is set before the process dies. The
worker reads (`ReadLight`, `ReadJob`, `ReadEnd`), serves (`ServeJob`, `ServeEnd`) and moves
(`ReexecRefused`, `ReexecReplies`, `Exec`, `StubStarts`, `StubFails`). Both pipes are queues of
frames; a message of several frames is represented by the last one, which is the one that
completes it. `Crash` and the three steps of `close` may come at any point.

The layers below are modules of their own, each against the layer under it taken as reliable:
`Frames` is the interleaving of frames of several threads, `Lanes` the striping with a reader
and a writer thread per lane, `TlsStream` the buffers a record passes through, and
`DataChannel` the sequence of hello, listen, dial, adopt and fallback on both sides.
`Pipelines` numbers streams as the code does and follows each reply to the slot it is put in.

### SessionLease

Every timer is an age that `Tick` advances, and time does not pass a moment at which something
is due, so a bound on an age is a bound on time. The unit of the runs is 15 seconds, so
`Interval`, `Grace`, `Timeout` and `Poll` are the code's own 30, 300, 60 and 15 seconds. The link
may be down for up to `MaxDrop`; it delays what is on it and loses nothing, and what one drop
delayed gets through before the next. A dead client is either killed (`dead`: its connections
end) or loses its machine (`gone`: nobody is told). The age of each clock is `None` while it does
not run, and the type invariant says when that is.

### A session's machine

`LinkRace` fixes a world at the start: for each strategy whether it connects, fails, hangs or
connects and ignores its cancellation (`stubborn`), and what the probe will measure. The race is
then about order only: `Opens`, `Records`, `FailsOrStops` and `Expires` are the attempts' own
steps and the rest is `connect`, with `_choose` in `Looks`, `Chooses`, `Close` and the decisions of
a round. `Punch` has the connections one punch makes as records (`conns`) with the hello each
side has sent or seen; `back` says whether the agent dials back, and strangers may dial. `QuicCarrier` is one carrier with the SSH server
behind it and three commands over it. `CloudSessions` keeps, for each start, the machine the
account shows, the process that owns it and how far it got, together with the account's record
file and its rewrites; a process may die, and a login may change, between any two of them.
`EliceMachine` has the shared machine, the count of holders and the two fields of the provider
that a start borrows. `EnvBuild` has one tree per session, or one for all where the machine keeps
its disk, in one of five states.

### The project's data

`DataStream` names a file by its digest and sends a blob in two pieces, the smallest number
for which another thread comes between. The sender of a call is `Prepare` and the steps `Take`,
`Pull`, `Put` and `Piece` of two threads (the first wave `now`, and the one a cancelled call left
behind, `old`). The wait in the patched `open`, `want`, refusals and `_evict` are `Wait`, `Asks`,
`Refuse` and `Evictable`; `Edit`, `WriteThrough` and `Private` are what bodies do to files. A blob
sent over several connections (`PutAt`) is filled in one partial file for the whole machine:
`BeginsAt` truncates it, `FillsAt` writes a piece, and the seal is two steps, `HashesAt` and then
`RenamesAt`, or the removal of what has another digest (`FailsAt`). Any session may begin or fill
between the two; a digest whose partial file is written there is in `torn` from then on. Opening a
piece's file and writing to it is one step, so what a writer with the file already open does to a
renamed blob is left out. A listing is two steps, as in the code. `WriteBack`
numbers the versions a body writes, with `-v` for v half written, and has the poller, the
collect at the end and the eviction in between. A poll is four steps, which files are open
(`PollOpens`), the look at the output (`PollLooks`), its digest (`PollHashes`) and the copy
(`PollCopies`), and the body may write between any two; a version begun after the look and before the
digest is in `reopened`. One read of the output is one step: of a file that is written while it is
read the digest names bytes the copy does not have, and the fetch fails, as one whose copy differs does.
`ArgBlobs` lets a call end early wherever it is (`GivesUp`): a late question, an upload that stops half way, a function
that does not load. The session goes on with what it took for held, and `astray` is what of
that its worker does not have in memory. `Spawned` has inodes, because a child process
tells a placed file from its own by the link count.

### Forwarding

`Forward` runs straight-line programs over four names against an `eager` table, which holds what
the same program computes locally; contents are expressions. The program is the main thread;
beside it are the linger timer (`Linger`), the sender thread (`SendTake`, `SendDone`), a thread
that awaits a read (`SideStarts`, `SideEnds`) and the executor (`WorkerRuns`, `WorkerDies`).
`Flush`, `DependencyCut`, `Trimmed`, `Kept` and `Filled` are the code's decisions about which
entries go and which handles a step may free; `Noted` is the order in which the readers of a batch
are written down, which is all that later says whose a reply is. An operator that is sent is queued
(`SentAlone`) and may complete a step (`Captured`). A read counts the entries it needs (`Cuts`) in one
step and flushes them (`Fetch`, `ReadValue`) in another, both under the request lock only, so the linger
thread may come between; when it has sent the queue, the flush raises (`CutRaises`). Twelve programs (`MCPrograms`) repeat a step, write
in place, use a view, fail, and read later and on another thread, one of them beside a captured step.

### The user's own machine

`Accounts` has one step per write: a flow ends in `Refused` or goes on to keep its credentials one
by one (`Stores`, or a tool that signs in, `SignsIn`), then the table of the account (`Declares`), its
devices (`Records`) and its name in the project (`NamesAccount`). `writer.update` reads the whole file
and writes it again, so `Reads` is a step of its own and a write starts from what was read. The
process may end before any step (`Dies`), a login may be repeated with `--replace` for another
machine or account, and a logout may stop half way. The contents of a file are what a load can tell
apart: which target an entry and its devices table are for. `EditorPolls` has refreshes that have read the quota
and not shown it yet (`answers`), beside an account that is spent and topped up and days that pass.

## 3. The runs

A run ends within two minutes with two workers. All of them say `CHECK_DEADLOCK FALSE`: the
system really stops, when every call has returned, the connection is closed, the worker and
its client are gone or the part has done its work.

| Run | States | What it shows |
|---|---|---|
| `pool_cards` | 199,548 | two cards, calls that want one and two of them, one retry, a `keep_alive` block, another user on one card: `CardsAccounted`, `KeptWhileHeld`, and the pool implements `CardLedger` (`LedgerSpec`) |
| `pool_slots` | 506,420 | a counted provider, three overlapping calls, one of them `Function.session`, a shutdown anywhere: `TakenAccounted`, `BusyServed`, `HoldsSettle` (the hold depth is the number of open holds, and nothing is left once all is quiet) |
| `pool_settles` | 32,250 | one device, two calls with one retry, a block: `CallsSettle`, `SessionsEnd` |
| `conn_safe` | 396,372 | a renewal with a timeout, a call without one and a move, with crash, kill and close anywhere: `OneReader`, `NobodyOversleeps`, `WaitersReachable`, `RepliesKept`, and the connection implements `RequestReply` (`AnswersAreOwn`) |
| `channel` | 180,505 | the same requests without close: `TimedEnd`, `DeathEndsAll`; the layers beside them: `BytesWhole`, `OpeningEnds`, `StreamDelivers` |
| `session` | 390,653 | the lease with the code's durations: `OrphanEnds`, `LostOnlyByDrop`; links: `LinksSettle`, `ConnectEnds`, `CarrierEnds`; machines: `MachinesFound`, `EndsUnused`, `AbandonedEnds`; the environment: `EnvWhole` |
| `data` | 800,250 | files: `FilesSound`, `ListingWhole`; outputs and stores: `OutputHonest`, `StoredSound`, `NothingGoesBack`; children: `CopiesOnWrite`; at home: `AccountsSound`; arguments and history: `TotalsHonest` |
| `forward` | 523,164 | `ValuesHonest`, `RepliesOwned`, `DigestsHeld`, `MappingUndone`, `DriverKept` |
| `link_race`, `quic_link`, `store_race`, `lease_moves` | - | violated, see Findings |

What the joined properties consist of, beside the type invariants:

| Property | Parts | In words |
|---|---|---|
| `RepliesKept` | `ReplyKept`, `NoSlotAfterFailure`, `CleanSwitch` | no reply is dropped before close, a failed connection has no open slot, a new interpreter reads its source first |
| `BytesWhole` | `ChannelsAgree`, `StreamWhole`, `RecordsInOrder`, `MessagesWhole`, `RepliesMatch` | both ends use the same transport, and stream, records, buffers and replies arrive whole, in order and where they belong |
| `LinksSettle` | `FloorHeld`, `OfferedClosed`, `PunchAgrees`, `PunchClosed`, `SessionsApart` | no link below the floor, what was offered and not taken is closed, both sides keep the same connection and close the rest, and two SSH sessions never share one |
| `MachinesFound` | `Findable`, `NothingLeftRunning` | a machine nobody holds is in the record or ends by itself; the shared one does not run when nobody uses it |
| `EndsUnused` | `SweepSafe`, `EndsUnused` of Elice | a machine in use is ended by nobody else |
| `FilesSound` | `ReadsWhole`, `CacheSound`, `PendingReachable` | a body reads the bytes it was given and the cache holds other bytes only while the call that wrote them runs, both but for the digests of torn seals (Observations); a file a body waits for is coming, refused or removed |
| `OutputHonest` | `OutputFresh`, `OutputComplete` | a call that succeeds leaves the last version on the client, and a half written one is delivered only where the body began it between the look of a poll and its digest (Observations) |
| `StoredSound` | `RefResolves`, `EntrySound` | a name resolves, and a manifest entry describes its file |
| `NothingGoesBack` | `NoOlderVersion`, `SavedStays` | an output on the client is never replaced by an older version nor a whole one by its own half, and what was saved stays |
| `ValuesHonest` | `ReadsHonest`, `NothingMissing`, `WorkerAgrees`, `NoLeak` | a read gives the eager value, no operator finds a handle missing, the executor's table is the program's and holds nothing the program dropped |
| `RepliesOwned` | itself | every reply on its way is for the readers noted for it, and a read is queued or owed one reply, and not both, until it is done |
| `DigestsHeld` | `DigestsHeld`, `TablesAgree` of UploadCache | a digest sent is held, and the two caches agree when all is applied |
| `MappingUndone` | `Undone`, `InStep` | `torch.cuda` is restored, and mapping, client and mode go together |
| `AccountsSound` | `AccountsUsable`, `LoadsUnlessOut`, `CommandsWhole` | a declared account has all its credentials or a machine that trusts the key; a load fails over no account but one that was logged out; a logout that ends leaves nothing and a login that fails keeps nothing |
| `TotalsHonest` | `FittingResolve`, `SpentHonest`, `SpendingCounted`, `RefreshGuarded` | arguments that fit on the disk are found, unless an earlier call that ended early left one of them counted as held and not loaded; the history has no more and no less than was spent; the user's refresh is refused only while another runs |
| `DriverKept` | `CopiesRight`, `AgentTracks` | a copy back is what was copied there, and the agent holds what the shim's table says |

**Bounds and why they are enough.** Two calls with different keys on two cards are the smallest
instance in which one call takes what another needs, waits, is woken and reuses nothing; the
third call of `pool_slots` is the one that gets a card given back twice. One retry is the
smallest number for which a failed session and its successor overlap; a third attempt meets no
state the second does not. Three requests are the smallest number for which a reader leaves
while one thread sleeps and another arrives, and the kinds chosen are one of each way the worker
serves (at once, by the job loop, by moving). Each request is made once, because a second
request of a thread meets the connection in a state another request can leave it in. The lease
has no bound on time: ages saturate at `Oldest`, past every bound the properties name.

| Run | Bounds |
|---|---|
| `channel` | 3 requests; 2 sockets, 1 move, 3 asks; 2 wires, writes of 3, 1, 4 and 2 units with a hold limit of 1; 2 TLS writers and 5 records over a socket of 2; 2 threads with messages of 2 and 0 buffers; a window of 2 with 3 pieces, 2 parts and 3 streams |
| `session` | lease durations in units of 15 s, a drop up to 90 s, a move up to 45 s; 0 to 3 strategies, 2 attempts; 2 SSH sessions, 3 punched connections; 3 commands; 2 processes, 2 starts; 3 users of the shared machine; 2 builds, 2 archives |
| `data` | 2 sessions, 2 files in 2 pieces; 3 versions of an output; 3 savers of 2 contents; 3 calls and 5 writes on one path; 4 arguments in a limit of 4 units; 2 children, 3 inodes; 2 aliases, one of them of any of 7 kinds, 2 targets, one command; 2 refreshes at once, a quota of 2, one midnight or top up |
| `forward` | 12 programs of up to 12 handles, steps of 1 to 4 operators, batches of 3; 3 tensors in budgets 0, 3 and 4; 2 clients and 3 nested blocks; 2 allocations of 1 or 2 units on a device of 3, 2 calls in the queue |

Two of a thing are enough wherever a hazard is between two of them; there are three where one must
come between two others (savers of a digest, users of a machine, strategies, inodes). Limits
that the code has in megabytes or seconds (stripe sizes, batch sizes, cache budgets, the interval
of a probe) are small numbers chosen so that both sides of each comparison occur.

**Assumptions of the runs.** Some constants keep a known weakness of the code out of a run, so that
the run can say that everything else holds. What happens without them is under Observations.

| Constant | Value | Keeps out |
|---|---|---|
| `Preempts` (`Forward`) | `{}` | another thread that sends a batch between taking an entry and appending it: the linger thread, or one that awaits a read (Observations) |
| `Together` (`MCData`) | `FALSE` | two savers of one digest in a directory store at once, and two calls at once on a held path |
| `Together` (`MCForward`) | `FALSE` | two threads in the mapping's entry and exit at once |
| `Serial` (`EliceMachine`) | `TRUE` | starts and stops of one account that overlap |
| `Overlaps` (`CloudSessions`) | `FALSE` | two processes that rewrite the record at once |
| `Shared` (`ArgBlobs`) | `FALSE` | two sessions that share one disk of arguments |
| `Apart` (`DataChannel`) | `TRUE` | a renewal that begins while the channel opens or moves, or picks its connection before that and writes after it (the last finding, and Observations) |
| `OneBoot` (`EnvBuild`) | `TRUE` | two sessions that build one environment on one kept disk |
| `OneWriter` (`Spawned`) | `TRUE` | two children that open one file for writing at once |
| `Procs` (`Accounts`) | one | two commands that rewrite the home file at once |
| `Ordered` (`EditorPolls`) | `TRUE` | answers of two refreshes that arrive in the other order |

**Fairness.** `RuntimePool!FairSpec`: threads are scheduled, a boot and a body end and the poll
interval runs out, which is what the operating system, the timeouts of `boot` and
`Condition.wait(timeout=...)` give. It is weak fairness of one thread's own work at a time;
nothing obliges the program to make a call, to open or close a block, or to exit.
`Connection!FairSpec`, which `MCChannel` states for its part: a thread that can go on does, a
timer that is due fires and kills, and `close` that has begun goes on. Nothing is asked of the
worker: it may never answer, which is why `TimedEnd` speaks of requests with a timeout only and
`DeathEndsAll` of a worker that is gone. A process that was killed does end its pipes, which is
what makes both true. `OpeningEnds` needs the thread that opens the channel (`MainSteps`), whose
every wait has a limit; `StreamDelivers` the threads of the lanes (`LanesRun`). In `MCSession`,
`ConnectEnds` needs the thread of `connect` and its clock (`RaceMain`, `Expires`) and nothing of the
attempts; `CarrierEnds` the carrier's own steps and its idle clock (`CarrierRuns`);
`AbandonedEnds` that a provider reclaims an idle machine (`Reclaims`) and that a keep-alive
process looks whether its owner lives (`KeeperEnds`).

**Mutants.** For each property of a passing run one definition has a mutated form beside it
("Mutated form of ..."), a plausible bug in the code it models, under which the property fails.
They are what the definitions named in `PROJECT.json` under "mutants" are for; no specification uses them.

## 4. Findings

Where the program and its own documentation disagree; each is a run whose property TLC violates.

1. `link_race` (`pipeline.py:519`): a strategy that connects while the links of a round are measured is
   recorded after the snapshot and before `decided` is set. It is neither used nor closed,
   although late strategies are meant to be closed (`tests/test_transport.py:393`).
2. `quic_link` (`letify-quic/src/main.rs:198`): the carrier serves one connection, and the command that
   verifies the link takes it, so that the link carries nothing afterwards; `transport/link.py:3`
   says a link is for the worker channel and for bulk transfer.
3. `store_race` (`backends/filesystem.py:36`): two writers of one digest use the same `.partial` file, so
   that a rename may publish a blob that is not whole; `filesystem.py:35` says a reader never sees one.
4. `lease_moves` (`channel.py:661`): on a sandbox a renewal that picked its connection before a move
   fails after it, and the lease thread ends while the session lives; `lease.py:65` takes that
   for a session that is gone.

## 5. Observations

Other behaviour found while modelling: the code may do it, and the properties leave it out or the
runs keep it out by an assumption. Most of it no document rules out; where a comment does, the row quotes it.
Each is reproduced by adding the property to the run named, or by changing the
constant; TLC then prints a behaviour.

| Behaviour | Reproduce |
|---|---|
| A call is refused over an idle session "kept by `let.keep_alive()`" when no block is open; the refused call's own invocation keeps it | `RefusedOverABlock` as PROPERTY of `pool_cards` |
| A discarded session gives its devices back before it is stopped, so the account briefly has more sessions than its inventory | `WithinInventory` as INVARIANT of `pool_cards` |
| SIGTERM while another thread boots a session leaves that session behind | `NothingSurvives` as INVARIANT of `pool_slots` |
| A `host='local'` body that calls a function on the same device waits forever | `pool_settles` with `Parent <- Nested` and `Local = {c1}` |
| A link down for a minute ends the session through the renewal's own timer, within the grace period of five | `DropTolerated` as INVARIANT of `session` |
| The move to the project's interpreter drops the deadline until the next renewal; a client whose machine loses power then leaves a worker nothing will end. That the time is short is proved (`DeadlineReturns`) | `EveryOrphanEnds` as INVARIANT of `session` |
| The seal of a blob sent over several connections hashes the partial file and renames it later without a lock (`worker.py:898`). Another session that sends the same digest truncates that file in between, and other bytes get the name of the digest, although `worker.py:868` says "Hash a file assembled by parallel senders, then commit it as ``data_put`` does." | `BlobsNamed` as INVARIANT of `data` |
| A poll finds an output closed and hashes it later (`worker.py:538`). A body that begins its next version in place in between has it delivered half written, although `pathdata.py:1026` says "so a half-written file is never sent" | `NeverHalf` as INVARIANT of `data` |
| Between the take of a captured entry and its place in the queue (`client.py:391`), a batch sent by the linger thread, or by a thread that awaits a read, releases handles the entry reads; `client.py:553` says that every entry dispatched before a release is in its batch or an earlier one | `Preempts = {"linger"}` or `{"side"}` in `forward`; `ValuesHonest` |
| The entries of a read are counted before the flush lock is taken (`client.py:775`). The linger thread sends them in between, and the read raises IndexError out of the flush, whose releases are then never sent, although `client.py:545` says that `count` entries are taken and handed to the sender thread | `CutsTaken` as INVARIANT of `forward` |
| Digests wanted by a call whose sender had stopped are read by the next call's sender, which ends on them without a word | `FailsOnRefusal` as INVARIANT of `data` |
| Two processes that rewrite the account's record lose a line; the line carries the time the gap between sessions is computed from | `Overlaps = TRUE` in `session`; `Cloud!GapKept` |
| `_starting` and `_pending_machine` belong to the provider and not to the start: overlapping starts end or forget the shared machine | `Serial = FALSE` in `session` |
| The driver accepts an allocation the device has no room for; its own table is the only one it asks | `AcceptedFits` as INVARIANT of `forward` |
| Virtual pointers are a gigabyte apart "so that pointer arithmetic inside one allocation stays inside its own range" (`table.rs:121`), and `allocate` takes any size: a copy into the second gigabyte of an allocation lands in the next one. Met in the proof, whose step for a copy needs the sizes bounded | `Sizes = {3}` and `DeviceSize = 8` in `forward`; `DriverKept` |
| Two threads that enter and leave the mapping at once restore what the other one patched | `Together = TRUE` in `forward` |
| The move of a sandbox holds the gate of the data connection and puts the channel back on the standard streams, which have a gate of their own (`modal.py:633`). A renewal that begins then writes a frame to the bootstrap stub, which takes it for the length of its source, although `channel.py:159` says that a move excludes requests | `Apart = FALSE` in `channel`; `BytesWhole` |
| A lane reader that waits in the hold check never sees its own lane break, so a stream whose lanes have all broken may not end | `Striped!EndsWithLanes` in `channel` |
| Two boots of one environment on a disk that stays: the second `uv sync` removes the first one's extra packages | `OneBoot = FALSE` in `session` |
| Two children that open one file for writing at once each replace it by a copy, and a write is lost | `OneWriter = FALSE` in `data` |
| A login with `--replace` that finds no GPU says that no devices table was written and that the machine is asked at first use (`login.py:336`). The table of the earlier login stays, and a table that is there is trusted without asking (`shell.py:393`) | `Logins!AsksAtFirstUse` as INVARIANT of `data` |
| The editor's refreshes overlap and their answers are taken as they arrive; an older one after a newer one makes the next fall count twice in the day's spending (`history.ts:46`) | `Ordered = FALSE` in `data` |
| Two commands that rewrite the home file at once undo one another: a project names an account that is gone | `Procs` of two in `data` |
| A Colab sign in that fails keeps the token the tool has written, though the message says that nothing was written (`login.py:746`); that is what `SignsIn` and `ColabFlow` do | `Logins!FailedWritesNothing` as INVARIANT of `data` |
| Two calls that materialize one held path at once leave an entry that vouches for other bytes | `Together = TRUE` in `data` |
| An argument counted as held by a call that ended before its worker loaded it stays counted (`session.py:496`), is on the disk only, and may be evicted; a later call that fits is then refused with "blob was never sent" | `FittingResolve` without `astray`, in `data` |
| A body that writes a held path between the write of its file and the entry for it, from another call of the session, has its own size and time recorded with the digest that was put | `BodyWrites` without its condition on `Busy`, in `data`; `StoredSound` |
| Where two sessions share a disk, each evicts argument blobs the other counts on | `Shared = TRUE` in `data`, with `FittingResolve` freed of its condition |
| After a read that timed out, its answer is taken for that of the next question (`client.rs:108`) | `CopiesRight` speaks of reads before that (`late`) |

Noted while reading, with no property: a TLS reader that finds the wire taken leaves its
record until the next write (`TlsStream`, `Flushes`); `Env.from_lock("train.lock")` still syncs
`uv.lock`; and `Pipeline._take` drops the replies behind the first one that failed.

## 6. What is proved

TLC checks an instance; these theorems hold for any number of calls, blocks, keys, devices,
retries, requests, sessions and children, and any durations. Each safety theorem follows the
same argument: an inductive invariant that implies the property, one step of the proof for each
action, and under it one for each conjunct the action can disturb.

**RuntimePoolProofs** (`Invariance`, `TypeCorrect`, `CardsCorrect`, `TakenCorrect`, `BusyCorrect`,
`Refinement`). Assumptions: `Threading` (names are distinct), `Declarations` (widths are positive,
a parent is a local call or a block), `Inventory` (what `Devices.read` guarantees: the count is
the number of indices). `CardsAccounted` is not inductive: that a card given back was nobody
else's needs to know which sessions a thread may still be ending. `IInv` adds
`Places` (what a thread's position says of its session), `Fresh` (a session about to start is
none that was ever registered), `Apart` (a session is registered, being dropped by one thread or
waiting for the shutdown, and only one of these), `Served` (a session in use is marked and has
one user) and `StartsCounted`. `Refinement` maps each step to a grant, a return or a stutter of
`CardLedger`.

**RuntimePoolProofs, the holds** (`HoldInvariance`, `HoldsCorrect`, `KeptCorrect`). Assumptions: the same three. That
nothing is left when all is quiet is not inductive: between the last `unhold` and its sweep another
call may take the idle session and release it again. `HoldInv`, on top of `IInv`, has `HoldsCounted`
(the depth is the number of open holds until a shutdown, and never more after it), `IdleWatched` (an
idle session is kept by a hold, or somebody is about to look at it: one before its snapshot, one
that sweeps it, or the call that has just released it), `LiveAnswered` (a session that exists is
registered, waits for the shutdown, or is being booted or ended by somebody) and `ChosenUntaken`.

**ConnectionProofs** (`Invariance`, `TypeCorrect`, `ReaderCorrect`, `WakeupCorrect`,
`FailureCorrect`, `WaitersCorrect`). Assumption: `RequestKinds`. `TurnInv` joins who reads, who
sleeps and which slots are open: that nobody oversleeps holds only because somebody reads for
every sleeper, and that only because the reading flag and the readers agree.
`SlotHeld` (a thread past `_open` has a slot) makes the waiters' property follow.

**ConnectionProofs, the answers** (`AnswerInvariance`, `AnswersCorrect`). Assumption: `RequestKinds`.
`AnswerInv` joins two parts. `Once`: a request that was written and not executed is in one place
only, one frame in the worker's input or one entry of its job queue, and none is before it was
written. `Own`: every reply frame, every filled slot, and a move that waits for its hello belong
to a request that was executed. `AnswersCorrect` then maps the begin of a request to `Make`, each
answer of the worker to `Execute`, the end of a request to `Answer` or `Fail`, and every other step
to a stutter: a move, a kill, `close` or a crash cannot execute a request twice or hand a thread
a value nobody computed for it.

**ConnectionProofs, the replies** (`KeepInvariance`, `RepliesCorrect`). Assumption: `RequestKinds`. That no reply is
dropped and that a new interpreter reads its source first depend on each other, for a request
written behind a move would be lost with the old process. `KeepInv`, on top of the two invariants
above (`Known`), has `Ended` (a connection fails only when its worker is dead and read out),
`OpenSlots` (a request on its way has an open slot and a thread that waits), `Gates` (a move holds
the gate alone), `MoveLast` (nothing is asked behind a move), `OneToken` (the source of a worker
and its hello are one token, and somebody waits for it) and `MoveHeld` (while the worker moves, the
request that made it still waits).

**ChannelProofs** (`LayersCorrect`, `BytesCorrect`) is about the run `MCChannel`. Assumption: `LayerConstants` (a
write has bytes, there is at least one lane and one socket, a streamed request has a reply, no writer has the
name of another holder of the lock). `BytesCorrect` adds `Apart`, without which it fails (Observations).

* *The lanes.* That the bytes read are those written is not inductive: `LanesInv` says where every segment is
  (`LanesOrdered`, `LanesApart`, `LanesBounded`), and that while no lane is broken the sizes of all that
  is on its way are what is missing (`LanesWhole`). That no more is held than the hold and a segment for
  each lane is about the past (a lane that found room may store its segment much later), so `LanesHold`
  keeps the past in the state: what is held is what was held when a lane last found room, and one segment of each lane
  since. Sizes are summed over finite sets, and the sums come from `MapThenSumSet`, a fold defined by
  recursion over sets; its one step is proved by a least counterexample, for want of induction.
  The proof also corrected the bound. It was a lane's share of the longest write for each lane, and a
  short write goes whole over one lane (`wire.py:497`): two lanes, `StripeMin` 10 and writes of 10, 9 and 10
  bytes hold more, which TLC confirms. `Longest` is the greater of the two.
* *TLS.* `TlsInv`: what was taken out of the buffer is only there while its thread has the lock.
* *The frames.* `FramesInv`: from where the reader of a stream is, the frames of its thread on the link lead step
  by step to where the thread is, and those of other threads between them lead nowhere (`Leading`).
* *The replies.* `PipeInv`: what the worker answered on a stream is what was counted, what has arrived and what is
  on its way, in this order (`Follows`), and a pipeline has at most the window unanswered (`Counted`).
* *The channel of a sandbox.* `ChannelInv` names the phases both sides are in together (`Starting`, `Asking`,
  `Joining`, `Serving`, `Moving`, `Leaving`) and what may be on the four queues between them in each; it is what
  `Apart` buys, for a renewal beside a move leads to none of them.

**SessionProofs, the lease** (`LeaseInvariance`, `LeaseTypeCorrect`, `OrphansEnd`, `DeadlineReturns`,
`SessionKept`). Assumptions: `Durations`, and `Margins`: a move takes less than a renewal waits,
and two renewals fit into the grace period. The first is not enforced by the code, and a move
longer than a minute does let a renewal's timer end the session. `LeaseInv` bounds every age by
another one: the time since a worker was orphaned by the age of its last renewal (`Watched`), a
renewal still on the link by the drop that holds it (`Written`), the wait at the gate by the
move (`AtGate`), the time without a deadline and the age of the deadline by the renewal under
way (`BareFor`, `RenewedFor`), the notice of a lost session by the interval (`Noticed`).

**SessionProofs, the places** (`MachinesCorrect`, `EndsCorrect`, `EnvironmentsWhole`, `LinksSettled`) is
about the run `MCSession`.

* *A machine of its own.* Assumption: `~Overlaps`, that one process at a time touches Kaggle's record and
  none dies in the middle of a rewrite; without it a line is lost (Observations). `Recorded` says where a
  notebook that exists can be found at every moment: in the record, told to the user, not yet
  recorded by a process that still has it, or in the copy of whoever has just cut the file. For
  that copy to hold every line, `OneWriter` and `CopyHolds` say that nobody appends beside a rewrite. `SweepFits` (what
  the sweep is about to delete has no process, what it is about to forget is gone) also gives that
  nobody's notebook is deleted under him (`EndsUnused`).
* *The shared machine.* Assumptions: `Serial`, that starts and stops of one account come one at a time, and
  finitely many threads. `holders` is the number of `Counted` threads, those on the machine and those
  about to release it; `FlagsFit` says for which start `_starting` and `_pending_machine` speak; and
  `SeenTo`, the strengthening of `NothingLeftRunning`, says that a running machine always has somebody
  who will end it: a session on it, or the one start or stop at work, at whatever step it fails.
* *The environment.* Assumption: `OneBoot`, that a machine that keeps its disk boots one session at a time;
  without it the property fails (Observations). `BuildInv` has `OneOnDisk` (that assumption as the state
  shows it), `NoneBuilt` (where the account names the interpreter nothing is built, so nothing is packed)
  and `TreeFits` (what a step may find of the tree it goes on with: past the extras it is the whole one).
  Every archive is then packed from a whole tree, which is what lets the next session restore it.
* *The race.* Assumptions: `RaceConstants` (strategies are numbered) and `FirstAttempt`. That a choice never takes an unmeasured link after one was below the floor, and closes what
  it was offered, needs to know what the rounds leave: `OutcomeLast` (an outcome is that of an
  attempt that is over and opens nothing any more) and `RoundsClose` (between two rounds every link that
  was looked at is closed or taken, and in a round only those offered are open). A link that comes in
  after the snapshot is in neither, which is the first finding.
* *The punch.* `PunchAgrees` is not inductive. `OneHello` says that the hello of an attempt goes out on one
  connection, the one its sender has returned, and that the other side returns no connection
  without it; agreement is what is left of that when both have returned. `AgentKeeps` and `Returned`
  tie the ends of a connection to what the sides returned. That two SSH sessions never share a
  connection rests on `OwnConnection` (a session has what an attempt returned, and none has the one still in
  `_sock`) and `OwnAttempt` (each further session dials with an attempt of its own).

**DataProofs** (`FilesCorrect`, `ListingCorrect`, `OutputCorrect`, `NothingLost`, `StoredCorrect`,
`AccountsCorrect`, `TotalsCorrect`, `WritesApart`) is about the run `MCData`: a step of a part keeps the
invariant of that part, and a step of any other leaves its variables alone.

* *The data stream.* Assumptions: `StreamAssumption`, and `Streams` (there are finitely many digests, so
  that every file is in the order the sender predicts, and no transfer is the value for none). That a
  file a body waits for is on its way is not inductive. `FilesInv` has `Accounted` (a file the machine
  lacks is in flight, refused, removed, or queued *and not marked as sent*, for a queued digest that
  is marked is passed over), during the first wave already, when nobody waits yet; `LinkSound` (a link
  leads to a blob with the bytes the path shows, and only a path bodies also write to is ever spoiled),
  without which a blob that a library wrote into would be placed for another call; `PhaseSound` (what a
  session keeps in each phase of its call) and `ListSound` (what a listing in progress has read holds
  every name that is still pending). `SealSound` says what a transfer that has hashed its partial file still
  finds there when it renames it: the bytes it hashed, or nothing, or the digest is in `torn`. That is as much as
  the code gives; the theorem says of a digest in `torn` only that whoever waits for its file gets one.
* *Outputs.* Assumption: `Versions` is a number. `InOrder` puts poll, answer, thread and client in a row,
  each behind the one it takes from, and `Collected` says which of them the call has joined. `HalvesKnown`
  follows a half written version from the body to the client: it is in `reopened` from the step that takes its
  digest, and before that the look would have found the output open or its stamp changed. The order is one
  of ranks, in which the half of a version is before the whole one and behind the one before, so the
  theorem covers a half written version too.
* *The content store.* Assumption: `StoreAlone`, that no two processes put one digest at once; without it
  `store_race` finds a half written blob. `SaverSound` says that a saver is then alone with
  the file beside its blob.
* *Volumes.* Assumption: `~Together`. `HeldInv` says that an entry is never ahead of its file, and that what
  is about to be recorded is what the file holds.
* *Accounts.* Assumption: `OneCommand`, one command at a time. `AccountsUsable` says something of the files
  between two commands too, so it needs to know in the middle of one which of its three writes have
  been made: `LoginSound`, `AgainSound` and `LogoutSound` say that, by the place the command is at.
* *Spawned processes.* Assumptions: `OneWriter`, and at least one inode. `SpawnInv` has `NothingYet` (until
  the file is placed there is nothing to open), `InTurn` (the children that write do not overlap),
  `CopySound` (a copy not yet in place is neither the blob nor anybody else's, and holds what the file
  holds) and `OwnFile` (a child writes to the file at the path, which is not the blob unless the copy
  failed).
* *Large arguments.* Assumption: `ArgsCounted`, finitely many arguments and a limit that is a number. That a
  fitting call finds its arguments compares what a whole call needs with what each eviction leaves,
  so `CallSound` says it of every moment of the call: the youngest files on the disk are arguments of
  this call, and every argument that neither the memory holds nor is still to be sent is among them
  (`Covered`). A file asked for becomes young again (`Touches`), which is what the mutant leaves out, and an
  eviction stops before it reaches an end of the files that fits with the new one (`KeepsEnds`). Between
  calls, what the session is known to have is in the worker's memory or was left behind by a call that ended early
  (`astray`); the theorem is about the calls that name nothing of the latter.
* *The editor's history.* Assumption: `HistoryKept`, above all `Ordered`, that answers are shown in the order
  in which they were read; without it what is spent is counted twice (Observations). The history and the
  account never meet in one step, so `Reckoned` gives the last sample, the answer shown and each answer on its
  way an age, the spending at the time it was read: of two of them the older has no larger age, and
  its value no more above the younger's than was spent between (`Before`, which top ups keep, for they
  only raise the later value), and without a top up the value and the age make up the full quota
  (`Exact`). What the days hold is then at most the age of the last sample, and exactly the distance
  from the first one while no day was dropped. `Records` says what `RecordSample` does to the days.

**DriverProofs** (`DriverCorrect`) is about `CudaDriver` with any number of threads and of processes
after each other. Assumption: `DriverConstants`, that no allocation is larger than the distance between two
virtual pointers; the code does not see to it (Observations). That a copy back is right is not
inductive: while the question is on its way it says nothing. `DriverInv` follows a handle and a
cell along the one row of requests from the program to the agent (`Pending`, what the writer holds behind
what is on the wire):

* An allocation is in one place at a time, in the hand of the thread that made it, among the requests, on
  the device or refused there (`AskedOnce`, `HandsHold`, `LiveSomewhere`, `DeviceKnown`), and its free
  is behind it (`FreedAfter`). With nothing in hand and nothing pending that is `AgentTracks`.
* The last value copied to a pointer is the last write of it that is pending, behind the allocation it is
  into, or there is none pending and the cell holds it (`Memory`). That another write leaves the cell
  alone is where two pointers must name two cells, hence the assumption (`PointersOf`).
* One thread waits at a time, and its question is behind every pending write of its pointer, or its answer
  is there and is what it wants (`Reading`). A read that timed out ends this: from then on an answer may
  be that of an earlier question.
* A new process finds an agent that still has requests of the old one, and none that are its own until it
  is attached (`Attachment`).

**ForwardProofs** (`MappingCorrect`, `DriversCorrect`, `DigestsCorrect`, `ReadersCorrect`) is about the run `MCForward`.

* *The mapping.* Assumption: `~Together`, that one thread at a time has blocks open; with two the property
  fails (Observations). That closing the last block restores what was there needs to know what each block
  found: `MappingInv` says that there is a history of what was in force when each open block was
  opened, and that what a block would put back is that entry of it, so closing undoes opening, in
  whatever order mapping and suspension are nested.
* *The driver.* Assumption: `SizesFit`, that of `DriverCorrect`. The two drivers of the run, two threads of one
  process and two processes of one thread, are instances of what `DriverProofs` is about, and its
  lemmas are cited for each.

* *The upload cache.* Assumption: the budgets and the number of messages on their way are numbers. Client and
  executor evict by themselves and never compare, so nothing of the present state says that a digest
  on its way will be found: `UploadInv` says that there is a table the executor will have after each
  message, that the message leads from one to the next without a digest it lacks (`LeadsOn`), and that the
  client's table is the end of the last of them once that is cut to the client's budget (`InStep`).
  It is not the same table, for of two budgets set between two messages the executor hears only the last.
  That both sides do the same to a table and to an end of it, place by place and with evictions
  between, is `PlacedResolved`, and for a whole message `MessageResolved`.

* *The replies.* No assumption on the constants, not even the one on `Preempts` the run needs elsewhere. Between the count of
  a read and its flush the entries counted are all in the queue or none is (`CutKnown`): nobody but the linger thread sends
  then, and it sends everything. A reply
  carries no number: `_flush` notes who reads while it posts a message, `_send_loop` writes messages later and on
  another thread, the request of the program may be written past the sender (`Direct`), and `_receive` gives the
  oldest reply to the oldest readers. `RepliesInv` puts the four places of a message in one order (`Pipe`: on
  the wire, in the program's hand, being written, waiting to be), and says that the readers noted behind the
  replies that have arrived are, message by message, those that asked in it (`Ordered`), and that a
  read is outstanding in one place only: in hand, queued once, or noted for one reply (`Outstanding`).
  The second part is why the first survives a flush: the reads of a batch were in the queue and are nowhere else.
  `FlushGood` proves this for every batch, request and place to cut, and says what is noted of a read that was in hand;
  `RunsGood` and `ReceivedGood` move a message to the replies and a reply to its readers.
  `WholeJoins`, `FlattenAppend` and `FlattenHead` say what sequences put behind each other are, and what is left of a
  sequence of sequences that is made one when the first is taken or another is added. What the
  entries are worth is not said, so a wrong value would not be seen here; that is `ValuesHonest`.

**LibraryProofs** has no theorem about the system. It says what the operators of the community modules
the models use do: a sum over a finite set grows by one member (`TotalWith`), and over a sequence
without repetitions it is the sum of its members (`SumSeqIs`); what a fold over a sequence passes through
(`WalkExists`, `WalkPasses`); what is left when a member is moved to the end, and that moving keeps one sequence the end
of another (`MovedAgain`, `MovedEnds`, `MovedAllEnds`). A fold of these modules is defined by recursion
over sets, and a fact about every operator cannot be instantiated by the provers here, nor can
induction; so a fold is described by a function of its steps, equality of two such functions is proved by a
least counterexample and existence by the smallest set without one, and each model then says what its
own fold does.

**Only model-checked.** `ValuesHonest` of `forward`. It says something of a program: its values are compared
with what a fold over the whole program computes eagerly, its table with
what can still be reached (`NoLeak`), and an invariant would have to say what every queued, traced and replayed
entry computes when it is applied. Liveness under fairness
(`CallsSettle`, `SessionsEnd`, `TimedEnd`, `DeathEndsAll`, `OpeningEnds`, `StreamDelivers`, `ConnectEnds`,
`CarrierEnds`, `AbandonedEnds`) is out of this prover's reach, like anything about ENABLED. No module here
uses RECURSIVE operators.

## 7. Not modelled, and why

* In the pool: the signal handler entering a critical section of its own thread (a section is one
  step); the time `reserve` holds the device guard; the texts of refusals; replicas and the
  coroutine front, which only start calls.
* In the channel: one-shot channels (no state), reuse of descriptor numbers after close, base64
  lines, pickling, the content of frames.
* In the session: usage records, printing, the machine's own idle timeouts other than `Reclaims`.
* In the worker: telemetry, and the device inbox, whose order is that of `Forward`'s messages.
* In the data stream: batching by size and the order file, which any order stands for.
* In the stores: garbage collection and listings, which are single reads and deletes;
  `google_auth.py`.
* In forwarding: the tables of operators with their shapes and dtypes, autograd, modules,
  kernels and streams of the driver, which follow the same three calls.
* In the driver: an allocation whose request cannot be sent, before `cuInit` or on a dead connection. It
  returns no pointer and leaves its entry in the table (`exports.rs:131`); a CUDA program calls `cuInit` first, and on a dead
  connection nothing of the process is answered any more.
* In the mapping: a nested `unmapped` on a thread with no mode to set aside. It raises before its body and its
  `finally` puts everything back (`cuda.py:806`), so it is no step.
* In the volumes: a body that writes a held path while a materialize of it is under way (Observations).
* In transport: port mapping, STUN, the agent's start: single calls whose failure is a strategy
  that fails.
* In providers: request formatting, the Kaggle adapter and the Colab files, price tables.
* Bootstrap's `install.py` and `tools.py`: downloads verified by a digest.
* In the configuration: prompts, the text of a table, commands that only print; a write that ends
  half way, after which the home file is no TOML and nothing recovers it.
* In the editor extension: rendering, and the readings of devices, which are shown and not kept.
* Telemetry and usage: parsing and printing of measurements in one thread.

## 8. Plan

What is left, in order of what it would add.

1. **Theorems of the forwarding**: `NoLeak`, and `ValuesHonest` without captured steps, for any number of
   programs and tensors, on top of `RepliesInv`, which says that a value reaches the read it was computed for.
2. **Refinements**: `Forward` as an implementation of the eager program, `DataStream` as one of a
   file system whose reads block; both are invariants so far (`ValuesHonest`, `FilesSound`).
3. **Compositions**: `SessionLease` over `DataChannel`, where the fourth finding lies, with the time of
   the lease; `RuntimePool` over `EliceMachine`, where a session's end is not its machine's.
4. **Liveness of a want** in `DataStream`, which the code makes depend on a sender that a cancelled
   call stops.

# TLA+ verification of the DDNet core of t-predict-x7

t-predict-x7 (BestClient) is a DDNet client and server: about 350 000 lines, most
of them C++, with some Rust and Go services. This directory models the parts of
it whose correctness depends on the order of steps taken by several actors
(threads, peers of a connection, players, timers, databases), checks them with
TLC on small instances, and proves theorems with TLAPS about those that allow
it. Every definition is translated from the source; `map` in `PROJECT.json`
names the lines.

Contents: [inventory](#1-inventory), [modules](#2-modules-and-the-code),
[runs](#3-runs-and-bounds), [fairness](#4-fairness), [proofs](#5-proofs),
[what the code does differently from what it says](#6-disagreements),
[limits](#7-what-is-not-modelled).

## 1. Inventory

| part | state | operations | who shares it |
|---|---|---|---|
| **job pool** `engine/shared/jobs.cpp` | queue under `m_Lock`, `m_Semaphore`, `m_RunningJobs` under `m_LockRunning`, `m_Shutdown`, the atomic state of each job | `Init`, `Add`, `Abort`, `Shutdown`, `RunLoop` | main thread, N workers, owners that abort |
| **database pool** `engine/server/databases/connection_pool.cpp` | ring of 512 queries, two semaphores, `m_Shutdown`, indices of three threads | `Execute`, `ExecuteWrite`, `Register…`, `OnShutdown`, the loops of `CBackup` and `CWorker` | main thread, backup thread, worker thread, the databases |
| **network connection** `network_conn.cpp`, `network.cpp` | sequence, ack, peer ack, resend buffer, packet under construction, state, timeout flags | `Connect`, `Feed`, `QueueChunk`, `Flush`, `Resend`, `Update`, `Disconnect`, `UnpackNextChunk` | two programs over UDP |
| **server slots** `network_server.cpp` | a connection per slot, the table of tokens | `Recv`, `Update`, `Drop`, `SetTimedOut`, … | all clients, the game through callbacks |
| **login** `server.cpp`, `client.cpp`, `gamecontext.cpp` | the state of the client in its slot, its player, the map, the chunk to send next; the client's state, map and download | the messages of the login, `SendMap`, the reload of the map, downloads, rejoin | client, server, web |
| **snapshots** `snapshot.cpp`, `server.cpp`, `client.cpp` | the snapshots both sides store, the tick acknowledged, the parts received, the two on the screen | `DoSnapshot`, `NETMSG_SNAP…`, `PurgeUntil`, `SendInput`, `Update` | server and client over UDP |
| **snapshot ids** `snap_id_pool.cpp` | free list and queue of resting ids in one array | `NewId`, `FreeId`, `TimeoutIds` | the entities of the game, one thread |
| **file writer** `base/aio.cpp` | ring of bytes that grows, `finish`, semaphore, reference count | `aio_lock`, `aio_write`, `aio_close`, `aio_wait`, `aio_free`, the thread | loggers, program, writer thread |
| **HTTP** `engine/shared/http.cpp` | pending, new and running requests, `m_State` of each, temporary files | `Run`, `Abort`, `Wait`, `OnValidation`, `Shutdown`, `RunLoop` | callers, curl thread |
| **teams** `game/server/teams.cpp`, `save.cpp`, `score.cpp`, `gamemodes/ddnet.cpp` | team and race of each tee, start and finish flags, state, lock and practice of each team, the save under way | start, finish, death, spawn, join, leave, lock, practice, swap, save, load | players, the clock, the answers of the database |

The other parts are listed in `PROJECT.json` under `components`, each with the
reason it is not modelled.

**Interaction.** The server's main thread calls `CNetServer::Recv` and `Update`
once per loop; these call back into `CServer` (new client, rejoin, removed
client), which tells the game. Chunk handlers call back into the network
(`Drop`, `SetTimedOut`) while a packet is being unpacked. `CServer` leads each
client from its connection through the map into the game, and then sends it
snapshots built on what its inputs acknowledge. Ranks and saved teams leave the
main thread through the database pool and come back by polling `m_Completed`.
Jobs leave it through the job pool and come back by polling the job's state, and
wait there for HTTP requests. Logs leave it through the file writer.

**What is hard.**

- jobs: aborts that race with the pop and with the end of a job; a shutdown
  that passes a worker between two of its critical sections; semaphore tokens
  against the queue;
- database: one row that moves between three tables through steps that fail one
  at a time; two threads that follow each other around a ring; the end mark;
- connection: loss, duplication, reordering; sequence numbers that wrap;
  acknowledgements of an older lap; resends asked for twice;
- sessions: control packets that come late or twice; a slot whose connection
  is lost and whose player comes back through another slot;
- login: a map that is replaced while messages of every stage of the login are
  under way both ways, downloads from the web and from the server, a client
  that connects again into its own slot;
- snapshots: bases that are purged on one side while the other still builds on
  them, packets of two snapshots mixed, a delta that carries no checksum;
- snapshot ids: two lists in one array of links;
- file writer: a ring that wraps and grows while the thread writes what it took
  from it without the lock; close, wait, free and end in any order;
- HTTP: a queue that is read without its lock; curl that fails in the middle of a
  batch; files moved before the state says so;
- teams: a rank depends on flags that every death, respawn, swap and departure
  must clear or keep, in teams that are locked, practice or are being saved.

**What makes them correct.**

- *job pool*: a job starts at most once, ends, is never lost; `Shutdown` returns
  and leaves nothing behind.
- *database pool*: queries are answered once each, in order; a rank that reached
  some table stays in some table; a reported success is permanent;
  `OnShutdown` returns with everything answered.
- *connection*: each end hands on the peer's vital chunks once each and in
  order; it believes acknowledged only what was; what was not is still there to
  be resent.
- *sessions*: an address is served by one slot; network and game agree which
  slots are in use; the limit per IP holds; handshakes end; no slot keeps what
  it has to resend for ever, or is kept for a player who is gone.
- *login*: the game has a player exactly while the server says so; a client that
  plays has the server's map; downloads end and the client comes to play.
- *snapshots*: what the client rebuilds is what the server built; the screen
  shows it in order and points to nothing that was freed.
- *snapshot ids*: an id has one owner; the lists never mix.
- *file writer*: no byte is lost or doubled; `aio_wait` means written or in error;
  the last of two users frees the struct; nobody waits for ever.
- *HTTP*: a request is in one place and is answered once; whoever sees the end
  sees the file; no temporary file is left; `Wait` returns.
- *teams*: who is ranked raced from the start to the finish with everybody; a run
  is not raced on once it is saved; saves and unfinishable teams come to an end.

## 2. Modules and the code

**`JobPool`** (`MCJobPool`, `PoolProofs`). One step is one critical section or
one operation on an atomic. `pc[w]` is the place of a worker in `RunLoop`, `cur`
its `pJob`; `main` is the place of the main thread in `Add` or `Shutdown` with
the semaphore signals it still owes. `Shutdown` holds `m_Lock` over its whole
walk of the queue, so the walk is several steps with `LockFree` false. `Run` is a
step that ends. `Abort` of an owner may come at any time: `IJob::m_State` is an
atomic.

**`DbPool`**, refining **`DbService`** (`MCDbPool`). The queries, registrations of
databases included, go through the ring in the order of the calls. `CBackup` and
`CWorker` are two threads with their own `JobNum`. The data is the place of each
row written by `CScoreWorker::SaveScore`: `race` in the WRITE database,
`race_backup` and `race` in the backup database; each database call can fail,
before or after it had an effect. `DbService` says what the callers rely on:
answers in the order of the calls, and an `OnShutdown` that returns when all are
answered.

**`NetConnection`** holds `CNetConnection` as a value: each method is an operator
from a connection to a connection, with the packets it sends in the field `out`.
It is used twice:

- **`NetChannel`**, refining **`NetStream`** (`MCNetChannel`, `NetChannelProofs`): two connections that
  are online, a network, and the two programs that read chunks. `inbox` is what
  is left of the packet in `m_PacketChunkUnpacker`; `Recv` feeds a packet and
  unpacks up to the first chunk, `Unpack` is the next call. `NetStream` is the
  promise: two streams, each delivered in order and without gaps.
- **`NetSession`** (`MCNetSession`, `SessionProofs`): the slots of `CNetServer`, clients that come
  and go, and the callbacks to the server and the game (`game`).
  `ServerRecv` is one packet in `CNetServer::Recv`, `SlotUpdate`,
  `SlotTimeout` and `SlotError` are one slot in `CNetServer::Update`, `Timeout` is
  the chat command that sets a timeout code and, if a slot with that code is in
  error, takes it back (`SetTimedOut`, `ResumeConnection`).

**`Login`** (`MCLogin`, `SessionProofs`). `srv` is the client's slot in `CServer` with its player in
`CGameContext`, `cl` is `CClient`; `up` and `down` are the two queues of vital
messages, which `NetChannel` justifies. `Serve` is one message in
`CServer::ProcessClientPacket`, `Follow` one in `CClient::ProcessServerPacket`,
with everything the handlers call: `SendMap`, `SendMapData` and its window of
chunks, `OnClientEnter`, `LoadMap` on the client. `LoadMap` is the branch of
`CServer::Run` that loads another map and sends every client back to its
start, `Rejoin` the client that connects again from its address, `Http` the end
of the download from the web.

**`SnapSync`**, refining **`SnapView`** (`MCSnapSync`, `SnapSyncProofs`). One client in the game. A
snapshot is a value and a delta leads from one to another: on any other base it
gives `Garbled`, except that an empty delta leaves any base as it is and carries
no checksum. `Tick` builds and sends (`DoSnapshot`) or skips, by the client's
rate; `RecvInput` takes the acknowledgement; `RecvSnap` is
`NETMSG_SNAP`/`SNAPSINGLE`/`SNAPEMPTY` in the client, with its early returns as
alternatives (`Waits`, `MissesBase`, `FailsCrc`, `Stores`); `Update` moves the
screen along the stored list. Packets of snapshots and inputs are sets from which
one may be delivered again, in any order, or lost. `SnapView` is the promise:
what is shown was published, and is newer than what was shown before.

**`SnapIdPool`** (`PoolProofs`), refining **`SnapIds`**: `CSnapIdPool` with its array of
links. The loops of `NewId` and `TimeoutIds` that end the rest of ids are
`RemoveTimeouts`, part of these steps; `Pass` is one round. `AsInt` is the conversion of
the 64-bit time to the `int` it is stored in.

**`AsyncIo`** (`MCAsyncIo`, `AsyncIoProofs`). A byte is its place in the order in
which bytes were accepted, so that a lost, doubled or misplaced one shows. A
critical section is one step; the one a logger holds from `aio_lock` to
`aio_unlock` is several, with `owner`. The thread takes up to `LocalSize` bytes,
writes them without the lock, and looks at `finish` with it. `program` is where the
owner is in `aio_close`, `aio_wait` and `aio_free`.

**`Http`** (`MCHttp`, `HttpProofs`). `pc` is the place of `RunLoop`; `pending`, `fresh` and
`running` are its three collections, and the fourth place of a request is its
answer. curl and the file system choose how a call ends. `Completes` is
`OnCompletionInternal` up to `OnCompletion`, `Publish` the store of `m_State`
that follows it, so that a caller may look in between.

**`Teams`** (`TeamsProofs`). `g` holds the tees and teams; an operator named for a function of
`CGameTeams` leads from one such value to the next, and an action is one event
of the game with all it calls: the start tile, the finish tile, a death, a
respawn, a chat command, a tick, a step of the database. `tee` tells a tee that
is alive from a character that is dead but not yet deleted (`corpse`), no
character (`dead`) and no player in the game (`out`). `result` is
`m_apSaveTeamResult`, `saves` the table. `path` (how far the tee has come in this
life), `run` (which run a team races), `ranked`, `spoiled`, `done` and `deserted` are
history. `spoiled` marks a team that was killed because a tee was loaded invalid, from
then until it is empty: its flags are not to be trusted (section 6). `ranked` tells of the
rank of this step whether the team was spoiled or being saved. These two are all that
the properties of `Teams` except, and each says so above itself.
Time is abstract: a run takes time, and the minute of an unfinishable team ends
at any tick.

Definitions marked "variant" are wrong on purpose: each is what one definition
of the code would be with a plausible bug, and is used only to see that the
properties notice. An `Inv` is the type invariant with the parts that belong to
the state of one module, each stated and named on its own above it.

## 3. Runs and bounds

| run | instance | what it shows |
|---|---|---|
| `job_pool` | 2 workers, 2 plain jobs, 1 abortable | jobs that cannot be aborted complete, none starts twice, added jobs end, `Shutdown` returns |
| `db_pool` | ring of 3, two registrations, 1 read, 2 writes | order, no rank lost, refinement of `DbService`, every query answered, `OnShutdown` returns |
| `net_channel` | 7 chunks one way, sequence of 6, window of 2, 2 chunks per packet, 2 packets under way | true acknowledgements, nothing lost from the resend buffer, around the wrap; the streams of `NetStream` |
| `net_session` | 2 clients of one IP, 3 slots, room for 2 per IP | slots, game and limits stay consistent |
| `net_session_live` | 1 client that connects twice, 2 slots, with chunks sent | handshakes end, slots are freed and finish what they resend |
| `net_rejoin` (violation) | 1 client, duplicated packets | a late ACCEPT restarts the server's half of a session |
| `snap_ids` | 3 ids, rest of 5, `int` that overflows at 2 | the two lists, the counters, refinement of `SnapIds` |
| `snap_sync` | 2 worlds, 4 ticks, deltas in 1 or 2 packets, 3 packets and 2 inputs under way | what is stored is what was built; no checksum error; refinement of `SnapView` |
| `login` | 2 maps of 4 chunks, one on the client's disk, window of 2, 3 reloads, 1 rejoin | player and state agree, the maps agree, downloads end, the client comes to play |
| `async_io` | 2 loggers, buffer of 4 that grows to 8, pieces of 2, 6 bytes | no byte lost or doubled, waits and the end |
| `http` | 2 downloads, one validated, one with a hash | one answer each, files whole, nothing left, `Wait` returns |
| `teams` | 2 players, 1 team, 1 run at a time | fair ranks, no run twice, saves and unfinishable teams settle |

Bounds, each a constant:

- `MaxPending` (DbPool) keeps fewer queries under way than the ring has slots. The
  code has no such check; with 512 slots and a worker that keeps up it holds, and
  with a larger bound a query is lost in the model. Five queries go into the second lap of the ring of 3.
- `MaxSeq` (NetConnection) is 1024 in the code and 6 here: the half-lap window
  is then 3, and seven chunks go once around the sequence. `Window` bounds the
  chunks not acknowledged; it must be below half a lap. The code has no such
  limit and relies on its programs: a server does not send 512 vital chunks
  before one acknowledgement comes back. `Lifetime` bounds how many chunks the
  ends move on while a packet is under way: a packet that is most of a lap late
  is taken for a current one, in the code as in the model. `ChannelAssumption` is
  what the proof needs of the two: `2 * (Window + 1) <= MaxSeq`, so that the next
  chunk is never taken for an old one, and `Window + Lifetime + PacketCap + 1 <=
  MaxSeq`, so that nothing in a late packet is a whole lap old. With
  `2 * (Window + Lifetime) <= MaxSeq` alone, TLC finds a chunk that is new and
  skipped as old: a window of 3 in a lap of 6.
- `BufferCap`, `PacketCap`: `m_Buffer` holds 32 KiB, a packet 1400 bytes; here
  two chunks each. In `net_channel` the buffer is as large as the window; with
  less, a chunk that does not fit is sent once and may be lost for good (the code
  says so).
- `NetCap`: packets under way. A newer packet pushes older ones out of a full
  network, so the bound loses packets and never blocks a sender.
- `MaxConnects`, `MaxStreams`, `MaxSends` (NetSession): connects of a client, sessions
  and rejoins, chunks. A client that leaves, comes back, times out and is resumed
  needs two connects and three sessions.
- `MaxTime`, `HalfInt` (SnapIdPool): the ends of the rests wrap around the `int`
  more than once.
- `MaxTick`, `MaxFlight`, `MaxInputs` (SnapSync): four ticks with `KeepTicks` = 2 let
  the server drop a base the client still acknowledges; an acknowledgement that
  is overtaken, a base the client has purged and a snapshot in parts that a
  newer one interrupts need three packets. `OldAcks` is an input of the map
  before that is still under way.
- `MaxReloads`, `MaxRejoins` (Login): three reloads let a map come back that was
  replaced while it was being fetched. Four chunks with a window of two are more
  than the window sent at once.
- `MaxBytes`, `MaxWrite`, `Sizes` (AsyncIo): six bytes fill the buffer of 4, make it
  grow while it is wrapped and the thread holds a piece, and wrap it once more.
- `MaxRuns` (Teams): runs that are raced or saved at the same time. A name is used
  again when its run is over, so runs follow one another without end. The run has
  198,664 states and takes every step of the code, the departure to the spectators
  during a save and the load of an invalid tee among them. With two players the
  branch that disbands a team which is larger than `sv_max_team_size` is never
  taken; the theorems cover it, and any number of teams and runs.

`CHECK_DEADLOCK FALSE` is set where the bounds let a system stop that would go on,
or where it may come to its end.

## 4. Fairness

- **JobPool**: weak fairness of each worker thread and of a main thread that is
  inside `Add` or `Shutdown`; neither blocks except on a semaphore, a lock or a
  join. It assumes that `Run` returns.
- **DbPool**: weak fairness of the two threads and of the polling `OnShutdown`; a
  database call returns.
- **NetSession**: both loops call `Update` and `Recv` again and again, so timers run
  out: the resend and the idle timer, `ConnTimeout` where the other end is gone
  or nothing it says is taken any more, `ConnTimeoutProtection` always, and a
  client in error disconnects. The network is weakly fair in losing packets, so
  that none stays for ever, and strongly fair in delivering CONNECT and its
  answer, the next chunk in sequence and an acknowledgement that is news: of a
  packet sent infinitely often one arrives. Without strong fairness nothing can be
  promised over UDP. No fairness for players, kicks or the ACCEPT packet, which
  is sent once.
- **Login**: vital messages arrive in order (`NetChannel`), the web answers or fails
  (`Http`), snapshots arrive. Nobody has to load a map or connect again.
- **AsyncIo**: the thread runs; a logger that has the lock gives it back; the
  program leaves `aio_close` and the join. The program need not close.
- **Http**: the thread runs and the clock of the shutdown delay goes on. curl need
  not end a transfer, so only an abort, a shutdown or an error of curl promises
  an end.
- **Teams**: the server ticks, and the database answers with or without success.
  No fairness for players.

`NetChannel`, `SnapSync` and `SnapIdPool` are checked for safety and refinement
only. That a client's snapshots recover after losses is not stated: ticks are
bounded, and a promise would need packets without end.

## 5. Proofs

`PoolProofs` proves of the job pool, for any finite set of workers and any set of jobs, from
the assumptions `WorkersAssumption` (finite, not empty) and `JobsAssumption`:

| theorem | says |
|---|---|
| `Invariance` | `Spec => []IInv` |
| `TypeCorrect` | every state is well typed |
| `NonAbortableCompletes` | jobs.h's guarantee for jobs that cannot be aborted |
| `NothingIsLeftBehind` | after `Shutdown` nothing is queued, running or undecided |
| `HoldersAreUnique` | a job is in one place |
| `WakeupsAreKept` | tokens cover the queue |
| `JobsStartOnce`, `FinalStatesStay` | the two action properties |

None of the safety properties is inductive. What `Shutdown` promises depends on
why a worker may leave: it found the queue empty after a wake-up. That is safe
only because, until the walk of the queue is over, tokens and jobs match
*exactly* (`TokensOK`: `Len(queue) = sem + |Fetching| + owed`); a woken worker then
always finds its job, and no worker sees an empty queue before `m_Shutdown` is set
(`LeavingOK`). From then on nothing is added, so an empty queue stays empty.
`NotLost` says that an added job is over, queued or held; with all workers
gone and an empty queue it must be over. `HoldsOK` and `StatesOK` tie the atomic
state of a job to its place. `IInv` is the conjunction; the proof has one lemma
per action and in it one step per conjunct the action can disturb. The parts the
run does not list are proved, and were checked with TLC before.

`PoolProofs` also proves of the snapshot ids, for any number of ids, any width of the
`int`, any rest and any clock, from `PoolAssumption`:

| theorem | says |
|---|---|
| `PoolIsRight` | `Inv`: types, two proper lists in one array, the resting ids in order, counters that match |
| `PoolImplements` | the pool implements `SnapIds` |

`Inv` speaks of walks along the links. The invariant `PoolIInv` has both lists as
sequences instead: `Lists` says that a sequence of distinct ids of one state starts at an
end of the pool, follows its links and stops at -1; that the ids of the other list
follow other links is why a step on one list leaves the other alone. A step then
pushes to, or takes from, a sequence (`Before`, `Rest`, `After`), and a walk of the
invariant is shown to be the sequence. When the `int` wraps around, ids rest shorter or
longer than the five seconds; neither theorem depends on it.

`AsyncIoProofs` proves for every size of the buffers and of a write, any number of
loggers and bytes, from `AsyncIoAssumption`:

| theorem | says |
|---|---|
| `Invariance`, `TypeCorrect` | `Spec => []IInv`, every state is well typed |
| `NothingLost` | every accepted byte is in the file, with the thread or in the ring, once and in order |
| `WaitedWritten` | after `aio_wait` everything accepted before the close is in the file, or `aio_error` tells |
| `FreedByLast` | the struct is deleted by the last of its two users |

`Ring` and `Stream` are the two halves of `NothingIsLost`; `Ends` ties the lock, the
references and `finish` to where the loggers, the program and the thread are. The
positions are taken modulo the size of the buffer, so the ring is proved in three
lemmas about positions, `RingStored` (what fits is stored), `RingGrown` (the
buffer is replaced and both pieces are moved) and `RingTaken` (the thread takes a
piece that may go around the end).

`DbPoolProofs` proves for any set of queries, any failures and every size of the
ring above `MaxPending`, from `KindAssumption` and `SizeAssumption`:

| theorem | says |
|---|---|
| `PoolInvariant` | `Spec => []IInv` |
| `PoolSafe` | `Inv`: types, order, what `OnShutdown` leaves behind, successes are permanent |
| `NoRowIsLost` | `StoredStays`: no step deletes the last copy of a row |
| `PoolImplementsService` | the pool implements the queue of `DbService` |

The worker and the backup thread count for themselves and take an empty slot for the
end, so `Ordered` and `ShutdownDrains` hold only if a thread never looks at an empty
slot too early. `Ring` says the ring is full exactly between what the worker took and
what was submitted; `Tokens` gives the counters of both semaphores from the positions
of the threads; `LookFinds` and `TakeFinds` conclude from the two that an empty slot is
the end. Places of the ring are remainders, and two of them differ when they are
less than a lap apart (`SlotsDiffer`): this is where `MaxPending < Size` is
needed, which the code does not check. For the ranks, `Copies` says that both threads
see the same databases at the same query and that a write still to be done has its copy
in race_backup or failed to get one, although each thread sets up its connections
on its own; so when the worker moves the copy after a failed write there is
one. `IInv` was checked with TLC on the instance of `db_pool` before it was proved.

`HttpProofs` proves for any set of requests, files, validations and hashes, from
`HttpAssumption`:

| theorem | says |
|---|---|
| `RequestInvariant` | `Spec => []IInv` |
| `RequestsAreAnswered` | `Inv`: types, one place and at most one answer per request, nobody is left waiting at the end of the thread, no temporary file is left |
| `EndsAreSettled` | who sees the end of a request sees its answer and its file settled |
| `DestinationsAreWhole` | nothing but a whole download, validated where that was asked for, is put in place |

`Apart` says the two queues and curl share no request and hold none twice; with
`Places` a request that was given to `Run` is held by the client or has its one
answer. `Loop` is what makes the end of the thread final: from the step at which
`RunLoop` leaves, `Run` refuses, so the queue that `FinishPending` empties stays
empty. An answer consists of two writes, the result of `OnCompletion` and then
`m_State`: `Settled` says that between them only the request in hand
(`completing`) has one and not the other, and `Stored` says where the files are
meanwhile.

`NetChannelProofs` proves for any even lap of the sequence numbers, any buffer, packets
and network, from `NetAssumption` and `ChannelAssumption`:

| theorem | says |
|---|---|
| `ChannelInvariant` | `Spec => []IInv` |
| `AcksTell` | `Inv`: types, an acknowledgement that is believed is true, what is skipped as old was delivered |
| `NothingIsForgotten` | `Resendable`: what the peer has not got is in `m_Buffer`, if `Window <= BufferCap` |
| `ChannelIsAStream` | the two connections implement the streams of `NetStream` |

A sequence number tells the place of a chunk in its stream but for whole laps, so each
comparison in the code is right only if what it compares is near enough. The
arithmetic of that is in five lemmas on numbers: `SameNumber` (equal numbers less than
a lap apart are one place), `Lap` (numbers tell the distance of places less than a lap
apart), `Ahead` and `Behind` (`IsSeqInBackroom` is right within half a lap), `NextNumber`. The
invariant supplies the distances. `Bounded`: the sender is at most a window ahead of what
the peer got. `Keeps`: for some number `P` of chunks that the peer did get, the last ack is
the number of `P`, and the buffer has chunks after `P` in their order, all of them unless
it overflowed; the packet under construction holds chunks of the window and newer ones
(`Packs`). `Underway`: a packet tells what its sender had got, and `Holds` the newest chunks of
what it had sent. `Unpacking`: what is left of a packet is less than a lap from what was
delivered (`Near`). The step that matters is `ValidIsNewer`: an ack that passes the check of
`Feed` is not older than the last one, however late the packet is. The two lemmas of
`Feed` and of `UnpackNextChunk` (`FeedKeeps`, `UnpackKeeps`) then give the step, and a step
of the histories (`Moves`) is a step of `NetStream`. `Resend` is a loop over the buffer:
what it keeps is shown by induction over its recursive function (below).

`SessionProofs` proves of the slots, for any clients, addresses, slots, buffers and networks, from
`NetAssumption` and `SessionAssumption`:

| theorem | says |
|---|---|
| `SessionInvariant` | `Spec => []IInv` |
| `OneSlotServes` | `Inv`: types, no address is served by two slots |
| `GameAgreesWithNet` | `GameFollowsNet`: the game has a client in exactly the slots in use |
| `PerIpHolds` | `PerIp`: the limit of clients per internet address |

`IType` types every packet and connection, `Apart` is the one address per slot. The proofs
rest on what the methods of a connection leave alone: `Follows` says that a
connection comes into use, or out of an error, only by `TryAccept` and `Timeout`. So
the set that `PerIp` counts shrinks in all other steps, `TryAccept` adds one under
the limit that it has just checked, and `Timeout` trades one slot for another.

`SnapSyncProofs` proves for any worlds, any way to cut a delta into packets and any times
for which snapshots are kept, from `SyncAssumption`:

| theorem | says |
|---|---|
| `SyncInvariant` | `Spec => []IInv` |
| `StoragesHold` | `Inv`: both storages rise, what is acknowledged and what is shown is held |
| `HeldIsBuilt` | `SameSnapshot`: what the client holds is what the server built for the tick |
| `ChecksumsAgree` | `NoCrcError`: lost, doubled and reordered packets cause no error of the checksum |
| `SyncImplementsView` | the exchange implements `SnapView` |

`Deltas` says of each packet under way that it leads from what was built for its base to
what was built for its tick; a base that the client holds is then the base the server
meant, although it may have been purged on the server long ago. `Receives` says that
the parts collected are of one tick, and what is held is older, or is this tick and
acknowledged: so a snapshot that becomes complete is newer than all that is held, and
the storage rises. `Starting` covers the first two snapshots. `PurgeUntil` is called with
ticks up to the older snapshot on the screen, so what is shown is never freed.

`SessionProofs` also proves of the login, for any maps, sizes of a map, windows, reloads and rejoins, from
`LoginAssumption`:

| theorem | says |
|---|---|
| `LoginInvariant` | `LoginSpec => []LoginIInv` |
| `PlayerIsThere` | `LoginInv`: types, the game has a player exactly while the server calls the client ready or more |
| `MapsAgree` | `MapAgrees`: when no change of the map is under way, the client has loaded the server's map, or fetches it |

`MapAgrees` speaks of a queue without a change of the map; `LastChange` is what makes it
inductive: once the server told the client of a map, the last such message under way names
the map it runs now.

`TeamsProofs` proves for any numbers of clients, teams and runs and any size of a team, from
`TeamsAssumption` alone (the four numbers are positive):

| theorem | says |
|---|---|
| `TeamsInvariant` | `TeamsSpec => []TeamsIInv` |
| `TeamsAreRight` | `TeamsInv`: types, an empty team is bare, the flags of a tee agree with its team |
| `RanksAreFair` | `FairRank`: who is ranked raced the whole way, in a run nobody left early, but for the two ranks it names |
| `RunsAreRacedOnce` | `RunOnce`: a saved run is neither ranked nor raced on, but for the rank given during the save |

No step is assumed away: what the code does with stale flags (section 6) is excepted in
the properties by the history of the team and of the rank, and the invariant shows that
nothing else is touched by it. In a spoiled team `FlagsOk` and `RaceOk` ask only what still
holds, and an invariant over the saves tells which of them are of a spoiled team. The heart of the invariant is `Fine`: in `Peopled` teams the flags of each tee
(`FlagsOk`) and its way through the race (`RaceOk`) agree with the state of its team, a team
that waits for the database is as it was when it asked (`Waiting`), and the tees of a team
that races are in the race together (`Even`). An operation is not an action: a death may
kill a whole team one by one, each death may end the team, and the end ranks those who are
left, so for a while some tees are not in order. `Fine(h, D, K)` excepts the tees in `D`, and
the lemmas follow the calls: `ForceKeeps`, `FinishLoop` and `CheckKeeps` up to a rank,
`DeathCases` for the ways a tee dies, `KillEachKeeps` for those that die with it, and one for
each operation (`SpawnKeeps`, `JoinKeeps`, `SwapKeeps`, ...). `Legal(a, b)` adds that each
rank on the way is one of tees that finished together (`RanksFair`).

Where runs are is the other half. `Held` is the run that a team has in its hands, or the
database for it: a save takes it at `SaveTeam`, a failure gives it back, a success puts it
into the table. `OneEach` says that each run is held once, saved once or over. `RunOnce` is not
inductive without it: of two saves of one run, or of a save and an answer that the game has
not taken yet, one would be raced while the other is still in the table. `Forlorn` and `ForlornSaves` carry `deserted` through a save and a
load: a run that somebody left before the start has nobody past the start, so it is
never ranked. `TeamsIInv` was checked with TLC on the instance of `teams` before it was proved.

**Loops.** Four methods loop over a sequence of any length: `Resend`, `UnpackAll`,
`RemoveTimeouts`, and the minimum that `AckChunks` and `UnpackNextChunk` look for; and four of
`Teams` over all clients (`EachClient`). They are written as
recursive functions, and what they keep is proved by induction over a *set* of numbers:
`LeastExists` (from `WFMin` of the library), `RunExists` (the recursive function exists),
and `Induction`. The library's own induction theorems take an operator as a parameter,
which the provers here do not instantiate. Each `IInv` was checked with TLC on the
instance of its run, or a larger one, before it was proved.

Only model-checked: liveness, since the prover does not reach ENABLED and fairness
(`net_session_live` and the last properties of most runs). Every invariant, action property
and refinement that a passing run checks is also a theorem.

## 6. Disagreements

With a run that TLC refutes:

- `net_rejoin`: an ACCEPT with the right token inside a session is a rejoin. The
  ACCEPT of the handshake, delivered twice or late, is one too: the server starts
  at sequence 0, the client goes on, drops the new stream as old and
  acknowledges it.

Seen and not given a run; the properties say where they leave them out:

- *jobs*: jobs.h:157 says `Shutdown` aborts all abortable jobs (jobs.cpp:188). A worker
  that has popped a job and not yet listed it holds it in neither place, so the
  job runs to its end. A job that is done is relabelled as aborted by a late `Abort`.
- *database*: when BACKUP_FIRST and NORMAL both fail, the copy step
  (connection_pool.cpp:357) moves no row and still succeeds, so the rank is
  reported saved and is in no table. `SuccessIsPermanent` excepts such writes
  (`unsaved`). The ring has no check for being full.
- *snapshot ids*: `m_Timeout` (snap_id_pool.cpp:83) is an `int`, the time has
  nanoseconds; the rest of an id is over at once, or late. The model keeps it.
- *sessions*: `ResumeConnection` keeps `m_Construct`, `m_PeerAck` and
  `m_TimeoutSituation` of the lost connection; a CLOSE sent at the end of
  `ConnTimeoutProtection` can meet a newer session of the same address; chunks of
  a packet are unpacked after a handler dropped the client.
- *login*: `counts.crossed` marks the three ways in which a login goes wrong, which
  `DownloadEnds` and `ComesOnline` except. A stale request for chunk 0 makes the
  server send its window while the client tries the web, and the download that
  follows hangs at the second chunk (server.cpp:1788). A client that connects
  again after its start info is never sent READYTOENTER (server.cpp:2007). Two
  snapshots that reach a client before its map make it ONLINE, and loading the map
  then leaves it LOADING (client.cpp:2310).
- *file writer*: a second `aio_wait` waits for a null thread; the result of the last
  close is dropped. *HTTP*: an aborted download and its repetition use one
  temporary file.
- *teams*: while a team is saved, `OnCharacterDeath` returns early, so the dead keep
  their start and finish. A tee that respawned and goes to the spectators then makes
  `DoTeamChange` (ddnet.cpp:254) check the team, which is STARTED still, and a tee
  that just spawned is ranked for a run that is saved too. `FairRank` and `RunOnce`
  except this rank (`ranked.saved`): without the exception both fail.
- *teams*: a loaded team with an invalid tee is killed before `m_apSaveTeamResult` is
  cleared (teams.cpp:1163, 1178), so the dead keep their flags again. If the team is
  locked and one member respawns and dies, the team is OPEN while a member who has not
  respawned is started still; later the team may be ranked by such a finish.
  `TeamsAgree` and `FairRank` except the flags and the rank of such a team (`spoiled`,
  which a save of it carries along) until it is empty: without the exception both fail.
- *teams*: a tee that leaves before it hit the start while its team is being saved
  does not make the team unfinishable (`deserted` excepts it); practice turns the
  minute of an unfinishable team off, so that `/unpractice` with everybody dead
  leaves a team UNFINISHABLE without a time (`TeamsSettle` asks for the time); a
  dead member of a locked team that goes to the spectators stays in the team.

## 7. What is not modelled

Within the modelled parts: the 0.7 (sixup) protocol, vanilla handshakes without
tokens, connection-less packets, bans, the flood limits (a refusal may come at any
time instead), compression, sizes in bytes, the tokens themselves (a packet has
the right one or not: guessing is outside), the text of SQL, threads that die.
The clock is abstract: a timer may run out at any step, except in `SnapIdPool`,
where time is the subject. `ConnTimeout` can thus come early: the safety
properties hold all the same, which is stronger.

In `Login`: the password, the dummy, the reconnect timer, the recorder. In
`SnapSync`: the coding of items and a delta that cannot be unpacked, the ticks between the
global ones (a tick of the model is one with snapshots, server.cpp:1038), the prediction
time, snapshots of the map before that are still under way when the client enters. In `Http`: headers, buffers in
memory, progress. In `Teams`: team-0 mode, forced solo, super, cheated tees, rescue,
invitations (whoever joins a locked team was invited), the votes for practice, the
switches, kill protection, teams set by an admin, a finish in the tick of the
start, reloads of the map.

Out of reach: physics and prediction (floating point), rendering, sound, file
formats and codecs. Separate programs: master server, presence service, tools.
These are most of the code: the modelled parts are the ones where several actors
meet, and what remains is sequential code for one actor, or presentation. What
would come next is the registration at the master server (`register.cpp`) on top
of `Http`.

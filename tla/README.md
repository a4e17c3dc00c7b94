# A formal model of KoGAI

KoGAI is the DDNet game (client, server, tools) with a bridge that lets a
learning agent steer a game client. This directory holds TLA+ models of the
parts of it that carry protocol or algorithmic state, TLC configurations that
check them on small instances, and proofs of the most important properties for
instances of every size. Paths below are relative to the repository's `src/`
directory, except for `AIenv/`.

    tlc -workers 2 -config MCJobPool.cfg MCJobPool      # a run
    tlapm ThreadProofs.tla                              # the proofs of a module

## 1. Inventory

| Part | State | Operations | Interacts with |
|---|---|---|---|
| Worker threads, `engine/shared/jobs.cpp` | linked list of jobs under `m_Lock`, semaphore, `m_Shutdown`, status of each job | `Add`, `WorkerThread`, `RunBlocking`, `Destroy` | every asynchronous task of client and server (HTTP, registration, host lookup) |
| Reliable transport, `engine/shared/network_conn.cpp`, `network.cpp` | per connection: sequence number, ack, peer's ack, resend buffer, packet under construction; the unpacker | `QueueChunk`, `Flush`, `Feed`, `AckChunks`, `Resend`, `Update`, `FetchChunk` | the same code at the other end of an unreliable network |
| Client slots, `engine/shared/network_server.cpp` | one connection per slot | accept, reject, `Drop`, `Update`, `SetTimedOut` | callbacks into the server |
| Sessions, `engine/server/server.cpp` | state, rcon access and persistent data per slot | handshake messages, kick, login, map change | callbacks from the slots, calls into the game |
| Players, `game/server/gamecontext.cpp`, `ddracechat.cpp` | a player per slot, timeout code | connect, enter, drop, `/timeout` | called by the sessions |
| Learning environment, `AIenv/kogenv.py` | done flag, two fifos | `step`, `reset` | the client, over the fifos |
| AI side of the client, `engine/client/ai.cpp`, `game/client/prediction/entities/character.cpp`, `game/client/components/controls.cpp` | last action, wishes, ticks read and answered, tiles rewarded | `ai_getinp`, `ai_reply`, called from the predicted tick; `SnapInput` | prediction, which simulates a tick many times; the input sent to the server |
| Flow field, `engine/client/ai.cpp` | direction and distance per tile | `ai_setupfield`, `ai_getfield` | gives the agent its direction and reward |
| Snapshots, `engine/shared/snapshot.cpp`, `engine/server/server.cpp`, `engine/client/client.cpp` | stored snapshots, parts received, last acknowledged tick, checksum errors | `DoSnapshot`, input with ack, receipt of parts, purge, `Update` | server to client, not reliable |
| Database workers, `engine/server/databases/connection_pool.cpp` | ring of tasks, semaphore, servers last used | `Execute`, `ExecuteWrite`, `Worker`, `OnShutdown` | scores, saves |
| Teams, `game/server/teams.cpp`, `gamemodes/DDRace.cpp`, `ddracechat.cpp` | team, state, lock, invitations, practice, swap and save per team and tee | start, finish, death, spawn, join, lock, invite, practice, swap, save, load | characters, and the database workers, which answer later |
| Asynchronous output, `base/system.cpp` (`aio_*`) | cyclic buffer that grows, reference count, semaphore | `aio_write`, `aio_close`, `aio_wait`, `aio_free`, `aio_thread` | the log, teehistorian |
| Registration, `engine/server/register.cpp` | per protocol: requests sent, last answer, challenge token, time of the next; serial of the info | `Update`, `OnPacket`, `OnNewInfo`, `OnConfigChange`, `OnShutdown`, jobs | the master, over HTTP and UDP; the job pool |
| Master server, `mastersrv/src/main.rs` | addresses, servers, seeds of the challenges | register, delete, prune, reseed | game servers |
| Bans, econ, HTTP, votes, ring buffer | lists, buffers | see `PROJECT.json` | server thread and jobs |
| Physics, rendering, editor, files | | | no protocol state |

`PROJECT.json` lists each of them with what is modelled and why the rest is
not, and the hazards with their lines.

What is hard here:

* **Threads.** The job pool, the database worker and the file writer each share
  data between threads through a hand-made structure. Signals are sent outside
  the critical section, and shutdown races with everything.
* **An unreliable network.** Packets are lost, repeated and overtaken, and the
  sequence numbers wrap at 1024 while acks and resends are under way.
* **Three tables for one client.** Slots, sessions and players are kept by
  three classes that call each other. Timeouts, takeover of a slot by
  `/timeout`, kicks and map changes come in any order.
* **Time runs backwards.** The client predicts: it simulates the ticks since
  the last snapshot again for each prediction. The bridge reads and answers in
  these ticks and keeps its state in global variables.
* **Answers that come late.** The result of a save is applied ticks later to
  whoever is in the team then; answers and challenges of the master arrive
  after the configuration has changed or the server was started anew.

What makes the parts correct:

* *Worker threads*: the list is the queue it stands for; a job is run once, by
  one thread; no wakeup is lost; `Destroy` returns and leaves nobody behind.
* *Transport*: vital chunks arrive once, in order, and in the end; nothing is
  forgotten before the other side has it.
* *Slots, sessions, players*: the tables agree; packets reach the client they
  are from; access and limits survive takeovers; slots are given back.
* *Bridge*: one request is answered by one reply, soon; the newest action and
  every kill reach the server.
* *Flow field*: following it ends at a finish, on a shortest way.
* *Snapshots*: the client shows worlds the server had; a delta is made from
  and applied to what the client has; nothing in use is purged.
* *Database workers*: every task is carried out or reported as failed, in
  order, once, before the shutdown ends; if more wait than the ring has slots,
  none is done twice or reported with another's outcome.
* *Asynchronous output*: no byte is lost or moved while the buffer grows; the
  handle is freed once, by the last who holds it.
* *Teams*: a team that empties keeps nothing of its round; nobody gets a rank
  for a practised run or in a spoilt team; a team that is being saved is closed.
* *Registration*: the tables of the master describe each other; what is enabled
  is listed in the end, with the newest info, and what is not is gone.

## 2. Modules

| Module | Models |
|---|---|
| `JobPool` | `CJobPool` |
| `NetSequence` | arithmetic on sequence numbers |
| `ReliableChannel` | what vital chunks promise (abstract specification) |
| `NetChannel` | two connections and the network between them; implements `ReliableChannel` |
| `ServerClients` | slots, sessions and players, composed as the server composes them |
| `AiBridge` | environment, fifos, prediction and input, composed |
| `AiField` | the search for the flow field |
| `TaskQueue` | what the database workers promise (abstract specification) |
| `DbConnectionPool` | `CDbConnectionPool` and its worker; implements `TaskQueue` |
| `Aio` | `ASYNCIO`, its writers, its owner and its thread |
| `SnapshotDelta` | `CSnapshotDelta`: deltas and checksums of snapshots |
| `Snapshots` | server, client and the messages between them, with `SnapshotDelta` |
| `Teams` | `CGameTeams`, the handlers that drive it, and the database's answers |
| `Register` | `CRegister`, its jobs, and the master server, composed |
| `ThreadProofs` (job pool and asynchronous output), `NetChannelProofs`, `ServerClientsProofs`, `AiProofs` (bridge and field), `DbConnectionPoolProofs`, `SnapshotsProofs`, `RegisterProofs`, `TeamsProofs` | theorems, section 5 |
| `MC...` | instances for TLC |

Each module keeps the source's names. The mutants in the modules (operators
commented "Mutant") are plausible mistakes, each defined before the definition
it replaces; none of them is used by a specification.

### JobPool

The variables are the members of `CJobPool` and `IJob`, a program counter per
thread, and two histories, `added` and `fetched`. A critical section is one
step, and so is each semaphore operation, each status change and each test of
`m_Shutdown`. The owning thread adds jobs, runs jobs itself
(`RunBlocking`), and destroys the pool. A job object is queued at most once:
every caller makes a new one. `Run` of a job is arbitrary work between two
steps. Names that `Aio` has as well begin with `Pool`: `ThreadProofs` extends
both modules. Not modelled: more threads than `MAX_THREADS`, which no caller asks
for, and spurious failures of the semaphore.

### NetSequence, NetChannel, ReliableChannel

A chunk is its number on the wire and its true number. A packet is its ack, the
resend flag and its chunks. `Send` is `QueueChunk` with an optional flush,
`Update` the timers of an online connection, `Feed` the acceptance of a packet
(window test on the ack, resend of the whole buffer when asked, then
`AckChunks`, in the order of the code), `FetchChunk` the unpacker. The choices
of `Update` are the timers: at what time they run out is arbitrary, within what
the code's intervals allow. The resend buffer and the packet have a capacity in
chunks, as the program's have in bytes; what happens when they are full is
modelled as it is coded (the chunk is sent and not kept).

The network loses, repeats and reorders. A packet is never taken out of `net`
by being received. Two assumptions are about the network and the load, not the
code: a packet does not live so long that `NET_MAX_SEQUENCE` chunks go by
(`Fresh`), and an end has less than half the numbers unacknowledged
(`MaxUnacked`); the code tests neither, and without them numbers that wrap are
ambiguous.

Not modelled: opening and closing a connection, `m_UnknownSeq` (set only after
the handshake of old clients), tokens, compression, packet layout.

### ServerClients

One step is what the server's one thread does for one packet or message, one
`CNetServer::Update`, or one map change. `Accept` stands for the handshakes
that end in a slot (with `vanilla` the one that skips authentication, with
`sixup` the one of 0.7 clients). `Update(late)` updates all connections and
drops those in error that are not protected; `late` are the slots whose timer
has run out. `ConTimeout` is the chat command, with the whole of `SetTimedOut`
in the three layers. `Authed` and `Persistent` hold the address for whom access
was given or data stored, where the program has a level and a buffer: that is
the history the properties are about. Refusals that leave the tables alone
(bans, limits, tokens, full server) are steps that do not happen; those that
drop a session are `Kick`.

### AiBridge

`Step` and `Reset` write a line and wait, `ReadReply` reads the answer. A frame
of the client takes snapshots (`Snapshot`), may predict (`Predict`, which sends
the input of a new tick), and both leave ticks to simulate, one by one, in
`CharacterTick`. `Simulate` is the AI part of `CCharacter::Tick`: no tick is
handled twice in a row, none read or answered twice. What the character moves
through is arbitrary. The four history variables say what was last asked, and
when, and whether a kill is owed.

### AiField

`FieldInit` chooses the map. (Names that `AiBridge` has as well begin with
`Field`: `AiProofs` extends both modules.) One action is one turn of the `while` loop. Distances
are integers, with a straight and a diagonal step for `1` and `sqrt 2`; the
proofs hold for any two positive lengths, so nothing rests on their ratio.
Float rounding, which could make sums along two ways equal or not, is not
modelled. `ai_getareafld`, the mean over a square of tiles, is left out.
The reference definition is beside the model: `Walks` are the lengths of all
walks from the finish of up to so many steps, and `IsShortest` compares the
distances of a finished search with them.

### TaskQueue, DbConnectionPool

The ring, the semaphore with the counter `CSemaphore` keeps beside it, and the
worker's local variables. `Execute` stores a task; `Signal` is two steps, since
the counter and the semaphore are; `Take`, `TryServer`, `NoServer`, `TryBackup`,
`SetSuccess` and `SetCompleted` are the worker's steps, and whether a server
takes a task is arbitrary. `ReadResult` is the game thread, which polls. The
history `stored` says where a task was really carried out, and that is what the
outcome is compared with.

The code does not test for a full ring, and neither does the model: a task that
is stored there replaces the oldest, which is `lost`. From then on the semaphore
counts one task more than the ring has, the newest task is taken first, and the
worker meets a null pointer early, exits and resets `m_Shutdown`; all this is
what the actions do. If the slot is written at the very moment at which the
worker moves its task out (`ExecuteRaces`), that is a data race on a
`unique_ptr`, and the behaviour ends in a state of which nothing is known.
`TaskQueue` promises the order of tasks for a number of them, its `Capacity`,
which is the size of the ring, and that no task is reported twice for any
number. What is promised at the shutdown holds while `lost` is empty, and what
the source says without that condition is refuted by `db_overrun` (section 4).

### Aio

The buffer is an array of numbered bytes with `read_pos` and `write_pos`, and
`Grow` copies its two blocks as the code does. Each critical section is a step;
signals, writes to the file and freeing, which are done without the lock, are
steps of their own. The file may fail. A handle is freed when `refcount` is 0,
and `freed` counts how often. Not modelled: `aio_write_newline`, which is two
writes under one lock, and `aio_new` without a thread.

### SnapshotDelta, Snapshots

A snapshot is a sequence of items, a key and one number, modulo `Modulus` where
the program has 32 bits. `Found` has the hash list with its limit per bucket, so
that an item of a full bucket is not found and the delta is wrong; the checksum
is a sum and does not tell everything. `Snapshots` adds the server's storage and
rates, messages of several parts over a network that loses, repeats and
reorders, and the client's storage, parts, acks and checksum errors.
`RecvPart`, `RecvWithoutBase`, `RecvCrcError` and `RecvSnapshot` are the ends
`NETMSG_SNAP` can have with what this server sends; the ends for malformed data
(a bad part number or size, a delta that cannot be unpacked) are left out. The worlds are given by the instance, chosen so that an
empty delta, a full bucket and equal checksums occur. Not modelled: the two
connections of a client with a dummy, extended item types, demos, and the map
change, after which ticks begin again.

### Teams

The arrays are one record and each function of `CGameTeams` maps records to
records, as the functions call each other: a death may end a run for others,
restart a locked team, or spoil it. An action is a whole handler: a tile, a chat
command, a death, a spawn, a tick, an answer of the database. Time is left out,
so what waits for a tick may be late. `practised` is a history: the characters
whose race was in practice mode at some moment. `sv_team` is 1 (the default).
The admin's `set_team_ddr` is left out, see section 4. So is `/r`
(`CCharacter::Rescue`), which sets a tee back to where it last stood safely, with
the race state it had there.

### Register

The server's thread, the jobs in the pool (`Threads` of which run), the
packets, and the master's tables. `Send` is `SendRegister` and
`SendDeleteIfRegistered` over the protocols a handler goes through, in one step
where the program takes the locks once for each of them. Each
protocol registers an address of its own. The index of a request counts from
the last that was answered, which is all the code compares. `SetStatus` and
`SetSerial` are the two critical sections of `CJob::Run`. Time is left out; a
timer of 15 or 30 seconds runs out only when no request and no packet is under
way (`Quiet`). This is a simplification: most requests take far less, but one is
given up only after 15 seconds, so the slowest can meet the timer. A server stops by `OnShutdown` or
in a crash, and what it sent may still arrive (`orphans`). Events from outside
share one bound, `MaxEvents`. Not modelled: the dump files the master merges,
the protocol for which another server's dump has the address, and
`sv_register` at the start of a server, which is 1.

## 3. Runs

| Run | Instance | Checks |
|---|---|---|
| `jobpool` | 3 jobs, 2 workers | the list, one thread per job, queued jobs run, `Destroy` returns |
| `net_wrap` | 6 numbers that start before the wrap, chunks both ways, resend buffer of 2, packet of 1, one overtaken packet | kept until received, counters agree, `ReliableChannel` is implemented, every vital chunk is received in the end |
| `server_clients` | 2 slots, 3 addresses, 2 of one host, limit 1 per host, 2 codes | the tables agree, one slot per address, rcon access, slots in error are given back |
| `persistent_data` | the same | violation, see section 4 |
| `ai_bridge` | 6 ticks, latency 4, 2 actions | lockstep, bounded response, kills, latest action |
| `ai_field` | all maps of 4 by 2 tiles | field, distances against an enumeration of walks, termination |
| `db_pool` | ring of 2, 3 reads and 1 write, 2 servers of each kind, 1 backup | outcomes are true, `TaskQueue` is implemented, the worker exits when all is done and shutdown returns (until the ring is overrun) |
| `db_overrun` | the same, 2 reads and 1 write | violation, see section 4 |
| `aio` | 2 writers, buffer of 3, 5 bytes | nothing lost, flushed at the wait, freed last, once, in the end |
| `snapshots` | 6 ticks, messages of 2 items, buckets of 1, numbers modulo 4 | worlds shown, bases, acks, purges |
| `teams` | 2 clients, 1 team besides team 0, 1 save | fresh empty teams, clean ranks, spoilt teams, closed saves |
| `register` | 2 protocols, 2 threads, 2 events from outside | the master's tables, eventually listed, eventually gone |

Why the bounds are enough for the cases that matter:

* `jobpool`: two workers race for one job, an emptied list is filled again
  (needs 2 jobs), and one job waits while both workers run. All jobs may be
  left when the pool is destroyed. Deadlock is checked: the only end is the
  destroyed pool.
* `net_wrap`: the counters start at 4 and 5 of 6, so that the numbers of both
  directions wrap, with two unacknowledged, the most that half of six leaves:
  the timer resends the first, and a request both. One chunk makes a packet, so
  that they overtake each other. A resend buffer that is full and packets of
  several chunks do not occur in the run, which checks liveness too and has no
  room for more; the three safety properties are proved for buffers and packets
  of every size. Sending is bounded, so the run may stop
  (`CHECK_DEADLOCK FALSE`).
* `server_clients`: a takeover needs two slots, a competing address a third;
  two addresses of one host make the limit bite.
* `ai_bridge`: predictions overlap (ticks are simulated up to three times), a
  freeze is forgotten after two ticks instead of ten, and predictions can be
  out of range. The clock is bounded, so the run stops at its end.
* `ai_field`: four by two tiles have corners to cut, ways around, ties and
  unreachable tiles. The run ends when the search does.
* `db_pool`: shutdown may come with two tasks waiting; both servers and the
  backup may fail. Four tasks wrap a ring of two twice; a third that waits
  overwrites the first, and a fourth then meets the ring out of step, before and
  after the worker has exited. Deadlock is checked: the server ends, waits for
  the worker in `OnShutdown` (`OnShutdownSleeps`), or is undefined after a race.
* `aio`: writes of two bytes wrap the buffer of three and make it grow while it
  is wrapped, and the thread takes less than it holds. The run ends when all is
  freed.
* `snapshots`: the server keeps four ticks, and with the sixth it purges the
  first, which may be the base the client acknowledged last: the next snapshot
  is then a full one. The client purges by what it shows, so a delta can come
  whose base it has no more. Two parts, a checksum error and the full snapshot
  asked for after it occur too. The last world's delta would pass the checksum
  if it were applied to the empty snapshot; the fifth and the sixth tick have
  that world.
* `teams`: a team with one and with two members, each member's way out of it
  before or after the other's, and a save that is answered after any of them.
  The clients are symmetric; deadlock is checked.
* `register`: two protocols share the info, and two events make every pair
  (crash and new info, disable and enable, lost packet and new seed). One
  request may outlast a restart. With all protocols disabled there is nothing
  to do, so deadlock is not checked.

### Fairness

* `JobPool`: the operating system runs every thread that can run, and `Run()`
  returns. Adding jobs and destroying the pool are not required to happen.
* `NetChannel`: both ends keep updating and unpacking, as the main loops do;
  the timers of `Update`, of a second at most, run out while the other end is not
  in the middle of a packet (`Due`); a packet with the next chunk, or a newer ack, that is offered again
  and again gets through once in a while. This last is the least one can ask
  of a network: without it nothing is ever received. A connection that the
  timeouts declare dead is outside this module.
* `ServerClients`: the server keeps calling `Update`, and the timer of a
  connection in error runs out, since nothing restarts it.
* `AiField`: the loop goes on.
* `DbConnectionPool`, `Aio`: threads that can run do; statements and writes to
  a file end, well or not. Nobody has to write or to shut down.
* `Register`: ticks go on, jobs run, requests and packets that are not lost end.
  The points in time at which a protocol registers again or an address is
  pruned come whatever happens meanwhile, hence strong fairness, as the model
  lets them come only when it is quiet. No event from outside has to happen.
* `AiBridge` assumes none. Instead of "eventually answered" it checks a bound:
  an action is answered in the first new tick simulated after it was written.
  `Teams` and `Snapshots` are checked for safety only.

## 4. Findings, and other differences seen

`db_overrun` shows a difference between a comment and the code.
`connection_pool.cpp:148` says that the worker will "work through all database
jobs after OnShutdown is called before exiting the thread". `Execute` (`:94`) and
`ExecuteWrite` (`:104`) store a task in the ring of 512 without a test if it is
full. The trace, in a ring of two: three tasks are stored while the worker is
between two tasks, the third in the slot of the first, which is destroyed. All
three are signalled. The worker takes the third, which lies where the first was,
and the second; the third signal wakes it to a null pointer, which it takes for
the shutdown. If `OnShutdown` was called meanwhile it returns, with one task never
worked on. If not, the worker is gone: what is stored afterwards is never done,
and `OnShutdown` waits for ever at `:114`. With 512 slots this needs as many
statements waiting, for instance while a database does not answer.

`persistent_data` shows a difference between a comment and the code.
`engine/server.h:290` says of `OnClientConnected`: "If it is reconnecting to
the game after a map change, the `pPersistentData` point is nonnull and
contains the data the game previously stored." `m_HasPersistentData` of a slot
is set at a map change (`server.cpp:2648`) and cleared only where it is used
(`server.cpp:1519`). A client that leaves between the two leaves it set, and
the next client of the slot, which does not reconnect, is handed the data. The
trace: accept, enter the game, map change, drop, accept of another address in
the slot.

Seen while modelling, and not checked by a run:

* `connection_pool.cpp:202`: a write computes `CurServer` from the server that
  worked last and asks server `i`, so it always begins with the first; the
  comment at line 134 says the last working one is tried first.
* `network_conn.cpp:527`: the chunks `SetTimedOut` copies keep pointers into the
  resend buffer of the other connection, which is then reset.
* `gamemodes/DDRace.cpp:193`: a tee that has not started and joins the
  spectators leaves its team without the mark `teams.h:16` speaks of, which only
  `OnCharacterDeath` sets.
* `set_team_ddr` asks none of the questions `SetCharacterTeam` asks: it can take a
  character in practice mode out of its team, and move one into a team that is
  being saved. It is an admin's command; with it `RankIsClean` and
  `SavingIsClosed` do not hold, and `Teams` leaves it out.
* `register.cpp:670`: a challenge that is late registers a protocol that was
  disabled. The entry is gone after 30 seconds, as `EventuallyGone` says.

## 5. Proofs

All proofs hold for every value of the constants that satisfies the named
assumptions of the modules, and the hypothesis of the theorem where it has one.
Every inductive invariant was checked by TLC on the run's instance before it was
proved.

| Module | Theorems | State, of the properties the runs check |
|---|---|---|
| `ThreadProofs`, pool | `PoolTypeCorrect`, `JobsInOrder`, `JobsRunByOne` | `ListShape`, `RunByOne` |
| `NetChannelProofs` | `CountersStandForChunks`, `ChunksAreKept`, `ImplementsChannel` | `CountersAgree`, `UnreceivedIsKept`, `InOrderOnce` (refinement) |
| `ServerClientsProofs` | `TypeCorrect`, `LayersAgree`, `AddressesUnique`, `AccessStays` | `SlotsAgree`, `OneSlotPerAddr`, `AccessIsOwn` |
| `AiProofs`, bridge | `TurnsAreTaken`, `Answered`, `KillsAreKept`, `LatestIsSent` | `Lockstep`, `AnsweredAtOnce`, `KillIsKept`, `LatestAction` |
| `AiProofs`, field | `FieldTypeCorrect`, `Descends`, `Optimal`, `Final`, `Shortest` | `FieldDescends`, `NoShortcut`, `ExpandedIsFinal` (action property), `IsShortest` |
| `DbConnectionPoolProofs` | `ImplementsQueue`, `ExitsDone`, `OutcomesAreTrue` | `TasksInOrder` (refinement), `ExitsWhenDone`, `OutcomeIsTrue` |
| `ThreadProofs`, output | `BytesAreKept`, `WaitFlushes`, `LastOneFrees` | `NothingLost`, `FlushedAtWait`, `FreedLast` |
| `SnapshotsProofs` | `ShownAreKept`, `BasesWereReceived`, `AckedAreKept`, `WorldsAreRight` | `ShownAreStored`, `BaseWasReceived`, `AckedIsStored`, `SameWorld` |
| `RegisterProofs` | `TypeCorrect`, `TablesAgree` | `ServersAgree` |
| `TeamsProofs` | `TeamsInvariant`, `EmptyTeams`, `CleanRanks`, `Unfinishable`, `ClosedWhileSaving` | `EmptyTeamsAreFresh`, `RankIsClean`, `UnfinishableStays`, `SavingIsClosed` (the last two action properties) |

**ThreadProofs, the pool**, for any set of jobs and any finite set of workers:
`JobsInOrder` is `PoolSpec => [](ListShape /\ FIFO)`. The inductive invariant adds
that no job is in `added` twice and that a job which was never added has no
successor. They are needed because `Add` writes `m_pNext` of the last job: were
that job in the list a second time, the list would become a circle. `ListShape`
in turn is what makes the job a worker takes the next of `added`. `JobsRunByOne`
rests on it: a job that a thread holds was fetched, jobs are fetched once since
`added` has no job twice, and those the owner runs itself are in no list.

**NetChannelProofs**, for every even number of sequence numbers, every window
below half of it, and buffers and packets of every size. The first part are
lemmas on numbers that wrap: how far one is behind another (`Distance`), that
this is the true difference of two counters less than one round apart, and what
`IsSeqInBackroom` and the window test on acks decide for counters that are less
than half a round, or a window, apart. The inductive invariant says which true number
each wrapping counter stands for (`Counters`); that what the other end has not
received is in the resend buffer, or was queued when that was full (`Kept`); and
that all that is under way is a true chunk of its sender, in the packet under
construction (`Constructed`), in packets (`InNet`) and in the unpacker
(`Unpacking`). Resent chunks are put behind newer ones, so that a packet is not
in order; what holds is that its chunks lie less than two windows apart, and
that what was sent before is not a window ahead of what is under construction.
With `Fresh`, a chunk the receiver unpacks is then less than half a round ahead
of what it expects and less than a round behind, so that only the chunk it
expects has the number it expects. From this
`ImplementsChannel` is one step per action: a vital chunk that is queued or
received maps to a step of `ReliableChannel`, all else to stuttering.
The hypotheses are the two of section 2, which stand in the guards and
assumptions of the modules.

**ServerClientsProofs**, for any number of slots, addresses and codes: the
inductive invariant is the conjunction of the five properties (`LayersAgree` has
`SlotsAgree` and `PlayerWhenReady`); none is inductive alone. A slot that is
accepted has no player because the layers agree that it was empty;
`OnClientDrop` is called because a player exists only from READY on; a takeover
duplicates no address because the slot it moves from was the only one online
with it. One lemma per operation proves that it preserves the conjunction.

**AiProofs, the bridge**, for any actions, latency and number of ticks. That the
two processes take turns is inductive with the types: lines to the client, lines
from it and replies owed add up to one while the environment waits, and to none
otherwise. `Answered` needs more: the three variables that keep the client from
working on a tick twice (`lasttick`, `ai_rinp_tick`, `ai_reply_tick`) are never
ahead of the newest tick that was simulated (`GuardsBehind`), so that a new tick
is never taken for one already handled, in whatever order predictions begin
again. `LatestIsSent` needs that the last line in the fifo is the last action.

**AiProofs, the field**, for maps of any size and any positive lengths. The
invariant adds two facts to `FieldDescends`: an entry never promises less than
the best distance of its tile, and a tile without an entry for its distance was
expanded, so its neighbours are at most a step farther and no entry is nearer.
The second is Dijkstra's argument, and the only place where the order of the
multiset is used; that lengths are positive makes it inductive.
`Shortest` compares the finished search with `Walks`, by two inductions that are
each made on a least counterexample among the numbers. No walk is shorter than
the distance of its end: of a walk that were, with fewest steps, the last step
would break `NoShortcut`. And every tile that was reached has a walk as short as
its distance: of those without one, take one of least distance; the tile its
field leads to is nearer (`FieldDescends`), so it has a walk, and one step more
makes a walk of the first. As each step leads to a nearer tile, the number of
steps is at most that of the nearer tiles, so that the bound on walks in
`IsShortest`, one step less than there are tiles, leaves out none that matters.

**DbConnectionPoolProofs**, for any ring, tasks and servers, and any number of
tasks that wait: the theorems have no hypothesis. The invariant has two parts.
What holds always is that no task is in two places, a slot of the ring, the
worker, or the outcomes (`Placed`), and that the worker's variables say what the
servers did (`Outcomes`); `Placed` is what keeps a task from being carried out
twice when the order is gone. What holds until a task is overwritten (`InStep`)
is that the ring has the tasks queued and not taken, in order, and null pointers
in its other places (`RingShape`); that the semaphore counts them, but for signals
under way (`Signals`); that the worker ends only with an empty ring after the
shutdown was signalled (`ShutdownPhase`); and that what is reported is what was
taken, in order (`Order`). A slot that is written has a task only in a full ring
(`FullRing`), whence `ImplementsQueue`: the order can be lost in a step only in
which as many tasks as the ring has slots have no outcome (`OverrunIsFull`).

**ThreadProofs, the output**, for buffers and writes of any size. `Numbered` says which byte is
at each place of the cyclic buffer, for both blocks when it wraps; `Grow` copies
them to the start of the new buffer, and the two copies of the thread take them
in that order. With `InTransit` (the file, the thread's local buffer and the
cyclic buffer are what was written, in order) this is `BytesAreKept`. `Flushed`
follows the thread to the end of its loop, which it leaves only with an empty
buffer. `Counted` says that `refcount` counts the holders that have not let go,
whence `LastOneFrees`.

**SnapshotsProofs**, for any worlds, rates, sizes of messages and storages, over
a network that loses, repeats and reorders. What the client takes is later than
all it stores, as it takes no part of an older tick and none it has acknowledged
(`StoredTicks`), so the storage is in the order of the ticks. The first two
snapshots are shown together (`Shown`); the purge goes up to the smallest of the
base and the two that are shown, and keeps all three. A base was acknowledged,
and an ack is of a snapshot the client has had, whatever it lost since
(`Acked`). `WorldsAreRight` adds that the message has the delta between the two
worlds its ticks name (`Deltas`) and that a world is stored under its tick, but
for the order of its items. Its hypothesis `DeltasAreSound` is about
`CSnapshotDelta` alone: a delta that is applied to the items it was made against
gives the items it was made for, or fails the checksum. It is false of some
worlds, because of the limit of a hash bucket and collisions of the sum; TLC
evaluates it for the worlds of the instance, in which both happen. The theorem
says that the protocol adds no error of its own.

**RegisterProofs**, for any protocols, worker threads, jobs and events: `TypeOK`
and `ServersAgree` are inductive together. Registering takes an address from the
server that had it before it gives it to another, and forgets a server left
without addresses; deleting and pruning do the same for the addresses they
remove. Of the game server only the typing of its requests is needed, so the
tables agree whatever requests arrive and in whatever order.

**TeamsProofs**, for any players, teams, team sizes and saves. The helpers of
`CGameTeams` are operators on the arrays, so that most of the invariant is
stated of the arrays, and one lemma per helper and per action says what it
keeps. `TeamsInv` is the conjunction of:

* `FreshInv` (`EmptyTeamsAreFresh`) and `FlockInv`: team 0 never races as a team,
  practises or is saved, so that going there is always safe.
* `CleanInv`: a character that raced in practice mode still plays in a team that
  practises, whence `RankIsClean`. Who joins the spectators leaves the team first
  and dies after it; the lemmas on helpers therefore except a set of tees.
* `ClosedInv`: the answer of the database covers the members there are. Otherwise
  loading a save would leave a member with what it did before in a team that no
  longer practises.
* `QuietInv`: nobody races in a team that is being saved. After the save
  succeeded, `MoveAll` takes the members out, and would take out one that
  practised.
* `SavingInv`: a team that is saved or loaded is not `UNFINISHABLE`, as a
  restored state would otherwise let it finish (`UnfinishableStays`).

`Follows` bounds what any sequence of helpers does: tees only leave for team 0,
nobody starts, no team begins to race and no answer changes. With it the two
action properties come from the few actions that do more (`JoinTeam`, `Start`,
the commands and answers of saves). `KillTeam` and `MoveAll` fold over the
members of a team; `FoldExists` shows that the fold's recursive function exists,
and `SubsetInduction` that what one member's step keeps the fold keeps.
As in the model, `set_team_ddr` is left out (section 4).

Every safety invariant and action property of the passing runs, and both
refinements, are theorems. Only model-checked:

* all liveness (`JobPool`, `NetChannel`, `ServerClients`, `AiField`,
  `DbConnectionPool`, `Aio`, `Register`), which is out of the prover's reach;
* what `SnapshotDelta` computes by folding over a sequence, `DeltasAreSound`
  among it, which for some worlds is false and so is a hypothesis of
  `WorldsAreRight`, evaluated by TLC for the worlds of the instance;
* `PersistentDataIsOwn` and `DrainedAtShutdown`, which are false (section 4).

The induction theorems of the library take an operator as a parameter, which the
provers cannot instantiate. Where an induction was needed (walks, folds over a
set of members), it is a proof by a least counterexample, from the fact that the
numbers are well-founded.

## 6. Not modelled

`PROJECT.json` has a reason for each part. In short: physics and prediction are
floating-point arithmetic on large maps; rendering, menus, sound, the editor and
most of the client are presentation in one thread; file formats, the console,
configuration and storage are parsing; libraries are somebody else's code. These
make up most of the lines of the repository. Of the parts with state, bans, votes
and the remote console are handled by one thread with no answers pending, and the
ring buffer is a sequential allocator; the modules that depend on them have what
they promise. The client's handshake and map download are left out: its ends of
the transport and of the snapshots are in `NetChannel` and `Snapshots`.

## 7. Order of the work, and what is left

Done, in this order: `JobPool`; `NetSequence`, `NetChannel`, `ReliableChannel`;
`ServerClients`; `AiBridge`; `AiField`; their proofs; `DbConnectionPool`,
`TaskQueue`; `Aio`; `SnapshotDelta`, `Snapshots`; `Teams`; `Register`;
`JobsRunByOne`; the proofs of `NetChannel`, the bridge, `DbConnectionPool`,
`Aio` and `Snapshots`; `Shortest`; the proofs of `Teams`.

No safety property of a passing run is left without a theorem. What could come
next is a proof of which worlds satisfy `DeltasAreSound`, by induction over the
items of a snapshot, and models of the parts of section 6 that keep state.

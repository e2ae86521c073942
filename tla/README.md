# A verification project for reactor_rpc

reactor_rpc is a small reactor library in C++ (event loop, poller, channels,
TCP server and client) with an RPC layer on top. This directory holds TLA+
modules of its core, the TLC runs that check them, and TLAPS proofs.
`PROJECT.json` lists the components, the runs, the source lines behind each
definition, the findings, the hazards and the theorems.

## Inventory

| Component | State | Operations | Hard because |
|---|---|---|---|
| EventLoop | `quit_`, `pendingFunctors_` under `mtx_`, wakeup pipe | `loop`, `runInLoop`, `doPendingFunctors`, `wakeup`, `handleRead`, `quit` | any thread posts and quits while the loop polls; one byte read per iteration; a full pipe blocks writers |
| Channel, PollPoller | `events_`, `index_`, `addedToLoop_`; `pollfds_`, map `channels_` | `enable…`, `disable…`, `remove`, `updateChannel`, `removeChannel`, `poll` | three structures must agree over any sequence of calls |
| TcpServer, Acceptor, EventLoopThreadPool | `connections_`, `nextConnId_`, `next_`, `listening_` | `start`, `newConnection`, `removeConnection(InLoop)`, `getNextLoop` | a close hops io loop → base loop → io loop; the last `shared_ptr` may go anywhere on the way |
| TcpConnection | `state_` (no lock), channel, `outputBuffer_` | `connectEstablished`, `handleRead/Write/Close/Error`, `send`, `shutdown`, `connectDestroyed` | `send` and `shutdown` come from other threads; several callbacks in one `handleEvent` |
| Connector, TcpClient | two `connect_` flags, connector `state_`, `channel_`, `connection_` under `mutex_` | `connect`, `stop`, `disconnect`, `retry`, `restart`, `newConnection`, `removeConnection` | retries nest in the handler of the failed attempt; `stop` races `start` and `restart` |
| EventLoopThread | `loop_` under a mutex | `startLoop`, `threadFunc`, destructor | destructor reads `loop_` unlocked; its `quit()` goes on using a loop that may be gone; a `quit` before `loop()` is forgotten |
| Codec, RPC_Server, RPC_Client | per-connection buffers and expected sizes | header encode and decode, reassembly, `call` | chunks split anywhere; signed bytes; unsynchronised maps |
| ThreadPool, ThreadSafeQueue, TimerFd | queue, `running` flag; timer thread and pipe | `submit`, worker, destructor; `setTime` | notify without the lock; a detached thread outlives its object |
| Socket, InetAddress, main, traits | none of their own | system calls, formatting | – |
| Timer, CountdownLatch, KqueuePoller, Poller.cpp | – | unfinished or superseded | – |

Threads meet in three ways: through `runInLoop` (a functor and a byte in the
pipe), through fields read and written without a lock (`TcpConnection::state_`,
`EventLoopThread::loop_`), and through shared ownership of a `TcpConnection`.
Everything else runs in one loop's thread. The build sets no build type, so
assertions are on: the models record a failed one in `fault` and stop.

What makes the parts correct: functors run once, in order, in the loop's
thread, and no wakeup is lost; a loop handed out by the pool exists; the poller
polls what the channels ask for; a connection is established, closed,
erased and removed once each, outlives its handlers, and does not stay when its
peer has gone; its peer reads what was sent, in order, and then the end;
attempts and connections of a client never overlap; a request is parsed only
when it is whole; tasks leave the queue once and in order.

## Modules

| Module | Models | How |
|---|---|---|
| `TaskExecutor` | what an EventLoop promises | abstract FIFO executor: `Submit`, `Execute`, `Start`, `Stop` |
| `EventLoop` | `EventLoop.h/.cpp` | one action per access to shared state; producers are `idle` or between publishing and writing the byte; `Executor` is the refinement mapping (`queue` is the swapped batch followed by the pending vector) |
| `PollPoller`, `MCPollPoller` | `PollPoller.h/.cpp`, the map in `Poller.h`, `Channel`'s interest | one action per public operation of `Channel`, plus `Poll`; `AddEntry` and `RewriteEntry` are the two halves of `updateChannel`; channels are removed in any order and enabled again at will; the histories `hole` and `muted` say which entries this leaves wrong |
| `EventLoopThread` | `EventLoopThread`, `EventLoopThreadPool::start` and the end of the pool | the owner walks through the threads, `at` being the one it starts or destroys; `thread[i]` is where `threadFunc` is; the destructor's reads of `loop_`, which take no lock, and the two parts of `quit()` are steps of their own |
| `TcpServer` | `TcpServer`, `Acceptor`, `getNextLoop`, the life of a `TcpConnection`, `handleEvent` | `stack[l]` is what thread `l` has still to call, so that `runInLoop` in the right thread continues at once inside its caller; `pending[l]` the functors from other threads; `stale` the channels whose `index_` a removal left too high, `aborted` that the poller was given one |
| `SendPath`, `MCSendPath` | both `send`s, `sendInLoop(Char)`, `handleWrite`, `shutdown(InLoop)`, the close as far as it meets them | byte sequences in `outputBuffer_`, the socket's buffer and the peer; the loop thread and one other, which may overwrite a char array it has posted (`userReuses`): the functor holds the bare pointer (`TcpConnection.cpp:125`) |
| `TcpClient` | `TcpClient`, `Connector`, the parts of `TcpConnection` a client meets | the same `stack`/`pending`, one loop thread and one application thread |
| `Codec` | `cal_headers` and the sum that reads a header back | operators; the number of values of a byte is a constant |
| `Rpc` | `RPC_Server::onMessage`, `handle_request`, `send_result` | `EXTENDS Codec`; a byte stream delivered in chunks of any length; the peer is external and frames requests as `RPC_Client::call` does |
| `ThreadPool` | `ThreadPool`, `ThreadJoiner` | workers that test and go to sleep in two steps, under `m_`; the owner submits and destroys |

Proofs are in modules of their own: `EventLoop_proofs`, `PollPoller_proofs`,
`EventLoopThread_proofs`, `TcpServer_proofs`, `SendPath_proofs`,
`TcpClient_proofs`, `ThreadPool_proofs` and `Rpc_proofs` (which covers `Codec`)
each extend the module they are about.

The modules rest on each other. `TcpServer`, `TcpClient` and `SendPath` take
from `EventLoop` that functors run one at a time in the order of the posts,
which is what `ExecutorSpec` states and `LoopImplementsExecutor` proves;
`EventLoopThread` takes from it that `quit()` ends `loop()` (`QuitStopsLoop`);
they replace the poller by "registered or not and with which events", which
`PollPoller` shows for channels in front of every erased entry
(`InterestIsPolled`). `TcpServer` follows the others: a removal makes the
channels behind it on its loop `stale`, and the first use of a stale index is
where the module stops (`aborted`); what it says of a server holds up to that
point. `SendPath` has one
channel, and `TcpClient` one at a time (`OneAtATime`), whose indices no removal
disturbs. `TcpServer` starts with the loops `EventLoopThread` provides. `Rpc`
takes its stream from `SendPath` (`StreamIntact`).

Ownership in `TcpServer`: `Alive(c)` holds while the map, a functor, an
owning call on a stack or an application thread refers to `c`. `handleEvent`
calls through bare pointers, so the calls in `BareCalls` own nothing.

Data that is abstracted: a functor is what it does to the loop (quits it or
not); bytes are sent in `SendPath` only, so that `TcpServer` has no `POLLOUT`
and no FIN; the JSON text of a request is a body of some length, of which no
proper part is a JSON text; names, addresses and logging are left out; the
delay before a retry is left out (the loop thread sleeps it). Definitions
marked "Wrong on purpose" are not part of a specification: each is a plausible
bug that shows the property it is paired with can fail.

## Runs

| Run | Instance | States | Shows |
|---|---|---|---|
| `event_loop` | 2 producers, 3 functors (one quits), pipe of 2, 3 posts | 28 804 | `NoLostWakeup`, `ExactlyOnceInOrder`, `QuitStopsLoop`, refinement of `TaskExecutor` with its liveness |
| `loop_threads` | 3 threads | 42 277 | `LoopsLive`, `DestructorSafe`, `StartReturns`, `DestroyReturns` |
| `poller` | wakeup channel, acceptor and 3 connections, one descriptor reused; any order of calls and removals | 1 243 000 | `IndexConsistent`, `AbortsOnlyFromHole`, `InterestIsPolled`, `WakeupPolled`, `ReportsOnlyInterested` |
| `poller_any_order` | same | violated | only the removed channel's `index_` is corrected; the next update of a later channel aborts (`PollPoller.cpp:43`) |
| `poller_reenable` | same | violated | a channel enabled again after `disableAll` keeps -1 in the array and is never polled (`PollPoller.cpp:47-49`) |
| `server` | 2 io loops, 3 connections | 49 318 | assertions, `ChannelOutlived`, `NotDestroyedInHandler`, `DestroyedAfterErase`, `LoadBalanced`, `PeerGoneConnGone` |
| `server_user_shutdown` | an application thread calls `shutdown()` | violated | its test and its store of `state_` straddle `handleClose`; the connection is erased twice |
| `server_inline` | no io loops | violated | the removal runs inside `handleEvent` and frees the channel under it |
| `send_path` | messages with and without NUL, socket buffer of 2, 3 sends | 88 403 | `StreamIntact`, `InterestIffBuffered`, `EofAfterLastByte`, `FaultsExplained`, `RemovedForGood`, `ShutdownCompletes` |
| `client` | 3 connections, 1 `connect()`, 2 `stop()`, 2 `disconnect()` | 9 439 | assertions, `OneAtATime`, `ConnectionIsLive`, `LostIsReplaced` |
| `rpc` | bytes of 4 values, requests of 1, 2, 5, 6 or 20 bytes, 3 requests | 6 582 | `ServerParsesWholeRequest`, `RequestAnswered` |
| `thread_pool` | 3 workers, 3 tasks | 3 026 | `TakenInOrder`, `TaskKeepsWorkerAwake`, `TasksTaken`, `DestructorReturns` |

`TypeOK` is part of the runs where it says more than types (the pipe within its
capacity, indices within the array, `next_` within the loops, the mutex with the
worker in its critical section).

A violated run checks one property that an assertion or a comment of the
repository states; `findings` quotes it.

Several properties of the passing runs name the case in which the code does
not keep the promise, so that they say exactly when it does: `cut` (a char
array with a NUL had to be buffered), `overtaken` (a FIN or a close came before
a send already posted), `appQuit` (someone other than the destructor quits
this loop of the pool), `QuitTooEarly` (the destructor's `quit()` comes before
`loop()`, which forgets it), `hole` (the lowest entry of the array erased in
front of others) and `muted` (a channel was left without events), `aborted` (the
poller was given a stale index), `missed` (the pool's notification came between a worker's
test and its wait), `shortHeader`, `Misread` and `Overrun` (a header in two
chunks, a length with a byte above 127 in its three low bytes, a chunk with the
end of one request and the beginning of the next). Except for `aborted`, which
ends a behaviour like `fault`, no guard reads them.

### Bounds

- `event_loop`: a pipe of 2 is full with two posts before the loop reads, and
  three posts put functors into the running batch, the pending vector and the
  executed history at once; two producers give the race between a post and a
  quit. `quit()` is not bounded.
- `loop_threads`: with three, one is being destroyed while an earlier one is
  gone and a later one still runs.
- poller: four entries and a reuse of a descriptor are enough for removal from
  the front, the middle and the end with entries behind it, twice over. One
  channel is a `Writer` (the others are asked for `POLLIN` only), and `MaxReady`
  lets `poll(2)` report one entry at a time: the properties speak of each
  reported channel by itself.
- server: three connections on two loops make `next_` wrap and put two
  connections on one loop while another closes.
- send path: the socket takes less than two messages, so that direct, partial
  and buffered writes mix, and a third send comes while the second waits; two char
  arrays have one length, so that one can be overwritten with the other.
- client: three connections allow two losses, the second after a restart. One
  `connect()`, since a second fails an assertion (below).
- rpc: a byte of four values is the smallest with a sign bit and two positive
  values; the lengths are those whose low byte is read as positive (1, 5), as
  negative (2, 6), and one with a third digit (20). Three requests let one or
  two follow in the chunk that ends the first. Every cut into chunks happens.
- thread pool: three tasks for three workers, so that a notification may go to
  a worker that finds the queue empty.

### Fairness

- `EventLoop`: weak fairness of the loop thread's own steps and of a write to
  a pipe that is not full. `PollOther` (the ten-second timeout and other
  channels) gets none, so that liveness does not lean on them.
- `EventLoopThread`, `ThreadPool`: weak fairness of each thread's steps. A wait
  need not end by itself, and nobody has to submit, to quit a loop, to go on
  with that call or to destroy the pool.
- `TcpServer`: weak fairness of the calls a thread is in; strong fairness of
  `handleEvent` and `RunFunctor` per connection and loop, since one iteration
  of `loop()` serves every channel `poll` reports and then every functor posted
  before the swap. None of the peers.
- `SendPath`: weak fairness of the loop's handlers and functors, of the
  rest of a `shutdown()` that has begun, and of a peer that reads as long as it
  is open: against one that never reads no shutdown completes.
- `TcpClient`: as in `TcpServer` for the loop thread; strong fairness of a
  successful `connect(2)` and of the writable event, that is, the server is not
  unreachable for ever. `LostIsReplaced` excepts `stop()`, `disconnect()` and
  an attempt that ends with an error the connector does not retry.
- `Rpc`: what was sent arrives and is handed to `onMessage`. None of the peer.

Deadlock checking is off where the system may rest or end: a client or a
connection with its bounded calls used up, a pool that has been destroyed or
waits for ever to be, a poller or a server that a failed assertion has ended.

## Proofs

`EventLoop_proofs`, for any producers, functors, pipe capacity and number of
posts:

- `TypeCorrect`: `Spec => []TypeOK`. `ReadableWhenActive` is the
  strengthening: the pipe can be read because only the loop reads it, after
  `poll` reported it.
- `WakeupNeverLost`: `Spec => []NoLostWakeup`. The property speaks of
  `pc = "poll"` only and is not inductive; `SignalOwed` says what is owed at
  every point of an iteration, in particular that a byte consumed before the
  swap has its functors taken by it.
- `FunctorsInOrder`: `posted = done \o callbacks \o pendingFunctors_`, with
  `BatchOnlyInRun`: the vector that is swapped in was empty.
- `LoopImplementsExecutor`: `Spec => Executor!SafeSpec`. `Loop` is `Start`,
  a push `Submit`, a call `Execute`, the end of `loop()` `Stop`; every other
  step, the swap included, stutters.

`PollPoller_proofs`, for any channels and descriptors:

- `TypeCorrect`: no call writes or erases an entry beyond the array.
- `IndicesAgree`, `OnlyHolesAbort`, `InterestPolled`, `LoopCanBeWoken` and
  `OnlyInterestedReported`, for every sequence of calls: removals in any order,
  channels enabled again after `disableAll`. What a removal in front of others
  spoils is named by `hole`, what `disableAll` spoils by `muted`, and the
  theorems say that this is all. Their invariant `PollerInv` adds that indices
  in front of the hole are injective (so that rewriting or erasing one entry
  leaves those of other channels alone), that no entry but its own has the
  descriptor of a channel in front of the hole, that the map holds only registered
  channels, that an entry carries the events of its channel and has -1 exactly
  when its channel is muted, and that `addedToLoop_` says whether there is an
  entry. No user channel gets index 0 and no erasure reaches it, which is why
  `LoopCanBeWoken` holds behind any hole.

`EventLoopThread_proofs`, for any number of threads: `LoopsHandedOutLive` and
`DestructorFindsLoop` (`DestructorSafe`): the destructor's tests and its store of
`quit_` meet a live loop. The call that follows in `quit()` need not: the loop
may end and be destroyed between the store and `wakeup()`, in the model the
fault "destroyed in quit", and no theorem says otherwise. The invariant `PoolInv` says that `loop_` follows
`threadFunc` (`PointerInv`), which threads have begun at each stage of the
owner (`StartedInv`), and that a loop ends only because the destructor or other
code quit it (`QuitInv`).

`ThreadPool_proofs`, for any workers and tasks: `TypeCorrect`,
`TasksTakenInOrder`, and `NoLostWakeup` (the invariant `TaskKeepsWorkerAwake`).
That one needs `SleepersSawNoTask`: between a worker's test and its wait the
queue stays empty, because `submit` needs `m_`. (`running` is not under `m_`,
so the same does not hold of the destructor's notification.)

`SendPath_proofs`, for any messages, any capacity of the socket's buffer and
any number of sends: `StreamNeverCorrupted`, `InterestFollowsBuffer`,
`EofIsTheEnd`, `NoUnexplainedFault`, `RemovedStaysRemoved`, and the types.
`SendInv` adds that only a peer's close ends the connection (`PeerInv`), that
nothing is buffered behind a FIN (`FinInv`), and that behind a FIN or a close
no send can begin and one still posted has been overtaken (`LateInv`). Without
the last a posted send could reopen the buffer behind the FIN unnoticed.
`FaultsExplained` says which cause each end of the process has: SIGPIPE a peer
that closed or a FIN that overtook a send, an assertion a close that overtook
one, the exception of `Buffer` a cut char array.

`TcpServer_proofs`, for any number of connections, io loops and interleavings,
up to the first use of a stale index:

- `TypeCorrect`, also with application threads (`TypeCorrectWithUsers`).
- `NoAssertionFails`, `ConnectionOutlivesChannel`, `HandlersKeepConnection` and
  `EraseThenDestroy`, for `ThreadNum > 0` and without application threads: the
  runs `server_inline` and `server_user_shutdown` show that neither hypothesis
  can be dropped. The properties speak of the map, the stacks, the functors and
  the channels at once, and none is inductive. `LifeInv` gives every connection
  one of six phases, from `Fresh` over `Accepted`, `Open`, `Closed` and `Erased`
  to `Gone`; each functor and each call on a stack is in the right loop for a
  connection in the phase the call expects (`Waits`, `Runs`); a connection has
  at most one functor in a loop, and none while a call that changes its phase is
  on that loop's stack; and one that is `Erased` has its `connectDestroyed` to
  come (`DestroyDue`). A phase is left only by the one call that holds the
  token for it, which is why nothing is done twice.
- The race of `shutdown()`, for any number of application threads.
  `connectDestroyed` may find a `state_` that was set back and post a second
  `removeConnectionInLoop`. `LifeInv` therefore allows one for a connection that
  has left the map (and a `shutdownInLoop` anywhere, `Spare`), and names the
  states a phase may see, with `Unraced` for the stricter ones without
  application threads; `UserOK` says that a thread inside `shutdown()` has seen
  the connection established. `RaceInv` is all this until the second removal
  runs. From it: `RaceFailsEraseOnly`, the assertion at `TcpServer.cpp:76` is the
  only one that can fail; and `RaceFreesNothingEarly`, until it does the
  connection outlives its channel and its handlers. Both are about the build
  with assertions: without them the second erase is a no-op and another
  `connectDestroyed` follows, which the model does not go into.
- `NothingComesBack`, an action property with application threads: no step puts
  a connection back into the map, enables it after its close or registers it
  after its removal. `StatesGoOn`, without them: `state_` only goes on.
- `RoundRobinBalances`, for any `ThreadNum`: the loops up to `next_` have one
  connection more than the others, which have equally many (`Balance`).

`TcpClient_proofs`, for any number of connections, `stop()` and `disconnect()`,
with at most one `connect()` (a second one fails an assertion, below):
`NoAssertionFails`, `AttemptOrConnection`, `HeldIffRegistered`. `ClientInv` names
the phases of a client (`Attempting`, `Polled`, `Resting`, `Handing`, `Holding`,
`Losing`, `Lost`) with the stacks that can occur in each, and `StartInv` says
that the one `startInLoop` of `connect()` finds the connector as its constructor
left it, so that no attempt is started beside another.
`OneAfterTheOther` is an action property from it and `Unmade` (no connection is
made ahead of `nextConnId_`): a connection is taken only when it is new and the
client and the poller are done with the one before, is let go of only when it
is closed, and its state never goes back.

`Rpc_proofs`, for bytes of 256 values, any lengths of requests, any number of
requests and every cut of the stream into chunks:

- `HeaderRoundTrip`: `HeaderExact`. A length is the sum of its four digits
  (`Digits`); each digit read through a signed char is itself or 256 less, so
  that the sum is wrong by a multiple of 256, of 256^2 or of 256^3 for the three
  low digits, which cannot cancel, and by 2^32 for the highest, which the
  unsigned int absorbs.
- `ServerParsesRequests` (`ServerParsesWholeRequest`). The first request is
  untouched on its way (`Unread`), or its header has been read and what is
  left of its body continues the buffer (`Reading`); so a buffer of the expected
  length is the body.
- `AtMostOneAnswer`: a connection gets at most one result, whatever is sent on
  it (`AskedInv`): the buffer is never emptied, so that no later chunk makes its
  length equal to the expected one again.

Assumptions on the constants are in the modules that declare them, and TLC
evaluates them in the runs.

Only model-checked is liveness, since the prover does not reason about
fairness: `QuitStopsLoop` and the liveness in `ExecutorSpec`, `StartReturns`,
`DestroyReturns`, `PeerGoneConnGone`, `ShutdownCompletes`, `LostIsReplaced`,
`RequestAnswered`, `TasksTaken`, `DestructorReturns`. Every
safety property of a passing run is a theorem.

## Read from the code, not in a run

- A second `TcpServer::start()` fails the assertion of the pool: `started_` is
  tested and set nowhere. The model calls `start()` once.
- `~TcpServer` releases open connections without `connectDestroyed`, so that
  `~Channel` asserts. The destructor is not modelled.
- `handleEvent` would close twice on `POLLHUP` without `POLLIN`. A TCP socket
  with reading enabled reports both, so the code does not meet this case.
- `TcpClient::disconnect()` in another thread has the race of `shutdown()`,
  which `mutex_` does not cover; the model calls it in the loop thread.
- `Connector::stop()` can be overtaken by a `start()` or `restart()` that sets
  `connect_` again before `stopInLoop`, which then reconnects, against the
  comment at `Connector.cpp:96`. The interleaving is in `TcpClient`.
- `retryDelayMs_` is doubled after the nested attempt, and `sleep` takes
  seconds: the delay neither grows nor is the number the message prints.
- After a connection was lost `connect()` on the idle client fails the
  assertion at `Connector.cpp:26`: `handleWrite` leaves `kConnected`, and only
  `restart()` takes it back (`TcpClient` with `retry_ = FALSE` and two
  `connect()`s).
- `removeAndResetChannel` destroys the connector's channel inside its
  `handleEvent`, which the comment at `Connector.cpp:106` rules out:
  `runInLoop` in the loop's own thread calls `resetChannel` at once.
- A send posted before the close is done after it: it registers the removed
  channel again (`overtaken` in `SendPath`), and `~Channel` asserts.
- `quit()` between the return of `startLoop` and the entry of `loop()` is
  forgotten, and the destructor's `join` waits for ever (`QuitTooEarly`, the case
  `DestroyReturns` excepts).
- `EventLoop::quit()` stores `quit_` and then calls `isInLoopThread()` and
  `wakeup()` on the same loop, which its thread may have destroyed meanwhile
  ("destroyed in quit" in `EventLoopThread`). No comment or assertion of the
  repository speaks of this window, so no run is about it alone.
- A header that had to be buffered loses everything from its first zero byte
  (`TcpConnection.cpp:142`); if that leaves `outputBuffer_` empty with writing
  enabled, the loop spins and a FIN is never sent.
- The client side of the RPC does not work as it stands, and is not modelled:
  `RPC_Client` does not register its `onMessage` (`RPC_Client.h:27` is commented
  out, the default callback prints), and nothing runs its `loop_`, so that
  `conn_` stays null and `call()` returns "Connection not established". If both
  were repaired, a response that comes in one chunk while the caller sleeps
  would not wake it (lines 64-76 have no notify), and a second `call()` would
  return the first result, which nothing clears.
- A connection to `RPC_Server` serves one request (`AtMostOneAnswer`). The
  server's maps keep the connection, and with it the descriptor, for ever.
- `pack_args` writes `function_name`, `unpack_func_name` reads `func_name`; a
  program that calls `register_handler` does not compile; `pack_result` ignores
  `success`.
- Tasks of `ThreadPool` are taken and never called (`ThreadPool.h:57`).

## Not modelled, and the plan

1. `TimerFd`: one timer, its detached thread and its pipe, which may outlive
   the object. Nothing in the program creates one.
2. `RPC_Client`, once something runs its loop and registers its callback.
3. Two `EventLoop`s that post to each other through full pipes, and
   `~TcpServer`.
4. Proofs: what holds of a client whose `connect()` is called again after the
   connector came to rest.

`ThreadSafeQueue` is not included anywhere; each of its operations is one
critical section. Sockets, addresses, JSON and the demo program are I/O and
conversion. `Timer`, `CountdownLatch` and `KqueuePoller` are unfinished and not
in the program; `Poller.cpp` is an earlier copy of `PollPoller.cpp` that no
longer fits its header.

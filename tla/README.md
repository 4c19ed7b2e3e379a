# A TLA+ development of tinyRPC

tinyRPC is a C++20 networking library in two layers that hardly meet:

* `src/async`: C++20 coroutines. A thread pool resumes them, an event and
  `when_all`/`sync_wait` synchronise them.
* `src/net` on `src/common/coroutine`: stackful coroutines, a reactor per
  thread over epoll, timers, and TCP connections whose blocking calls are hooks
  that yield to the reactor.

Beside them stand a binary codec (`src/protocol`), small utilities
(`src/common`), an echo server (`src/lab1`) and the stubs of a second network
layer (`src/net2`).

The modules here model the parts whose correctness depends on interleavings,
on the order of callbacks, or on arithmetic at a boundary. `PROJECT.json` has
the index: components, runs, the source lines of every definition, the defects
(`mutants`) each property is known to catch, hazards and theorems.

## 1. Inventory

State, operations and difficulty of each part; **M** modelled, **P** partly,
**-** not modelled (section 8 says why).

| part | | state | operations | what is hard | correctness |
|---|---|---|---|---|---|
| thread pool (`async/thread_pool`) | M | deque of handles, `size_`, `shutdown_`, stop tokens, condition variable | schedule, yield, resume (handle, range), executor, shutdown | notify after unlock and once per range; a yielding coroutine is queued while its worker still runs it; stop with a full queue | one resume per suspension; exact size; no lost wake-up; drain before exit |
| event (`async/event`) | M | one atomic pointer: null, set, or an intrusive list | co_await, set (lifo, fifo, executor), reset | compare-and-exchange with reused addresses; reading `next_` before the resume that invalidates it | a flag and a line: all taken at once, resumed once, in order |
| when_all, sync_wait (`async/when_all.hpp`, `async/sync_wait.hpp`) | P | latch, awaiting handle, event | start, completion, try_await, set, wait | tasks finish inline or elsewhere, before or after the awaiter counts itself | resumed once, after all; returns; nothing destroyed while it runs |
| task, task container (`async/task.hpp`, `async/task_container.hpp`) | - | continuation; slots, deletion list | start, await; start, garbage_collect | a task that has already started is started again | section 8 |
| generator, io context (`async/generator.hpp`, `async/io_context.hpp`) | - | one value; an epoll fd | next; run | no concurrency; no operation that completes | section 8 |
| stackful coroutine, its pool (`common/coroutine`) | P, M | current coroutine, callbacks; slots with in-use marks | Resume, Yield, setCallBack; get, return | a coroutine that is not running may still be held; growth over slots in use | one user per coroutine; Resume resumes |
| reactor (`net/reactor`) | P | task vector, fd queues, registrations, eventfd, flags | addTask, addEvent, delEvent, wakeup, stop, loop | queues filled by other threads; vector walked without the lock | each task once; no sleep on work; registrations mirror the kernel |
| timer (`net/timer`) | M | multimap by due time, one timerfd | addTimerEvent, delTimerEvent, resetArriveTime, onTimer | cancelled heads, clock moving inside an operation, repeated events | armed for the earliest; nothing lost or doubled; due is handed over |
| fd events (`net/fd_event`) | P | listening mask, shared vector by fd | add/del listen events, getFdEvent | FdEvents outlive connections; growth by two threads | who waits is registered |
| hooks (`net/coroutine_hook`) | M | the yielded coroutine | read, write, accept, connect, sleep | resumed by the wrong callback; time-out against completion | returns what the call means |
| tcp buffer (`net/tcp_buffer`) | M | vector, two indices | write, read, resize, compact, recycle | off by one at a full buffer | a queue of bytes |
| tcp connection (`net/tcp_connection`) | P | state, buffers, coroutine | loop, input, output, clearClient, shutdown | peer, time wheel and callbacks at any yield | bytes in order, no use of a closed fd, it ends |
| time wheel, io thread (`net/tcp_conn_timer`, `net/io_thread`) | M, P | buckets of weak owners; clients by fd | fresh, loop; main, addClient, sweep | one connection in several buckets; fd reuse before the sweep | an active connection is kept, an idle one shut, a closed one freed |
| server, client (`net/tcp_server`, `net/tcp_client`) | M, P | acceptor, counter; connection, time-outs | accept loop; send and receive | peer address read later than the accept; time-out against reply | each client served; requests only over a connection |
| echo server (`lab1`) | - | epoll set | accept, echo | one thread, one loop | section 8 |
| codec, rpc (`protocol`) | M | stream | encode, decode of values and containers, dispatch, call | signs and widths of swaps; streams that end early; defaults | decode inverts encode, or throws |
| number formatting, log (`common/string.hpp`, `common/log.hpp`) | P | a buffer per thread and level | itoa, ptrtoa, dtoa_grisu2; LogMessage | zero, the least number, tables at their end, a full buffer, nested statements | digits of the number; a line of its own bytes |

How the parts interact: an accept loop gives each connection to an io thread's
reactor as a task; the reactor resumes the connection's coroutine when the fd
is ready; the coroutine reads and writes through the hooks, which register the
fd with the reactor and yield; timers reach the reactor as tasks, and the time
wheel, a repeated timer, shuts idle connections down. In `src/async`,
`sync_wait` blocks a thread on `when_all`, whose tasks usually run on the
thread pool.

## 2. Plan

All parts with state of their own that defined code of the repository drives
are modelled, in the order thread pool, event, when_all, timer, reactor, buffer,
connection, server (with io threads, fd events, coroutine pool and time wheel),
client, codec, number formatting, log. Theorems exist for thread pool, when_all,
reactor, buffer, connection, server, client and codec.

What would add most next: a proof of `MirrorsEpoll` of the reactor and of the
timer's invariants; a server and clients that share the FdEvents of one process.

## 3. Modules

Names are those of the source wherever TLA+ allows. A step is what no other
thread can see in the middle: a critical section, one access to an atomic, or,
on a single thread, the code between two points where it can yield. Definitions
introduced by "Defect:" are not part of any specification; each is a plausible
mistake in the definition below it and shows which property would notice.

**`ThreadPool`** (`async/thread_pool.{cc,hpp}`). `queue_`, `size_`,
`shutdown_` are the members; `stopped` is the set of workers with a stop
request; `pc`, `task`, `batch`, `nulls` hold each thread's position, the
coroutine on its stack and the handles it is about to queue; `co` is the state
of each coroutine; `late` remembers what was queued after `shutdown_` was set.
`Schedule`/`ScheduleSize` are `schedule()` (test, then count and suspend),
`Resume` and `ResumeRange` the two forms of `resume`, `Push`, `UncountNulls`,
`NotifyOne` their common tail, `Enter`, `Pop`, `Wait`, `UncountRun` the
executor, `Shutdown`, `RequestStop`, `Join` the shutdown. Coroutine bodies are
abstract: they call the pool, park, or finish.

**`Event`** (`async/event.{cc,hpp}`) and **`AsyncEvent`**, what it promises.
`state_` is the atomic pointer, `next_` the links. `AwaitReady`, `Load`,
`CasSucceeds`, `CasFails` are `co_await`; `Exchange`, `ReverseStep`,
`ResumeStep`, `SetReturns` are `set()`; `Reset` is `reset()`. The refinement
mapping reads the lists off the pointers: `Waiting` follows `state_`,
`Released(s)` what call `s` still holds, also in the middle of a reversal.

**`WhenAll`** (`async/when_all.hpp`, `async/sync_wait.hpp`). `count_` and
`awaiting_co_` are the latch, `set_` the event of `sync_wait`, `tpc`, `apc`,
`mpc` the positions of tasks, awaiting coroutine and calling thread.

**`Timer`** (`net/timer.{cc,h}`). `pending` is the multimap in its order,
`armed`/`readable` the timerfd, `resetting` the gap between a change of the map
and `resetArriveTime()`, in which the clock may advance. `Poll` and `RunTask`
stand for the reactor.

**`Reactor`** (`net/reactor.{cc,h}`). The queues, registrations and flags are
the members; `epoll` is the kernel's table; `lpc`/`i` are the loop thread's
position and index, `opc` the other threads'. The loop is `Enter`, `ClearStop`,
`While`, `Exec`, `TaskReturns`, `Clear`, `Poll` or `PollFails`, `Apply`; `Own...`
are calls from the loop thread itself. `Close` is an owner that closes a
registered fd without `delEvent`, as `~TcpClient` does; `stale` remembers such
fds. `fds_.erase(end())` is undefined: the model lets it take the last element
away or end the process (`Crash`).

**`TcpBuffer`** (`net/tcp_buffer.cc`) is a set of operators on a buffer;
**`BufferQueue`** drives it with writes, reads and clears and numbers the bytes,
so that their order can be stated.

**`TcpConnection`** (`net/tcp_connection.cc`, `read_hook` and `write_hook` of
`net/coroutine_hook.cc`) composes two `TcpBuffer`s with the connection's
coroutine, the reactor that resumes it (`Poll`, `due`), a peer that sends,
closes or resets, and the time wheel's `ShutdownConnection` at any yield. The
callbacks of the application read all there is and write an answer. `sent`,
`got` and `lost` are history. The process may die: SIGPIPE and the exception of
a buffer with a negative length are `pc = "killed"`, indexing before a vector
is `pc = "undefined"`.

**`TcpServer`** (`net/tcp_server.cc`, `net/io_thread.cc`,
`net/tcp_conn_timer.cc`, `net/fd_event.cc`, `accept_hook`, and the parts of
`net/tcp_connection.cc` and `common/coroutine/coroutine.cc` they call), with
**`CoroutinePool`** (`common/coroutine/coroutine_pool.cc`), operators on a pool.
One accept coroutine (`mpc`), several io threads (`iopc`), each with its task
queue, `clients_`, wheel, pool, coroutines (`cofunc`) and epoll set; the
`FdEvent`s (`fds_`, `listening`), `m_peer_addr` (`peer`) and fd numbers (`opened`)
are shared. `Start`, `AcceptHook`, `AcceptFails`, `AcceptAgain` are the accept
coroutine; `AddTask` is its push to the reactor of an io thread, which may drop
the task (`dropped` remembers the client; its fd stays open for ever);
`IOMain`, `AddClient`, `RunCoroutine`, `GrowFds`, `LoopFunc`,
`MainLoopTimerFunc` an io thread; `Input` and `EndOfStream` what a served
connection does, whose bytes are `TcpConnection`'s subject. `GrowFds` is a step
apart from the copy it grows, because another thread may grow its own copy in
between; `raced` remembers that. Where the code leaves what C++ defines (an
uninitialised `reactor_`, a coroutine resumed after its end, an index past the
container, an empty callback), `mpc` is "dead" and nothing more is claimed.

**`TcpClient`** (`net/tcp_client.cc`, `connect_hook`, `sleep_hook`): a coroutine
that calls `sendAndRecv()` and sleeps, the network, and the reactor of its
thread. `due` holds the callbacks of a round; `timer` every Timer made, because
`Reactor::getTimer()` makes a new one at each call; `mine` is the one whose
frame is live. A Timer whose event's time has come before `resetArriveTime()`
looks at the clock is left unarmed, and never expires. A time-out that runs on a frame that is gone is `pc = "smashed"`,
a resumed coroutine that had ended `pc = "nowhere"`.

**`Codec`** (`protocol/archive.hpp`, `factory.hpp`, `rpc.hpp`, `schema.hpp`):
byte swaps, encoding and decoding as operators on tuples of bytes, and an
exchange (`Send`, `Cut`, `Serve`, `Receive`) between two hosts.

**`Digits`** (`common/string.hpp`): `itoa`, `ptrtoa` and the stages of
`dtoa_grisu2` as functions, and for each what a reference definition says.
**`LogStream`** (`common/log.hpp`): the buffer of a thread per level, messages
under construction (they nest), `Construct`, `Stream`, `Destruct`.

The MC modules instantiate these for TLC. `MCBytes` puts the layers that handle
bytes (`BufferQueue`, `Codec`, `Digits`, `LogStream`) side by side, one at a
time. `MCAsync` is one program with both means of synchronisation: a thread
makes a `sync_wait(when_all(...))`, and when that is over coroutines use an
event for ever; the two share no state. The theorems are in `AsyncProofs`
(`ThreadPool` and `WhenAll`), `ReactorProofs`, `TcpConnectionProofs`
(`BufferQueue`, `TcpConnection` and `Codec`: what happens to bytes),
`TcpClientProofs` and `TcpServerProofs`; the last rests on the lemmas of
`TcpServerInvariant`, `TcpServerAddClient` and `TcpServerCoroutines`. `WhenAll`
is extended together with `ThreadPool`, hence the longer names of its `wvars`,
`WhenAllInit`, `WhenAllNext` and so on.

## 4. Runs

Passing:

| run | checks | shows |
|---|---|---|
| `thread_pool` | `TypeOK`, `ExclusiveResume`, `SizeAccounting`, `NoLostWakeup`, `DrainBeforeExit`, `QueuedIsResumed`, `ShutdownReturns` | whatever is interleaved, no coroutine is resumed twice for one suspension, `size_` is exact, no wake-up is lost, a stop drains the queue; queued handles are resumed and `shutdown()` returns once submissions stop |
| `async` | `ResumedAfterAll`, `ResumedOnce`, `ReturnsAfterAll`, `SyncWaitReturns`; `KeepsPromise` | the latch resumes the awaiter once, after all tasks; `sync_wait` returns then and not before; the pointer protocol of the event implements `AsyncEvent`, its liveness included: who suspends is in one list, once, and resumed from it |
| `timer` | `ArmedForEarliest`, `Conserved` | the timerfd never sleeps past the head; no event is lost or doubled, and the map and the due times agree |
| `reactor` | `RunsOnce`, `NoSleepOnWork`, `MirrorsEpoll`, `RequestsTakenUp` | tasks run at most once, the loop does not sleep on a task or a stop, registrations mirror the kernel but for fds closed while registered, requests are taken up |
| `connection` | `InOrderUnlessRefused`, `ClosedIsLeft`, `Ends` | apart from refused and failed calls bytes pass in order; a closed fd is not used and a finished coroutine not resumed; a shutdown closes the connection and ends its coroutine unless the process dies |
| `server` | `AcceptStillValid`, `WaitingIsRegistered`, `OneUser`, `ShutWhenIdle`, `ServedThenFreed` | an fd that comes back is never taken for one in use, and a connection's address is its own or a later client's; a waiting connection is registered unless two threads grew the container from one copy; a coroutine has one user until its pool grows; the wheel shuts down exactly the idle; clients are served, though `accept()` may fail for them many times, unless the reactor drops their task, and closed connections are freed |
| `client` | `TypeOK`, `ConnectedIsEstablished`, `NoTimeoutAfterReturn`, `SleepsUndisturbed`, `ReplyOrClosed`, `WaitsEnd` | bytes go only over an established connection; a time-out does not outlive its `connect_hook` unless both happen in one round; success means a reply or a closed connection; waits end though the network is silent, if their timerfd was set |
| `bytes` | `IndicesOK`, `Queue`; `ExchangeKept`, `CutIsNoticed`; `TextReadsBack`, `ReadyForDigitGen`, `ShortestAndNearest`; `LineIsWhole` | the buffer is a queue; what one host sends another reads, behind the defaults of its request and apart from signed shorts with a high bit, and a cut stream throws; numbers read back, with the fewest digits (but for a number at the very end of the interval) and the closest of those; log lines stay in their buffer, hold their own bytes and end |

The type invariants of the modules are checked too: by themselves where a theorem
states them, elsewhere as a conjunct of `KeepsPromise`, `Conserved`,
`MirrorsEpoll`, `InOrderUnlessRefused` and `OneUser`; that of `WhenAll` is a part
of the proved invariant.

Violated, each a disagreement between the code and what it says of itself:

| run | property | what happens |
|---|---|---|
| `timer_due` | `DueIsHanded` | a cancelled event at the head of the map makes `onTimer()` stop: the events behind it are due and stay (`timer.cc:118`) |
| `reactor_dropped` | `NoTaskDropped` | a task pushed between the loop's last look and `clear()` is destroyed unrun (`reactor.cc:209`) |
| `connection_received` | `ReceivedInOrder` | a read that fills the buffer exactly is refused by `recycleWrite` and its bytes are overwritten by the next read, which the comments call to "continue read" (`tcp_connection.cc:114`) |
| `server_start` | `StartResumes` | `start()` on a thread that never asked for its current coroutine resumes nothing: the server listens and accepts nobody (`coroutine.cc:153`) |

`InOrderUnlessRefused` says what holds apart from such refused calls. Further
behaviour that a reader may not expect is in the models without a run of its own:

* A write callback that resumes the coroutine inside `read_hook` makes EAGAIN
  pass for the end of the stream (`coroutine_hook.cc:92`), and the connection is
  closed and logged as closed "because of peer close" (`tcp_connection.cc:123`)
  although the peer did nothing.
* `itoa` writes nothing for zero (`string.hpp:64`), where `common_test.cc:38-46`
  compares it with `snprintf`, over numbers drawn from a range that includes
  zero; for the least number of a signed type the magnitude is undefined
  (`string.hpp:61`). `TextReadsBack` claims the value of neither.
* A pointer is formatted when more than `sizeof(ptr)` bytes are left
  (`log.hpp:191`) and has twice as many digits: near the end of a line its high
  digits are lost. `TextReadsBack` says which are kept.
* A wait whose time has come before the timerfd is set, such as `sleep_hook(0)`,
  is ended only by another event (`timer.cc:77-92`); `WaitsEnd` exempts it.
* `~TcpClient` leaves its fd in `fds_` and READ in the events of its FdEvent:
  when the number comes back, its registration is skipped as already made, or
  is a MOD that fails. `MirrorsEpoll` says that these are the only fds on which
  `fds_` and the kernel disagree.

## 5. Bounds

* `thread_pool`: two workers, one client, three coroutines; ranges of up to two
  handles and one null. Enough for a range that outnumbers the one
  notification, a coroutine that yields while a second worker is idle, and
  submitters that race (coroutines submit too). No symmetry, because the run
  checks liveness.
* `async`: four tasks: one finished inline, one elsewhere, one last, one not
  started; three awaiters (a list worth reversing, with a middle) and two calls
  of `set()`, so that an address comes back while another call holds a list.
* `timer`: three events of intervals 1 and 2, one repeated, `MaxTime` 7, long
  enough for the repeated one to be taken three times.
* `reactor`: two tasks, one fd that listens to both events, one other thread;
  the loop may be left and entered again, and the fd closed at any time. A
  deletion queue holds an fd once at a time.
* `bytes`, buffer: size 4, lengths 1, 2, 3 and 5, 14 bytes (`MaxWritten`), which
  grows the buffer several times and compacts it on both sides of a third.
* `connection`: buffers of 3 bytes instead of 128, 5 bytes in (`MaxIn`), 5 bytes
  of answers (`MaxOut`), 6 accepted by the kernel (`MaxSent`): a buffer is
  exactly filled, doubled, and emptied.
* `server`: one io thread with three clients, or two with two (one client less
  for each thread more); fds 4 to 6 over a container of 4 FdEvents (128 in the
  code), so that the first client makes it grow and two threads may grow it at
  once; pools of 2 coroutines (100), so that the second client makes one grow; 2
  buckets, as in the code. The third client comes after an fd was reused.
* `client`: two calls of three tries (`max_retry_`), two sleeps: a second call
  meets what the first left behind, and a sleep lies before, between or behind.
* `bytes`, codec: one or two fields of every kind of type, chunks of 2 bytes
  (4096 in the code) for strings of 5, so that a string takes full chunks and a
  rest, both byte orders on both sides, cuts at every byte. Numbers: 8 bits stand
  for the 32 or 64 of an integer and the 64 of a pointer (`PtrSize` is 1, and a
  pointer has two digits), every value and every buffer size; DiyFp significands 6 bits with every
  pair of factors, doubles of 2 bits with every exponent up to 6; `DigitGen`
  8-bit upper bounds with a table of 2 powers, so that reads past its end
  happen, which give numbers too small, right or too large; the exponents of the cached powers are at full width, for every
  exponent a double has. Log: a buffer of 13 bytes, which a header and two
  operands fill, two levels, two messages, nested or not.

Deadlock checking is off where the system stops by design or at a bound: the
clock at `MaxTime`, a connection or a client that is done, an exchange that is
over.

## 6. Fairness

* Thread pool: every thread that can take a step of the pool's code does (weak
  fairness of the scheduler and of the mutex). A coroutine body ends its run in
  the end; this is strong fairness because its calls into the pool interrupt it.
  Nobody has to submit or to shut down.
* Event: a call inside `set()` goes on. Nobody has to call it.
* when_all: threads run and the tasks finish; that is the premise of waiting.
* Timer: time passes to its bound and the loop thread runs. `timer_due` uses the
  case kindest to the code, `PromptSpec`: operations take no time.
* Reactor: the loop thread runs and its tasks return; `epoll_wait` has a
  time-out of ten seconds, so it returns; it is not interrupted by a signal
  every time (strong fairness of `PollAny`); a thread past its push reaches
  `wakeup()`.
* Connection: the reactor polls and the resumed coroutine runs. The peer has to
  do nothing.
* Server: the accepting thread and the io threads run, and the timer of the sweep
  fires (a repeated event of ten seconds). `accept()` may fail although a client
  waits, for want of fds or memory, but not every time (strong fairness of
  `AcceptHook`): this is asked of the kernel and of the rest of the process, not
  of the server, which only has to try again. Clients, peers and the time wheel
  have to do nothing.
* Client: time passes, and the thread runs, be it in its reactor or its
  coroutine. The network and the peer have to do nothing; nor has `output()` to
  end, whose loop the kernel may keep going.

## 7. Proofs

Checked by TLAPS for every value of the constants that the named assumptions
allow.

* **`AsyncProofs`**, thread pool (disjoint workers and clients, a null handle
  that is no handle, natural bounds; any number of threads and coroutines):
  * `TypeCorrect`: `TypeOK`. Inductive with `RunHasTask`: a thread inside a
    coroutine body has a coroutine, without which `ScheduleSize` would queue a
    null handle.
  * `Exclusive`: `ExclusiveResume`, inductive relative to the types. A handle
    enters a batch only from a coroutine that is parked or that the submitting
    thread itself runs, hence is nowhere else; `Push` moves it, `Pop` takes it
    out. The lemmas on `Elems` and `Distinct` say what concatenation and `Tail`
    do to it.
  * `WakeupKept`: `NoLostWakeup`, inductive relative to the types: a worker goes
    to sleep only over an empty queue, and whoever fills the queue is about to
    notify; a notified worker is awake in the loop.
  * `DrainsBeforeExit`: `DrainBeforeExit`, with the strengthening
    `StopFollowsShutdown`: no stop is requested and no worker gone before
    `shutdown_` is set, so whatever is pushed after an exit is late.
  * `SizeExact`: `SizeAccounting`. `size_` is changed outside the lock that
    guards the queue, by every thread at its own time. `Counted` adds that a
    thread has handles or nulls on its way only between counting and pushing
    (`Submitting`), and that what is on its way is finite although the set of
    threads need not be. Each handle on its way is a cell of `InFlight`; a step
    of one thread changes the cells of that thread only, so the library's
    theorems on cardinalities give the sum after it.
* **`AsyncProofs`**, when_all (a finite set of tasks): `AfterAll`, `Once` and
  `ReturnIsLast`, that is `ResumedAfterAll`, `ResumedOnce`, `ReturnsAfterAll`.
  The invariant `WhenAllInv` adds `LatchExact` (the latch is the number of unfinished
  tasks plus one for an awaiter that has not counted itself), `LastIsLast`,
  `Handle` (the handle is stored before the awaiter counts) and `EventFollows`.
  The three properties are not inductive without the exact latch.
* **`TcpConnectionProofs`**, buffer (any initial size, any set of lengths):
  `BufferIsQueue` (`Queue`) and `IndicesInBounds` (`IndicesOK`). The invariant
  says that the buffer `Holds` the bytes from `gone + 1` on; one lemma per operator
  of `TcpBuffer` says how it changes what a buffer holds.
* **`ReactorProofs`** (finitely many fds, no task is a callback of an fd; any
  number of threads and tasks):
  * `NeverSleepsOnWork`: `NoSleepOnWork`. The invariant `StaysAwake` starts
    earlier: a stop keeps the loop awake from the test of `stop_flag_` on, and
    `looping_`, without which `wakeup()` does nothing, is set wherever the loop
    may still reach `epoll_wait`.
  * `TasksRunOnce`: `RunsOnce`. The invariant `Walked`: no task is queued twice,
    and of the tasks that ran only those before the loop's index are still in
    the queue.
* **`TcpConnectionProofs`**, connection (natural bounds):
  * `ClosedLeftAlone`: `ClosedIsLeft`. The invariant `Alone`: a second callback
    of a round is pending only while `output()` waits, since only it listens to
    both events and it stops listening to "write" before it returns; so
    `input()`, which closes, is resumed by the last callback there is. A shutdown
    in `output()` would break this and does not, because the next write kills the
    process.
  * `InOrder`: `InOrderUnlessRefused`. The invariant `Ordered` says of each
    direction that what was passed on, followed by what its buffer holds, is the
    numbers from 1 on (`Passed`), until a call on that buffer was refused or a
    write failed. The lemmas on the operators of `TcpBuffer` that serve
    `BufferIsQueue` serve here too; `input()` needs them for a read that fills the
    buffer, a resize and a callback in one step.
* **`TcpClientProofs`** (natural bounds; any number of tries, calls and sleeps,
  and any order of the callbacks of a round):
  * `UsesConnection` and `ReplyOrClose`: `ConnectedIsEstablished` and
    `ReplyOrClosed`. The invariant links `state_` to the kernel's socket at each
    place of the coroutine (`Linked`): a Connected connection has a connected
    socket until `clearClient()`, and nothing is returned before the call ends.
  * `NoLateTimeout`: `NoTimeoutAfterReturn`. Not inductive by far: `TimerInv`
    says which Timer can still expire (only that of the running `connect_hook`,
    besides sleeps), that a time-out handed over is `mine` or remembered in
    `late`, and that each Timer occurs at most once in a round. The last needs
    that an order of `Poll` is injective, from the library's theorem on
    surjections between sets of one cardinality.
  * `ClientTypes`: `TypeOK`. The bound on the number of Timers follows from a
    quantity that never grows (`Budget`): Timers made, plus those the tries,
    calls and sleeps left can make.
  * `SleepsKept`: `SleepsUndisturbed`. On top of `TimerInv`: a Timer hands its
    event over once (`HandedOnce`), and until the client is connected the fd is
    registered only while a `connect_hook` waits, its callback comes before the
    time-outs of its round (`OneWaits`), and no sleep but the present one has a
    Timer to come (`OneSleeps`). Afterwards the claim is no longer made: a
    connected fd stays registered, and its callback ends a sleep.
* **`TcpServerProofs`** (positive bounds, a finite set of fds no smaller than the
  set of clients, a pool of more than one coroutine; any number of clients, io
  threads, fds, coroutines and buckets). One invariant, `Inv`, carries all four
  theorems:
  * `AcceptValidAlways`: `AcceptStillValid`. An open fd has one owner from
    `accept` to `close` (`Owned`), a client to be added waits in the queue of its
    own thread, once (`AddQueued`), and clients are accepted in the order of their
    numbers (`Arrivals`), so the address read later is not an earlier client's.
  * `WaitingRegisteredAlways`: `WaitingIsRegistered`. `Events`: until two threads
    have grown the container from one copy, an fd has one FdEvent for ever and
    "read" is in its events exactly while a coroutine reads from the fd.
  * `OneUserAlways`: `OneUser`, types included. `Dispatched`: in a pool that has
    not grown every connection not yet freed has a coroutine of its own with a
    marked slot. `Served` and `RunQueued` tie coroutines, connections and queued
    resumptions together, `Mapped` the map of a thread to its connections, and
    `Growing` keeps what a thread was doing when it began to grow the container.
  * `ShutWhenIdleAlways`: `ShutWhenIdle`. `OnWheel`: a connection that has idled
    for i turns is in the bucket i before the last and in no later one.

  `TcpServerInvariant` states `Inv` and proves it for the steps that shut down or
  free connections, `TcpServerAddClient` for `addClient()`, `TcpServerCoroutines`
  for the coroutines, `TcpServerProofs` for the rest, and puts them together. Three
  facts of arithmetic (the cardinality of an interval, the least member of a set
  of naturals, the pigeonhole principle for fds and clients) are the hypothesis
  `Counting` of these lemmas; `CountingHolds` proves them from the library.
* **`TcpConnectionProofs`**, codec (any bytes; numbers of 1, 2, 4 and 8 bytes, signed, unsigned
  or floating):
  * `NetworkOrder`: a host of either byte order puts the most significant byte
    first, for every type but a signed short.
  * `NumberReadBack`: for those types, what any host writes any host reads back,
    and what follows on the stream is left for the next field.
  * `SignedShortSmears`: a little-endian host keeps a signed short exactly if
    its high bit is clear or its low byte is 255; this is why `ExchangeKept`
    excludes it.

Only model-checked: all liveness (outside the prover's reach); the refinement of
`AsyncEvent` (its lists come from a recursive walk along `next_`);
`MirrorsEpoll`; the two invariants of `Timer` and `LineIsWhole`, which nothing
but effort keeps from a proof; `ExchangeKept`, `CutIsNoticed` and the properties
of `Digits`, because what their recursive functions compute for every input needs
induction over data. The library's induction theorems take an operator as a
parameter, which the provers cannot instantiate; where a least counterexample
is enough, its theorem on minimal elements of well-founded relations (`WFMin`)
takes a set instead and is what `CountingHolds` uses.

## 8. What is not modelled

* `task.hpp` and `task_container.hpp`: a task's `initial_suspend` is
  `suspend_never` (`task.hpp:36`), so the container's cleanup task runs up to
  `co_await schedule()` when it is made and is queued on the pool, and `start()`
  then resumes the same coroutine inline (`task_container.hpp:69`) while holding
  the mutex that coroutine locks (`:151`). The first call leaves what C++
  defines; no test or program of the repository makes it.
* `generator.hpp` has one caller at a time and no state but its frame.
  `io_context.hpp` has no operation that completes: `run()` computes a handle
  from an epoll event and drops it.
* `lab1` is a sequential exercise, one thread and one epoll loop. `net2` holds
  stubs, `macros`, traits and the like nothing at run time. Addresses, clock,
  locks and other wrappers of system calls, and the register switch
  `coctx_swap`, are single steps here.
* Grisu2 as a whole: its stages are checked one by one. Their composition needs
  the table of 64-bit significands, beyond TLC's integers.
* Inside modelled parts: values and exceptions of tasks; the start and stop
  functors of the pool; `shutdown()` from a worker, which would join itself;
  torn reads of a vector that is reallocated while it is walked
  (`reactor.cc:206`); the destructors of `IOThread` and of the reactor;
  `TcpClient::stop()` and `getConnection()`; socket options and binding;
  `FdEvent::handleEvent()`, which nothing calls; overflow of the `int` indices
  of a buffer; wording.
* `TcpServer` has of the reactor the order of the tasks and the loss of one that
  another thread pushes while the queue is cleared; the wake-ups are `Reactor`'s
  subject. Its fds are closed by `clearClient()` only: what a `TcpClient` of the
  same process leaves behind in the shared FdEvents is not in it.
* `TcpConnection` supposes that the callbacks `rcb_` and `wcb_` are set; the
  lines that would set them for a server connection (`io_thread.cc:69`) are
  commented out, and `TcpServer` has both cases (`callbacks`).
  `tcp_connection.h:81` does not compile as it stands; `read()` and `write()` of
  that class are left out.

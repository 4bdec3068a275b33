# Formal models of bco

bco is a C++20 coroutine library: executors run tasks, contexts tie an executor
to proactors, proactors (select, epoll, io_uring, IOCP) turn socket calls into
callbacks, and tasks, channels and awaiters let coroutines wait for all of them.
This directory holds TLA+ models of its executors, channel, proactors, coroutine
awaiters, buffers and addresses, the TLC configurations that check them, and
proofs of their main properties for every value of the constants.

Paths below are relative to the repository (`src/...` is the library's source,
`include/bco/...` its headers).

## 1. Inventory

| Component | State | Operations | Interacts with |
| --- | --- | --- | --- |
| SimpleExecutor (`src/executor/simple_executor.cpp`) | `tasks_`, `delay_tasks_`, `wakeup_`, `started_`, `stoped_`, `thread_` | start, post, post_delay, wake, destructor, loop of its thread | any posting thread; the getter of completions |
| MultithreadExecutor (`src/executor/multithread_executor.cpp`) | global queue, a queue per worker, timers, `thread_ids_` | the same, a main loop, workers that steal | WaitGroup; the getter |
| WaitGroup (`include/bco/utils.h`) | a counter under a mutex | done, wait | MultithreadExecutor |
| Context, Routine (`src/context.cpp`, `include/bco/coroutine/task.h`) | executor, proactors, set of live routines | start, spawn, add/del_routine, get_proactor_tasks | owns an executor and proactors; thread-local current context |
| Task, Func (`include/bco/coroutine/task.h`, `task.inl`) | shared result and caller handle | set_result, await_ready, await_suspend, await_resume, resume | whoever completes it |
| Channel (`include/bco/coroutine/channel.h`) | `ready_values_`, `pending_tasks_`, `mtx_` | send, recv | Task; weak references to contexts |
| Awaiters of cofunc (`src/coroutine/cofunc.cpp`) | a Task<void>, an executor or a delay | switch_to, sleep_for (run_with cannot be instantiated, section 5) | executors; the thread's current context |
| Select (`src/net/proactor/select.cpp`) | pending maps by fd, `completed_task_`, stop event | recv, recvfrom, send, accept, connect, start, stop, do_io, harvest | kernel; the executor of do_io; the executor that harvests |
| Epoll (`src/net/proactor/epoll.cpp`) | `pending_tasks_`, `flying_tasks_` and `completed_task_`, an epoll instance | the same | the same |
| IOCP (`src/net/proactor/iocp.cpp`) | an `OverlapInfo` per request, a completion port, a thread, `completed_tasks_` | recv, recvfrom, send, sendto, accept, connect, start, stop, destructor, harvest | kernel; its own thread; the executor that harvests |
| IOUring (`src/net/proactor/iouring.cpp`) | pending, in-flight and completed requests; rings | the same | the same |
| Event (`src/net/event.cpp`) | a pair of datagram sockets | emit, reset | Select |
| TcpSocket, UdpSocket (`src/net/tcp.cpp`, `udp.cpp`) | fd, proactor | socket calls that return Tasks | a proactor |
| Buffer (`src/buffer.cpp`), byte order (`include/bco/utils.h`) | a list of chunks, the window of a sub-buffer | push_back, insert, operator[], word accessors, data | sockets, `syscall_sendv` |
| Address (`src/net/address.cpp`) | family, port, ip | constructors, setters, to and from `sockaddr_storage`, is_private | sockets |

How they interact: a coroutine on an executor's thread calls a socket; the
socket asks the proactor with a callback that completes a Task; the proactor's
`do_io` is itself a task, posted again and again to an executor; completed
callbacks are harvested by the executor of the context, whose loop runs timers,
posted tasks and completions in turn. Channels hand values to coroutines of
other contexts by spawning a routine in the context where `recv()` was called.

What is hard, and what makes each part correct:

* **SimpleExecutor.** Any thread posts while the loop moves tasks from container
  to container under separate critical sections; the flag `wakeup_` is cleared
  without looking at the queue; the heap of timers is ordered by requested delay.
  Correct if each post leads to exactly one run, in order, no timer runs early,
  nothing waits for ever, and start and destruction return.
* **MultithreadExecutor.** The same promises, except the order, with stealing,
  condition waits without a predicate, an unlocked map of thread ids, and workers
  that are joined after the members they use have been destroyed.
* **WaitGroup.** Correct if wait() returns once every thread has counted down,
  and not before.
* **Context.** Its executor's thread uses its proactors; correct if it never
  does so after they are destroyed and if routines are registered while alive.
* **Task, awaiters.** The completing thread races with the suspending one, and
  what a thread's current executor is depends on who started it; correct if a
  coroutine resumes exactly once per wait, after it has suspended, and finds its
  result.
* **Channel.** Correct if the k-th call gets the k-th value, whoever runs
  where, and receivers that suspend are resumed.
* **Select, Epoll, IOUring, IOCP.** Requests are registered while do_io works on
  a copy, operations run without the lock; correct if each request is completed
  exactly once, with its own data, in order, and stop() ends the loop.
* **Buffer, byte order.** Correct if, however bytes are cut into chunks, what is
  read by index, slice or word is what was written.
* **Address.** Correct if an address given to the kernel names the host and port
  that were meant, and is judged private exactly in the private blocks.

`PROJECT.json` lists the components with their status and every hazard at its
line.

## 2. Modules

| Module | Models |
| --- | --- |
| `ExecutorSpec` | what an executor promises: a task is idle, delayed or ready; it runs once per post and never early; nothing runs once the executor is destroyed |
| `SimpleExecutor` | SimpleExecutor, one action per critical section |
| `SimpleExecutorProofs` | its theorems |
| `MultithreadExecutor` | MultithreadExecutor and its WaitGroup, the same way |
| `MultithreadExecutorProofs` | its theorems |
| `ChannelSpec` | a channel as two counters and what each call was given |
| `Channel` | Channel with the Task and Context parts it uses |
| `ChannelProofs` | its theorems |
| `ProactorSpec` | the life of a request: idle, pending, completed, called, or returned at once; the three proactors implement it |
| `Select` | Select with its clients, the kernel and the harvesting executor |
| `SelectProofs` | its theorems |
| `Epoll` | Epoll, the same way, with what the epoll instance knows |
| `EpollProofs` | its theorems |
| `Iocp` | IOCP with its completion port, its thread and its destructor |
| `RequestProofs` | its theorems, and those of `Buffer` and `Address`, which requests carry |
| `Coroutines` | `switch_to`, `sleep_for` and the Tasks of sockets, with the executors and threads that resume them |
| `CoroutinesProofs` | its theorems |
| `Buffer` | Buffer with the words its templates read, the byte order functions, and the gather of `syscall_sendv` |
| `Address` | Address between the sockets and the kernel |
| `QueueLemmas` | lemmas on queues: without repetition, and one behind another |
| `MCSimpleExecutor`, `MCMultithreadExecutor`, `MCChannel`, `MCSelect`, `MCEpoll`, `MCIocp`, `MCCoroutines`, `MCValues` | values of the constants for TLC; the last one joins `Buffer` and `Address` |

Operators named `X_something` next to a definition `X` are plausible mistakes in
the code `X` models. They are not part of any specification; they exist to
confirm that each property notices one of them.

### SimpleExecutor

`loop` is the program counter of `do_start`: `begin` (startup), `check` (the
test of `stoped_`), `pending`, `timeup`, `harvest` (the three getters), `decide`
(the test that all are empty), `nap` and `wait` (clearing `wakeup_`, `wait_for`),
`run` (the three loops), `exit`. `owner` is the thread that constructs, starts
and destroys the executor. Variables with the code's names are its members; the
three batches and `sleep_for` are locals of `do_start`. Time is relative:
`left[t]` is `run_at - now`, `Tick` decrements it together with the remaining
sleep. `delay[t]` is the heap's key: `Tops` are the elements of longest
*requested* delay, as `PriorityDelayTask::operator<` says, so a due timer can be
hidden by a longer one. `slept` is a history variable: the queued tasks the
thread has gone to sleep over.

Simplifications: `now` is read in the critical section that follows it; `stoped_`
is a plain bool read without a lock, modelled as an atomic one; priorities are
ignored, as by the code; `set_context` and `set_proactor_task_getter` precede
`start`. A task is a member of a finite set and is posted again only when no
container holds it.

### MultithreadExecutor

`main` is the program counter of `main_loop`: `begin` (counting `wg_` down),
`check` (the test of `stoped_`), `timeup`, `harvest` (the two getters), `decide`,
`sleep`, `dispatch` (one task of `batch`, timers before completions, to a random
worker), `exit`. `pc[w]` is that of a worker: `begin`, `notify` (the two halves of
`WaitGroup::done`), `check`, `own`, `global`, `steal` (the three places it takes a
task from, `victims[w]` being the workers it has still to visit), `run`, `ask`
(about to notify the main loop), `sleep`, `exit`. `owner` constructs, starts and
destroys the executor; `start` creates a worker's thread and then enters it into
`thread_ids_` (`spawned`, `registered`), so that a `post` from a task on a worker
may not find its entry yet.

No `wait_for` here has a predicate. It may return by notification, timeout or
spuriously, hence at any time: `sleep` is left by a step of the sleeper, whatever
the notifications, and no property rests on one. What the timeout adds is
fairness.

The destructor joins the main loop only. `mutex_`, `cv_`, `thread_ids_`,
`global_tasks_` and `wg_` are destroyed next, and `~Worker` joins the workers
last. A worker that uses one of them meanwhile, that steals from a worker
already joined, or whose task posts, sets `broken` (`UseDestroyed`). Nothing is
said about an execution after that. `missed`, `late` and `calm` are history
variables.

Simplifications: any order of victims stands for the shared, unlocked
`random_engine_`; `now` is read in the critical section that follows; a task is
posted again only after its body has returned (a second post from its own body
counts as another task), so that `Running` and the queues are disjoint.

### Channel

A `send()` takes several steps because it holds `mtx_` while it locks the weak
reference to the receiver's context, spawns the resumption and drops the
reference, which may run the context's destructor. A receiver goes through
`recv()` under the lock and then, without it, `await_ready` and `await_suspend`.
`on[p]` says what a thread is inside of, `runq[c]` holds the routines spawned in
a context. `crash` records a resumption of a null handle and a join of a thread
by itself. `std::optional` written by the sender and read by `await_ready`
without synchronisation is modelled as an atomic read. `NoCtx` is a thread
without current context: `recv()` stores an empty weak reference there (all
workers of a MultithreadExecutor are in that case), and nobody resumes it.
`NoNullResume` is what one shared context guarantees; it is proved, from
`OneContext`, and not run.

### Select

A slot `<<"r", fd>>` or `<<"w", fd>>` is an entry of `pending_rfds_` or
`pending_wfds_`. `do_io` is `get_pending_io` (copy under the lock), `Poll`
(`::select` and the tests after it), then for each ready slot `Operate` (the
system call, without the lock) and `Store` (erase by fd and queue the callback,
under it), then `Repost`. `sock[fd]` numbers the sockets an fd has denoted, so
that closing and reuse can be told apart. `overlapped` is a history variable: the
requests a newer one replaced in the map, and those registered for a slot (`Live`)
whose older request do_io was working on, which `Store` erases in its stead. The
code loses them, so that `NothingLost`, `EraseOwn` and `Answered` are about every
other request; none of them restricts what clients do. `timeout_` is no variable: the
five microseconds of `start(unique_ptr)` are overwritten with zero by the
`start(ExecutorInterface*)` it calls, so `::select` never waits and do_io is
always posted with a delay.
A request gets a number when it is submitted; `returned` are those answered by
the return value of the call (`send_sync`, or a `connect` that fails).

Not in the model: `EINTR`, the synchronous UDP calls (no state), `Select::wake`
with `wakeup_event_` and `polling_` (no caller), and the sockets behind Event.

### Epoll

An `EpollTask` is a record of its action flags, the events it asks for, and its
read and write item, each by request number. `pending_tasks_`, do_io's local
`tasks` and `flying_tasks_` map every fd to one (`NoTask`: no entry). `Extend`
is what recv, recvfrom and send do to a pending task, `Replace` what accept and
connect do. `do_io` is `get_pending_tasks`, `Poll` (`submit_tasks`, `epoll_ctl`
and `epoll_wait`), then for each fd with events `Skip` or `Perform` (the branch
of `on_io_event`, without the lock) and `Store` (end of the interest and callback,
under it), then `Repost`. `added` and `interest` are what the epoll instance
knows: it forgets a closed fd, and the proactor does not learn of it.

The code is modelled with all it does to requests: `Asked` gives `epoll_ctl` the
events of the newest task alone, `Flags` turns an accept into a recv when the fd
is already in flight, `Chosen` picks the operation by flags that are never
cleared, `Skip` leaves out an fd without a read item. `NoCallback` names the
requests whose callback, by the time it runs, is an empty `std::function`. One is
every accept: `accept` stores its callback as `cb2` (`epoll.cpp:112`), `do_accept`
binds `cb` (`epoll.cpp:313`). The other is a recvfrom completed through `cb`,
after a recv on the same socket. Calling it throws, `crashed` is the request, and no
executor catches. `stop()` is no action, as it changes nothing: it writes four
bytes to an eventfd, which takes eight. The descriptor that stop and `wake` use
is therefore left out, and so are the synchronous UDP calls, which keep no state.

With this proactor, therefore, no accept is ever answered. `Answered` says so: its
last conjunct is that no `Unheard` request (the two kinds above) is ever called, and
its first excuses an unanswered read only by a crash of its own if it is `Unheard`,
or by one of another's.

### Iocp

`overlaps` is the set of requests whose `OverlapInfo` is allocated, `inkernel`
those the kernel works on, `port` the packets on the completion port, the exit
packet of `stop()` among them. `Transfer`, `Connection` and `Immediate` are the
calls, by what they do with the `OverlapInfo` when they fail. `Take` and
`handle_overlap_success` are the two halves of `iocp_loop`; a packet of a failed
operation is dropped, as the code's TODO says. `life` follows the destructor,
which joins the thread. A wait that times out has no effect: `bytes` and
`completion_key` are then uninitialised, but only the exit packet ever carries
`kExitKey` (sockets are associated with key 0), so that they would have to hold
that 32-bit pattern by accident to end the loop.

### Coroutines

Each `co_await` is a wait with a number. `await_ready` and `await_suspend` are
steps of the coroutine on its thread; `jobs[e]` are the closures posted to an
executor, and any free thread of it takes any of them. `switch_to` posts the
resumption to the executor it names, `sleep_for` to the current executor of the
thread. A socket's Task is made by `Call`, which submits the request, and awaited
by `Await`, which may come later (`kept`, `late`). A resumption of a null handle
or of a coroutine that is not suspended in that wait, and a call through a null
executor, end the execution (`crash`). `req[k] = "answered"` is a request that
the call answered without its callback, as `TcpSocket::send` does when
`send_sync` succeeds.

`get_current_executor()` reads a thread-local that only
`SimpleExecutor::do_start` sets (`src/executor/simple_executor.cpp:49`). `Known` are
the executors whose thread has done so. On a thread of a MultithreadExecutor it
returns null (`src/utils.cpp:19`), and `sleep_for` dereferences it
(`src/coroutine/cofunc.cpp:28`): a coroutine that has switched to a
MultithreadExecutor cannot sleep there, but it can switch away and use sockets.
`home[k]` is `Null` on such a thread, and `SafeAtHome` names this crash among
those that are the code's; `Resumes` ends with any crash.

Two things are the model's own: contexts outlive their coroutines (the pointer in
the thread-local never dangles), and a coroutine keeps one Task at a time.

### Buffer and Address

`buffer_` is the list of chunks, `text` the one array it stands for: the bytes the
callers have given. A buffer is made of nothing, of a size, of a vector
(`Contents`) or of a span (`Spans`), which the code gets wrong (section 6): in the
passing run `Spans` is empty, and in the theorems it is a condition. Sub-buffers
share the list and are windows over it, so that `data(start, end)` and
`SubbufAt(start, end, index)`, the `operator[]` that throws, are operators;
`subbuf` of a sub-buffer counts from the start of the list, as in the code, and the
word accessors of a sub-buffer are those of the list at `start + index`,
unchecked. `Slice` keeps the code's five cases with their unsigned subtraction;
where it goes beyond a chunk, `Memory` yields bytes that are not the buffer's
(`Wild`). `Place` is the shift of a promoted byte, with both outcomes of a shift
beyond the width, `Or` the `|` of such terms, bit by bit.

`Reads` is about the windows that are `Clean` and the words that are `Narrow`. All
that the code gets wrong is among the others, where the property would not
notice one more mistake. They include ordinary calls: `subbuf(0, n)` of a buffer of one
chunk longer than n is not `Clean`, because a chunk that begins where the window
does is given whole. The echo server of the example (`examples/main.cpp:62`)
therefore sends its whole buffer back, not the bytes it received.

An address is a family, the two bytes of a port and sixteen bytes of ip. `Travel`
is `to_storage` on one machine and `from_storage` on the next. Ports go out
through `htons` and come in without `ntohs`: `hops` counts how often the port was
read from a sockaddr since it was set. `Delivered` is about what is meant and kept:
the ip, and the port of an address that was never read from a sockaddr, or read
twice. `PortKept`, the port of any address, is violated (section 6). `Delivered`
is also about addresses whose family is that of their ip, which leaves out
`Address(sockaddr_in6)`, as it says `AF_INET` (`address.cpp:74`), and `set_ip`
with the other kind of ip. The private blocks are those of the code's masks; the
comment over `is_shared_network` (`address.cpp:159`) says 100.64.xx.xx where the
code has 100.64/10.

## 3. Runs

| Run | Instance | Shows |
| --- | --- | --- |
| `simple` | 3 tasks (one a do_io), delays 1 and 2, fair | `NoDuplicates`, `OneNap`, `PostEndsSleep`, `PostOrder`, `ImplementsExecutor`, `Progress` |
| `simple_startup` | 2 tasks | finds the assertion of do_io violated (section 6) |
| `multi_safety` | 2 workers, 2 tasks, delays 1 and 2, symmetric | `NoDuplicates`, `NoWorkMissed`, `StartAwaitsAll`, `OneMoreTask`, `CalmIsSafe`, `ImplementsExecutor` |
| `multi_liveness` | 2 workers, 1 task, delays 1 and 2, fair | `Progress` |
| `channel_apart` | 3 receivers in two contexts and outside, senders in one context and outside, both contexts may be released, 3 sends, 3 calls, fair | `MatchInOrder`, `SpuriousOnlyLate`, `ResumeOnTheWay`, `ImplementsChannel`, `PairMeets` |
| `select` | 1 fd, 2 requests that may overlap, 2 chunks, a close and a reuse, do_io and callbacks on one executor, fair | `AtMostOnce`, `NothingLost`, `EraseOwn`, `ChunksInOrder`, `ImplementsProactor`, `Answered` |
| `epoll` | 1 fd of any of the three sorts, 3 requests, 1 chunk, closes, reuse, resets, fair | `InFlight`, `OwnOperation`, `ImplementsProactor`, `Answered` |
| `iocp` | 3 requests, fair | `LiveOverlaps`, `DrainsBeforeExit`, `ImplementsProactor`, `Answered` |
| `coroutines` | 1 coroutine, the SimpleExecutor of a context and a MultithreadExecutor of two threads, 3 waits, fair | `NoStray`, `SafeAtHome`, `FindsResult`, `Resumes` |
| `values` | buffers of up to 4 bytes (or 8, made at once) in 4 chunks, words of 2, 4 and 8 bytes, the edges of the private blocks, 2 hops | `SameBytes`, `Reads`, `Delivered` |
| `buffer_span` | the same, with buffers made of spans | finds `SameBytes` violated (section 6) |
| `address_port` | as `values` | finds `PortKept` violated (section 6) |

`Progress` and `Answered` are conjunctions of everything a component owes; their
parts have names and comments of their own in the modules.

Why the bounds are enough to meet the interesting cases. Three tasks are one
running, one queued behind it and one delayed, which is what order, heap
inversion and a lost wake-up need; with delays 1 and 2 a due timer lies below one
that is not, and a sleep of two ticks can be interrupted in the middle. With
several workers two tasks are enough for a queue that is not empty while another
task runs, for a thief at the queue its owner is about to pop, and for a task
that is posted behind a searching worker's back; two workers are joined at
different times. For more of either the properties of `multi_safety` are proved;
one task, which the two workers can pass between all queues, is what
`multi_liveness` has: no timer is hidden by another there and no worker kept from
the global queue by its own, which `Progress` excludes by its conditions.
Three values and calls per channel give overtaking and a receiver
that is matched again, three receivers in three places give every pair of home
and sender. Two requests on one fd are what the maps and the copy of Select
can hold of a slot (an older one in the copy, a newer one in the map), or a read
and a write; three in Epoll, with its three maps, give a request replaced twice
and a flag left by the first that misleads the third; two chunks are needed for an
order; one close and one reuse per fd are bounded by `sock` in 0..2. `select` runs
do_io and the callbacks on one executor, which has both kinds of `send`; the
theorems cover two executors too. Fds
share the queue of callbacks and, in Select, the failure of `::select` on a
closed one; for more than one of them what holds is proved (section 4), except
liveness. Three packets
surround the exit packet of IOCP on both sides. One coroutine with three waits
has a wait whose jobs outlive it and a later one they could disturb, and a
multi-threaded executor of two threads gives the one that suspends and the one
that resumes, while the executor of one thread is the only one that can let a
coroutine sleep; coroutines share no state but threads. The buffers' chunks have
every length from 0 to 4, and each index and window over them is tried.

Deadlock is checked except in `channel_apart`, where the code can really
deadlock (`send()` joins with `mtx_` held the thread of a context whose receiver
waits for `mtx_`), and in `values`, where a sequence of calls ends at the bounds.
In the others, quiet states are steps of their own (`Ended`, `Quiet`, the last
disjuncts of `Next`), or an executor goes round.

Fairness. `SimpleExecutor`: its thread takes the steps it can take, time passes,
and `start` and the destructor go on once called; nobody has to post or stop.
Its part about timers is conditional on no new delayed tasks, because an endless
supply of longer delays does hide a due timer for ever. `MultithreadExecutor`:
the same, for each worker; weak fairness of a worker that sleeps is its timeout
of two milliseconds, of the main loop that of at most the next delay. Its part
about the global queue is conditional on no new entries in the workers' queues,
because workers whose tasks keep posting never look at the global queue.
`Channel`: an operation begun goes on, executors run what is spawned; nobody has
to send or receive. `Select`: do_io, once posted, runs, and the executor runs
each completion; both are what the executors' `Progress` establishes. The second
is strong because a shared executor enters do_io again and again between
harvests. `Epoll`: do_io and the callbacks go on, until an exception ends an
executor. `Iocp`: the loop's thread and the executor go on; no operation has to
end. `Coroutines`: threads run the jobs posted to their executor and coroutines
their code; no request has to end. Peers and clients owe nothing anywhere.

What the conditions of `Answered` in `Epoll` say of the code: a read is only sure
to be performed if the socket stays writable, since a send in flight hides it from
epoll until it is done; a write only if the fd has been read from; neither on
a socket in error, after `on_io_event` returns at once; and an accept that is
performed is not answered. In `Select`, a request is not answered once any
socket has been closed (`::select` may then fail for ever with EBADF), after
`stop()`, or if it is `overlapped`.

## 4. Proofs

All theorems are about the specifications that TLC checks, for every value of
the constants that meets the named assumptions: `ConstantsAssumption` (finitely
many tasks, natural delays); `ExecutorAssumption` (the same, and 1 to 1000
workers, to which the constructor clamps them); `ChannelAssumption` (contexts,
receivers and markers are distinct); `SelectAssumption`, `EpollAssumption`,
`IocpAssumption` (fds and bounds are natural numbers, sorts are known);
`CoroutinesAssumption` (each thread runs the jobs of an executor, and an executor
of `Known` has one thread, as SimpleExecutor does); `BufferAssumption` and
`AddressAssumption` (contents, spans, ips and ports are bytes).

* **SimpleExecutor.** The inductive invariant `IInv` adds to `TypeOK` and
  `NoDuplicates` the control facts `Control` (which locals are live at which
  point of the loop: without them a batch could be overwritten) and `Naps` (what
  the thread has slept over is still queued, and is empty between draining the
  queue and sleeping). From it follow `TypeCorrect`, `OnePlaceEach`,
  `LostWakeupOnce`, `PostWakes`, `PostedInOrder` (an action property) and
  `Implementation`. Two theorems are about the first finding of section 6: with
  `Assigned` (before `thread_` is assigned the owner is in `start()` or has not
  called it), `WrongOnlyInStart` says that the assertion of do_io can fail only
  while `start()` runs; `IoAfterStartIsSafe`, that it never does if do_io is
  posted once `thread_` is assigned. Its hypothesis, `IoAfterStart`, is what a
  changed `Select::start` would have to see to.
* **MultithreadExecutor.** The executor's containers are a set of `Places`, and
  the heart of `NoDuplicates` is that they are pairwise disjoint; `MoveApart`
  shows it once for every step that moves tasks. `IInv` adds `Control` (which
  locals are live and which threads exist), `WaitGroupCounts` (`size_` is the
  number of threads that have not counted down), `Search` (what a worker has
  still to find is in the queues it has still to visit: `NoWorkMissed` is not
  inductive without it) and `Ending` (where workers can be once `stoped_` is
  set). From it follow `TypeCorrect`, `OnePlaceEach`, `NoSleepOverWork`,
  `StartWaits`, `OneMoreTaskEach`, `CalmDestruction` and `Implementation`.
* **Channel.** `IInv` says that one of the two queues is empty and each holds
  the consecutive numbers between the two counters, that each receiver's state
  fits its call, and what the holder of the mutex has matched. From it follow
  `TypeCorrect`, `InOrder` and `Implementation`. A second invariant,
  `Resumptions`, follows each call from its match to its resumption: it is
  spawned once, where `recv()` was called, and until then is in a run queue or
  with the sender (`OnTheWay`, which extends `ResumeOnTheWay` back to
  `await_ready`: without that it is not inductive). It gives `ResumedOnTheWay`
  and `OnlyLate`. A third, `Suspended`, holds when everybody shares one context
  (`OneContext`), because then no send can come between `recv()` and
  `await_suspend`; it gives `NoNullResumeOnOneContext`. `PairsInHand` is the
  safety core of `PairMeets`: a value or a call without a partner is in its
  deque, and a pair was yielded, or its receiver is about to look for it or to
  be resumed for it as long as its context lives.
* **Select.** `IInv` says that what the maps hold, and what is left to do of
  do_io's copy, are open requests, each of its own slot, and counts for each
  request the queue it is in. It needs no restriction on clients: requests may
  overlap and fds be reused. From it follow `TypeCorrect`, `CompletedOnce` and
  `Implementation`. A second invariant, `Kept`, says that the map holds every open
  request that is not `overlapped`, and that what do_io has in hand is still in
  the map unless the one there is `overlapped`; `NoneLost` and `ErasesOwn` need it.
  `DataInOrder`:
  of two reads of one socket the one called first was given the earlier data.
  This is not inductive, because it speaks of callbacks that have run only:
  `OInv` follows the data from the kernel through do_io and both queues of
  callbacks, and says that what stands in a later place is younger.
* **Epoll.** `Maps` says that the three tasks of an fd wait for open requests and
  that those in flight are older than those being submitted, and these older than
  those pending, so that none is waited for twice; `AllFresh`, `Asks` and
  `Handling` tie the events of a task, the interest of epoll and the events being
  handled together; `QueuedOnce` is about the callbacks. They give `TypeCorrect`,
  `NothingInVain` and `Implementation`. A second invariant, `Suits`, traces every
  flag to a request that set it; it gives `CompletedByOwn`. `Heard` says that a
  callback that has run was the one its request had set; it gives `NoAcceptHeard`:
  no callback of an accept ever runs. Another, `KInv`,
  says that do_io's local map is empty when it takes the next one (`Taken`), and
  that epoll knows each fd in flight whose socket is open (`Told`: without it a
  result could be dropped). It gives `RequestsKept`, the safety core of
  `Answered`: a request that is not answered, on a socket that was never closed,
  stands with its event in one of the three maps, unless a newer request for the
  same event, or a connect, took its place.
* **Iocp.** `OnePlace` says that a request whose `OverlapInfo` is in use is in
  the kernel, in one packet, or with the loop; `Drains` that what had completed
  before `stop()` is ahead of the exit packet. They give `TypeCorrect`,
  `OverlapsLive`, `Drained` and `Implementation`. `OnlyFailuresDropped` is the
  safety core of `Answered`, as an action property: a request that its call does
  not answer stays with the kernel, the port or the loop until its callback is
  queued, and only the dequeue of its failed packet takes it from there; no
  success is lost, whatever is stopped or destroyed in between.
* **Coroutines.** `Base` is where each wait, coroutine and thread is; `Turns`
  says which jobs a wait can have and that its coroutine stays suspended in it
  while one is due, whence `ResumedOnce`; `AtHome` says where jobs are posted, and
  what the one thread of a SimpleExecutor adds: a socket's callback given to it
  waits until a Task awaited at once has its handle. It gives
  `SafeOnSimpleExecutor`, and with it `ResultsFound`. `RInv` says what is still to
  come for every suspended coroutine, and, so that it is inductive, what became
  of each request and that a Task found without a result has none when
  `await_suspend` looks away. It gives `NobodyIsForgotten`, the safety part of
  `Resumes`: as long as nothing has crashed, a suspended coroutine has a job
  posted to an executor, or a request that has not ended or whose answer was
  dropped by `send_sync`.
* **Buffer.** What `FlattenSeq` computes is shown by induction over the chunks
  (`FlattenAppend`, `FlattenConcat`, `FlattenAround`). `BInv` says that the
  chunks together are the text; `Places` and `Around` say where a chunk stands,
  `StopsIs` and `HoldsIs` at which the loops of `insert` and `operator[]` stop,
  and `SplicedInside` and `OverwrittenInside` that a change inside of one chunk
  is that change of the whole. This gives `OneArray`, under the condition that no
  buffer is made of a span (`Spans = {}`). `BufferRead`, under the same condition,
  has three parts. For slices it follows the pieces that `data()` gives chunk by chunk
  (`ChunkGives`, `WindowGrows`): they are the window, if it is `Clean`, and the
  whole buffer, if it is not larger than `Npos` (2^30, which stands for the
  largest `size_t`; no buffer in memory exceeds that one). For words, a byte is
  the sum of its bits (`BitSum`), the `|` of a byte and zeros is the byte
  (`OrOne`), and so a `Narrow` word is read as it stands, whatever a shift beyond
  the width yields (`ReadNarrow`). For the `operator[]` of a sub-buffer
  `HoldsAll` says which bytes are there (`InvSubbufsRead`).
* **Address.** `AInv` says that the address read back has the ip that was meant,
  as far as its family reads it, and that its port is swapped once for each time
  it was read from a sockaddr; with
  lemmas on how ips compare to the ends of a block (`PrivateV4`, `PrivateV6`) it
  gives `AddressDelivered`.

`QueueLemmas` states what a push and a pop do to the contents of a queue without
repetition. The induction theorems of the library take an operator as a
parameter, which the provers at hand cannot instantiate; `SetInduction` in
`RequestProofs` takes a set instead and is proved from the well-foundedness of
the natural numbers, so that induction over chunks is within reach.

The inductive invariants of all these theorems were model-checked, on the
instances of section 3, before they were proved.

Every invariant and every action property of the passing runs is stated by a
theorem, and so is every refinement. Only model-checked are the liveness properties, as
everything that rests on fairness is out of the prover's reach: `Progress` of
both executors, `Answered` of the three proactors, `PairMeets` and `Resumes`. Of
these, `Answered` of Epoll and Iocp, `PairMeets` and `Resumes` have their safety
core proved, under the names above: what is still to happen is queued or in
somebody's hands, or was given up in the way the theorem names. `NoneLost` says
it of Select, `NoSleepOverWork`, `LostWakeupOnce` and
`PostWakes` of the executors.

## 5. Not modelled, and the plan

* **IOUring.** The unit cannot be compiled: `UringTask` is moved although it
  cannot be, and functions that return a value lack a return. As it reads, its
  first round is undefined: `submit_tasks` extracts the first element of a map
  that is empty (`src/net/proactor/iouring.cpp:282`), and the kernel is given the
  address of a local (`iouring.cpp:324`). There is no program yet to be faithful
  to; once there is, the ring indices with their wrap-around and the submission
  queue at its limit are what to model, as an implementation of `ProactorSpec`.
* **run_with.** None of its forms can be instantiated, so that no program calls
  them: `run_with(executor, f)` returns an `ExecutorTask` as a `DelayTask`
  (`include/bco/coroutine/cofunc.h:131`), `run_with(Timeout, f)` an
  `ExpirableTaskAnyfunc<Callable>` as one of another type (`cofunc.h:143`), and
  the templates of `ExpirableTask` are defined in `cofunc.cpp` without an
  instantiation. `ExecutorTask`, `ExpirableTask` and `ExpirableTaskAnyfunc` are
  used by nothing else, and have no behaviour to be faithful to yet.
* **Func.** Nothing uses it, and its awaitable reads the promise of a frame that
  its final awaiter may have destroyed.
* **Context's registry of routines** (nothing reads it but its size) and
  `get_proactor_tasks`, which concatenates what harvest returns. The order of
  destruction of a context's members is listed as a hazard: nothing guards it, so
  that no property could hold.
* The system call wrappers but the gather of `syscall_sendv`; exception and
  umbrella headers; the retired `context.h.old`; the example and the empty test program; vendored doctest.

The plan from here, in this order: the composition of `SimpleExecutor` and
`Select` through a context (start order, harvest in the loop), so that the
fairness assumed of `Select` becomes a property of the composed run; the life of
a context against its executor's thread and its coroutines; two fds in the
proactors' runs; IOUring and `run_with` once they compile.

## 6. Findings

**do_io off its executor.** `SimpleExecutor::start` starts its thread and then
assigns `thread_` (`src/executor/simple_executor.cpp:38`). The thread does not wait
for the assignment before it runs posted tasks, and `Select::start(unique_ptr)`
(`src/net/proactor/select.cpp:57`) posts `do_io` before it starts the executor.
The assertion `assert(io_executor_->is_current_executor())`
(`src/net/proactor/select.cpp:240`) can therefore fail on the first do_io; in a
release build `Select::send` asks the same question. `simple_startup` shows the
interleaving.

**A buffer made of a span.** `Buffer(const std::span<uint8_t>)` passes the span's
two iterators to the list, `buffer_({ data.begin(), data.end() })`
(`src/buffer.cpp:45`), which makes a vector of each byte: n zeros for a byte of
value n. `push_back` of the same span copies its bytes (`src/buffer.cpp:66`), as does
the constructor from a vector. `buffer_span` shows it in the initial state.

**The swapped port.** `Address(const sockaddr_in&)` (`src/net/address.cpp:66`) and
`from_storage` (`src/net/address.cpp:191`) take the port in network order;
`to_storage` (`src/net/address.cpp:169`) puts it through `htons` once more. The
example's server fills `sin_port` with `::htons(shared_this->listen_port_)`
(`examples/main.cpp:29`), makes its address of that sockaddr (`:32`) and so binds
the swapped port, on a little-endian machine. A peer's address, as `accept` and
`recvfrom` give it, has the same fault when it is given back to the kernel.
`address_port` shows it.

Three more things are the code's own and have no run of their own because other
runs contain them: with Epoll no accept is ever answered (`NoAcceptHeard` proves
it, `epoll` checks it), a send that succeeds at once never resumes the coroutine
that awaits it (`coroutines`), and a coroutine on a MultithreadExecutor cannot
sleep (`SafeAtHome`).

# Models of the network servers

This project verifies the servers of the repository with TLA+: modules that
model them together with the kernel and the clients they depend on, TLC
configurations that check the models on small instances, and proofs, checked by
TLAPS, that the safety properties of all five servers hold for any number of clients,
descriptors and bytes, that the five implement one abstract server, that
`get_Singleton` makes one reactor for any number of threads, and what a loop over a
coroutine prints.

    tlc -workers 2 -config MCReactor_safety.cfg MCReactor     # one run
    tlapm ReactorProofs.tla                                    # one module's proofs

`PROJECT.json` lists the components, the runs, the source lines behind every
definition, and the hazards each property is for.

## The system

Each program but one is a TCP server on port 8888, with one thread, that multiplexes
its clients in its own way. They share no code but the socket wrapper. The last one
tries out coroutines.

| component | source | state | operations |
|---|---|---|---|
| Reactor | `reactor/reactor.hpp` | epoll registrations, `connlist[fd]` (callback, `rbuffer`, `rlen`), the batch `events` | `init`, `run`, `accept_cb`, `receive_cb`, `send_cb`, `set_event` |
| Singleton | `reactor/reactor.hpp`, `get_Singleton` | `singleton`, `init_mutex` | two tests of the pointer around a lock, `new` |
| Proactor | `io_uring/my_io_uring.hpp` | submission and completion ring, `connect_list[fd]` | `init`, `init_socket`, `run` with three kinds of completion, `set_event_accept/recv/send`, `init_connect_item` |
| Single-file io_uring server | `io_uring/c_io_uring.cc` | both rings, one `buffer` for all clients | as above, as functions of `main` |
| Select server | `select_poll/select.cc` | `rfds`, `rset`, `mxfd` | one loop in `main` |
| Poll server | `select_poll/poll.cc` | `fds[1024]`, `mxfd` | one loop in `main` |
| Socket wrapper | `socket/socket.hpp` | `sockfd_` | `Bind`, `Listen`, `Accept`, and `Connect`, which nobody calls |
| Coroutine generator | `coroutine/test.cc` | coroutine frame, `promise.value` | `resume`, `destroy`, the iterator's `*`, `++`, `!=` |
| Logging, build output | `socket/log.hpp`, `reactor/build`, ... | none | formatting; generated files |

### How the parts interact

* A server and its clients meet in the kernel: accept queue, descriptor table,
  receive and send buffers. Clients act at any moment between two system calls
  of the server.
* The reactor registers a descriptor for one event at a time; `epoll_wait`
  returns a batch; `run` looks each descriptor up in `connlist` and calls its
  callback, which changes the registration for the next round. `accept_func`
  and `receive_func` share a union: which one a descriptor has is decided by
  what was assigned last.
* The proactor keeps no registration. What will happen next on a descriptor is
  encoded in the one operation that is prepared, in flight, or completed for it
  (`user_data` holds descriptor and kind). The kernel works on the buffers
  while the server handles other completions.

### What is hard here

* *A batch goes stale.* While a batch is handled, callbacks close descriptors
  and accept hands the same numbers out again. (Reactor, proactor.)
* *Everything blocks.* No socket is non-blocking, so a call that waits stops
  all clients. (Reactor, select, poll.)
* *State by descriptor number survives the connection:* `rlen`, `rbuffer`,
  callbacks. (Reactor, proactor.)
* *Chains by hand.* Every completion must prepare the next operation, accept
  included. A gap silences a client, or the server. (Proactor.)
* *Errors are results.* -1 of `recv` is added to `rlen`; the error of an accept is
  used as an index and a descriptor (-1, or -errno from io_uring); the results of
  send, submit, select, poll and bind are ignored.
* *Limits.* Descriptors run out, `rbuffer` fills up, the submission ring fills
  up, batches are cut at 128 or 1024.
* *Dangling addresses.* `proactor::init` hands the kernel two of its locals.
* *One buffer for all.* The kernel reads every request of the single-file server
  into the buffer from which it sends every answer.
* *Memory read before it is written:* the entries of the poll server's `fds`, the
  value of a coroutine that was not resumed yet.
* *A pointer read without its lock:* `get_Singleton`.

What makes the components correct is stated in `ReactorProps`, `ProactorProps`,
`CUringProps`, `SweepProps`, `SelectProps`, `SingletonProps` and `GeneratorProps`; for each client of a
server it comes down to the conversation of `Conversation`.

## Modules

| module | models |
|---|---|
| `Tcp` | clients, accept queue, byte streams, descriptors; `accept`, `recv`, `send`, `close` |
| `Conversation` | the abstract specification: the server takes turns with each client |
| `Reactor` | `reactor::init`, `run` and the callbacks |
| `ReactorProps` | its properties, its inductive invariant, the refinement of `Conversation` |
| `Singleton`, `SingletonProps` | `reactor::get_Singleton` called by several threads; its properties and inductive invariant |
| `Uring` | liburing and the kernel's side of both rings |
| `UringLoop` | the loop around the rings that both io_uring servers have: submit, wait, take a batch, free it; extends `Uring` |
| `Proactor` | `proactor::init`, `run`, the `set_event` functions; extends `UringLoop` |
| `CUring` | `main` and the functions of `c_io_uring.cc`; extends `UringLoop` |
| `UringProps` | what both owe to the loop: the accept that is always under way, one operation per descriptor, room in both rings; and the invariant these rest on |
| `ProactorProps`, `CUringProps` | their own properties, inductive invariants and refinements of `Conversation` |
| `Sweep` | what the select and the poll server share: accept one connection, then go over the descriptors |
| `SelectServer`, `PollServer` | how they differ: waiting, and the entry of a new or failed connection; extend `Sweep` |
| `SweepProps` | the properties of both, what their inductive invariants share, and the refinement of `Conversation` |
| `SelectProps` | what is true of the select server only: what `rfds` holds, and what stops it |
| `Generator`, `GeneratorProps` | the coroutines of `test.cc`, the class `task` that drives them, and the loop of `main`; what such a loop prints, and the inductive invariant |
| `MCReactor`, `MCProactor`, `MCCUring`, `MCSelect`, `MCPoll`, `MCSingleton`, `MCGenerator` | instances for TLC |
| `ReactorProofs` | the proofs about `Reactor`: its invariants, and that it implements `Conversation` |
| `SweepProofs` | the same, for the select and the poll server and the steps they share |
| `UringProofs` | what the steps of the loop and of the kernel do to the rings and to the conversations, whatever the server |
| `CqProofs` | how many completions the completion ring can hold, whatever the server |
| `ProactorProofs`, `CUringProofs` | the theorems about the two io_uring servers |
| `SingletonProofs`, `GeneratorProofs` | the proofs about `Singleton` and `Generator` |

A few operators are marked *variant*: each is a plausible bug (a dropped reset,
a count off by one) in the form of the operator it precedes, and no
specification uses them. `PROJECT.json` pairs each property with the variant
that breaks it: replacing the operator by its variant makes TLC find a
violation, which shows that the property depends on that piece of code.

### Tcp: the kernel and the clients

The kernel is not in the repository. `Tcp` models it as the servers use it.

* A stream is two counters, bytes sent and bytes read; the n-th byte of a
  connection has no other content. What a client still has to read is counted
  in sends (`unread`), because the servers learn of it only whether the
  descriptor is writable (`SndRoom`).
* `peer` says what the client did: connected, finished, or reset. A reset is
  reported once, as an error of the next `recv` or `send`; `recv` then returns 0
  and `send` raises `EPIPE`, with `SIGPIPE` for plain `send` and without for
  io_uring, which the servers never change.
* `accept` takes the lowest free descriptor and fails when there is none
  (`EMFILE`), leaving the connection in the queue. `close` of a descriptor that
  is not open does nothing.
* A client that resets loses the data it had sent only in so far as the server
  read it too late in reality; the model lets the server read it first. The
  reset without data left is the same state as one that discarded data.
* A client does nothing more on a connection the server has closed. A client
  makes each of its connections once; a second connection is another member of
  `Conns`.

### Reactor

| state | code |
|---|---|
| `interest[fd]` | what `fd` is registered for with epoll |
| `callback[fd]` | what the union `connlist[fd].ar_func` holds |
| `rlen[fd]` | `connlist[fd].rlen` |
| `rbuf[fd]` | `connlist[fd].rbuffer`, byte by byte: whose it is and which of its connection's, a zero, or a byte of the answer (`Text`) |
| `events` | the part of the batch not yet handled, `events[i..nready-1]` |
| `status` | whether `init` succeeded, `SIGPIPE` has killed the process, or a callback has run into what `connlist[-1]` holds |
| `replies[c]`, `conn` of an event | history, for the properties |

`Boot` is `init` with the exits of `Bind` and `Listen`. `EpollWait` is line 88:
any order, at most `MAX_EVENTS_SIZE` of the ready descriptors, each once, level
triggered. `HandleAccept`, `HandleReceive` and `HandleSend` are one turn of the
loop each, with the whole callback: a callback makes one system call that reads
shared state (`accept`, `recv`, `send`), so that one atomic step per callback
loses no interleaving; clients act between callbacks and so between the report
of an event and its handling. `accept_cb` clears `rbuffer` (`ResetItem`), `recv` writes
behind the first `rlen` bytes (`Stored`), and `send_cb` formats its answer over the start
of the buffer (`Formatted`), also over what the client has sent. `BufferHoldsOwnBytes` says
what is left to rely on: `rlen` counts what was read on the connection, no byte of an
earlier connection on the same number is in the buffer, and the bytes that are still to be
answered are. `wbuffer` and `wlen` are reset and never used. The functions in the union are assigned without ever having been
constructed; the reactor is larger than what `malloc` takes from its heap, so that they
lie in fresh zero pages, which `std::function` takes for empty.

Accept fails when there is no free descriptor, and with `Faults` holding `"nofile"`
also when there is one: then the kernel as a whole has run out of files or memory. The
connection stays queued in both cases. After it the code runs `set_event(-1)`, which
fails, and writes `connlist[-1]`. That item lies over the last 177 entries of
`events`, the member before it, from entry 847 on. `Faults` holding `"index"` says
that the batch reaches that far:

* the reset of the item blanks the entries that are left from there on, and `run`
  passes them over, since no event bit is set (`Blanked`); level-triggered epoll
  reports them again in the next round;
* the two function objects lie over the last entries, from 1019 on; what this batch or an
  earlier one has left there is destroyed as if it were a function, which crashes the
  server (`Crashed`).

The model scales the batch down as it does `MaxEvents`, and lets any entry of the rest
of the batch be the first to be blanked. All properties of `reactor_safety` hold with
it.

### Singleton

| state | code |
|---|---|
| `singleton`, `init_mutex` | the static members; an object is named by the call that made it |
| `pc[t]` | where call `t` of `get_Singleton` is |
| `built` | the objects whose constructor has run |
| `made`, `got` | history: what was allocated, and what each call returned |

There is one action for each access to shared memory. The pointer is a plain one and
the first test reads it without the lock, a data race; `Faults` lists what a build may
make of it:

* `"reorder"`: the pointer is stored before the constructor has run (`Construct` and
  `Publish` in either order);
* `"stale"`: the first test sees null although a reactor was made. The read of line 61
  cannot be older than that: it reads the same location later in the same thread, after
  either a first test that saw the pointer or a turn with the lock;
* `"nomem"`: `new` throws, and the exception leaves the scope of `lock_guard`.

`UnbuiltOnlyInRace` says exactly how far the double check falls short of its purpose.
`main` calls `get_Singleton` once; the model asks what the locking is worth to a caller
with threads.

### Generator

| state | code |
|---|---|
| `frame` | where the coroutine is suspended; `"final"` is `handle.done()` |
| `left` | `value` of `iota`; `k - i` of `printNumber` |
| `value` | `promise_type::value`, `Garbage` until it is assigned |
| `pc`, `byHand` | where the user is, and how often he called `resume` before the loop |
| `printed` | the output |

The user resumes a task some times, then loops over it, then destroys it or does not;
`main` does the loop only, over `iota(10)`, and leaks the frame, because `task` has no
destructor. `PrintsLate` is what such a loop prints: the range-for reads `value` before
the coroutine ever ran, so that its first item was assigned by nobody, and from then on
prints every value once and in order.

Two facts lie outside the model. As written, GCC refuses the file, because
`promise_type` is declared with one access and defined with another; the model is that
of the program with this corrected. And an iterator's `handle` is a reference to the
by-value parameter of its constructor, which is gone when the loop begins; built with
GCC the program crashes on one of its uses. `Faults = {"dangling"}` lets each of them
crash (`Dangle`) or do what a sound iterator would. `iota` of a negative number, which
counts down until `int` overflows, is excluded.

### Uring and Proactor

| state | code |
|---|---|
| `sq`, `cq` | the rings of `ring`; `cq` is advanced only after a batch |
| `flight` | operations the kernel has taken and not completed |
| `nready`, `i` | the locals of `run` (`UringLoop`) |
| `rbuf[fd]` | `connect_list[fd].rbuffer`, byte by byte: who sent it, and which |
| `pc` | where `run` is; `"nosqe"` after writing through a NULL entry, `"crashed"` |
| `listening` | whether `bind` succeeded; `init_socket` only prints the error |
| `dangling` | the accept armed by `init` is still waiting |
| `echoed`, `lost`, `cut`, `conn` of an operation | history |

In `UringLoop`, `Submit` is one entry taken by `io_uring_submit`, `Submitted` its
return, `Peek` is `io_uring_wait_cqe` with `io_uring_peek_batch_cqe`, and `Advance`
line 106. `HandleAccept`, `HandleRead` and `HandleWrite` are the branches of the loop.
`KernelAccept`, `KernelRecv` and `KernelSend` complete operations in any order at
any time.

A failed accept completes with -errno. `HandleAccept` uses it as a descriptor (`BadFd`
stands for all of them: recv on any of them fails alike) and as an index: -24 for
`EMFILE`, -22 for `EINVAL`, items of two kilobytes each. What is written lies far before
`connect_list`, outside the object; the process dies of it (`"crashed"`) or it is not
noticed, and both are always possible, in every run.

What the language leaves undefined otherwise is a choice, over the outcomes a build can
show, enabled by `Faults`:

* `"stack"`: the kernel writes an address into what was `init`'s frame and is now
  `run`'s; the server may crash.
* `"lost"`: the length read from there is whatever lies in the frame; the kernel
  may refuse it after it took the connection, which is then dropped unseen.

The first accept fails at once if the socket does not listen. An operation on
descriptor -1 completes with an error, and the kernel may end the submission there;
the result of `io_uring_submit` is ignored, so the entries behind it wait for the
next round.

### CUring

`sq`, `flight`, `cq`, `nready`, `i` and `pc` are as in `Proactor`, and so is the loop
(`UringLoop`, `UringProps`).
The differences: `sockfd` is -1 when bind fails (`InitServer`); an error of accept
is used as a descriptor, but as no index; and there is one `buffer`, of which the
model keeps who wrote each byte: a client, `main` (`Text`), or nobody (`Blank`).
`KernelRecv` writes it and `KernelSend` reads it at any moment, `Format` is the
`sprintf`. `answers` and `authors` are history: how many sends a client got, and
whose bytes were in them.

### Sweep, SelectServer and PollServer

| state | code |
|---|---|
| `watched` | the bits of `rfds`; the entries of `fds` that name their own index |
| `ready` | the bits of `rset`; the entries of `fds` with `POLLIN` in `revents` |
| `mxfd`, `count` | the locals of `main` |
| `cur` | `fd` of the loop; the descriptors that are not ready are passed over |
| `nready` | what `select` or `poll` returned: -1 for an error, 1 for anything else |
| `pc` | where `main` is; `"killed"` by `SIGPIPE`, `"aborted"` by `_FORTIFY_SOURCE` |
| `echoed` | history |

`recv` and `send` are two steps, so that a client can reset between them; a step
whose call would wait is not enabled until it would return, and while `main` waits
in it nothing but clients moves. `NeverWaits` says that this happens in `send` only. It
holds of select, and of poll unless uninitialised memory interferes;
`WaitsOnlyForNewest` is what holds of poll in any case.

`Socket::Accept` returns -1 for every error of `accept`: for the lack of a descriptor, and
for a shortage of files or memory that may come at any time. `AcceptFailed` is the one or
the other, so it may happen in every round; `Shortage` names the second kind.

`FD_SET(-1)` computes word 0, bit 63: on x86-64 the descriptor 63 (`StrayFd`),
unless the program is built with `_FORTIFY_SOURCE`, which aborts it
(`SelectFaults = {"abort"}`). While that descriptor is open the bit is its own. While it is
closed and not above `mxfd`, every `select` fails and leaves `rset` a copy of `rfds`
(`SelectFails`); `main` does not notice, calls accept, which waits, and recv for
whatever is in `rset`, which waits too, or fails on the closed descriptor and hands its -1 to
send, which fails as well (`RecvOn`, `SendOn`). What is claimed for a round is therefore
claimed where `nready # -1`. For poll, `PollFaults` says what memory that was not written may do:

* `"noise"`: the entries below `sockfd` make `poll` return at once.
* `"garbage"`: `revents` of an entry `poll` has not written yet holds `POLLIN`.
* `"overlap"`: `fds[-1].events` lies over `mxfd`, as it does in an unoptimised build;
  `mxfd` becomes 1, which is below `sockfd` (`Deaf`), with descriptors free or not. The
  sweep of that round and later polls see nothing, unless `poll` returns by chance and an
  accept raises `mxfd` again. Optimised builds keep `mxfd` in a register.

Descriptors are below 1024 everywhere, the size of `connlist`, `connect_list`, `fds`
and `fd_set`; it is the default limit of a process.

## Runs

| run | question | instance |
|---|---|---|
| `reactor_safety` | all safety properties of the reactor, and that it implements `Conversation` | 2 clients that may reset, 2 descriptors, 4 bytes from one and 1 from the other, buffer 3, an answer of 1 byte (and its zero), batches up to 3, all faults |
| `reactor_live` | are clients answered and released although one stops reading and descriptors run out? | 3 clients (one slow), 2 descriptors, 2 bytes from the slow client and 1 from the others, buffer 2 |
| `reactor_response` | is an answer as long as it says? No | 2 clients |
| `proactor_rings` | accept stays armed, completions stay with their connection, neither ring runs full, nothing is stranded | 3 clients, 2 descriptors, batches of 2, ring of 4, all faults |
| `proactor_clients` | one operation per descriptor, own bytes in order and all of them before a close, `Conversation`, and is the client that reads served although the other does not, or resets? | 2 clients (one may reset or not read), 3 descriptors, 2 bytes, buffer 2, all faults |
| `curing_all` | accept stays armed and neither ring runs full, with a socket or without; one operation per descriptor, never one's own request back, `Conversation`, and liveness | 2 clients (one may stop reading), 3 descriptors, 2 bytes, buffer 2, an answer of 1 |
| `curing_answers` | is an answer the formatted text? Not always | 2 clients |
| `select_all` | is `rfds` exact but for the stray bit, does `mxfd` cover what is open, does only `send` block after a select that worked, and what stops the server? | 3 clients (one may reset, one is slow and sends 2 bytes), 2 descriptors, all accept errors |
| `poll_safety` | whom may recv wait for, nothing read is lost, when is a connection closed, and `Conversation` | 3 clients, 2 descriptors, 2 bytes, buffer 2, all faults and accept errors |
| `poll_garbage` | are only read events handled? Not with what uninitialised memory may hold | 2 clients, 2 descriptors, garbage |
| `singleton_all` | is there one reactor, who may get an unfinished one, and does every call end? | 3 calls, all faults |
| `generator_all` | what does a range-for over a task print? | both coroutines, arguments 0 to 4, any number of resumes by hand, iterators that may crash |

Why the bounds are enough:

* Two clients suffice for a descriptor to be closed and reused within one batch;
  three clients on two descriptors add one that waits while accept fails. Two
  descriptors besides the listening socket give every order of accept, close and
  reuse. The third one in `proactor_clients` and `curing_all` only means
  that accept never fails for want of a descriptor, whose errors multiply the
  states there; it still fails when the socket does not listen.
* In `reactor_safety` `BufferLength` 3 with `MaxSend` 4 overfills `rbuffer`, so that the
  `recv` for 0 bytes occurs; a reset spoils `rlen` before and after; and an answer with its
  zero covers two bytes, so that one of the client's may be left behind it. The client in `Terse` sends
  one byte, enough to reuse the descriptor of the other, or to leave it a byte that
  must be gone.
* `SndRoom` 1 with `MaxSend` 2: a client that does not read fills its send buffer with the
  first answer, and its second request finds the descriptor unwritable, or a send that
  waits, for good. This is what `reactor_live`, `proactor_clients`, `curing_all` and
  `select_all` are about; the clients in `Terse`, which must be served meanwhile, send one
  byte in `reactor_live` and `select_all`.
* `reactor_live` fills no buffer but the slow client's, so that no other is cut off.
* In `curing_all` nobody resets; there the theorems stand for the safety properties, and
  `proactor_clients` has the resets of the same loop.
* `StrayFd` 1 is one of the descriptors, as 63 is for a server with many clients: it is open
  or closed, below `mxfd` or equal to it, when the bit is set. For a server with few clients the
  bit lies above every descriptor and does nothing.
* `SqEntries` 4, `CqBatch` 2: a round prepares at most two entries per completion,
  and one batch of entries may still be left from a submission that stopped; 4 is
  the least ring for which this fits, as 1024 is ample for batches of 128.
* Three calls of `get_Singleton` are one that makes the reactor, one that waits for
  the lock, and one that comes by without it; when `new` throws, the second becomes
  the first. The theorems hold for any number.
* An argument of 2 already resumes a coroutine first, between values, and last.
* `MaxSend`, `Backlog` and the one use of each connection bound the state space
  and nothing else. The proofs use no bound.
* `MaxEvents` is at least the number of descriptors in the runs under fairness:
  which of the ready descriptors a shorter batch holds is arbitrary in the model,
  where the kernel rotates its ready list.

Connections that are neither `Abortive` nor `Slow` are interchangeable, so
`proactor_rings` and `poll_safety` use symmetry; the liveness runs do not.
Deadlock is not checked: clients do finitely many things in an instance, and the
server then waits in `epoll_wait`, `io_uring_wait_cqe`, `select` or `poll` for good; it may also have
exited or been killed. The calls of `get_Singleton` and the loop over a task end as well. That it does not wait *too early* is what
`NeverBlocks`, `NeverWaits`, `NoStrandedSubmission` and the liveness properties say.

### Fairness

* `run`, or the loop of `main`, is endless, so the server's next step is weakly fair
  (`WF(Server)`, `WF(Run)`); it is enabled until the loop blocks for an event.
* The kernel completes what can complete: `WF(Kernel(fd))`, descriptor by
  descriptor, since the progress of one does not depend on another.
* A client that is not `Slow` reads what it is sent. No client need connect, send
  or close; `AllServed` and `ServedUnlessStuck` assume, in the property, that clients
  close, without which a full server has nothing to free.
* The select server's `main` is fair in `SelectSteady`, everything it does but an accept
  that fails although a descriptor is free: such failures may happen, but nothing makes
  them happen. If they never end, `ServedUnlessStuck` promises nothing.
* `reactor_live` has `Faults = {}`: an accept that fails again and again for want of
  memory, or a batch whose end is blanked in every round, may starve a client, and no
  scheduling the code relies on rules that out.
* A thread inside `get_Singleton` is scheduled: `WF(Step(t))` for each call. Weak
  fairness is enough for the lock, since each call asks for it once.

### What the violations show

* `reactor_response`: `send_cb` sends `rlen` bytes, the length of everything
  received so far, instead of the formatted answer of which its header says
  "Content-Length: 75" (`reactor.hpp:139`).
* `curing_answers`: between the `sprintf` and the send another client's request is
  read over the answer; that client's bytes are then sent as the answer.
  `NeverOwnRequest` shows what still holds.
* `poll_garbage`: a connection accepted in this round, above the `mxfd` that `poll`
  was given, is swept with `revents` nobody has written; `recv` then waits for it.
  `WaitsOnlyForNewest` shows what still holds.

Some properties describe behaviour one may not want, exactly: `KilledByBrokenPeer`
says when `SIGPIPE` ends the server and that nothing else kills it, and
`CloseOnlyAtEndOrFull` that a client is cut off after `BUFFER_LENGTH` bytes, and
then only; `ServedUnlessStuck` lists what stops the select server for all: a client that
does not read, a client that resets, and the bit of a failed accept. `Served` of the proactor
holds while the process lives, since a failed accept or the dangling address may end it.

## Proofs

Every theorem is for all values of the constants that satisfy the assumptions the
modules name (sets and natural numbers, no more): `TcpAssumption`, `ReactorAssumption`,
`SweepAssumption`, `SelectAssumption`, `PollAssumption`, `UringAssumption`,
`ProactorAssumption`, `CUringAssumption`, `SingletonAssumption`, `GeneratorAssumption`. Where a theorem needs more
of a constant its statement says so, and so does this text. TLC checked each inductive
invariant, on the instances of the runs, before it was proved.

### The epoll server

`ReactorProofs` proves `Invariance`, `Spec => []IInv`, and from it each invariant of
`reactor_safety`, a conjunct of `IInv` (`TypeCorrect`, `RegisteredHolds`,
`EventsFreshHolds`, `NeverBlocksHolds`, `BufferHolds`, `RepliesFollow`,
`KilledOnlyByBrokenPeer`), and the action property (`ClosedOnlyAtEndOrFull`).

The safety invariants are not inductive alone, and `IInv` adds three facts.
`Dormant`: nothing is open or registered before `init` is done. `Ownership`: a
connection is idle, then queued, then named by exactly one descriptor, then
closed for good, and nothing was read of it before; without it a callback on one
descriptor could change what another descriptor's `rlen` is compared with.
`NewsToAnswer`: a descriptor registered for `EPOLLOUT` has more to answer than was
answered, which is what makes the answers grow.

The heart of the argument is why a batch cannot go stale: each descriptor occurs
once in it (`EventsFresh`); a callback changes only its own descriptor, or, when it
accepts, one that was closed and therefore has no event left in the batch
(`EventsKept`); what a failed accept blanks is the end of the batch, and the rest stays
as it was (`BlankedTakes`); clients only ever make a descriptor readier
(`ClientEffect`). There is one lemma per action, on the conjuncts that the action can
disturb.

`Refinement` is `Spec => TakesTurns`: one lemma per action maps it to a step of
`Conversation` or to none. `IInv` does not say how many answers there
were; `Counted` adds that the n-th answer is at least n long, since the answers grow, so
that an answer never comes without something new that was heard.

### The select and the poll server

`SweepProofs` shows for the shared actions that they keep `SweepInv`, then adds the
waiting and the failed accept of each server. Accept may fail in every round, whether
descriptors are free or not. `SelectInvariance` and `PollInvariance` are
the invariants; from them follow, for each server, theorems on what is watched
(`SelectWatchedExact`, `PollWatchedExact`), `MxfdCoversOpen`, `NeverWaits`, `NothingLost` and
`CloseOnlyAtEnd`, and `PollWaitsOnlyForNewest`. `SelectRefinement` and
`PollRefinement` are `TakesTurns`.

`SweepInv` adds `Dormant`, what is known of a `send` (`SendsToOpen`), `Ownership` as above,
and `ReportsKept`, which carries the argument. `SelectInv` adds what select alone can
promise, that `rfds` is exact but for the stray bit and that `mxfd` covers what is open.
Poll has the first without exception, and the second (`PollMxfdCovers`) only in builds where
`fds[-1]` does not lie over `mxfd`, which the theorem assumes (`"overlap" \notin PollFaults`):
otherwise any failed accept makes the server deaf.

An accept raises `mxfd` in the middle of a round, after which the sweep goes over
descriptors that the wait was not asked about, and a failed accept may have lowered it
before. `ReportsKept` says of every descriptor that is reported and that the sweep has not come
to (`Unswept`): the report is still true; or it is about a closed descriptor above `mxfd` and above all
that are open; or that descriptor was accepted in this round and is now `mxfd`. Since accept
takes the lowest free number, and one in a round, there is never a second of the last kind.
Hence `WaitsOnlyForNewest`, whatever `revents` of a new entry contain and wherever
`fds[-1]` lies. `ReadyFresh` holds where nothing is reported by chance: every report is still true;
with it `WaitsOnlyForNewest` becomes `NeverWaits`. Hence `PollNeverWaits`, which assumes
`"garbage" \notin PollFaults`; `poll_garbage` shows that it fails otherwise. In select both hold
after a `select` that worked, and nothing is claimed after one that failed, where every
descriptor in `rfds` is taken for ready.

### The io_uring servers

Both run the same loop, and most of what is true of them is true of the loop. `UringProofs`
states it once: for every action of `UringLoop`, of the kernel and of the clients, and for
every way in which a server may answer a completion, a lemma says that `RingInv` is kept.
`ProactorProofs` and `CUringProofs` show that their actions are such steps (`RingStep`).

`RingInv` holds `AcceptArmed`, `OneChainPerDescriptor` and `CompletionsFresh`, and what
these need:

* The first two count entries, operations and completions over the rest of the completion
  ring, a set and the submission ring. `Weight` is 1 or 0, the share of one element in a
  count; each lemma gives the balance of a step (`CompleteEffect`: one operation less,
  its completion more), and the sum stays what it was. Since the completions of a batch
  leave the ring only when all are handled, the count is over the completions not handled
  yet (`Unhandled`), and `BatchHeld` says that the batch is still there.
* That a descriptor closed and handed out again within a batch is never confused
  (`CompletionsFresh`) follows from the count: a descriptor is closed by its only operation,
  so that nothing that still names it is left (`Alone`), and it is opened by an accept, when
  it was closed and nobody carried it.
* `Ownership` is as for the other servers. `EndsStand` says that what a completed recv has
  reported, an end of file or a reset, is still so when the completion is handled, rounds of
  clients later; it gives `CloseOnlyAtEnd`.

**The bytes of the proactor.** `EchoOwnBytesInOrder` is about a buffer that kernel and
server write in turn without a lock. `BytesHeld` says where the bytes are meanwhile: while
a completed recv waits to be handled, a send waits in the ring, or is under way, the
buffer of its descriptor holds the last bytes that were read, and none of them was sent.
With `OneChainPerDescriptor` nothing else touches that buffer, and the terminating zero
lies behind them. `EchoedWasRead` makes the sequence grow over a turn. `DataStep` goes
through the actions. `CloseOnlyAtEnd` says of a client that is closed also that all it sent was
echoed, unless a send to it failed or was short (`cut`): `EchoedWhole` is the invariant, that
whoever is not being answered has been sent all that was read of it (a full ring would
drop the answer, so it assumes `SqNeverFull`, which is proved below).

**The one buffer of the single-file server.** The same with what is left of it there:
`AnswersDue` says that a prepared answer, or one under way, is one the client is due, and
that no byte of the buffer's first `ResponseLength` is the client's own; other clients may
overwrite them, the client itself has no recv under way. Hence `NeverOwnRequest`.

**Room in the submission ring.** `RingsHaveRoom` and `AlwaysAnAccept` assume
`SqEntries >= 2 * CqBatch`, in the code 1024 and 128. A round prepares one entry for a
completion, two for an accept, and there is one accept. Nothing would be left when the next
round begins, were it not for a recv on descriptor -1, the answer to a failed accept, which
may end the submission in front of the rest. `OneBadEntry`: there is one such entry
at most, with less than a batch behind it; for as long as it is in the ring nobody waits.
`RoomForBatch`: what was left over and what the batch still adds fit twice a batch.
Without a socket the single-file server spins, and there may be two such entries; but then
nothing else happens, and `Spinning` bounds the ring by 3 (hence `SqEntries > 2`). `SqInv`
is the one or the other.

**Room in the completion ring.** The kernel may complete what was submitted at any time,
and the completions of a batch stay in the ring until the last is handled. `CqHasRoom`
bounds them by `MaxFd + 3`, without an assumption on a size; in the code descriptors are
below 1024 (see the bounds above) and the ring takes 2048. `CqProofs` shows it once for both servers:

* The completions not handled and the operations under way are at most one for each
  descriptor (`FewCarriers`, by an injection: `OneChainPerDescriptor` lets no two carry the
  same), the accept's, and the recvs on descriptor -1 that failed accepts leave behind.
* Of these there are at most two (`FewBadRecvs`). A recv on -1 is prepared right behind the accept,
  whose next failure prepares another. But what lies in front of an accept in the submission ring
  is submitted, fails and is handled before it: behind every prepared accept, and behind every
  completed one, at most one such recv is left, the one prepared with it.
* What the handling of a batch prepares is submitted only when the batch has been freed. So the
  sum that has to be bounded is the completions in the ring, those held for the batch
  included, and the operations (`CqRoom`): it grows by a submission only, when nothing is held.

The bound is reached: TLC finds rings that hold `MaxFd + 3` completions.

**The conversations.** `Phase` reads from the rings where a conversation stands: the server
is answering while a completed recv with data waits, or a send is prepared or under way
(`Owes`). `UringProofs` says for each step which conversations it moves (`LoopPhase`,
`ReadPhase`, `TransferPhase`, ...): the loop moves none, a recv begins the answer, a send ends it.
The theorems `Refinement` add what was heard and said: for the single-file server
`AnswersDue`, for the proactor `Counted`, that the k-th byte sent has a number of at least k,
so that no more was sent than was read. They assume what `SqNeverFull` needs, since a full
ring would drop an answer. A connection that the dangling address makes the kernel drop
unseen (`lost`) stays where it was, waiting.

### get_Singleton

`SingletonProofs` proves `OneReactorHolds` and `UnbuiltHolds` from `IInv`: between the
second test and the end of the scope a call is alone (`MutualExclusion`), so that there is
no reactor but the one pointed to or the one being made (`MadeOnce`), and only the latter
can be unfinished (`BuiltInOrder`).

### The coroutines

`GeneratorProofs` proves `PrintsLateHolds` and `TypeCorrect`, for any argument and any number
of resumes by hand. What a loop prints seems to be a matter of induction over its turns.
`InStep` makes it one of arithmetic: how often the coroutine was resumed follows from its
own counter (`Resumed`), and from that number what `value` holds and how many lines are
printed. `ResumeEffect` says what a resume does to all three; each action then only adds the
line that `PrintsLate` expects next (`OneLineMore`).

### Only model-checked

Liveness: `Served`, `AllServed`, `AnsweredAndReleased`, `ServedUnlessStuck`, `AllReturn`
(TLAPS does not handle fairness and `ENABLED` here). Every invariant and every action property
of the runs that pass is proved, and so are the refinements.

## Not modelled

* `socket/log.hpp`, `reactor/build`, `CMakeLists.txt`, `.vscode`: output,
  generated files, configuration. `root/index.html` is never read.
* `Socket::Connect`, `Socket::Accept(ip, port)` and the constructor with a port:
  nobody calls them.
* Signals other than `SIGPIPE`; errors of `epoll_ctl`, `epoll_wait`, `select` and `poll`
  that need an exhausted kernel (`ENOMEM`). That `select` fails on the bit of a closed
  descriptor is modelled.
* The lifetime of `Socket` objects: each server has one, that lives as long as `main`.

## Plan

Done: all five servers, their common abstract specification, `get_Singleton`, the
coroutines; the safety of all of them proved, and that each server implements
`Conversation`. Open: a user of `task` that resumes by hand in the middle of a loop.

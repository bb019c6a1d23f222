# A verification project for NNOS

NNOS is a collection of C (and some Java and C#) programs for a course on
operating systems: processes, signals, threads, critical sections,
synchronisation, messages, sockets and shared memory. Most are a page long and
sequential. What is worth a model checker are the programs in which threads,
processes, clients and the kernel share state: the critical-section library and
the programs that use it, Peterson's algorithm, counters, rings and monitors,
message queues, the echo servers, traceroute, and whatever is cancelled or times
out.

The TLA+ modules here model those programs, TLC checks them on small instances,
and TLAPS proves the most important results for every value of the constants.
`PROJECT.json` lists components, runs, mutants, theorems and hazards, and maps
every definition to the lines it models.

## 1. Inventory

| component | state | operations | interacts with | what is hard | what makes it correct |
|---|---|---|---|---|---|
| critical-section library (`everything.h` and the headers with some of its methods) | the method chosen; "allocated"; one flag, mutex, semaphore or queue | `cs_init`, `cs_enter`, `cs_leave`, `cs_destroy` | threads of the program, kernel objects | test and set in two steps; destruction under running threads; blocking for ever | exclusion, one token, it is a lock |
| its kernel objects (`everything.h`, `sem_sysv.h`, `mutex_sem_namedSem.h`, `messageQueue_*.h`, `thread_add_named_sem.c`) | names, keys, values, SEM_UNDO adjustments | open, set, unlink, remove, kill | other instances of the same program | another instance meets the same name or key; kills between two calls | instances do not disturb each other |
| bank deposits (`bank_deposit*.c`) | balance, barrier, thread states, exit status | `main`, `bank_deposit`, `release_resources` | the library, a barrier, `exit` handlers | lost updates; `pthread_create` failing half-way | no deposit from a stale balance; an end |
| bank transfers (`bank_transactions*.c`, `Peterson*.h`) | two balances, `flag[2]`, `turn` | `Peterson_wait`, `Peterson_post`, `bank_transaction`, main's check | two threads, store buffers | memory ordering; overtaking | exclusion, money conserved, both threads get in |
| reading a name (`pthread_cleanup*.c`) | heap, cleanup handler, semaphore, flags | `thread_func`, `main`, `release_resources` | deferred cancellation, `sem_timedwait` | a timeout racing the answer; cancellation at any cancellation point | everything released, nothing used after its release, an end |
| watched counter (`sync_cond_var.c`) | count, mutex, condition variable | `inc_count`, `watch_count`, `main` | three threads | lost signal, spurious wakeup | the watcher finds what it waited for, and is not missed |
| printing in order, colours (`sync_assignment_cond.c`, `SyncMonitor.java` and the assignments they solve, `sync_RGB_assignment*.c`) | mutex, condition, output, RGB triple | `f1`, `f2` | two threads | signal before wait, torn reads | 1 before 2, always both; no half colour is valid |
| counting threads, withdrawals, accounts (`thread_add*.c`, `sync_barrier.c`, `bank_withdraw*.c`, `Transactions*.cs`) | one shared number, a lock, a barrier | `add`, `withdraw`, `main`, exit handler | two to ten threads | lost updates, check-then-act, barrier after a failed create | the sum under a lock; a race's bounds; main's verdict |
| producers and consumers (`producer_consumer.c`, `bounded_buffer.c`, `ProducerConsumer.java`) | ring, two indices, quit items | `produce`, `consume`, options, exit handler | threads | index updates in two steps, ending the consumers | no access outside the ring; ends in the right order |
| cell (`ProducerConsumerSimple.cs`) | one number, `readerFlag`, monitor | `ReadFromCell`, `WriteToCell` | two threads | `Wait` and `Pulse`, a read after the lock | numbers handed over one by one |
| System V messages (`06-messages/messagesSV_*.c`) | queues by key and by id | send, receive, remove, fork | other instances, whoever removes the queue | removal under the others; full queue | nothing lost, nobody blocked |
| echo servers (`*-client-echo-server.c`) | listening socket, `fd_set`, table of descriptors | bind, accept, receive, send, close | clients that come and go | descriptors used again, limits, a client that leaves | each client gets its own data back |
| traceroute (`basic_traceroute`, `successive_traceroute`) | options, probes, names, final probe | send, receive, print, free | routers, the target | answers from anywhere, errors, shared strings | each name under its probe, each string freed once |
| threaded traceroute, working threads, pitching, barrier, message-priority and paging exercises | - | - | - | partial programs | - |
| processes, signals, thread basics, other sockets, measurements | - | one call each | kernel | merged signals, an argument overwritten in a loop | - |

Everything but the last two rows is modelled, the deposits and transfers in part. `PROJECT.json` gives the status of
each part, and the reason of each that is not modelled.

## 2. Modules

```
Mutex                     the abstract lock: at most one owner
 ^            ^
 | refines    | refines
CSMethods    Peterson     the library;  Peterson's program and the x86 memory
 ^                ^
 |                Peterson_proofs
BankDeposit               the deposit program, composed with the library
 ^
BankDeposit_proofs        about both

CondVar                   a mutex with a condition variable
 ^          ^          ^
WatchCount  PrintOrder  Cell  -- refines -->  Handover

SharedCounter   StorageRing   MessagesSV   EchoServer   Traceroute
Cleanup         IpcInstances
```

The proofs about `StorageRing`, `SharedCounter`, `EchoServer`, `Traceroute` and `IpcInstances` are
in modules named after them, each of which extends its component; `IpcInstances_proofs` has those about
`MessagesSV` as well, of which it takes an instance. `Synchronization_proofs` extends `Cell` and takes
instances of the other small programs: `WatchCount`, `PrintOrder` and `Cleanup`.

Every `MC<module>` gives names to the small sets its `.cfg` uses; `Cell`, `SharedCounter` and
`PrintOrder` need none. A module that stands for several programs has a constant `Programs` (or
`Methods`, `Versions`, `Builds`), and each behaviour picks one of them.

**Mutex** is the abstract specification: `owner` goes from `Nobody` to a thread
and back. `CSMethods` and `Peterson` are shown to implement it through a refinement
mapping (`Holder`), in TLC as a property and in TLAPS as a theorem.

**CSMethods** has one action per access to the shared object of each method.
`cs_init(m)`, `cs_init_fails(m)` and `cs_destroy` are whole calls; `cs_enter` is the
disjunction of what each method does, where `LOCKED` and `TEST_XCHG` take two steps
(`TestLocked`, then `StoreLocked` or `ExchangeLocked`), and a blocked or spinning
call is a disabled action. After `cs_destroy` the object is there or not
(`Survives`): `sem_destroy` leaves the value in place, `pthread_mutex_destroy`
refuses a locked mutex, the other methods' objects are gone and `cs_enter`
goes straight in because results are ignored, except that an unmapped named
semaphore is a fault. `CSNext` lets the threads and the destroyer act in any order.
TLC checks it inside `BankDeposit`.

**BankDeposit** is the deposit program with `CSMethods` as its library: main,
one action per statement that can fail or block; the worker threads with the read
of the balance (`ThreadRead`) and the store (`ThreadStore`) apart; the barrier; the
exit handler. `bank_deposit.c` and `new/bank_deposit.c` are the same program under
the method ATOMIC, which does nothing. (In the tree, `CPUtime`'s main hands
`thread_count` to `cs_init`, for the template `cs_methods.h`; the root headers take
one parameter. The composition is that of the program with the root headers.)

**Peterson** is the transfer program on an x86 machine: each thread has a FIFO
buffer of stores (`buf`), reads through it (`Load`), and `xchg` waits for it to
drain. `entry` is the entry section in use, `smp` the machine. The plain algorithm
on two processors is known not to exclude: `Peterson.h:7` says so, and the
properties about `Ordered` programs leave it out.

**Cleanup** has both versions of the program that reads a name. A cancellation
point is a position of the thread; a pending cancellation may act there or not, and `cancelled_at`
remembers where it did. `sem_timedwait` is posted, times out, or fails otherwise
(`MainWaitFails`), after which main goes on as if it had been posted.

**CondVar**: `pthread_cond_wait` is `Wait`, which releases the mutex and goes to
sleep in one step, and a `Lock` after the wakeup; `Signal` wakes one waiting thread or
is lost; `WakeSpuriously` needs `Spurious`. **WatchCount** is `sync_cond_var.c`.
**PrintOrder** is the printing exercise in eight programs: with a condition variable, with
a Java monitor, without synchronisation, and with a colour of three components that are
stored and loaded one by one. **Cell** is the C# monitor; an interruption of its wait is a
spurious wakeup. It implements **Handover**, in which the numbers are produced and consumed
in turn: `cellContents` is what was produced last, `consumed` what the consumer's message
says.

**SharedCounter** has ten programs in which threads change one number. A program is a
record: what it does (`add`, `withdraw`, `transact`), its lock, whether it starts at a barrier. The load
and the store are steps of their own, and so is the test before a withdrawal. `Main` creates the
threads, joins them and, in `thread_add*.c` and `bank_withdraw*.c`, compares; when `pthread_create` fails it
calls `exit`, whose handler works beside the threads that run, and a `Start` that throws ends the C# programs.

**StorageRing** has four programs around one ring, as they are handed out: without
synchronisation. Options are refused, clamped or constant. Each index update is a load and
a store (C and Java differ in when the index is reduced). The last producer waits for the
others and stores the quit items.

**MessagesSV** has the two programs that use one System V queue: `"fork"`, the sender that
forks a receiver, and `"args"`, senders and receivers started by hand. A queue is known by its
key until it is removed; a process keeps the id it opened, and its next call fails once that
queue is gone (EIDRM, EINVAL). A sender waits at a full queue. `CallFails` is a `msgsnd`, or a waiting
`msgrcv`, that fails for another reason. Any number of
instances may run at a time.

**EchoServer** has the server's system calls as actions and, as external parts, the clients and
the sockets between the two (`inbox`, `outbox`). The kernel gives the lowest free descriptor
(`fds`), refuses one beyond `limit`, and refuses connections beyond `QUEUE_SIZE`. `accept` may fail
(`AcceptFails`); the connection of a client that has gone may be lost with it. A client may
leave or abort at any time, and is not bound to read. A `send` to one that has left is sooner or later answered
with a reset; over a connection that is reset the next one returns -1 (`SendFails`), which the server survives, or
raises SIGPIPE, which ends it (`SendKilled`). A message is a unit of data that is read whole: what the
single-client server echoes of a longer text is its first part.

**Traceroute** has both complete programs. The network is external: a probe is answered
by any router or by the target, with an error (a port unreachable is one) or without, or not at all, or the
answer has an address of another family. Strings are named after the probe that
allocated them, so that sharing and freeing can be told apart.

**IpcInstances** runs several instances of one build. `Calls` is the list of
system calls in each build's `cs_init`; the actions are the calls. A process may be
killed between any two of them, and the kernel then applies its SEM_UNDO adjustment
and closes what it had open, but does not unlink or remove anything.

## 3. Runs

TLC checks deadlock in every run: a program that has ended, or a server whose clients do
nothing more, stutters (`Stopped`, `AllDead`, `Quiet` and the like), so a state with no step is
one in which the program is stuck. The type invariants `TypeOK` are definitions that the
proofs start from; all held where TLC was asked, and the runs below spend their time on
the other properties.

| run | instance | what it shows |
|---|---|---|
| `bank_deposit` | three threads, two deposits each, ten methods, with and without `-w`, any allocation may fail | under the eight sound methods the threads exclude each other and the library is a lock (`MutualExclusion`, `ImplementsMutex`); no deposit is computed from a stale balance (`NoStaleBalance`); an unprotected program ends with a number of whole deposits, at least two and at most all (`RaceBounds`); the process ends (`Termination`) |
| `peterson` | four entry sections (none, plain, xchg as built and as optimised), one processor or two; buffers of two stores, AMOUNT 2, transfers up to 2 | exclusion, the money as the section sees it, no overtaking, the end with the right balances, and `Mutex` |
| `cleanup` | both versions, every allocation may fail, `sem_timedwait` may fail, nobody has to type | only the temporary buffer leaks, with the cleanup handler only when the cancellation acts between `malloc` and the push (`LeakOnlyInGap`); no post on a destroyed semaphore; an end |
| `watch_count` | two threads of 3 increments, threshold 4, bonus 2, spurious wakeups | the threshold is there after a wait that a signal has ended; no lost wakeup |
| `ipc_instances` | three processes of two threads, one critical section each, eight builds, kills | threads of one process exclude each other whatever others do; a name is in the way only for an instance that is in, or was killed in, `cs_init`; a process can be blocked only by a kill of one it shares an object with |
| `shared_counter` | ten programs, two threads of 3 rounds, 4 in the account, withdrawals up to 2, any creation may fail | what a lock protects (`LockProtects`); main's verdict LOST is exact in the programs that compare (`LostDetected`); the bounds of a race (`RaceBounds`); an end |
| `storage_ring` | four programs, up to two producers, consumers and places, options in and out of range | no access outside the ring for any mix of index updates (`InBounds`); no consumer ends before the producers (`QuitLast`); once one consumer is left it finds a quit item and main ends (two can go on passing it by) |
| `cell` | five numbers, interruptions at any time | `HandsOver`: refinement of `Handover`; what `ReadFromCell` returns is at most one number too new (`ReturnWindow`); no pulse is missed |
| `print_order` | eight programs, spurious wakeups, any sleeps | the monitor orders 1 and 2 and shows the calculated value; a half-set colour is never valid; each program ends, but for the missed signal of `sync_assignment_cond.c` |
| `traceroute` | five command lines, MAX_TTL 3, MAX_PROBES 3, 2^16 ports scaled to 16, two routers and the target | names under their probes, strings freed once and none in use freed, rows complete and the final probe right, an end |
| `messages` | three senders with their children; three senders of 2 arguments and two receivers; queues of 2 | a receiver removes only messages of senders that were not through (at work, or not started) when it last found the queue empty (`LostOnlyLate`); who may wait for ever (`Settles`) |
| `echo_server` | three clients, one sends twice, room for two, two addresses, backlog 2 | the `fd_set` and `dsize` match the clients (`WatchedExactly`); data come back to their sender, in order and whole (`OwnEcho`), and in the end, whatever the other clients do, but for one that stops reading and for SIGPIPE (`Served`) |

Every property has a mutant: a change to one mapped definition, of the kind a bug in that
code would be, with which TLC finds the property violated.

### Disagreements met while modelling

Where a program does not do what its comments, its usage text or its assignment say, the property
names the exception and holds otherwise, so that the run shows that it is the only one.

- `sync_assignment_cond.c:61` waits without a predicate although lines 8-10 ask for the order
  for any sleeps: if the signal comes first, the program hangs. `Ends` of `PrintOrder` excuses `Cond /\ Missed`.
- `sync_cond_var.c:78` has `if` where a spurious wakeup needs `while`: `MetIfSignalled`.
- `pthread_cleanup.c:71`: between `malloc` and `pthread_cleanup_push` there is a `printf`, a
  cancellation point: `LeakOnlyInGap`.
- `pthread_cleanup.c:113` reports a `sem_timedwait` that fails other than by its timeout and goes on: main then
  joins, without a cancellation, a thread that may read for ever. `Ends` names this case.
- `Peterson_xchg.h:54` overwrites registers declared as pure inputs. The operands are loaded
  again for each call in the build without optimisation; the build `"optimised"`, where they are not, is part
  of the run, and is not `Ordered`.
- `bank_deposit_CPUtime.c:171`: the product of two 32-bit options wraps before it is
  widened. `UIntModulus` is out of reach in the run.
- `sem_sysv.h:103`: a fixed key and an unconditional SETVAL, by which a second instance
  lets two threads of the first one in; and the first instance that ends removes the semaphore (line 139).
  `ThreadsExclude` and `Finishes` leave this build out.
- `thread_add_mutex.c:33` says that it never exits while the mutex blocks; it does when the
  second `pthread_create` fails. `LockProtects` is about programs whose threads were all created.
- `ProducerConsumerSimple.cs:123` returns the cell after the lock is left: `ReturnWindow`.
- `messagesSV_rcv.c` opens the queue by its key: with several instances running, a child can
  take another instance's message and leave that parent and child waiting for ever (`Robbed` in
  `Settles`), although each works alone. A parent whose `msgsnd` fails leaves without waiting, so that its child
  may wait for nothing (`Failed`), and its handler removes the queue with another one's message (`Removed`).
- `multi-client-echo-server.c` has two ways in which one client stops the service of all. Its `send` (line 220)
  blocks: a client that is connected and does not read holds up the one loop for as long as it likes. `Served` has
  `[]<>~Blocked` as its premise; without it TLC finds the others waiting for ever. And SIGPIPE is not handled: a
  second `send` to a client that has left may end the server (`killed` in `Served`).
- `ip_stuff.c:128` frees `host_unknown_bad_AF` for a probe with a local error, where the
  comment at line 127 and `traceroute.c:63` tell the two apart: `FreedOnce` allows `"aborted"` only for it.
- The successive program never reads `first_ttl`, which its usage text (`options.c:32`) offers.

### Bounds, and why they are enough

- Three threads in `BankDeposit`: two can be in conflict while a third
  one takes part, e.g. two wait while one leaves. Two deposits: the smallest
  number in which a thread comes back, and in which an old value stored late can erase
  other threads' finished deposits.
- `BufferSize` = 2 lets a store of the section, and the lowering of the flag after it, wait
  together; AMOUNT 2 with transfers of 1 and 2 has last, whole and capped transfers.
- TCOUNT 3, threshold 4: no thread reaches the threshold alone (as with 10 and 12 in the
  program); the bonus of 2 can carry the count over the threshold and beyond (as 100 does).
- Three instances: one in `cs_init`, one in its section and one restarted after a kill.
- Two threads with three rounds in `SharedCounter`: the smallest numbers with the worst
  race (a result of 2); three rounds tell this bound from the number of rounds. How far an account is
  overdrawn is different for three threads: one of them may store an old, higher balance, after which the next
  test succeeds again. `RaceBounds` therefore gives that bound for two threads and, for any
  number, that the account never loses more than was withdrawn.
- Ring: two places and two producers make an index wrap between the load and the store of
  another one; NUMITEMS 4 goes round twice.
- Five numbers in `Cell`: the flag is raised and lowered more than twice, with both threads coming first.
- Traceroute: three rows of three; the command lines pass, miss and exceed each limit; with
  PORTS 16 the sum of port and probe wraps, as it does at 65536. A `-f` beyond the last row is included, `-f 0`
  is not (`TracerouteAssumption`): the array index would be negative.
- Messages: a third instance can come between two; a queue of two is full with one sender's messages
  and empty with one receiver's rounds.
- Echo: three clients and room for two, by the `fd_set` or, for `limit` 6, by the table too, so that one is turned away
  and a descriptor is used again; SNDBUF 1 makes `send` wait.
- No symmetry is used: the runs check liveness or are small.

### Fairness

Weak fairness of main and of every thread or process that has been started: the kernel schedules each
that can run. It is weak fairness of a thread's whole step, so a thread that waits for a mutex, a
semaphore or a message is not promised that it ever gets it while others come back; the
runs end because each thread has a bounded number of rounds.
`Peterson` adds fairness of
each store buffer: hardware drains it in finite time. `Cleanup` adds that time passes
(`MainTimeout` is part of `Main`) and that a blocked read reacts to a cancellation;
the reader of the name is *not* fair, because nobody has to type one. `Cell` and `PrintOrder` use
strong fairness of the two threads: with unbounded spurious wakeups, a mutex that is free again and again is
given to the other thread at last (the ready queue of a monitor is first come, first served).
`Traceroute` is one process. In `EchoServer` only the server is fair: nothing in the code makes a client
connect, send, read or leave. `Served` therefore has a premise instead of a fairness assumption: that the server
is not blocked in `send` for ever. A kill, a start of another instance, a spurious wakeup, a call that fails, and
whatever a client does are never fair.

## 4. Proofs

Eight proof modules, checked by tlapm; each is for every value of the constants, under the
assumptions named in the modules: `CSAssumption`, `BankAssumption`, `PetersonAssumption`,
`CellAssumption`, `WatchAssumption`, `PrintAssumption`, `CleanupAssumption`, `CounterAssumption` and
`ProgramsAssumption`, `EchoAssumption`, `IpcAssumption`, `MessagesAssumption`,
`TracerouteAssumption`, `RingAssumption`. They
say what the program's constants are (numbers, a name that is no thread's, the programs there
are); those with more to them are explained below. Where a module is taken by `INSTANCE`, its assumption is a
hypothesis of the theorem. The inductive invariants of components with parameters were checked by TLC on
the component's instance before they were proved.

Every safety property that a run checks is a theorem: all invariants, action properties and
refinements. What is left to TLC alone is liveness.

**BankDeposit_proofs, the library.** The inductive invariant `IInv` is the type invariant, mutual exclusion,
`TokenConserved`, and three facts they need: nothing is in use before `cs_init` (`Fresh`),
the mutex is unlocked by its owner (`MutexOwner`), and the flag `cs_var_allocated`
implies that the object is there (`Allocated`). `MutualExclusion` by itself is not
inductive: with a thread inside and a free token a second one enters.
`TokenConserved` (the token is free exactly when nobody is inside) rules that out. One lemma per operation shows that it
preserves the invariant, method by method.
Theorems: `TypeCorrect`, `Exclusion`, `Conservation` (`TokenConserved`), and `Refinement`
(`CSSpec => ImplementsMutex`, where `Holder` sees the section only under a sound method).

**BankDeposit_proofs, the program.** `BankImplementsCSSpec`: every step of the program is a step of
`CSNext` or leaves the library alone, so `IInv` holds in the program. `Aligned`
connects a thread's position with its position in the library: a thread at the store is
inside. With exclusion this gives `NoLostDeposit` (`Spec => []NoStaleBalance`): while one thread is
between its read and its write, nobody else stores. `DepositsExclude` carries over
mutual exclusion.

`KeptDeposits` (`RaceBounds`) is about the other case, where nothing is exclusive and each store may erase
any number of deposits. That the balance is the first one plus some number of whole deposits is easy; that the
number is at least two is not, since it says nothing of a balance a thread holds back. `KeptInv` adds: whoever has stored
once finds at least one deposit in whatever it reads later, so what it then stores has two; and the last thread
to finish, if it made two deposits, read its last balance after its first store. The upper bound counts the deposits stored
(`AllMade`), a finite set that grows by one element with each store. `JoinInv` says that main compares only
after every thread has made all of its deposits.

**Peterson_proofs.** The invariant has, beside the types: a raised flag is in memory
(`FlagsRaised`); no buffer holds a store to `turn`, to the other flag, or, while the thread
is in the section, to its own flag (`BuffersTame`, the fact that makes the memory model
harmless); the operands of the asm statement (`Operands`); one processor has one view
(`OneView`); and `Precedence`: a thread inside has precedence over one that asks, so the two
cannot both be inside. It holds for any buffer size and amount. Theorems: `TypeCorrect`,
`Exclusion`, `NotOvertaken` (the action property `NoOvertaking`) and `Refinement`.

`Conservation` (`MoneyConserved`) needs more, because the money is in memory, in two store buffers and
in a register at once. `Drained`: a thread that asks for the section has stored everything, and while one
holds back stores, the other cannot be inside and holds back none; the flag is the last store
of the section, so that when it arrives the balances have. `Balance`: what a thread reads and what
is on its way add up to `AMOUNT` as soon as the other one's buffer is empty, and what it is about to store is
not stale. The lemmas `LoadStore`, `LoadFlush` and `LoadSame` say how the value
a thread reads through its buffer changes with a store, a flush, and everything else.

**SharedCounter_proofs.** Three theorems compare a number with a sum over all threads. `SumOf` is a
recursive function, so what is needed of it (`SumOfSums`, `SumChange`: changing one summand changes the sum
by as much) asks for an induction. The library's induction rule has an operator as parameter, and cannot be used here;
`NatSet` states induction for a *set* of numbers instead, from the well-foundedness of `<`, and the lemmas are
proved by giving the set.
`Protects` (`LockProtects`): `SectionInv` and `LockInv` say that under a lock of any kind only the owner
is between load and store, so the value is the sum of what all threads have done, and is not below what is
still to be withdrawn. It is about programs whose threads were all created: the exit handler of another one
destroys the lock under the threads. `Detected` (`LostDetected`) is about the programs whose main compares,
`thread_add*.c` and `bank_withdraw*.c`: `KeptInv` says that the variable accounts for all that was done while no
store has overwritten another one's, and for strictly less afterwards; the second half needs that a number loaded and no
longer the present one lacks something too, for else a second lost update could make up for the first.
`Bounds` (`RaceBounds`): the upper bounds are in `KeptInv`; as for the deposits, whoever has counted once
loads at least 1 later (`RaceInv`); an account only falls (`AccountInv`); and `OneInv` and `PairInv` are the
cases of one and two threads, where a stale balance can only be from before the other one's last store.

**Synchronization_proofs.** In `Cell` the lock is held exactly from the entry to the end of the block (`LockHeld`), the flag tells
whether the cell holds a number not shown yet (`FlagRight`), and each loop counter is the number in hand
(`Counted`). With these `ReturnsInWindow` follows: the producer can be one number ahead of a consumer
that has left the lock and not returned yet, and not two. `Refinement` maps the write to `Produce`, the
message to `Consume` and all else to stutters, for any quantity and any interruptions.

`WatcherMeets` (`MetIfSignalled`), for any threads, rounds and threshold: nothing comes between a load of
`count` and its store (`WatchLockInv`), so it only grows, and a watcher woken by the signal and not yet in possession of the
mutex (`Woken`) still finds the threshold reached when it gets it.

`Cleanup` and `PrintOrder` have no number that grows, and TLC's instances of them are whole; the proofs
say *why* the properties hold. `NameLeaks` and `PostFindsSemaphore`: `NameStages` is what main's position says of the
thread and of the resources (past the join the thread is through); `NameBuffer` where the buffer is known to be
gone, where the handler is pushed, and what follows for a cancelled thread that has left its buffer: with the
handler, it was cancelled between `malloc` and the push.
`MonitorPrintsInOrder`: predicate and value change together, and `f2` gets past its loop only with the predicate
(`OrderMonitor`). `ColoursAreWhole`: `f2` has seen no more components than are set (`OrderColour`).

**IpcInstances_proofs.** The eight `cs_init` are data (`Calls`); `CallsTable` states once what they have in
common, and no other lemma looks into them. The invariant: how far each process is (`Stage`); who can
reach an object (`Exists`: a private one only its creator); a queue is empty before its first message, and only
SysV semaphores with SEM_UNDO have adjustments (`Before`); `Token`: an object in use has at most one token, and
none while a thread of *any* process that shares it is inside. `ThreadsExclude` speaks of the
threads of one process only, and is not inductive without the others: they use the same token. Theorems: `ThreadsExcludeEachOther`
and `NameOnlyInWindow`, for any number of instances, threads and rounds, with kills anywhere.

`LatecomersOnly` proves `LostOnlyLate` of `MessagesSV`, for any senders, receivers, arguments and any size of the
queue. The invariant (`MqLate`): if a receiver about to remove the queue still has the one the key stands for,
every message in it is of a sender that was not through at its last look, and all other senders are through. The
second look adds nothing to that: one would do, as the comment of `LostOnlyLate` says. It
needs that ids of queues are never used again (`MqTypes`), so that a receiver with an old id removes nothing.

**EchoServer_proofs.** `WatchesItsClients`: what the loop holds at each of its positions (`Placed`,
`Watched`), with the lemma that the kernel's lowest free descriptor is free (`FreeLowest`). `EchoesOwn` follows each
client's data on their way: `Whole` says that what it has read, what is in the server's socket,
the server's buffer and the client's socket are together, in this order, all it has sent; `Beginning`, `Untouched` and `Refused` say
what is left of this once a side has closed or was never accepted. A descriptor used
again is the crux: the buffer belongs to the client that has the descriptor *now*, because the server sends before it
closes or accepts. Any clients, messages, limits and sizes of the `fd_set`.

**Traceroute_proofs.** The probes are numbered along the rows, so the module starts with lemmas about
division. `RInv` (the probes before `pn` and no others are sent; the final probe; the search does not pass the
row of the final answers) gives `SearchesWholeRows`; `NInv` adds that each name is the
constant or a string allocated by a probe *with the same host* (`Named`: strings are shared between
probes) and what the row shows at the moment (`ShownBefore`), for `ShowsTheHost`; the last one adds the final loop, which
sets a shared pointer to NULL in all later probes before it frees it (`Strings`), for
`FreesOnce`. `TracerouteAssumption` demands that `MAX_TTL * MAX_PROBES <= PORTS`: 255 * 10 probes are fewer than
65536 ports, and a sequence of ports wraps at most once.

**StorageRing_proofs.** For any capacity, numbers of threads and of items. `InBounds` alone is not inductive: an index
is taken from `in` or `out`, so these are in the ring at that moment (`InRing`). In `producer_consumer.c`
and the Java programs they always are, since only reduced values are stored, stale as
they may be. `bounded_buffer.c` increments an index first and reduces it later, and is right only because one
thread uses each index: `InRing` says that the index is back in the ring when its thread is not
between the two. `QuitLast` needs `QuitterLast`: a quit item, in the ring or in a consumer's
hand, means that the last producer has started, and it starts when the others have ended. Theorems: `StaysInRing`,
`ProducersEndFirst`.

**Model-checked only.** Liveness, which needs fairness and ENABLED and is out of the prover's reach:
`Termination`, `TransfersComplete`, `Ends`, `Finishes`, `Settles`, `Served`. And of the type invariants only
those that a proof uses in full are proved.

## 5. What the models abstract

- Times, delays (`sim_work`, `sleep`), printing and statistics are left out, except where a property
  is about them (the `printf` calls of `Cleanup` are cancellation points, `PrintOrder` and
  `Traceroute` have what is printed). Options are constants, but in `StorageRing` and `Traceroute`
  their checks are part of the model.
- A thread's access to shared data is a load or a store of its own where the source has
  `x += y` or a function of the old value. Memory is sequentially consistent except in
  `Peterson`; everywhere else the accesses are between operations that order them, or
  the property is about the unprotected program anyway.
- System calls that fail without any effect on the shared state are left out where
  the program only reports them.
- `pthread_barrier_destroy` with threads waiting is undefined: the models have both
  outcomes that C libraries implement, waiting for ever and going on.
- In `IpcInstances` a thread is a member of `inside` or is not: the positions inside
  `cs_enter` do not matter there. The private mutex and the unnamed semaphore are not
  kernel objects and have no build.
- The ring's `count` of items is written and never read, and left out.
- A message of an echo client is a unit of data that is never parted, as little as a byte; what a client sends
  with one call may be several, and `recv` takes any number that has arrived. A `send` of the server waits for
  room and then passes on all of its buffer at once, so that `outbox` may exceed `SNDBUF` by that much. `recv`
  returns -1 only over a broken connection: the single-client server passes that on as a length of `(size_t) -1`
  to a `send` that fails too. Connections that the kernel loses by itself are left out.
- The basic traceroute's `traceroute_get_host` (lines 471-474) prints what the static buffer held for
  an address it cannot format; `NamesShown` therefore speaks of the first answer of a row there. The names of
  the probes after the final one are never freed, which `FreedOnce` says.

### Not modelled

- Exercises with holes: the template library `cs_methods.h`, `sync_working_threads_partial_*.c` (which also
  do not compile as they are), the pitching and barrier assignments, POSIX messages with priorities, threaded
  traceroute (the function that runs its threads is missing), address translation. Where the code of interest is a FIXME there is no
  behaviour to be faithful to.
- Straight-line programs of one system call each: processes, most signals, thread basics, most socket
  examples, shared memory, measurements, `race_fork.c`. No two actors share a state of the program there.
- The option parser of `bank_deposit_CPUtime.c`: sequential, and tested by its usage.

## 6. Hazards no property covers

`semop` interrupted by a signal (`everything.h:317`): signals that do not end a process are not
modelled. The stale registers of the optimised xchg build (`Peterson_xchg.h:60`): the model has them,
but no property promises anything for that build. `cs_destroy` under running threads (`everything.h:252`):
nothing excludes them afterwards, and `MutualExclusion` is about an object that is there. The watcher's addition
to `count` (`sync_cond_var.c:85`): that the mutex protects it is in the invariant of the proof (`WatchLockInv`).
The blocking `send` (`multi-client-echo-server.c:220`): the premise of `Served`, since the code does not guard
against it. Smaller ones: `WAIT_ITERATIONS` divides by
AMOUNT, which `bank_transactions_Peterson.c:80` does not check for 0, and `pthread_cleanup.c:103` does not look
at the result of `pthread_create`; both are sequential.

## 7. Left to do

Modelling: merged signals (`sigUSRwait.c`), the argument that a loop overwrites
(`pthread_arg_passing_bad.c`), and the option handling of the paging program, as pure operators. Proofs: a
sharp bound for the overdraft of an account by three threads and more without a lock.

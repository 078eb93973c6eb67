# The thread kernel in TLA+

This directory specifies the kernel of this repository, a small multithreaded
operating system kernel for one RISC-V core, model-checks it with TLC and
proves its safety properties with TLAPS.

## The system

| Component | State | Operations | Hard behaviour |
|---|---|---|---|
| Threads, `PCB.cpp` | `currentRunning`, per thread `state`, `finishedThread`, join list `head`/`tail`, saved context; `timeSliceCounter` | create, dispatch, exit, join, sleep, `run` and its release loop, `setFinished`, `setAllFinished` | blocking calls stop in the middle of a trap handler; the release loop runs in thread code, interrupts enabled |
| Scheduler, `Scheduler.cpp` | ready list | `put`, `get`, `getCnt` | `get` drops finished threads on the way |
| Semaphores, `Sem.cpp` | `value`, list of blocked threads, `opened`, `closed`; per thread `isReleasedAfterClosing` | open, close, wait, signal | wait's second half runs after an unbounded delay; closing with waiters |
| Sleeping threads, `sleepingThreads.cpp` | list of (thread, unsigned counter) | `addThreadToSleep`, `subOneTimeSlice`, `checkToRemoveThread` | removal while scanning, unsigned counter |
| Traps, `riscv.cpp`, `supervisorTrap.S` | `sip.SSIP`, `sepc`, `sstatus`, `Riscv::mode` | system call, timer, console and exception handlers | pending interrupts across a context switch |
| Console, `MyBuffer.cpp`, `main.cpp` | two ring buffers with three semaphores each | `putcB`, `getcB` | called from an interrupt handler and from thread code |
| Thread objects, `_syscall_cpp.cpp` | `myHandle` | `start`, `~Thread`, `finish` | the PCB is freed while its thread may be in any list |
| Memory allocator, `memory_allocator.cpp` | block list in the heap, `totalFree` | `mem_alloc` (best fit, split), `mem_free` (coalesce) | called from handlers and from thread code |
| Print lock, `printing.cpp`, `lock.S` | `lockPrint` | lock, unlock with lr/sc | a trap between lr and sc |
| C and C++ API, `syscall_c.h`, `_syscall_cpp.cpp` | handles | stubs of the system calls | tests made outside the kernel (`thread_exit`, `time_sleep`) |
| Bounded buffers, `buffer.cpp`, `ConsumerProducer_*_test.cpp` | ring of integers with four semaphores; `threadEnd`, `waitForAll` | `put`, `get`, `getCnt`, destructor; producers, consumer, main | several producers on one end; the end of the program |
| Other test programs and boot | | `main`, `userMain` | deletes PCBs |

All components share one core. A trap handler runs with interrupts disabled, but
for one into which the output thread's first `Sem::block`, outside a trap,
switches with interrupts enabled (`TrapContext`, `InputConsole`). A handler calls `PCB`, `Sem` and `sleepingThreads` directly; these call
`Scheduler::put`/`get` and finally `PCB::contextSwitch`, after which the *other*
thread's suspended handler goes on. Interaction is by shared state only.

What makes each part correct:

* threads and scheduler: no created thread is lost or listed twice; a join waits
  for the body; ready threads run; an exited thread never runs again;
* semaphores: the value counts the queue; signals go to the longest waiter; a
  closed semaphore tells its waiters, and only them, that it was closed;
* sleeping: nobody wakes early, nobody sleeps for ever, no counter wraps;
* traps: an interrupt is taken as often as it was raised; every thread goes on
  at its own `sepc` in its own mode;
* thread objects: a handle names the PCB made for it; a deleted thread does not
  run again;
* console, allocator, lock: no character or block is lost or handed out twice,
  one holder at a time;
* bounded buffers: a first-in first-out queue of the given size; the program
  that uses one ends, and deletes it last.

## Modules

| Module | Contents |
|---|---|
| `Kernel` | the specification of threads, scheduler, semaphores, sleeping and the timer |
| `Semaphores` | the abstract counting semaphore that `Sem` promises |
| `KernelProperties` | invariants, fairness, liveness, the refinement mapping to `Semaphores` |
| `KernelClock` | `Kernel` with two history variables: what a sleeper asked for and how many ticks have passed |
| `KernelProofs` | theorems about `Kernel` and `KernelClock` |
| `MemoryAllocator` | the specification of `mem_alloc` and `mem_free` on the block list |
| `Allocator` | the abstract allocator: live regions, none overlapping |
| `AllocatorProperties` | invariants, and the refinement mapping to `Allocator` |
| `AllocatorProofs` | theorems about `MemoryAllocator` |
| `OutputConsole` | the specification of the output buffer and of `outputConsoleThread`, by memory accesses, with the exceptions that finish all other threads |
| `OutputConsoleProperties` | invariants, fairness, liveness of the output |
| `OutputConsoleProofs` | theorems about `OutputConsole` |
| `InputConsole` | the specification of the input buffer: `consoleTrapHandler` and `getc`, with readers that are terminated and one that may be interrupted inside `getcB` |
| `InputConsoleProperties` | invariants, fairness, liveness of the input |
| `InputConsoleProofs` | theorems about `InputConsole` |
| `TrapContext` | the specification of what a trap saves and restores: `sepc`, `sstatus`, and the handlers on each thread's stack |
| `TrapContextProperties` | invariants of traps and switches |
| `TrapContextProofs` | theorems about `TrapContext` |
| `ReadyList` | the specification of `Scheduler` on linked nodes, with `PCB::run` interrupted inside `put` |
| `ReadyListProperties` | when the list is a queue |
| `Lifetime` | the specification of `Thread` objects and the memory of their PCBs |
| `LifetimeProperties` | invariants of handles and deleted threads |
| `LifetimeProofs` | theorems about `Lifetime` |
| `PrintLock` | the specification of the lock in `printing.cpp` and `lock.S`, by instructions |
| `PrintLockProperties` | invariants, fairness, liveness of the lock |
| `InterruptedProofs` | theorems about `ReadyList` and `PrintLock`, the two parts that are thread code and may be interrupted anywhere |
| `BoundedBuffer` | the specification of `Buffer` and of the program in `ConsumerProducer_C_API_test.cpp` |
| `Fifo` | the abstract bounded queue |
| `BoundedBufferProperties` | invariants, fairness, liveness, and the refinement mapping to `Fifo` |
| `BoundedBufferProofs` | theorems about `BoundedBuffer` |
| `MCKernel`, `MCKernelClock`, `MCAllocator`, `MCOutputConsole`, `MCInputConsole`, `MCTrapContext`, `MCReadyList`, `MCLifetime`, `MCPrintLock`, `MCBoundedBuffer` | the instances for TLC; the `.cfg` files give the constants |

`Kernel` is the centre: the other modules open one of its steps, or stand next
to it, and say what it may take for granted. `ReadyList` opens `PickNext` and
`Append(ready, ...)`; `TrapContext` opens the return from a handler;
`OutputConsole` and `InputConsole` use its semaphores and its dispatch with one
kernel thread or with interrupts; `Lifetime` gives its threads objects and
memory; `MemoryAllocator` is what all of these allocate from. Three components
have an abstract specification of what they promise, which the detailed one is
shown to implement: `Semaphores`, `Allocator`, `Fifo`.

### How `Kernel` corresponds to the code

Variables have the names of the members they model; lists are sequences, head
first. Four variables stand for where the processor is, not for a member:

* `frame[t]` is where the kernel left thread `t`: `"thread"` (in its own code),
  `"wrapper"` (never ran: the saved context is `PCB::wrapper`), `"tick"` (in
  `timerTrapHandler`), or the call in whose `contextSwitch` it stopped. The
  code after `contextSwitch` is an action of its own (`SemWaitReturns`,
  `TimerReturns`, `CallReturns`, `StartThread`), the only one enabled until the
  handler has returned.
* `where[t]` is where the thread's own code is: the body, the release loop of
  `PCB::run`, or past it. A turn of the loop is two steps, `ReleaseJoined` (the
  `put`) and `CurrAdvances` (`curr=curr->next` and the `mem_free`): it is thread
  code, and the thread just released may run and join again in between. A join
  between `curr=curr->next` and `mem_free` does what one after `mem_free` does.
* `scan` is `curr` of `checkToRemoveThread`; each turn of its loop is a step.
* `ssip` is the pending bit of the timer interrupt. Thread code runs only while
  it is clear, because the processor takes the interrupt first; the timer may
  set it at any moment, also inside a handler.

Every system call without a context switch is one action, since handlers are not
interrupted; the one that can be is left to `TrapContext` and `InputConsole`. The threads' programs are arbitrary: any thread may make any call
with any handle it can hold, and any thread may `terminate` another through the
C++ API. The two choices of `PickNext` are `Scheduler::get` and the callers'
fall-back to the idle thread.

Steps whose effect the code leaves undefined end the behaviour and are named by
`fault`: `nullWaiter` (`Sem::deblock` on an empty list), `staleTail`
(`PCB::join` through a freed node; the model has both outcomes, the harmless
one is `ThreadJoin`), `wrapper` (a terminated thread returns from its wrapper).
This is why the runs do not check for deadlock: after a fault nothing is
modelled.

Left out of `Kernel`: allocation failure, the freeing of PCBs (`Lifetime`), the
nodes of the lists (every list operation is atomic, also in `PCB::run`:
`ReadyList`), `sepc` and `sstatus` (`TrapContext`), the exception branch
(`OutputConsole`) and the console. `SemSignal` stops at `MaxValue`, the only bound in the
specification; sleepers count modulo `TimeModulus`.

### How `MemoryAllocator` corresponds to the code

`desc` maps the address of each list node to its `FreeMemDesc`, so the heap is
modelled at its addresses: a new descriptor is written where `Split` computes,
and `EndOf` reads the end of a block from the next node, as the code does. `held`
has no member behind it; it is what the callers know, a pointer and the size
they asked for, and is there to state properties. Every call is one step, since
the handlers run with interrupts disabled. `mem_alloc` is `AllocSplit`,
`AllocWhole` or `AllocRefused`, `mem_free` is `MemFree` or `FreeRefused`; any
pointer may be passed to it, and any request in `Requests` made. The search for
the best fit and the search of `mem_free` follow `next` from `head` (`Walk`), so
a node that is no longer linked is not found. The stub's rounding to blocks and
the conversion to `int` in the test against `totalFree` have their width,
`IntModulus`.

Left out: `reallocate` and `memcpy`, which nothing calls; the calls of
`PCB::run`, which runs with interrupts enabled; requests of 2^32 bytes and more,
of which the stub drops the upper half. `Kernel` does not use this module: its
allocations never fail.

### How `OutputConsole` corresponds to the code

`putc` is a system call, so `MyBuffer::putcB` is one step (`putcB`; a character
that finds the buffer full is dropped, which is no step at all). Its two
semaphores are `itemAvailable`, whose value and list are `value` and `inList`,
and `mutexTail`, which is always free when a handler takes it. The output thread
calls `getcB` without a system call. Its loop, `getcB`, `Sem::semWait` and
`Sem::block` are therefore taken apart where another thread's step between two
memory accesses could be noticed: `value--` and `count--` are a load
(`LoadValue`, `LoadCount`) and a store, and `block` is `SetBlocked`, `Enlist`,
`Choose` and `SwitchAway`. `SIE` is the interrupt enable bit while that thread
runs; `context` says whether it was suspended in its trap handler, which gives
`sstatus` back, or in `Sem::block`, which does not. `accepted` and `taken` record
the characters, `blocked` and `raced` that the thread has blocked at least once
and that a tick has hit it in a place where that matters.

An exception of a user thread (`Exception`) is one step: the handler prints, then
`setAllFinished` drops every ready thread, puts the output thread into the list
and dispatches to it. Printing matters: its first character, when there is room
for it, signals `itemAvailable` and so takes the output thread out of that
semaphore's list before `setAllFinished` lists it again; a buffer that is full
means that the thread is not waiting. The model prints one character; the others
only add to the buffer. The handler is taken to print undisturbed: if a thread
holds `lockPrint` then, the `LOCK` in the handler dispatches inside it, and the
handler's second half comes later, as an exception at that moment would; if the
exception is the lock holder's own, it never comes.

Left out: the pieces of the list, heap and scheduler operations in `block`,
which are atomic; `mutexHead`, which no other thread uses; characters that a
user thread writes after it has been resumed by a thread with other interrupts.
`Users` are not `main`: `main` polls `getCnt` at the end, and goes on exactly
when `taken = accepted` and `count` is right. `MaxChars` bounds the characters,
`CountModulus` is the width of `count`.

### How `InputConsole` corresponds to the code

`Key` is `consoleTrapHandler` for one key, with `MyBuffer::putcB` and
`Sem::semSignal` inside; it returns to the interrupted thread. `getc` is a
system call: `GetcPasses` when `itemAvailable` has a key, or `GetcBlocks`, which
leaves the reader in `Sem::block` inside `getcB`, and `GetcReturns` when it runs
again. In these the interrupts are off, so the rest of `getcB` (`TakeKey`) is
one step.

There is one exception. The output thread calls `Sem::block` outside a trap, the
first time with interrupts enabled (`OutBlocks`), and `contextSwitch` hands them
to the thread it switches to. If that is a reader suspended in `getcB`, it goes
on there with interrupts enabled (`enabled`), and ticks and keys come between
any two of its accesses: `Lock`, `LoadCount`, `StoreCount`, `LoadValue`,
`StoreValue`, `Deblock`, with `register` for what it has loaded. It may also be
switched away while it holds `mutexHead`; then other readers block on that
semaphore inside `getcB` (`Queues`) and inherit it (`GetcInherits`). `place` is
where in `getcB` each reader is. After the return to user mode its interrupts
are like everybody's. `mutexTail` is always free when a handler takes it.

Nothing keeps an interrupt from the wrong moment; `raced` records it. There are
three: a key between the load and the store of `count--`, another's wait
between the load and the store of `mutexHead`'s value, and a tick or key inside
`deblock`, where a `put` or `get` of the handler meets that of `deblock`.

`Terminate` marks a reader wherever it is; it stays in its list until
`Scheduler::get` meets it (`SwitchFrom`). `accepted` and `taken` record the
keys. `MaxKeys` bounds them. Left out: the output thread after its first block,
when it runs with the interrupts of a handler; ticks inside that block itself,
which `OutputConsole` takes apart; and what `mem_free` does inside `deblock`.

### How `TrapContext` corresponds to the code

The core has `mode`, `SIE`, `SPP`, `SPIE`, `sepc` and its `pc`. Entering a handler
is `TrapEntry`, what the processor does, and `Enter`, which pushes a frame of
`supervisorTrap` with the locals in which the handler keeps `sepc` and `sstatus`;
`Return` writes them back and executes `sret`. `Switch` is any handler's way
through `contextSwitch`, which exchanges `ra` and `sp` only, to any thread that
is not finished; `BlockDirectly` is `Sem::block` called by the output thread
without a handler. A thread that never ran starts in `PCB::wrapper`, in the trap
of the thread before it, and goes through the three steps of `popSppSpie`: `SPP`
(`popSpp`), `csrw sepc, ra` (`WriteSepc`) and `sret` to wherever `sepc` says
(`popSpie`). If the thread before it was the output thread in `block`, interrupts
are enabled there, and a trap may come between any two of them; one between the last two
overwrites `sepc`, and `astray` records its victim. An `sret` in user mode
is an exception. A body is two instructions, of which any may trap. `due` and `dueSIE` record where
a thread left its body, and with which interrupts.

`PassThrough` are the handlers that return without touching `sepc` or `sstatus`:
the keyboard's, a tick inside a slice, an unknown system call. Left out: the
registers `supervisorTrap` saves on the stack, which only their thread reaches;
which thread is switched to and when, which is left open.

### How `ReadyList` corresponds to the code

`list` has `head`, `tail`, and `next` and `thread` of each node; `used` are the
nodes that are allocated, of which `mem_alloc` finds the lowest free one. `Put`
and `Got` follow `Scheduler::put` and `get` statement by statement, and `Chain`
the `next` links. In handlers both are single steps, inside `Dispatch`, `Wake` and
`Leave`. `PCB::run` calls `put` with interrupts enabled, so there it is taken
apart into seven steps, from `FindNode` to `FixHead`, in the order in which the
compiler given by the Makefile accesses memory; `node` and `place` are registers.
`queue` records the order of the puts, what `Kernel` takes the list for.

An interrupt may come before every one of these steps, and its handler takes and
puts nodes as it does anywhere. `raced` records that one has come where it does
damage (`Hit`): before *mark*, *link* or *tail*, before *close* when the thread
has been terminated and so will not come back to close the list, and, in
`Close` and `FixHead`, when handlers have emptied the list. What happens then
the model goes on to show; the properties are about the time before. A `fault`,
which ends the behaviour, is a null pointer or a cycle that was followed, or a
node whose thread was never written.

### How `Lifetime` corresponds to the code

`Start` is `Thread::start` with `thread_create`, which allocates the PCB at any
free place in `Memory`. `~Thread` is three steps of the thread that deletes,
with ticks between them: `Mark` (`setFinished`), `FreeStack` (`~PCB`) and
`FreePCB` (`operator delete`); `phase` says how far it is. `Terminate` is
`Thread::finish`. An entry of a list has the PCB it points to and, as history,
the thread for which it was put there. `ready` is the ready list; `away` holds
all entries of waiting lists, from which any may come back (`Wake`). `Exit` is
`thread_exit`, whose `delete` follows a dispatch that never returns
(`LeftByExit`).

`Memory` is part of the heap that serves everything. A freed PCB keeps its
content until `mem_alloc` gives its place away, to a new PCB (`Start`) or to a list
node, a semaphore or a buffer (`Overwrite`), or `mem_free` puts the header of a
free block there; what was `finishedThread` is then whatever that user writes.
`overwritten` records the threads to whose PCB this happened while a list still
named it.

The model takes three things from the programs in the repository: an object is
started once, deleted only after it was started (`~Thread` would follow a null
handle), and not by its own thread.

### How `BoundedBuffer` corresponds to the code

`pc[t]` is the line thread `t` is at: in `put`, `get` and `getCnt` one for each
semaphore call, one for each access to the ring that another thread could get
in between; in the threads' functions one for each test of `threadEnd`, of the
key and of the count. A semaphore is its value and its queue; a system call is
one step, because the kernel does not interrupt handlers (`Kernel` has their
insides). A thread is blocked while it is in a queue. Thread numbers are the
`id`s of the code: 0 is the keyboard, `threadNum` the consumer; main comes last.
Items are the ids of those who put them, and `Bang` the last `'!'`. The threads
are created and main accepts the two numbers in one step, `mainStart`: none of
them shares anything with main before. `mainDelete` is a turn of the
destructor's loop. What the consumer does with an item, `thread_dispatch` (any
thread may be preempted anywhere) and the final `sem_close` calls, which find
empty queues, are left out. `MaxKeys` bounds the keys before escape.

### How `PrintLock` corresponds to the code

`lockPc[t]` is the place of thread `t` in `LOCK`, in the section between, or in
`UNLOCK`: `Load` is `lr.w` and `bne`, `Store` and `Retry` are the two outcomes of
`sc.w`, `Yield` is the `thread_dispatch` of `LOCK`'s loop. The processor has one
`reservation`, and the model remembers which thread's `lr` made it. A trap
(`Trap`) may come between any two instructions and go on with any thread. The
constant `Keeps` says what it may do to the reservation: the architecture leaves
that to the implementation, which may keep it, and asks the code that switches
threads to drop it with an `sc`, which `supervisorTrap.S` and
`contextSwitch.S` do not do. `stolen` records that an `sc` has used a reservation of
another thread. What happens in the section, including the traps of `putc` and
`getc`, is left out, as is an `sc` that fails with its reservation intact.

The operators marked `mutant` are not used by the specification. Each is a
plausible mistake in the definition it precedes; putting it in that definition's
place violates the property listed with it in `PROJECT.json`.

## Runs

| Run | Question | Instance |
|---|---|---|
| `kernel` | the safety properties of threads and semaphores, and the refinement | main, idle, 2 threads, 1 semaphore, slice 2, sleep of 2; 1.29 million states |
| `kernel_live` | `ReadyRuns`, `SleeperWakes`, `JoinersReleased` | main, idle, 2 threads, slice 2, sleep of 1; 179 586 states |
| `sem_live` | `WaitersServed` | main, idle, 2 threads, 1 semaphore; 410 516 states |
| `clock` | `SleepersAwaitTime`, `TickTakenAtMostTwice` | main, idle, 2 threads, sleeps of 1 and 3; 284 464 states |
| `allocator` | the block list, its counter and the refinement of `Allocator` | a heap of 29 bytes, blocks of 2, descriptors of 1 (2 with padding), five request sizes; 8621 states |
| `output_console` | `putc` and exceptions against the output thread | two users, a buffer of 2, 4 characters, `count` modulo 8; 7935 states |
| `input_console` | keys against readers | three readers and the output thread, a buffer of 2, 5 keys, `count` modulo 4; 153 478 states |
| `trap_context` | traps, switches, starts and returns | two users, main, the output thread; 1.13 million states |
| `ready_list` | `put` and `get` on nodes, and the bound on the nodes | three threads, three nodes; 194 183 states |
| `lifetime` | objects, handles, freed PCBs in the common heap | three objects, room for two PCBs; 272 355 states |
| `print_lock` | the lock of the printing functions | three threads, traps that keep or drop the reservation; 4788 states |
| `bounded_buffer` | the ring, its refinement of `Fifo`, the end of the program | 0 to 3 producers, sizes 1 and 2, one key before escape; 144 673 states |

The type invariants, `ExitedNeverRuns`, `WasteBounded`, `NullWaiterNeedsClose` and
`WordTellsHolder` are not among the runs' properties; those that are proved are
listed below.

Why the bounds suffice: three threads besides the idle one are a running one
and two in the same list, or one in each of two lists, which is all that an
overtaking, a double insertion or a removal in the middle of a list needs.
Slice 2 is `DEFAULT_TIME_SLICE`; with 2 a handler both continues and preempts.
A semaphore with values from -2 to 1 blocks, passes and queues two. Threads and
semaphores are interchangeable in `Init` and `Next`, so safety runs use
symmetry; liveness runs do not.

The heap of `allocator` has room for up to seven blocks, so that blocks are split
and merged at both ends and in the middle of the list and best fit has a choice.
The requests are 0, less than a block, sizes that need rounding, and 40, which
becomes negative as an `int` (`IntModulus` is 64): it passes the first test and
is refused by the search. The descriptor needs padding to a block.

Four characters in a buffer of two fill it, wrap it and overflow it; with
`count` modulo 8 a count below zero is far above the size, as with 64 bits. Two
users fill the buffer from two threads and let each other run while the output
thread waits. Up to two producers and two slots make producers wait for each
other, for space, and for the consumer; three producers are more than any of the
two sizes allows, and none is fewer than one, so both refusals happen.

Three readers and a buffer of two let one reader run while two wait, let two
released readers be terminated (as many as the buffer has places, which is when
the keyboard dies), and keep one that notices. They are also one reader that the
output thread has handed its interrupts to, one that waits for it to give up
`mutexHead`, and one that runs. Five keys go round the ring twice. Two user
threads, main and the output thread are one thread of each kind
and a pair of equal ones; frames nest as deep as they can (`NestingBounded` holds
at 3 and fails at 2). Three threads are one in the middle of `put`, one that it
releases, and one that the tick puts or finds in the list; as many nodes as
threads is the claim. Three objects over two places reuse each place and
delete a thread while another one still runs in the PCB's old memory.

What the runs show beyond "holds":

* The output thread starts with interrupts enabled. Until its first `block`, a
  tick inside `getcB` may lose an update of `value` or `count`, or leave the
  thread `BLOCKED` in no list; a `count` that passes below zero makes `putcB`
  drop everything, one that stays above zero makes `main` wait for ever at its
  end. `block` then leaves interrupts disabled for that thread for good
  (`MaskedAfterBlocking`): nothing more goes wrong, but what did remains. The
  first call finds an empty buffer unless a user was faster, so the window is
  short. `BufferExact`, `SentInOrder`, `OutThreadKept` and `OutputDrains` say
  what holds when no tick hits it.
* `setAllFinished` would list the output thread twice, or leave it in the list of
  `itemAvailable`, if the exception's handler did not print first
  (`OutThreadKept`).
* A key signalled to a reader that is then terminated stays in the buffer and is
  given to a later reader; the buffer has one place less until then.
  `KeysAccounted` counts them. When every place holds such a key and no reader
  was let through since, `putcB` drops all keys and each `getc` blocks for ever.
* One reader can be interrupted inside `getcB`, on the ordinary way through boot:
  a thread waits in `getc` when the output thread first blocks. If a key comes
  between the load and the store of its `count--`, the key's `count++` is lost.
  A `count` that is one too low lets `putcB` overwrite a key that was not read
  (`KeysInOrder` fails without `~raced`), and later wraps below zero, after which
  `putcB` drops every key although no reader died. `KeyboardAlive` lists this,
  dead readers, and a reader that dies with `mutexHead`, as the only ways in
  which the keyboard dies; `KeysAccounted` and `KeysInOrder` say that an
  interrupt at any other moment of `getcB` does no harm.
* `PCB::run` puts with interrupts enabled. What follows if a handler comes
  between two of its steps: before the node is *marked*, two users take the same
  node; before it is *linked*, it is linked behind a tail that `get` has freed;
  before *tail* is set, or the list *closed*, a node put by the handler is lost
  or the end is cut in the wrong place; before the head is *fixed*, the head of a
  list that was emptied becomes a node that was freed. All of these are in the
  model, and none of them is kept away. `ListIsQueue` says that it takes one of
  these: interrupts that come at any other moment, in the middle of `put` too,
  leave the list the queue that `Kernel` assumes, which needs no more nodes than
  there are threads (`NodesSuffice`).
* The `delete` in `thread_exit` is never reached. This leaks a PCB for each
  thread, but it also keeps the handles right: were it reached, `~Thread` would
  mark and free a PCB that may be another thread's (`HandlesOwn`). The mark that
  `~Thread` leaves in freed memory is what makes `get` drop a thread deleted
  early (`DeletedNeverRuns`), in the middle of `~Thread` and after it, and it
  works until anything is allocated in that memory, a list node as well as a
  PCB. `main`'s own `delete` of its threads' PCBs leaves no mark.
* A thread comes back to its own instruction, mode and interrupts through any
  nesting of handlers (`ResumesOwn`, `InterruptsKept`), although `Sem::block`,
  called directly by the output thread, hands its enabled interrupts to the
  handler it switches to, and one tick can then interrupt that handler
  (`NestingBounded`). It is essential that the output thread is started before
  anybody can do so: a tick in `PCB::wrapper` takes away the `SPP` that was just
  set, which does no harm to a user thread only because `sret` leaves `SPP` as
  user.
* If that `block` switches to a thread that never ran, a trap may come between
  `csrw sepc, ra` and `sret` in `popSppSpie`. It leaves `sepc` at the `sret`, with
  `SPP` user: the thread executes `sret` in user mode, which is an exception,
  and the handler finishes every thread. It is in the model (`astray`);
  `ResumesOwn` says that this is the only way not to come back, that the thread
  then never gets to its body, and that it can happen to one thread only.
* Where traps keep the reservation, the lock does not exclude: thread A reads 0
  and is interrupted, B takes the lock, C reads 1 and leaves its reservation
  behind, and A's `sc` uses it. `Exclusive`, and `WordTellsHolder`, proved below, show that this
  is the only way, whatever the interleaving; where traps drop it, as emulators
  commonly do, there is none (`DroppingSuffices`). After it, `UNLOCK` may find a
  0, and loops without dispatching until another thread takes the lock. No
  thread is promised the lock, only that one of those that want it gets it
  (`LockServed`).
* The test of the two numbers in `producerConsumer_C_API` is what keeps the
  program from hanging (`ProgramEnds`): after escape each producer
  may put once more with nobody left to make room. With three producers and two
  places, were they accepted, main waits for ever. The message printed with the
  test says the reverse.
* Closing a semaphore leaves its negative value behind. A later `semSignal`
  finds an empty queue; `NullWaiterNeedsClose`, proved below, shows that this is the only way
  to the null dereference, and the fault is reachable.
* One tick can be counted twice: `timerTrapHandler` preempts, the next thread
  was suspended in a system call, returns from it with `SSIP` still set, and
  takes the same tick again. `TickTakenAtMostTwice` bounds the damage: a sleeper
  sleeps at least half its time. (With a slice of 1 there is no such bound.) A
  tick may also be lost, when the timer raises it between the switch back into
  `timerTrapHandler` and its last line.
* The release loop of `PCB::run` may go on for ever if released threads join
  again before it reads `curr->next` (between `ReleaseJoined` and
  `CurrAdvances`); each single joiner is still released (`JoinersReleased`).

### Fairness

`FairSpec` assumes that the machine timer keeps ticking (`TimerRaise`), that
handlers run to their end (`Timer`, `Returns`: straight-line code with finite
loops, interrupts disabled), and strong fairness of the release loop of each
thread: a thread that is given the processor again and again executes some of
its instructions, because a tick is far longer than a handler. Nothing is
assumed of the threads' own programs; that they may loop for ever is what makes
`ReadyRuns` a statement about preemption.

In `OutputConsole` ticks keep coming (`UserSwitches`); the output thread, which
gets the processor again and again, executes some of its instructions each time
(strong fairness of `getcB` and `Send`), and a console that is polled again and
again is ready again and again (`PollReady`), or `thread_dispatch` is called
(`PollBusy`). In `InputConsole` ticks keep coming (`Dispatch`), a handler that was switched
back into runs to its end (`GetcReturns`, `GetcInherits`), and the reader that can be
interrupted executes some instructions each time it gets the processor (strong
fairness of `Interrupted`); no key is ever promised.

In `PrintLock` every thread gets the processor again and again and executes some
instructions then (`PrintStep`; a call of its own is never forced), an `sc` does not
always find its reservation dropped (`Store`: a tick is far longer than the three
instructions), and what is read or written in the section comes to an end.

In `BoundedBuffer` every thread that is not blocked goes on in the
end, which `ReadyRuns` of `Kernel` is about, and the user types on until escape:
the keyboard's weak fairness, with `MaxKeys` keys at most. None of these needs
fairness between waiters of a semaphore, since its queue is in the model.

## Proofs

Every theorem is about all values of the constants that satisfy the named
assumption of its module, and about nothing more: any number of threads,
semaphores, producers or readers, any size of a buffer. `OutputConsole` and
`InputConsole` ask for finitely many threads; the code has at most as many as
fit into its memory.

### `KernelProofs`

From `ThreadAssumption` and `NumberAssumption`. The invariants build on each
other, in this order:

* `TypeCorrect`: `Spec => []TypeOK`. The work is in `PickNextType`,
  `SwitchType` and `DispatchType`, used by every action that switches.
* `QueueMatchesValue` and `NullWaiterOnlyAfterClose`: from `SemInv`, which adds
  that a semaphore never opened has value 0 and is not closed. Without it
  `sem_open` could overwrite the value of a semaphore that has a queue. A fault
  on an open semaphore would need a deficit with an empty queue.
* `NoSleeperWraps`: `SleepersAwaitTime` is not inductive, since the tick must
  find `scan = 0`. `ScanInv` adds that only the running thread can be in the
  tick handler and that it is there exactly while `scan # 0`; `SwitchScan`
  shows that a switch leaves nobody there.
* `ThreadInOnePlace`: `OnePlace` alone does not survive a `thread_create`, which
  appends a thread that might be in a list already. `PlaceInv` adds that no list
  holds a thread without a PCB, and that the running thread and the idle
  one have theirs. It is written as `Nowhere`: the threads that are absent from
  all lists, among them the running one. Each action takes a thread out of one
  list, or puts one that is absent into one; the lemmas about `Append`, `Tail`,
  removal and `PickNext` say what that does to the others.
* `ThreadNeverLost`, `JoinAlwaysWaits`, `ExitedThreadNeverRuns`: three parts of
  one invariant, `CallInv`. `Placed` is `NoThreadLost`, `Released` is
  `JoinWaitsForBody`, `Exited` is that an exited thread is finished and does not
  run. They need each other, and two more: `Parked` says that a thread in a list
  is suspended in the call that put it there, with the handle of that very list,
  and `Marked` that a thread in the ready list is `READY` or finished. Without
  `Parked` a `semSignal` could make a thread ready that sleeps; without `Marked`
  the thread `Scheduler::get` returns might be one that waits elsewhere. `Calls`
  is the invariant while no thread is chosen, in the middle of a dispatch.
* `FlagReachesItsWait`: `CloseFlagAddressed` is `FlagInv`, inductive together
  with `CallInv`: `sem_close` flags threads that `Parked` says are in
  `semWait` and empties their list, and the thread that runs, which alone could wait again, is
  not flagged unless it is on its way out of `semWait`.
* `SemaphoresImplemented`: `Spec => ImplementsSemaphores`. Each of the four
  semaphore calls maps to its abstract action (`SemStep`); that a signal serves
  the head of the queue, and that the value is the permits, is `SemInv`; that no
  thread is in a queue when it waits is `PlaceInv`.
* `TickAlwaysTakenAtMostTwice`: about `ClockSpec`, and for a slice of more than
  one tick (the code's is 2; with 1 a tick could be taken again and again).
  `TickTakenAtMostTwice` says nothing of a tick that is pending. `ClockInv` adds
  to what each sleeper has been charged how often the pending tick can still be
  charged, `TakesLeft`: not at all in the handler that acknowledges it, once
  where the slice lasts on or in the handler that is to preempt, otherwise twice.

Two theorems are about steps; TLC agrees with them on the instance of
`kernel`, and no run lists them:

* `ReadyThreadsMoveUp`: a ready thread that has not finished stays at its
  place in the list while the running thread stays, and whenever another thread is
  chosen it is that thread, or it moves up. So it waits for no more switches than its
  place says, whatever is put behind it: the bound under `ReadyRuns`, of which
  the prover cannot treat the rest. Every step leaves the list growing at its
  end or ends in `PickNext` (`StaysOrChosen`); that the choice falls on another thread
  than the one running is `PlaceInv`.
* `ReleasedToReady`: a thread that sleeps, waits or has joined leaves
  its list only for the ready list, in the same step. `Parked` before the step and
  `Placed` after it, with `OthersSuspended`: no step changes where any
  thread but the running one is suspended.

### `AllocatorProofs`

From `HeapAssumption`: a heap with room for a
descriptor, below half the width of `int`, and requests below that width.
`HeapInvariant` is the inductive invariant `HeapInv`, of four parts:
`WellFormed` (the links lead both ways, each block ends where the next begins,
and of two blocks the lower ends before the upper), `Merged` for every block,
`HeldInv` (callers hold exactly the used blocks, each of a size that suits
its request), and that the counter is a number. The last part of `WellFormed` is what makes it inductive: without
it a new descriptor might fall on an old one. `SplitShape`, `AbsorbShape` and
`FreeShape` show what splitting and merging do to the list.

* `TypesHold`, `HeapIsTiled`, `FreeBlocksAreMerged`, `CallersHoldUsedBlocks`,
  `LittleIsWasted`: each follows from `HeapInv`.
* `PromiseKept`: `Spec => ImplementsAllocator`. `HandOutPromised` and
  `TakeBackPromised` map a step of either call to the abstract one; that the new
  region is large enough is `EnoughBytes`, about the rounding.

* `FreeAlwaysCounted`: `totalFree` is the sum of the free blocks. Each call
  adds blocks to the set of the free ones, takes some away or changes the size of
  one (`GivesBack`); that a sum over a set changes by that element's part (`Total`)
  is an induction over the set.
* `NeverRefusedEarly`: a request is refused only if no free block is large
  enough. This is the one place where it matters how far a search along
  the list gets. Every node has a rank, the number of nodes below it; the walk
  from `head` is at the node of rank n after n steps, so it meets them all.

Both need an induction over data, for which the library's induction theorems
cannot be used. The proofs look at a least counterexample instead: of the sets, or numbers, that violate the
claim there is a least one, since strict inclusion of finite sets, and `<` on the numbers, are
well-founded (`SetInduction`, `Least`); these theorems take a set and no
operator.

### `BoundedBufferProofs`

From `BufferAssumption`. `BufferInv` derives the value of each semaphore from
where the threads are: `Number(S)` is how many of them are at the places `S`.

* `ControlInv`: each thread is at a line of its own program, and a semaphore of
  value -k has k threads in its queue, each once, each behind its `wait`.
* `ValuesRight`: the mutexes are 1 less their holders; the space, the items and the threads between are
  `n`; `waitForAll` is those that have ended less those main has waited for.
* `RingRight`: the distance from `head` to `tail` is the items and the threads
  that have moved one index and not yet signalled, or waited and not yet moved.
* `MainRight`: while main deletes, all others have ended.

The number of threads at a set of places changes by at most one with each step
(`NumberMoves`), which is what makes the sums inductive.
`SlotsAlwaysBalanced` and `AlwaysDeletedLast` follow. `NeverOverwritten` is one more part of `BufferInv`: since
`mutexTail` has one holder (`OneAtTail`), no second producer writes between
a write and the move of `tail`.

`FifoImplemented`: `Spec => ImplementsFifo`. A step changes the queue exactly when
it moves an index. `RoomToPut` and `ItemToGet`, from the sums, say that `tail` is moved only
when there is room and `head` only when there is an item, so `tail` never
passes `head`; `RingPut` and `RingGet` say that the mapped queue then gets
one item more, or loses the first; `WriteIsHidden`, that a write to the slot at
`tail` does not show.

### `OutputConsoleProofs`

From `ConsoleAssumption`.

* `AlwaysMaskedAfterBlocking`: inductive with `StaysMasked`: after the first
  block, whoever runs, the interrupts the output thread will be given back are
  disabled, those of the handler `block` returns into or those it was trapped with.
* `AlwaysBufferExact`, `AlwaysSentInOrder`, `OutThreadAlwaysKept`: from
  `OutputInv`, which holds until a tick hits `getcB` (`raced`). `DataInv` derives
  `count` and `value` from the characters stored and the place in `getcB`, and
  adds that what `getcB` has loaded is still right and that the ring holds
  the characters accepted and not yet taken, in order. `ControlInv` says where the
  output thread is, that it waits exactly where the value says so, and that
  nobody else runs while it is at a critical place. Neither is inductive without the other:
  `semSignal` in `putcB` looks at the value to decide whom to make ready.

### `InputConsoleProofs`

From `InputAssumption`.

Both theorems follow from `InputInv`, which holds until an interrupt parts a
load from its store (`raced`). Its parts:

* `RowsRight`: a thread runs, or is once in the ready list, or once in the list of
  one of the semaphores and then at the place in `getcB` where it waits for it.
  Without it a signal might release a reader that is released already, and the
  released ones would not become more.
* `ValueRight`: the value of `itemAvailable` tells how many wait.
* `KeysRight`: the property `KeysAccounted`.
* `MutexHeld`: some reader, or none, holds `mutexHead`, and the others past
  `itemAvailable` wait for it; only the interruptible reader is in the middle of
  it, and what it has loaded is still what is in memory. This is what makes the
  two halves of `count--` amount to `TakeKey`.
* `InputRing`: the ring holds the keys accepted and not yet taken, in order; the
  interruptible reader may have taken one that it has not counted off
  (`Uncounted`). A key is there to be taken because its reader is one of the
  released ones that `KeysRight` counts.

`AlwaysKeysAccounted` and `KeysAlwaysInOrder` are the third and the last part.

### `TrapContextProofs`

From `ContextAssumption`.

* `ContextInvariant`: the inductive invariant
  `ContextInv` says what each frame on each thread's stack leads back to
  (`FramesRight`: the bottom one to the body, with the mode and interrupts it is
  due, or to the start of a user thread; every other one to a handler) and where
  each suspended thread goes on (`SuspendedRight`). Two parts are not about one
  thread. `StartsMasked`: until the output thread has started, interrupts are
  enabled in bodies only, so that it is not interrupted between setting its mode
  and its `sret`. `AstrayRight`: a thread that was interrupted between `csrw
  sepc` and `sret` is a user thread, and at that `sret` or in a handler that
  leads back there. `EnterKeeps`, `SwitchKeeps` and `ReturnKeeps` are the three ways
  a stack or a thread changes. `InterruptsAlwaysKept` follows, and, with what
  `NestingInv` says of the one permission, `AlwaysResumesOwn`.
* `NestingAlwaysBounded`: a bound of three on one stack does not follow from what
  is on that stack, since `block` may hand enabled interrupts to any handler.
  `OneUnmasked` says that there is a single such permission in the whole
  system: the output thread brings it, `block` hands it on, and a frame keeps it
  for as long as the tick that used it is on the stack. `DepthRight` says what is
  above the first frame: the call by which an exception's handler prints, or a handler
  that the permission let in.

### `InterruptedProofs`

The scheduler's list and the lock share nothing but what makes them hard: they
are run by threads with interrupts enabled.

The list, from `ListAssumption`. `ListIsQueue` speaks of the states up to the
first hit in which the running thread is not in the middle of its `put`. It is
not inductive: it says nothing of what `put` has done and has still to do.
`ListInv`, which holds until `raced`, does:

* there is a list of nodes, each once, linked from `head` to `tail`, whose threads are
  `queue` (`Holds`); in the middle of a `put`, `list` is what the steps taken so far
  have made of it (`ListInPut`);
* the nodes in use are these and those that threads in the middle of a `put`
  have marked, each by one thread (`NodesApart`);
* no thread is twice in the queue, or there and running, waiting, or about
  to be put (`ThreadsApart`);
* only the running thread is at a critical place (`OnlyRunning`): a thread
  interrupted there would be a hit.

The list is what is reached along `next`, a recursion as long as the list.
That a sequence of nodes, each leading to the next, is what the recursion
reaches (`ChainIs`) is shown by the least place at which it would not be.

* `AlwaysTheQueue`: `Spec => []ListIsQueue`.
* `EnoughNodes`: with at least as many nodes as threads, and up to the first hit,
  `put` always finds one, and `get` finds no cycle. Each node in use has its own thread,
  and the thread that puts is none of them.
* `QueueImplemented`: every step is one of `QueueNext`, which knows of no nodes:
  a queue of threads to which `put` appends, and from which `get` takes the first
  that has not ended, up to the first hit. It is what `Kernel` takes `PickNext`
  to be.

The lock, from `LockAssumption`. `Exclusive` and
`WordTellsHolder` are not inductive: an `sc` must find the word as the `lr` of its
own thread read it. `ReservedUnchanged` says that it does while the reservation
is still that thread's, for every store to the word is an `sc` and takes the
reservation away. `LockExcludes` and `WordIsRight` follow; `DroppingSuffices` adds
that the reservation is always the running thread's when traps drop it.

### `LifetimeProofs`

From `ObjectAssumption`. `HandlesOwn` is inductive with
the types of the handles (`HandleType`): the recorded owner of a place tells two
objects apart, so `FreePCB` frees nobody else's PCB. `DeletedNeverRuns` is not: a
deleted thread may be listed. `MarksInv` says of every entry of every list, and
of the running thread, that it names its thread's PCB and that this PCB is
marked if `~Thread` has begun with the thread and its PCB was not `overwritten`
(`Sound`). A mark is removed only where memory is written, by `Start` and
`Overwrite`, and these record whom a list still names there.

### Only model-checked

All liveness: `ReadyRuns`, `SleeperWakes`, `JoinersReleased`, `WaitersServed`,
`LockServed`, `OutputDrains`, `KeyboardAlive`, `ProgramEnds`. It rests on
fairness and ENABLED, which the prover does not treat. Every other property of
a run is proved for all values of the constants.

## Plan

Done: threads, scheduler, semaphores, sleeping and timer (`Kernel`), the memory
allocator, the console's output and input, exceptions, the print lock, the
bounded buffer and its program, traps (`TrapContext`), the scheduler's list
(`ReadyList`), the objects of `Thread` (`Lifetime`); the proofs of all their
safety properties.

What could follow: the other lists with their nodes, as `ReadyList` does for
the scheduler's, and with it allocations that fail inside `put`, `block`,
`join` and `addThreadToSleep`; action properties, as the two of `Kernel`, for the other modules.

## Not modelled

* `lista.h` is unused.
* The C++ versions of the bounded buffer and of its programs are the C version on
  `Semaphore` and `Thread` objects; what they add, deleting threads on their way
  to `thread_exit`, is in `Lifetime`.
* The other test programs and `userMain` are clients: `Kernel` lets every thread
  make every call, which includes what they do. `ThreadSleep_C_API_test` and the
  `Threads_*` programs only compute and print between the calls.
* The class `Semaphore` and the stubs of the C API only pass arguments on, but for
  the tests named above.
* `reallocate` and `memcpy` of the allocator have no caller.
* Formatting and reading of text in `printing.cpp`; only its lock is a subject.
* The libraries in `lib/` come without source: the timer's handler is taken from
  how the kernel uses it, trap entry and `sret` from the architecture.
* A failing allocation inside `put`, `block`, `join` or `addThreadToSleep`, which
  the code does not test for, and requests of 2^32 bytes.

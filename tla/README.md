# TestKernel in TLA+

A specification, kept beside the code, of TestKernel: a small ia32 kernel with one
processor, a preemptive round-robin scheduler driven by the timer, synchronisation
objects built by hand on a spin lock and a queue of sleeping threads, ten text
terminals, and the segment, interrupt and page tables it sets up at start. Paths below are relative to `src/TestKernel1/src`.

## The system

| Part | Code | State it keeps | Operations |
|---|---|---|---|
| Thread table, scheduler | `arch/ia32/threads.c` | `threads[]` (`isUnderSheduling`, `state`, saved stack pointer), `currThreadsCount`, `currThreadIndex`, `threading_enabled` | `init_main_thread`, `threading_start`, `create_thread`, `th_main_func`, `sleep`, `pause_curr_thread`, `wake_thread`, `change_thread` |
| Spin lock | `arch/ia32/threads.c` | `state`, 0 or 1 | `slockCapture`, `slockRelease`, `slockSet` |
| Sleeping queue | `arch/ia32/threads.c` | `head`, `tail`, `count`, `lock`; entries on the sleepers' stacks | `queue_waiting_thread`, `wake_queued_thread(s)` |
| Mutex | `arch/ia32/mutex.c` | `lock`, `ownerThreadId`, `enterCounter`, queue | `wait`, `release` |
| Auto-reset event | `arch/ia32/autoResetEvent.c` | `signal`, a spin lock whose 0 means "set" | `set`, `reset`, `waitOne` |
| Manual-reset event | `arch/ia32/manualResetEvent.c` | `lock`, `isSet`, queue | `set`, `reset`, `wait` |
| Semaphore | `arch/ia32/semaphore.c` | `counter`, `max`, `min`, `spinlock`, queue | `wait`, `release` |
| Monitor | `arch/ia32/monitor.c` | owner, counter, two pulse flags, two queues | `capture`, `release`, `wait`, `notify`, `notifyAll` |
| Interrupts | `arch/ia32/cpu/{cpu.c,idt.c,idt.asm,io.c}` | gates and handlers, the interrupt controllers, the frame on the interrupted stack | `init_idt`, `PIC_remap`, the common stub, `irq_handler` |
| Terminals | `arch/ia32/display.c` | per terminal a buffer, a cursor, visibility; the video memory | `putchar`, `puts`, `clear`, `buff_to_display`, `change_terminal` |
| Descriptors, pages | `arch/ia32/cpu/{gdt.c,tables.c}` | segment table and selectors, `kernel_directory`, `current_directory` | encoders, decoders, `init_gdt`, `init_directory` |
| Helpers | `mem.c` | none | number conversions, `memcpy`, `memset` |
| Entry | `main.c`, `startup.asm` | none | `kernel_main`, memory-map search, paging test |
| Not built or never called | `arch/ia32/vmem.c`, `arch/ia32/debugging/`, the examples | | |

The parts meet in three ways. **Calls**: objects call the queue, the queue calls
the thread table. **Shared state**: every thread writes `isUnderSheduling` and
`state` of its own slot, a waker writes another's, and `change_thread` reads
them. **Interrupts**: the timer (vector 32) runs `irq_handler`, which runs
`change_thread`; what it leaves in `regs` is the stack the stub returns on, so
the interrupt comes back in another thread. Every other vector, the breakpoint
`int 3` included, comes back where it happened. `irq_handler` also prints, and at
F7 switches terminals, between any two instructions of whoever prints.

What must be right, part by part. The scheduler: only slots that are built are
switched to, nobody schedulable is passed over for ever, a waker revives and
disturbs nobody. The objects: exclusion, ownership, one pass per set or notify,
no spin lock held off the scheduler, sleepers woken. The display: printing stays
inside the buffer, the screen is the terminal shown. The tables: every interrupt
finds its way in and back, every page is its own frame, the page `test_paging`
writes to belongs to nobody, numbers are printed as they are.

What is hard here: the timer falls between any two instructions; a thread goes
to sleep in several steps (unlock, link itself, two stores, an interrupt) any of
which a waker may come between; queue entries live on stacks; and the last step
of going to sleep, `int 3`, does not give up the processor. In these models a
thread that leaves its pause while it is still marked as sleeping has
**overrun** its pause. It then goes on running until the next tick, its queue
entry dangles, and a later wake reads the entry out of reused stack. Terminals
are shared without any lock, and interrupts are on from the middle of `init_cpu`.

## Modules

| Module | Models | Checked by | Proved in |
|---|---|---|---|
| `Threads` | table fields, `change_thread` | all runs | (used by all) |
| `Scheduler` | the life cycle of threads, `sleep`, pause, wake, ticks | `MCScheduler` | `ThreadsProofs` |
| `SleepQueue` | the queue, step by step, with stack-allocated entries | through its users | `SleepQueueProofs` |
| `Mutex` | `mutex.c` over `SleepQueue` | `MCMutex` | `MutexProofs` |
| `AbstractMutex` | a reentrant mutex whose operations take effect at once | as a property of `Mutex` | refinement in `MutexProofs` |
| `AutoResetEvent` | `autoResetEvent.c` over the raw spin lock | `MCAutoResetEvent` | `ThreadsProofs` |
| `ManualResetEvent` | `manualResetEvent.c` over `SleepQueue` | `MCManualResetEvent` | `ManualResetEventProofs` |
| `Semaphore` | `semaphore.c` over `SleepQueue` | `MCSemaphore` | `SemaphoreProofs` |
| `Monitor` | `monitor.c` over two `SleepQueue`s | `MCMonitor` | `MonitorProofs` |
| `Display` | `display.c`, and `irq_handler`'s use of it | `MCDisplay` | `DisplayProofs` |
| `Descriptors` | `gdt.c`'s and `idt.c`'s codecs, and how the processor reads them | through `KernelBoot` | `KernelBootProofs` |
| `PageTables` | `tables.c`'s codecs and the walk of the tables | through `KernelBoot` | `KernelBootProofs` |
| `MemoryMap` | `main.c`'s search for a free page | through `KernelBoot` | `KernelBootProofs` |
| `Conversions` | `mem.c`'s conversions | through `KernelBoot` | `KernelBootProofs` |
| `KernelBoot` | `kernel_main`, `init_gdt`, `init_idt`, `init_directory`, `test_paging`, the stub | `MCKernelBoot` | `KernelBootProofs` |

**How a step corresponds to the code.** One processor: `currThreadIndex` is the
running thread, each action of thread `t` is guarded by `Runs(t)`, and `Tick`
(the timer) may come between any two. A routine is cut at every load or store of
something another thread, or the scheduler, can change or see. Runs of
instructions on local variables, and stores protected by a spin lock that
everyone respects, are one step. `pc`, `qpc`, `mpc`, `epc`, `spc` say where each thread
stands; for a suspended thread that is its saved context, so `change_thread`
need only change `currThreadIndex`. `wake_thread`'s test is two reads, because
the two fields may change between them; so is `slockRelease` in the auto-reset
event, whose caller does not own the lock. A capture of a spin lock elsewhere is
one step, enabled when the lock is free: a thread that spins changes nothing.

**Scheduler** leaves open who calls what: any thread sleeps, pauses, wakes or
exits whenever it runs. Two restrictions are the callers' of the repository:
only main creates threads (the examples are written to be run by it), and
`wake_thread` is called with a thread id read out of a queue entry that has been
taken off. `queued[t]` stands for "an entry naming `t` is linked somewhere".
Once a thread has overrun its pause, entries dangle and any id of `DanglingIds`
may be read.

**SleepQueue** has the list itself: `head`, `tail`, `next`, `count`, the lock.
An entry is named by the thread whose stack it is on. Reading through a dangling
pointer yields arbitrary contents; writing through one (`q->tail->next = &entry`)
would damage a running thread's stack, and the behaviour ends there (`smashed`).
A module EXTENDS it, sets `qpc[t]` to a routine's first label to call it, and
goes on when it is `"idle"` again. `WakeAll` picks `wake_queued_threads` or
`wake_queued_thread`.

**Semaphore** calls its two routines through the method table, as a program must:
the table is `{ &release, &wait }` where the type declares `wait, release`, so
`sem._->wait` runs the routine `release`, which counts down, and `sem._->release`
runs `wait`, which counts up or sleeps. `held` counts, per thread, the permits
its callers believe they have; `paired` says that so far nobody has returned one
it had not taken. When `release` refuses, it returns with the spin lock taken
(`Stuck`), and nobody gets any further with that semaphore.

**Monitor** has two instances of `SleepQueue`, one for those who want to enter and
one for those who wait for a pulse, with variables of their own but the same
`overran` and `smashed`. Its actions are the labels of `captureImpl`,
`releaseImpl` (which `release` and each turn of `wait`'s loop run) and the three
others. `depth` counts what a thread has captured and not released; `pulses` the
notifies that no wait has used up; `overLeft` says that a wait has gone round its
loop while its thread still owned the monitor, from where on `wait` has released
more than it will take back.

**Display** lets any thread print any character on any terminal, one shared load
or store at a time (on one processor, interrupted or switched between any two);
the handler's prints and switches are one step each, as interrupts are off. Which
thread goes on is left open, since nothing here depends on the order of the
scheduler. A cell is a character with its attribute; the byte behind the buffer,
which scrolling moves into the text, is a value of its own (`"cursor"`). When a
character goes outside its buffer the behaviour ends (`spilled`).

**KernelBoot** is the one sequential program, from `_start` to the idle loop, cut
at the entries of the tables it fills. From `sti` on, an interrupt of any vector
may come at each step. Addresses are numbers, the image's place a parameter, and
the tables' 1024 entries `TableSize`. What the processor does with a descriptor,
a selector, a gate, a page-table entry or a frame, and what the two controllers
do with the bytes sent to them, is written beside the code's own encoders and
marked external in the map.

**Mutex**, **AutoResetEvent**, **ManualResetEvent**, **Semaphore** and **Monitor** begin when
the threads have been created and run; in all but `AutoResetEvent` the main
thread idles, as `kernel_main` does after start-up, so that somebody can always
be scheduled.
Threads call the operations in any order, `MaxCalls` times each.

## Runs

| Run | Instance | What it shows |
|---|---|---|
| `scheduler` | main + 2 threads, `mills` = 2, all dangling ids | Only finished slots are dispatched. Round robin is fair. A paused thread is wakeable. No waker revives a finished thread or disturbs a sleeping one (while nobody has overrun). |
| `scheduler_live` | same, no dangling ids, fair | A schedulable thread is scheduled; `sleep` returns. |
| `mutex` | 2 workers, 2 calls, nesting, misuse, fair | Mutual exclusion, owner and counter, and the refinement of `AbstractMutex`, overruns included; every spin ends, if nobody overruns. |
| `mutex_queue` | 3 workers, 2 calls, up to the first overrun | The queue is a sound list; nobody holds a spin lock off the scheduler. |
| `mutex_lost` | 2 workers, 1 call, fair | **Violation**: a wait that never returns (lost wake-up). |
| `auto_event` | 3 threads, 2 calls, created set, fair | A set lets at most one waiter pass, and one at least unless reset. |
| `manual_event` | 3 workers, 2 calls, up to the first overrun | `set` wakes all sleepers, excludes `reset`, keeps the queue sound. |
| `semaphore` | 2 workers, 3 calls, max 1, min 0, fair | The counter's range, who leaves the spin lock taken, the permits as callers see them, and that spins end until a refusal; overruns included. |
| `manual_event_blocks` | 2 workers, 2 calls | **Violation**: `wait` returns though nobody has set. |
| `monitor` | 2 workers, 3 calls of any of the methods | Ownership matches the calls, strangers' included; a notify lets out one waiter at most, `notifyAll` none; nobody holds one of the three spin locks off the scheduler; up to the first overrun both queues are sound lists. |
| `display` | 2 × 4 cells and the spare line, 2 terminals, 2 printing threads, 2 characters, 1 interrupt | The handler alone never drives a print out of its buffer; the screen is the terminal shown unless a copy was overtaken. |
| `tables` | tables of 5, 48 vectors, 5 scan codes, 11 memory maps, 23 numbers | Interrupts find their way in and back from `sti` on; pages map to themselves; the page to write to is beside the kernel, and free if the map is roomy; numbers read back. |

**Bounds.** Three slots are what the scheduler needs for "passed over by another"
and for a waker, its target and a third; `mills` = 2 makes `sleep`'s loop last
two turns, one or none as the count grows. Two workers suffice for every race on
the mutex's words, because a race is between a holder or waker and one other;
lists with something in the middle need two sleepers and a waker, hence the runs
with three workers. Two calls give nesting, and a second visit after a spurious
return. The semaphore's three calls, with two permits,
let a third taker be refused, and a release find the counter at its maximum and
sleep. `CountRange` = 8 stands for the 2^32 values of `count`: it only has to
exceed the threads, and wraps below 0 as the `int` goes negative when dangling
entries are taken off.
`UpToOverrun` bounds the two large runs because their properties speak of that
part only; `mutex`, `semaphore` and `manual_event_blocks` run on beyond it.
The monitor's three calls are a capture, a nested capture or a stranger's call,
and a wait or a pulse; with two workers one can wait or block while the other
pulses or leaves. `EarlyOverrun` follows a behaviour beyond an overrun only when
half of the calls are still to come, which is where a stale entry leads to
something new. In the display, two lines are the fewest that scroll, a tab is one
line's width, and the terminal starts with its cursor at any cell, so that two
characters reach every corner; `StillClaimed` cuts behaviours of which neither
property says anything any more. Five entries per table make 25 pages: room for
the image with its six pages of tables, and for free pages before and behind it.
Of the eleven memory maps seven are one for each way through `get_free_page_address`:
room before the image, room behind it, no room, low memory and reserved entries
first, an entry that ends before the image, one that begins behind it, no map. In
the other four the 64-bit numbers do not fit an `int`, whose limit `IntLimit` is
scaled down to 17 pages as everything else is: the end is negative, the difference
of the end and the image wraps round to a positive one, the begin is beyond twice
the limit, and the begin is rounded up to the limit.

**Deadlock** is checked except in the scheduler's runs, where the kernel really
can freeze (with no slot under scheduling `change_thread` spins inside the
interrupt for ever, `hung`), and in the display's, which stops when its
characters are printed. In the other models the idle main thread keeps
ticking.

**Fairness.** Weak fairness of `Tick`: the timer does not stop, and with somebody
schedulable a tick is always possible. Strong fairness of a thread's step, per
thread: it is enabled only while the thread has the processor, thus over and
over and not continuously. It holds because a tick's interrupt returns into the
thread, which executes before the next tick is due;
for a spin lock it holds because a thread that finds the lock free finds it so
for the rest of its quantum. It is *not* assumed that a thread gets a tick at
some chosen instruction; in particular not inside its pause. The liveness
properties of the mutex and the semaphore say "if nobody overruns" where they
need it, the semaphore's also "until a refusal".

## What the two violations mean

*Lost wake-up* (`mutex_lost`; `mutexExample.c:33`, "Wait until it is safe to
enter."). `wait` frees the spin lock at `mutex.c:16` before it is in the queue
and off the scheduler. A `release` in that window finds the queue empty, or
takes off the entry of a thread that is still running, whose slot fails
`wake_thread`'s test, and the entry is gone. The waiter then goes to sleep next
to a free mutex. In the manual-reset event the same window exists, and `wait`
does not look at `isSet` at all.

*Pause that does not pause* (`manual_event_blocks`; `manualResetEventExample.c:36`,
"Start 3 named threads that block on a ManualResetEvent"). `pause_curr_thread`
ends in `int 3` (`threads.c:95`); `irq_handler` switches on 32 only
(`cpu.c:10`). `wait` returns unless the timer comes first. Of the mutex, exclusion,
ownership and the effect of its calls survive it, since its loop tests again under
the lock, and this is what `mutex` checks; its progress does not. A thread that has
outrun its pause is off the scheduler while it captures `mut->lock` again
(`mutex.c:19`): if a tick comes there, the thread is not selected any more, the
spin lock stays taken for good, and every later caller spins: the one routine that
could wake the thread needs the lock. `LockHolderSchedulable` and `SpinningEnds` end at the first overrun
for that reason; the same goes for `mon->lock` in the monitor. And a dangling
`q->tail` may be written through.

## What the other runs say that one would not expect

* *Monitor*. `notifyAll` wakes one thread, and `isMultiPulse` sends it back to
  sleep: nobody leaves `wait` by it, ever. `wait` releases one level per turn; a
  thread that was inside twice sleeps as the owner, and after a second turn owner
  and calls no longer agree, which is why `OwnerMatchesDepth` ends at `overLeft`.
  After an overrun a wait finds the flags as `newMonitor` left them and leaves
  without a notify; once only, since it then sets `isPulseHandled`.
* *Display*. Two threads can drive the cursor below 0: the second read of
  `tty_cursor` in a new line may see more than the first. The screen goes stale
  when the keyboard switches terminals inside a copy, until the next character.
  Each scroll brings the low byte of `tty_cursor` into the spare line, and the
  next one on the screen.
* *Paging test*. `test_paging` changes an entry of `current_directory`, which
  nothing loads, at an index taken modulo 1204: `test 1` and `test 2` print the
  same. With a memory map that has no page to spare, 0 or memory the map does not
  offer is written to. So it is with large regions, as `main.c:115` to `118` cut
  64-bit addresses to `int`: a region from 1 MB to 3 GB ends below 0, no page is found
  behind the image, and `test_paging` copies `x`'s page to page 0; a region that
  begins at 4 GB + 1 MB seems to begin at 1 MB. `Roomy` says which maps are safe, and
  `FreePageIsFree` that the kernel itself is written to in no case.
* *Codecs*. `compile_selector` loses `useLdt` (masked with `0x0040` where the
  comment says bit 2; always false in the kernel), and `parseDescriptor` the high
  bytes of base and limit (never called). `utoa` writes in front of its buffer,
  which for `irq_handler` is inside its own frame.
* *Stub*. Exceptions with an error code cannot return: the stub drops two words of
  three. `InterruptsReturn` is about the other vectors.

## Proofs

All theorems hold for every number of threads, calls and every value of the
other constants that the named assumptions allow (`NumThreads` positive,
`CountRange` greater than `NumThreads`, `SleepTimes` naturals, `DanglingIds`
threads; the manual-reset event is given `WakeAll`, the semaphore its contrary
and `min <= max`; `KernelBoot`'s place `x` in the image's first table, the
kernel at or above 1 MB and a page below 2 GB, an `int`'s addresses all mapped, the
memory maps any that have entries of the widths `multiboot.h` gives them, the interrupt handlers below 2^32, the scan codes bytes and
the sample numbers ints whose negative is one too). TLC evaluates these assumptions
in every run.

* `ThreadsProofs`, the scheduler. The inductive invariant is the type invariant with
  `BuildInv` (every slot below the count has its frame, and a creation in
  progress stands at the slot just past it: this is why `create_thread` must
  raise the count last), `BypassInv` (the times a slot has been passed over, plus the
  steps the index still has to make to reach it, never exceed the count: the
  first alone is not inductive), and what holds of wakers before any overrun (a
  waker's target is inside its pause, is linked nowhere and is no other waker's
  target; a thread that is under scheduling again inside its pause is nobody's),
  which are `WakeInv`, `StoppedInv` and `PauseInv`. From it follow
  `DispatchedIsBuilt`, `BoundedBypass`, `PausedIsWakeable` and the two action
  properties `StoppedIsFinal` and `SleeperUndisturbed`.
* `MutexProofs`. A spin lock held by at most one thread, and the owner and
  counter tied to where each thread stands inside `wait` and `release`; from
  these `MutualExclusion` and `OwnerMatchesDepth`. `MutexImplementsAbstract` maps
  `ownerThreadId`, `enterCounter`, `depth` and each thread's label to an abstract mutex
  whose wait and release take effect at once: wait at `w_test` or `w_own`, release at
  `r_test`. What has to be proved is what the code does not test there: that the
  mutex is still free when `w_own` takes it, that the counter then is 0, that a wait
  returns to the owner with the counter one above what it has seen, and that a release
  finds the counter one above what its caller has left. That
  holders are schedulable follows from knowing who may be off the scheduler
  before any overrun: a thread at the end of its pause, or one that has finished
  (`ScheduleInv`), and neither holds a lock.
* `ThreadsProofs`, the auto-reset event (which stands on the thread table alone too,
  and names its `Init`, `Next` and so on after itself for that reason). Not `passes <= sets` alone: the sets that are between
  their test and their store, and the word itself, are credits. With each
  thread's credit counted, every exchange that lets a waiter pass spends one.
* `SleepQueueProofs`, used by the three that follow and by `MutexProofs`. What every
  step of the queue keeps of the types, in particular that a wild pointer is never
  used as a thread; whom it moves and takes off the scheduler; and, up to the first
  overrun, the shape of the list (`QueueInv`). `ListInv` says that there is a sequence
  of waiting threads without repetition of which `head`, `tail`, `count` and `next`
  are the picture, except for what the routine that has the lock has left to do
  (`Chained`, `Ends`, and `Waits` and `Wakes` for where the listed threads and the
  wakers stand). Each step names the sequence it leaves: the same, one longer at the end,
  one shorter at the front. What the properties say of the recursive walk `Hop` then
  follows by the least counterexample (`LeastNat`, from the library's well-founded
  minimum; the induction theorems themselves take an operator and are of no use here).
  That one more entry never finds `count` at its limit is the pigeonhole principle
  (`RoomForOneMore`): the entries are distinct threads, and the appender is none of them.
  `MutexProofs`, `ManualResetEventProofs` (`QueueInOrder`) and `MonitorProofs`
  (`QueueOrder`, for both of its queues) derive their list properties from it.
* `ManualResetEventProofs`. The event's spin lock admits one thread, so no reset
  runs inside a set. That a set wakes everybody who slept (`SetWakes`) needs to know
  what its loop has done and what is left: each sleeper of the set's start is awake, or
  is still in the list, or is the one just taken off (`WakeLoopInv`).
* `SemaphoreProofs`. `CounterInRange` is not inductive: between its test and its
  count a routine relies on the counter's not having moved (`TestedInv`), which
  holds because the spin lock admits one thread at a time (`LockInv`). A lock
  left taken is never cleared, so the counter stays where the refusal found it. The
  permits: as long as nobody returns what it has not taken, those held or on their way
  to or from a holder (`Due`) are as many as the counter lacks, and one more when
  a refusal was taken for a permit (`PermitInv`); the lemmas before it say what a
  change at one thread does to a sum over all. `PermitsKept` and `NoSleepInRelease`
  follow.
* `MonitorProofs`. One thread has the spin lock (`OneThreadInside`), so the owner
  and the counter, tied to each thread's place inside a method, change only under
  its hands: `OwnerMatchesDepth` for every number of threads and calls, overruns
  included. Of the pulses it proves the bound that holds throughout, at most one
  exit too many (`OneExitTooMany`), and that there is none before an overrun
  (`WaitsNeedPulses`). For this one needs the queues' shape, since a wake-up through a
  dangling head could let a waiter out: flags that let out are those of a pulse nobody has
  taken, or nobody has pulsed yet (`Unnotified`), and then every waiter is on its way
  into a pause that only a pulse ends (`NotifyInv`, `AwakeInv`). The monitor's two queues reach
  the lemmas of `SleepQueueProofs` through two instances of it. `WholeInv` says where in `capture` and `wait` a thread
  stands while it is in a queue, which is after it has let go of the spin lock; with
  it, `TypeCorrect` and `HoldersAreSchedulable`.
* `KernelBootProofs`. `EncodeDecode`: page-table entries decode to what was
  encoded. `PagesStayIdentityMapped`: as far as the loops of `init_directory` have
  come, each entry is the one of its own frame, and afterwards no step writes
  `kernel_directory`; by `EncodeDecode` the walk then ends where it began, for
  tables of any size. `TestWritesFreePage`: `get_free_page_address` returns the
  page of the first entry that offers one. Whatever the entry says, what is rounded
  up in `int` is a whole page or negative (`AlignInt`), and the difference from the
  image does not wrap for an entry the search considers, so the page is beside the
  image (`OfferedPage`); in a roomy map no number is cut at all, and the entry is the
  one that holds the kernel (`RoomyMap`).
  `InterruptsComeBack`: the segment and interrupt tables hold the kernel's entries up
  to the loops' counters, the controllers have the bases that the writes so far
  gave them, and interrupts are off until everything is loaded (`ProcessorInv`); so
  each vector finds its gate, its handler, the stub, and its way back. The eleven
  port writes of `PIC_remap` are unfolded one by one, and the encoders of descriptors and
  gates byte by byte. `TypeCorrect` carries `CountInv`: each loop finds its counter at
  0 and stays inside the table or the memory map it indexes. `NumbersReadBack`: the
  library's theorems on recursive functions take operators, so that the conversions'
  functions exist and are what their definitions say is proved here from iterations of a
  step (`IterationExists`), which agree by the least counterexample (`LeastNat`).
  A text then reads back digit by digit: room for one digit more multiplies by ten, or by
  sixteen, the bound below which every number does (`ReadsBackMore`,
  `HexReadsBackMore`), from one digit up to the ten of an int and the eight and
  sixteen of a word; where the room ends first, the last three decimal
  digits remain (`ThreeDigits`) or the first six hexadecimal ones (`HexShortReads`).

* `DisplayProofs`. The screen's size enters through three facts only (`Geometry`: a line
  holds a tab, the screen two lines, the buffer one more), so the theorems hold for
  80 × 25 as for TLC's 2 × 4. That a print stays inside (`StaysInside`) needs
  to know where the cursor may be at each label of `putchar` (`CursorInv`): on the screen
  until it is moved; then as far as the spare line, but past the first line inside a
  new line, and not above the last line while scrolling, so that what is then subtracted
  never brings it below 0. The registers may be stale by then, since the handler
  printed in between; what they hold obeys the same limits, and so does what
  the handler leaves (`PutInside`), which scrolls by itself before it gets further.
  `ShowsTerminal` follows each copy: as long as nothing overtakes one, what it has brought
  to the screen is what the buffer holds, and the last cell completes it (`CopyInv`).

**Only model-checked**: liveness (`EventuallyDispatched`, `SleepEnds`, `SpinningEnds`,
`SetLetsOnePass`), as liveness under fairness and ENABLED are out of the prover's reach.

## Hazards and what is not modelled

`PROJECT.json` lists each hazard at its line with the properties that watch it.
Without a property so far: a table of 200 slots that `create_thread` does not
guard (the models bound creations by `NumThreads`), the kernel frozen with
nobody schedulable (reachable; modelled, and nothing says it should not be),
two sets of an auto-reset event that count as one, a wake-up of the manual event
lost as the mutex's is, and exceptions with an error code.

Where a property ends before the hazard's worst case, its entry says so: at the first
overrun, at a refusal, at a wait with two levels, at two threads in one terminal.
Small liberties: `p_write` stores a character and its attribute in one step;
`print_map` prints the numbers only, and always finds the flag that a map is there;
an interrupt's frame lies where the last one did.

Not modelled: `passive_wait_cond` and `active_wait_cond` (no callers);
`releaseSignal`, `pulseSignal`, `signal`, `guard` and the auto-reset event's queue
(created, never used); the `debugging` stub (third-party, not built); `vmem.c`, and
`alloc_page`, `free_page`, `create_directory` and `switch_directory` of `tables.c`
(no callers, and pointers that nothing sets: there is no behaviour to state);
`move_stack`, `get_page_address` and `thread1`/`thread2` of `main.c`, `gdt_flush`
and `textcolor` (no callers); the words that are printed.

## Plan

1. Done: `Threads`, `Scheduler`, `SleepQueue`, `Mutex` with `AbstractMutex`,
   `AutoResetEvent`, `ManualResetEvent`, `Semaphore`, `Monitor`, `Display`,
   `Descriptors`, `PageTables`, `MemoryMap`, `Conversions` and `KernelBoot`, their
   runs and first proofs.
2. Done: the list invariant of `SleepQueue` and what follows from it, the semaphore's
   permits, the monitor's pulses, the way of an interrupt in and back, and that the
   numbers printed read back.
3. Done: that a print stays in its buffer and what the screen shows, for every size
   of the screen and every number of threads and interrupts. Every invariant and every
   safety action property of the runs is now a theorem; liveness stays with TLC.

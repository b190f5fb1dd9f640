# TLA+ models of the VME bridge, CTR and SIS3300 drivers

This directory holds TLA+ specifications of the core of the repository: the
driver of the TSI148 PCI-VME bridge (`src/vmebridge/driver`) and two drivers of
cards that have a concurrency of their own, the CTR timing receivers
(`src/ctr/driver`) and the SIS3300 digitizers (`src/sis33/drivers`).  TLC
configurations check them on small instances, and TLAPS checks proofs that hold
for every size.

## 1. The system

The repository is a collection of drivers for VME and PCI cards.  Its own notes
say that what the VME drivers have in common is the `vmebus` driver: every
access to a VME card, every DMA transfer and every VME interrupt goes through
it.  It is also where the concurrency is: processes that use its device nodes,
drivers that call its exported functions, signals, the chip, and the interrupt
handler on another CPU.

Most of the other drivers read and write the registers of one card under one
lock.  Two do more.  The CTR driver distributes the events of the accelerator's
timing system to the processes that asked for them, through queues, semaphores
and timers that interrupts, timeouts, signals and other processes touch.  The
SIS33xx driver runs acquisitions that start without a lock, end in a workqueue
and may be cancelled at any time.

### Inventory

| Part | State | Operations | What makes it correct |
|---|---|---|---|
| DMA engine, `vme_dma.c` | a semaphore, a mutex, two channels with a busy flag, the resources of a transfer, the `dma_disable` flag | `vme_do_dma()`, `vme_do_dma_kernel()`, `handle_dma_interrupt()`, `vme_dma_exit()` | one owner per channel; nothing leaks on any way out; the chip never works on memory that was given back; every call returns, with the status of its own transfer |
| Descriptor chains, `sgl_map_user_pages()` and `tsi148_dma_setup_chain()` | scatter-gather list, chain of descriptors | building a chain | the chain moves exactly the bytes asked for; no link crosses a block boundary |
| Windows and mappings, `vme_window.c` | eight windows, each with a mutex, a list of mappings and a user count; PCI resource, I/O mapping and chip registers behind each | create, destroy, find, release, close, two global options, mmap | a window is wholly there or not at all; the count is the length of the list; what a client holds stays mapped; each releases its own |
| CES interface, `vme_cesif.c` | none | `find_controller()`, `return_controller()`, `vme_intset()`, `vme_intclr()` | as above |
| Interrupts, `vme_irq.c` | table of 256 vectors, a mutex, the enabled sources | `vme_request_irq()`, `vme_free_irq()`, `vme_bridge_interrupt()` | a vector has one owner; no interrupt is lost |
| Bus errors, `vme_misc.c`, `handle_vme_error()` | the last error, the list of handlers, a spinlock; the error registers of the chip | register, unregister, check-and-clear, poll | no error is lost or reported twice; no handler is called after it was unregistered |
| Chip layer, `tsi148.c`, `tsi148.h` | registers | all of the above, attributes, CR/CSR, VME interrupt generation | registers say what the descriptor says |
| Life cycle, `vme_bridge.c` | device nodes, register windows, the bus type | probe, remove, registration of client drivers | nothing is used before it is set up or after it is torn down |
| CTR events, `ctrdrvr-vme.c`, `cdcmSem.c`, `EmulateLynxOs.c` | per client a ring of events, a semaphore, a timer; sixteen timers for all | open, close, read, write, interrupt, timeout, reset, queue ioctls | events come in order, none twice; the semaphore agrees with the ring; every wait ends; no timer leaks |
| CTR connections, `ctrdrvr-vme.c` | trigger table of a card, client masks, interrupt enable register, CTIM and PTIM objects, card lock | connect, disconnect, create, destroy, set action, lock, unlock, close | a closed client is in no mask; table and objects agree; nobody disables what another needs |
| SIS33xx, `sis33_core.c`, `sis3300.c` | per segment the flags acquiring and transferring, the number of events, three caches; a completion; the card lock | acquire, wait, fetch, cancel, interrupt work | acquiring and fetching exclude each other; a fetch returns complete events of one acquisition; whoever waits is woken |

How the parts interact: `vme_bridge_interrupt()` (interrupts) wakes the sleepers
of the DMA engine and reports bus errors; `vme_bridge_remove()` frees the
interrupt and then calls `vme_dma_exit()`; the CES interface calls windows and
interrupts; everything ends in registers of the chip.  The shared state is the
semaphore, mutex and flags of the DMA engine, one mutex per window, the mutex of
the vector table (which the interrupt handler cannot take) and the spinlock of
the bus errors (which it does take).  The CTR and SIS33xx drivers are clients of
the bridge: it delivers their interrupts (`VmeInterrupt` calls their handlers)
and the SIS33xx driver fetches by DMA (`VmeDma` is what a failing or waiting
fetch sees).

What is hard: tasks of three kinds that interleave with an interrupt handler;
signals at every interruptible wait; a setup of five steps each of which may
fail; locks dropped between looking and acting; addresses that wrap; timers
that run out in the middle of being cancelled; hardware that goes on while its
registers are read one after the other.
`PROJECT.json` lists the hazards line by line, with the properties that would
catch each.

The other directories of the repository (drivers of single cards, user
libraries, test programs, build files, third party code) are listed as
components that are not modelled, each with the reason.

## 2. Modules

| Module | Models |
|---|---|
| `VmeDma` | the channel pool, the life of a transfer, the DMA side of unbinding |
| `DmaPool` | the abstract pool that `VmeDma` implements |
| `VmeDmaProofs` | theorems about the channel pool of `VmeDma` |
| `VmeDmaTransferProofs` | theorems about its transfers, and that it implements `DmaPool` |
| `DmaChain`, `DmaChainProofs` | from a buffer to a chain of descriptors; theorems about it |
| `VmeWindow`, `VmeWindowProofs` | windows, mappings, CES interface; theorems about them |
| `VmeInterrupt`, `VmeInterruptProofs` | vector table, interrupt handler, bus errors; theorems about them |
| `CtrEvents` | events from a CTR card to the readers: rings, semaphores, timers |
| `EventQueue` | the abstract queue that the rings of `CtrEvents` implement |
| `CtrEventsProofs` | theorems about `CtrEvents`, and that it implements `EventQueue` |
| `CtrConnect` | who is connected to which timing object of a CTR card |
| `CtrConnectProofs` | theorems about `CtrConnect` |
| `Sis3300`, `Sis3300Proofs` | acquisitions and fetches of an SIS3300; theorems about them |
| `MCVmeDma`, `MCDmaChain`, `MCVmeWindow`, `MCVmeInterrupt`, `MCCtrConnect`, `MCSis3300` | small instances of the above for TLC; `CtrEvents` needs none |

The definitions that model code have the names of the functions, or of the
steps of a function, that they stand for; `PROJECT.json` maps each of them to
its lines.  In every module a step is a piece of code between two accesses to
state that another actor can see: what is done under a lock that all users of
the data take is one step, what is done without one is split.  Definitions
marked "Mutant of ..." are wrong versions of an action: each property is shown
to be violated when one of them replaces the action, so that the property is
known to depend on it.

### VmeDma

`pc[t]` is where task `t` is in `__vme_do_dma()`, `chan`, `rc`, `status` its
local variables.  `sem`, `lock`, `disable`, `busy` are the semaphore, the mutex,
`dma_disable` and the busy flags.  `res[c]` is the set of resources the channel
holds: list, entries, pinned pages, PCI mapping, chain.  `chip`, `abt`, `intr`
are the status register (with the task the transfer is made for), an abort that
is asked for and not yet obeyed, and the raised interrupt.  `exitpc`, `exiti`,
`irqOn`, `pool` belong to the task that unbinds the driver.

* `VmeDoDma`, `Down`, `DownInterrupted`, `Recheck`, `LockDma`, `Scan`,
  `TakeChannel`: checks of the descriptor and `vme_dma_channel_acquire()`.
* `AllocSgl`, `Pin`, `ChipSetup`: `vme_dma_setup()`, with every failure.  `Pin`
  keeps what the code does when pages cannot be pinned: it goes on.
* `Start`, `WaitCheck`, `WaitSignalled`, `Abort`, `ReadStatus`, `Cleanup`: the
  transfer.  `wait_event_interruptible()` is a loop of tests and sleeps.
* `LockRelease`, `Unbusy`, `Up`, `CallReturns`: `vme_dma_channel_release()`.
* `ChipEnds`, `ChipAborts`, `HandleDmaInterrupt`: the chip and the handler.
* `RemoveFreesIrq` ... `ExitDestroysPool`: unbinding, in the order of the code.

The constant `AbortSettles` says whether the chip obeys an abort within the
`udelay(10)` the driver leaves it.  The document of the driver does not say so;
runs about memory assume it, `VmeDmaFaults` does not.  A chip that takes longer
works on pages that were given back: `ChipRunsOnLiveMemory` is about the driver
on the condition that it does not.

### DmaChain

One behaviour is one transfer.  `AddLink` is a turn of the inner loop of
`tsi148_dma_link_add()`, `Enter` and `Leave` its beginning and end for an entry
of the list.  Lengths are in bytes, with pages of 8 and blocks of 2 and 4
instead of 4096, 256 and 2048; as in the driver, blocks divide pages.  VME
addresses wrap at `Top`.  PCI addresses go up to `DmaMask`, which is larger than
`Top` on a 64-bit host; `Filled` keeps the lower word of one, as
`tsi148_fill_dma_desc()` does.

### VmeWindow

`win`, `maps`, `users`, `lock` are the fields of `struct window`; `bus[w]` is
what has been obtained for it from PCI, the page tables and the chip.  `pc` and
`loc` are the control point and local variables of each client's call, and
`held[t]` is what a client was given and has not given back: it is what the
client believes, kept to state what the driver owes it.  Addresses are in units
of 32K so that `Align` (64K) is 2.  `Attach` and `Link` are the two halves of
the `add_mapping()` that runs without the mutex after a forced creation.  Sizes
are rounded in 32 bits, so that one close to `Top` becomes 0 (`RoundUp`).
`return_controller()` looks a mapping up by an address of type `unsigned`, which
on a host where `Wide` holds never equals a virtual address (`AtAddress`).  The
descriptor that `find_controller()` allocates and never frees is left out.

### VmeInterrupt

`table` is `vme_irq_table`, where a handler and its argument carry the name of
the driver they belong to; `owns` is what drivers were given.  `ints` and `line`
are the two halves of the status register: sources the chip latches, and lines
that cards pull until their vector is fetched.  `veat` is the error register.
`isr` is the control point and the local variables of the interrupt handler,
which never runs twice at a time.  `polled` records that a driver has cleared
the error register by polling.  `vme_free_irq()` does not ask who owns a vector;
that drivers free only what they were given is assumed of them (`CallFree`), so
that `VectorStaysOwned` is about two requests that race.

### CtrEvents

`queue`, `timeout`, `inUse` are fields of a client context, `count` and the
control point `"asleep"` its semaphore (`cdcmSem.c`), `timer` and `slots` the two
views of a timer: the number in the context, and the table of the LynxOS
emulation.  A region under `disable()` or a lock of the emulation is one step;
arming a timer and storing its number, and the two halves of `CancelTimeout()`,
are separate steps because nothing protects them.  `Module` is the context whose
semaphore and timer `Reset()` and `CtrDrvrJTAG_CLOSE` wait on while they hold
`ctr_drvr_mutex`.  `connected` stands for the masks that `CtrConnect` details.
A client is one thread: it does not call ioctl while it reads.

`timeout()` returns -1 when all timers are taken.  The fields it is stored in are
unsigned, so that the tests `Timer < 0` never hold: the value is kept as the
number of a timer that does not exist (`NoSlot`), the read does not return EBUSY,
and `Reset()` waits with `ctr_drvr_mutex` held.  The code has sixteen timers
for sixteen client contexts and the modules that may be reset meanwhile.

`timer_callback()` takes a mutex in timer context, where it may not sleep.  The
model takes it as one step, which is what it would be if it could run.

### CtrConnect

One card.  `ram[i]` joins what the driver keeps about trigger `i` in five arrays
(`EqpNum`, `EqpClass`, `Clients`, `Trigs`, `Configs`).  Every operation holds
`ctr_drvr_mutex` from entry to return and is one action; calls that fail change
nothing and are not there.  `DisableInterrupts()` ends with a look at
`HardClients[]` under the number of a trigger, which may lie beyond the array:
`stray` is whatever is found there.  Numbers and sizes of objects are natural
numbers, 0 included, because `CtrDrvrCREATE_PTIM_OBJECT` and
`CtrDrvrCREATE_CTIM_OBJECT` refuse none; `Numbered` says that no object has the
number 0.  A counter that the card does not have, which the ioctl accepts too, is
left out.

### Sis3300

`acquiring`, `transferring`, `nr_events` and the caches are the fields of a
segment.  A bank is known by the number of the acquisition it was armed for, a
cache by the number of the acquisition it was read from, 0 when it is empty.
`pc` and `me` are the callers, `work` the interrupt work with the values it has
read, `cancel` the writer of `acq_cancel`.  `lock` is the card lock where a
holder of it takes more than one step.  The module (`dev`, `bank`,
`SampleStart`, `SampleStop`) is external; that it samples on until it is
disarmed or full, disables an interrupt source when it is acknowledged, and
keeps its status bits until they are cleared, is what the comments in
`sis3300.c` say.  `raced` is history: a cancel has come between the ioctl and
the arming of the module, or an acquisition began with a status bit left by a
cancelled one.  A request for 0 events is accepted, as in the code, although
`sis33_core.c:230` calls "1-%d" valid; the module then samples as for many.

The chip, the cards and the kernel (semaphores, mutexes, wait queues) are
external: they are modelled from the way the driver uses them.

## 3. Runs

Runs that pass:

| Run | Instance | Shows |
|---|---|---|
| `VmeDma` | 3 tasks, 2 channels, failing chip setup, signals; symmetric | `TypeOK`, `SemaphoreAccounted`, `AvailChannelExists`, `OneOwnerPerChannel`, `ChipRunsOnLiveMemory`, `NoLostWakeup`, `StatusIsOwn`, `ImplementsPool` |
| `VmeDmaFaults` | a user and a kernel caller, 1 channel, every failure, reported or not, aborts that take long, unbinding; fairness | `NothingLeaked`, `NoTransferAfterDrain`, `EveryCallReturns` |
| `VmeWindow` | 2 processes, 2 windows, one range, destruction, every fault and signals, calls that overlap; fairness | `WindowConsistent`, `UsersCountMappings`, `EveryCallReturns` |
| `VmeWindowForce` | 2 processes and a driver, 2 mappings each, nested ranges, windows on demand, calls that do not overlap; symmetric | `HeldMappingsAlive`, `CloseReleasesAll`, `MappingsArePrivate` |
| `DmaChain` | every offset in a page, pages up to the last below the limit, lengths up to 18, five alignments, three kinds of cycles, FIFO or not | `NoBlockCrossed`, `ChainIsTransfer` |
| `VmeInterrupt` | 2 drivers that want one vector, a card nobody handles, a source that is not enabled, a poller; fairness | `VectorStaysOwned`, `ErrorWillBeHandled`, `ReportsRealErrors`, `HandlersCalledAlive`, `EveryInterruptServed` |
| `CtrEvents` | 1 client and the module, a ring of 2, 1 timer, 3 events from interrupts and writes; fairness | `PermitHasEvent`, `IdleHasNoTimer`, `OnlyTimeoutsStrand`, `ImplementsQueue`, `EveryWaitReturns` |
| `CtrConnect` | 2 clients, 1 CTIM and 1 PTIM object of 0, 1 or 3 triggers, a table of 4 triggers, 2 counters and a third source; symmetric | `ClosedIsForgotten`, `TableConsistent`, `NobodyElseDeafened` |
| `Sis3300` | 2 callers, 2 segments, requests for 0 to 2 events, banks of 2, 2 acquisitions, 1 cancel; symmetric | `FetchExcludesAcquisition`, `OnlyCancelsRace`, `ArmedIsAcquiring`, `FetchIsFresh`, `EventsAreComplete` |
| `Sis3300Wait` | 2 callers, 1 segment, 2 acquisitions of up to 2 events, banks of 3; fairness | `EveryWaitReturns` |

Runs that end in a violation: the property is what a comment or an error path of
the code says, and the counterexample is what the code does instead.

| Run | Property | What happens |
|---|---|---|
| `CtrTimers` | `TimedReadsHaveTimers` | without a free timer a read with a timeout waits with none (`ctrdrvr-vme.c:1653`) |
| `Sis3300Triggers` | `RequestedStops` | an event that begins and ends between reading the counter and clearing the status bits (`sis3300.c:762`) loses its interrupt; if it was the last one asked for and no trigger follows, the acquisition does not end |

### Bounds, and why they are enough

* Two channels (what the chip has) and three tasks: both channels taken and one
  task waiting, which is where the semaphore, the flags and the late interrupt of
  a former owner meet.  Unbinding and liveness need waiting, which one channel
  gives.
* Two windows: one that matches and one that does not, in either order, and "all
  windows in use".  `MaxHeld` is the number of mappings a client holds: 1 where
  two clients compete for one window, 2 where equal or nested mappings of one
  client matter.
* `MaxLength` 18 with pages of 8: a buffer in one, two, three and four pages, with
  first, middle and last pages of all lengths.  `Starts` has every alignment
  relative to a block.
* Two vectors on two levels: one behind the other in the order of service.  One
  of them is wanted by both drivers.
* No passing run checks what happens to ranges at the edges of a window or of the
  address space, to a find during a release that destroys, or to a driver that
  shares a range with a process: there the code fails, see section 5.  Calls in
  `VmeWindowForce` do not overlap (`Serial`), because windows are created on demand
  there; what `MappingsArePrivate` and `CloseReleasesAll` say of calls that
  overlap is proved (section 4).  `VmeWindow` has neither windows on demand nor
  drivers.
* In `DmaChain` one page is the last below `Top` on the PCI side, and transfers end
  below `Top` on the VME side; what is beyond is in section 5.
* A ring of 2 and 3 events: an overflow, and one more event than the ring holds.
  In `CtrEvents` one client and the module share one timer, so that each finds it
  taken, and gets the slot of the other.  That is all that clients share.
  `EveryWaitReturns` speaks of waits that got a timer; `CtrTimers` shows one that
  did not, and `TimersSuffice` says how many timers make sure of one.
* In `CtrConnect` objects share counters and sources, and the trigger table is
  larger than the number of sources, as on the card: that is where
  `DisableInterrupts()` looks at the wrong place.  A PTIM may have no trigger, one,
  or all but one; for number 0 see section 5.
* Two acquisitions, one of which may be cancelled: the second one meets the
  caches, the completion and the status bits of the first.  In `Sis3300` a bank holds
  as many events as the largest request, so that both kinds of interrupt end
  acquisitions; in `Sis3300Wait` and `Sis3300Triggers` it holds one more, so that
  the interrupt of a full bank does not come with the last event asked for.
  `Sis3300Wait` has no cancel; with one acquisition and one cancel instead of two
  acquisitions `EveryWaitReturns` holds too, and with both the state space is too
  large.  `Wrap` only has to
  be larger than any count.

`DmaChain` checks no deadlock because building a chain ends, the `Sis3300` runs
because nobody is obliged to call again once the bounded acquisitions are over.
Everywhere else deadlock is
checked.  The type invariants of the other modules than `VmeDma` are not in a
run: they are proved (section 4).

### Fairness

* A task, the interrupt handler and the unbinding task go on when they can
  (weak fairness): the kernel schedules runnable tasks.  No fairness is assumed
  of new calls, of signals or of interrupts raised by cards.
* Waiters for the semaphore and for a mutex are served if the lock is free again
  and again (strong fairness): both queue their waiters in order.
* The chip ends every transfer, well or with an error: the driver relies on it
  too, a transfer has no timeout.  It interrupts while the handler is installed.
* Liveness of DMA calls is stated for a driver that stays bound (`irqOn`).
* CTR: threads inside a call and timers go on.  Events need not arrive, signals
  need not come: it is the timer that ends a wait.
* SIS3300: events end, interrupts are delivered and the workqueue runs; the card
  lock is passed on in order (strong fairness for those who wait for it).
  Timeouts and signals are not relied on.  With `FairSpec` triggers keep coming
  until the bank is full: the code needs that, because an interrupt may be lost
  (`Sis3300Triggers`) and only a later event makes up for it.  `FairTriggersSpec`
  promises a trigger for each event that was asked for and no more, which is all
  that the comment at `sis3300.c:735` asks for.

## 4. Proofs

Every theorem is for all values of the constants that satisfy the `ASSUME`s of
its module: any number of tasks, channels, drivers, windows, clients or
segments, and rings, pages and blocks of any size.  These assumptions say that
the sets of actors are finite where they are counted, that sizes are positive
where the code divides by them, that the names for "nobody" are nobody's, and
what the drivers guarantee of their tables: the bus error interrupt is among the
enabled ones (`VmeInterrupt`), the scatter-gather list has an entry for each page
of a transfer (`DmaChain`).  What is assumed beyond that is a hypothesis of the
theorem.  The table names the run of section 3 or the configuration of section 5
that shows what happens without it.

| Theorem | States | Assumes beyond the module |
|---|---|---|
| `VmeDmaProofs!TypeCorrect`, `SemaphoreCorrect`, `ChannelExclusion`, `NeverEDEADLK` | `[]TypeOK`, `[]SemaphoreAccounted`, `[]OneOwnerPerChannel`, `[]AvailChannelExists` | |
| `VmeDmaTransferProofs!GivesEverythingBack`, `WakeupsArrive`, `ReportsOwnTransfer`, `DrainedForGood` | `[]NothingLeaked`, `[]NoLostWakeup`, `[]StatusIsOwn`, `NoTransferAfterDrain` | |
| `VmeDmaTransferProofs!RunsOnLiveMemory` | `[]ChipRunsOnLiveMemory` | `AbortSettles` (`VmeDma` without it); no failure to pin or map (`VmeDmaPin`) |
| `VmeDmaTransferProofs!PoolImplemented` | `ImplementsPool` | `AbortSettles` (`VmeDma` without it) |
| `DmaChainProofs!TypeCorrect`, `BlocksRespected` | `[]TypeOK`, `[]NoBlockCrossed` | |
| `DmaChainProofs!TransferExact` | `[]ChainIsTransfer` | while the transfer is one for which `Fits` holds (`DmaChainTop`, `DmaChainHigh`) |
| `DmaChainProofs!TopNotReached` | a finished chain that is the transfer has no entry that ends at `Top` or beyond | |
| `VmeWindowProofs!TypeCorrect`, `WindowsConsistent` | `[]TypeOK`, `[]WindowConsistent` | |
| `VmeWindowProofs!CountsAgree` | `[]UsersCountMappings` | `Orderly` (`VmeWindowOnDemand`) |
| `VmeWindowProofs!CloseReleases` | `[]CloseReleasesAll` | `Orderly`, no signals (`VmeWindowSignals`) |
| `VmeWindowProofs!MappingsPrivate`, `HeldStayMapped` | `MappingsArePrivate`, `[]HeldMappingsAlive` | `Orderly`, `Processes` (`VmeWindowDriver`) |
| `VmeInterruptProofs!TypeCorrect`, `VectorsOwned`, `ErrorsHandled`, `ErrorsReal`, `HandlersAlive` | `[]TypeOK`, `[]VectorStaysOwned`, `[]ErrorWillBeHandled`, `[]ReportsRealErrors`, `[]HandlersCalledAlive` | |
| `CtrConnectProofs!TypeCorrect` | `[]TypeOK` | |
| `CtrConnectProofs!ClosedForgotten`, `NobodyDeafened`, `TableAgrees` | `[]ClosedIsForgotten`, `NobodyElseDeafened`, `[]TableConsistent` | `Numbered` (`CtrZero`) |
| `CtrEventsProofs!TypeCorrect`, `TimersReturned`, `PermitsHaveEvents`, `TimeoutsStrand`, `QueueImplemented` | `[]TypeOK`, `[]IdleHasNoTimer`, `[]PermitHasEvent`, `OnlyTimeoutsStrand`, `ImplementsQueue` | |
| `CtrEventsProofs!TimersSuffice` | `[]TimedReadsHaveTimers` | a timer for each context (`CtrTimers`) |
| `Sis3300Proofs!TypeCorrect`, `Exclusion`, `RacesAreCancels`, `ArmedAcquires`, `FetchesFresh`, `ClaimsComplete` | `[]TypeOK`, `[]FetchExcludesAcquisition`, `[]OnlyCancelsRace`, `[]ArmedIsAcquiring`, `[]FetchIsFresh`, `[]EventsAreComplete` | |

None of the properties is inductive by itself.  The inductive invariants, and why
they are what they are:

### The DMA pool (`VmeDmaProofs`)

`PoolIndInv` is the conjunction of

* `TypeOK`;
* `WorksOnAChannel`: a task past `Scan` has a channel;
* `PoolInv`: a task that reads or writes a busy flag holds the mutex (`LockInv`);
  the channel that `Scan` has chosen is still free when it is flagged
  (`StillFree`); and `OneOwnerPerChannel`;
* `SemaphoreAccounted`.

`StillFree` is what the mutex is for: without it `TakeChannel` might flag a
channel of another task.  `NeverEDEADLK` is a counting argument: if
all channels were busy each would have an owner of its own, so the channels could
be injected into the tasks that hold a unit of the semaphore other than the one
that scans; but by `SemaphoreAccounted` these are fewer than the channels.

### The transfers (`VmeDmaTransferProofs`)

`TransferIndInv` adds to `PoolIndInv` what the owner of a channel knows of it
(`OwnChannel`): which resources it may have obtained at each control point and
that the status register is about its own transfer.  Because a channel has one
owner, no step of another task can disturb that.  With `AbortSettles` the chip is
busy only on channels whose owner is between the start of a transfer and its end
(`ChipHasOwner`); it is what `RunsOnLiveMemory` and the refinement need.
`NothingLeaked`, `NoLostWakeup` and `StatusIsOwn` need neither this nor the
absence of silent failures.  `PoolImplemented` shows that the owner of a channel
under the refinement mapping is well defined (`OwnerIs`, from
`OneOwnerPerChannel`) and then goes through the actions: taking a channel,
starting, ending and giving back are steps of `DmaPool`, all others stutter.

### The chains (`DmaChainProofs`)

`BlockInv` has the types, that there is a descriptor to fill while pages are
left, and `NoBlockCrossed` itself; addresses may wrap.  `ProgressInv` says how
far the chain is at each control point: the links made so far move exactly the
first bytes of the transfer, in order and without gaps, up to the page and the
byte the loop has come to (`EntryOK` between pages, `InEntryOK` inside one), and
`virt` is set exactly when another descriptor is needed.  The rest is arithmetic:
the bytes before the k-th page of a buffer and the page a byte lies in.  `Fits(job)`
says that every entry of the list ends below `Top` on the VME side and lies below
it on the PCI side.  That the first half cannot be dropped is `TopNotReached`:
`TopInv` says that the entries passed so far end below `Top`, or that the chain
ends in a descriptor that was not filled.

### The windows (`VmeWindowProofs`)

The invariant `IInv` has three layers.  Types, `WindowConsistent` and the control of
the calls (`ControlInv`) hold however calls overlap.  Under `Orderly` (calls do not
overlap, or the options have their default values and no driver uses the windows)
come the lists and counts (`TableInv`): a window just created on demand is still
empty and unchanged when the mapping is linked into it without the mutex, and one
that the last user has left is empty until it is destroyed.  Without signals
comes what a close has emptied so far (`CloseOK`).

`MappingsPrivate` and `HeldStayMapped` are for processes (`Processes`: no
drivers, no `VME_IOCTL_DESTROY_WINDOW`, which takes everybody's mappings by
design).  Their own entries in a list are a subsequence (`Own`); the lemmas
about it (`OwnAppend`, `OwnWithout`, `OwnOthers`) say that adding or removing an
entry of one file leaves the entries of another as they were.  `HeldStayMapped`
then counts: the release of a mapping may take away any equal entry of the same
file, so handles and entries are not matched one by one; there are at least as
many entries as handles of each kind (`CountOK`), and a release lowers both by
one (`CountLess`), because what is released is what one of the handles stands for
(`ReleasingOK`).  The run `VmeWindowForce` checks `HeldMappingsAlive` with a driver
next to two processes, for requests that do not meet; that part is not proved.

### Interrupts and bus errors (`VmeInterruptProofs`)

`TableInv`: the lock is held inside the critical sections, and a driver between
two writes to its entry knows what is in it.  `ErrorInv`: what the handler's
local variables stand for (`IsrInv`), and that VERR is raised for an error that
the chip holds and not again before that one is read (`PendingInv`, as long as
nobody polls).

### CTR connections (`CtrConnectProofs`)

`IInv` is `TypeOK`, `ClosedIsForgotten` mask by mask
(`OnlyOpenConnected`), and `EmptyHasNoClients`: a trigger that is not in use has
no clients.  The last is what both results need: `DisConnectAll` passes over
triggers that are not in use, and creating an object writes the counter of
such a trigger.  For `NobodyDeafened` the steps are of two kinds.  Connecting
and the operations on objects disable nothing and change no trigger with clients
but to let it interrupt (`QuietStep`).  Disconnecting disables a counter or a
source only if no other client needs it (`OthersSpared`); that the number
of the trigger is used as a source number there (`stray`) can only keep more
enabled, and that one source too many is taken for a counter does no harm.
`TableAgrees` has an invariant of its own, `TableInv`, trigger by trigger and
between triggers (one instance of a CTIM, one counter for a PTIM).  All but the
types need `Numbered`: with an object of number 0 a trigger in use cannot be told
from one that is not.  Objects of size 0 are no exception: they have no trigger,
and can be neither connected to nor destroyed.

### CTR events (`CtrEventsProofs`)

`IInv`: the user of a running timer still has its number (`SlotInv`), which is
what makes `IdleHasNoTimer` inductive although arming and storing are two steps;
each permit has an event (`PermitOK`); the write pointer is the read pointer and
the size ahead (`RingOK`); and counts are bounded by what has arrived (`BoundOK`).
For `QueueImplemented` the contents of a ring are a sequence (`Ring`), and the
lemmas say what putting with and without overflow, popping and flushing do to
it: `Append`, `Tail`, both, or the empty sequence.  `TimersSuffice` counts: a user
has at most one slot, and one that asks for a timer has none, so that with a slot
for every user one is free.

### SIS3300 (`Sis3300Proofs`)

`IInv` is in three parts.  Of the module: who holds `card->lock`, that one
segment is acquired, and that without a race a start is alone with the module
until it has armed it.  Of the banks: that what has been read of a bank that is
being filled is a lower bound of what is in it (`CountInv`), which is why judging
by an old counter is safe.  Of the callers: each fetch has claimed a segment
(`ClaimInv`), and a cache is empty or of the acquisition of its bank
(`CacheInv`).  `raced` is defined by the model's history variable: the
theorems hold for all behaviours, and say nothing after a cancel has met a start
(section 5).

### Method, and what is only model-checked

Each inductive invariant was checked by TLC on the instances of section 3 before
it was proved.  The library's induction rules cannot be used with the installed
provers; where a recursive function over a list or a sum is involved (`Kept` in
`VmeWindow`, `Moved` in `DmaChain`) the proof takes the least index for which the
claim fails (`Least`, from the well-foundedness of `<`).

Model-checked only: the liveness properties `EveryCallReturns` (DMA and windows),
`EveryInterruptServed` and `EveryWaitReturns` (CTR and SIS3300), because the
prover has no rules for fairness; and `HeldMappingsAlive` with drivers.

## 5. Other deviations

The code does not keep these statements of its documents, comments and
assertions either.  There is a configuration for each, with the same module as
the run of its component, under which TLC finds the property violated; they are
kept for whoever changes the code, and are not among the runs of section 3.

| Configuration | Property | What is said | What happens |
|---|---|---|---|
| `VmeDmaPin` | `ChipRunsOnLiveMemory` | "This function pins the pages of the userspace buffer" (`vme_dma.c:118`) | when the pages cannot be pinned the error is overwritten by the number of pages (`vme_dma.c:178`), and the transfer starts on a list that was never filled |
| `VmeDmaBusy` | `BusyWhenNoChannel` | "if no channel is available, it returns -EBUSY" (`vmebridge.txt:418`) | the document says -EBUSY when no channel is free; the call sleeps (`vme_dma.c:328`) |
| `VmeDmaChannels` | `ExitWaitsForChannels` | "wait until all the channels are idle" (`vme_dma.c:528`) | the loop of `vme_dma_exit()` takes and gives back one unit per turn (`vme_dma.c:529`), which passes as soon as one channel is free, and the pool is destroyed under the other |
| `VmeDmaExit` | `ExitCompletes` | the same, and "abort all the in flight DMA operations" (`vme_dma.c:523`) | the interrupt is freed before the transfers are aborted (`vme_bridge.c:843`); the owner sleeps and `vme_dma_exit()` waits for ever, unless a signal comes |
| `VmeWindowRounding` | `MappingInsideWindow` | "the size is automatically rounded up to hold the requested address space range" (`vmebridge.txt:191`) | address and size are rounded separately (`vme_window.c:499`): a range that crosses a 64K boundary sticks out of its window |
| `VmeWindowTop` | `MappingInsideWindow` | "find a physical window that can be used to hold that logical mapping" (`vmebridge.txt:196`) | the end of a range at the top of the address space is 0 (`vme_window.c:830`), and a window below is accepted |
| `VmeWindowOnDemand` | `UsersCountMappings` | "It is assumed that the window mutex is held on entry" (`vme_window.c:327`) | after a forced creation `add_mapping()` runs without the mutex (`vme_window.c:912`), and the list and the count lose updates |
| `VmeWindowRelease` | `ReleaseDestroysUnused` | "If the mapping is the last one on that window and force is set then the window is also destroyed" (`vme_window.c:984`) | a mapping made between the last release and the destruction (`vme_window.c:945`) goes with the window |
| `VmeWindowSignals` | `CloseReleasesAll` | "in charge of releasing all the mappings made by the process closing the device file" (`vme_window.c:281`) | a signal during the closing of the device (`vme_window.c:294`) leaves mappings behind |
| `VmeWindowDriver` | `MappingsArePrivate` | "struct file of the owner of the mapping (NULL if the kernel owns it)" (`vme_window.c:366`) | a driver's release does not compare owners (`vme_window.c:386`): an equal mapping of a process is released instead |
| `DmaChainHigh` | `ChainIsTransfer` | "Check the device can do 32-bit DMA" (`vmebridge.txt:131`), but the mask set at `vme_bridge.c:756` has `BITS_PER_LONG` | a page above 4G is addressed without its upper word (`tsi148.c:1085`) |
| `DmaChainTop` | `VirtInitialised` | "The function expects **virt to be already initialised" (`tsi148.c:1213`) | a transfer that goes past the top of the VME space hits the `BUG_ON` (`tsi148.c:1218`); one that ends there ends in a descriptor that was never filled |
| `VmeInterruptArg` | `HandlerGetsItsArg` | "When the handler is called, it is passed the argument arg" (`vmebridge.txt:537`) | the interrupt handler reads an entry that is being written or cleared (`vme_irq.c:246`), and calls a handler with NULL or with the argument of another driver |
| `VmeInterruptPoll` | `PollerIsTold` | "Returns 1 if a bus error occurred else 0" (`vmebridge.txt:300`) | the interrupt handler clears the error before `vme_bus_error_check()` looks (`tsi148.h:1095`); the driver is told that its access went well |
| `CtrCancel` | `CancelIsSafe` | "Cancel a timeout in a safe way" (`ctrdrvr-vme.c:374`) | the timer runs out between reading its slot and cancelling it (`ctrdrvr-vme.c:383`); the timer that is stopped belongs to somebody else, who then waits without one |
| `CtrZero` | `ClosedIsForgotten` | "Disconnect this client from events" (`ctrdrvr-vme.c:1606`) | `DisConnectAll()` passes over the triggers of an object with number 0 (`ctrdrvr-vme.c:1382`), and a client that has closed the device stays in their mask |
| `Sis3300Race` | `StartIsAcquiring` | "No need to acquire the lock because the segment is in the 'acquiring' state" (`sis3300.c:587`) | a cancel before the module is armed (`sis3300.c:589`) ends the acquisition that is then started |
| `Sis3300Negative` | `CancelNotesAcquired` | "all the events up to that one have already been acquired, and we note that value" (`sis3300.c:656`) | cancelling during the first event stores -1 in an unsigned field (`sis3300.c:671`); the test for a negative number is never true |

Of the following no document says otherwise, or they follow from one of the
above.  Each can be reproduced by changing a configuration as said.

| Where | To reproduce | What happens |
|---|---|---|
| `vme_cesif.c:137` | `VmeWindowForce` with `AlignedRequests` | `return_controller()` looks at the address only: of two mappings at one address the wrong one is released.  It also keeps the pointer after the mutex is dropped (the model calls this `Stale` and lets the release fail) |
| `vme_cesif.c:135` | `VmeWindowForce` with `Wide` | the address is passed as `unsigned`: on a 64-bit host no mapping is found, and none is given back |
| `vme_window.c:507` | `VmeWindow` with a size above `Top` less `Align` | the rounded size is 0 |
| `ctrdrvr-vme.c:730` and `:2460` | `CtrEvents` with `Reset` when no slot is free | the test for a negative timer never holds: the wait is entered with no timer and with `ctr_drvr_mutex` held, which keeps everybody out until a signal comes |
| `ctrdrvr-vme.c:1666` | `CtrEvents` without `\/ early[u]` in `Orphaned` | a timer that runs out between `timeout()` and `swait()` wakes nobody: the read sleeps until an event comes |
| `ctrdrvr-vme.c:394` | `CtrEvents` with `Unannounced` required to stay 0 | an event that arrives together with the timeout loses its permit to `sreset()`: it stays in the ring until a later event announces one, and from then on the reader is one behind |
| `ctrdrvr-vme.c:2245` | the step between `ReadOverflow` and `ClearOverflow` | events missed between the two statements are never reported |
| `ctrdrvr-vme.c:1608` | `CtrEvents`, `Close` and `Open` between `Arrive` and `Put` | an interrupt that has read the mask before the client closed puts its event in the ring of the next process that opens the context |
| `ctrdrvr-vme.c:695` | `CtrConnect` with `ConnectedIsHeard` | a client that leaves one object disables the counter it needs for another one of its own, because only other clients are asked; `HardClients[]` is looked up with a trigger number, beyond its end |
| `ctrdrvr-vme.c:1365` | `DisConnectHard` | disconnecting from one hardware source disconnects from all |
| `ctrdrvr-vme.c:2619` | `CtrConnect` with `BusyMeansUsed` | the trigger of a removed CTIM instance keeps its number in the driver, and `DESTROY_CTIM_OBJECT` returns EBUSY although nothing uses the object |
| `ctrdrvr-vme.c:2660` | `CreatePtim` with number 0 or size 0 | the triggers of an object with number 0 look empty and are given to the next object (`CtrZero` with `TableConsistent`); an object of size 0 can never be destroyed |
| `sis3300.c:589` | `Sis3300` with `ArmedIsAcquiring`, `FetchIsFresh` or `EventsAreComplete` without `~raced`, `Sis3300Wait` with one acquisition, one cancel and `EveryWaitReturns` without `[]~raced` | after a cancel has met a start (`Sis3300Race`) the module is armed all the same, its caller waits for ever, and the caches are freed under a fetch that was let in |
| `sis3300.c:670` | the same | a cancel clears no status bit: the interrupt it leaves ends the next acquisition before it has begun |
| `sis3300.c:597` | `WaitDone` against `Prepare` | a waiter that has not run before the next `INIT_COMPLETION()` waits for the next acquisition too; `FETCH` may then return EBUSY on a completion that is out of date |

Two more were read in the code and are outside the models: `timer_callback()`
(`EmulateLynxOs.c:97`) takes a mutex in timer context, and the interrupt work of
the SIS3320 (`sis3320.c:383`) runs without the lock its comment relies on.

## 6. Not modelled, and the plan

Not modelled on purpose: procfs listings and messages; the wording of registers
that no property is about; libraries and test programs; the drivers that only
move registers under one lock.

The models stand for a small share of the repository's lines and will go on to.
Most of it is code without state of its own to check: ioctls that copy one
register in or out, command line test programs, and several copies of the same
driver (the CTR driver exists for VME and for PCI, the skeleton drivers and
CDCM are copied into drivers).  `pickering-lxi` and the JTAG player are third
party code.  Modelling such code line by line would repeat it.

Next, in this order:

1. `VmeInterrupt`: `vme_generate_interrupt()` and its unlocked register.
2. `VmeWindow`: `vme_window_mmap()`, `vme_get_window_attr()` and the exit path,
   for mappings in page tables that outlive their window.
3. A module for the attribute conversions of `tsi148.c` (address modifier to
   attribute and back, window registers): a round trip checked over all inputs.
4. A module for probe and remove (`vme_bridge.c`) that composes windows,
   interrupts and DMA: what is torn down in which order, and who may still use it.
5. `sis3320.c`, next to `Sis3300`, with its interrupt work outside the lock.
6. A second client in `CtrEvents` that calls ioctl while the first reads.

Proofs to come: `HeldMappingsAlive` with drivers whose requests do not meet
those of the processes; lower bounds that would replace the assumption
`Orderly` by the exact pairs of calls that may not overlap.

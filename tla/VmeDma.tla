------------------------------- MODULE VmeDma -------------------------------
(***************************************************************************)
(* The DMA channel pool of the VME bridge driver and the life of a DMA     *)
(* transfer (src/vmebridge/driver/vme_dma.c and the channel operations of  *)
(* tsi148.c).                                                              *)
(*                                                                         *)
(* Any number of tasks call vme_do_dma() or vme_do_dma_kernel().  A task   *)
(* goes through a counting semaphore, picks a channel under a mutex, sets  *)
(* the transfer up, starts the chip, sleeps until the chip interrupts or   *)
(* a signal arrives, frees what the transfer used and gives the channel    *)
(* back.  The chip, the interrupt handler and the task that unbinds the    *)
(* driver run concurrently with all of them.                               *)
(*                                                                         *)
(* A step of the model is a piece of code between two accesses to state    *)
(* that another actor can see.                                             *)
(***************************************************************************)
EXTENDS Integers, FiniteSets

CONSTANTS Tasks,          \* the callers of vme_do_dma()
          NumChannels,    \* TSI148_NUM_DMA_CHANNELS
          NoTask,         \* "nobody", for the mutex and for an unused chip
          Faults,         \* the failures that setting a transfer up can meet
          Kernel,         \* the tasks that call vme_do_dma_kernel()
          Unbind,         \* can the driver be unbound?
          AbortSettles    \* is udelay(10) enough for an abort to take effect?

ASSUME TasksAssumption == IsFiniteSet(Tasks) /\ NoTask \notin Tasks
ASSUME ChannelsAssumption == NumChannels \in Nat \ {0}
ASSUME EnvironmentAssumption ==
  /\ Faults \subseteq {"sgl", "pages", "pin", "map", "chip"}
  /\ Kernel \subseteq Tasks
  /\ Unbind \in BOOLEAN
  /\ AbortSettles \in BOOLEAN

Channels == 0 .. NumChannels - 1
NoChannel == -1

\* What a transfer owns between setup and cleanup: the scatter-gather list,
\* its entries (the pages of the buffer), the references that pin them when
\* they are user pages, the PCI mapping, and the chain of descriptors taken
\* from dma_desc_pool.
Resources == {"sgl", "entries", "pins", "map", "chain"}

\* Where a task is in __vme_do_dma(), named for what it does next.
PC == {"idle", "down", "recheck", "lock", "scan", "take", "alloc", "pin",
       "chip", "start", "wait", "asleep", "abort", "status", "cleanup",
       "release", "unbusy", "up", "return"}

\* Where the unbinding task is in vme_bridge_remove() and vme_dma_exit().
ExitPC == {"bound", "quiesced", "abort", "down", "up", "destroy", "gone"}

VARIABLES
  pc,        \* pc[t]: control point of task t
  chan,      \* chan[t]: the channel t works on (local variable "channel")
  rc,        \* rc[t]: what t's call has returned or is going to return
  status,    \* status[t]: desc->status, as read by t when its transfer ended
  sem,       \* count of dma_semaphore
  lock,      \* holder of dma_lock
  disable,   \* dma_disable
  busy,      \* busy[c]: the channel's busy flag
  res,       \* res[c]: the resources the channel's descriptor points to
  chip,      \* chip[c]: DSTA register: state of the transfer, and whose it is
  abt,       \* abt[c]: an abort has been written to DCTL, not yet obeyed
  intr,      \* intr[c]: DMA interrupt raised by the chip, not yet handled
  irqOn,     \* the handler vme_bridge_interrupt() is installed
  exitpc,    \* control point of the unbinding task
  exiti,     \* its loop counter
  pool       \* dma_desc_pool exists

taskVars == <<pc, chan, rc, status>>
exitVars == <<irqOn, exitpc, exiti, pool, disable>>
chipVars == <<chip, abt, intr>>
vars == <<pc, chan, rc, status, sem, lock, disable, busy, res,
          chip, abt, intr, irqOn, exitpc, exiti, pool>>

ChipStates == {"idle", "busy", "done", "error", "aborted"}
Dsta == [st : ChipStates, job : Tasks \cup {NoTask}]
NoStatus == [st |-> "idle", job |-> NoTask]
ReturnCodes == {"OK", "EINVAL", "EBUSY", "EINTR", "ENOMEM", "EDEADLK",
                "ERESTARTSYS"}

Goto(t, from, to) == pc[t] = from /\ pc' = [pc EXCEPT ![t] = to]
Return(t, code) == rc' = [rc EXCEPT ![t] = code]
ChipBusy(c) == chip[c].st = "busy"                   \* tsi148_dma_busy()

Init ==
  /\ pc = [t \in Tasks |-> "idle"]
  /\ chan = [t \in Tasks |-> NoChannel]
  /\ rc = [t \in Tasks |-> "OK"]
  /\ status = [t \in Tasks |-> NoStatus]
  /\ sem = NumChannels
  /\ lock = NoTask
  /\ disable = FALSE
  /\ busy = [c \in Channels |-> FALSE]
  /\ res = [c \in Channels |-> {}]
  /\ chip = [c \in Channels |-> NoStatus]
  /\ abt = [c \in Channels |-> FALSE]
  /\ intr = [c \in Channels |-> FALSE]
  /\ irqOn = TRUE
  /\ exitpc = "bound"
  /\ exiti = 0
  /\ pool = TRUE

-----------------------------------------------------------------------------
(* __vme_do_dma(): checks and vme_dma_channel_acquire()                    *)

\* The descriptor is checked (length, direction, 32-bit addresses) and
\* dma_disable is read for the first time.
VmeDoDma(t) ==
  /\ pc[t] = "idle"
  /\ \E length \in {0, 1}, dir \in {"to_device", "from_device", "other"} :
       IF length = 0 \/ dir = "other"
         THEN Return(t, "EINVAL") /\ Goto(t, "idle", "return")
         ELSE IF disable
           THEN Return(t, "EBUSY") /\ Goto(t, "idle", "return")
           ELSE Return(t, "OK") /\ Goto(t, "idle", "down")
  /\ UNCHANGED <<chan, status, sem, lock, busy, res, chipVars, exitVars>>

\* Mutant of Down: the semaphore does not block.
DownWithoutWaiting(t) ==
  /\ Goto(t, "down", "recheck")
  /\ sem' = sem - 1
  /\ UNCHANGED <<chan, rc, status, lock, busy, res, chipVars, exitVars>>

\* down_interruptible() gets through.
Down(t) ==
  /\ Goto(t, "down", "recheck")
  /\ sem > 0
  /\ sem' = sem - 1
  /\ UNCHANGED <<chan, rc, status, lock, busy, res, chipVars, exitVars>>

\* down_interruptible() has to sleep and a signal arrives.
DownInterrupted(t) ==
  /\ Goto(t, "down", "return")
  /\ sem = 0
  /\ Return(t, "EINTR")
  /\ UNCHANGED <<chan, status, sem, lock, busy, res, chipVars, exitVars>>

\* Mutant of Recheck: dma_disable is not looked at a second time.
RecheckSkipped(t) ==
  /\ Goto(t, "recheck", "lock")
  /\ UNCHANGED <<chan, rc, status, sem, lock, busy, res, chipVars, exitVars>>

\* dma_disable is read again: it may have been set during the sleep.
Recheck(t) ==
  /\ pc[t] = "recheck"
  /\ IF disable
       THEN sem' = sem + 1 /\ Return(t, "EBUSY") /\ Goto(t, "recheck", "return")
       ELSE Goto(t, "recheck", "lock") /\ UNCHANGED <<sem, rc>>
  /\ UNCHANGED <<chan, status, lock, busy, res, chipVars, exitVars>>

\* Mutant of LockDma: the channel is looked for without dma_lock.
NoLockDma(t) ==
  /\ Goto(t, "lock", "scan")
  /\ UNCHANGED <<chan, rc, status, sem, lock, busy, res, chipVars, exitVars>>

LockDma(t) ==
  /\ Goto(t, "lock", "scan")
  /\ lock = NoTask
  /\ lock' = t
  /\ UNCHANGED <<chan, rc, status, sem, busy, res, chipVars, exitVars>>

FreeChannels == {c \in Channels : ~busy[c]}

\* __lock_avail_channel() finds the first channel that is not busy; when
\* there is none it warns and returns -EDEADLK, leaving the semaphore down.
Scan(t) ==
  /\ pc[t] = "scan"
  /\ LET c == CHOOSE c \in FreeChannels : \A d \in FreeChannels : c <= d
         found == FreeChannels # {} IN
     /\ chan' = [chan EXCEPT ![t] = IF found THEN c ELSE NoChannel]
     /\ pc' = [pc EXCEPT ![t] = IF found THEN "take" ELSE "return"]
     /\ lock' = IF found THEN lock ELSE NoTask
     /\ rc' = [rc EXCEPT ![t] = IF found THEN rc[t] ELSE "EDEADLK"]
  /\ UNCHANGED <<status, sem, busy, res, chipVars, exitVars>>

\* The channel is flagged busy and dma_lock is dropped.
TakeChannel(t) ==
  /\ Goto(t, "take", "alloc")
  /\ busy' = [busy EXCEPT ![chan[t]] = TRUE]
  /\ lock' = NoTask
  /\ UNCHANGED <<chan, rc, status, sem, res, chipVars, exitVars>>

-----------------------------------------------------------------------------
(* vme_dma_setup(): the channel belongs to the task                        *)

\* Address overflow, or no memory for the scatter-gather list; else it is
\* allocated.  (-EINVAL and -ENOMEM from setting up are not told apart.)
AllocSgl(t) ==
  /\ pc[t] = "alloc"
  /\ \/ /\ "sgl" \in Faults
        /\ Return(t, "ENOMEM")
        /\ Goto(t, "alloc", "release")
        /\ UNCHANGED res
     \/ /\ res' = [res EXCEPT ![chan[t]] = @ \cup {"sgl"}]
        /\ Goto(t, "alloc", "pin")
        /\ UNCHANGED rc
  /\ UNCHANGED <<chan, status, sem, lock, busy, chipVars, exitVars>>

\* sgl_map_user_pages(): only the failure to allocate its array of pages is
\* reported.  When the pages cannot be had it drops the ones it got, and
\* still returns nr_pages.
Pin(t) ==
  LET pinned == IF t \in Kernel THEN {"entries"} ELSE {"entries", "pins"} IN
  /\ pc[t] = "pin"
  /\ \/ /\ "pages" \in Faults
        /\ res' = [res EXCEPT ![chan[t]] = @ \ {"sgl"}]
        /\ Return(t, "ENOMEM")
        /\ Goto(t, "pin", "release")
     \/ /\ \/ res' = [res EXCEPT ![chan[t]] = @ \cup pinned]
           \/ "pin" \in Faults /\ UNCHANGED res
        /\ Goto(t, "pin", "chip")
        /\ UNCHANGED rc
  /\ UNCHANGED <<chan, status, sem, lock, busy, chipVars, exitVars>>

\* What sgl_unmap_user_pages() and kfree(sgl) give back.
Unpinned(t) ==
  {"sgl", "entries"} \cup (IF t \in Kernel THEN {} ELSE {"pins"})

\* Mutants of ChipSetup: the failure path returns without releasing the
\* channel; or it frees the list and forgets the pages.
ChipSetupReturns(t) ==
  /\ pc[t] = "chip"
  /\ \/ /\ "chip" \in Faults
        /\ res' = [res EXCEPT ![chan[t]] = @ \ Unpinned(t)]
        /\ Return(t, "ENOMEM")
        /\ Goto(t, "chip", "return")
     \/ /\ res' = [res EXCEPT ![chan[t]] = @ \cup {"map", "chain"}]
        /\ Goto(t, "chip", "start")
        /\ UNCHANGED rc
  /\ UNCHANGED <<chan, status, sem, lock, busy, chipVars, exitVars>>
ChipSetupLeaksPages(t) ==
  /\ pc[t] = "chip"
  /\ \/ /\ "chip" \in Faults
        /\ res' = [res EXCEPT ![chan[t]] = @ \ {"sgl", "entries"}]
        /\ Return(t, "ENOMEM")
        /\ Goto(t, "chip", "release")
     \/ /\ res' = [res EXCEPT ![chan[t]] = @ \cup {"map", "chain"}]
        /\ Goto(t, "chip", "start")
        /\ UNCHANGED rc
  /\ UNCHANGED <<chan, status, sem, lock, busy, chipVars, exitVars>>

\* pci_map_sg(), whose result 0 (nothing mapped) is not looked at, and
\* tsi148_dma_setup(): bad attributes or no descriptor left undo it all.
ChipSetup(t) ==
  \E mapped \in {{"map"}} \cup (IF "map" \in Faults THEN {{}} ELSE {}) :
    /\ pc[t] = "chip"
    /\ \/ /\ "chip" \in Faults
          /\ res' = [res EXCEPT ![chan[t]] = @ \ Unpinned(t)]
          /\ Return(t, "ENOMEM")
          /\ Goto(t, "chip", "release")
       \/ /\ res' = [res EXCEPT ![chan[t]] = @ \cup mapped \cup {"chain"}]
          /\ Goto(t, "chip", "start")
          /\ UNCHANGED rc
    /\ UNCHANGED <<chan, status, sem, lock, busy, chipVars, exitVars>>

-----------------------------------------------------------------------------
(* __vme_do_dma(): start, wait, clean up                                   *)

\* tsi148_dma_start() sets DGO.
Start(t) ==
  /\ Goto(t, "start", "wait")
  /\ chip' = [chip EXCEPT ![chan[t]] = [st |-> "busy", job |-> t]]
  /\ UNCHANGED <<chan, rc, status, sem, lock, busy, res, abt, intr, exitVars>>

\* wait_event_interruptible() evaluates its condition.
WaitCheck(t) ==
  /\ pc[t] = "wait"
  /\ pc' = [pc EXCEPT ![t] = IF ChipBusy(chan[t]) THEN "asleep" ELSE "status"]
  /\ UNCHANGED <<chan, rc, status, sem, lock, busy, res, chipVars, exitVars>>

\* Mutant of WaitSignalled: an interrupted wait is not followed by an abort.
WaitSignalledNoAbort(t) ==
  /\ pc[t] \in {"wait", "asleep"}
  /\ Return(t, "ERESTARTSYS")
  /\ pc' = [pc EXCEPT ![t] = "cleanup"]
  /\ UNCHANGED <<chan, status, sem, lock, busy, res, chipVars, exitVars>>

\* A signal ends the wait; the condition is evaluated once more first.
WaitSignalled(t) ==
  /\ pc[t] \in {"wait", "asleep"}
  /\ IF ChipBusy(chan[t])
       THEN Return(t, "ERESTARTSYS") /\ pc' = [pc EXCEPT ![t] = "abort"]
       ELSE pc' = [pc EXCEPT ![t] = "status"] /\ UNCHANGED rc
  /\ UNCHANGED <<chan, status, sem, lock, busy, res, chipVars, exitVars>>

\* What tsi148_dma_abort() does to a channel; it has no effect on an idle one.
Aborted(c) == abt' = [abt EXCEPT ![c] = ChipBusy(c)]

Abort(t) ==
  /\ Goto(t, "abort", "status")
  /\ Aborted(chan[t])
  /\ UNCHANGED <<chan, rc, status, sem, lock, busy, res, chip, intr, exitVars>>

\* After an abort udelay(10) has elapsed.  tsi148_dma_get_status().
ReadStatus(t) ==
  /\ Goto(t, "status", "cleanup")
  /\ (AbortSettles /\ rc[t] = "ERESTARTSYS") => ~ChipBusy(chan[t])
  /\ status' = [status EXCEPT ![t] = chip[chan[t]]]
  /\ UNCHANGED <<chan, rc, sem, lock, busy, res, chipVars, exitVars>>

\* tsi148_dma_release(), pci_unmap_sg(), sgl_unmap_user_pages(), kfree(sgl).
Cleanup(t) ==
  /\ Goto(t, "cleanup", "release")
  /\ res' = [res EXCEPT ![chan[t]] = @ \ ({"chain", "map"} \cup Unpinned(t))]
  /\ UNCHANGED <<chan, rc, status, sem, lock, busy, chipVars, exitVars>>

-----------------------------------------------------------------------------
(* vme_dma_channel_release()                                               *)

LockRelease(t) ==
  /\ Goto(t, "release", "unbusy")
  /\ lock = NoTask
  /\ lock' = t
  /\ UNCHANGED <<chan, rc, status, sem, busy, res, chipVars, exitVars>>

\* Mutant of Unbusy: the flag is cleared after successful transfers only.
UnbusyOnSuccess(t) ==
  /\ Goto(t, "unbusy", "up")
  /\ busy' = [busy EXCEPT ![chan[t]] = rc[t] # "OK"]
  /\ lock' = NoTask
  /\ UNCHANGED <<chan, rc, status, sem, res, chipVars, exitVars>>

Unbusy(t) ==
  /\ Goto(t, "unbusy", "up")
  /\ busy' = [busy EXCEPT ![chan[t]] = FALSE]
  /\ lock' = NoTask
  /\ UNCHANGED <<chan, rc, status, sem, res, chipVars, exitVars>>

\* Mutant of Up: the semaphore is not given back.
UpForgotten(t) ==
  /\ Goto(t, "up", "return")
  /\ chan' = [chan EXCEPT ![t] = NoChannel]
  /\ UNCHANGED <<rc, status, sem, lock, busy, res, chipVars, exitVars>>

\* up(); nobody ever sleeps on channel_wait, so its wake_up() does nothing.
Up(t) ==
  /\ Goto(t, "up", "return")
  /\ sem' = sem + 1
  /\ chan' = [chan EXCEPT ![t] = NoChannel]
  /\ UNCHANGED <<rc, status, lock, busy, res, chipVars, exitVars>>

\* The call is over, with its local state; the task may make another one.
CallReturns(t) ==
  /\ Goto(t, "return", "idle")
  /\ Return(t, "OK")
  /\ status' = [status EXCEPT ![t] = NoStatus]
  /\ UNCHANGED <<chan, sem, lock, busy, res, chipVars, exitVars>>

-----------------------------------------------------------------------------
(* The chip and the interrupt handler                                      *)

\* The transfer ends by itself, well or with a bus error.
ChipEnds(c) ==
  /\ ChipBusy(c)
  /\ \E st \in {"done", "error"} : chip' = [chip EXCEPT ![c].st = st]
  /\ abt' = [abt EXCEPT ![c] = FALSE]
  /\ intr' = [intr EXCEPT ![c] = TRUE]
  /\ UNCHANGED <<taskVars, sem, lock, busy, res, exitVars>>

\* The transfer ends because it was aborted.
ChipAborts(c) ==
  /\ ChipBusy(c) /\ abt[c]
  /\ chip' = [chip EXCEPT ![c].st = "aborted"]
  /\ abt' = [abt EXCEPT ![c] = FALSE]
  /\ intr' = [intr EXCEPT ![c] = TRUE]
  /\ UNCHANGED <<taskVars, sem, lock, busy, res, exitVars>>

\* Mutants of HandleDmaInterrupt: the interrupts of all channels are cleared
\* and one channel is woken; or a wake-up is taken for the end of the transfer.
HandleOneOfMany(c) ==
  /\ irqOn /\ intr[c]
  /\ intr' = [d \in Channels |-> FALSE]
  /\ pc' = [t \in Tasks |-> IF pc[t] = "asleep" /\ chan[t] = c
                            THEN "wait" ELSE pc[t]]
  /\ UNCHANGED <<chan, rc, status, sem, lock, busy, res, chip, abt, exitVars>>
WakeEndsTransfer(c) ==
  /\ irqOn /\ intr[c]
  /\ intr' = [intr EXCEPT ![c] = FALSE]
  /\ pc' = [t \in Tasks |-> IF pc[t] = "asleep" /\ chan[t] = c
                            THEN "status" ELSE pc[t]]
  /\ UNCHANGED <<chan, rc, status, sem, lock, busy, res, chip, abt, exitVars>>

\* handle_dma_interrupt(): the interrupt is cleared and the channel's wait
\* queue is woken; the sleeper evaluates its condition again.
HandleDmaInterrupt(c) ==
  /\ irqOn /\ intr[c]
  /\ intr' = [intr EXCEPT ![c] = FALSE]
  /\ pc' = [t \in Tasks |-> IF pc[t] = "asleep" /\ chan[t] = c
                            THEN "wait" ELSE pc[t]]
  /\ UNCHANGED <<chan, rc, status, sem, lock, busy, res, chip, abt, exitVars>>

-----------------------------------------------------------------------------
(* vme_bridge_remove() and vme_dma_exit()                                  *)

GotoExit(from, to) == exitpc = from /\ exitpc' = to

\* tsi148_quiesce() masks and clears the interrupts, free_irq() removes the
\* handler.
RemoveFreesIrq ==
  /\ GotoExit("bound", "quiesced")
  /\ Unbind
  /\ irqOn' = FALSE
  /\ intr' = [c \in Channels |-> FALSE]
  /\ UNCHANGED <<taskVars, sem, lock, disable, busy, res, chip, abt, exiti, pool>>

ExitDisables ==
  /\ GotoExit("quiesced", "abort")
  /\ disable' = TRUE
  /\ exiti' = 0
  /\ UNCHANGED <<taskVars, sem, lock, busy, res, chipVars, irqOn, pool>>

\* One turn of "abort all the in flight DMA operations".
ExitAborts ==
  /\ exitpc = "abort"
  /\ Aborted(exiti)
  /\ IF exiti + 1 < NumChannels
       THEN exiti' = exiti + 1 /\ UNCHANGED exitpc
       ELSE exiti' = 0 /\ exitpc' = "down"
  /\ UNCHANGED <<taskVars, sem, lock, disable, busy, res, chip, intr, irqOn, pool>>

\* One turn of "wait until all the channels are idle": down() ...
ExitDown ==
  /\ GotoExit("down", "up")
  /\ sem > 0
  /\ sem' = sem - 1
  /\ UNCHANGED <<taskVars, lock, disable, busy, res, chipVars, irqOn, exiti, pool>>

\* ... and up().
ExitUp ==
  /\ exitpc = "up"
  /\ sem' = sem + 1
  /\ IF exiti + 1 < NumChannels
       THEN exiti' = exiti + 1 /\ exitpc' = "down"
       ELSE exiti' = 0 /\ exitpc' = "destroy"
  /\ UNCHANGED <<taskVars, lock, disable, busy, res, chipVars, irqOn, pool>>

\* tsi148_dma_exit()
ExitDestroysPool ==
  /\ GotoExit("destroy", "gone")
  /\ pool' = FALSE
  /\ UNCHANGED <<taskVars, sem, lock, disable, busy, res, chipVars, irqOn, exiti>>

-----------------------------------------------------------------------------

TaskStep(t) ==
  \/ VmeDoDma(t) \/ Down(t) \/ DownInterrupted(t) \/ Recheck(t)
  \/ LockDma(t) \/ Scan(t) \/ TakeChannel(t)
  \/ AllocSgl(t) \/ Pin(t) \/ ChipSetup(t) \/ Start(t)
  \/ WaitCheck(t) \/ WaitSignalled(t) \/ Abort(t) \/ ReadStatus(t)
  \/ Cleanup(t) \/ LockRelease(t) \/ Unbusy(t) \/ Up(t) \/ CallReturns(t)

ChipStep(c) == ChipEnds(c) \/ ChipAborts(c) \/ HandleDmaInterrupt(c)

ExitStep ==
  \/ RemoveFreesIrq \/ ExitDisables \/ ExitAborts
  \/ ExitDown \/ ExitUp \/ ExitDestroysPool

Next ==
  \/ \E t \in Tasks : TaskStep(t)
  \/ \E c \in Channels : ChipStep(c)
  \/ ExitStep

Spec == Init /\ [][Next]_vars

\* A task that can run does, without waiting for a signal or for another
\* call.  down() and mutex_lock() queue their waiters first-in first-out, so
\* a waiter is served when what it waits for is given back again and again.
TaskProgress(t) ==
  \/ Recheck(t) \/ Scan(t) \/ TakeChannel(t)
  \/ AllocSgl(t) \/ Pin(t) \/ ChipSetup(t) \/ Start(t) \/ WaitCheck(t)
  \/ Abort(t) \/ ReadStatus(t) \/ Cleanup(t) \/ Unbusy(t) \/ Up(t)
  \/ CallReturns(t)

Fairness ==
  /\ \A t \in Tasks :
       /\ WF_vars(TaskProgress(t))
       /\ SF_vars(Down(t))
       /\ SF_vars(LockDma(t) \/ LockRelease(t))
  /\ \A c \in Channels :
       WF_vars(ChipEnds(c) \/ ChipAborts(c)) /\ WF_vars(HandleDmaInterrupt(c))
  /\ WF_vars(ExitDisables \/ ExitAborts \/ ExitUp \/ ExitDestroysPool)
  /\ SF_vars(ExitDown)

FairSpec == Spec /\ Fairness

-----------------------------------------------------------------------------
(* Properties                                                              *)

\* A task owns a channel from the moment it flags it busy until it unflags
\* it; it counts against the semaphore for longer, on both sides.
OwnPC == {"alloc", "pin", "chip", "start", "wait", "asleep", "abort",
          "status", "cleanup", "release", "unbusy"}
HoldPC == OwnPC \cup {"recheck", "lock", "scan", "take", "up"}
LockPC == {"scan", "take", "unbusy"}

Owners == {t \in Tasks : pc[t] \in OwnPC}
Holders == {t \in Tasks : pc[t] \in HoldPC}
ExitHolds == IF exitpc = "up" THEN 1 ELSE 0

\* Every variable has its type.
TypeOK ==
  /\ pc \in [Tasks -> PC]
  /\ chan \in [Tasks -> Channels \cup {NoChannel}]
  /\ rc \in [Tasks -> ReturnCodes]
  /\ status \in [Tasks -> Dsta]
  /\ sem \in Nat
  /\ lock \in Tasks \cup {NoTask}
  /\ disable \in BOOLEAN
  /\ busy \in [Channels -> BOOLEAN]
  /\ res \in [Channels -> SUBSET Resources]
  /\ chip \in [Channels -> Dsta]
  /\ abt \in [Channels -> BOOLEAN]
  /\ intr \in [Channels -> BOOLEAN]
  /\ irqOn \in BOOLEAN
  /\ exitpc \in ExitPC
  /\ exiti \in Channels
  /\ pool \in BOOLEAN

\* No unit of dma_semaphore is ever lost or invented: not by a signal, not by
\* a refused or failed request, not by vme_dma_exit() (which takes and gives
\* back units too).
SemaphoreAccounted ==
  sem + Cardinality(Holders) + ExitHolds = NumChannels

\* The WARN_ON_ONCE of __lock_avail_channel() never fires: whoever got through
\* the semaphore finds a channel that is not busy, although the busy flag and
\* the semaphore are updated at different times on both ways.
AvailChannelExists ==
  \A t \in Tasks : pc[t] = "scan" => FreeChannels # {}

\* A channel is used by one task at a time, and is flagged busy exactly while
\* it is used.
OneOwnerPerChannel ==
  /\ \A t, u \in Owners : t # u => chan[t] # chan[u]
  /\ \A c \in Channels : busy[c] <=> \E t \in Owners : chan[t] = c

\* The driver implements the abstract pool of DmaPool: in particular a channel
\* is given back only when the chip has stopped working on it, and a transfer
\* is started on an idle channel only, even after an abort (given that the
\* chip obeys an abort in the 10 us the driver leaves it).
OwnerOf(c) ==
  IF \E t \in Owners : chan[t] = c
    THEN CHOOSE t \in Owners : chan[t] = c
    ELSE NoTask
Pool == INSTANCE DmaPool WITH
          owner <- [c \in Channels |-> OwnerOf(c)],
          running <- {c \in Channels : ChipBusy(c)}
ImplementsPool == Pool!Spec

\* The chip never runs on pages that have been unpinned or unmapped, nor on
\* descriptors that have been freed, whatever way the transfer ends.
Needed(t) == Resources \ (IF t \in Kernel THEN {"pins"} ELSE {})
ChipRunsOnLiveMemory ==
  \A c \in Channels : ChipBusy(c) => Needed(chip[c].job) \subseteq res[c]

\* A channel that is given back has given back everything the transfer took,
\* on each of the ways out of vme_dma_setup() and __vme_do_dma().
NothingLeaked == \A c \in Channels : ~busy[c] => res[c] = {}

\* No wake-up is lost: when a sleeper's transfer is over, an interrupt for its
\* channel is still to come (while the handler is installed).
NoLostWakeup ==
  \A t \in Tasks :
    pc[t] = "asleep" /\ ~ChipBusy(chan[t]) /\ irqOn => intr[chan[t]]

\* A call that is not interrupted reports the end of its own transfer: not one
\* that still runs, and not the transfer another task made on that channel,
\* whose late interrupt may have woken this one.
StatusIsOwn ==
  \A t \in Tasks :
    pc[t] \in {"cleanup", "release", "unbusy", "up"} /\ rc[t] = "OK" =>
        status[t].job = t /\ status[t].st \in {"done", "error", "aborted"}

\* Once dma_disable is set and nobody is past the second look at it, nobody
\* gets past it ever again, whoever was asleep on the semaphore: no channel is
\* taken after the driver has been drained.
Drained == \A t \in Tasks : pc[t] \in {"idle", "down", "recheck", "return"}
NoTransferAfterDrain == [][disable /\ Drained => Drained']_vars

\* As long as the driver stays bound, every call of vme_do_dma() returns, signals
\* or not: no task starves on the semaphore, sleeps through the end of its
\* transfer, or waits for a mutex for ever.
EveryCallReturns == []irqOn => \A t \in Tasks : (pc[t] # "idle") ~> (pc[t] = "idle")

\* "wait until all the channels are idle" (vme_dma_exit): when the descriptor
\* pool is destroyed no channel is in use.
ExitWaitsForChannels == exitpc = "gone" => \A c \in Channels : ~busy[c]

\* The transfers in flight are aborted and vme_dma_exit() gets to its end.
ExitCompletes == (exitpc = "quiesced") ~> (exitpc = "gone")

\* "if no channel is available, it returns -EBUSY" (vmebridge.txt): a request
\* never goes to sleep for want of a channel.
BusyWhenNoChannel ==
  \A t \in Tasks : ~(pc[t] = "down" /\ sem = 0 /\ FreeChannels = {})
=============================================================================

------------------------ MODULE VmeDmaTransferProofs ------------------------
(***************************************************************************)
(* Proofs about the transfers on the DMA channels: what a transfer owns,   *)
(* when the chip works for it, what its caller is told, and that the       *)
(* driver implements the abstract pool of DmaPool.  They rest on the       *)
(* invariant of VmeDmaProofs: a channel has one owner at a time.           *)
(***************************************************************************)
EXTENDS VmeDmaProofs

\* A transfer that has been started and not yet cleaned up after.
RunPC == {"wait", "asleep", "abort", "status"}

\* What the descriptor of a task's channel may point to at each point.
MayOwn(t) ==
  IF pc[t] \in {"alloc", "release", "unbusy"} THEN {}
  ELSE IF pc[t] = "pin" THEN {"sgl"}
  ELSE IF pc[t] = "chip" THEN Unpinned(t)
  ELSE Unpinned(t) \cup {"chain", "map"}

\* Nothing that vme_dma_setup() leaves undone without saying so.
NoSilentFaults == Faults \cap {"pin", "map"} = {}

\* What a task that owns a channel knows of it.
OwnChannel(t) ==
  pc[t] \in OwnPC =>
    /\ res[chan[t]] \subseteq MayOwn(t)
    /\ NoSilentFaults => res[chan[t]] = MayOwn(t)
    /\ pc[t] \in RunPC => chip[chan[t]].job = t /\ chip[chan[t]].st # "idle"
    /\ pc[t] = "abort" => rc[t] = "ERESTARTSYS"
    /\ pc[t] = "status" /\ rc[t] # "ERESTARTSYS" => ~ChipBusy(chan[t])

\* The chip works for the owner of a channel only, and only between the start
\* of a transfer and its end, provided that it obeys an abort in time.
ChipHasOwner ==
  \A c \in Channels : ChipBusy(c) => \E t \in Tasks : pc[t] \in RunPC /\ chan[t] = c

\* The part of the invariant about the transfers.
TransferInv ==
  /\ \A t \in Tasks : OwnChannel(t)
  /\ NothingLeaked
  /\ NoLostWakeup
  /\ StatusIsOwn
  /\ AbortSettles => ChipHasOwner

\* The inductive invariant of the transfers, on top of that of the pool.
TransferIndInv == PoolIndInv /\ TransferInv

\* No transfer is under way when the driver is loaded.
LEMMA TransferInit == Init => TransferInv
<1> SUFFICES ASSUME Init PROVE TransferInv
  OBVIOUS
<1>1. \A t \in Tasks : OwnChannel(t)
  BY DEF Init, OwnChannel, OwnPC
<1>2. NothingLeaked /\ NoLostWakeup /\ StatusIsOwn
  BY DEF Init, NothingLeaked, NoLostWakeup, StatusIsOwn
<1>3. ChipHasOwner
  BY DEF Init, ChipHasOwner, ChipBusy, NoStatus
<1> QED
  BY <1>1, <1>2, <1>3 DEF TransferInv

-----------------------------------------------------------------------------
(* What a step leaves alone.                                               *)

\* A task changes its own variables and those of its own channel.
LEMMA TaskStepLocal ==
  ASSUME TypeOK, WorksOnAChannel, NEW t \in Tasks, TaskStep(t)
  PROVE  /\ \A u \in Tasks : u # t => /\ pc'[u] = pc[u] /\ chan'[u] = chan[u]
                                      /\ rc'[u] = rc[u] /\ status'[u] = status[u]
         /\ \A c \in Channels : c # chan[t] => res'[c] = res[c] /\ chip'[c] = chip[c]
         /\ t \notin Owners => res' = res /\ chip' = chip
         /\ intr' = intr /\ irqOn' = irqOn
<1> USE DEF TypeOK, Goto, Return, chipVars, exitVars, Owners, OwnPC
<1>1. CASE VmeDoDma(t)  BY <1>1 DEF VmeDoDma
<1>2. CASE Down(t)  BY <1>2 DEF Down
<1>3. CASE DownInterrupted(t)  BY <1>3 DEF DownInterrupted
<1>4. CASE Recheck(t)  BY <1>4 DEF Recheck
<1>5. CASE LockDma(t)  BY <1>5 DEF LockDma
<1>6. CASE Scan(t)  BY <1>6 DEF Scan
<1>7. CASE TakeChannel(t)  BY <1>7 DEF TakeChannel
<1>8. CASE AllocSgl(t)  BY <1>8 DEF AllocSgl
<1>9. CASE Pin(t)  BY <1>9 DEF Pin
<1>10. CASE ChipSetup(t)  BY <1>10 DEF ChipSetup
<1>11. CASE Start(t)  BY <1>11 DEF Start
<1>12. CASE WaitCheck(t)  BY <1>12 DEF WaitCheck
<1>13. CASE WaitSignalled(t)  BY <1>13 DEF WaitSignalled
<1>14. CASE Abort(t)  BY <1>14 DEF Abort
<1>15. CASE ReadStatus(t)  BY <1>15 DEF ReadStatus
<1>16. CASE Cleanup(t)  BY <1>16 DEF Cleanup
<1>17. CASE LockRelease(t)  BY <1>17 DEF LockRelease
<1>18. CASE Unbusy(t)  BY <1>18 DEF Unbusy
<1>19. CASE Up(t)  BY <1>19 DEF Up
<1>20. CASE CallReturns(t)  BY <1>20 DEF CallReturns
<1> QED
  BY <1>1, <1>2, <1>3, <1>4, <1>5, <1>6, <1>7, <1>8, <1>9, <1>10, <1>11, <1>12,
     <1>13, <1>14, <1>15, <1>16, <1>17, <1>18, <1>19, <1>20
  DEF TaskStep

\* So what the other owners know of their channels stays true.
LEMMA OthersKeepChannel ==
  ASSUME PoolIndInv, NEW t \in Tasks, TaskStep(t), NEW u \in Tasks, u # t, OwnChannel(u)
  PROVE  OwnChannel(u)'
<1> SUFFICES ASSUME pc'[u] \in OwnPC
             PROVE  OwnChannel(u)'
  BY DEF OwnChannel
<1>1. /\ pc'[u] = pc[u] /\ chan'[u] = chan[u] /\ rc'[u] = rc[u]
      /\ \A c \in Channels : c # chan[t] => res'[c] = res[c] /\ chip'[c] = chip[c]
      /\ t \notin Owners => res' = res /\ chip' = chip
  BY TaskStepLocal DEF PoolIndInv
<1>2. u \in Owners /\ chan[u] \in Channels
  BY <1>1 DEF Owners, PoolIndInv, WorksOnAChannel
<1>3. res'[chan[u]] = res[chan[u]] /\ chip'[chan[u]] = chip[chan[u]]
  <2>1. CASE t \in Owners
    <3>1. chan[u] # chan[t]
      BY <1>2, <2>1 DEF PoolIndInv, PoolInv, OneOwnerPerChannel
    <3> QED
      BY <1>1, <1>2, <3>1
  <2>2. CASE t \notin Owners
    BY <1>1, <2>2
  <2> QED
    BY <2>1, <2>2
<1> QED
  BY <1>1, <1>3 DEF OwnChannel, MayOwn, ChipBusy

\* A task keeps track of its channel.
LEMMA OwnKeepsChannel ==
  ASSUME PoolIndInv, TransferInv, NEW t \in Tasks, TaskStep(t)
  PROVE  OwnChannel(t)'
<1>0. /\ TypeOK /\ OwnChannel(t)
      /\ pc[t] \in OwnPC \cup {"take"} => chan[t] \in Channels
      /\ res \in [Channels -> SUBSET Resources] /\ chip \in [Channels -> Dsta]
      /\ pc \in [Tasks -> PC] /\ chan \in [Tasks -> Channels \cup {NoChannel}]
      /\ rc \in [Tasks -> ReturnCodes]
  BY DEF PoolIndInv, TransferInv, WorksOnAChannel, TypeOK
<1> USE <1>0 DEF OwnChannel, Goto, Return, chipVars, exitVars, OwnPC, RunPC, MayOwn
<1>1. CASE VmeDoDma(t)  BY <1>1 DEF VmeDoDma
<1>2. CASE Down(t)  BY <1>2 DEF Down
<1>3. CASE DownInterrupted(t)  BY <1>3 DEF DownInterrupted
<1>4. CASE Recheck(t)  BY <1>4 DEF Recheck
<1>5. CASE LockDma(t)  BY <1>5 DEF LockDma
<1>6. CASE Scan(t)  BY <1>6 DEF Scan
<1>7. CASE TakeChannel(t)
  <2>1. ~busy[chan[t]] /\ chan[t] \in Channels
    BY <1>7 DEF TakeChannel, PoolIndInv, PoolInv, StillFree
  <2>2. res[chan[t]] = {}
    BY <2>1 DEF TransferInv, NothingLeaked
  <2> QED
    BY <1>7, <2>2 DEF TakeChannel
<1>8. CASE AllocSgl(t)
  <2>1. pc[t] = "alloc" /\ chan[t] \in Channels /\ res[chan[t]] = {}
    BY <1>8 DEF AllocSgl
  <2>2. chan'[t] = chan[t] /\ \/ pc'[t] = "release" /\ res' = res
                              \/ pc'[t] = "pin" /\ res' = [res EXCEPT ![chan[t]] = @ \cup {"sgl"}]
    BY <1>8 DEF AllocSgl
  <2> QED
    BY <2>1, <2>2
<1>9. CASE Pin(t)
  <2> DEFINE pinned == IF t \in Kernel THEN {"entries"} ELSE {"entries", "pins"}
  <2>1. /\ pc[t] = "pin" /\ chan[t] \in Channels /\ res[chan[t]] \subseteq {"sgl"}
        /\ NoSilentFaults => res[chan[t]] = {"sgl"}
    BY <1>9 DEF Pin
  <2>2. /\ chan'[t] = chan[t]
        /\ \/ pc'[t] = "release" /\ res' = [res EXCEPT ![chan[t]] = @ \ {"sgl"}]
           \/ pc'[t] = "chip" /\ res' = [res EXCEPT ![chan[t]] = @ \cup pinned]
           \/ pc'[t] = "chip" /\ res' = res /\ "pin" \in Faults
    BY <1>9 DEF Pin
  <2>3. {"sgl"} \cup pinned = Unpinned(t)
    BY DEF Unpinned
  <2>4. CASE pc'[t] = "release" /\ res' = [res EXCEPT ![chan[t]] = @ \ {"sgl"}]
    <3>1. res'[chan[t]] = {}
      BY <2>1, <2>4
    <3> QED
      BY <2>2, <2>4, <3>1
  <2>5. CASE pc'[t] = "chip" /\ res' = [res EXCEPT ![chan[t]] = @ \cup pinned]
    <3>1. res'[chan[t]] = res[chan[t]] \cup pinned
      BY <2>1, <2>5
    <3> QED
      BY <2>1, <2>2, <2>3, <2>5, <3>1 DEF Unpinned
  <2>6. CASE pc'[t] = "chip" /\ res' = res /\ "pin" \in Faults
    BY <2>1, <2>2, <2>3, <2>6 DEF NoSilentFaults, Unpinned
  <2> QED
    BY <2>2, <2>4, <2>5, <2>6
<1>10. CASE ChipSetup(t)
  <2>1. /\ pc[t] = "chip" /\ chan[t] \in Channels /\ res[chan[t]] \subseteq Unpinned(t)
        /\ NoSilentFaults => res[chan[t]] = Unpinned(t)
    BY <1>10 DEF ChipSetup
  <2>2. PICK mapped \in {{"map"}, {}} :
          /\ mapped = {} => "map" \in Faults
          /\ chan'[t] = chan[t]
          /\ \/ pc'[t] = "release" /\ res' = [res EXCEPT ![chan[t]] = @ \ Unpinned(t)]
             \/ pc'[t] = "start" /\ res' = [res EXCEPT ![chan[t]] = @ \cup mapped \cup {"chain"}]
    BY <1>10 DEF ChipSetup
  <2>3. CASE pc'[t] = "release" /\ res' = [res EXCEPT ![chan[t]] = @ \ Unpinned(t)]
    <3>1. res'[chan[t]] = {}
      BY <2>1, <2>3
    <3> QED
      BY <2>2, <2>3, <3>1
  <2>4. CASE pc'[t] = "start" /\ res' = [res EXCEPT ![chan[t]] = @ \cup mapped \cup {"chain"}]
    <3>1. res'[chan[t]] = res[chan[t]] \cup mapped \cup {"chain"}
      BY <2>1, <2>4
    <3>2. MayOwn(t)' = Unpinned(t) \cup {"chain", "map"}
      BY <2>4 DEF Unpinned
    <3>3. res'[chan[t]] \subseteq MayOwn(t)'
      BY <2>1, <3>1, <3>2
    <3>4. NoSilentFaults => mapped = {"map"}
      BY <2>2 DEF NoSilentFaults
    <3>5. NoSilentFaults => res'[chan[t]] = MayOwn(t)'
      BY <2>1, <3>1, <3>2, <3>4
    <3> HIDE DEF MayOwn
    <3> QED
      BY <2>2, <2>4, <3>3, <3>5
  <2> QED
    BY <2>2, <2>3, <2>4
<1>11. CASE Start(t)
  <2>1. /\ pc[t] = "start" /\ pc'[t] = "wait" /\ chan'[t] = chan[t] /\ res' = res
        /\ chip'[chan[t]] = [st |-> "busy", job |-> t]
    BY <1>11 DEF Start
  <2> QED
    BY <2>1 DEF Unpinned
<1>12. CASE WaitCheck(t)  BY <1>12 DEF WaitCheck, ChipBusy, Unpinned
<1>13. CASE WaitSignalled(t)  BY <1>13 DEF WaitSignalled, ChipBusy, Unpinned
<1>14. CASE Abort(t)  BY <1>14 DEF Abort, Unpinned
<1>15. CASE ReadStatus(t)  BY <1>15 DEF ReadStatus, Unpinned
<1>16. CASE Cleanup(t)
  <2>1. res'[chan[t]] = {}
    BY <1>16 DEF Cleanup, Unpinned
  <2> QED
    BY <1>16, <2>1 DEF Cleanup
<1>17. CASE LockRelease(t)  BY <1>17 DEF LockRelease
<1>18. CASE Unbusy(t)  BY <1>18 DEF Unbusy
<1>19. CASE Up(t)  BY <1>19 DEF Up
<1>20. CASE CallReturns(t)  BY <1>20 DEF CallReturns
<1> QED
  BY <1>1, <1>2, <1>3, <1>4, <1>5, <1>6, <1>7, <1>8, <1>9, <1>10, <1>11, <1>12,
     <1>13, <1>14, <1>15, <1>16, <1>17, <1>18, <1>19, <1>20
  DEF TaskStep

-----------------------------------------------------------------------------
(* A step of a task keeps the rest of the invariant.                       *)

\* A channel that is given back is empty: only Unbusy clears a busy flag, and
\* only owners, whose channels are busy, fill a channel.
LEMMA TaskLeaksNothing ==
  ASSUME PoolIndInv, TransferInv, NEW t \in Tasks, TaskStep(t)
  PROVE  NothingLeaked'
<1>0. /\ busy \in [Channels -> BOOLEAN]
      /\ pc[t] \in OwnPC => chan[t] \in Channels
      /\ \A c \in Channels : busy[c] <=> \E u \in Owners : chan[u] = c
  BY DEF PoolIndInv, TypeOK, WorksOnAChannel, PoolInv, OneOwnerPerChannel
<1>1. CASE TakeChannel(t)
  <2>1. res' = res /\ \A c \in Channels : busy[c] => busy'[c]
    BY <1>0, <1>1 DEF TakeChannel
  <2> QED
    BY <2>1 DEF TransferInv, NothingLeaked
<1>2. CASE Unbusy(t)
  <2>1. pc[t] = "unbusy" /\ res' = res /\ chan[t] \in Channels
    BY <1>0, <1>2 DEF Unbusy, OwnPC, chipVars, exitVars, Goto
  <2>2. res[chan[t]] = {}
    BY <2>1 DEF TransferInv, OwnChannel, OwnPC, MayOwn
  <2>3. \A c \in Channels : c # chan[t] => busy'[c] = busy[c]
    BY <1>0, <1>2 DEF Unbusy
  <2> QED
    BY <2>1, <2>2, <2>3 DEF TransferInv, NothingLeaked
<1>3. CASE ~TakeChannel(t) /\ ~Unbusy(t)
  <2>1. busy' = busy
    BY <1>3 DEF TaskStep, VmeDoDma, Down, DownInterrupted, Recheck, LockDma, Scan,
       AllocSgl, Pin, ChipSetup, Start, WaitCheck, WaitSignalled, Abort, ReadStatus,
       Cleanup, LockRelease, Up, CallReturns
  <2>2. ASSUME NEW c \in Channels, ~busy[c] PROVE res'[c] = res[c]
    <3>1. t \in Owners => c # chan[t]
      BY <1>0, <2>2
    <3> QED
      BY <3>1, TaskStepLocal DEF PoolIndInv
  <2> QED
    BY <2>1, <2>2 DEF TransferInv, NothingLeaked
<1> QED
  BY <1>1, <1>2, <1>3

\* A task goes to sleep only while its transfer runs, and starts no transfer
\* on the channel of another.
LEMMA TaskLosesNoWakeup ==
  ASSUME PoolIndInv, TransferInv, NEW t \in Tasks, TaskStep(t)
  PROVE  NoLostWakeup'
<1> SUFFICES ASSUME NEW u \in Tasks, pc'[u] = "asleep", ~ChipBusy(chan[u])', irqOn'
             PROVE  intr'[chan'[u]]
  BY DEF NoLostWakeup
<1>0. /\ TypeOK /\ WorksOnAChannel /\ intr' = intr /\ irqOn' = irqOn
  BY TaskStepLocal DEF PoolIndInv
<1>1. CASE u # t
  <2>1. /\ pc[u] = "asleep" /\ chan'[u] = chan[u]
        /\ \A c \in Channels : c # chan[t] => chip'[c] = chip[c]
        /\ t \notin Owners => chip' = chip
    BY <1>0, <1>1, TaskStepLocal
  <2>2. u \in Owners /\ chan[u] \in Channels
    BY <1>0, <2>1 DEF Owners, OwnPC, WorksOnAChannel
  <2>3. t \in Owners => chan[u] # chan[t]
    BY <1>1, <2>2 DEF PoolIndInv, PoolInv, OneOwnerPerChannel
  <2>4. ~ChipBusy(chan[u])
    BY <2>1, <2>2, <2>3 DEF ChipBusy
  <2> QED
    BY <1>0, <2>1, <2>4 DEF TransferInv, NoLostWakeup
<1>2. CASE u = t
  <2>1. WaitCheck(t)
    BY <1>0, <1>2 DEF TypeOK, TaskStep, VmeDoDma, Down, DownInterrupted, Recheck,
       LockDma, Scan, TakeChannel, AllocSgl, Pin, ChipSetup, Start, WaitSignalled,
       Abort, ReadStatus, Cleanup, LockRelease, Unbusy, Up, CallReturns, Goto, Return
  <2> QED
    BY <1>0, <1>2, <2>1 DEF WaitCheck, ChipBusy, TypeOK, chipVars
<1> QED
  BY <1>1, <1>2

\* The status is read from the channel while it is the task's own.
LEMMA TaskStatusIsOwn ==
  ASSUME PoolIndInv, TransferInv, NEW t \in Tasks, TaskStep(t)
  PROVE  StatusIsOwn'
<1> DEFINE EndPC == {"cleanup", "release", "unbusy", "up"}
<1> SUFFICES ASSUME NEW u \in Tasks, pc'[u] \in EndPC, rc'[u] = "OK"
             PROVE  status'[u].job = u /\ status'[u].st \in {"done", "error", "aborted"}
  BY DEF StatusIsOwn
<1>0. TypeOK /\ WorksOnAChannel
  BY DEF PoolIndInv
<1>1. CASE u # t
  BY <1>0, <1>1, TaskStepLocal DEF TransferInv, StatusIsOwn
<1>2. CASE u = t
  <2>1. CASE ReadStatus(t)
    <3>1. pc[t] = "status" /\ rc[t] = "OK" /\ status'[t] = chip[chan[t]]
      BY <1>0, <1>2, <2>1 DEF ReadStatus, Goto, TypeOK
    <3>2. /\ chip[chan[t]].job = t /\ chip[chan[t]].st # "idle"
          /\ ~ChipBusy(chan[t])
      BY <3>1 DEF TransferInv, OwnChannel, OwnPC, RunPC
    <3>3. chip[chan[t]] \in Dsta
      BY <1>0, <3>1 DEF TypeOK, WorksOnAChannel, OwnPC
    <3> QED
      BY <1>2, <3>1, <3>2, <3>3 DEF Dsta, ChipStates, ChipBusy
  <2>2. CASE ~ReadStatus(t)
    <3>1. pc[t] \in EndPC /\ rc[t] = "OK" /\ status'[t] = status[t]
      BY <1>0, <1>2, <2>2 DEF TypeOK, TaskStep, VmeDoDma, Down, DownInterrupted,
         Recheck, LockDma, Scan, TakeChannel, AllocSgl, Pin, ChipSetup, Start,
         WaitCheck, WaitSignalled, Abort, Cleanup, LockRelease, Unbusy, Up,
         CallReturns, Goto, Return
    <3> QED
      BY <1>2, <3>1 DEF TransferInv, StatusIsOwn
  <2> QED
    BY <2>1, <2>2
<1> QED
  BY <1>1, <1>2

\* If the chip obeys an abort in time, it has stopped when a task leaves the
\* wait for its transfer behind.
LEMMA TaskChipHasOwner ==
  ASSUME PoolIndInv, TransferInv, AbortSettles, NEW t \in Tasks, TaskStep(t)
  PROVE  ChipHasOwner'
<1> SUFFICES ASSUME NEW c \in Channels, ChipBusy(c)'
             PROVE  \E u \in Tasks : pc'[u] \in RunPC /\ chan'[u] = c
  BY DEF ChipHasOwner
<1>0. TypeOK /\ WorksOnAChannel
  BY DEF PoolIndInv
<1>1. CASE Start(t) /\ c = chan[t]
  BY <1>0, <1>1 DEF Start, Goto, RunPC, TypeOK
<1>2. CASE ~(Start(t) /\ c = chan[t])
  <2>1. chip'[c] = chip[c]
    BY <1>0, <1>2 DEF TypeOK, TaskStep, VmeDoDma, Down, DownInterrupted,
       Recheck, LockDma, Scan, TakeChannel, AllocSgl, Pin, ChipSetup, Start,
       WaitCheck, WaitSignalled, Abort, ReadStatus, Cleanup, LockRelease, Unbusy,
       Up, CallReturns, chipVars
  <2>2. PICK u \in Tasks : pc[u] \in RunPC /\ chan[u] = c
    BY <2>1 DEF TransferInv, ChipHasOwner, ChipBusy
  <2>3. CASE u # t
    BY <1>0, <2>2, <2>3, TaskStepLocal
  <2>4. CASE u = t
    <3>1. ChipBusy(chan[t])
      BY <2>1, <2>2, <2>4 DEF ChipBusy
    <3>2. ~ReadStatus(t)
      <4>1. pc[t] = "status" /\ rc[t] # "ERESTARTSYS" => ~ChipBusy(chan[t])
        BY DEF TransferInv, OwnChannel, OwnPC
      <4> QED
        BY <3>1, <4>1 DEF ReadStatus, Goto
    <3>3. pc'[t] \in RunPC /\ chan'[t] = chan[t]
      BY <1>0, <2>2, <2>4, <3>2 DEF TypeOK, TaskStep, VmeDoDma, Down, DownInterrupted,
         Recheck, LockDma, Scan, TakeChannel, AllocSgl, Pin, ChipSetup, Start,
         WaitCheck, WaitSignalled, Abort, Cleanup, LockRelease, Unbusy,
         Up, CallReturns, Goto, Return, RunPC
    <3> QED
      BY <2>2, <2>4, <3>3
  <2> QED
    BY <2>3, <2>4
<1> QED
  BY <1>1, <1>2

-----------------------------------------------------------------------------
(* Steps of the chip, of the interrupt handler and of the unbinding task.  *)

\* The end of a transfer leaves the chip idle on the channel, says for whom it
\* worked, and raises the channel's interrupt.
LEMMA EndKeepsTransfers ==
  ASSUME PoolIndInv, TransferInv, NEW c \in Channels, ChipEnds(c) \/ ChipAborts(c)
  PROVE  TransferInv'
<1>0. TypeOK /\ WorksOnAChannel
  BY DEF PoolIndInv
<1>1. /\ UNCHANGED <<pc, chan, rc, status, sem, lock, busy, res, irqOn>>
      /\ intr' = [intr EXCEPT ![c] = TRUE]
      /\ \E s \in {"done", "error", "aborted"} : chip' = [chip EXCEPT ![c].st = s]
  BY DEF ChipEnds, ChipAborts, taskVars, exitVars
<1>2. PICK s \in {"done", "error", "aborted"} : chip' = [chip EXCEPT ![c].st = s]
  BY <1>1
<1>3. /\ chip'[c].st = s /\ chip'[c].job = chip[c].job
      /\ \A d \in Channels : d # c => chip'[d] = chip[d]
  BY <1>0, <1>2 DEF TypeOK, Dsta
<1>4. intr'[c] /\ \A d \in Channels : d # c => intr'[d] = intr[d]
  BY <1>0, <1>1 DEF TypeOK
<1>5. ASSUME NEW t \in Tasks PROVE OwnChannel(t)'
  <2>1. pc[t] \in OwnPC => chan[t] \in Channels
    BY <1>0 DEF WorksOnAChannel
  <2>2. OwnChannel(t)
    BY DEF TransferInv
  <2> QED
    BY <1>1, <1>3, <2>1, <2>2 DEF OwnChannel, MayOwn, ChipBusy
<1>6. NothingLeaked' /\ StatusIsOwn'
  BY <1>1 DEF TransferInv, NothingLeaked, StatusIsOwn
<1>7. NoLostWakeup'
  <2> SUFFICES ASSUME NEW t \in Tasks, pc[t] = "asleep", ~ChipBusy(chan[t])', irqOn
               PROVE  intr'[chan[t]]
    BY <1>1 DEF NoLostWakeup
  <2>1. chan[t] \in Channels
    BY <1>0 DEF WorksOnAChannel, OwnPC
  <2> QED
    BY <1>1, <1>3, <1>4, <2>1 DEF TransferInv, NoLostWakeup, ChipBusy
<1>8. AbortSettles => ChipHasOwner'
  BY <1>1, <1>3 DEF TransferInv, ChipHasOwner, ChipBusy
<1> QED
  BY <1>5, <1>6, <1>7, <1>8 DEF TransferInv

\* The handler wakes every sleeper of the channel whose interrupt it clears.
LEMMA HandlerKeepsTransfers ==
  ASSUME PoolIndInv, TransferInv, NEW c \in Channels, HandleDmaInterrupt(c)
  PROVE  TransferInv'
<1>0. TypeOK /\ WorksOnAChannel
  BY DEF PoolIndInv
<1>1. /\ UNCHANGED <<chan, rc, status, sem, lock, busy, res, chip, irqOn>>
      /\ intr' = [intr EXCEPT ![c] = FALSE]
      /\ \A t \in Tasks :
           pc'[t] = IF pc[t] = "asleep" /\ chan[t] = c THEN "wait" ELSE pc[t]
  BY DEF HandleDmaInterrupt, exitVars
<1>2. ASSUME NEW t \in Tasks PROVE OwnChannel(t)'
  <2>1. OwnChannel(t) /\ pc'[t] = IF pc[t] = "asleep" /\ chan[t] = c THEN "wait" ELSE pc[t]
    BY <1>1 DEF TransferInv
  <2>2. MayOwn(t)' = MayOwn(t)
    BY <2>1 DEF MayOwn, Unpinned
  <2> QED
    BY <1>1, <2>1, <2>2 DEF OwnChannel, ChipBusy, OwnPC, RunPC
<1>3. NothingLeaked' /\ StatusIsOwn'
  BY <1>1 DEF TransferInv, NothingLeaked, StatusIsOwn
<1>4. NoLostWakeup'
  <2> SUFFICES ASSUME NEW t \in Tasks, pc'[t] = "asleep", ~ChipBusy(chan[t])', irqOn
               PROVE  intr'[chan[t]]
    BY <1>1 DEF NoLostWakeup
  <2>1. pc[t] = "asleep" /\ chan[t] # c
    BY <1>1
  <2>2. chan[t] \in Channels
    BY <1>0, <2>1 DEF WorksOnAChannel, OwnPC
  <2>3. intr[chan[t]]
    BY <1>1, <2>1 DEF TransferInv, NoLostWakeup, ChipBusy
  <2> QED
    BY <1>0, <1>1, <2>1, <2>2, <2>3 DEF TypeOK
<1>5. AbortSettles => ChipHasOwner'
  <2>1. \A t \in Tasks : pc[t] \in RunPC => pc'[t] \in RunPC
    BY <1>1 DEF RunPC
  <2> QED
    BY <1>1, <2>1 DEF TransferInv, ChipHasOwner, ChipBusy
<1> QED
  BY <1>2, <1>3, <1>4, <1>5 DEF TransferInv

\* The unbinding task clears interrupts only when it removes the handler, and
\* touches no transfer otherwise.
LEMMA ExitKeepsTransfers ==
  ASSUME TransferInv, ExitStep \/ UNCHANGED vars
  PROVE  TransferInv'
<1>1. /\ UNCHANGED <<pc, chan, rc, status, busy, res, chip>>
      /\ (intr' = intr /\ irqOn' = irqOn) \/ ~irqOn'
  BY DEF ExitStep, RemoveFreesIrq, ExitDisables, ExitAborts, ExitDown, ExitUp,
     ExitDestroysPool, taskVars, chipVars, vars
<1>2. ASSUME NEW t \in Tasks PROVE OwnChannel(t)'
  BY <1>1 DEF TransferInv, OwnChannel, MayOwn, ChipBusy
<1>3. NothingLeaked' /\ StatusIsOwn'
  BY <1>1 DEF TransferInv, NothingLeaked, StatusIsOwn
<1>4. NoLostWakeup'
  BY <1>1 DEF TransferInv, NoLostWakeup, ChipBusy
<1>5. AbortSettles => ChipHasOwner'
  BY <1>1 DEF TransferInv, ChipHasOwner, ChipBusy
<1> QED
  BY <1>2, <1>3, <1>4, <1>5 DEF TransferInv

\* The invariant of the transfers holds always.
LEMMA TransferInductive == Spec => []TransferIndInv
<1>1. Init => TransferInv
  BY TransferInit
<1>2. PoolIndInv /\ TransferInv /\ [Next]_vars => TransferInv'
  <2> SUFFICES ASSUME PoolIndInv, TransferInv, [Next]_vars PROVE TransferInv'
    OBVIOUS
  <2>1. ASSUME NEW t \in Tasks, TaskStep(t) PROVE TransferInv'
    <3>1. ASSUME NEW u \in Tasks PROVE OwnChannel(u)'
      BY <2>1, OwnKeepsChannel, OthersKeepChannel DEF TransferInv
    <3> QED
      BY <2>1, <3>1, TaskLeaksNothing, TaskLosesNoWakeup, TaskStatusIsOwn,
         TaskChipHasOwner DEF TransferInv
  <2>2. ASSUME NEW c \in Channels, ChipStep(c) PROVE TransferInv'
    BY <2>2, EndKeepsTransfers, HandlerKeepsTransfers DEF ChipStep
  <2>3. CASE ExitStep \/ UNCHANGED vars
    BY <2>3, ExitKeepsTransfers
  <2> QED
    BY <2>1, <2>2, <2>3 DEF Next
<1> QED
  BY <1>1, <1>2, PoolInductive, PTL DEF Spec, TransferIndInv

-----------------------------------------------------------------------------
(* The properties.                                                         *)

\* A channel that is given back has given back everything, on each of the ways
\* out of vme_dma_setup() and __vme_do_dma(): also when a failure to pin or to
\* map goes unreported, and when the chip is slow to obey an abort.
THEOREM GivesEverythingBack == Spec => []NothingLeaked
<1>1. TransferIndInv => NothingLeaked
  BY DEF TransferIndInv, TransferInv
<1> QED
  BY <1>1, TransferInductive, PTL

\* No wake-up is lost between the evaluation of wait_event_interruptible()'s
\* condition and the sleep, for any number of tasks and channels.
THEOREM WakeupsArrive == Spec => []NoLostWakeup
<1>1. TransferIndInv => NoLostWakeup
  BY DEF TransferIndInv, TransferInv
<1> QED
  BY <1>1, TransferInductive, PTL

\* A call that is not interrupted reports the end of its own transfer.
THEOREM ReportsOwnTransfer == Spec => []StatusIsOwn
<1>1. TransferIndInv => StatusIsOwn
  BY DEF TransferIndInv, TransferInv
<1> QED
  BY <1>1, TransferInductive, PTL

\* The chip never runs on memory that has been given back, provided that it
\* obeys an abort within the udelay(10) of tsi148_dma_abort(), and that the
\* pages could be pinned and mapped (failures of which go unnoticed).
THEOREM RunsOnLiveMemory ==
  ASSUME AbortSettles, NoSilentFaults
  PROVE  Spec => []ChipRunsOnLiveMemory
<1>1. TransferIndInv => ChipRunsOnLiveMemory
  <2> SUFFICES ASSUME TransferIndInv, NEW c \in Channels, ChipBusy(c)
               PROVE  Needed(chip[c].job) \subseteq res[c]
    BY DEF ChipRunsOnLiveMemory
  <2>1. PICK t \in Tasks : pc[t] \in RunPC /\ chan[t] = c
    BY DEF TransferIndInv, TransferInv, ChipHasOwner
  <2>2. chip[c].job = t /\ res[c] = MayOwn(t)
    BY <2>1 DEF TransferIndInv, TransferInv, OwnChannel, RunPC, OwnPC
  <2>3. Needed(t) \subseteq MayOwn(t)
    BY <2>1 DEF Needed, MayOwn, Resources, Unpinned, RunPC
  <2> QED
    BY <2>2, <2>3
<1> QED
  BY <1>1, TransferInductive, PTL

\* Once dma_disable is set and nobody is past the second look at it, nobody
\* gets past it again.
THEOREM DrainedForGood == Spec => NoTransferAfterDrain
<1>1. TypeOK /\ [Next]_vars => [disable /\ Drained => Drained']_vars
  <2> SUFFICES ASSUME TypeOK, [Next]_vars, disable, Drained PROVE Drained'
    OBVIOUS
  <2>1. ASSUME NEW t \in Tasks, TaskStep(t) PROVE Drained'
    BY <2>1 DEF TypeOK, Drained, TaskStep, VmeDoDma, Down, DownInterrupted,
       Recheck, LockDma, Scan, TakeChannel, AllocSgl, Pin, ChipSetup, Start,
       WaitCheck, WaitSignalled, Abort, ReadStatus, Cleanup, LockRelease, Unbusy,
       Up, CallReturns, Goto
  <2>2. ASSUME NEW c \in Channels, ChipStep(c) PROVE Drained'
    BY <2>2 DEF Drained, ChipStep, ChipEnds, ChipAborts, HandleDmaInterrupt, taskVars
  <2>3. CASE ExitStep \/ UNCHANGED vars
    BY <2>3 DEF Drained, ExitStep, RemoveFreesIrq, ExitDisables, ExitAborts,
       ExitDown, ExitUp, ExitDestroysPool, taskVars, vars
  <2> QED
    BY <2>1, <2>2, <2>3 DEF Next
<1> QED
  BY <1>1, TypeCorrect, PTL DEF Spec, NoTransferAfterDrain

-----------------------------------------------------------------------------
(* The driver implements DmaPool, if the chip obeys an abort in time.      *)

\* The owner of a channel under the refinement mapping is the one task that
\* works on it.
OwnersMapped ==
  \A c \in Channels :
    /\ OwnerOf(c) \in Tasks \cup {NoTask}
    /\ \A t \in Tasks : OwnerOf(c) = t <=> t \in Owners /\ chan[t] = c

\* OneOwnerPerChannel makes the refinement mapping well defined.
LEMMA OwnerIs == PoolIndInv => OwnersMapped
<1> SUFFICES ASSUME PoolIndInv, NEW c \in Channels
             PROVE  /\ OwnerOf(c) \in Tasks \cup {NoTask}
                    /\ \A t \in Tasks : OwnerOf(c) = t <=> t \in Owners /\ chan[t] = c
  BY DEF OwnersMapped
<1>1. CASE \E t \in Owners : chan[t] = c
  <2>1. OwnerOf(c) \in Owners /\ chan[OwnerOf(c)] = c
    BY <1>1 DEF OwnerOf
  <2>2. \A t, u \in Owners : t # u => chan[t] # chan[u]
    BY DEF PoolIndInv, PoolInv, OneOwnerPerChannel
  <2> QED
    BY <2>1, <2>2 DEF Owners
<1>2. CASE ~\E t \in Owners : chan[t] = c
  BY <1>2, TasksAssumption DEF OwnerOf
<1> QED
  BY <1>1, <1>2

\* The chip does not work on a channel whose owner is not waiting for it.
LEMMA StoppedUnlessWaiting ==
  ASSUME TransferIndInv, AbortSettles, NEW t \in Owners, pc[t] \notin RunPC
  PROVE  ~ChipBusy(chan[t])
<1> SUFFICES ASSUME ChipBusy(chan[t]) PROVE FALSE
  OBVIOUS
<1>1. t \in Tasks /\ chan[t] \in Channels
  BY DEF TransferIndInv, PoolIndInv, WorksOnAChannel, Owners
<1>2. PICK u \in Tasks : pc[u] \in RunPC /\ chan[u] = chan[t]
  BY <1>1 DEF TransferIndInv, TransferInv, ChipHasOwner
<1>3. u \in Owners /\ u # t
  BY <1>2 DEF Owners, RunPC, OwnPC
<1> QED
  BY <1>2, <1>3 DEF TransferIndInv, PoolIndInv, PoolInv, OneOwnerPerChannel

\* Initially every channel is free and the chip idle.
LEMMA InitRefines == Init => Pool!Init
<1> SUFFICES ASSUME Init PROVE Pool!Init
  OBVIOUS
<1>1. Owners = {}
  BY DEF Init, Owners, OwnPC
<1>2. \A c \in Channels : OwnerOf(c) = NoTask
  BY <1>1 DEF OwnerOf
<1>3. {c \in Channels : ChipBusy(c)} = {}
  BY DEF Init, ChipBusy, NoStatus
<1> QED
  BY <1>2, <1>3 DEF Pool!Init

\* A step that changes neither the owners nor the chip is invisible.
LEMMA PoolStutters ==
  ASSUME OwnersMapped, OwnersMapped', Owners' = Owners, chip' = chip,
         \A t \in Owners : chan'[t] = chan[t]
  PROVE  UNCHANGED <<[c \in Channels |-> OwnerOf(c)], {c \in Channels : ChipBusy(c)}>>
<1>1. \A c \in Channels : OwnerOf(c)' = OwnerOf(c)
  BY TasksAssumption DEF OwnersMapped
<1>2. {c \in Channels : ChipBusy(c)}' = {c \in Channels : ChipBusy(c)}
  BY DEF ChipBusy
<1> QED
  BY <1>1, <1>2

\* Taking a channel is the pool's Acquire.
LEMMA TakeRefines ==
  ASSUME TransferIndInv, OwnersMapped, OwnersMapped', NEW t \in Tasks, TakeChannel(t)
  PROVE  Pool!Acquire(t, chan[t])
<1>1. /\ pc[t] = "take" /\ pc' = [pc EXCEPT ![t] = "alloc"] /\ "alloc" \in PC
      /\ chan' = chan /\ chip' = chip /\ TypeOK
  BY DEF TakeChannel, Goto, chipVars, PC, TransferIndInv, PoolIndInv
<1>2. t \notin Owners /\ Owners' = Owners \cup {t}
  BY <1>1, OwnersAfter DEF Owners, OwnPC
<1>3. chan[t] \in Channels /\ ~busy[chan[t]]
  BY <1>1 DEF TransferIndInv, PoolIndInv, WorksOnAChannel, PoolInv, StillFree
<1>4. \A u \in Owners : chan[u] # chan[t]
  BY <1>3 DEF TransferIndInv, PoolIndInv, PoolInv, OneOwnerPerChannel
<1>5. OwnerOf(chan[t]) = NoTask /\ \A d \in Channels : OwnerOf(d) # t
  BY <1>2, <1>3, <1>4 DEF OwnersMapped
<1>6. \A d \in Channels : OwnerOf(d)' = IF d = chan[t] THEN t ELSE OwnerOf(d)
  BY <1>1, <1>2, <1>3, TasksAssumption DEF OwnersMapped
<1>7. {c \in Channels : ChipBusy(c)}' = {c \in Channels : ChipBusy(c)}
  BY <1>1 DEF ChipBusy
<1> QED
  BY <1>3, <1>5, <1>6, <1>7 DEF Pool!Acquire

\* Giving a channel back is the pool's Release: the chip has stopped.
LEMMA UnbusyRefines ==
  ASSUME TransferIndInv, AbortSettles, OwnersMapped, OwnersMapped',
         NEW t \in Tasks, Unbusy(t)
  PROVE  Pool!Release(chan[t])
<1>1. /\ pc[t] = "unbusy" /\ pc' = [pc EXCEPT ![t] = "up"] /\ "up" \in PC
      /\ chan' = chan /\ chip' = chip /\ TypeOK
  BY DEF Unbusy, Goto, chipVars, PC, TransferIndInv, PoolIndInv
<1>2. t \in Owners /\ Owners' = Owners \ {t}
  BY <1>1, OwnersAfter DEF Owners, OwnPC
<1>3. chan[t] \in Channels /\ ~ChipBusy(chan[t])
  BY <1>1, <1>2, StoppedUnlessWaiting
  DEF TransferIndInv, PoolIndInv, WorksOnAChannel, OwnPC, RunPC
<1>4. OwnerOf(chan[t]) = t /\ t # NoTask
  BY <1>2, <1>3, TasksAssumption DEF OwnersMapped
<1>5. \A d \in Channels : OwnerOf(d)' = IF d = chan[t] THEN NoTask ELSE OwnerOf(d)
  BY <1>1, <1>2, <1>3, <1>4, TasksAssumption DEF OwnersMapped
<1>6. {c \in Channels : ChipBusy(c)}' = {c \in Channels : ChipBusy(c)}
  BY <1>1 DEF ChipBusy
<1> QED
  BY <1>3, <1>4, <1>5, <1>6 DEF Pool!Release

\* Starting a transfer is the pool's Begin: the channel is the task's own and
\* nothing runs on it.
LEMMA StartRefines ==
  ASSUME TransferIndInv, AbortSettles, OwnersMapped, OwnersMapped',
         NEW t \in Tasks, Start(t)
  PROVE  Pool!Begin(chan[t])
<1>1. /\ pc[t] = "start" /\ pc' = [pc EXCEPT ![t] = "wait"] /\ "wait" \in PC
      /\ chan' = chan /\ TypeOK
      /\ chip' = [chip EXCEPT ![chan[t]] = [st |-> "busy", job |-> t]]
  BY DEF Start, Goto, PC, TransferIndInv, PoolIndInv
<1>2. t \in Owners /\ Owners' = Owners
  BY <1>1, OwnersAfter DEF Owners, OwnPC
<1>3. chan[t] \in Channels /\ ~ChipBusy(chan[t])
  BY <1>1, <1>2, StoppedUnlessWaiting
  DEF TransferIndInv, PoolIndInv, WorksOnAChannel, OwnPC, RunPC
<1>4. OwnerOf(chan[t]) = t /\ t # NoTask
  BY <1>2, <1>3, TasksAssumption DEF OwnersMapped
<1>5. \A d \in Channels : OwnerOf(d)' = OwnerOf(d)
  BY <1>1, <1>2, TasksAssumption DEF OwnersMapped
<1>6. {c \in Channels : ChipBusy(c)}' = {c \in Channels : ChipBusy(c)} \cup {chan[t]}
  BY <1>1, <1>3 DEF ChipBusy, TypeOK
<1> QED
  BY <1>3, <1>4, <1>5, <1>6 DEF Pool!Begin

\* The end of a transfer is the pool's End.
LEMMA EndRefines ==
  ASSUME TypeOK, OwnersMapped, OwnersMapped', NEW c \in Channels, ChipEnds(c) \/ ChipAborts(c)
  PROVE  Pool!End(c)
<1>1. /\ pc' = pc /\ chan' = chan /\ ChipBusy(c)
      /\ \E s \in {"done", "error", "aborted"} : chip' = [chip EXCEPT ![c].st = s]
  BY DEF ChipEnds, ChipAborts, taskVars
<1>2. Owners' = Owners
  BY <1>1 DEF Owners
<1>3. \A d \in Channels : OwnerOf(d)' = OwnerOf(d)
  BY <1>1, <1>2, TasksAssumption DEF OwnersMapped
<1>4. {d \in Channels : ChipBusy(d)}' = {d \in Channels : ChipBusy(d)} \ {c}
  <2>1. PICK s \in {"done", "error", "aborted"} : chip' = [chip EXCEPT ![c].st = s]
    BY <1>1
  <2>2. chip'[c].st = s /\ \A d \in Channels : d # c => chip'[d] = chip[d]
    BY <2>1 DEF TypeOK, Dsta
  <2> QED
    BY <2>2 DEF ChipBusy
<1> QED
  BY <1>1, <1>3, <1>4 DEF Pool!End

\* Every other step of a task keeps its channel and leaves the chip alone.
LEMMA OtherTaskSteps ==
  ASSUME TransferIndInv, NEW t \in Tasks, TaskStep(t),
         ~TakeChannel(t), ~Unbusy(t), ~Start(t)
  PROVE  Owners' = Owners /\ chip' = chip /\ \A u \in Owners : chan'[u] = chan[u]
<1>0. TypeOK /\ WorksOnAChannel
  BY DEF TransferIndInv, PoolIndInv
<1>1. \A u \in Tasks : u # t => pc'[u] = pc[u] /\ chan'[u] = chan[u]
  BY <1>0, TaskStepLocal
<1>2. /\ pc'[t] \in OwnPC <=> pc[t] \in OwnPC
      /\ pc[t] \in OwnPC => chan'[t] = chan[t]
      /\ chip' = chip
  BY <1>0 DEF TypeOK, TaskStep, VmeDoDma, Down, DownInterrupted, Recheck, LockDma,
     Scan, AllocSgl, Pin, ChipSetup, WaitCheck, WaitSignalled, Abort, ReadStatus,
     Cleanup, LockRelease, Up, CallReturns, Goto, chipVars, OwnPC
<1> QED
  BY <1>1, <1>2 DEF Owners

\* A channel has one owner at a time, a transfer is started only by the owner
\* of an idle channel, and a channel is given back only when the chip has
\* stopped, after an abort too, provided that the chip obeys it within the
\* udelay(10) of tsi148_dma_abort().
THEOREM PoolImplemented ==
  ASSUME AbortSettles
  PROVE  Spec => ImplementsPool
<1> DEFINE owner == [c \in Channels |-> OwnerOf(c)]
           running == {c \in Channels : ChipBusy(c)}
<1>1. Init => Pool!Init
  BY InitRefines
<1>2. TransferIndInv /\ OwnersMapped /\ OwnersMapped' /\ [Next]_vars
        => [Pool!Next]_<<owner, running>>
  <2> SUFFICES ASSUME TransferIndInv, OwnersMapped, OwnersMapped', [Next]_vars
               PROVE  Pool!Next \/ UNCHANGED <<owner, running>>
    OBVIOUS
  <2>0. TypeOK /\ WorksOnAChannel
    BY DEF TransferIndInv, PoolIndInv
  <2>1. ASSUME NEW t \in Tasks, TaskStep(t)
        PROVE  Pool!Next \/ UNCHANGED <<owner, running>>
    <3>1. CASE TakeChannel(t) \/ Unbusy(t) \/ Start(t)
      <4>1. chan[t] \in Channels
        BY <2>0, <3>1 DEF TakeChannel, Unbusy, Start, Goto, WorksOnAChannel, OwnPC
      <4> QED
        BY <3>1, <4>1, TakeRefines, UnbusyRefines, StartRefines DEF Pool!Next
    <3>2. CASE ~(TakeChannel(t) \/ Unbusy(t) \/ Start(t))
      BY <2>1, <3>2, OtherTaskSteps, PoolStutters
    <3> QED
      BY <3>1, <3>2
  <2>2. ASSUME NEW c \in Channels, ChipStep(c)
        PROVE  Pool!Next \/ UNCHANGED <<owner, running>>
    <3>1. CASE ChipEnds(c) \/ ChipAborts(c)
      BY <2>0, <3>1, EndRefines DEF Pool!Next
    <3>2. CASE HandleDmaInterrupt(c)
      <4>1. Owners' = Owners /\ chip' = chip /\ chan' = chan
        BY <2>0, <3>2 DEF HandleDmaInterrupt, Owners, OwnPC, TypeOK
      <4> QED
        BY <4>1, PoolStutters
    <3> QED
      BY <2>2, <3>1, <3>2 DEF ChipStep
  <2>3. CASE ExitStep \/ UNCHANGED vars
    <3>1. Owners' = Owners /\ chip' = chip /\ chan' = chan
      BY <2>3 DEF Owners, ExitStep, RemoveFreesIrq, ExitDisables, ExitAborts,
         ExitDown, ExitUp, ExitDestroysPool, taskVars, chipVars, vars
    <3> QED
      BY <3>1, PoolStutters
  <2> QED
    BY <2>1, <2>2, <2>3 DEF Next
<1>3. TransferIndInv => OwnersMapped
  BY OwnerIs DEF TransferIndInv
<1> QED
  BY <1>1, <1>2, <1>3, TransferInductive, PTL DEF Spec, ImplementsPool, Pool!Spec
=============================================================================

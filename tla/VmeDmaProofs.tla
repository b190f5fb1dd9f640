---------------------------- MODULE VmeDmaProofs ----------------------------
(***************************************************************************)
(* Proofs about the DMA channel pool, for any finite set of tasks, any     *)
(* number of channels, any faults, with and without unbinding, and whether *)
(* or not the chip obeys an abort in time.                                 *)
(***************************************************************************)
EXTENDS VmeDma, FiniteSetTheorems, WellFoundedInduction, TLAPS

\* A channel chosen by __lock_avail_channel() is a free one.
LEMMA FirstFree ==
  ASSUME TypeOK, FreeChannels # {}
  PROVE  (CHOOSE c \in FreeChannels : \A d \in FreeChannels : c <= d)
           \in FreeChannels
<1>1. FreeChannels \in SUBSET Nat
  BY ChannelsAssumption DEF FreeChannels, Channels
<1>2. \E c \in FreeChannels : \A d \in FreeChannels : c <= d
  <2>1. PICK c \in FreeChannels :
          \A d \in FreeChannels : ~(<<d, c>> \in OpToRel(<, Nat))
    BY <1>1, NatLessThanWellFounded, WFMin, Zenon
  <2>2. \A d \in FreeChannels : ~(d < c)
    BY <1>1, <2>1 DEF OpToRel
  <2> QED
    BY <1>1, <2>2
<1> QED
  BY <1>2

\* TypeOK is not inductive by itself: a step on channel chan[t] keeps it only
\* if there is such a channel.
WorksOnAChannel ==
  \A t \in Tasks : pc[t] \in OwnPC \cup {"take"} => chan[t] \in Channels

\* The driver starts with all channels idle.
LEMMA TypeInit == Init => TypeOK /\ WorksOnAChannel
<1> SUFFICES ASSUME Init PROVE TypeOK /\ WorksOnAChannel
  OBVIOUS
<1>1. NoStatus \in Dsta
  BY DEF NoStatus, Dsta, ChipStates
<1>2. 0 \in Channels
  BY ChannelsAssumption DEF Channels
<1> QED
  BY <1>1, <1>2, ChannelsAssumption
  DEF Init, TypeOK, WorksOnAChannel, OwnPC, PC, ReturnCodes, ExitPC, Resources

\* No step of a task, of the chip, of the interrupt handler or of unbinding
\* leaves the types.
LEMMA TypeStep ==
  TypeOK /\ WorksOnAChannel /\ [Next]_vars => (TypeOK /\ WorksOnAChannel)'
<1> SUFFICES ASSUME TypeOK, WorksOnAChannel, [Next]_vars
             PROVE  TypeOK' /\ WorksOnAChannel'
  OBVIOUS
<1> USE DEF TypeOK, WorksOnAChannel, OwnPC, PC, ReturnCodes
<1>a. ASSUME NEW t \in Tasks, TaskStep(t)
      PROVE  TypeOK' /\ WorksOnAChannel'
  <2> USE DEF Goto, Return, chipVars, exitVars, taskVars
  <2>1. CASE VmeDoDma(t)  BY <2>1 DEF VmeDoDma
  <2>2. CASE Down(t)  BY <2>2 DEF Down
  <2>3. CASE DownInterrupted(t)  BY <2>3 DEF DownInterrupted
  <2>4. CASE Recheck(t)  BY <2>4 DEF Recheck
  <2>5. CASE LockDma(t)  BY <2>5 DEF LockDma
  <2>6. CASE Scan(t)
    <3>1. FreeChannels # {} =>
            (CHOOSE c \in FreeChannels : \A d \in FreeChannels : c <= d)
              \in Channels
      BY FirstFree DEF FreeChannels
    <3> QED  BY <2>6, <3>1 DEF Scan
  <2>7. CASE TakeChannel(t)  BY <2>7 DEF TakeChannel
  <2>8. CASE AllocSgl(t)  BY <2>8 DEF AllocSgl, Resources
  <2>9. CASE Pin(t)  BY <2>9 DEF Pin, Resources
  <2>10. CASE ChipSetup(t)
    <3>1. PICK mapped \in {{"map"}, {}} :
            \/ res' = [res EXCEPT ![chan[t]] = @ \ Unpinned(t)]
            \/ res' = [res EXCEPT ![chan[t]] = @ \cup mapped \cup {"chain"}]
      BY <2>10 DEF ChipSetup
    <3>2. mapped \cup {"chain"} \subseteq Resources
      BY DEF Resources
    <3>3. res' \in [Channels -> SUBSET Resources]
      <4>1. CASE res' = [res EXCEPT ![chan[t]] = @ \ Unpinned(t)]
        BY <4>1
      <4>2. CASE res' = [res EXCEPT ![chan[t]] = @ \cup mapped \cup {"chain"}]
        <5> DEFINE new == res[chan[t]] \cup mapped \cup {"chain"}
        <5>1. chan[t] \in Channels
          BY <2>10 DEF ChipSetup
        <5>2. new \in SUBSET Resources
          BY <3>2, <5>1
        <5>3. res' = [res EXCEPT ![chan[t]] = new]
          BY <4>2
        <5> HIDE DEF new
        <5> QED  BY <5>2, <5>3
      <4> QED  BY <3>1, <4>1, <4>2
    <3> QED  BY <2>10, <3>3 DEF ChipSetup
  <2>11. CASE Start(t)  BY <2>11 DEF Start, Dsta, ChipStates
  <2>12. CASE WaitCheck(t)  BY <2>12 DEF WaitCheck
  <2>13. CASE WaitSignalled(t)  BY <2>13 DEF WaitSignalled
  <2>14. CASE Abort(t)  BY <2>14 DEF Abort, Aborted, ChipBusy
  <2>15. CASE ReadStatus(t)  BY <2>15 DEF ReadStatus
  <2>16. CASE Cleanup(t)  BY <2>16 DEF Cleanup, Unpinned, Resources
  <2>17. CASE LockRelease(t)  BY <2>17 DEF LockRelease
  <2>18. CASE Unbusy(t)  BY <2>18 DEF Unbusy
  <2>19. CASE Up(t)  BY <2>19 DEF Up
  <2>20. CASE CallReturns(t)
    BY <2>20 DEF CallReturns, NoStatus, Dsta, ChipStates
  <2> QED
    BY <1>a, <2>1, <2>2, <2>3, <2>4, <2>5, <2>6, <2>7, <2>8, <2>9, <2>10,
       <2>11, <2>12, <2>13, <2>14, <2>15, <2>16, <2>17, <2>18, <2>19, <2>20
    DEF TaskStep
<1>b. ASSUME NEW c \in Channels, ChipStep(c)
      PROVE  TypeOK' /\ WorksOnAChannel'
  <2> USE DEF exitVars, taskVars
  <2>1. CASE ChipEnds(c)  BY <2>1 DEF ChipEnds, Dsta, ChipStates
  <2>2. CASE ChipAborts(c)  BY <2>2 DEF ChipAborts, Dsta, ChipStates
  <2>3. CASE HandleDmaInterrupt(c)  BY <2>3 DEF HandleDmaInterrupt
  <2> QED  BY <1>b, <2>1, <2>2, <2>3 DEF ChipStep
<1>c. CASE ExitStep
  <2> USE ChannelsAssumption DEF GotoExit, taskVars, chipVars, ExitPC, Channels
  <2>1. CASE RemoveFreesIrq  BY <2>1 DEF RemoveFreesIrq
  <2>2. CASE ExitDisables  BY <2>2 DEF ExitDisables
  <2>3. CASE ExitAborts  BY <2>3 DEF ExitAborts, Aborted, ChipBusy
  <2>4. CASE ExitDown  BY <2>4 DEF ExitDown
  <2>5. CASE ExitUp  BY <2>5 DEF ExitUp
  <2>6. CASE ExitDestroysPool  BY <2>6 DEF ExitDestroysPool
  <2> QED  BY <1>c, <2>1, <2>2, <2>3, <2>4, <2>5, <2>6 DEF ExitStep
<1>d. CASE UNCHANGED vars
  BY <1>d DEF vars
<1> QED
  BY <1>a, <1>b, <1>c, <1>d DEF Next

\* TypeOK is an invariant: in particular the count of dma_semaphore never goes
\* below zero, and the channel a task works on is one of the chip's.
THEOREM TypeCorrect == Spec => []TypeOK
BY TypeInit, TypeStep, PTL DEF Spec

-----------------------------------------------------------------------------
(* The busy flags and dma_lock                                             *)

\* Whoever is in a critical section holds dma_lock, and nobody else does.
LockInv == \A t \in Tasks : lock = t <=> pc[t] \in LockPC

\* What is found free under dma_lock is still free when it is flagged.
StillFree == \A t \in Tasks : pc[t] = "take" => ~busy[chan[t]]

\* The part of the invariant about dma_lock and the busy flags.
PoolInv == LockInv /\ StillFree /\ OneOwnerPerChannel

\* A step of a task that neither takes nor gives back a channel, and stays
\* out of the critical sections, has no effect on the pool.
LEMMA PoolFrame ==
  ASSUME TypeOK, WorksOnAChannel, PoolInv, NEW t \in Tasks,
         pc' \in [Tasks -> PC],
         \A u \in Tasks : u # t => pc'[u] = pc[u],
         pc'[t] \in OwnPC <=> pc[t] \in OwnPC,
         pc[t] \notin LockPC, pc'[t] \notin LockPC,
         chan' = chan, busy' = busy, lock' = lock
  PROVE  PoolInv'
<1>1. LockInv'
  BY DEF PoolInv, LockInv
<1>2. StillFree'
  BY DEF PoolInv, StillFree, LockPC
<1>3. \A u \in Tasks : u \in Owners' <=> u \in Owners
  BY DEF Owners
<1>4. Owners' = Owners
  BY <1>3 DEF Owners
<1>5. OneOwnerPerChannel'
  BY <1>4 DEF PoolInv, OneOwnerPerChannel
<1> QED
  BY <1>1, <1>2, <1>5 DEF PoolInv

\* No channel is owned when the driver starts.
LEMMA PoolInit == Init => PoolInv
BY TasksAssumption
DEF Init, PoolInv, LockInv, StillFree, OneOwnerPerChannel, Owners, OwnPC, LockPC

\* What a step that moves one task means for the sets of tasks.
LEMMA OwnersAfter ==
  ASSUME TypeOK, NEW t \in Tasks, NEW l \in PC,
         pc' = [pc EXCEPT ![t] = l]
  PROVE  /\ Owners' = IF l \in OwnPC THEN Owners \cup {t} ELSE Owners \ {t}
         /\ Holders' = IF l \in HoldPC THEN Holders \cup {t} ELSE Holders \ {t}
BY DEF TypeOK, Owners, Holders

\* No step gives a channel a second owner.
LEMMA PoolStep ==
  TypeOK /\ WorksOnAChannel /\ PoolInv /\ [Next]_vars => PoolInv'
<1> SUFFICES ASSUME TypeOK, WorksOnAChannel, PoolInv, [Next]_vars
             PROVE  PoolInv'
  OBVIOUS
<1>0. TypeOK'
  BY TypeStep
<1>p. pc \in [Tasks -> PC] /\ pc' \in [Tasks -> PC]
  BY <1>0 DEF TypeOK
<1>a. ASSUME NEW t \in Tasks, TaskStep(t)
      PROVE  PoolInv'
  <2> USE DEF Goto, Return, chipVars, exitVars
  <2> DEFINE Quiet ==
        /\ \A u \in Tasks : u # t => pc'[u] = pc[u]
        /\ pc'[t] \in OwnPC <=> pc[t] \in OwnPC
        /\ pc[t] \notin LockPC /\ pc'[t] \notin LockPC
        /\ chan' = chan /\ busy' = busy /\ lock' = lock
  <2>q. Quiet => PoolInv'
    BY <1>p, PoolFrame
  <2>x. ASSUME ~Quiet  PROVE PoolInv'
    <3>1. CASE LockDma(t)
      <4>1. pc[t] = "lock" /\ pc' = [pc EXCEPT ![t] = "scan"] /\ "scan" \in PC
        BY <3>1 DEF LockDma, PC
      <4>2. LockInv'
        BY <1>p, <3>1, TasksAssumption DEF LockDma, PoolInv, LockInv, LockPC
      <4>3. StillFree'
        BY <1>p, <3>1 DEF LockDma, PoolInv, StillFree
      <4>4. Owners' = Owners
        BY <4>1, OwnersAfter DEF Owners, OwnPC
      <4> QED
        BY <3>1, <4>2, <4>3, <4>4 DEF LockDma, PoolInv, OneOwnerPerChannel
    <3>2. CASE LockRelease(t)
      <4>1. pc[t] = "release" /\ pc' = [pc EXCEPT ![t] = "unbusy"] /\ "unbusy" \in PC
        BY <3>2 DEF LockRelease, PC
      <4>2. LockInv'
        BY <1>p, <3>2, TasksAssumption DEF LockRelease, PoolInv, LockInv, LockPC
      <4>3. StillFree'
        BY <1>p, <3>2 DEF LockRelease, PoolInv, StillFree
      <4>4. Owners' = Owners
        BY <4>1, OwnersAfter DEF Owners, OwnPC
      <4> QED
        BY <3>2, <4>2, <4>3, <4>4 DEF LockRelease, PoolInv, OneOwnerPerChannel
    <3>3. CASE Scan(t)
      <4> DEFINE first ==
            CHOOSE c \in FreeChannels : \A d \in FreeChannels : c <= d
      <4>1. pc[t] = "scan" /\ t \notin Owners
        BY <3>3 DEF Scan, Owners, OwnPC
      <4>2. CASE FreeChannels = {}
        <5>1. /\ pc' = [pc EXCEPT ![t] = "return"] /\ "return" \in PC
              /\ lock' = NoTask /\ chan' = [chan EXCEPT ![t] = NoChannel]
              /\ busy' = busy
          BY <3>3, <4>2 DEF Scan, PC
        <5>2. LockInv'
          BY <1>p, <4>1, <5>1, TasksAssumption DEF PoolInv, LockInv, LockPC
        <5>3. StillFree'
          BY <1>p, <5>1 DEF PoolInv, StillFree, TypeOK
        <5>4. Owners' = Owners
          BY <4>1, <5>1, OwnersAfter DEF Owners, OwnPC
        <5>5. \A u \in Owners : chan'[u] = chan[u]
          BY <4>1, <5>1 DEF TypeOK, Owners
        <5>6. OneOwnerPerChannel'
          BY <5>1, <5>4, <5>5 DEF PoolInv, OneOwnerPerChannel
        <5> QED  BY <5>2, <5>3, <5>6 DEF PoolInv
      <4>3. CASE FreeChannels # {}
        <5>1. /\ pc' = [pc EXCEPT ![t] = "take"] /\ "take" \in PC
              /\ lock' = lock /\ chan' = [chan EXCEPT ![t] = first]
              /\ busy' = busy
          BY <3>3, <4>3 DEF Scan, PC
        <5>2. first \in FreeChannels
          BY <4>3, FirstFree
        <5> HIDE DEF first
        <5>3. LockInv'
          BY <1>p, <4>1, <5>1 DEF PoolInv, LockInv, LockPC
        <5>4. StillFree'
          BY <1>p, <5>1, <5>2 DEF PoolInv, StillFree, FreeChannels, TypeOK
        <5>5. Owners' = Owners
          BY <4>1, <5>1, OwnersAfter DEF Owners, OwnPC
        <5>6. \A u \in Owners : chan'[u] = chan[u]
          BY <4>1, <5>1 DEF TypeOK, Owners
        <5>7. OneOwnerPerChannel'
          BY <5>1, <5>5, <5>6 DEF PoolInv, OneOwnerPerChannel
        <5> QED  BY <5>3, <5>4, <5>7 DEF PoolInv
      <4> QED  BY <4>2, <4>3
    <3>4. CASE TakeChannel(t)
      <4>1. /\ pc[t] = "take" /\ pc' = [pc EXCEPT ![t] = "alloc"] /\ "alloc" \in PC
            /\ lock' = NoTask /\ chan' = chan
            /\ busy' = [busy EXCEPT ![chan[t]] = TRUE]
        BY <3>4 DEF TakeChannel, PC
      <4>2. ~busy[chan[t]] /\ chan[t] \in Channels
        BY <4>1 DEF PoolInv, StillFree, WorksOnAChannel
      <4>3. LockInv'
        BY <1>p, <4>1, TasksAssumption DEF PoolInv, LockInv, LockPC
      <4>4. StillFree'
        BY <1>p, <4>1 DEF PoolInv, LockInv, LockPC, StillFree
      <4>5. Owners' = Owners \cup {t} /\ t \notin Owners
        BY <4>1, OwnersAfter DEF Owners, OwnPC
      <4>6. \A u \in Owners : chan[u] # chan[t]
        BY <4>2 DEF PoolInv, OneOwnerPerChannel
      <4>7. \A c \in Channels : busy'[c] <=> c = chan[t] \/ busy[c]
        BY <4>1, <4>2 DEF TypeOK
      <4>8. OneOwnerPerChannel'
        <5>1. \A u, v \in Owners' : u # v => chan'[u] # chan'[v]
          BY <4>1, <4>5, <4>6 DEF PoolInv, OneOwnerPerChannel
        <5>2. ASSUME NEW c \in Channels
              PROVE  busy'[c] <=> \E u \in Owners' : chan'[u] = c
          BY <4>1, <4>5, <4>7 DEF PoolInv, OneOwnerPerChannel
        <5> QED  BY <5>1, <5>2 DEF OneOwnerPerChannel
      <4> QED  BY <4>3, <4>4, <4>8 DEF PoolInv
    <3>5. CASE Unbusy(t)
      <4>1. /\ pc[t] = "unbusy" /\ pc' = [pc EXCEPT ![t] = "up"] /\ "up" \in PC
            /\ lock' = NoTask /\ chan' = chan
            /\ busy' = [busy EXCEPT ![chan[t]] = FALSE]
        BY <3>5 DEF Unbusy, PC
      <4>2. chan[t] \in Channels
        BY <4>1 DEF WorksOnAChannel, OwnPC
      <4>3. LockInv'
        BY <1>p, <4>1, TasksAssumption DEF PoolInv, LockInv, LockPC
      <4>4. StillFree'
        BY <1>p, <4>1 DEF PoolInv, LockInv, LockPC, StillFree
      <4>5. Owners' = Owners \ {t} /\ t \in Owners
        BY <4>1, OwnersAfter DEF Owners, OwnPC
      <4>6. \A u \in Owners : u # t => chan[u] # chan[t]
        BY <4>5 DEF PoolInv, OneOwnerPerChannel
      <4>7. \A c \in Channels : busy'[c] <=> c # chan[t] /\ busy[c]
        BY <4>1, <4>2 DEF TypeOK
      <4>8. OneOwnerPerChannel'
        <5>1. \A u, v \in Owners' : u # v => chan'[u] # chan'[v]
          BY <4>1, <4>5 DEF PoolInv, OneOwnerPerChannel
        <5>2. ASSUME NEW c \in Channels
              PROVE  busy'[c] <=> \E u \in Owners' : chan'[u] = c
          BY <4>1, <4>5, <4>6, <4>7 DEF PoolInv, OneOwnerPerChannel
        <5> QED  BY <5>1, <5>2 DEF OneOwnerPerChannel
      <4> QED  BY <4>3, <4>4, <4>8 DEF PoolInv
    <3>6. CASE Up(t)
      <4>1. /\ pc[t] = "up" /\ pc' = [pc EXCEPT ![t] = "return"] /\ "return" \in PC
            /\ lock' = lock /\ chan' = [chan EXCEPT ![t] = NoChannel]
            /\ busy' = busy
        BY <3>6 DEF Up, PC
      <4>2. t \notin Owners
        BY <4>1 DEF Owners, OwnPC
      <4>3. LockInv'
        BY <1>p, <4>1 DEF PoolInv, LockInv, LockPC
      <4>4. StillFree'
        BY <1>p, <4>1 DEF PoolInv, StillFree, TypeOK
      <4>5. Owners' = Owners
        BY <4>1, <4>2, OwnersAfter DEF Owners, OwnPC
      <4>6. \A u \in Owners : chan'[u] = chan[u]
        BY <4>1, <4>2 DEF TypeOK, Owners
      <4>7. OneOwnerPerChannel'
        BY <4>1, <4>5, <4>6 DEF PoolInv, OneOwnerPerChannel
      <4> QED  BY <4>3, <4>4, <4>7 DEF PoolInv
    <3>7. LockDma(t) \/ LockRelease(t) \/ Scan(t) \/ TakeChannel(t)
            \/ Unbusy(t) \/ Up(t)
      <4> USE <1>p DEF OwnPC, LockPC
      <4>1. VmeDoDma(t) => Quiet  BY DEF VmeDoDma
      <4>2. Down(t) => Quiet  BY DEF Down
      <4>3. DownInterrupted(t) => Quiet  BY DEF DownInterrupted
      <4>4. Recheck(t) => Quiet  BY DEF Recheck
      <4>5. AllocSgl(t) => Quiet  BY DEF AllocSgl
      <4>6. Pin(t) => Quiet  BY DEF Pin
      <4>7. ChipSetup(t) => Quiet  BY DEF ChipSetup
      <4>8. Start(t) => Quiet  BY DEF Start
      <4>9. WaitCheck(t) => Quiet  BY DEF WaitCheck
      <4>10. WaitSignalled(t) => Quiet  BY DEF WaitSignalled
      <4>11. Abort(t) => Quiet  BY DEF Abort
      <4>12. ReadStatus(t) => Quiet  BY DEF ReadStatus
      <4>13. Cleanup(t) => Quiet  BY DEF Cleanup
      <4>14. CallReturns(t) => Quiet  BY DEF CallReturns
      <4> HIDE DEF Quiet
      <4> QED
        BY <1>a, <2>x, <4>1, <4>2, <4>3, <4>4, <4>5, <4>6, <4>7, <4>8, <4>9,
           <4>10, <4>11, <4>12, <4>13, <4>14
        DEF TaskStep
    <3> QED  BY <3>1, <3>2, <3>3, <3>4, <3>5, <3>6, <3>7
  <2> QED  BY <2>q, <2>x
<1>b. ASSUME NEW c \in Channels, ChipStep(c)
      PROVE  PoolInv'
  <2>1. \A t \in Tasks :
          pc'[t] = pc[t] \/ (pc[t] = "asleep" /\ pc'[t] = "wait")
    <3>1. CASE HandleDmaInterrupt(c)  BY <3>1 DEF HandleDmaInterrupt
    <3>2. CASE pc' = pc  BY <3>2
    <3> QED
      BY <1>b, <3>1, <3>2 DEF ChipStep, ChipEnds, ChipAborts, taskVars
  <2>2. chan' = chan /\ busy' = busy /\ lock' = lock
    BY <1>b DEF ChipStep, ChipEnds, ChipAborts, HandleDmaInterrupt, taskVars
  <2>3. Owners' = Owners
    BY <2>1 DEF Owners, OwnPC
  <2>4. LockInv' /\ StillFree'
    BY <2>1, <2>2 DEF PoolInv, LockInv, LockPC, StillFree
  <2> QED
    BY <2>2, <2>3, <2>4 DEF PoolInv, OneOwnerPerChannel
<1>c. ASSUME UNCHANGED <<pc, chan, lock, busy>>
      PROVE  PoolInv'
  BY <1>c DEF PoolInv, LockInv, StillFree, OneOwnerPerChannel, Owners
<1>d. CASE ExitStep
  BY <1>c, <1>d DEF ExitStep, RemoveFreesIrq, ExitDisables, ExitAborts, ExitDown,
                    ExitUp, ExitDestroysPool, taskVars
<1>e. CASE UNCHANGED vars
  BY <1>c, <1>e DEF vars
<1> QED
  BY <1>a, <1>b, <1>d, <1>e DEF Next

-----------------------------------------------------------------------------
(* The semaphore                                                           *)

\* As many units are out as there are tasks past the semaphore, so a task that
\* is looking for a channel finds one: if all were busy, each would have its
\* own owner, none of them the task itself.
LEMMA SemaphoreLeavesAChannel ==
  ASSUME TypeOK, OneOwnerPerChannel, SemaphoreAccounted
  PROVE  AvailChannelExists
<1> SUFFICES ASSUME NEW t \in Tasks, pc[t] = "scan", FreeChannels = {}
             PROVE  FALSE
  BY DEF AvailChannelExists
<1> DEFINE f == [c \in Channels |-> CHOOSE u \in Owners : chan[u] = c]
<1>1. \A c \in Channels : \E u \in Owners : chan[u] = c
  BY DEF FreeChannels, OneOwnerPerChannel
<1>2. \A c \in Channels : f[c] \in Owners /\ chan[f[c]] = c
  BY <1>1
<1>3. Owners \subseteq Holders \ {t}
  BY DEF Owners, Holders, HoldPC, OwnPC
<1> HIDE DEF f
<1>4. f \in [Channels -> Holders \ {t}]
  <2>1. f = [c \in Channels |-> f[c]]
    BY DEF f
  <2> QED  BY <1>2, <1>3, <2>1
<1>5. f \in Injection(Channels, Holders \ {t})
  BY <1>2, <1>4 DEF Injection, IsInjective
<1>6. IsFiniteSet(Holders) /\ Cardinality(Holders) \in Nat
  BY TasksAssumption, FS_Subset, FS_CardinalityType DEF Holders
<1>7. t \in Holders
  BY DEF Holders, HoldPC
<1>8. /\ IsFiniteSet(Holders \ {t})
      /\ Cardinality(Holders \ {t}) = Cardinality(Holders) - 1
  BY <1>6, <1>7, FS_RemoveElement
<1>9. Cardinality(Channels) <= Cardinality(Holders) - 1
  BY <1>5, <1>8, FS_Injection
<1>10. Cardinality(Channels) = NumChannels
  BY FS_Interval, ChannelsAssumption DEF Channels
<1> QED
  BY <1>6, <1>9, <1>10, ChannelsAssumption DEF SemaphoreAccounted, ExitHolds, TypeOK

\* The inductive invariant.
PoolIndInv == TypeOK /\ WorksOnAChannel /\ PoolInv /\ SemaphoreAccounted

\* The holders of the semaphore can be counted.
LEMMA HoldersFinite ==
  ASSUME TypeOK
  PROVE  IsFiniteSet(Holders) /\ Cardinality(Holders) \in Nat
BY TasksAssumption, FS_Subset, FS_CardinalityType DEF Holders

\* The semaphore starts at the number of channels.
LEMMA SemaphoreInit == Init => SemaphoreAccounted
<1> SUFFICES ASSUME Init PROVE SemaphoreAccounted
  OBVIOUS
<1>1. Holders = {}
  BY DEF Init, Holders, HoldPC, OwnPC
<1> QED
  BY <1>1, FS_EmptySet, ChannelsAssumption DEF Init, SemaphoreAccounted, ExitHolds

\* Every down() of dma_semaphore has its up().
LEMMA SemaphoreStep ==
  PoolIndInv /\ [Next]_vars => SemaphoreAccounted'
<1> SUFFICES ASSUME PoolIndInv, [Next]_vars PROVE SemaphoreAccounted'
  OBVIOUS
<1> USE DEF PoolIndInv
<1>f. IsFiniteSet(Holders) /\ Cardinality(Holders) \in Nat
  BY HoldersFinite
<1>n. NumChannels \in Nat /\ sem \in Nat /\ ExitHolds \in Nat
  BY ChannelsAssumption DEF TypeOK, ExitHolds
<1>u. ASSUME Holders' = Holders, sem' = sem, exitpc' = exitpc
      PROVE  SemaphoreAccounted'
  BY <1>u DEF SemaphoreAccounted, ExitHolds
<1>a. ASSUME NEW t \in Tasks, TaskStep(t)
      PROVE  SemaphoreAccounted'
  <2> USE DEF Goto, Return, chipVars, exitVars
  <2>1. CASE Down(t)
    <3>1. Holders' = Holders \cup {t} /\ t \notin Holders
      BY <2>1, OwnersAfter DEF Down, Holders, HoldPC, OwnPC, PC
    <3>2. Cardinality(Holders') = Cardinality(Holders) + 1
      BY <1>f, <3>1, FS_AddElement
    <3>3. sem' = sem - 1 /\ ExitHolds' = ExitHolds
      BY <2>1 DEF Down, ExitHolds
    <3> QED  BY <1>f, <1>n, <3>2, <3>3 DEF SemaphoreAccounted
  <2>2. ASSUME Holders' = Holders \ {t}, t \in Holders, sem' = sem + 1,
               exitpc' = exitpc
        PROVE  SemaphoreAccounted'
    <3>1. Cardinality(Holders') = Cardinality(Holders) - 1
      BY <1>f, <2>2, FS_RemoveElement
    <3>2. ExitHolds' = ExitHolds
      BY <2>2 DEF ExitHolds
    <3> QED  BY <1>f, <1>n, <2>2, <3>1, <3>2 DEF SemaphoreAccounted
  <2>3. CASE Recheck(t)
    <3>1. CASE disable
      <4>1. Holders' = Holders \ {t} /\ t \in Holders
        BY <2>3, <3>1, OwnersAfter DEF Recheck, Holders, HoldPC, OwnPC, PC
      <4> QED  BY <2>2, <2>3, <3>1, <4>1 DEF Recheck
    <3>2. CASE ~disable
      <4>1. Holders' = Holders
        BY <2>3, <3>2, OwnersAfter DEF Recheck, Holders, HoldPC, OwnPC, PC
      <4> QED  BY <1>u, <2>3, <3>2, <4>1 DEF Recheck
    <3> QED  BY <3>1, <3>2
  <2>4. CASE Up(t)
    <3>1. Holders' = Holders \ {t} /\ t \in Holders
      BY <2>4, OwnersAfter DEF Up, Holders, HoldPC, OwnPC, PC
    <3> QED  BY <2>2, <2>4, <3>1 DEF Up
  <2>5. CASE Scan(t)
    <3>1. FreeChannels # {}
      BY <2>5, SemaphoreLeavesAChannel DEF Scan, AvailChannelExists, PoolInv
    <3>2. Holders' = Holders
      BY <2>5, <3>1, OwnersAfter DEF Scan, Holders, HoldPC, OwnPC, PC
    <3> QED  BY <1>u, <2>5, <3>2 DEF Scan
  <2>6. ASSUME NEW l \in PC, pc' = [pc EXCEPT ![t] = l],
               l \in HoldPC <=> pc[t] \in HoldPC, sem' = sem, exitpc' = exitpc
        PROVE  SemaphoreAccounted'
    <3>1. Holders' = Holders
      BY <2>6, OwnersAfter DEF Holders
    <3> QED  BY <1>u, <2>6, <3>1
  <2>7. CASE VmeDoDma(t)  BY <2>6, <2>7 DEF VmeDoDma, HoldPC, OwnPC, PC
  <2>8. CASE DownInterrupted(t)
    BY <2>6, <2>8 DEF DownInterrupted, HoldPC, OwnPC, PC
  <2>9. CASE LockDma(t)  BY <2>6, <2>9 DEF LockDma, HoldPC, OwnPC, PC
  <2>10. CASE TakeChannel(t)  BY <2>6, <2>10 DEF TakeChannel, HoldPC, OwnPC, PC
  <2>11. CASE AllocSgl(t)  BY <2>6, <2>11 DEF AllocSgl, HoldPC, OwnPC, PC
  <2>12. CASE Pin(t)  BY <2>6, <2>12 DEF Pin, HoldPC, OwnPC, PC
  <2>13. CASE ChipSetup(t)  BY <2>6, <2>13 DEF ChipSetup, HoldPC, OwnPC, PC
  <2>14. CASE Start(t)  BY <2>6, <2>14 DEF Start, HoldPC, OwnPC, PC
  <2>15. CASE WaitCheck(t)  BY <2>6, <2>15 DEF WaitCheck, HoldPC, OwnPC, PC
  <2>16. CASE WaitSignalled(t)
    BY <2>6, <2>16 DEF WaitSignalled, HoldPC, OwnPC, PC
  <2>17. CASE Abort(t)  BY <2>6, <2>17 DEF Abort, HoldPC, OwnPC, PC
  <2>18. CASE ReadStatus(t)  BY <2>6, <2>18 DEF ReadStatus, HoldPC, OwnPC, PC
  <2>19. CASE Cleanup(t)  BY <2>6, <2>19 DEF Cleanup, HoldPC, OwnPC, PC
  <2>20. CASE LockRelease(t)  BY <2>6, <2>20 DEF LockRelease, HoldPC, OwnPC, PC
  <2>21. CASE Unbusy(t)  BY <2>6, <2>21 DEF Unbusy, HoldPC, OwnPC, PC
  <2>22. CASE CallReturns(t)  BY <2>6, <2>22 DEF CallReturns, HoldPC, OwnPC, PC
  <2> QED
    BY <1>a, <2>1, <2>3, <2>4, <2>5, <2>7, <2>8, <2>9, <2>10, <2>11, <2>12,
       <2>13, <2>14, <2>15, <2>16, <2>17, <2>18, <2>19, <2>20, <2>21, <2>22
    DEF TaskStep
<1>b. ASSUME NEW c \in Channels, ChipStep(c)
      PROVE  SemaphoreAccounted'
  <2>1. CASE HandleDmaInterrupt(c)
    <3>1. Holders' = Holders
      BY <2>1 DEF HandleDmaInterrupt, Holders, HoldPC, OwnPC
    <3> QED  BY <1>u, <2>1, <3>1 DEF HandleDmaInterrupt, exitVars
  <2>2. CASE ChipEnds(c) \/ ChipAborts(c)
    BY <1>u, <2>2 DEF ChipEnds, ChipAborts, Holders, exitVars, taskVars
  <2> QED  BY <1>b, <2>1, <2>2 DEF ChipStep
<1>c. CASE ExitStep
  <2>1. Holders' = Holders
    BY <1>c DEF ExitStep, RemoveFreesIrq, ExitDisables, ExitAborts, ExitDown,
                ExitUp, ExitDestroysPool, taskVars, Holders
  <2>2. \/ sem' = sem /\ ExitHolds' = ExitHolds
        \/ sem' = sem - 1 /\ ExitHolds' = ExitHolds + 1
        \/ sem' = sem + 1 /\ ExitHolds' = ExitHolds - 1
    BY <1>c, <1>n DEF ExitStep, RemoveFreesIrq, ExitDisables, ExitAborts,
       ExitDown, ExitUp, ExitDestroysPool, GotoExit, ExitHolds
  <2>4. Cardinality(Holders') = Cardinality(Holders)
    BY <2>1
  <2>5. sem + Cardinality(Holders) + ExitHolds = NumChannels
    BY DEF SemaphoreAccounted
  <2>6. sem' + Cardinality(Holders) + ExitHolds' = NumChannels
    BY <1>f, <1>n, <2>2, <2>5
  <2> QED
    BY <2>4, <2>6 DEF SemaphoreAccounted
<1>d. CASE UNCHANGED vars
  BY <1>u, <1>d DEF vars, Holders
<1> QED
  BY <1>a, <1>b, <1>c, <1>d DEF Next

-----------------------------------------------------------------------------

\* The inductive invariant holds in every behaviour.
LEMMA PoolInductive == Spec => []PoolIndInv
<1>1. Init => PoolIndInv
  BY TypeInit, PoolInit, SemaphoreInit DEF PoolIndInv
<1>2. PoolIndInv /\ [Next]_vars => PoolIndInv'
  BY TypeStep, PoolStep, SemaphoreStep DEF PoolIndInv
<1> QED
  BY <1>1, <1>2, PTL DEF Spec

\* The semaphore of vme_dma.c counts the free channels whatever happens: see
\* SemaphoreAccounted.
THEOREM SemaphoreCorrect == Spec => []SemaphoreAccounted
<1>1. PoolIndInv => SemaphoreAccounted
  BY DEF PoolIndInv
<1> QED
  BY <1>1, PoolInductive, PTL

\* Mutual exclusion on the DMA channels: no two transfers ever share one, and
\* the busy flag tells the truth.
THEOREM ChannelExclusion == Spec => []OneOwnerPerChannel
<1>1. PoolIndInv => OneOwnerPerChannel
  BY DEF PoolIndInv, PoolInv
<1> QED
  BY <1>1, PoolInductive, PTL

\* The warning and the -EDEADLK of __lock_avail_channel() are unreachable.
THEOREM NeverEDEADLK == Spec => []AvailChannelExists
<1>1. PoolIndInv => AvailChannelExists
  BY SemaphoreLeavesAChannel DEF PoolIndInv, PoolInv
<1> QED
  BY <1>1, PoolInductive, PTL
=============================================================================

----------------------------- MODULE CtrEvents ------------------------------
(***************************************************************************)
(* How timing events travel from a CTR card to the processes that wait for *)
(* them: the interrupt handler and write() put an event in the ring buffer *)
(* of every connected client and signal its semaphore; read() arms a timer,*)
(* waits for the semaphore, cancels the timer and takes the oldest event.  *)
(*                                                                         *)
(* A client is one thread of control: it reads and it calls ioctl, one at a*)
(* time.  Interrupts, writes, timers and the other clients run between any *)
(* two steps.  A region under disable()/restore() or under a lock of the   *)
(* emulation layer is one step.                                            *)
(***************************************************************************)
EXTENDS Integers, Sequences, FiniteSets, FiniteSetsExt

CONSTANTS Clients,      \* client contexts (CtrDrvrCLIENT_CONTEXTS of them), naturals
          QueueSize,    \* CtrDrvrQUEUE_SIZE
          Timers,       \* TIMERS, the timers of the LynxOS emulation
          MaxEvents,    \* bound: how many events ever arrive
          TimeoutsSet,  \* what SET_TIMEOUT is called with: a timeout (TRUE) or none
          FlagsSet,     \* what SET_QUEUE_FLAG is called with: queueing off (TRUE) or on
          Module        \* the module context, which waits on a timer in Reset

ASSUME CtrAssumption ==
    /\ Clients \subseteq Nat \ {0} /\ IsFiniteSet(Clients)
    /\ QueueSize \in Nat \ {0}
    /\ Timers \in Nat \ {0}
    /\ MaxEvents \in Nat
    /\ TimeoutsSet \subseteq BOOLEAN /\ FlagsSet \subseteq BOOLEAN
    /\ Module \notin Clients \cup {0}

Users   == Clients \cup {Module}    \* the contexts with a semaphore and a timer
Free    == 0                        \* a timer slot nobody uses
Slots   == 1..Timers
NoSlot  == Timers + 1               \* SYSERR in an unsigned field: no slot, and not 0
Events  == 1..MaxEvents
Sources == {"isr", "write"}         \* what delivers events

VARIABLES
    inUse,      \* ccon->InUse
    timeout,    \* ccon->Timeout # 0
    queue,      \* ccon->Queue
    count,      \* count of the semaphore of a client or of the module
    timer,      \* ccon->Timer, mcon->Timer: a slot number or NoSlot, 0 for none
    slots,      \* lynxos_timers: whom the running timer of a slot is for, or Free
    pc,         \* where a client is in read(), the module in Reset()
    local,      \* the slot number, or NoSlot, a caller has in hand
    early,      \* history: the timer of this wait ran out before the wait began
    got,        \* the last event read() returned to the client
    connected,  \* the clients in a Clients[] or HardClients[] mask
    deliver,    \* per source: the event and the clients still to be given it
    arrived,    \* events so far
    mutex       \* ctr_drvr_mutex: who is inside open(), close() or ioctl()

clientVars == <<inUse, timeout, queue, got>>
waitVars   == <<count, timer, slots, local, early>>
isrVars    == <<deliver, arrived>>
vars == <<clientVars, waitVars, isrVars, pc, connected, mutex>>

EmptyQueue == [ents |-> [i \in 0..(QueueSize - 1) |-> 0],
               wr |-> 0, rd |-> 0, size |-> 0, missed |-> 0, off |-> FALSE]
NoDelivery == [event |-> 0, left |-> {}]

TypeOK ==
    /\ inUse \in [Clients -> BOOLEAN]
    /\ timeout \in [Clients -> BOOLEAN]
    /\ queue \in [Clients -> [ents : [0..(QueueSize - 1) -> 0..MaxEvents],
                              wr : 0..(QueueSize - 1), rd : 0..(QueueSize - 1),
                              size : 0..QueueSize, missed : 0..MaxEvents, off : BOOLEAN]]
    /\ count \in [Users -> 0..MaxEvents]
    /\ timer \in [Users -> 0..NoSlot]
    /\ slots \in [Slots -> Users \cup {Free}]
    /\ pc \in [Users -> {"idle", "opening", "overflow", "arm", "store", "wait", "asleep",
                         "woken", "cancel", "cancelIntr", "pop"}]
    /\ local \in [Users -> 0..NoSlot]
    /\ early \in [Users -> BOOLEAN]
    /\ got \in [Clients -> 0..MaxEvents]
    /\ connected \subseteq Clients
    /\ deliver \in [Sources -> [event : 0..MaxEvents, left : SUBSET Clients]]
    /\ arrived \in 0..MaxEvents
    /\ mutex \in Users \cup {Free}

Init ==
    /\ inUse = [c \in Clients |-> FALSE]
    /\ timeout = [c \in Clients |-> FALSE]
    /\ queue = [c \in Clients |-> EmptyQueue]
    /\ count = [u \in Users |-> 0]
    /\ timer = [u \in Users |-> 0]
    /\ slots = [s \in Slots |-> Free]
    /\ pc = [u \in Users |-> "idle"]
    /\ local = [u \in Users |-> 0]
    /\ early = [u \in Users |-> FALSE]
    /\ got = [c \in Clients |-> 0]
    /\ connected = {}
    /\ deliver = [d \in Sources |-> NoDelivery]
    /\ arrived = 0
    /\ mutex = Free

-----------------------------------------------------------------------------
(* The semaphores of the CDCM layer (cdcmSem.c).  A semaphore has at most   *)
(* one waiter, its context's own thread.                                    *)

\* cdcm_up: pass the permit to the waiter, or keep it.
Ssignal(u) ==
    IF pc[u] = "asleep"
    THEN pc' = [pc EXCEPT ![u] = "woken"] /\ UNCHANGED count
    ELSE count' = [count EXCEPT ![u] = @ + 1] /\ UNCHANGED pc

\* Mutant of PcAfterReset: the waiter is left asleep.
PcAfterResetSame(u) == pc

\* __sreset: forget the permits there are or, when there are none, wake the waiter.
CountAfterReset(u) == [count EXCEPT ![u] = 0]
PcAfterReset(u) == IF count[u] = 0 /\ pc[u] = "asleep"
                   THEN [pc EXCEPT ![u] = "woken"] ELSE pc

\* cdcm_down_interruptible: take a permit, or join the wait list and sleep.
Swait(u) ==
    IF count[u] > 0
    THEN /\ count' = [count EXCEPT ![u] = @ - 1]
         /\ pc' = [pc EXCEPT ![u] = "woken"]
    ELSE /\ pc' = [pc EXCEPT ![u] = "asleep"]
         /\ UNCHANGED count

-----------------------------------------------------------------------------
(* The timers of the LynxOS emulation (EmulateLynxOs.c).                    *)

FreeSlots == {s \in Slots : slots[s] = Free}

\* timeout(): the first free slot, or SYSERR.
TakeSlot(u) ==
    IF FreeSlots # {}
    THEN LET s == Min(FreeSlots)
         IN  /\ slots' = [slots EXCEPT ![s] = u]
             /\ local' = [local EXCEPT ![u] = s]
    ELSE /\ local' = [local EXCEPT ![u] = NoSlot]
         /\ UNCHANGED slots

\* cancel_timeout(): stop whatever timer runs in the slot, if it is one.
FreeSlot(s) == slots' = [t \in Slots |-> IF t = s THEN Free ELSE slots[t]]

\* ReadTimeout() of a client, ResetTimeout() of the module.
TimedOut(u) ==
    /\ timer' = [timer EXCEPT ![u] = 0]
    /\ count' = CountAfterReset(u)
    /\ pc' = PcAfterReset(u)
    /\ early' = [early EXCEPT ![u] = pc[u] \in {"store", "wait"}]

\* timer_callback() of a slot.
Expire(s) ==
    /\ slots[s] # Free
    /\ TimedOut(slots[s])
    /\ FreeSlot(s)
    /\ UNCHANGED <<clientVars, local, isrVars, connected, mutex>>

\* CancelTimeout(), first half: remember the slot and clear the context's timer.
\* The second half is CancelSlot.
ForgetTimer(u) == /\ local' = [local EXCEPT ![u] = timer[u]]
                  /\ timer' = [timer EXCEPT ![u] = 0]

WaitOver(u) == early' = [early EXCEPT ![u] = FALSE]

-----------------------------------------------------------------------------
(* open(), close() and ioctl(), one at a time under ctr_drvr_mutex.         *)

\* A client that may enter the driver: not inside a call, the mutex free.
Enters(c) == pc[c] = "idle" /\ mutex = Free

\* CtrDrvrOpen up to the bzero of the context ...
Open(c) ==
    /\ Enters(c) /\ ~inUse[c]
    /\ inUse' = [inUse EXCEPT ![c] = TRUE]
    /\ timeout' = [timeout EXCEPT ![c] = TRUE]
    /\ queue' = [queue EXCEPT ![c] = EmptyQueue]
    /\ timer' = [timer EXCEPT ![c] = 0]
    /\ pc' = [pc EXCEPT ![c] = "opening"]
    /\ mutex' = c
    /\ UNCHANGED <<got, count, slots, local, early, isrVars, connected>>

\* ... and its sreset.
OpenReset(c) ==
    /\ pc[c] = "opening"
    /\ count' = CountAfterReset(c)
    /\ pc' = [pc EXCEPT ![c] = "idle"]
    /\ mutex' = Free
    /\ UNCHANGED <<clientVars, timer, slots, local, early, isrVars, connected>>

\* CtrDrvrClose: a late delivery may still find the context afterwards.
Close(c) ==
    /\ Enters(c) /\ inUse[c]
    /\ inUse' = [inUse EXCEPT ![c] = FALSE]
    /\ timer' = [timer EXCEPT ![c] = 0]
    /\ IF timer[c] # 0 THEN FreeSlot(timer[c]) ELSE UNCHANGED slots
    /\ connected' = connected \ {c}
    /\ UNCHANGED <<timeout, queue, got, count, local, early, isrVars, pc, mutex>>

\* CtrDrvrCONNECT and CtrDrvrDISCONNECT, detailed in CtrConnect.
Connect(c) ==
    /\ Enters(c) /\ inUse[c]
    /\ connected' = connected \cup {c}
    /\ UNCHANGED <<clientVars, waitVars, isrVars, pc, mutex>>

DisConnect(c) ==
    /\ Enters(c) /\ inUse[c]
    /\ connected' = connected \ {c}
    /\ UNCHANGED <<clientVars, waitVars, isrVars, pc, mutex>>

SetTimeout(c) ==
    /\ Enters(c) /\ inUse[c]
    /\ \E b \in TimeoutsSet : timeout' = [timeout EXCEPT ![c] = b]
    /\ UNCHANGED <<inUse, queue, got, waitVars, isrVars, pc, connected, mutex>>

SetQueueFlag(c) ==
    /\ Enters(c) /\ inUse[c]
    /\ \E b \in FlagsSet : queue' = [queue EXCEPT ![c].off = b]
    /\ UNCHANGED <<inUse, timeout, got, waitVars, isrVars, pc, connected, mutex>>

\* CtrDrvrGET_QUEUE_OVERFLOW reads the number of missed events ...
ReadOverflow(c) ==
    /\ Enters(c) /\ inUse[c]
    /\ pc' = [pc EXCEPT ![c] = "overflow"]
    /\ mutex' = c
    /\ UNCHANGED <<clientVars, waitVars, isrVars, connected>>

\* ... and clears it, those missed since it was read included.
ClearOverflow(c) ==
    /\ pc[c] = "overflow"
    /\ queue' = [queue EXCEPT ![c].missed = 0]
    /\ pc' = [pc EXCEPT ![c] = "idle"]
    /\ mutex' = Free
    /\ UNCHANGED <<inUse, timeout, got, waitVars, isrVars, connected>>

-----------------------------------------------------------------------------
(* read(), which takes no lock.                                             *)

\* Mutant of Read: the queue is emptied and the semaphore is not.
ReadKeepsPermits(c) ==
    /\ pc[c] = "idle" /\ inUse[c]
    /\ queue' = [queue EXCEPT ![c] = IF @.off THEN [@ EXCEPT !.size = 0, !.wr = 0, !.rd = 0]
                                             ELSE @]
    /\ pc' = [pc EXCEPT ![c] = IF timeout[c] THEN "arm" ELSE "wait"]
    /\ UNCHANGED <<inUse, timeout, got, waitVars, isrVars, connected, mutex>>

\* CtrDrvrRead: with queueing off, forget what has come so far.
Read(c) ==
    /\ pc[c] = "idle" /\ inUse[c]
    /\ IF queue[c].off
       THEN /\ queue' = [queue EXCEPT ![c] = [@ EXCEPT !.size = 0, !.missed = 0,
                                                       !.wr = 0, !.rd = 0]]
            /\ count' = CountAfterReset(c)
       ELSE UNCHANGED <<queue, count>>
    /\ pc' = [pc EXCEPT ![c] = IF timeout[c] THEN "arm" ELSE "wait"]
    /\ UNCHANGED <<inUse, timeout, got, timer, slots, local, early, isrVars, connected, mutex>>

\* Arm the timer.
ReadArm(c) ==
    /\ pc[c] = "arm"
    /\ TakeSlot(c)
    /\ pc' = [pc EXCEPT ![c] = "store"]
    /\ UNCHANGED <<clientVars, count, timer, early, isrVars, connected, mutex>>

\* ccon->Timer gets its value only after the timer runs.  It is unsigned: the
\* test "ccon->Timer < 0" that follows never holds, and nobody returns EBUSY.
ReadStore(c) ==
    /\ pc[c] = "store"
    /\ timer' = [timer EXCEPT ![c] = local[c]]
    /\ local' = [local EXCEPT ![c] = 0]
    /\ pc' = [pc EXCEPT ![c] = "wait"]
    /\ UNCHANGED <<clientVars, count, slots, early, isrVars, connected, mutex>>

ReadWait(c) ==
    /\ pc[c] = "wait"
    /\ Swait(c)
    /\ UNCHANGED <<clientVars, timer, slots, local, early, isrVars, connected, mutex>>

\* Mutants of ReadInterrupted: the timer runs on; a signal that comes with the
\* permit wins over it.
ReadInterruptedLeaks(c) ==
    /\ pc[c] = "asleep"
    /\ pc' = [pc EXCEPT ![c] = "idle"]
    /\ UNCHANGED <<clientVars, waitVars, isrVars, connected, mutex>>

ReadInterruptedLate(c) ==
    /\ pc[c] \in {"asleep", "woken"}
    /\ IF timer[c] # 0
       THEN ForgetTimer(c) /\ pc' = [pc EXCEPT ![c] = "cancelIntr"]
       ELSE pc' = [pc EXCEPT ![c] = "idle"] /\ UNCHANGED <<local, timer>>
    /\ WaitOver(c)
    /\ UNCHANGED <<clientVars, count, slots, isrVars, connected, mutex>>

\* A signal ends the wait (EINTR), unless the waiter has been marked up.
ReadInterrupted(c) ==
    /\ pc[c] = "asleep"
    /\ IF timer[c] # 0
       THEN ForgetTimer(c) /\ pc' = [pc EXCEPT ![c] = "cancelIntr"]
       ELSE pc' = [pc EXCEPT ![c] = "idle"] /\ UNCHANGED <<local, timer>>
    /\ WaitOver(c)
    /\ UNCHANGED <<clientVars, count, slots, isrVars, connected, mutex>>

\* After the wait: the timer is cancelled, or it has expired (ETIME).
ReadWoken(c) ==
    /\ pc[c] = "woken"
    /\ IF ~timeout[c]
       THEN pc' = [pc EXCEPT ![c] = "pop"] /\ UNCHANGED <<local, timer>>
       ELSE IF timer[c] # 0
       THEN ForgetTimer(c) /\ pc' = [pc EXCEPT ![c] = "cancel"]
       ELSE pc' = [pc EXCEPT ![c] = "idle"] /\ UNCHANGED <<local, timer>>
    /\ WaitOver(c)
    /\ UNCHANGED <<clientVars, count, slots, isrVars, connected, mutex>>

\* CancelTimeout(), second half: cancel_timeout of the slot remembered.
CancelSlot(c) ==
    /\ pc[c] \in {"cancel", "cancelIntr"}
    /\ FreeSlot(local[c])
    /\ local' = [local EXCEPT ![c] = 0]
    /\ pc' = [pc EXCEPT ![c] = IF @ = "cancel" THEN "pop" ELSE "idle"]
    /\ UNCHANGED <<clientVars, count, timer, early, isrVars, connected, mutex>>

\* Take the oldest event; an empty queue fails the read with EINTR.
ReadPop(c) ==
    /\ pc[c] = "pop"
    /\ LET k == queue[c] IN
       IF k.size > 0
       THEN /\ got' = [got EXCEPT ![c] = k.ents[k.rd]]
            /\ queue' = [queue EXCEPT ![c] = [k EXCEPT !.rd = (k.rd + 1) % QueueSize,
                                                       !.size = k.size - 1]]
       ELSE UNCHANGED <<got, queue>>
    /\ pc' = [pc EXCEPT ![c] = "idle"]
    /\ UNCHANGED <<inUse, timeout, waitVars, isrVars, connected, mutex>>

-----------------------------------------------------------------------------
(* Events: IntrHandler and CtrDrvrWrite.                                    *)

\* The mask of the clients concerned is read once, some of the connected ones.
Arrive(d) ==
    /\ deliver[d].left = {} /\ arrived < MaxEvents
    /\ \E s \in SUBSET connected \ {{}} :
          deliver' = [deliver EXCEPT ![d] = [event |-> arrived + 1, left |-> s]]
    /\ arrived' = arrived + 1
    /\ UNCHANGED <<clientVars, waitVars, pc, connected, mutex>>

\* An interrupt of the card, and a write() that simulates one.
IntrHandler  == Arrive("isr")
CtrDrvrWrite == Arrive("write")

\* Mutant of Put: a full ring is overwritten and its read pointer stays.
PutOverwrites(d) ==
    /\ deliver[d].left # {}
    /\ LET c == Min(deliver[d].left)
           k == queue[c]
           full == k.size = QueueSize
       IN  /\ queue' = [queue EXCEPT ![c] =
                 [k EXCEPT !.ents = [k.ents EXCEPT ![k.wr] = deliver[d].event],
                           !.wr = (k.wr + 1) % QueueSize,
                           !.size = IF full THEN k.size ELSE k.size + 1]]
           /\ IF full THEN UNCHANGED <<count, pc>> ELSE Ssignal(c)
           /\ deliver' = [deliver EXCEPT ![d].left = @ \ {c}]
    /\ UNCHANGED <<inUse, timeout, got, timer, slots, local, early, arrived, connected, mutex>>

\* An event enters a ring: a full one loses its oldest entry and is not signalled.
Put(d) ==
    /\ deliver[d].left # {}
    /\ LET c == Min(deliver[d].left)
           k == queue[c]
           full == k.size = QueueSize
       IN  /\ queue' = [queue EXCEPT ![c] =
                 [k EXCEPT !.ents = [k.ents EXCEPT ![k.wr] = deliver[d].event],
                           !.wr = (k.wr + 1) % QueueSize,
                           !.size = IF full THEN k.size ELSE k.size + 1,
                           !.missed = IF full THEN k.missed + 1 ELSE k.missed,
                           !.rd = IF full THEN (k.rd + 1) % QueueSize ELSE k.rd]]
           /\ IF full THEN UNCHANGED <<count, pc>> ELSE Ssignal(c)
           /\ deliver' = [deliver EXCEPT ![d].left = @ \ {c}]
    /\ UNCHANGED <<inUse, timeout, got, timer, slots, local, early, arrived, connected, mutex>>

-----------------------------------------------------------------------------
(* Reset() and the end of CtrDrvrJTAG_CLOSE: wait until the module has      *)
(* settled, with ctr_drvr_mutex held.  The caller is a client that does not *)
(* read at the same time, and is called Module here.                        *)

Reset ==
    /\ pc[Module] = "idle" /\ mutex = Free
    /\ mutex' = Module
    /\ count' = CountAfterReset(Module)
    /\ TakeSlot(Module)
    /\ pc' = [pc EXCEPT ![Module] = "store"]
    /\ UNCHANGED <<clientVars, timer, early, isrVars, connected>>

\* mcon->Timer is unsigned too: without a free timer the module waits all the same.
ResetStore ==
    /\ pc[Module] = "store"
    /\ timer' = [timer EXCEPT ![Module] = local[Module]]
    /\ local' = [local EXCEPT ![Module] = 0]
    /\ pc' = [pc EXCEPT ![Module] = "wait"]
    /\ UNCHANGED <<clientVars, count, slots, early, isrVars, connected, mutex>>

\* "if (mcon->Timer) swait": the timer may expire before the test or after it.
ResetWait ==
    /\ pc[Module] = "wait"
    /\ \/ Swait(Module)
       \/ /\ timer[Module] = 0
          /\ pc' = [pc EXCEPT ![Module] = "woken"] /\ UNCHANGED count
    /\ UNCHANGED <<clientVars, timer, slots, local, early, isrVars, connected, mutex>>

\* "if (mcon->Timer) CancelTimeout", after the wait or a signal that ended it.
ResetCancel ==
    /\ IF timer[Module] # 0
       THEN ForgetTimer(Module) /\ pc' = [pc EXCEPT ![Module] = "cancel"]
       ELSE pc' = [pc EXCEPT ![Module] = "pop"] /\ UNCHANGED <<local, timer>>
    /\ WaitOver(Module)
    /\ UNCHANGED <<clientVars, count, slots, isrVars, connected, mutex>>

ResetWoken       == pc[Module] = "woken" /\ ResetCancel
ResetInterrupted == pc[Module] = "asleep" /\ ResetCancel

\* The module is set up again and the call returns.
ResetDone ==
    /\ pc[Module] = "pop"
    /\ pc' = [pc EXCEPT ![Module] = "idle"]
    /\ mutex' = Free
    /\ UNCHANGED <<clientVars, waitVars, isrVars, connected>>

-----------------------------------------------------------------------------
\* The steps of a call that go on by themselves, once the call has begun.
ReadStep(c) == \/ ReadArm(c) \/ ReadStore(c) \/ ReadWait(c) \/ ReadWoken(c) \/ ReadPop(c)
ResetStep   == ResetStore \/ ResetWait \/ ResetWoken \/ ResetDone

ClientNext(c) ==
    \/ Open(c) \/ OpenReset(c) \/ Close(c) \/ Connect(c) \/ DisConnect(c)
    \/ SetTimeout(c) \/ SetQueueFlag(c) \/ ReadOverflow(c) \/ ClearOverflow(c)
    \/ Read(c) \/ ReadStep(c) \/ ReadInterrupted(c)

Next == \/ \E c \in Clients : ClientNext(c)
        \/ \E u \in Users : CancelSlot(u)
        \/ \E s \in Slots : Expire(s)
        \/ IntrHandler \/ CtrDrvrWrite \/ \E d \in Sources : Put(d)
        \/ Reset \/ ResetStep \/ ResetInterrupted

\* The kernel runs what can run: threads inside a call, and timers.
Fairness == /\ \A c \in Clients : WF_vars(ReadStep(c)) /\ WF_vars(CancelSlot(c))
            /\ WF_vars(ResetStep) /\ WF_vars(CancelSlot(Module))
            /\ \A s \in Slots : WF_vars(Expire(s))

Spec == Init /\ [][Next]_vars /\ Fairness

-----------------------------------------------------------------------------
\* A reader past the wait for a reason other than its timeout: it holds a permit.
HoldsPermit(c) == \/ pc[c] \in {"cancel", "pop"}
                  \/ pc[c] = "woken" /\ (timeout[c] => timer[c] # 0)

\* A wait whose timer somebody else stopped, or that ran out too early.
Orphaned(u) == /\ pc[u] = "asleep" /\ \A s \in Slots : slots[s] # u
               /\ timer[u] \in Slots \/ early[u]

\* Every permit of a client's semaphore, and the one its reader has taken,
\* stands for an event in its queue: a read that gets past the wait without
\* a timeout never finds the queue empty (the last lines of CtrDrvrRead).
PermitHasEvent ==
    \A c \in Clients : pc[c] # "opening" =>
        count[c] + (IF HoldsPermit(c) THEN 1 ELSE 0) <= queue[c].size

\* A context that is not in a call has no timer running: every way out of
\* read() and Reset() gives the timer back, one for which there was no timer
\* included, so that no timer is lost to the others however reads end.
IdleHasNoTimer ==
    \A u \in Users : pc[u] \in {"idle", "opening"} => \A s \in Slots : slots[s] # u

\* Events without a permit: a read will sleep although they are there.
Unannounced(c) == queue[c].size - count[c] - (IF HoldsPermit(c) THEN 1 ELSE 0)

\* A timer of the client runs out, and sreset() takes its permits away.
TimesOut(c) == \E s \in Slots : slots[s] = c /\ Expire(s)

\* A permit goes to a reader whose timer ran out before it began to wait: the
\* read returns ETIME all the same.
TooLate(c) == /\ early[c] /\ timer[c] = 0
              /\ pc[c] \in {"wait", "asleep"} /\ pc'[c] = "woken"

\* Only a timeout (or the opening of the device) makes the semaphore fall
\* behind the queue: no signal, no overflow, no flush and no other client
\* leaves an event in the ring that no permit announces, whether the client
\* has set a timeout or not.
OnlyTimeoutsStrand ==
    [][\A c \in Clients : Unannounced(c)' > Unannounced(c) =>
            pc[c] = "opening" \/ TimesOut(c) \/ TooLate(c)]_vars

\* A read with a timeout, and a Reset, that got a timer comes back even when no
\* event ever arrives, unless its timer is stopped by another (see CancelIsSafe)
\* or runs out in the moment between timeout() and swait().
EveryWaitReturns ==
    \A u \in Users : (pc[u] = "store" /\ local[u] # NoSlot) ~> (pc[u] = "idle" \/ Orphaned(u))

\* "No available timers": a read that asked for a timeout never waits without a
\* timer (the test of ccon->Timer after timeout() in CtrDrvrRead).
TimedReadsHaveTimers == \A c \in Clients : pc[c] = "asleep" => timer[c] # NoSlot

\* The ring buffers are first-in first-out queues that drop their oldest
\* event: interrupts and writes that overtake each other, overflow, flushes
\* and reads never show a client an event twice, out of order or garbled.
Contents(c) == [i \in 1..queue[c].size |->
                    queue[c].ents[(queue[c].rd + i - 1) % QueueSize]]
Abstract == INSTANCE EventQueue WITH q <- [c \in Clients |-> Contents(c)]
ImplementsQueue == Abstract!Spec

\* "Cancel a timeout in a safe way": CancelTimeout stops no timer but its
\* own context's.
CancelIsSafe ==
    \A u \in Users : pc[u] \in {"cancel", "cancelIntr"} /\ local[u] \in Slots
                    => slots[local[u]] \in {u, Free}
=============================================================================

------------------------------ MODULE Sis3300 ------------------------------
(***************************************************************************)
(* Acquiring on an SIS3300 digitizer and fetching what was acquired.       *)
(*                                                                         *)
(* sis33_core.c runs two ioctls, ACQUIRE and FETCH, from any number of     *)
(* processes; acq_cancel is written through sysfs by anybody at any time;  *)
(* the interrupt queues sis3300_irq_work(), which runs in a workqueue.     *)
(* card->lock protects the segments, but sis3300_acq_start() and           *)
(* sis3300_fetch() run without it: the flags `acquiring' and               *)
(* `transferring' of the segment are to keep everybody else away.          *)
(*                                                                         *)
(* The module fills one bank of memory per segment, event after event.  A  *)
(* bank is identified by the number of the acquisition it was last armed   *)
(* for, and a cache by the number of the acquisition it was read from.     *)
(***************************************************************************)
EXTENDS Integers, FiniteSets

CONSTANTS
  Callers,      \* processes that acquire and fetch
  Segments,     \* the two banks, SIS3300_MAX_NR_SEGMENTS
  Groups,       \* ADC groups, each with a sample cache of its own
  Requests,     \* numbers of events that are asked for; only the upper bound is checked
  BankEvents,   \* events that fit into a bank
  MaxAcqs,      \* bound: acquisitions that are started
  MaxCancels,   \* bound: writes to acq_cancel
  Wrap,         \* unsigned numbers wrap here (2^32 in the code)
  None

ASSUME Sis3300Assumption ==
  /\ Requests \subseteq Nat
  /\ BankEvents \in Nat \ {0}
  /\ MaxAcqs \in Nat /\ MaxCancels \in Nat
  /\ Wrap \in Nat /\ Wrap > BankEvents + 1
  /\ Segments # {} /\ Groups # {}
  /\ None \notin Segments \cup {"work", "cancel"}

VARIABLES
  lock,       \* card->lock between two steps: None, "work" or "cancel"
  acquiring, transferring, nr_events,          \* struct sis33_segment
  events, sampcache, prevticks,                \* the caches of a segment
  curr_segment, req_events,                    \* what is being acquired
  done,       \* priv->completion
  pc, me,     \* the callers: place in the code, and arguments
  work,       \* the work item: queued, its place, and what it has read
  cancel,     \* the writer of acq_cancel: its place, and what it has read
  bank,       \* per segment: acquisition, event counter, completed events
  dev,        \* the module: bank armed, sampling, mode, interrupt bits
  acqs, cancels,
  raced       \* history: a cancel came before arming, or left an interrupt behind

seg == <<acquiring, transferring, nr_events>>
caches == <<events, sampcache, prevticks>>
card == <<curr_segment, req_events, done>>
counts == <<acqs, cancels, raced>>
vars == <<lock, seg, caches, card, pc, me, work, cancel, bank, dev, counts>>

\* Between giving the lock back and arming the module.
Starting == {"prepare", "arm"}
Fetching == {"events", "samples", "ticks", "copy"}
Waiting == {"wait", "fetchwait"}

\* A caller outside the driver, the work not running, nobody cancelling.
Outside == [segment |-> CHOOSE s \in Segments : TRUE,
            group |-> CHOOSE g \in Groups : TRUE, wait |-> FALSE, acq |-> 0]
Resting == [queued |-> FALSE, at |-> "idle", ev |-> FALSE, lev |-> FALSE,
            counter |-> 0, busy |-> FALSE]
NoCancel == [at |-> "idle", counter |-> 0, busy |-> FALSE]

\* The call of c returns.
Return(c) == pc' = [pc EXCEPT ![c] = "idle"] /\ me' = [me EXCEPT ![c] = Outside]

TypeOK ==
  /\ lock \in {None, "work", "cancel"}
  /\ acquiring \in [Segments -> BOOLEAN]
  /\ transferring \in [Segments -> BOOLEAN]
  /\ nr_events \in [Segments -> 0 .. Wrap - 1]
  /\ events \in [Segments -> 0 .. MaxAcqs]
  /\ sampcache \in [Segments -> [Groups -> 0 .. MaxAcqs]]
  /\ prevticks \in [Segments -> 0 .. MaxAcqs]
  /\ curr_segment \in Segments
  /\ req_events \in Requests \cup {0}
  /\ done \in BOOLEAN
  /\ pc \in [Callers -> {"idle", "relock"} \cup Starting \cup Fetching \cup Waiting]
  /\ me \in [Callers -> [segment : Segments, group : Groups, wait : BOOLEAN,
                         acq : 0 .. MaxAcqs]]
  /\ work \in [queued : BOOLEAN,
               at : {"idle", "status", "counter", "clear", "busy", "judge", "last"},
               ev : BOOLEAN, lev : BOOLEAN, counter : 0 .. BankEvents, busy : BOOLEAN]
  /\ cancel \in [at : {"idle", "busy", "finish"}, counter : 0 .. BankEvents,
                 busy : BOOLEAN]
  /\ bank \in [Segments -> [acq : 0 .. MaxAcqs, counter : 0 .. BankEvents,
                            full : 0 .. BankEvents]]
  /\ dev \in [armed : Segments \cup {None}, busy : BOOLEAN, mev : BOOLEAN,
              ev : BOOLEAN, lev : BOOLEAN, enEv : BOOLEAN, enLev : BOOLEAN]
  /\ acqs \in 0 .. MaxAcqs /\ cancels \in 0 .. MaxCancels /\ raced \in BOOLEAN

\* sis3300_probe(): segments and caches zeroed, nothing acquired, interrupts on.
Init ==
  /\ lock = None
  /\ acquiring = [s \in Segments |-> FALSE]
  /\ transferring = [s \in Segments |-> FALSE]
  /\ nr_events = [s \in Segments |-> 0]
  /\ events = [s \in Segments |-> 0]
  /\ sampcache = [s \in Segments |-> [g \in Groups |-> 0]]
  /\ prevticks = [s \in Segments |-> 0]
  /\ curr_segment = CHOOSE s \in Segments : TRUE
  /\ req_events = 0
  /\ done = FALSE
  /\ pc = [c \in Callers |-> "idle"]
  /\ me = [c \in Callers |-> Outside]
  /\ work = Resting
  /\ cancel = NoCancel
  /\ bank = [s \in Segments |-> [acq |-> 0, counter |-> 0, full |-> 0]]
  /\ dev = [armed |-> None, busy |-> FALSE, mev |-> FALSE,
            ev |-> FALSE, lev |-> FALSE, enEv |-> TRUE, enLev |-> TRUE]
  /\ acqs = 0 /\ cancels = 0 /\ raced = FALSE

-----------------------------------------------------------------------------
(* The module itself: external, as the driver and its comments use it.      *)

\* The next event starts: at once in autostart mode, or with a trigger from
\* outside or from sysfs.  The event counter names the event being sampled.
SampleStart ==
  /\ dev.armed # None /\ ~dev.busy
  /\ bank[dev.armed].counter < (IF dev.mev THEN BankEvents ELSE 1)
  /\ dev' = [dev EXCEPT !.busy = TRUE]
  /\ bank' = [bank EXCEPT ![dev.armed].counter = @ + 1]
  /\ UNCHANGED <<lock, seg, caches, card, pc, me, work, cancel, counts>>

\* The event is complete; the last one that fits raises a flag of its own.
SampleStop ==
  /\ dev.busy
  /\ bank' = [bank EXCEPT ![dev.armed].full = bank[dev.armed].counter]
  /\ dev' = [dev EXCEPT !.busy = FALSE, !.ev = TRUE,
                        !.lev = @ \/ bank[dev.armed].counter = BankEvents]
  /\ UNCHANGED <<lock, seg, caches, card, pc, me, work, cancel, counts>>

\* The CPU acknowledges the interrupt, which disables its source (ROAK), and
\* sis3300_irq() queues the work.
Irq ==
  /\ (dev.ev /\ dev.enEv) \/ (dev.lev /\ dev.enLev)
  /\ dev' = [dev EXCEPT !.enEv = @ /\ ~dev.ev, !.enLev = @ /\ ~dev.lev]
  /\ work' = [work EXCEPT !.queued = TRUE]
  /\ UNCHANGED <<lock, seg, caches, card, pc, me, cancel, bank, counts>>

-----------------------------------------------------------------------------
(* ACQUIRE                                                                  *)

sis33_is_acquiring == \E s \in Segments : acquiring[s]

\* sis33_acq_start_ioctl() as far as mutex_unlock(): the checks, conf_ev() and
\* the segment's new state.  A request that fails them changes nothing.
AcqStart(c, s, n, wait) ==
  /\ pc[c] = "idle" /\ lock = None
  /\ acqs < MaxAcqs
  /\ ~transferring[s] /\ ~sis33_is_acquiring
  /\ acquiring' = [acquiring EXCEPT ![s] = TRUE]
  /\ req_events' = n
  /\ dev' = [dev EXCEPT !.mev = n # 1]
  /\ curr_segment' = s
  /\ acqs' = acqs + 1
  /\ raced' = (raced \/ dev.ev \/ dev.lev)
  /\ me' = [me EXCEPT ![c].segment = s, ![c].wait = wait, ![c].acq = acqs + 1]
  /\ pc' = [pc EXCEPT ![c] = "prepare"]
  /\ UNCHANGED <<lock, transferring, nr_events, caches, done, work, cancel,
                 bank, cancels>>

\* Mutant of Prepare: the time stamps of the acquisition before stay.
PrepareKeepsTicks(c) ==
  /\ pc[c] = "prepare"
  /\ events' = [events EXCEPT ![curr_segment] = 0]
  /\ sampcache' = [sampcache EXCEPT ![curr_segment] = [g \in Groups |-> 0]]
  /\ done' = FALSE
  /\ pc' = [pc EXCEPT ![c] = "arm"]
  /\ UNCHANGED <<lock, seg, prevticks, curr_segment, req_events, me, work,
                 cancel, bank, dev, counts>>

\* sis3300_acq_start(), without the lock: the caches go, the completion is
\* reset, ...
Prepare(c) ==
  /\ pc[c] = "prepare"
  /\ events' = [events EXCEPT ![curr_segment] = 0]
  /\ sampcache' = [sampcache EXCEPT ![curr_segment] = [g \in Groups |-> 0]]
  /\ prevticks' = [prevticks EXCEPT ![curr_segment] = 0]
  /\ done' = FALSE
  /\ pc' = [pc EXCEPT ![c] = "arm"]
  /\ UNCHANGED <<lock, seg, curr_segment, req_events, me, work, cancel, bank,
                 dev, counts>>

\* ... the bank is armed, and the caller waits or returns.
Arm(c) ==
  /\ pc[c] = "arm"
  /\ dev' = [dev EXCEPT !.armed = curr_segment, !.busy = FALSE]
  /\ bank' = [bank EXCEPT ![curr_segment] = [acq |-> me[c].acq, counter |-> 0, full |-> 0]]
  /\ IF me[c].wait
       THEN pc' = [pc EXCEPT ![c] = "wait"] /\ UNCHANGED me
       ELSE Return(c)
  /\ UNCHANGED <<lock, seg, caches, card, work, cancel, counts>>

\* Mutant of WaitDone: complete() instead of complete_all(), which wakes one.
WaitDoneConsumes(c) ==
  /\ pc[c] \in Waiting /\ done
  /\ done' = FALSE
  /\ IF pc[c] = "wait"
       THEN Return(c)
       ELSE pc' = [pc EXCEPT ![c] = "relock"] /\ UNCHANGED me
  /\ UNCHANGED <<lock, seg, caches, curr_segment, req_events, work, cancel,
                 bank, dev, counts>>

\* sis3300_acq_wait() returns 0.  complete_all() has set done, and a waiter
\* that has not run before the next INIT_COMPLETION() sleeps on.
WaitDone(c) ==
  /\ pc[c] \in Waiting /\ done
  /\ IF pc[c] = "wait"
       THEN Return(c)
       ELSE pc' = [pc EXCEPT ![c] = "relock"] /\ UNCHANGED me
  /\ UNCHANGED <<lock, seg, caches, card, work, cancel, bank, dev, counts>>

\* A signal or the caller's timeout: -EINTR, -ETIME.  Also the signal that ends
\* mutex_lock_interruptible() after the wait.
WaitInterrupted(c) ==
  /\ (pc[c] \in Waiting /\ ~done) \/ pc[c] = "relock"
  /\ Return(c)
  /\ UNCHANGED <<lock, seg, caches, card, work, cancel, bank, dev, counts>>

-----------------------------------------------------------------------------
(* FETCH                                                                    *)

\* sis33_fetch_ioctl() past its checks: nobody acquires into the segment or
\* reads it, and it has events.
MayFetch(s) == ~acquiring[s] /\ ~transferring[s] /\ nr_events[s] > 0

Claim(c, s) ==
  /\ transferring' = [transferring EXCEPT ![s] = TRUE]
  /\ pc' = [pc EXCEPT ![c] = "events"]

\* The first part under the lock: an acquisition in progress is waited for,
\* unless the caller says DONTWAIT.  A request that fails changes nothing.
FetchLock(c, s, g) ==
  /\ pc[c] = "idle" /\ lock = None
  /\ me' = [me EXCEPT ![c] = [@ EXCEPT !.segment = s, !.group = g]]
  /\ \/ /\ acquiring[s]
        /\ pc' = [pc EXCEPT ![c] = "fetchwait"]
        /\ UNCHANGED transferring
     \/ MayFetch(s) /\ Claim(c, s)
  /\ UNCHANGED <<lock, acquiring, nr_events, caches, card, work, cancel, bank,
                 dev, counts>>

\* Mutant of Relock: the segment is not looked at again after the wait.
RelockUnchecked(c) ==
  /\ pc[c] = "relock" /\ lock = None
  /\ Claim(c, me[c].segment)
  /\ UNCHANGED <<lock, acquiring, nr_events, caches, card, me, work, cancel,
                 bank, dev, counts>>

\* After the wait everything is checked again.
Relock(c) ==
  /\ pc[c] = "relock" /\ lock = None
  /\ IF MayFetch(me[c].segment)
       THEN Claim(c, me[c].segment) /\ UNCHANGED me
       ELSE Return(c) /\ UNCHANGED transferring
  /\ UNCHANGED <<lock, acquiring, nr_events, caches, card, work, cancel, bank,
                 dev, counts>>

\* A cache that is there is used, otherwise it is read from the bank.
Cached(cache, s) == IF cache # 0 THEN cache ELSE bank[s].acq

\* sis3300_fetch(): events, samples, time stamps, each from its cache.
GetEvents(c) ==
  LET s == me[c].segment IN
  /\ pc[c] = "events"
  /\ nr_events[s] <= BankEvents          \* kcalloc() of -1 wrapped events fails
  /\ events' = [events EXCEPT ![s] = Cached(@, s)]
  /\ pc' = [pc EXCEPT ![c] = "samples"]
  /\ UNCHANGED <<lock, seg, sampcache, prevticks, card, me, work, cancel, bank,
                 dev, counts>>

GetSamples(c) ==
  LET s == me[c].segment IN
  /\ pc[c] = "samples"
  /\ sampcache' = [sampcache EXCEPT ![s][me[c].group] = Cached(@, s)]
  /\ pc' = [pc EXCEPT ![c] = "ticks"]
  /\ UNCHANGED <<lock, seg, events, prevticks, card, me, work, cancel, bank,
                 dev, counts>>

GetTicks(c) ==
  LET s == me[c].segment IN
  /\ pc[c] = "ticks"
  /\ prevticks' = [prevticks EXCEPT ![s] = Cached(@, s)]
  /\ pc' = [pc EXCEPT ![c] = "copy"]
  /\ UNCHANGED <<lock, seg, events, sampcache, card, me, work, cancel, bank,
                 dev, counts>>

\* The events are copied out, or one of the steps has failed: out of memory, a
\* DMA error, a bad buffer.
FetchEnd(c) ==
  /\ pc[c] \in Fetching
  /\ transferring' = [transferring EXCEPT ![me[c].segment] = FALSE]
  /\ Return(c)
  /\ UNCHANGED <<lock, acquiring, nr_events, caches, card, work, cancel, bank,
                 dev, counts>>

-----------------------------------------------------------------------------
(* The end of an acquisition                                                *)

\* Mutant of Finish: the module is not disarmed.
FinishArmed(n, module) ==
  /\ dev' = module
  /\ acquiring' = [acquiring EXCEPT ![curr_segment] = FALSE]
  /\ nr_events' = [nr_events EXCEPT ![curr_segment] = n]
  /\ done' = TRUE

\* sis3300_finish_acquisition() with n events.  Both its callers hold the lock.
\* module is the module as the caller leaves it, but for being disarmed.
Finish(n, module) ==
  /\ dev' = [module EXCEPT !.armed = None, !.busy = FALSE]
  /\ acquiring' = [acquiring EXCEPT ![curr_segment] = FALSE]
  /\ nr_events' = [nr_events EXCEPT ![curr_segment] = n]
  /\ done' = TRUE

NoFinish(module) ==
  /\ dev' = module
  /\ UNCHANGED <<acquiring, nr_events, done>>

\* sis3300_irq_work() takes the lock, ...
WorkLock ==
  /\ work.at = "idle" /\ work.queued /\ lock = None
  /\ lock' = "work"
  /\ work' = [work EXCEPT !.queued = FALSE, !.at = "status"]
  /\ UNCHANGED <<seg, caches, card, pc, me, cancel, bank, dev, counts>>

\* ... reads the status until it is clear, ...
WorkStatus ==
  /\ work.at = "status"
  /\ IF dev.ev \/ dev.lev
       THEN /\ work' = [work EXCEPT !.at = "counter", !.ev = dev.ev, !.lev = dev.lev]
            /\ UNCHANGED lock
       ELSE /\ work' = [Resting EXCEPT !.queued = work.queued]
            /\ lock' = None
  /\ UNCHANGED <<seg, caches, card, pc, me, cancel, bank, dev, counts>>

\* ... and in sis3300_do_irq() first the event counter, ...
WorkCounter ==
  /\ work.at = "counter"
  /\ work' = [work EXCEPT !.counter = bank[curr_segment].counter,
                          !.at = IF work.ev THEN "clear" ELSE "last"]
  /\ UNCHANGED <<lock, seg, caches, card, pc, me, cancel, bank, dev, counts>>

\* ... clears an `event' interrupt, ...
WorkClear ==
  /\ work.at = "clear"
  /\ dev' = [dev EXCEPT !.ev = FALSE, !.enEv = FALSE]
  /\ work' = [work EXCEPT !.at = "busy"]
  /\ UNCHANGED <<lock, seg, caches, card, pc, me, cancel, bank, counts>>

\* ... reads whether the module is sampling, ...
WorkBusy ==
  /\ work.at = "busy"
  /\ work' = [work EXCEPT !.busy = dev.busy, !.at = "judge"]
  /\ UNCHANGED <<lock, seg, caches, card, pc, me, cancel, bank, dev, counts>>

\* Mutant of WorkJudge: the event being sampled counts as acquired.
WorkJudgeEarly ==
  LET enabled == [dev EXCEPT !.enEv = TRUE] IN
  /\ work.at = "judge"
  /\ IF work.counter >= req_events /\ acquiring[curr_segment]
       THEN Finish(req_events, enabled)
       ELSE NoFinish(enabled)
  /\ work' = [work EXCEPT !.at = IF work.lev THEN "last" ELSE "status"]
  /\ UNCHANGED <<lock, transferring, caches, curr_segment, req_events, pc, me,
                 cancel, bank, counts>>

\* ... and ends the acquisition if all the events are there.  The interrupt is
\* enabled again.
WorkJudge ==
  LET threshold == IF work.busy THEN req_events + 1 ELSE req_events
      enabled == [dev EXCEPT !.enEv = TRUE] IN
  /\ work.at = "judge"
  /\ IF work.counter >= threshold /\ acquiring[curr_segment]
       THEN Finish(req_events, enabled)
       ELSE NoFinish(enabled)
  /\ work' = [work EXCEPT !.at = IF work.lev THEN "last" ELSE "status"]
  /\ UNCHANGED <<lock, transferring, caches, curr_segment, req_events, pc, me,
                 cancel, bank, counts>>

\* Mutant of WorkLast: nothing acquiring, nothing to do, not even to clear.
WorkLastLeaves ==
  /\ work.at = "last"
  /\ IF acquiring[curr_segment]
       THEN /\ Finish(work.counter, [dev EXCEPT !.lev = FALSE, !.enLev = TRUE])
            /\ work' = [work EXCEPT !.at = "status"]
            /\ UNCHANGED lock
       ELSE /\ NoFinish(dev)
            /\ work' = [Resting EXCEPT !.queued = work.queued]
            /\ lock' = None
  /\ UNCHANGED <<transferring, caches, curr_segment, req_events, pc, me, cancel,
                 bank, counts>>

\* A `last event' interrupt: the bank is full, whatever was asked for.
WorkLast ==
  LET enabled == [dev EXCEPT !.lev = FALSE, !.enLev = TRUE] IN
  /\ work.at = "last"
  /\ IF acquiring[curr_segment]
       THEN Finish(work.counter, enabled)
       ELSE NoFinish(enabled)
  /\ work' = [work EXCEPT !.at = "status"]
  /\ UNCHANGED <<lock, transferring, caches, curr_segment, req_events, pc, me,
                 cancel, bank, counts>>

\* sis3300_acq_cancel(): under the lock, if there is anything to cancel, ...
CancelLock ==
  /\ cancel.at = "idle" /\ lock = None /\ cancels < MaxCancels
  /\ acquiring[curr_segment]
  /\ lock' = "cancel"
  /\ cancels' = cancels + 1
  /\ cancel' = [cancel EXCEPT !.at = "busy", !.counter = bank[curr_segment].counter]
  /\ raced' = (raced \/ \E c \in Callers : pc[c] \in Starting)
  /\ UNCHANGED <<seg, caches, card, pc, me, work, bank, dev, acqs>>

\* ... it reads whether the module samples after the event counter, ...
CancelBusy ==
  /\ cancel.at = "busy"
  /\ cancel' = [cancel EXCEPT !.at = "finish", !.busy = dev.busy]
  /\ UNCHANGED <<lock, seg, caches, card, pc, me, work, bank, dev, counts>>

\* Mutant of CancelFinish: the module is stopped and nobody is told.
CancelFinishQuiet ==
  /\ cancel.at = "finish"
  /\ dev' = [dev EXCEPT !.armed = None, !.busy = FALSE]
  /\ acquiring' = [acquiring EXCEPT ![curr_segment] = FALSE]
  /\ nr_events' = [nr_events EXCEPT ![curr_segment] = cancel.counter]
  /\ lock' = None
  /\ cancel' = NoCancel
  /\ UNCHANGED <<transferring, caches, card, pc, me, work, bank, counts>>

\* ... and keeps the events before that one.  nr_events is unsigned.
CancelFinish ==
  /\ cancel.at = "finish"
  /\ Finish((IF cancel.busy THEN cancel.counter - 1 ELSE cancel.counter) % Wrap, dev)
  /\ lock' = None
  /\ cancel' = NoCancel
  /\ UNCHANGED <<transferring, caches, curr_segment, req_events, pc, me, work,
                 bank, counts>>

-----------------------------------------------------------------------------
Device == SampleStart \/ SampleStop \/ Irq

Work == WorkStatus \/ WorkCounter \/ WorkClear \/ WorkBusy \/ WorkJudge \/ WorkLast

Cancel == CancelBusy \/ CancelFinish

\* The steps a caller takes by itself once it has entered the driver.
Step(c) == \/ Prepare(c) \/ Arm(c) \/ WaitDone(c)
           \/ GetEvents(c) \/ GetSamples(c) \/ GetTicks(c) \/ FetchEnd(c)

Next ==
  \/ Device
  \/ WorkLock \/ Work
  \/ CancelLock \/ Cancel
  \/ \E c \in Callers :
       \/ \E s \in Segments, n \in Requests, wait \in BOOLEAN : AcqStart(c, s, n, wait)
       \/ \E s \in Segments, g \in Groups : FetchLock(c, s, g)
       \/ Step(c)
       \/ Relock(c)
       \/ WaitInterrupted(c)

\* Interrupts are delivered, whoever is in the driver goes on, and a mutex is
\* passed on in the order of arrival.  Nobody is obliged to call, to cancel, to
\* send a signal or to set a timeout.
Fairness ==
  /\ WF_vars(SampleStop) /\ WF_vars(Irq)
  /\ WF_vars(Work) /\ WF_vars(Cancel)
  /\ SF_vars(WorkLock)
  /\ \A c \in Callers : WF_vars(Step(c)) /\ SF_vars(Relock(c))

Spec == Init /\ [][Next]_vars

\* Triggers keep coming until the bank is full, as they do with start_auto.
FairSpec == Spec /\ Fairness /\ WF_vars(SampleStart)

\* A trigger comes for each event that was asked for, and perhaps no more.
FairTriggersSpec ==
  Spec /\ Fairness /\ WF_vars(SampleStart /\ bank[dev.armed].counter < req_events)

-----------------------------------------------------------------------------
\* Acquiring and fetching exclude each other on a segment, and only one segment
\* is acquired at a time, although neither runs under the lock: the check after
\* the wait in sis33_fetch_ioctl() and the one in sis33_acq_start_ioctl().
FetchExcludesAcquisition ==
  /\ \A s \in Segments : ~(acquiring[s] /\ transferring[s])
  /\ \A s, t \in Segments : acquiring[s] /\ acquiring[t] => s = t

\* An acquisition that ends by itself leaves no interrupt to the next one: the
\* module samples on until it is disarmed, and the loop of sis3300_irq_work()
\* clears whatever that raised before it gives the lock back.
OnlyCancelsRace == raced => cancels > 0

\* Nobody but the acquiring segment has the module armed: no acquisition goes
\* on that nobody ends or cancels.  raced is the exception: sis3300_acq_start()
\* runs without the lock, and a cancel, or the interrupt that a cancelled
\* acquisition left, may end the acquisition before the module is armed (see
\* the README).
ArmedIsAcquiring ==
  ~raced /\ dev.armed # None => acquiring[dev.armed]

\* "No need to acquire the lock because the segment is in the 'acquiring' state"
\* (sis3300.c:587): while sis3300_acq_start() runs its segment is.
StartIsAcquiring ==
  \A c \in Callers : pc[c] \in {"prepare", "arm"} => acquiring[me[c].segment]

\* What a fetch copies to the user comes from one acquisition, the last one of
\* the segment, however caches survive failed fetches, and the bank it comes from
\* is not being filled.
FetchIsFresh ==
  ~raced =>
    \A c \in Callers :
      LET s == me[c].segment IN
      /\ pc[c] \in Fetching => dev.armed # s
      /\ pc[c] = "copy" =>
           /\ events[s] = bank[s].acq
           /\ sampcache[s][me[c].group] = bank[s].acq
           /\ prevticks[s] = bank[s].acq

\* The events a segment claims are complete in its bank: the interrupt and the
\* cancel read the counter before the state, and the module goes on meanwhile.
\* The one exception is the -1 of a cancel that saw no event (see the README).
EventsAreComplete ==
  ~raced =>
    \A s \in Segments :
      ~acquiring[s] => nr_events[s] <= bank[s].full \/ nr_events[s] = Wrap - 1

\* "we know that all the events up to that one have already been acquired, and we
\* note that value in segment->nr_events" (sis3300.c:656): without the exception.
CancelNotesAcquired ==
  ~raced => \A s \in Segments : ~acquiring[s] => nr_events[s] <= bank[s].full

\* As long as no cancel has raced with a start and triggers keep coming, whoever
\* waits for an acquisition stops waiting, with no signal and no timeout: of the
\* interrupts between the module, its status bits and the loop of
\* sis3300_irq_work() at least the last one that fits the bank arrives.
EveryWaitReturns ==
  []~raced => \A c \in Callers : pc[c] \in Waiting ~> pc[c] \notin Waiting

\* "every time we receive an 'event acquired' interrupt, we check the EV_COUNTER
\* register, and when we have gone beyond the requested number of events we stop
\* the acquisition" (sis3300.c:738): without a race, an acquisition that has all
\* the events it asked for is stopped.
RequestedStops ==
  []~raced => \A s \in Segments :
    (acquiring[s] /\ dev.armed = s /\ bank[s].full > 0 /\ bank[s].full >= req_events)
      ~> ~acquiring[s]
=============================================================================

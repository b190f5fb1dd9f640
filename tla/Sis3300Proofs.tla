---------------------------- MODULE Sis3300Proofs ---------------------------
(***************************************************************************)
(* Proofs about Sis3300: acquiring and fetching exclude each other, an     *)
(* acquisition that nobody cancels leaves nothing behind, a fetch returns  *)
(* one acquisition, and the events that a segment claims are complete; for *)
(* any number of callers, segments, groups and events.                     *)
(***************************************************************************)
EXTENDS Sis3300, TLAPS

\* card->lock is held across steps by the work and by a cancel, and a cancel
\* has something to cancel.
LockInv ==
  /\ work.at # "idle" <=> lock = "work"
  /\ cancel.at # "idle" <=> lock = "cancel"
  /\ cancel.at # "idle" => cancels > 0 /\ acquiring[curr_segment]

\* What sis3300_irq_work() knows from the status it has read.
StatusInv ==
  /\ work.at = "counter" => work.ev \/ work.lev
  /\ work.at = "last" => work.lev

\* Only the current segment is acquired, and only an armed module samples.
CurrentInv ==
  /\ \A s \in Segments : acquiring[s] => s = curr_segment
  /\ dev.busy => dev.armed # None

\* Each fetch has claimed a segment of its own.
ClaimInv ==
  /\ \A c \in Callers : pc[c] \in Fetching => transferring[me[c].segment]
  /\ \A c, d \in Callers :
       pc[c] \in Fetching /\ pc[d] \in Fetching /\ c # d => me[c].segment # me[d].segment

\* Unless there has been a race, a start is alone with the module until it has
\* armed it, and an acquisition has the module armed from then on.
StartInv ==
  ~raced =>
    /\ \A c \in Callers : pc[c] \in Starting =>
         /\ acquiring[curr_segment] /\ dev.armed = None /\ ~dev.ev /\ ~dev.lev
         /\ cancel.at = "idle" /\ work.at \in {"idle", "status"}
    /\ \A c, d \in Callers : pc[c] \in Starting /\ pc[d] \in Starting => c = d
    /\ acquiring[curr_segment] =>
         dev.armed = curr_segment \/ \E c \in Callers : pc[c] \in Starting
    /\ dev.armed # None => acquiring[dev.armed]

\* Before the first cancel, the work leaves no interrupt behind.
RaceInv ==
  cancels = 0 =>
    /\ ~raced
    /\ work.at = "idle" /\ ~acquiring[curr_segment] => ~dev.ev /\ ~dev.lev

\* A cache is empty or holds the acquisition of its bank.
CacheInv ==
  ~raced =>
    /\ \A s \in Segments :
         /\ events[s] \in {0, bank[s].acq} /\ prevticks[s] \in {0, bank[s].acq}
         /\ \A g \in Groups : sampcache[s][g] \in {0, bank[s].acq}
    /\ \A c \in Callers : pc[c] = "arm" =>
         /\ events[curr_segment] = 0 /\ prevticks[curr_segment] = 0
         /\ \A g \in Groups : sampcache[curr_segment][g] = 0
    /\ \A c \in Callers :
         LET s == me[c].segment IN
         /\ pc[c] \in {"samples", "ticks", "copy"} => events[s] = bank[s].acq
         /\ pc[c] \in {"ticks", "copy"} => sampcache[s][me[c].group] = bank[s].acq
         /\ pc[c] = "copy" => prevticks[s] = bank[s].acq

\* The events that are complete, given the counter and then whether the module
\* samples.
Complete(counter, busy) == IF busy THEN counter - 1 ELSE counter

\* What has been read of a bank that is being filled is a lower bound of what
\* is in it.
CountInv ==
  ~raced =>
    /\ dev.armed # None =>
         bank[dev.armed].full = Complete(bank[dev.armed].counter, dev.busy)
    /\ acquiring[curr_segment] =>
         /\ dev.lev => bank[curr_segment].full = BankEvents
         /\ work.at \in {"counter", "clear", "busy", "judge", "last"} /\ work.lev =>
              bank[curr_segment].full = BankEvents
         /\ work.at \in {"clear", "busy"} => work.counter <= bank[curr_segment].counter
         /\ work.at = "judge" => Complete(work.counter, work.busy) <= bank[curr_segment].full
         /\ cancel.at = "busy" => cancel.counter <= bank[curr_segment].counter
         /\ cancel.at = "finish" =>
              Complete(cancel.counter, cancel.busy) <= bank[curr_segment].full

\* The inductive invariant.
IInv ==
  /\ TypeOK /\ LockInv /\ StatusInv /\ CurrentInv /\ ClaimInv
  /\ FetchExcludesAcquisition /\ StartInv /\ RaceInv
  /\ CacheInv /\ CountInv /\ EventsAreComplete

-----------------------------------------------------------------------------
(* Arithmetic and types.                                                   *)

\* Unsigned numbers: what fits is kept, and -1 is the largest number.
LEMMA WrapProperties ==
  ASSUME NEW x \in Int, -1 <= x, x < Wrap
  PROVE  /\ x % Wrap \in 0 .. Wrap - 1
         /\ x >= 0 => x % Wrap = x
         /\ x = -1 => x % Wrap = Wrap - 1
BY Sis3300Assumption

\* The types of the records that steps change field by field.
PCType == {"idle", "relock"} \cup Starting \cup Fetching \cup Waiting
MeType == [segment : Segments, group : Groups, wait : BOOLEAN, acq : 0 .. MaxAcqs]
WorkType == [queued : BOOLEAN,
             at : {"idle", "status", "counter", "clear", "busy", "judge", "last"},
             ev : BOOLEAN, lev : BOOLEAN, counter : 0 .. BankEvents, busy : BOOLEAN]
CancelType == [at : {"idle", "busy", "finish"}, counter : 0 .. BankEvents,
               busy : BOOLEAN]
BankType == [acq : 0 .. MaxAcqs, counter : 0 .. BankEvents, full : 0 .. BankEvents]
DevType == [armed : Segments \cup {None}, busy : BOOLEAN, mev : BOOLEAN,
            ev : BOOLEAN, lev : BOOLEAN, enEv : BOOLEAN, enLev : BOOLEAN]

\* The type invariant, in the parts that steps change together.
LEMMA TypeParts ==
  TypeOK <=>
    /\ lock \in {None, "work", "cancel"}
    /\ acquiring \in [Segments -> BOOLEAN] /\ transferring \in [Segments -> BOOLEAN]
    /\ nr_events \in [Segments -> 0 .. Wrap - 1]
    /\ events \in [Segments -> 0 .. MaxAcqs]
    /\ sampcache \in [Segments -> [Groups -> 0 .. MaxAcqs]]
    /\ prevticks \in [Segments -> 0 .. MaxAcqs]
    /\ curr_segment \in Segments /\ req_events \in Requests \cup {0} /\ done \in BOOLEAN
    /\ pc \in [Callers -> PCType] /\ me \in [Callers -> MeType]
    /\ work \in WorkType /\ cancel \in CancelType
    /\ bank \in [Segments -> BankType] /\ dev \in DevType
    /\ acqs \in 0 .. MaxAcqs /\ cancels \in 0 .. MaxCancels /\ raced \in BOOLEAN
BY DEF TypeOK, PCType, MeType, WorkType, CancelType, BankType, DevType

\* The module after its installation is of the right type.
LEMMA InitType == Init => TypeOK
<1> SUFFICES ASSUME Init PROVE TypeOK
  OBVIOUS
<1>1. curr_segment \in Segments /\ Outside \in MeType
  BY Sis3300Assumption DEF Init, Outside, MeType
<1>2. work \in WorkType /\ cancel \in CancelType /\ dev \in DevType
  BY Sis3300Assumption DEF Init, WorkType, CancelType, DevType, Resting, NoCancel
<1>3. pc \in [Callers -> PCType] /\ me \in [Callers -> MeType]
  BY <1>1 DEF Init, PCType
<1>4. bank \in [Segments -> BankType] /\ nr_events \in [Segments -> 0 .. Wrap - 1]
  BY Sis3300Assumption DEF Init, BankType
<1>5. /\ events \in [Segments -> 0 .. MaxAcqs] /\ prevticks \in [Segments -> 0 .. MaxAcqs]
      /\ sampcache \in [Segments -> [Groups -> 0 .. MaxAcqs]]
      /\ acqs \in 0 .. MaxAcqs /\ cancels \in 0 .. MaxCancels
      /\ req_events \in Requests \cup {0} /\ lock \in {None, "work", "cancel"}
  BY Sis3300Assumption DEF Init
<1>6. /\ acquiring \in [Segments -> BOOLEAN] /\ transferring \in [Segments -> BOOLEAN]
      /\ done \in BOOLEAN /\ raced \in BOOLEAN
  BY Zenon DEF Init
<1> QED
  BY <1>1, <1>2, <1>3, <1>4, <1>5, <1>6, TypeParts

\* The module's steps keep the types.
LEMMA DeviceType ==
  ASSUME TypeOK, CurrentInv, Device
  PROVE  TypeOK'
<1>t. /\ bank \in [Segments -> BankType] /\ dev \in DevType /\ work \in WorkType
  BY TypeParts
<1> USE Sis3300Assumption DEF seg, caches, card, counts
<1>1. CASE SampleStart
  <2>1. /\ dev.armed \in Segments /\ bank[dev.armed].counter + 1 \in 0 .. BankEvents
        /\ dev' = [dev EXCEPT !.busy = TRUE]
        /\ bank' = [bank EXCEPT ![dev.armed].counter = @ + 1]
    BY <1>t, <1>1 DEF SampleStart, DevType, BankType
  <2>2. dev' \in DevType
    BY <1>t, <2>1 DEF DevType
  <2>3. bank' \in [Segments -> BankType]
    BY <1>t, <2>1 DEF BankType
  <2> QED
    BY <1>1, <2>2, <2>3 DEF SampleStart, TypeOK, BankType, DevType
<1>2. CASE SampleStop
  <2>1. dev.armed \in Segments
    BY <1>t, <1>2 DEF SampleStop, DevType, CurrentInv
  <2>2. bank' \in [Segments -> BankType]
    BY <1>t, <1>2, <2>1 DEF SampleStop, BankType
  <2>3. dev' \in DevType
    BY <1>t, <1>2 DEF SampleStop, DevType
  <2> QED
    BY <1>2, <2>2, <2>3 DEF SampleStop, TypeOK, BankType, DevType
<1>3. CASE Irq
  <2>1. work' \in WorkType
    BY <1>t, <1>3 DEF Irq, WorkType
  <2>2. dev' \in DevType
    BY <1>t, <1>3 DEF Irq, DevType
  <2> QED
    BY <1>3, <2>1, <2>2 DEF Irq, TypeOK, WorkType, DevType
<1> QED
  BY <1>1, <1>2, <1>3 DEF Device

\* The end of an acquisition, and of a turn that ends none.
LEMMA FinishType ==
  ASSUME TypeOK, NEW n \in 0 .. Wrap - 1, NEW module \in DevType,
         Finish(n, module) \/ NoFinish(module)
  PROVE  /\ dev' \in DevType /\ done' \in BOOLEAN
         /\ acquiring' \in [Segments -> BOOLEAN] /\ nr_events' \in [Segments -> 0 .. Wrap - 1]
<1>1. CASE Finish(n, module)
  <2>1. dev' \in DevType
    BY <1>1 DEF Finish, DevType
  <2>2. acquiring' \in [Segments -> BOOLEAN] /\ nr_events' \in [Segments -> 0 .. Wrap - 1]
    BY <1>1 DEF Finish, TypeOK
  <2>3. done' \in BOOLEAN
    BY <1>1, Zenon DEF Finish
  <2> QED
    BY <2>1, <2>2, <2>3
<1>2. CASE NoFinish(module)
  BY <1>2 DEF NoFinish, TypeOK
<1> QED
  BY <1>1, <1>2

\* The steps of the work and of a cancel keep the types.
LEMMA WorkTypes ==
  ASSUME TypeOK, WorkLock \/ Work \/ CancelLock \/ Cancel
  PROVE  TypeOK'
<1>t. /\ bank \in [Segments -> BankType] /\ dev \in DevType /\ work \in WorkType
      /\ cancel \in CancelType /\ curr_segment \in Segments
      /\ req_events \in Requests \cup {0}
  BY TypeParts
<1> USE Sis3300Assumption DEF seg, caches, card, counts
<1>1. CASE WorkLock
  <2>1. work' \in WorkType
    BY <1>t, <1>1 DEF WorkLock, WorkType
  <2> QED
    BY <1>1, <2>1 DEF WorkLock, TypeOK, WorkType
<1>2. CASE WorkStatus
  <2>1. work' \in WorkType
    <3>1. CASE dev.ev \/ dev.lev
      BY <1>t, <1>2, <3>1 DEF WorkStatus, WorkType, DevType
    <3>2. CASE ~(dev.ev \/ dev.lev)
      <4>1. work' = [Resting EXCEPT !.queued = work.queued]
        BY <1>2, <3>2 DEF WorkStatus
      <4> DEFINE q == work.queued
      <4>2. q \in BOOLEAN /\ 0 \in 0 .. BankEvents
        BY <1>t DEF WorkType
      <4>3. work' = [queued |-> q, at |-> "idle", ev |-> FALSE, lev |-> FALSE,
                     counter |-> 0, busy |-> FALSE]
        BY <4>1 DEF Resting
      <4> HIDE DEF q
      <4> QED
        BY <4>2, <4>3 DEF WorkType
    <3> QED
      BY <3>1, <3>2
  <2> QED
    BY <1>2, <2>1 DEF WorkStatus, TypeOK, WorkType
<1>3. CASE WorkCounter
  <2>1. work' \in WorkType
    BY <1>t, <1>3 DEF WorkCounter, WorkType, BankType
  <2> QED
    BY <1>3, <2>1 DEF WorkCounter, TypeOK, WorkType
<1>4. CASE WorkClear
  <2>1. work' \in WorkType /\ dev' \in DevType
    BY <1>t, <1>4 DEF WorkClear, WorkType, DevType
  <2> QED
    BY <1>4, <2>1 DEF WorkClear, TypeOK, WorkType, DevType
<1>5. CASE WorkBusy
  <2>1. work' \in WorkType
    BY <1>t, <1>5 DEF WorkBusy, WorkType, DevType
  <2> QED
    BY <1>5, <2>1 DEF WorkBusy, TypeOK, WorkType
<1>6. CASE WorkJudge
  <2> DEFINE enabled == [dev EXCEPT !.enEv = TRUE]
  <2>1. work' \in WorkType /\ enabled \in DevType
    BY <1>t, <1>6 DEF WorkJudge, WorkType, DevType
  <2>2. NoFinish(enabled) \/ (Finish(req_events, enabled) /\ req_events \in 0 .. Wrap - 1)
    <3>1. work.counter \in 0 .. BankEvents /\ req_events \in Nat
      BY <1>t DEF WorkType
    <3> QED
      BY <1>6, <3>1 DEF WorkJudge
  <2> HIDE DEF enabled
  <2>3. /\ dev' \in DevType /\ done' \in BOOLEAN
        /\ acquiring' \in [Segments -> BOOLEAN] /\ nr_events' \in [Segments -> 0 .. Wrap - 1]
    <3>1. 0 \in 0 .. Wrap - 1
      OBVIOUS
    <3> QED
      BY <2>1, <2>2, <3>1, FinishType
  <2> QED
    BY <1>6, <2>1, <2>3 DEF WorkJudge, TypeOK, WorkType, DevType
<1>7. CASE WorkLast
  <2> DEFINE enabled == [dev EXCEPT !.lev = FALSE, !.enLev = TRUE]
  <2>1. work' \in WorkType /\ enabled \in DevType /\ work.counter \in 0 .. Wrap - 1
    <3>1. enabled \in DevType
      BY <1>t DEF DevType
    <3>2. work' \in WorkType
      BY <1>t, <1>7 DEF WorkLast, WorkType
    <3>3. work.counter \in 0 .. Wrap - 1
      BY <1>t DEF WorkType
    <3> QED
      BY <3>1, <3>2, <3>3
  <2>2. NoFinish(enabled) \/ Finish(work.counter, enabled)
    BY <1>7 DEF WorkLast
  <2> HIDE DEF enabled
  <2>3. /\ dev' \in DevType /\ done' \in BOOLEAN
        /\ acquiring' \in [Segments -> BOOLEAN] /\ nr_events' \in [Segments -> 0 .. Wrap - 1]
    BY <2>1, <2>2, FinishType
  <2> QED
    BY <1>7, <2>1, <2>3 DEF WorkLast, TypeOK, WorkType, DevType
<1>8. CASE CancelLock
  <2>1. cancel' \in CancelType
    BY <1>t, <1>8 DEF CancelLock, CancelType, BankType
  <2>2. raced' \in BOOLEAN
    BY <1>8, Zenon DEF CancelLock
  <2> QED
    BY <1>8, <2>1, <2>2 DEF CancelLock, TypeOK, CancelType
<1>9. CASE CancelBusy
  <2>1. cancel' \in CancelType
    BY <1>t, <1>9 DEF CancelBusy, CancelType, DevType
  <2> QED
    BY <1>9, <2>1 DEF CancelBusy, TypeOK, CancelType
<1>10. CASE CancelFinish
  <2> DEFINE x == IF cancel.busy THEN cancel.counter - 1 ELSE cancel.counter
  <2>1. x \in Int /\ -1 <= x /\ x < Wrap
    BY <1>t DEF CancelType
  <2>2. Finish(x % Wrap, dev)
    BY <1>10 DEF CancelFinish
  <2> HIDE DEF x
  <2>3. /\ dev' \in DevType /\ done' \in BOOLEAN
        /\ acquiring' \in [Segments -> BOOLEAN] /\ nr_events' \in [Segments -> 0 .. Wrap - 1]
    BY <1>t, <2>1, <2>2, FinishType, WrapProperties
  <2>4. cancel' \in CancelType /\ lock' = None
    BY <1>10 DEF CancelFinish, NoCancel, CancelType
  <2> QED
    BY <1>10, <2>3, <2>4 DEF CancelFinish, TypeOK, CancelType, DevType
<1> QED
  BY <1>1, <1>2, <1>3, <1>4, <1>5, <1>6, <1>7, <1>8, <1>9, <1>10 DEF Work, Cancel

\* The steps of a caller.
CallerStep(c) ==
  \/ \E s \in Segments, n \in Requests, wait \in BOOLEAN : AcqStart(c, s, n, wait)
  \/ \E s \in Segments, g \in Groups : FetchLock(c, s, g)
  \/ Step(c)
  \/ Relock(c)
  \/ WaitInterrupted(c)

\* They keep the types.
LEMMA CallerType ==
  ASSUME TypeOK, NEW c \in Callers, CallerStep(c)
  PROVE  TypeOK'
<1>t. /\ bank \in [Segments -> BankType] /\ dev \in DevType /\ me \in [Callers -> MeType]
      /\ pc \in [Callers -> PCType] /\ curr_segment \in Segments
      /\ events \in [Segments -> 0 .. MaxAcqs] /\ prevticks \in [Segments -> 0 .. MaxAcqs]
      /\ sampcache \in [Segments -> [Groups -> 0 .. MaxAcqs]]
      /\ acqs \in 0 .. MaxAcqs /\ MaxAcqs \in Nat /\ BankEvents \in Nat
      /\ transferring \in [Segments -> BOOLEAN]
  BY TypeParts, Sis3300Assumption
<1>o. Outside \in MeType
  BY Sis3300Assumption DEF Outside, MeType
<1>s. me[c].segment \in Segments /\ me[c].group \in Groups /\ me[c].acq \in 0 .. MaxAcqs
  BY <1>t DEF MeType
<1>r. Return(c) => pc' \in [Callers -> PCType] /\ me' \in [Callers -> MeType]
  BY <1>t, <1>o DEF Return, PCType
<1>c. \A x \in 0 .. MaxAcqs, s \in Segments : Cached(x, s) \in 0 .. MaxAcqs
  BY <1>t DEF Cached, BankType
<1> USE DEF seg, caches, card, counts
<1>1. ASSUME NEW s \in Segments, NEW n \in Requests, NEW wait \in BOOLEAN,
             AcqStart(c, s, n, wait)
      PROVE  TypeOK'
  <2>1. acqs' \in 0 .. MaxAcqs /\ acqs' = acqs + 1
    BY <1>t, <1>1 DEF AcqStart
  <2>2. me' \in [Callers -> MeType]
    BY <1>t, <1>1, <2>1 DEF AcqStart, MeType
  <2>3. pc' \in [Callers -> PCType]
    BY <1>t, <1>1 DEF AcqStart, PCType, Starting
  <2>4. dev' \in DevType
    <3> DEFINE b == (n # 1)
    <3>1. dev' = [dev EXCEPT !.mev = b] /\ b \in BOOLEAN
      BY <1>1 DEF AcqStart
    <3> HIDE DEF b
    <3> QED
      BY <1>t, <3>1 DEF DevType
  <2>5. raced' \in BOOLEAN
    BY <1>1, Zenon DEF AcqStart
  <2>6. acquiring' \in [Segments -> BOOLEAN]
    BY <1>1 DEF AcqStart, TypeOK
  <2> QED
    BY <1>1, <2>1, <2>2, <2>3, <2>4, <2>5, <2>6, TypeParts DEF AcqStart, TypeOK, MeType, PCType, DevType
<1>2. CASE Prepare(c)
  <2>1. pc' \in [Callers -> PCType]
    BY <1>t, <1>2 DEF Prepare, PCType, Starting
  <2>2. /\ events' \in [Segments -> 0 .. MaxAcqs] /\ prevticks' \in [Segments -> 0 .. MaxAcqs]
        /\ sampcache' \in [Segments -> [Groups -> 0 .. MaxAcqs]]
    BY <1>t, <1>2 DEF Prepare
  <2>3. done' \in BOOLEAN
    BY <1>2, Zenon DEF Prepare
  <2> QED
    BY <1>2, <2>1, <2>2, <2>3 DEF Prepare, TypeOK, PCType
<1>3. CASE Arm(c)
  <2>1. dev' \in DevType
    BY <1>t, <1>3 DEF Arm, DevType
  <2>2. bank' \in [Segments -> BankType]
    BY <1>t, <1>s, <1>3 DEF Arm, BankType
  <2>3. pc' \in [Callers -> PCType] /\ me' \in [Callers -> MeType]
    BY <1>t, <1>r, <1>3 DEF Arm, PCType, Waiting
  <2> QED
    BY <1>3, <2>1, <2>2, <2>3 DEF Arm, TypeOK, PCType, MeType, BankType, DevType
<1>4. CASE WaitDone(c)
  <2>1. pc' \in [Callers -> PCType] /\ me' \in [Callers -> MeType]
    BY <1>t, <1>r, <1>4 DEF WaitDone, PCType
  <2> QED
    BY <1>4, <2>1 DEF WaitDone, TypeOK, PCType, MeType
<1>5. CASE WaitInterrupted(c)
  BY <1>r, <1>5 DEF WaitInterrupted, TypeOK, PCType, MeType
<1>6. ASSUME NEW s \in Segments, NEW g \in Groups, FetchLock(c, s, g) PROVE TypeOK'
  <2>1. pc' \in [Callers -> PCType]
    BY <1>t, <1>6 DEF FetchLock, Claim, PCType, Waiting, Fetching
  <2>2. me' \in [Callers -> MeType]
    BY <1>t, <1>6 DEF FetchLock, MeType
  <2>3. transferring' \in [Segments -> BOOLEAN]
    BY <1>t, <1>6 DEF FetchLock, Claim
  <2> QED
    BY <1>6, <2>1, <2>2, <2>3 DEF FetchLock, TypeOK, PCType, MeType
<1>7. CASE Relock(c)
  <2>1. pc' \in [Callers -> PCType] /\ me' \in [Callers -> MeType]
    BY <1>t, <1>r, <1>7 DEF Relock, Claim, PCType, Fetching
  <2>2. transferring' \in [Segments -> BOOLEAN]
    BY <1>t, <1>7 DEF Relock, Claim
  <2> QED
    BY <1>7, <2>1, <2>2 DEF Relock, TypeOK, PCType, MeType
<1>8. CASE GetEvents(c)
  <2>1. pc' \in [Callers -> PCType]
    BY <1>t, <1>8 DEF GetEvents, PCType, Fetching
  <2>2. events' \in [Segments -> 0 .. MaxAcqs]
    BY <1>t, <1>s, <1>c, <1>8 DEF GetEvents
  <2> QED
    BY <1>8, <2>1, <2>2 DEF GetEvents, TypeOK, PCType
<1>9. CASE GetSamples(c)
  <2>1. pc' \in [Callers -> PCType]
    BY <1>t, <1>9 DEF GetSamples, PCType, Fetching
  <2>2. sampcache' \in [Segments -> [Groups -> 0 .. MaxAcqs]]
    BY <1>t, <1>s, <1>c, <1>9 DEF GetSamples
  <2> QED
    BY <1>9, <2>1, <2>2 DEF GetSamples, TypeOK, PCType
<1>10. CASE GetTicks(c)
  <2>1. pc' \in [Callers -> PCType]
    BY <1>t, <1>10 DEF GetTicks, PCType, Fetching
  <2>2. prevticks' \in [Segments -> 0 .. MaxAcqs]
    BY <1>t, <1>s, <1>c, <1>10 DEF GetTicks
  <2> QED
    BY <1>10, <2>1, <2>2 DEF GetTicks, TypeOK, PCType
<1>11. CASE FetchEnd(c)
  <2>1. transferring' \in [Segments -> BOOLEAN]
    BY <1>t, <1>11 DEF FetchEnd
  <2> QED
    BY <1>r, <1>11, <2>1 DEF FetchEnd, TypeOK, PCType, MeType
<1> QED
  BY <1>1, <1>2, <1>3, <1>4, <1>5, <1>6, <1>7, <1>8, <1>9, <1>10, <1>11
  DEF CallerStep, Step

-----------------------------------------------------------------------------
(* Which parts of the invariant a step can disturb.                        *)

\* The invariant in three parts: of the module and card->lock, of the banks,
\* and of the callers.
ModuleInv == LockInv /\ StatusInv /\ CurrentInv /\ StartInv /\ RaceInv
BankInv == CountInv /\ EventsAreComplete
CallersInv == ClaimInv /\ FetchExcludesAcquisition /\ CacheInv

\* The parts together are the invariant.
LEMMA Parts == IInv <=> TypeOK /\ ModuleInv /\ BankInv /\ CallersInv
BY DEF IInv, ModuleInv, BankInv, CallersInv

\* A step of the module, of the work or of a cancel starts no acquisition and
\* does not move the callers: what they know stays true.
LEMMA CallersFrame ==
  ASSUME CallersInv, UNCHANGED <<transferring, pc, me, curr_segment, caches>>,
         \A s \in Segments : acquiring'[s] => acquiring[s],
         \A s \in Segments : bank'[s].acq = bank[s].acq,
         TypeOK, raced => raced'
  PROVE  CallersInv'
<1>1. ClaimInv' /\ FetchExcludesAcquisition'
  BY DEF CallersInv, ClaimInv, FetchExcludesAcquisition
<1>2. CacheInv'
  <2> SUFFICES ASSUME ~raced PROVE CacheInv'
    BY DEF CacheInv
  <2>1. CacheInv /\ \A c \in Callers : me[c].segment \in Segments
    BY TypeParts DEF CallersInv, MeType
  <2> QED
    BY <2>1 DEF CacheInv, caches
<1> QED
  BY <1>1, <1>2 DEF CallersInv

\* A caller that is not starting an acquisition, and does not begin one, does
\* not touch the module nor the banks.
LEMMA ModuleFrame ==
  ASSUME ModuleInv, BankInv,
         UNCHANGED <<lock, acquiring, nr_events, curr_segment, work, cancel, bank, dev, counts>>,
         \A c \in Callers : pc'[c] \in Starting <=> pc[c] \in Starting
  PROVE  ModuleInv' /\ BankInv'
<1>1. LockInv' /\ StatusInv' /\ CurrentInv'
  BY DEF ModuleInv, LockInv, StatusInv, CurrentInv, counts
<1>2. StartInv'
  BY DEF ModuleInv, StartInv, counts
<1>3. RaceInv'
  BY DEF ModuleInv, RaceInv, counts
<1>4. BankInv'
  BY DEF BankInv, CountInv, EventsAreComplete, counts
<1> QED
  BY <1>1, <1>2, <1>3, <1>4 DEF ModuleInv

-----------------------------------------------------------------------------
(* The module.                                                             *)

\* What the module does by itself, sampling and raising interrupts, disturbs no
\* part of the invariant.
LEMMA DeviceKeeps ==
  ASSUME IInv, Device
  PROVE  ModuleInv' /\ BankInv' /\ CallersInv'
<1>t. /\ bank \in [Segments -> BankType] /\ dev \in DevType /\ work \in WorkType
      /\ curr_segment \in Segments /\ BankEvents \in Nat /\ TypeOK
  BY TypeParts, Sis3300Assumption DEF IInv
<1>i. /\ LockInv /\ StatusInv /\ CurrentInv /\ StartInv /\ RaceInv /\ CountInv
      /\ EventsAreComplete /\ CallersInv
  BY Parts DEF ModuleInv, BankInv
<1>u. /\ UNCHANGED <<lock, acquiring, transferring, nr_events, pc, me, curr_segment>>
      /\ UNCHANGED <<cancel, counts, caches>>
  BY DEF Device, SampleStart, SampleStop, Irq, seg, card
<1> USE DEF counts
<1>1. CASE SampleStart
  <2>1. /\ dev.armed \in Segments /\ ~dev.busy /\ dev'.busy /\ work' = work
        /\ dev'.armed = dev.armed /\ dev'.ev = dev.ev /\ dev'.lev = dev.lev
        /\ bank'[dev.armed].counter = bank[dev.armed].counter + 1
        /\ bank[dev.armed].counter < BankEvents
        /\ \A s \in Segments :
             /\ bank'[s].acq = bank[s].acq /\ bank'[s].full = bank[s].full
             /\ s # dev.armed => bank'[s].counter = bank[s].counter
    BY <1>t, <1>1, Sis3300Assumption DEF SampleStart, DevType, BankType
  <2>2. LockInv' /\ StatusInv' /\ CurrentInv'
    BY <1>i, <1>u, <2>1, Sis3300Assumption DEF LockInv, StatusInv, CurrentInv
  <2>3. StartInv' /\ RaceInv'
    BY <1>i, <1>u, <2>1 DEF StartInv, RaceInv
  <2>4. CountInv'
    <3>1. /\ \A s \in Segments : bank[s].counter \in Nat /\ bank[s].full \in Nat
          /\ work.counter \in Nat /\ cancel.counter \in Nat
      BY <1>t, TypeParts DEF BankType, WorkType, CancelType
    <3> QED
      BY <1>t, <1>i, <1>u, <2>1, <3>1 DEF CountInv, Complete
  <2>5. EventsAreComplete'
    BY <1>i, <1>u, <2>1 DEF EventsAreComplete
  <2>6. CallersInv'
    BY <1>t, <1>i, <1>u, <2>1, CallersFrame
  <2> QED
    BY <2>2, <2>3, <2>4, <2>5, <2>6 DEF ModuleInv, BankInv
<1>2. CASE SampleStop
  <2>1. /\ dev.armed \in Segments /\ dev.busy /\ ~dev'.busy /\ work' = work
        /\ dev'.armed = dev.armed
        /\ dev'.lev => dev.lev \/ bank[dev.armed].counter = BankEvents
        /\ bank'[dev.armed].full = bank[dev.armed].counter
        /\ \A s \in Segments :
             /\ bank'[s].acq = bank[s].acq /\ bank'[s].counter = bank[s].counter
             /\ s # dev.armed => bank'[s].full = bank[s].full
    BY <1>t, <1>i, <1>2, Sis3300Assumption DEF SampleStop, DevType, BankType, CurrentInv
  <2>2. LockInv' /\ StatusInv' /\ CurrentInv'
    BY <1>i, <1>u, <2>1, Sis3300Assumption DEF LockInv, StatusInv, CurrentInv
  <2>a. ~raced => acquiring[dev.armed] /\ dev.armed = curr_segment
    BY <1>i, <2>1, Sis3300Assumption DEF StartInv, CurrentInv
  <2>b. dev.armed # None
    BY <2>1, Sis3300Assumption
  <2>3. StartInv' /\ RaceInv'
    BY <1>i, <1>u, <2>1, <2>a, <2>b DEF StartInv, RaceInv
  <2>4. CountInv'
    <3>1. /\ \A s \in Segments : bank[s].counter \in 0 .. BankEvents /\ bank[s].full \in Nat
          /\ work.counter \in Nat /\ cancel.counter \in Nat
      BY <1>t, TypeParts DEF BankType, WorkType, CancelType
    <3> QED
      BY <1>t, <1>i, <1>u, <2>1, <2>a, <2>b, <3>1 DEF CountInv, Complete
  <2>5. EventsAreComplete'
    BY <1>i, <1>u, <2>1, <2>a DEF EventsAreComplete
  <2>6. CallersInv'
    BY <1>t, <1>i, <1>u, <2>1, CallersFrame
  <2> QED
    BY <2>2, <2>3, <2>4, <2>5, <2>6 DEF ModuleInv, BankInv
<1>3. CASE Irq
  <2>1. /\ dev'.armed = dev.armed /\ dev'.busy = dev.busy /\ dev'.ev = dev.ev
        /\ dev'.lev = dev.lev /\ bank' = bank
        /\ work'.at = work.at /\ work'.ev = work.ev /\ work'.lev = work.lev
        /\ work'.counter = work.counter /\ work'.busy = work.busy
    BY <1>t, <1>3 DEF Irq, DevType, WorkType
  <2>2. LockInv' /\ StatusInv' /\ CurrentInv'
    BY <1>i, <1>u, <2>1 DEF LockInv, StatusInv, CurrentInv
  <2>3. StartInv' /\ RaceInv'
    BY <1>i, <1>u, <2>1 DEF StartInv, RaceInv
  <2>4. CountInv' /\ EventsAreComplete'
    BY <1>i, <1>u, <2>1 DEF CountInv, EventsAreComplete
  <2>5. CallersInv'
    BY <1>t, <1>i, <1>u, <2>1, CallersFrame
  <2> QED
    BY <2>2, <2>3, <2>4, <2>5 DEF ModuleInv, BankInv
<1> QED
  BY <1>1, <1>2, <1>3 DEF Device

-----------------------------------------------------------------------------
(* The work and the cancel.                                                *)

\* The end of an acquisition: nobody is starting one, the module is disarmed,
\* and what the segment claims is in its bank.
LEMMA FinishKeeps ==
  ASSUME IInv, NEW n \in 0 .. Wrap - 1, NEW module \in DevType, Finish(n, module),
         UNCHANGED <<transferring, caches, curr_segment, pc, me, bank, counts>>,
         ~raced => \A c \in Callers : pc[c] \notin Starting,
         ~raced => n <= bank[curr_segment].full \/ n = Wrap - 1,
         work'.at # "idle" \/ cancels > 0
  PROVE  CurrentInv' /\ StartInv' /\ RaceInv' /\ BankInv' /\ CallersInv'
<1>i. /\ CurrentInv /\ StartInv /\ RaceInv /\ CountInv /\ EventsAreComplete /\ CallersInv
      /\ TypeOK
  BY Parts DEF ModuleInv, BankInv
<1>t. /\ acquiring \in [Segments -> BOOLEAN] /\ nr_events \in [Segments -> 0 .. Wrap - 1]
      /\ curr_segment \in Segments /\ cancels \in Nat
  BY <1>i, TypeParts, Sis3300Assumption
<1>1. /\ ~acquiring'[curr_segment] /\ nr_events'[curr_segment] = n
      /\ \A s \in Segments : s # curr_segment =>
           acquiring'[s] = acquiring[s] /\ nr_events'[s] = nr_events[s]
      /\ dev'.armed = None /\ ~dev'.busy
  BY <1>t DEF Finish, DevType
<1>2. CurrentInv'
  BY <1>i, <1>1 DEF CurrentInv
<1>3. StartInv'
  BY <1>1 DEF StartInv, counts
<1>4. RaceInv'
  BY <1>i, <1>t DEF RaceInv, counts
<1>5. CountInv'
  BY <1>1 DEF CountInv
<1>6. EventsAreComplete'
  BY <1>i, <1>t, <1>1 DEF EventsAreComplete, counts
<1>7. CallersInv'
  BY <1>i, <1>1, CallersFrame DEF counts
<1> QED
  BY <1>2, <1>3, <1>4, <1>5, <1>6, <1>7 DEF BankInv

\* Taking the lock and reading the status.
LEMMA WorkReadsStatus ==
  ASSUME IInv, WorkLock \/ WorkStatus
  PROVE  ModuleInv' /\ BankInv' /\ CallersInv'
<1>t. /\ dev \in DevType /\ work \in WorkType /\ cancel \in CancelType /\ TypeOK
      /\ None \notin {"work", "cancel"}
  BY TypeParts, Sis3300Assumption DEF IInv
<1>i. /\ LockInv /\ StatusInv /\ CurrentInv /\ StartInv /\ RaceInv /\ CountInv
      /\ EventsAreComplete /\ CallersInv
  BY Parts DEF ModuleInv, BankInv
<1>u. /\ UNCHANGED <<acquiring, transferring, nr_events, pc, me, curr_segment>>
      /\ UNCHANGED <<cancel, bank, dev, raced, cancels, caches>>
  BY DEF WorkLock, WorkStatus, seg, card, counts
<1>1. \/ work.at = "idle" /\ lock = None /\ lock' = "work" /\ work'.at = "status"
      \/ work.at = "status" /\ (dev.ev \/ dev.lev) /\ lock' = lock
           /\ work'.at = "counter" /\ work'.ev = dev.ev /\ work'.lev = dev.lev
      \/ work.at = "status" /\ ~dev.ev /\ ~dev.lev /\ lock' = None /\ work'.at = "idle"
  BY <1>t DEF WorkLock, WorkStatus, WorkType, Resting
<1>2. LockInv' /\ StatusInv' /\ CurrentInv'
  BY <1>t, <1>i, <1>u, <1>1 DEF LockInv, StatusInv, CurrentInv
<1>3. StartInv' /\ RaceInv'
  BY <1>i, <1>u, <1>1 DEF StartInv, RaceInv
<1>4. CountInv' /\ EventsAreComplete'
  BY <1>i, <1>u, <1>1 DEF CountInv, EventsAreComplete
<1>5. CallersInv'
  BY <1>t, <1>i, <1>u, CallersFrame
<1> QED
  BY <1>2, <1>3, <1>4, <1>5 DEF ModuleInv, BankInv

\* While the work handles an interrupt, or a cancel is under way, an acquisition
\* that goes on has the module armed.
LEMMA ArmedWhileRead ==
  ASSUME IInv, ~raced, acquiring[curr_segment],
         work.at \notin {"idle", "status"} \/ cancel.at # "idle"
  PROVE  dev.armed = curr_segment
BY DEF IInv, StartInv

\* Reading the counter, clearing the interrupt and reading the state.
LEMMA WorkReadsBank ==
  ASSUME IInv, WorkCounter \/ WorkClear \/ WorkBusy
  PROVE  ModuleInv' /\ BankInv' /\ CallersInv'
<1>t. /\ bank \in [Segments -> BankType] /\ dev \in DevType /\ work \in WorkType
      /\ curr_segment \in Segments /\ TypeOK /\ curr_segment # None
  BY TypeParts, Sis3300Assumption DEF IInv
<1>i. /\ LockInv /\ StatusInv /\ CurrentInv /\ StartInv /\ RaceInv /\ CountInv
      /\ EventsAreComplete /\ CallersInv
  BY Parts DEF ModuleInv, BankInv
<1>u. /\ UNCHANGED <<lock, acquiring, transferring, nr_events, pc, me, curr_segment>>
      /\ UNCHANGED <<cancel, bank, raced, cancels, caches>>
      /\ dev'.armed = dev.armed /\ dev'.busy = dev.busy /\ dev'.lev = dev.lev
      /\ dev'.ev => dev.ev
  BY <1>t DEF WorkCounter, WorkClear, WorkBusy, seg, card, counts, DevType
<1>1. /\ work'.lev = work.lev /\ work'.ev = work.ev
      /\ \/ /\ work.at = "counter" /\ work'.at = IF work.ev THEN "clear" ELSE "last"
            /\ work'.counter = bank[curr_segment].counter
         \/ /\ work.at = "clear" /\ work'.at = "busy" /\ work'.counter = work.counter
         \/ /\ work.at = "busy" /\ work'.at = "judge" /\ work'.counter = work.counter
            /\ work'.busy = dev.busy
  BY <1>t DEF WorkCounter, WorkClear, WorkBusy, WorkType
<1>2. LockInv' /\ StatusInv' /\ CurrentInv'
  BY <1>i, <1>u, <1>1 DEF LockInv, StatusInv, CurrentInv
<1>3. StartInv' /\ RaceInv'
  BY <1>i, <1>u, <1>1 DEF StartInv, RaceInv
<1>4. CountInv'
  <2>1. ~raced /\ acquiring[curr_segment] => dev.armed = curr_segment
    BY <1>1, ArmedWhileRead
  <2>2. bank[curr_segment].counter \in Nat /\ bank[curr_segment].full \in Nat /\ work.counter \in Nat
    BY <1>t DEF BankType, WorkType
  <2> QED
    BY <1>t, <1>i, <1>u, <1>1, <2>1, <2>2 DEF CountInv, Complete
<1>5. EventsAreComplete'
  BY <1>i, <1>u DEF EventsAreComplete
<1>6. CallersInv'
  BY <1>t, <1>i, <1>u, CallersFrame
<1> QED
  BY <1>2, <1>3, <1>4, <1>5, <1>6 DEF ModuleInv, BankInv

\* Ending the acquisition when all its events are there, or when the bank is
\* full, or going on.
LEMMA WorkDecides ==
  ASSUME IInv, WorkJudge \/ WorkLast
  PROVE  ModuleInv' /\ BankInv' /\ CallersInv'
<1>t. /\ bank \in [Segments -> BankType] /\ dev \in DevType /\ work \in WorkType
      /\ curr_segment \in Segments /\ req_events \in Requests \cup {0} /\ TypeOK
  BY TypeParts DEF IInv
<1>i. /\ LockInv /\ StatusInv /\ CurrentInv /\ StartInv /\ RaceInv /\ CountInv
      /\ EventsAreComplete /\ CallersInv
  BY Parts DEF ModuleInv, BankInv
<1>n. /\ req_events \in Nat /\ work.counter \in 0 .. BankEvents /\ BankEvents \in Nat
      /\ Wrap \in Nat /\ BankEvents < Wrap /\ bank[curr_segment].full \in Nat
  BY <1>t, Sis3300Assumption DEF WorkType, BankType
<1>u. /\ UNCHANGED <<lock, transferring, pc, me, curr_segment, cancel, bank, counts, caches>>
      /\ work.at \in {"judge", "last"} /\ work'.at \in {"last", "status"}
      /\ work'.at = "last" => work.at = "judge" /\ work.lev
      /\ work'.ev = work.ev /\ work'.lev = work.lev
  BY <1>t DEF WorkJudge, WorkLast, WorkType
<1>s. ~raced => \A c \in Callers : pc[c] \notin Starting
  BY <1>i, <1>u DEF StartInv
<1>l. LockInv' /\ StatusInv'
  <2>1. cancel.at = "idle"
    BY <1>i, <1>u DEF LockInv
  <2> QED
    BY <1>i, <1>u, <2>1 DEF LockInv, StatusInv
<1>1. ASSUME NEW n \in 0 .. Wrap - 1, NEW module \in DevType, Finish(n, module),
             ~raced => n <= bank[curr_segment].full
      PROVE  ModuleInv' /\ BankInv' /\ CallersInv'
  BY <1>u, <1>s, <1>l, <1>1, FinishKeeps DEF ModuleInv
<1>2. ASSUME NEW module \in DevType, NoFinish(module), module.armed = dev.armed,
             module.busy = dev.busy, module.ev = dev.ev, module.lev => dev.lev
      PROVE  ModuleInv' /\ BankInv' /\ CallersInv'
  <2>1. /\ UNCHANGED <<acquiring, nr_events>> /\ dev'.armed = dev.armed
        /\ dev'.busy = dev.busy /\ dev'.ev = dev.ev /\ (dev'.lev => dev.lev)
    BY <1>2 DEF NoFinish
  <2>2. CurrentInv' /\ StartInv'
    BY <1>i, <1>u, <1>s, <2>1 DEF CurrentInv, StartInv, counts
  <2>3. RaceInv'
    BY <1>i, <1>u DEF RaceInv, counts
  <2>4. BankInv'
    BY <1>i, <1>u, <2>1 DEF BankInv, CountInv, EventsAreComplete, counts
  <2>5. CallersInv'
    BY <1>t, <1>i, <1>u, <2>1, CallersFrame DEF counts
  <2> QED
    BY <1>l, <2>2, <2>3, <2>4, <2>5 DEF ModuleInv
<1>3. CASE WorkJudge
  <2> DEFINE enabled == [dev EXCEPT !.enEv = TRUE]
  <2>1. /\ enabled \in DevType /\ enabled.armed = dev.armed
        /\ enabled.busy = dev.busy /\ enabled.ev = dev.ev /\ enabled.lev = dev.lev
    BY <1>t DEF DevType
  <2>2. \/ NoFinish(enabled)
        \/ /\ Finish(req_events, enabled) /\ acquiring[curr_segment] /\ work.at = "judge"
           /\ work.counter >= IF work.busy THEN req_events + 1 ELSE req_events
    BY <1>3 DEF WorkJudge
  <2> HIDE DEF enabled
  <2>3. CASE NoFinish(enabled)
    BY <1>2, <2>1, <2>3
  <2>4. CASE /\ Finish(req_events, enabled) /\ acquiring[curr_segment] /\ work.at = "judge"
             /\ work.counter >= IF work.busy THEN req_events + 1 ELSE req_events
    <3>1. req_events \in 0 .. Wrap - 1
      BY <1>n, <2>4
    <3>2. ~raced => req_events <= bank[curr_segment].full
      BY <1>i, <1>n, <2>4 DEF CountInv, Complete
    <3> QED
      BY <1>1, <2>1, <2>4, <3>1, <3>2
  <2> QED
    BY <2>2, <2>3, <2>4
<1>4. CASE WorkLast
  <2> DEFINE enabled == [dev EXCEPT !.lev = FALSE, !.enLev = TRUE]
  <2>1. /\ enabled \in DevType /\ enabled.armed = dev.armed
        /\ enabled.busy = dev.busy /\ enabled.ev = dev.ev /\ ~enabled.lev
    BY <1>t DEF DevType
  <2>2. \/ NoFinish(enabled)
        \/ Finish(work.counter, enabled) /\ acquiring[curr_segment] /\ work.at = "last"
    BY <1>4 DEF WorkLast
  <2> HIDE DEF enabled
  <2>3. CASE NoFinish(enabled)
    BY <1>2, <2>1, <2>3
  <2>4. CASE Finish(work.counter, enabled) /\ acquiring[curr_segment] /\ work.at = "last"
    <3>1. work.counter \in 0 .. Wrap - 1
      BY <1>n
    <3>2. ~raced => work.counter <= bank[curr_segment].full
      BY <1>i, <1>n, <2>4 DEF CountInv, StatusInv
    <3> QED
      BY <1>1, <2>1, <2>4, <3>1, <3>2
  <2> QED
    BY <2>2, <2>3, <2>4
<1> QED
  BY <1>3, <1>4

\* A cancel: it takes the lock, reads the state, and ends the acquisition.
LEMMA CancelKeeps ==
  ASSUME IInv, CancelLock \/ Cancel
  PROVE  ModuleInv' /\ BankInv' /\ CallersInv'
<1>t. /\ bank \in [Segments -> BankType] /\ dev \in DevType /\ cancel \in CancelType
      /\ work \in WorkType /\ curr_segment \in Segments /\ curr_segment # None /\ TypeOK
      /\ None \notin {"work", "cancel"} /\ cancels \in Nat
  BY TypeParts, Sis3300Assumption DEF IInv
<1>i. /\ LockInv /\ StatusInv /\ CurrentInv /\ StartInv /\ RaceInv /\ CountInv
      /\ EventsAreComplete /\ CallersInv
  BY Parts DEF ModuleInv, BankInv
<1>n. /\ cancel.counter \in 0 .. BankEvents /\ BankEvents \in Nat
      /\ Wrap \in Nat /\ BankEvents < Wrap /\ bank[curr_segment].full \in Nat
      /\ bank[curr_segment].counter \in Nat
  BY <1>t, Sis3300Assumption DEF CancelType, BankType
<1>1. CASE CancelLock
  <2>1. /\ cancel.at = "idle" /\ lock = None /\ acquiring[curr_segment]
        /\ lock' = "cancel" /\ cancels' = cancels + 1
        /\ cancel'.at = "busy" /\ cancel'.counter = bank[curr_segment].counter
        /\ raced => raced'
        /\ ~raced' => \A c \in Callers : pc[c] \notin Starting
    BY <1>t, <1>1 DEF CancelLock, CancelType
  <2>2. /\ UNCHANGED <<acquiring, transferring, nr_events, pc, me, curr_segment>>
        /\ UNCHANGED <<work, bank, dev, caches>>
    BY <1>1 DEF CancelLock, seg, card
  <2>3. LockInv' /\ StatusInv' /\ CurrentInv'
    BY <1>t, <1>i, <2>1, <2>2 DEF LockInv, StatusInv, CurrentInv
  <2>4. StartInv' /\ RaceInv'
    BY <1>t, <1>i, <2>1, <2>2 DEF StartInv, RaceInv
  <2>5. CountInv' /\ EventsAreComplete'
    BY <1>i, <1>n, <2>1, <2>2 DEF CountInv, EventsAreComplete
  <2>6. CallersInv'
    BY <1>t, <1>i, <2>1, <2>2, CallersFrame
  <2> QED
    BY <2>3, <2>4, <2>5, <2>6 DEF ModuleInv, BankInv
<1>2. CASE CancelBusy
  <2>1. /\ cancel.at = "busy" /\ cancel'.at = "finish"
        /\ cancel'.counter = cancel.counter /\ cancel'.busy = dev.busy
    BY <1>t, <1>2 DEF CancelBusy, CancelType
  <2>2. /\ UNCHANGED <<lock, acquiring, transferring, nr_events, pc, me, curr_segment>>
        /\ UNCHANGED <<work, bank, dev, raced, cancels, caches>>
    BY <1>2 DEF CancelBusy, seg, card, counts
  <2>3. LockInv' /\ StatusInv' /\ CurrentInv'
    BY <1>i, <2>1, <2>2 DEF LockInv, StatusInv, CurrentInv
  <2>4. StartInv' /\ RaceInv'
    BY <1>i, <2>1, <2>2 DEF StartInv, RaceInv
  <2>5. ~raced => dev.armed = curr_segment
    BY <1>i, <2>1, ArmedWhileRead DEF LockInv
  <2>6. CountInv' /\ EventsAreComplete'
    BY <1>t, <1>i, <1>n, <2>1, <2>2, <2>5 DEF CountInv, EventsAreComplete, Complete
  <2>7. CallersInv'
    BY <1>t, <1>i, <2>2, CallersFrame
  <2> QED
    BY <2>3, <2>4, <2>6, <2>7 DEF ModuleInv, BankInv
<1>3. CASE CancelFinish
  <2> DEFINE x == IF cancel.busy THEN cancel.counter - 1 ELSE cancel.counter
  <2>1. /\ x \in Int /\ -1 <= x /\ x < Wrap
        /\ ~raced /\ acquiring[curr_segment] => x <= bank[curr_segment].full
    BY <1>i, <1>n, <1>3 DEF CancelFinish, CountInv, Complete
  <2>2. /\ Finish(x % Wrap, dev) /\ cancel.at = "finish" /\ cancel'.at = "idle" /\ lock' = None
        /\ UNCHANGED <<transferring, caches, curr_segment, pc, me, work, bank, counts>>
    BY <1>3 DEF CancelFinish, NoCancel
  <2> HIDE DEF x
  <2>3. cancels > 0 /\ acquiring[curr_segment] /\ lock = "cancel"
    BY <1>i, <2>2 DEF LockInv
  <2>4. x % Wrap \in 0 .. Wrap - 1 /\ (x % Wrap = x \/ x % Wrap = Wrap - 1)
    <3>1. x >= 0 \/ x = -1
      BY <2>1
    <3> QED
      BY <2>1, <3>1, WrapProperties
  <2>5. ~raced => \A c \in Callers : pc[c] \notin Starting
    BY <1>i, <2>2 DEF StartInv
  <2>6. ~raced => x % Wrap <= bank[curr_segment].full \/ x % Wrap = Wrap - 1
    BY <2>1, <2>3, <2>4
  <2>7. CurrentInv' /\ StartInv' /\ RaceInv' /\ BankInv' /\ CallersInv'
    BY <1>t, <2>2, <2>3, <2>4, <2>5, <2>6, FinishKeeps
  <2>8. LockInv' /\ StatusInv'
    BY <1>t, <1>i, <2>2, <2>3 DEF LockInv, StatusInv
  <2> QED
    BY <2>7, <2>8 DEF ModuleInv
<1> QED
  BY <1>1, <1>2, <1>3 DEF Cancel

-----------------------------------------------------------------------------
(* The callers.                                                            *)

\* A new acquisition: nobody acquires, so nobody is starting and the module is
\* not armed; without a race, no interrupt is left.
LEMMA AcqStartKeeps ==
  ASSUME IInv, NEW c \in Callers, NEW s \in Segments, NEW n \in Requests,
         NEW wait \in BOOLEAN, AcqStart(c, s, n, wait)
  PROVE  ModuleInv' /\ BankInv' /\ CallersInv'
<1>t. /\ acquiring \in [Segments -> BOOLEAN] /\ dev \in DevType /\ curr_segment \in Segments
      /\ pc \in [Callers -> PCType] /\ me \in [Callers -> MeType] /\ TypeOK
      /\ None \notin {"work", "cancel"} \cup Segments
  BY TypeParts, Sis3300Assumption DEF IInv
<1>i. /\ LockInv /\ StatusInv /\ CurrentInv /\ StartInv /\ RaceInv /\ CountInv
      /\ EventsAreComplete /\ ClaimInv /\ FetchExcludesAcquisition /\ CacheInv
  BY DEF IInv
<1>1. /\ pc[c] = "idle" /\ pc'[c] = "prepare" /\ lock = None /\ curr_segment' = s
      /\ \A d \in Callers : d # c => pc'[d] = pc[d] /\ me'[d] = me[d]
      /\ ~transferring[s] /\ \A t \in Segments : ~acquiring[t]
      /\ acquiring'[s] /\ \A t \in Segments : t # s => ~acquiring'[t]
      /\ dev'.armed = dev.armed /\ dev'.busy = dev.busy /\ dev'.ev = dev.ev /\ dev'.lev = dev.lev
      /\ (raced => raced') /\ (~raced' => ~dev.ev /\ ~dev.lev)
      /\ dev.ev \/ dev.lev \/ (raced <=> raced')
  BY <1>t DEF AcqStart, sis33_is_acquiring, DevType
<1>2. UNCHANGED <<lock, transferring, nr_events, caches, work, cancel, bank, cancels>>
  BY DEF AcqStart
<1>3. work.at = "idle" /\ cancel.at = "idle"
  BY <1>t, <1>i, <1>1 DEF LockInv
<1>4. ~raced => dev.armed = None /\ \A d \in Callers : pc[d] \notin Starting
  BY <1>t, <1>i, <1>1 DEF StartInv, DevType
<1>5. LockInv' /\ StatusInv' /\ CurrentInv'
  BY <1>i, <1>1, <1>2, <1>3 DEF LockInv, StatusInv, CurrentInv
<1>6. StartInv'
  BY <1>t, <1>1, <1>2, <1>3, <1>4 DEF StartInv, Starting
<1>7. RaceInv'
  BY <1>t, <1>i, <1>1, <1>2, <1>3 DEF RaceInv
<1>8. CountInv' /\ EventsAreComplete'
  BY <1>i, <1>1, <1>2, <1>3, <1>4 DEF CountInv, EventsAreComplete
<1>9. ClaimInv' /\ FetchExcludesAcquisition'
  BY <1>i, <1>1, <1>2 DEF ClaimInv, FetchExcludesAcquisition, Fetching
<1>10. CacheInv'
  <2> SUFFICES ASSUME ~raced' PROVE CacheInv'
    BY DEF CacheInv
  <2>1. \A d \in Callers : pc[d] # "arm"
    BY <1>1, <1>4 DEF Starting
  <2> QED
    BY <1>i, <1>1, <1>2, <2>1 DEF CacheInv, caches
<1> QED
  BY <1>5, <1>6, <1>7, <1>8, <1>9, <1>10 DEF ModuleInv, BankInv, CallersInv

\* No fetch reads the segment that is being acquired.
LEMMA FetchElsewhere ==
  ASSUME IInv, acquiring[curr_segment], NEW d \in Callers, pc[d] \in Fetching
  PROVE  me[d].segment # curr_segment /\ me[d].segment \in Segments
<1>1. curr_segment \in Segments /\ me[d].segment \in Segments
  BY TypeParts DEF IInv, MeType
<1>2. transferring[me[d].segment] /\ ~(acquiring[curr_segment] /\ transferring[curr_segment])
  BY <1>1 DEF IInv, ClaimInv, FetchExcludesAcquisition
<1> QED
  BY <1>1, <1>2

\* The caches of the segment are dropped.
LEMMA PrepareKeeps ==
  ASSUME IInv, NEW c \in Callers, Prepare(c)
  PROVE  ModuleInv' /\ BankInv' /\ CallersInv'
<1>t. /\ events \in [Segments -> 0 .. MaxAcqs] /\ prevticks \in [Segments -> 0 .. MaxAcqs]
      /\ sampcache \in [Segments -> [Groups -> 0 .. MaxAcqs]] /\ curr_segment \in Segments
      /\ pc \in [Callers -> PCType] /\ me \in [Callers -> MeType]
  BY TypeParts DEF IInv
<1>i. /\ ModuleInv /\ BankInv /\ StartInv /\ ClaimInv /\ FetchExcludesAcquisition /\ CacheInv
  BY Parts DEF IInv
<1>1. /\ pc[c] = "prepare" /\ pc'[c] = "arm"
      /\ \A d \in Callers : d # c => pc'[d] = pc[d]
      /\ events'[curr_segment] = 0 /\ prevticks'[curr_segment] = 0
      /\ \A g \in Groups : sampcache'[curr_segment][g] = 0
      /\ \A s \in Segments : s # curr_segment =>
           events'[s] = events[s] /\ prevticks'[s] = prevticks[s] /\ sampcache'[s] = sampcache[s]
  BY <1>t DEF Prepare
<1>2. /\ UNCHANGED <<lock, acquiring, nr_events, curr_segment, work, cancel, bank, dev, counts>>
      /\ UNCHANGED <<transferring, me>>
  BY DEF Prepare, seg
<1>3. ModuleInv' /\ BankInv'
  <2>1. \A d \in Callers : pc'[d] \in Starting <=> pc[d] \in Starting
    BY <1>1 DEF Starting
  <2> QED
    BY <1>i, <1>2, <2>1, ModuleFrame
<1>4. ClaimInv' /\ FetchExcludesAcquisition'
  BY <1>i, <1>1, <1>2 DEF ClaimInv, FetchExcludesAcquisition, Fetching
<1>5. CacheInv'
  <2> SUFFICES ASSUME ~raced PROVE CacheInv'
    BY <1>2 DEF CacheInv, counts
  <2>1. acquiring[curr_segment]
    BY <1>i, <1>1 DEF StartInv, Starting
  <2>2. \A d \in Callers : pc[d] \in {"samples", "ticks", "copy"} =>
          me[d].segment # curr_segment /\ me[d].segment \in Segments
    BY <2>1, FetchElsewhere DEF Fetching
  <2> QED
    BY <1>i, <1>1, <1>2, <2>2 DEF CacheInv
<1> QED
  BY <1>3, <1>4, <1>5 DEF CallersInv

\* The bank is armed for the acquisition.
LEMMA ArmKeeps ==
  ASSUME IInv, NEW c \in Callers, Arm(c)
  PROVE  ModuleInv' /\ BankInv' /\ CallersInv'
<1>t. /\ bank \in [Segments -> BankType] /\ dev \in DevType /\ curr_segment \in Segments
      /\ pc \in [Callers -> PCType] /\ me \in [Callers -> MeType]
      /\ None \notin Segments
  BY TypeParts, Sis3300Assumption DEF IInv
<1>i. /\ LockInv /\ StatusInv /\ CurrentInv /\ StartInv /\ RaceInv /\ CountInv
      /\ EventsAreComplete /\ ClaimInv /\ FetchExcludesAcquisition /\ CacheInv
  BY DEF IInv
<1>1. /\ pc[c] = "arm" /\ pc'[c] \in {"wait", "idle"}
      /\ \A d \in Callers : d # c => pc'[d] = pc[d] /\ me'[d] = me[d]
      /\ dev'.armed = curr_segment /\ ~dev'.busy /\ dev'.ev = dev.ev /\ dev'.lev = dev.lev
      /\ bank'[curr_segment].counter = 0 /\ bank'[curr_segment].full = 0
      /\ \A s \in Segments : s # curr_segment => bank'[s] = bank[s]
  BY <1>t DEF Arm, Return, DevType
<1>2. /\ UNCHANGED <<lock, acquiring, transferring, nr_events, curr_segment, work, cancel>>
      /\ UNCHANGED <<raced, cancels, events, sampcache, prevticks>>
  BY DEF Arm, seg, caches, card, counts
<1>3. ~raced =>
        /\ acquiring[curr_segment] /\ ~dev.ev /\ ~dev.lev /\ cancel.at = "idle"
        /\ work.at \in {"idle", "status"}
        /\ \A d \in Callers : d # c => pc[d] \notin Starting
  BY <1>i, <1>1 DEF StartInv, Starting
<1>4. LockInv' /\ StatusInv' /\ CurrentInv'
  BY <1>t, <1>i, <1>1, <1>2 DEF LockInv, StatusInv, CurrentInv
<1>5. StartInv'
  BY <1>1, <1>2, <1>3 DEF StartInv, Starting
<1>6. RaceInv'
  BY <1>i, <1>2, <1>3 DEF RaceInv
<1>7. CountInv' /\ EventsAreComplete'
  BY <1>i, <1>1, <1>2, <1>3 DEF CountInv, EventsAreComplete, Complete
<1>8. ClaimInv' /\ FetchExcludesAcquisition'
  BY <1>i, <1>1, <1>2 DEF ClaimInv, FetchExcludesAcquisition, Fetching
<1>9. CacheInv'
  <2> SUFFICES ASSUME ~raced PROVE CacheInv'
    BY <1>2 DEF CacheInv
  <2>1. \A d \in Callers : d # c => pc[d] # "arm"
    BY <1>3 DEF Starting
  <2>2. \A d \in Callers : pc[d] \in {"samples", "ticks", "copy"} =>
          me[d].segment # curr_segment /\ me[d].segment \in Segments
    BY <1>3, FetchElsewhere DEF Fetching
  <2>3. /\ events[curr_segment] = 0 /\ prevticks[curr_segment] = 0
        /\ \A g \in Groups : sampcache[curr_segment][g] = 0
    BY <1>i, <1>1 DEF CacheInv
  <2>4. \A s \in Segments :
          /\ events'[s] \in {0, bank'[s].acq} /\ prevticks'[s] \in {0, bank'[s].acq}
          /\ \A g \in Groups : sampcache'[s][g] \in {0, bank'[s].acq}
    BY <1>i, <1>1, <1>2, <2>3 DEF CacheInv
  <2>5. \A d \in Callers : pc'[d] # "arm"
    BY <1>1, <2>1
  <2>6. ASSUME NEW d \in Callers, pc'[d] \in {"samples", "ticks", "copy"}
        PROVE  /\ events'[me'[d].segment] = bank'[me'[d].segment].acq
               /\ pc'[d] \in {"ticks", "copy"} =>
                    sampcache'[me'[d].segment][me'[d].group] = bank'[me'[d].segment].acq
               /\ pc'[d] = "copy" => prevticks'[me'[d].segment] = bank'[me'[d].segment].acq
    <3>1. d # c /\ pc'[d] = pc[d] /\ me'[d] = me[d]
      BY <1>1, <2>6
    <3> QED
      BY <1>i, <1>1, <1>2, <2>2, <2>6, <3>1 DEF CacheInv
  <2> QED
    BY <2>4, <2>5, <2>6 DEF CacheInv
<1> QED
  BY <1>4, <1>5, <1>6, <1>7, <1>8, <1>9 DEF ModuleInv, BankInv, CallersInv

\* A caller that neither starts an acquisition nor reads a cache.
LEMMA ClaimKeeps ==
  ASSUME IInv, NEW c \in Callers,
         \/ WaitDone(c) \/ WaitInterrupted(c) \/ Relock(c) \/ FetchEnd(c)
         \/ \E s \in Segments, g \in Groups : FetchLock(c, s, g)
  PROVE  ModuleInv' /\ BankInv' /\ CallersInv'
<1>t. /\ transferring \in [Segments -> BOOLEAN] /\ TypeOK
      /\ pc \in [Callers -> PCType] /\ me \in [Callers -> MeType]
      /\ \A d \in Callers : me[d].segment \in Segments
  BY TypeParts DEF IInv, MeType
<1>i. /\ ModuleInv /\ BankInv /\ ClaimInv /\ FetchExcludesAcquisition /\ CacheInv
  BY Parts DEF CallersInv
<1>1. /\ UNCHANGED <<lock, acquiring, nr_events, curr_segment, work, cancel, bank, dev, counts>>
      /\ UNCHANGED caches
  BY DEF WaitDone, WaitInterrupted, Relock, FetchEnd, FetchLock, seg, card
<1>2. /\ pc[c] \notin Starting /\ pc'[c] \notin Starting
      /\ pc'[c] \notin {"samples", "ticks", "copy", "arm"}
      /\ \A d \in Callers : d # c => pc'[d] = pc[d] /\ me'[d] = me[d]
  BY <1>t DEF WaitDone, WaitInterrupted, Relock, FetchEnd, FetchLock, Claim, Return,
     Starting, Waiting, Fetching
<1>3. \/ /\ pc[c] \notin Fetching /\ pc'[c] \notin Fetching /\ transferring' = transferring
      \/ \E s \in Segments :
           /\ pc'[c] = "events" /\ me'[c].segment = s /\ ~acquiring[s] /\ ~transferring[s]
           /\ transferring'[s]
           /\ \A t \in Segments : t # s => transferring'[t] = transferring[t]
      \/ /\ pc[c] \in Fetching /\ pc'[c] \notin Fetching /\ ~transferring'[me[c].segment]
         /\ \A t \in Segments : t # me[c].segment => transferring'[t] = transferring[t]
  <2>1. CASE WaitDone(c)
    BY <1>t, <2>1 DEF WaitDone, Return, Waiting, Fetching, seg
  <2>2. CASE WaitInterrupted(c)
    BY <1>t, <2>2 DEF WaitInterrupted, Return, Waiting, Fetching, seg
  <2>3. CASE Relock(c)
    BY <1>t, <2>3 DEF Relock, MayFetch, Claim, Return, Fetching
  <2>4. CASE FetchEnd(c)
    BY <1>t, <2>4 DEF FetchEnd, Return, Fetching
  <2>5. ASSUME NEW s \in Segments, NEW g \in Groups, FetchLock(c, s, g)
        PROVE  \/ pc[c] \notin Fetching /\ pc'[c] \notin Fetching /\ transferring' = transferring
               \/ /\ pc'[c] = "events" /\ me'[c].segment = s /\ ~acquiring[s] /\ ~transferring[s]
                  /\ transferring'[s]
                  /\ \A t \in Segments : t # s => transferring'[t] = transferring[t]
    <3>1. me'[c].segment = s
      <4> DEFINE m == [me[c] EXCEPT !.segment = s, !.group = g]
      <4>1. m.segment = s
        BY <1>t DEF MeType
      <4>2. me' = [me EXCEPT ![c] = m]
        BY <2>5 DEF FetchLock
      <4> HIDE DEF m
      <4> QED
        BY <1>t, <4>1, <4>2
    <3>2. CASE acquiring[s] /\ pc' = [pc EXCEPT ![c] = "fetchwait"] /\ UNCHANGED transferring
      BY <1>t, <2>5, <3>2 DEF FetchLock, Fetching
    <3>3. CASE MayFetch(s) /\ Claim(c, s)
      BY <1>t, <2>5, <3>1, <3>3 DEF MayFetch, Claim
    <3> QED
      BY <2>5, <3>2, <3>3 DEF FetchLock
  <2> QED
    BY <2>1, <2>2, <2>3, <2>4, <2>5
<1>4. ModuleInv' /\ BankInv'
  BY <1>i, <1>1, <1>2, ModuleFrame
<1>5. ClaimInv' /\ FetchExcludesAcquisition'
  <2>1. CASE pc[c] \notin Fetching /\ pc'[c] \notin Fetching /\ transferring' = transferring
    BY <1>i, <1>1, <1>2, <2>1 DEF ClaimInv, FetchExcludesAcquisition
  <2>2. ASSUME NEW s \in Segments,
               pc'[c] = "events" /\ me'[c].segment = s /\ ~acquiring[s] /\ ~transferring[s],
               transferring'[s] /\ \A t \in Segments : t # s => transferring'[t] = transferring[t]
        PROVE  ClaimInv' /\ FetchExcludesAcquisition'
    <3>1. \A d \in Callers : d # c /\ pc'[d] \in Fetching =>
            me'[d].segment # s /\ transferring'[me'[d].segment]
      BY <1>t, <1>i, <1>2, <2>2 DEF ClaimInv
    <3> QED
      BY <1>i, <1>1, <1>2, <2>2, <3>1 DEF ClaimInv, FetchExcludesAcquisition
  <2>3. CASE /\ pc[c] \in Fetching /\ pc'[c] \notin Fetching /\ ~transferring'[me[c].segment]
             /\ \A t \in Segments : t # me[c].segment => transferring'[t] = transferring[t]
    BY <1>t, <1>i, <1>1, <1>2, <2>3 DEF ClaimInv, FetchExcludesAcquisition
  <2> QED
    BY <1>3, <2>1, <2>2, <2>3
<1>6. CacheInv'
  <2>1. \A d \in Callers : pc'[d] \in {"samples", "ticks", "copy", "arm"} =>
          pc'[d] = pc[d] /\ me'[d] = me[d]
    BY <1>2
  <2>2. raced' = raced /\ events' = events /\ prevticks' = prevticks /\ sampcache' = sampcache
    BY <1>1 DEF counts, caches
  <2> QED
    BY <1>i, <1>1, <2>1, <2>2 DEF CacheInv
<1> QED
  BY <1>4, <1>5, <1>6 DEF CallersInv

\* A fetch gets what it copies from a cache or from the bank.
LEMMA GetKeeps ==
  ASSUME IInv, NEW c \in Callers, GetEvents(c) \/ GetSamples(c) \/ GetTicks(c)
  PROVE  ModuleInv' /\ BankInv' /\ CallersInv'
<1> DEFINE s == me[c].segment
<1>t. /\ pc \in [Callers -> PCType] /\ me \in [Callers -> MeType]
      /\ events \in [Segments -> 0 .. MaxAcqs] /\ prevticks \in [Segments -> 0 .. MaxAcqs]
      /\ sampcache \in [Segments -> [Groups -> 0 .. MaxAcqs]] /\ curr_segment \in Segments
      /\ \A d \in Callers : me[d].segment \in Segments /\ me[d].group \in Groups
  BY TypeParts DEF IInv, MeType
<1>i. /\ ModuleInv /\ BankInv /\ ClaimInv /\ FetchExcludesAcquisition /\ CacheInv /\ StartInv
  BY Parts DEF CallersInv, IInv
<1>1. /\ UNCHANGED <<lock, acquiring, nr_events, curr_segment, work, cancel, bank, dev, counts>>
      /\ UNCHANGED <<transferring, me>>
  BY DEF GetEvents, GetSamples, GetTicks, seg, card
<1>2. /\ pc[c] \in Fetching /\ pc'[c] \in {"samples", "ticks", "copy"}
      /\ \A d \in Callers : d # c => pc'[d] = pc[d]
  BY <1>t DEF GetEvents, GetSamples, GetTicks, Fetching
<1>3. ModuleInv' /\ BankInv'
  <2>1. \A d \in Callers : pc'[d] \in Starting <=> pc[d] \in Starting
    BY <1>2 DEF Starting, Fetching
  <2> QED
    BY <1>i, <1>1, <2>1, ModuleFrame
<1>4. ClaimInv' /\ FetchExcludesAcquisition'
  <2>1. \A d \in Callers : pc'[d] \in Fetching <=> pc[d] \in Fetching
    BY <1>2 DEF Fetching
  <2> QED
    BY <1>i, <1>1, <2>1 DEF ClaimInv, FetchExcludesAcquisition
<1>5. CacheInv'
  <2> SUFFICES ASSUME ~raced PROVE CacheInv'
    BY <1>1 DEF CacheInv, counts
  <2>0. s \in Segments
    BY <1>t
  <2>1. /\ \A t \in Segments : t # s => events'[t] = events[t] /\ prevticks'[t] = prevticks[t]
                                        /\ sampcache'[t] = sampcache[t]
        /\ events'[s] \in {events[s], Cached(events[s], s)}
        /\ prevticks'[s] \in {prevticks[s], Cached(prevticks[s], s)}
        /\ \A g \in Groups : sampcache'[s][g] \in {sampcache[s][g], Cached(sampcache[s][g], s)}
    <3>1. CASE GetEvents(c)
      BY <1>t, <2>0, <3>1 DEF GetEvents
    <3>2. CASE GetSamples(c)
      <4> DEFINE f == [sampcache[s] EXCEPT ![me[c].group] = Cached(@, s)]
      <4>1. /\ sampcache' = [sampcache EXCEPT ![s] = f]
            /\ events' = events /\ prevticks' = prevticks
        BY <3>2 DEF GetSamples
      <4>2. \A g \in Groups : f[g] \in {sampcache[s][g], Cached(sampcache[s][g], s)}
        BY <1>t, <2>0
      <4>3. sampcache'[s] = f /\ \A t \in Segments : t # s => sampcache'[t] = sampcache[t]
        BY <1>t, <2>0, <4>1
      <4> QED
        BY <4>1, <4>2, <4>3
    <3>3. CASE GetTicks(c)
      BY <1>t, <2>0, <3>3 DEF GetTicks
    <3> QED
      BY <3>1, <3>2, <3>3
  <2>2. /\ Cached(events[s], s) = bank[s].acq /\ Cached(prevticks[s], s) = bank[s].acq
        /\ \A g \in Groups : Cached(sampcache[s][g], s) = bank[s].acq
    BY <1>t, <1>i, <2>0 DEF CacheInv, Cached
  <2>3. /\ pc[c] = "events" => pc'[c] = "samples" /\ events'[s] = bank[s].acq
        /\ pc[c] = "samples" => pc'[c] = "ticks" /\ events'[s] = events[s]
                                  /\ sampcache'[s][me[c].group] = bank[s].acq
        /\ pc[c] = "ticks" => pc'[c] = "copy" /\ events'[s] = events[s]
                                /\ sampcache'[s] = sampcache[s] /\ prevticks'[s] = bank[s].acq
        /\ pc[c] \in {"events", "samples", "ticks"}
    BY <1>t, <2>0, <2>2 DEF GetEvents, GetSamples, GetTicks
  <2>4. \A d \in Callers : pc[d] \in Fetching /\ d # c => me[d].segment # s
    BY <1>i, <1>2 DEF ClaimInv
  <2>5. \A d \in Callers : pc[d] = "arm" => s # curr_segment
    BY <1>i, <1>2, FetchElsewhere DEF StartInv, Starting
  <2> HIDE DEF s
  <2>6. \A t \in Segments :
          /\ events'[t] \in {0, bank[t].acq} /\ prevticks'[t] \in {0, bank[t].acq}
          /\ \A g \in Groups : sampcache'[t][g] \in {0, bank[t].acq}
    BY <1>i, <2>0, <2>1, <2>2 DEF CacheInv
  <2>7. ASSUME NEW d \in Callers, pc'[d] = "arm"
        PROVE  /\ events'[curr_segment] = 0 /\ prevticks'[curr_segment] = 0
               /\ \A g \in Groups : sampcache'[curr_segment][g] = 0
    <3>1. pc[d] = "arm"
      BY <1>2, <2>7
    <3> QED
      BY <1>t, <1>i, <2>1, <2>5, <3>1 DEF CacheInv
  <2>8. ASSUME NEW d \in Callers
        PROVE  /\ pc'[d] \in {"samples", "ticks", "copy"} =>
                    events'[me[d].segment] = bank[me[d].segment].acq
               /\ pc'[d] \in {"ticks", "copy"} =>
                    sampcache'[me[d].segment][me[d].group] = bank[me[d].segment].acq
               /\ pc'[d] = "copy" => prevticks'[me[d].segment] = bank[me[d].segment].acq
    <3>1. CASE d = c
      BY <1>i, <2>3, <3>1 DEF CacheInv, s
    <3>2. CASE d # c
      <4>1. pc'[d] \in {"samples", "ticks", "copy"} =>
              me[d].segment # s /\ me[d].segment \in Segments /\ pc'[d] = pc[d]
        BY <1>t, <1>2, <2>4, <3>2 DEF Fetching
      <4> QED
        BY <1>i, <2>1, <4>1 DEF CacheInv
    <3> QED
      BY <3>1, <3>2
  <2> QED
    BY <1>1, <2>6, <2>7, <2>8 DEF CacheInv
<1> QED
  BY <1>3, <1>4, <1>5 DEF CallersInv

-----------------------------------------------------------------------------
(* The properties.                                                         *)

\* The module is installed with nothing acquired and nobody in a call.
LEMMA InitIInv == Init => IInv
<1> SUFFICES ASSUME Init PROVE IInv
  OBVIOUS
<1>1. TypeOK
  BY InitType
<1>2. LockInv /\ StatusInv /\ CurrentInv
  BY Sis3300Assumption DEF Init, LockInv, StatusInv, CurrentInv, Resting, NoCancel
<1>3. ClaimInv /\ FetchExcludesAcquisition
  BY DEF Init, ClaimInv, FetchExcludesAcquisition, Fetching
<1>4. StartInv /\ RaceInv
  BY Sis3300Assumption DEF Init, StartInv, RaceInv, Starting
<1>5. CacheInv
  BY DEF Init, CacheInv
<1>6. CountInv /\ EventsAreComplete
  BY <1>1 DEF Init, CountInv, EventsAreComplete, TypeOK
<1> QED
  BY <1>1, <1>2, <1>3, <1>4, <1>5, <1>6 DEF IInv

\* The invariant holds always.
LEMMA Invariance == Spec => []IInv
<1>1. IInv /\ [Next]_vars => IInv'
  <2> SUFFICES ASSUME IInv, [Next]_vars PROVE IInv'
    OBVIOUS
  <2>0. TypeOK /\ CurrentInv
    BY DEF IInv
  <2>1. CASE Device
    <3>1. ModuleInv' /\ BankInv' /\ CallersInv' /\ TypeOK'
      BY <2>0, <2>1, DeviceKeeps, DeviceType
    <3> QED
      BY <3>1 DEF IInv, ModuleInv, BankInv, CallersInv
  <2>2. CASE WorkLock \/ Work \/ CancelLock \/ Cancel
    <3>1. TypeOK'
      BY <2>0, <2>2, WorkTypes
    <3>2. ModuleInv' /\ BankInv' /\ CallersInv'
      BY <2>2, WorkReadsStatus, WorkReadsBank, WorkDecides, CancelKeeps DEF Work
    <3> QED
      BY <3>1, <3>2 DEF IInv, ModuleInv, BankInv, CallersInv
  <2>3. ASSUME NEW c \in Callers, CallerStep(c) PROVE IInv'
    <3>1. TypeOK'
      BY <2>0, <2>3, CallerType
    <3>2. ModuleInv' /\ BankInv' /\ CallersInv'
      <4>1. CASE \E s \in Segments, n \in Requests, wait \in BOOLEAN : AcqStart(c, s, n, wait)
        BY <4>1, AcqStartKeeps
      <4>2. CASE Prepare(c) \/ Arm(c)
        BY <4>2, PrepareKeeps, ArmKeeps
      <4>3. CASE GetEvents(c) \/ GetSamples(c) \/ GetTicks(c)
        BY <4>3, GetKeeps
      <4>4. CASE \/ WaitDone(c) \/ WaitInterrupted(c) \/ Relock(c) \/ FetchEnd(c)
                 \/ \E s \in Segments, g \in Groups : FetchLock(c, s, g)
        BY <4>4, ClaimKeeps
      <4> QED
        BY <2>3, <4>1, <4>2, <4>3, <4>4 DEF CallerStep, Step
    <3> QED
      BY <3>1, <3>2 DEF IInv, ModuleInv, BankInv, CallersInv
  <2>4. CASE UNCHANGED vars
    <3>1. UNCHANGED <<lock, acquiring, transferring, nr_events, events, sampcache, prevticks,
             curr_segment, req_events, done, pc, me, work, cancel, bank, dev, acqs, cancels, raced>>
      BY <2>4 DEF vars, seg, caches, card, counts
    <3>2. TypeOK'
      BY <2>0, <3>1 DEF TypeOK
    <3>3. ModuleInv' /\ BankInv'
      BY <3>1, Parts, ModuleFrame DEF counts
    <3>4. CallersInv'
      BY <2>0, <3>1, Parts, CallersFrame DEF caches
    <3> QED
      BY <3>2, <3>3, <3>4 DEF IInv, ModuleInv, BankInv, CallersInv
  <2> QED
    BY <2>1, <2>2, <2>3, <2>4 DEF Next, CallerStep
<1> QED
  BY <1>1, InitIInv, PTL DEF Spec

\* The types are right; in particular the event counters stay inside a bank.
THEOREM TypeCorrect == Spec => []TypeOK
<1>1. IInv => TypeOK
  BY DEF IInv
<1> QED
  BY <1>1, Invariance, PTL

\* Acquiring and fetching exclude each other on a segment, and one segment is
\* acquired at a time.
THEOREM Exclusion == Spec => []FetchExcludesAcquisition
<1>1. IInv => FetchExcludesAcquisition
  BY DEF IInv
<1> QED
  BY <1>1, Invariance, PTL

\* An acquisition that ends by itself leaves no interrupt to the next one.
THEOREM RacesAreCancels == Spec => []OnlyCancelsRace
<1>1. IInv => OnlyCancelsRace
  <2>1. IInv => cancels \in Nat /\ RaceInv
    BY TypeParts, Sis3300Assumption DEF IInv
  <2> QED
    BY <2>1 DEF RaceInv, OnlyCancelsRace
<1> QED
  BY <1>1, Invariance, PTL

\* Without a race, the module is armed for an acquisition that somebody ends.
THEOREM ArmedAcquires == Spec => []ArmedIsAcquiring
<1>1. IInv => ArmedIsAcquiring
  BY DEF IInv, StartInv, ArmedIsAcquiring
<1> QED
  BY <1>1, Invariance, PTL

\* Without a race, a fetch copies one acquisition, the last one of its segment,
\* from a bank that is not being filled.
THEOREM FetchesFresh == Spec => []FetchIsFresh
<1>1. IInv => FetchIsFresh
  <2> SUFFICES ASSUME IInv, ~raced, NEW c \in Callers
               PROVE  /\ pc[c] \in Fetching => dev.armed # me[c].segment
                      /\ pc[c] = "copy" =>
                           /\ events[me[c].segment] = bank[me[c].segment].acq
                           /\ sampcache[me[c].segment][me[c].group] = bank[me[c].segment].acq
                           /\ prevticks[me[c].segment] = bank[me[c].segment].acq
    BY DEF FetchIsFresh
  <2>1. pc[c] \in Fetching => dev.armed # me[c].segment
    <3>1. dev.armed # None => acquiring[dev.armed]
      BY DEF IInv, StartInv
    <3>2. me[c].segment \in Segments /\ None \notin Segments
      BY TypeParts, Sis3300Assumption DEF IInv, MeType
    <3> QED
      BY <3>1, <3>2 DEF IInv, ClaimInv, FetchExcludesAcquisition
  <2>2. CacheInv
    BY DEF IInv
  <2> QED
    BY <2>1, <2>2 DEF CacheInv
<1> QED
  BY <1>1, Invariance, PTL

\* Without a race, the events a segment claims are complete in its bank.
THEOREM ClaimsComplete == Spec => []EventsAreComplete
<1>1. IInv => EventsAreComplete
  BY DEF IInv
<1> QED
  BY <1>1, Invariance, PTL
=============================================================================

------------------------- MODULE VmeInterruptProofs -------------------------
(***************************************************************************)
(* Proofs about the interrupt and bus error handling of VmeInterrupt, for  *)
(* every set of drivers, vectors and interrupt sources: a requested vector *)
(* stays its driver's, no bus error goes unnoticed or is reported twice,   *)
(* and no bus error handler is called after it has been removed.           *)
(***************************************************************************)
EXTENDS VmeInterrupt, SequenceTheorems, TLAPS

\* Where a driver holds vme_irq_table_lock.
LockedPC == {"test", "handler", "arg", "remove", "unarg"}
\* The lock is held by the driver that is inside a critical section, if any.
LockInv == \A d \in Drivers : pc[d] \in LockedPC <=> lock = d

\* What a driver inside vme_request_irq() or vme_free_irq() knows of the entry
\* it works on.
EntryInv ==
  \A d \in Drivers :
    /\ pc[d] \in {"free", "remove"} => vec[d] \in owns[d]
    /\ pc[d] = "handler" => table[vec[d]] = Free
    /\ pc[d] = "arg" => table[vec[d]] = [handler |-> d, arg |-> Nobody]
    /\ pc[d] = "unarg" => table[vec[d]] = [handler |-> Nobody, arg |-> d]

\* What vme_bridge_interrupt() knows of its local variables: they are reset
\* when they are not in use, verr.lock is held while an error is handled, and
\* errors are handled before the lines of the same mask.
IsrInv ==
  /\ isr.pc \in {"idle", "status"} => isr.mask = {}
  /\ isr.pc \in {"verr", "dispatch"} <=> vlock
  /\ isr.pc \in {"verr", "dispatch"} => VERR \in isr.mask
  /\ isr.pc \notin {"dispatch", "call", "called"} => isr.handler = Nobody
  /\ isr.pc \in {"test", "call", "called"} => VERR \notin isr.mask
  /\ isr.pc = "dispatch" /\ veat.ves => VERR \in ints

\* As long as nobody polls, VERR is raised for an error that the chip holds, and
\* is not raised again before that one is read.
PendingInv ==
  ~polled =>
    /\ VERR \in ints => veat.ves
    /\ VERR \in isr.mask /\ isr.pc \in {"clear", "handle", "verr"} => veat.ves
    /\ VERR \in isr.mask /\ isr.pc \in {"handle", "verr"} => VERR \notin ints

\* The part of the invariant about the table of handlers.
TableInv == LockInv /\ EntryInv /\ VectorStaysOwned
\* The part of the invariant about bus errors.
ErrorInv ==
  /\ IsrInv /\ PendingInv
  /\ ErrorWillBeHandled /\ ReportsRealErrors /\ HandlersCalledAlive

\* The inductive invariant.
IInv == TypeOK /\ TableInv /\ ErrorInv

-----------------------------------------------------------------------------
(* Types.                                                                  *)

\* list_del() of an entry leaves a list of drivers.
LEMMA WithoutType ==
  ASSUME NEW S, NEW list \in Seq(S), NEW k \in 1 .. Len(list)
  PROVE  Without(list, k) \in Seq(S)
<1>1. SubSeq(list, 1, k - 1) \in Seq(S) /\ SubSeq(list, k + 1, Len(list)) \in Seq(S)
  BY SubSeqProperties
<1> QED
  BY <1>1, ConcatProperties DEF Without

\* An entry of the table may be given any handler and any argument.
LEMMA EntryType ==
  ASSUME NEW T \in [Vectors -> [handler : Someone, arg : Someone]],
         NEW v \in Vectors, NEW x \in Someone
  PROVE  /\ [T EXCEPT ![v].handler = x] \in [Vectors -> [handler : Someone, arg : Someone]]
         /\ [T EXCEPT ![v].arg = x] \in [Vectors -> [handler : Someone, arg : Someone]]
OBVIOUS

\* The bridge starts with no vector requested and no error pending.
LEMMA InitIInv == Init => IInv
<1> SUFFICES ASSUME Init PROVE IInv
  OBVIOUS
<1>1. AnyVector \in Vectors
  BY SourcesAssumption DEF AnyVector
<1>a. Nobody \in Someone /\ NoAddress \in Errors /\ Free \in [handler : Someone, arg : Someone]
  BY DEF Someone, Errors, NoAddress, Free
<1>b. isr \in [pc : IsrPC, mask : SUBSET (Latched \cup (1 .. 7)), err : Errors,
              todo : Seq(Drivers), vec : Vectors, handler : Someone, arg : Someone]
  BY <1>1, <1>a DEF Init, NoIsr, IsrPC
<1>c. veat \in [ves : BOOLEAN, err : Errors] /\ desc \in [valid : BOOLEAN, err : Errors]
  BY <1>a DEF Init
<1>2. TypeOK
  <2>1. /\ lock \in Someone /\ table \in [Vectors -> [handler : Someone, arg : Someone]]
        /\ owns \in [Drivers -> SUBSET Vectors] /\ vec \in [Drivers -> Vectors]
        /\ pc \in [Drivers -> DriverPC]
    BY <1>1, <1>a DEF Init, DriverPC
  <2>2. ints \subseteq Latched /\ line \subseteq Vectors /\ hlist \in Seq(Drivers)
    BY DEF Init
  <2>3. vlock \in BOOLEAN /\ polled \in BOOLEAN
    BY Zenon DEF Init
  <2> QED
    BY <1>b, <1>c, <2>1, <2>2, <2>3 DEF TypeOK
<1>3. TableInv
  BY DriversAssumption
  DEF Init, TableInv, LockInv, LockedPC, EntryInv, VectorStaysOwned, Free
<1>4. IsrInv /\ PendingInv
  BY DEF Init, IsrInv, PendingInv, NoIsr
<1>5. ErrorWillBeHandled /\ ReportsRealErrors /\ HandlersCalledAlive
  BY DEF Init, NoIsr, ErrorWillBeHandled, ReportsRealErrors, HandlersCalledAlive
<1> QED
  BY <1>2, <1>3, <1>4, <1>5 DEF IInv, ErrorInv

\* A driver's step keeps the types.
LEMMA DriverType ==
  ASSUME TypeOK, NEW d \in Drivers, DriverStep(d)
  PROVE  TypeOK'
<1> USE DEF TypeOK, Goto, irqVars, errVars, DriverPC, Someone
<1>1. CASE CallRequest(d)
  <2>1. Wants[d] \subseteq Vectors
    BY SourcesAssumption
  <2> QED
    BY <1>1, <2>1 DEF CallRequest
<1>2. CASE CallFree(d)  BY <1>2 DEF CallFree
<1>3. CASE Lock(d)  BY <1>3 DEF Lock
<1>4. CASE Interrupted(d)  BY <1>4 DEF Interrupted
<1>5. CASE RequestRefused(d)  BY <1>5 DEF RequestRefused
<1>6. CASE RequestTest(d)  BY <1>6 DEF RequestTest
<1>7. CASE RequestHandler(d)
  <2>1. table' \in [Vectors -> [handler : Someone, arg : Someone]]
    BY <1>7, EntryType DEF RequestHandler
  <2> QED
    BY <1>7, <2>1 DEF RequestHandler
<1>8. CASE RequestArg(d)
  <2>0. table' = [table EXCEPT ![vec[d]].arg = d]
    BY <1>8 DEF RequestArg
  <2>1. table' \in [Vectors -> [handler : Someone, arg : Someone]]
    BY <2>0, EntryType
  <2> QED
    BY <1>8, <2>1 DEF RequestArg
<1>9. CASE FreeHandler(d)
  <2>0. table' = table \/ table' = [table EXCEPT ![vec[d]].handler = Nobody]
    BY <1>9 DEF FreeHandler
  <2>1. table' \in [Vectors -> [handler : Someone, arg : Someone]]
    <3>1. Nobody \in Someone /\ vec[d] \in Vectors
      OBVIOUS
    <3>2. CASE table' = [table EXCEPT ![vec[d]].handler = Nobody]
      BY <3>1, <3>2, EntryType
    <3> QED
      BY <2>0, <3>2
  <2>2. owns' \in [Drivers -> SUBSET Vectors]
    BY <1>9 DEF FreeHandler
  <2>3. lock' \in Someone /\ pc' \in [Drivers -> DriverPC]
    BY <1>9 DEF FreeHandler
  <2> QED
    BY <1>9, <2>1, <2>2, <2>3 DEF FreeHandler
<1>10. CASE FreeArg(d)
  <2>1. table' \in [Vectors -> [handler : Someone, arg : Someone]]
    BY <1>10, EntryType DEF FreeArg
  <2> QED
    BY <1>10, <2>1 DEF FreeArg
<1>11. CASE Check(d)  BY <1>11 DEF Check
<1>12. CASE CheckReturns(d)  BY <1>12 DEF CheckReturns
<1>13. CASE Register(d)  BY <1>13 DEF Register
<1>14. CASE Unregister(d)
  <2>1. hlist' \in Seq(Drivers)
    BY <1>14, WithoutType DEF Unregister
  <2> QED
    BY <1>14, <2>1 DEF Unregister
<1>15. ASSUME NEW a \in Addresses, BusError(d, a) PROVE TypeOK'
  <2>1. ints' \subseteq Latched /\ veat' \in [ves : BOOLEAN, err : Errors]
    <3>1. CASE veat.ves
      BY <1>15, <3>1 DEF BusError
    <3>2. CASE ~veat.ves
      <4>1. ints' = ints \cup {VERR} /\ veat' = [ves |-> TRUE, err |-> a]
        BY <1>15, <3>2 DEF BusError
      <4> QED
        BY <4>1, SourcesAssumption DEF Errors
    <3> QED
      BY <3>1, <3>2
  <2> QED
    BY <1>15, <2>1 DEF BusError
<1>16. ASSUME NEW a \in Addresses, CheckClear(d, a) PROVE TypeOK'
  BY <1>16 DEF CheckClear
<1> QED
  BY <1>1, <1>2, <1>3, <1>4, <1>5, <1>6, <1>7, <1>8, <1>9, <1>10, <1>11, <1>12,
     <1>13, <1>14, <1>15, <1>16
  DEF DriverStep

\* A step of the interrupt handler keeps the types.
LEMMA IsrType ==
  ASSUME TypeOK, IsrEnter \/ IsrShared \/ IsrRuns
  PROVE  TypeOK'
<1>a. AnyVector \in Vectors /\ NoIsr.pc = "idle"
  BY SourcesAssumption DEF AnyVector, NoIsr
<1>i. /\ isr \in [pc : IsrPC, mask : SUBSET (Latched \cup (1 .. 7)), err : Errors,
              todo : Seq(Drivers), vec : Vectors, handler : Someone, arg : Someone]
      /\ ints \subseteq Latched /\ line \subseteq Vectors /\ Raised \subseteq Latched \cup (1 .. 7)
  <2>1. \A v \in Vectors : LevelOf[v] \in 1 .. 7
    BY SourcesAssumption
  <2> QED
    BY <2>1 DEF TypeOK, Raised, Levels
<1>n. NoIsr \in [pc : IsrPC, mask : SUBSET (Latched \cup (1 .. 7)), err : Errors,
              todo : Seq(Drivers), vec : Vectors, handler : Someone, arg : Someone]
  BY <1>a DEF NoIsr, IsrPC, Errors, Someone
<1> USE <1>i, <1>n DEF irqVars, errVars, IsrGoto, IsrPC
<1>1. CASE IsrEnter \/ IsrShared  BY <1>1 DEF IsrEnter, IsrShared, TypeOK
<1>2. CASE IsrStatus  BY <1>2 DEF IsrStatus, TypeOK
<1>3. CASE IsrClear  BY <1>3 DEF IsrClear, TypeOK
<1>4. CASE IsrVerr  BY <1>4 DEF IsrVerr, TypeOK
<1>5. CASE IsrVerrClear  BY <1>5 DEF IsrVerrClear, TypeOK
<1>6. CASE IsrDispatch
  <2>1. Head(isr.todo) \in Drivers /\ Tail(isr.todo) \in Seq(Drivers)
    BY <1>6 DEF IsrDispatch
  <2> QED
    BY <1>6, <2>1 DEF IsrDispatch, TypeOK, Someone
<1>7. CASE IsrVerrDone  BY <1>7 DEF IsrVerrDone, TypeOK, Errors, Someone
<1>8. CASE IsrIack
  <2>1. PICK v \in line : /\ line' = line \ {v}
                          /\ isr' = [isr EXCEPT !.pc = "test", !.vec = v,
                                                !.mask = @ \ {Highest}]
    BY <1>8 DEF IsrIack
  <2> QED
    BY <1>8, <2>1 DEF IsrIack, TypeOK
<1>9. CASE IsrTest
  <2>1. table[isr.vec].handler \in Someone
    BY DEF TypeOK
  <2> QED
    BY <1>a, <1>9, <2>1 DEF IsrTest, TypeOK
<1>10. CASE IsrCall
  <2>1. table[isr.vec].handler \in Someone /\ table[isr.vec].arg \in Someone
    BY DEF TypeOK
  <2> QED
    BY <1>10, <2>1 DEF IsrCall, TypeOK
<1>11. CASE IsrCallReturns  BY <1>a, <1>11 DEF IsrCallReturns, TypeOK, Someone
<1>12. CASE IsrTurn  BY <1>12 DEF IsrTurn, TypeOK
<1> QED
  BY <1>1, <1>2, <1>3, <1>4, <1>5, <1>6, <1>7, <1>8, <1>9, <1>10, <1>11, <1>12
  DEF IsrRuns

\* No step of a driver, of the bus or of the interrupt handler leaves the types.
LEMMA TypeStep == TypeOK /\ [Next]_vars => TypeOK'
<1> SUFFICES ASSUME TypeOK, [Next]_vars PROVE TypeOK'
  OBVIOUS
<1>1. ASSUME NEW v \in Vectors, CardInterrupts(v) PROVE TypeOK'
  BY <1>1 DEF TypeOK, CardInterrupts, irqVars, errVars
<1>2. CASE ChipInterrupts
  BY <1>2 DEF TypeOK, ChipInterrupts, irqVars, errVars
<1>3. CASE UNCHANGED vars
  BY <1>3 DEF TypeOK, vars
<1> QED
  BY <1>1, <1>2, <1>3, DriverType, IsrType DEF Next

-----------------------------------------------------------------------------
(* The table of interrupt vectors.                                         *)

\* Control points outside vme_request_irq() and vme_free_irq().
OutsidePC == {"idle", "failed", "found", "missed"}

\* A step that leaves the table alone, and moves drivers outside the two
\* functions only, keeps the invariant.
LEMMA TableFrame ==
  ASSUME TableInv, UNCHANGED irqVars,
         \A d \in Drivers : pc'[d] = pc[d] \/ (pc[d] \in OutsidePC /\ pc'[d] \in OutsidePC)
  PROVE  TableInv'
<1>1. LockInv'
  BY DEF TableInv, LockInv, LockedPC, OutsidePC, irqVars
<1>2. EntryInv'
  BY DEF TableInv, EntryInv, OutsidePC, irqVars
<1>3. VectorStaysOwned'
  BY DEF TableInv, VectorStaysOwned, OutsidePC, irqVars
<1> QED
  BY <1>1, <1>2, <1>3 DEF TableInv

\* The entry of a vector that a driver owns.
LEMMA OwnedEntry ==
  ASSUME TableInv, NEW e \in Drivers, NEW v \in owns[e]
  PROVE  table[v].handler = e /\ table[v].arg = e
<1>1. table[v] = [handler |-> e, arg |-> e]
  BY DEF TableInv, VectorStaysOwned
<1> QED
  BY <1>1

\* Under the lock an entry without a handler is free: an entry in use belongs to
\* a driver, or to the one that holds the lock.
LEMMA EmptyIsFree ==
  ASSUME TypeOK, TableInv, NEW d \in Drivers, pc[d] \in {"test", "remove"},
         table[vec[d]].handler = Nobody
  PROVE  table[vec[d]] = Free
<1> SUFFICES ASSUME table[vec[d]] # Free PROVE FALSE
  OBVIOUS
<1>1. vec[d] \in Vectors /\ lock = d
  BY DEF TypeOK, TableInv, LockInv, LockedPC
<1>2. PICK e \in Drivers :
        vec[d] \in owns[e] \/ (lock = e /\ vec[e] = vec[d] /\ pc[e] \in {"arg", "unarg"})
  BY <1>1 DEF TableInv, VectorStaysOwned
<1>3. vec[d] \in owns[e]
  BY <1>1, <1>2
<1>4. table[vec[d]].handler = e
  BY <1>3, OwnedEntry
<1> QED
  BY <1>4, DriversAssumption

\* A vector is not given to a driver while its entry is not complete.
LEMMA NotOwned ==
  ASSUME TableInv, NEW v, NEW e \in Drivers, table[v].handler = Nobody \/ table[v].arg = Nobody
  PROVE  v \notin owns[e]
BY DriversAssumption, OwnedEntry

\* The steps of vme_request_irq() and vme_free_irq() keep the table's invariant.
LEMMA TableStep ==
  ASSUME TypeOK, TableInv, NEW d \in Drivers, DriverStep(d)
  PROVE  TableInv'
<1>t. /\ pc \in [Drivers -> DriverPC] /\ vec \in [Drivers -> Vectors]
      /\ owns \in [Drivers -> SUBSET Vectors]
      /\ table \in [Vectors -> [handler : Someone, arg : Someone]]
      /\ vec[d] \in Vectors /\ Nobody \notin Drivers
  BY DriversAssumption DEF TypeOK
<1>i. LockInv /\ EntryInv /\ VectorStaysOwned
  BY DEF TableInv
<1> USE DEF Goto
<1>1. CASE CallRequest(d) \/ CallFree(d)
  <2>1. /\ pc[d] = "idle" /\ pc'[d] \in {"request", "free"}
        /\ pc'[d] = "free" => vec'[d] \in owns[d]
        /\ \A e \in Drivers : e # d => pc'[e] = pc[e] /\ vec'[e] = vec[e]
        /\ UNCHANGED <<lock, table, owns>>
    BY <1>t, <1>1 DEF CallRequest, CallFree
  <2>2. LockInv'
    BY <1>i, <2>1 DEF LockInv, LockedPC
  <2>3. EntryInv'
    BY <1>i, <2>1 DEF EntryInv
  <2>4. VectorStaysOwned'
    BY <1>i, <2>1 DEF VectorStaysOwned
  <2> QED
    BY <2>2, <2>3, <2>4 DEF TableInv
<1>2. CASE Lock(d)
  <2>1. /\ \/ pc[d] = "request" /\ pc'[d] = "test"
           \/ pc[d] = "free" /\ pc'[d] = "remove"
        /\ \A e \in Drivers : e # d => pc'[e] = pc[e]
        /\ UNCHANGED <<table, owns, vec>> /\ lock = Nobody /\ lock' = d
    BY <1>t, <1>2 DEF Lock
  <2>2. LockInv'
    BY <1>t, <1>i, <2>1 DEF LockInv, LockedPC
  <2>3. EntryInv'
    BY <1>i, <2>1 DEF EntryInv
  <2>4. VectorStaysOwned'
    BY <1>t, <1>i, <2>1 DEF VectorStaysOwned
  <2> QED
    BY <2>2, <2>3, <2>4 DEF TableInv
<1>3. CASE Interrupted(d)
  <2>1. /\ pc[d] \in {"request", "free"} /\ pc'[d] = "idle"
        /\ \A e \in Drivers : e # d => pc'[e] = pc[e]
        /\ UNCHANGED <<table, owns, vec, lock>>
    BY <1>t, <1>3 DEF Interrupted, irqVars
  <2>2. LockInv'
    BY <1>i, <2>1 DEF LockInv, LockedPC
  <2>3. EntryInv'
    BY <1>i, <2>1 DEF EntryInv
  <2>4. VectorStaysOwned'
    BY <1>i, <2>1 DEF VectorStaysOwned
  <2> QED
    BY <2>2, <2>3, <2>4 DEF TableInv
<1>4. CASE RequestRefused(d)
  <2>1. /\ pc[d] = "test" /\ pc'[d] = "idle" /\ lock' = Nobody
        /\ \A e \in Drivers : e # d => pc'[e] = pc[e]
        /\ UNCHANGED <<table, owns, vec>>
    BY <1>t, <1>4 DEF RequestRefused
  <2>2. LockInv' /\ lock = d
    BY <1>t, <1>i, <2>1 DEF LockInv, LockedPC
  <2>3. EntryInv'
    BY <1>i, <2>1 DEF EntryInv
  <2>4. VectorStaysOwned'
    BY <1>i, <2>1, <2>2 DEF VectorStaysOwned
  <2> QED
    BY <2>2, <2>3, <2>4 DEF TableInv
<1>5. CASE RequestTest(d)
  <2>1. /\ pc[d] = "test" /\ pc'[d] = "handler"
        /\ \A e \in Drivers : e # d => pc'[e] = pc[e]
        /\ UNCHANGED <<table, owns, vec, lock>>
    BY <1>t, <1>5 DEF RequestTest, irqVars
  <2>2. LockInv'
    BY <1>i, <2>1 DEF LockInv, LockedPC
  <2>3. table[vec[d]] = Free
    BY <1>5, <2>1, EmptyIsFree DEF RequestTest
  <2>4. EntryInv'
    BY <1>i, <2>1, <2>3 DEF EntryInv
  <2>5. VectorStaysOwned'
    BY <1>i, <2>1 DEF VectorStaysOwned
  <2> QED
    BY <2>2, <2>4, <2>5 DEF TableInv
<1>6. CASE RequestHandler(d)
  <2>1. /\ pc[d] = "handler" /\ pc'[d] = "arg"
        /\ \A e \in Drivers : e # d => pc'[e] = pc[e]
        /\ UNCHANGED <<owns, vec, lock>>
    BY <1>t, <1>6 DEF RequestHandler
  <2>2. LockInv' /\ lock = d /\ \A e \in Drivers : e # d => pc[e] \notin LockedPC
    BY <1>i, <2>1 DEF LockInv, LockedPC
  <2>3. table[vec[d]] = Free
    BY <1>i, <2>1 DEF EntryInv
  <2>4. /\ table'[vec[d]] = [handler |-> d, arg |-> Nobody]
        /\ \A v \in Vectors : v # vec[d] => table'[v] = table[v]
    BY <1>t, <1>6, <2>3 DEF RequestHandler, Free
  <2>5. \A e \in Drivers : vec[d] \notin owns[e]
    BY <2>3, NotOwned DEF Free
  <2>6. EntryInv'
    BY <1>i, <2>1, <2>2, <2>4 DEF EntryInv, LockedPC
  <2>7. VectorStaysOwned'
    BY <1>t, <1>i, <2>1, <2>2, <2>4, <2>5 DEF VectorStaysOwned
  <2> QED
    BY <2>2, <2>6, <2>7 DEF TableInv
<1>7. CASE RequestArg(d)
  <2>1. /\ pc[d] = "arg" /\ pc'[d] = "idle" /\ lock' = Nobody
        /\ \A e \in Drivers : e # d => pc'[e] = pc[e] /\ owns'[e] = owns[e]
        /\ owns'[d] = owns[d] \cup {vec[d]}
        /\ UNCHANGED vec
    BY <1>t, <1>7 DEF RequestArg
  <2>2. LockInv' /\ lock = d /\ \A e \in Drivers : e # d => pc[e] \notin LockedPC
    BY <1>t, <1>i, <2>1 DEF LockInv, LockedPC
  <2>3. table[vec[d]] = [handler |-> d, arg |-> Nobody]
    BY <1>i, <2>1 DEF EntryInv
  <2>4. /\ table'[vec[d]] = [handler |-> d, arg |-> d]
        /\ \A v \in Vectors : v # vec[d] => table'[v] = table[v]
    BY <1>t, <1>7, <2>3 DEF RequestArg
  <2>5. \A e \in Drivers : vec[d] \notin owns[e]
    BY <2>3, NotOwned
  <2>6. EntryInv'
    BY <1>i, <2>1, <2>2, <2>4 DEF EntryInv, LockedPC
  <2>7. VectorStaysOwned'
    <3>1. ASSUME NEW e \in Drivers, NEW v \in owns'[e]
          PROVE  table'[v] = [handler |-> e, arg |-> e]
      <4>1. CASE v \in owns[e]
        <5>1. v \in Vectors /\ v # vec[d]
          BY <1>t, <2>5, <4>1
        <5> QED
          BY <1>i, <2>4, <4>1, <5>1 DEF VectorStaysOwned
      <4>2. CASE v \notin owns[e]
        BY <2>1, <2>4, <3>1, <4>2
      <4> QED
        BY <4>1, <4>2
    <3>2. ASSUME NEW v \in Vectors, table'[v] # Free
          PROVE  \E e \in Drivers : v \in owns'[e]
      <4>1. CASE v = vec[d]
        BY <2>1, <4>1
      <4>2. CASE v # vec[d]
        BY <1>i, <2>1, <2>2, <2>4, <3>2, <4>2 DEF VectorStaysOwned
      <4> QED
        BY <4>1, <4>2
    <3> QED
      BY <3>1, <3>2 DEF VectorStaysOwned
  <2> QED
    BY <2>2, <2>6, <2>7 DEF TableInv
<1>8. CASE FreeHandler(d)
  <2>1. /\ pc[d] = "remove"
        /\ \A e \in Drivers : e # d => pc'[e] = pc[e] /\ owns'[e] = owns[e]
        /\ owns'[d] = owns[d] \ {vec[d]}
        /\ UNCHANGED vec
    BY <1>t, <1>8 DEF FreeHandler
  <2>2. vec[d] \in owns[d] /\ table[vec[d]] = [handler |-> d, arg |-> d]
    BY <1>i, <2>1 DEF EntryInv, VectorStaysOwned
  <2>3. /\ pc'[d] = "unarg" /\ lock' = lock
        /\ table' = [table EXCEPT ![vec[d]].handler = Nobody]
    BY <1>t, <1>8, <2>2 DEF FreeHandler
  <2>4. /\ table'[vec[d]] = [handler |-> Nobody, arg |-> d]
        /\ \A v \in Vectors : v # vec[d] => table'[v] = table[v]
    BY <1>t, <2>2, <2>3
  <2>5. LockInv' /\ lock = d /\ \A e \in Drivers : e # d => pc[e] \notin LockedPC
    BY <1>i, <2>1, <2>3 DEF LockInv, LockedPC
  <2>6. \A e \in Drivers : e # d => vec[d] \notin owns[e]
    BY <2>2, OwnedEntry
  <2>7. EntryInv'
    BY <1>i, <2>1, <2>3, <2>4, <2>5, <2>6 DEF EntryInv, LockedPC
  <2>8. VectorStaysOwned'
    BY <1>t, <1>i, <2>1, <2>3, <2>4, <2>5, <2>6 DEF VectorStaysOwned
  <2> QED
    BY <2>5, <2>7, <2>8 DEF TableInv
<1>9. CASE FreeArg(d)
  <2>1. /\ pc[d] = "unarg" /\ pc'[d] = "idle" /\ lock' = Nobody
        /\ \A e \in Drivers : e # d => pc'[e] = pc[e]
        /\ UNCHANGED <<owns, vec>>
    BY <1>t, <1>9 DEF FreeArg
  <2>2. LockInv' /\ lock = d /\ \A e \in Drivers : e # d => pc[e] \notin LockedPC
    BY <1>t, <1>i, <2>1 DEF LockInv, LockedPC
  <2>3. table[vec[d]] = [handler |-> Nobody, arg |-> d]
    BY <1>i, <2>1 DEF EntryInv
  <2>4. /\ table'[vec[d]] = Free
        /\ \A v \in Vectors : v # vec[d] => table'[v] = table[v]
    BY <1>t, <1>9, <2>3 DEF FreeArg, Free
  <2>5. \A e \in Drivers : vec[d] \notin owns[e]
    BY <2>3, NotOwned
  <2>6. EntryInv'
    BY <1>i, <2>1, <2>2, <2>4 DEF EntryInv, LockedPC
  <2>7. VectorStaysOwned'
    BY <1>t, <1>i, <2>1, <2>2, <2>4, <2>5 DEF VectorStaysOwned
  <2> QED
    BY <2>2, <2>6, <2>7 DEF TableInv
<1>10. CASE \/ Check(d) \/ CheckReturns(d) \/ Register(d) \/ Unregister(d)
            \/ \E a \in Addresses : BusError(d, a) \/ CheckClear(d, a)
  <2>1. /\ UNCHANGED irqVars
        /\ \A e \in Drivers : pc'[e] = pc[e] \/ (pc[e] \in OutsidePC /\ pc'[e] \in OutsidePC)
    BY <1>t, <1>10
    DEF Check, CheckReturns, Register, Unregister, BusError, CheckClear, OutsidePC, errVars
  <2> QED
    BY <2>1, TableFrame
<1> QED
  BY <1>1, <1>2, <1>3, <1>4, <1>5, <1>6, <1>7, <1>8, <1>9, <1>10 DEF DriverStep

-----------------------------------------------------------------------------
(* Bus errors.                                                             *)

\* A step that leaves the handler and all that it works on alone.
LEMMA ErrorFrame ==
  ASSUME ErrorInv, UNCHANGED <<isr, vlock, veat, polled, hlist>>,
         VERR \in ints' <=> VERR \in ints
  PROVE  ErrorInv'
<1>1. IsrInv' /\ PendingInv'
  BY DEF ErrorInv, IsrInv, PendingInv
<1>2. ErrorWillBeHandled' /\ ReportsRealErrors' /\ HandlersCalledAlive'
  BY DEF ErrorInv, ErrorWillBeHandled, ReportsRealErrors, HandlersCalledAlive, Listed
<1> QED
  BY <1>1, <1>2 DEF ErrorInv

\* Drivers meet bus errors, poll for them, and add and remove handlers.
LEMMA DriverErrors ==
  ASSUME TypeOK, ErrorInv, NEW d \in Drivers, DriverStep(d)
  PROVE  ErrorInv'
<1>i. IsrInv /\ PendingInv /\ ErrorWillBeHandled /\ ReportsRealErrors /\ HandlersCalledAlive
  BY DEF ErrorInv
<1>1. CASE Register(d) \/ Unregister(d)
  <2>1. UNCHANGED <<isr, vlock, veat, polled, ints>> /\ ~vlock
    BY <1>1 DEF Register, Unregister
  <2>2. isr.pc # "dispatch"
    BY <1>i, <2>1 DEF IsrInv
  <2>3. IsrInv' /\ PendingInv' /\ ErrorWillBeHandled' /\ ReportsRealErrors'
    BY <1>i, <2>1 DEF IsrInv, PendingInv, ErrorWillBeHandled, ReportsRealErrors
  <2>4. HandlersCalledAlive'
    BY <2>1, <2>2 DEF HandlersCalledAlive
  <2> QED
    BY <2>3, <2>4 DEF ErrorInv
<1>2. CASE CheckReturns(d)
  <2>1. CASE UNCHANGED <<veat, polled>>
    BY <1>2, <2>1, ErrorFrame DEF CheckReturns
  <2>2. CASE veat' = [veat EXCEPT !.ves = FALSE] /\ polled' = TRUE
    <3>1. ~veat'.ves /\ polled' /\ UNCHANGED <<isr, vlock, ints, hlist>>
      BY <1>2, <2>2 DEF CheckReturns, TypeOK
    <3>2. IsrInv' /\ PendingInv'
      BY <1>i, <3>1 DEF IsrInv, PendingInv
    <3>3. ErrorWillBeHandled' /\ ReportsRealErrors' /\ HandlersCalledAlive'
      BY <1>i, <3>1
      DEF ErrorWillBeHandled, ReportsRealErrors, HandlersCalledAlive, Listed
    <3> QED
      BY <3>2, <3>3 DEF ErrorInv
  <2> QED
    BY <1>2, <2>1, <2>2 DEF CheckReturns
<1>3. ASSUME NEW a \in Addresses, BusError(d, a) PROVE ErrorInv'
  <2>1. CASE veat.ves
    BY <1>3, <2>1, ErrorFrame DEF BusError
  <2>2. CASE ~veat.ves
    <3>1. /\ veat'.ves /\ VERR \in ints' /\ ints \subseteq ints'
          /\ UNCHANGED <<isr, vlock, hlist, polled>>
      BY <1>3, <2>2 DEF BusError
    <3>2. IsrInv'
      BY <1>i, <3>1 DEF IsrInv
    <3>3. PendingInv'
      BY <1>i, <2>2, <3>1 DEF PendingInv
    <3>4. ErrorWillBeHandled' /\ HandlersCalledAlive'
      BY <1>i, <3>1 DEF ErrorWillBeHandled, HandlersCalledAlive, Listed
    <3>5. isr.pc # "verr" \/ polled
      BY <1>i, <2>2 DEF ReportsRealErrors
    <3>6. ReportsRealErrors'
      BY <3>1, <3>5 DEF ReportsRealErrors
    <3> QED
      BY <3>2, <3>3, <3>4, <3>6 DEF ErrorInv
  <2> QED
    BY <2>1, <2>2
<1>4. CASE \/ CallRequest(d) \/ CallFree(d) \/ Lock(d) \/ Interrupted(d)
           \/ RequestRefused(d) \/ RequestTest(d) \/ RequestHandler(d) \/ RequestArg(d)
           \/ FreeHandler(d) \/ FreeArg(d) \/ Check(d)
           \/ \E a \in Addresses : CheckClear(d, a)
  <2>1. UNCHANGED <<isr, vlock, veat, polled, hlist, ints>>
    BY <1>4 DEF CallRequest, CallFree, Lock, Interrupted, RequestRefused, RequestTest,
       RequestHandler, RequestArg, FreeHandler, FreeArg, Check, CheckClear, errVars
  <2> QED
    BY <2>1, ErrorFrame
<1> QED
  BY <1>1, <1>2, <1>3, <1>4 DEF DriverStep

\* The interrupt handler loses no error, reports none twice, and calls the
\* handlers that are listed.
LEMMA IsrErrors ==
  ASSUME TypeOK, ErrorInv, IsrEnter \/ IsrShared \/ IsrRuns
  PROVE  ErrorInv'
<1>t. /\ isr \in [pc : IsrPC, mask : SUBSET (Latched \cup (1 .. 7)), err : Errors,
              todo : Seq(Drivers), vec : Vectors, handler : Someone, arg : Someone]
      /\ hlist \in Seq(Drivers)
  BY DEF TypeOK
<1>i. IsrInv /\ PendingInv /\ ErrorWillBeHandled /\ ReportsRealErrors /\ HandlersCalledAlive
  BY DEF ErrorInv
<1>v. VERR \in Enabled /\ VERR \notin 1 .. 7
  BY SourcesAssumption DEF VERR
<1> USE <1>t DEF IsrGoto, errVars
<1> DEFINE Safe == ErrorWillBeHandled' /\ ReportsRealErrors' /\ HandlersCalledAlive'
<1>1. CASE IsrEnter \/ IsrShared
  <2>1. /\ isr.pc = "idle" /\ isr'.pc = "status" /\ isr'.mask = isr.mask
        /\ isr'.handler = isr.handler /\ UNCHANGED <<ints, vlock, veat, polled, hlist>>
    BY <1>1 DEF IsrEnter, IsrShared
  <2>2. IsrInv' /\ PendingInv'
    BY <1>i, <2>1 DEF IsrInv, PendingInv
  <2>3. Safe
    BY <1>i, <2>1 DEF ErrorWillBeHandled, ReportsRealErrors, HandlersCalledAlive
  <2> QED
    BY <2>2, <2>3 DEF ErrorInv
<1>2. CASE IsrStatus
  <2>1. isr.pc = "status" /\ isr.mask = {} /\ UNCHANGED <<ints, vlock, veat, polled, hlist>>
    BY <1>i, <1>2 DEF IsrStatus, IsrInv
  <2>2. CASE Raised = {}
    <3>1. isr' = NoIsr /\ VERR \notin ints
      BY <1>2, <2>2 DEF IsrStatus, Raised
    <3>2. IsrInv' /\ PendingInv'
      BY <1>i, <2>1, <3>1 DEF IsrInv, PendingInv, NoIsr
    <3>3. Safe
      BY <1>i, <2>1, <3>1 DEF ErrorWillBeHandled, ReportsRealErrors, HandlersCalledAlive, NoIsr
    <3> QED
      BY <3>2, <3>3 DEF ErrorInv
  <2>3. CASE Raised # {}
    <3>1. isr'.pc = "clear" /\ isr'.mask = Raised /\ isr'.handler = isr.handler
      BY <1>2, <2>3 DEF IsrStatus
    <3>2. VERR \in Raised <=> VERR \in ints
      <4>1. \A v \in Vectors : LevelOf[v] # VERR
        BY SourcesAssumption DEF VERR
      <4>2. line \subseteq Vectors
        BY DEF TypeOK
      <4> QED
        BY <4>1, <4>2 DEF Raised, Levels
    <3>3. IsrInv'
      BY <1>i, <2>1, <3>1 DEF IsrInv
    <3>4. PendingInv'
      BY <1>i, <2>1, <3>1, <3>2 DEF PendingInv
    <3>5. Safe
      BY <1>i, <2>1, <3>1, <3>2 DEF ErrorWillBeHandled, ReportsRealErrors, HandlersCalledAlive
    <3> QED
      BY <3>3, <3>4, <3>5 DEF ErrorInv
  <2> QED
    BY <2>2, <2>3
<1>3. CASE IsrClear
  <2>1. /\ isr.pc = "clear" /\ ints' = ints \ isr.mask
        /\ UNCHANGED <<vlock, veat, polled, hlist>> /\ isr.handler = Nobody
    BY <1>i, <1>3 DEF IsrClear, IsrInv
  <2>2. CASE isr.mask \cap Enabled = {}
    <3>1. isr' = NoIsr /\ VERR \notin isr.mask
      BY <1>v, <1>3, <2>2 DEF IsrClear
    <3>2. IsrInv' /\ PendingInv'
      BY <1>i, <2>1, <3>1 DEF IsrInv, PendingInv, NoIsr
    <3>3. Safe
      BY <1>i, <2>1, <3>1 DEF ErrorWillBeHandled, ReportsRealErrors, HandlersCalledAlive, NoIsr
    <3> QED
      BY <3>2, <3>3 DEF ErrorInv
  <2>3. CASE isr.mask \cap Enabled # {}
    <3>1. isr'.pc = "handle" /\ isr'.mask = isr.mask \cap Enabled /\ isr'.handler = isr.handler
      BY <1>3, <2>3 DEF IsrClear
    <3>2. IsrInv'
      BY <1>i, <2>1, <3>1 DEF IsrInv
    <3>3. PendingInv'
      BY <1>i, <1>v, <2>1, <3>1 DEF PendingInv
    <3>4. Safe
      BY <1>i, <1>v, <2>1, <3>1 DEF ErrorWillBeHandled, ReportsRealErrors, HandlersCalledAlive
    <3> QED
      BY <3>2, <3>3, <3>4 DEF ErrorInv
  <2> QED
    BY <2>2, <2>3
<1>4. CASE IsrVerr
  <2>1. /\ isr.pc = "handle" /\ VERR \in isr.mask /\ vlock'
        /\ isr'.pc = "verr" /\ isr'.err = veat.err /\ isr'.mask = isr.mask
        /\ isr'.handler = isr.handler /\ UNCHANGED <<ints, veat, polled, hlist>>
    BY <1>4 DEF IsrVerr
  <2>2. IsrInv' /\ PendingInv'
    BY <1>i, <2>1 DEF IsrInv, PendingInv
  <2>3. ErrorWillBeHandled' /\ HandlersCalledAlive'
    BY <1>i, <2>1 DEF ErrorWillBeHandled, HandlersCalledAlive
  <2>4. ReportsRealErrors'
    <3>1. ~polled => veat.ves = TRUE
      BY <1>i, <2>1 DEF PendingInv, TypeOK
    <3>2. veat = [ves |-> veat.ves, err |-> veat.err]
      BY DEF TypeOK
    <3> QED
      BY <2>1, <3>1, <3>2 DEF ReportsRealErrors
  <2> QED
    BY <2>2, <2>3, <2>4 DEF ErrorInv
<1>5. CASE IsrVerrClear
  <2>1. /\ isr.pc = "verr" /\ ~veat'.ves
        /\ isr'.pc = "dispatch" /\ isr'.mask = isr.mask /\ isr'.todo = hlist
        /\ isr'.handler = Nobody /\ UNCHANGED <<ints, vlock, polled, hlist>>
    BY <1>i, <1>5 DEF IsrVerrClear, IsrInv, TypeOK
  <2>2. IsrInv'
    BY <1>i, <2>1 DEF IsrInv
  <2>3. PendingInv'
    <3>1. isr.pc = "verr" /\ ~polled => VERR \in isr.mask /\ VERR \notin ints
      BY <1>i DEF PendingInv, IsrInv
    <3> QED
      BY <2>1, <3>1 DEF PendingInv
  <2>4. Safe
    BY <1>i, <2>1 DEF ErrorWillBeHandled, ReportsRealErrors, HandlersCalledAlive, Listed
  <2> QED
    BY <2>2, <2>3, <2>4 DEF ErrorInv
<1>6. CASE IsrDispatch
  <2>1. /\ isr.pc = "dispatch" /\ isr.todo # <<>>
        /\ isr'.pc = "dispatch" /\ isr'.mask = isr.mask /\ isr'.todo = Tail(isr.todo)
        /\ isr'.handler \in {Nobody, Head(isr.todo)}
        /\ UNCHANGED <<ints, vlock, veat, polled, hlist>>
    BY <1>6 DEF IsrDispatch
  <2>2. IsrInv' /\ PendingInv'
    BY <1>i, <2>1 DEF IsrInv, PendingInv
  <2>3. ErrorWillBeHandled' /\ ReportsRealErrors'
    BY <1>i, <2>1 DEF ErrorWillBeHandled, ReportsRealErrors
  <2>4. HandlersCalledAlive'
    <3>1. \A k \in 1 .. Len(isr.todo) : Listed(isr.todo[k])
      BY <1>i, <2>1 DEF HandlersCalledAlive
    <3>2. Listed(Head(isr.todo))
      BY <2>1, <3>1
    <3>3. \A k \in 1 .. Len(Tail(isr.todo)) : Listed(Tail(isr.todo)[k])
      BY <2>1, <3>1
    <3> QED
      BY <2>1, <3>2, <3>3 DEF HandlersCalledAlive, Listed
  <2> QED
    BY <2>2, <2>3, <2>4 DEF ErrorInv
<1>7. CASE IsrVerrDone
  <2>1. /\ isr.pc = "dispatch" /\ ~vlock'
        /\ isr'.pc = "handle" /\ isr'.mask = isr.mask \ {VERR} /\ isr'.handler = Nobody
        /\ UNCHANGED <<ints, veat, polled, hlist>>
    BY <1>7 DEF IsrVerrDone
  <2>2. IsrInv' /\ PendingInv'
    BY <1>i, <2>1 DEF IsrInv, PendingInv
  <2>3. Safe
    BY <1>i, <2>1 DEF IsrInv, ErrorWillBeHandled, ReportsRealErrors, HandlersCalledAlive
  <2> QED
    BY <2>2, <2>3 DEF ErrorInv
<1>8. CASE IsrIack \/ IsrTest \/ IsrCall \/ IsrCallReturns
  <2>1. /\ isr.pc \in {"handle", "test", "call", "called"} /\ VERR \notin isr.mask
        /\ isr'.pc \in {"handle", "test", "call", "called"} /\ VERR \notin isr'.mask
        /\ isr'.pc \in {"handle", "test"} => isr'.handler = Nobody
        /\ UNCHANGED <<ints, vlock, veat, polled, hlist>>
    <3>1. CASE IsrIack  BY <1>i, <3>1 DEF IsrIack, IsrInv
    <3>2. CASE IsrTest  BY <1>i, <3>2 DEF IsrTest, IsrInv
    <3>3. CASE IsrCall  BY <1>i, <3>3 DEF IsrCall, IsrInv
    <3>4. CASE IsrCallReturns  BY <1>i, <3>4 DEF IsrCallReturns, IsrInv
    <3> QED
      BY <1>8, <3>1, <3>2, <3>3, <3>4
  <2>2. IsrInv' /\ PendingInv'
    BY <1>i, <2>1 DEF IsrInv, PendingInv
  <2>3. Safe
    BY <1>i, <2>1 DEF ErrorWillBeHandled, ReportsRealErrors, HandlersCalledAlive
  <2> QED
    BY <2>2, <2>3 DEF ErrorInv
<1>9. CASE IsrTurn
  <2>1. /\ isr.pc = "handle" /\ VERR \notin isr.mask
        /\ isr'.pc = "status" /\ isr'.mask = {} /\ isr'.handler = isr.handler
        /\ UNCHANGED <<ints, vlock, veat, polled, hlist>>
    BY <1>9 DEF IsrTurn
  <2>2. IsrInv' /\ PendingInv'
    BY <1>i, <2>1 DEF IsrInv, PendingInv
  <2>3. Safe
    BY <1>i, <2>1 DEF ErrorWillBeHandled, ReportsRealErrors, HandlersCalledAlive
  <2> QED
    BY <2>2, <2>3 DEF ErrorInv
<1> QED
  BY <1>1, <1>2, <1>3, <1>4, <1>5, <1>6, <1>7, <1>8, <1>9 DEF IsrRuns

-----------------------------------------------------------------------------
(* The properties.                                                         *)

\* The invariant holds always.
LEMMA Invariance == Spec => []IInv
<1>1. IInv /\ [Next]_vars => IInv'
  <2> SUFFICES ASSUME IInv, [Next]_vars PROVE IInv'
    OBVIOUS
  <2>0. TypeOK' /\ TypeOK /\ TableInv /\ ErrorInv
    BY TypeStep DEF IInv
  <2>1. ASSUME NEW d \in Drivers, DriverStep(d) PROVE TableInv' /\ ErrorInv'
    BY <2>0, <2>1, TableStep, DriverErrors
  <2>2. CASE (\E v \in Vectors : CardInterrupts(v)) \/ ChipInterrupts \/ UNCHANGED vars
    <3>1. /\ UNCHANGED irqVars /\ UNCHANGED <<isr, vlock, veat, polled, hlist, pc>>
          /\ VERR \in ints' <=> VERR \in ints
      BY <2>2 DEF CardInterrupts, ChipInterrupts, vars, irqVars, errVars
    <3>2. TableInv'
      BY <2>0, <3>1, TableFrame
    <3>3. ErrorInv'
      BY <2>0, <3>1, ErrorFrame
    <3> QED
      BY <2>0, <3>2, <3>3 DEF IInv
  <2>3. CASE IsrEnter \/ IsrShared \/ IsrRuns
    <3>1. UNCHANGED irqVars /\ pc' = pc
      BY <2>3 DEF IsrEnter, IsrShared, IsrRuns, IsrStatus, IsrClear, IsrVerr, IsrVerrClear,
         IsrDispatch, IsrVerrDone, IsrIack, IsrTest, IsrCall, IsrCallReturns, IsrTurn
    <3>2. TableInv'
      BY <2>0, <3>1, TableFrame
    <3>3. ErrorInv'
      BY <2>0, <2>3, IsrErrors
    <3> QED
      BY <2>0, <3>2, <3>3 DEF IInv
  <2> QED
    BY <2>0, <2>1, <2>2, <2>3 DEF IInv, Next
<1> QED
  BY <1>1, InitIInv, PTL DEF Spec

\* The types are right.
THEOREM TypeCorrect == Spec => []TypeOK
<1>1. IInv => TypeOK
  BY DEF IInv
<1> QED
  BY <1>1, Invariance, PTL

\* A vector that vme_request_irq() has given to a driver is its own until it
\* gives it back, whatever the other drivers do at the same time and whenever
\* signals stop them; and an entry in use has an owner.
THEOREM VectorsOwned == Spec => []VectorStaysOwned
<1>1. IInv => VectorStaysOwned
  BY DEF IInv, TableInv
<1> QED
  BY <1>1, Invariance, PTL

\* While the chip holds a bus error, the interrupt is pending or the handler is
\* still to read it: INTC is written with what was read of INTS only, and the
\* chip is freed before the next status is read.
THEOREM ErrorsHandled == Spec => []ErrorWillBeHandled
<1>1. IInv => ErrorWillBeHandled
  BY DEF IInv, ErrorInv
<1> QED
  BY <1>1, Invariance, PTL

\* As long as nobody polls, handle_vme_error() reports errors that the chip has
\* caught, each of them once.
THEOREM ErrorsReal == Spec => []ReportsRealErrors
<1>1. IInv => ReportsRealErrors
  BY DEF IInv, ErrorInv
<1> QED
  BY <1>1, Invariance, PTL

\* A bus error handler is not called once vme_unregister_berr_handler() has
\* returned.
THEOREM HandlersAlive == Spec => []HandlersCalledAlive
<1>1. IInv => HandlersCalledAlive
  BY DEF IInv, ErrorInv
<1> QED
  BY <1>1, Invariance, PTL
=============================================================================

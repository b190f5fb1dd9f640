---------------------------- MODULE VmeInterrupt ----------------------------
(***************************************************************************)
(* Interrupts and bus errors of the VME bridge                             *)
(* (src/vmebridge/driver/vme_irq.c and vme_misc.c, with the register       *)
(* accesses of tsi148.c and tsi148.h).                                     *)
(*                                                                         *)
(* Drivers install and remove handlers for VME interrupt vectors, under a  *)
(* mutex the interrupt handler does not take, and handlers for bus errors, *)
(* under a spinlock it does take.  They access the bus, and look for bus   *)
(* errors.  The interrupt handler vme_bridge_interrupt() runs concurrently *)
(* with all of them, on another CPU, never twice at a time.                *)
(***************************************************************************)
EXTENDS Integers, Sequences, FiniteSets

CONSTANTS Drivers,
          Nobody,       \* NULL
          Vectors,      \* interrupt vectors of the cards in the crate
          LevelOf,      \* LevelOf[v]: the IRQ level v is raised on, 1 to 7
          Latched,      \* interrupt sources of the chip itself
          Enabled,      \* vme_interrupts_enabled, fixed by the initialisation
          Addresses,    \* addresses where the bus answers with an error
          RangeOf,      \* RangeOf[d]: the addresses d's bus error handler is for
          Wants,        \* Wants[d]: the vectors d asks for
          Pollers,      \* the drivers that call vme_bus_error_check()
          Signals       \* can a signal interrupt a wait for the mutex?

\* Interrupt sources are named by their bit in INTS: 1 to 7 are the IRQ lines.
VERR == 12                                     \* TSI148_LCSR_INT_VERR

ASSUME DriversAssumption ==
  /\ IsFiniteSet(Drivers) /\ Nobody \notin Drivers /\ Pollers \subseteq Drivers
ASSUME SourcesAssumption ==
  /\ IsFiniteSet(Vectors) /\ Vectors # {} /\ LevelOf \in [Vectors -> 1 .. 7]
  /\ Wants \in [Drivers -> SUBSET Vectors]
  /\ Latched \subseteq 8 .. 25 /\ VERR \in Latched
  /\ Enabled \subseteq Latched \cup (1 .. 7) /\ VERR \in Enabled
  /\ Signals \in BOOLEAN
ASSUME RangesAssumption ==
  RangeOf \in [Drivers -> SUBSET Addresses] /\ Nobody \notin Addresses

NoAddress == Nobody

VARIABLES
  lock,      \* holder of vme_irq_table_lock
  table,     \* vme_irq_table[v]: handler and argument, named by their driver
  owns,      \* owns[d]: the vectors vme_request_irq() has given to d
  ints,      \* INTS register, the bits of Latched
  line,      \* vectors whose cards pull an IRQ line: the other bits of INTS
  veat,      \* VEAU, VEAL and VEAT: the bus error caught by the chip
  vlock,     \* verr.lock is held (by the interrupt handler)
  desc,      \* verr.desc: the last bus error the driver knows of
  hlist,     \* verr.h_list: the bus error handlers
  isr,       \* control point and local variables of vme_bridge_interrupt()
  pc, vec,   \* control point of each driver, and the vector it works on
  polled     \* vme_bus_error_check() has ever cleared an error

vars == <<lock, table, owns, ints, line, veat, vlock, desc, hlist, isr,
          pc, vec, polled>>
irqVars == <<lock, table, owns, vec>>
errVars == <<veat, vlock, desc, hlist, polled>>

Free == [handler |-> Nobody, arg |-> Nobody]
Levels == {LevelOf[v] : v \in line}
Raised == ints \cup Levels
AnyVector == CHOOSE v \in Vectors : TRUE
NoIsr == [pc |-> "idle", mask |-> {}, err |-> NoAddress, todo |-> <<>>,
          vec |-> AnyVector, handler |-> Nobody, arg |-> Nobody]

Init ==
  /\ lock = Nobody
  /\ table = [v \in Vectors |-> Free]
  /\ owns = [d \in Drivers |-> {}]
  /\ ints = {} /\ line = {}
  /\ veat = [ves |-> FALSE, err |-> NoAddress]
  /\ vlock = FALSE
  /\ desc = [valid |-> FALSE, err |-> NoAddress]
  /\ hlist = <<>>
  /\ isr = NoIsr
  /\ pc = [d \in Drivers |-> "idle"]
  /\ vec = [d \in Drivers |-> AnyVector]
  /\ polled = FALSE

-----------------------------------------------------------------------------
(* vme_request_irq() and vme_free_irq()                                    *)

Goto(d, from, to) == pc[d] = from /\ pc' = [pc EXCEPT ![d] = to]

CallRequest(d) ==
  /\ Goto(d, "idle", "request")
  /\ \E v \in Wants[d] \ owns[d] : vec' = [vec EXCEPT ![d] = v]
  /\ UNCHANGED <<lock, table, owns, ints, line, isr, errVars>>

\* A driver frees what it was given.  vme_free_irq() looks at the vector only and
\* would remove the handler of any driver; that its callers do not ask for that
\* is their obligation, and an assumption of this module.
CallFree(d) ==
  /\ Goto(d, "idle", "free")
  /\ \E v \in owns[d] : vec' = [vec EXCEPT ![d] = v]
  /\ UNCHANGED <<lock, table, owns, ints, line, isr, errVars>>

\* mutex_lock_interruptible()
Lock(d) ==
  /\ \/ Goto(d, "request", "test")
     \/ Goto(d, "free", "remove")
  /\ lock = Nobody /\ lock' = d
  /\ UNCHANGED <<table, owns, vec, ints, line, isr, errVars>>

Interrupted(d) ==
  /\ Signals /\ lock # Nobody
  /\ Goto(d, "request", "idle") \/ Goto(d, "free", "idle")
  /\ UNCHANGED <<irqVars, ints, line, isr, errVars>>

\* -EBUSY
RequestRefused(d) ==
  /\ Goto(d, "test", "idle") /\ table[vec[d]].handler # Nobody
  /\ lock' = Nobody
  /\ UNCHANGED <<table, owns, vec, ints, line, isr, errVars>>

\* Mutant of RequestTest: a vector that is in use is given away.
RequestUntested(d) ==
  /\ Goto(d, "test", "handler")
  /\ UNCHANGED <<irqVars, ints, line, isr, errVars>>

RequestTest(d) ==
  /\ Goto(d, "test", "handler") /\ table[vec[d]].handler = Nobody
  /\ UNCHANGED <<irqVars, ints, line, isr, errVars>>

\* The handler is written first ...
RequestHandler(d) ==
  /\ Goto(d, "handler", "arg")
  /\ table' = [table EXCEPT ![vec[d]].handler = d]
  /\ UNCHANGED <<lock, owns, vec, ints, line, isr, errVars>>

\* ... and then its argument.
RequestArg(d) ==
  /\ Goto(d, "arg", "idle")
  /\ table' = [table EXCEPT ![vec[d]].arg = d]
  /\ owns' = [owns EXCEPT ![d] = @ \cup {vec[d]}]
  /\ lock' = Nobody
  /\ UNCHANGED <<vec, ints, line, isr, errVars>>

\* -EINVAL when there is no handler.
FreeHandler(d) ==
  /\ pc[d] = "remove"
  /\ owns' = [owns EXCEPT ![d] = @ \ {vec[d]}]
  /\ IF table[vec[d]].handler = Nobody
       THEN Goto(d, "remove", "idle") /\ lock' = Nobody /\ UNCHANGED table
       ELSE /\ Goto(d, "remove", "unarg") /\ UNCHANGED lock
            /\ table' = [table EXCEPT ![vec[d]].handler = Nobody]
  /\ UNCHANGED <<vec, ints, line, isr, errVars>>

FreeArg(d) ==
  /\ Goto(d, "unarg", "idle")
  /\ table' = [table EXCEPT ![vec[d]].arg = Nobody]
  /\ lock' = Nobody
  /\ UNCHANGED <<owns, vec, ints, line, isr, errVars>>

-----------------------------------------------------------------------------
(* Bus errors, as drivers see them                                         *)

\* An access of d meets an error at a.  The chip keeps the first error until
\* it is cleared; an error that comes before is counted as an overflow.
BusError(d, a) ==
  /\ Goto(d, "idle", IF d \in Pollers THEN "failed" ELSE "idle")
  /\ IF veat.ves
       THEN UNCHANGED <<veat, ints>>
       ELSE /\ veat' = [ves |-> TRUE, err |-> a]
            /\ ints' = ints \cup {VERR}
  /\ UNCHANGED <<irqVars, line, vlock, desc, hlist, polled, isr>>

\* After an access, failed or not, d calls vme_bus_error_check(1), which reads
\* VEAT without a lock ...
Check(d) ==
  /\ d \in Pollers
  /\ IF veat.ves
       THEN Goto(d, "idle", "found") \/ Goto(d, "failed", "found")
       ELSE Goto(d, "failed", "missed")
  /\ UNCHANGED <<irqVars, ints, line, isr, errVars>>

\* ... and clears it if there was an error.
CheckReturns(d) ==
  /\ \/ /\ Goto(d, "found", "idle")
        /\ veat' = [veat EXCEPT !.ves = FALSE] /\ polled' = TRUE
     \/ Goto(d, "missed", "idle") /\ UNCHANGED <<veat, polled>>
  /\ UNCHANGED <<irqVars, ints, line, vlock, desc, hlist, isr>>

Listed(d) == \E k \in 1 .. Len(hlist) : hlist[k] = d

\* vme_register_berr_handler(), for a range that is not empty; a driver has
\* one handler at most.
Register(d) ==
  /\ pc[d] = "idle" /\ RangeOf[d] # {} /\ ~Listed(d) /\ ~vlock
  /\ hlist' = Append(hlist, d)
  /\ UNCHANGED <<irqVars, ints, line, veat, vlock, desc, polled, isr, pc>>

\* list_del() of the k-th entry.
Without(list, k) == SubSeq(list, 1, k - 1) \o SubSeq(list, k + 1, Len(list))

\* Mutant of Unregister: the entry is freed without the spinlock.
UnregisterUnlocked(d) ==
  /\ pc[d] = "idle"
  /\ \E k \in 1 .. Len(hlist) : hlist[k] = d /\ hlist' = Without(hlist, k)
  /\ UNCHANGED <<irqVars, ints, line, veat, vlock, desc, polled, isr, pc>>

\* vme_unregister_berr_handler()
Unregister(d) ==
  /\ pc[d] = "idle" /\ ~vlock
  /\ \E k \in 1 .. Len(hlist) : hlist[k] = d /\ hlist' = Without(hlist, k)
  /\ UNCHANGED <<irqVars, ints, line, veat, vlock, desc, polled, isr, pc>>

\* vme_bus_error_check_clear() for an error at a finds it and clears it.
CheckClear(d, a) ==
  /\ pc[d] = "idle" /\ ~vlock
  /\ desc.valid /\ desc.err = a
  /\ desc' = [desc EXCEPT !.valid = FALSE]
  /\ UNCHANGED <<irqVars, ints, line, veat, vlock, hlist, polled, isr, pc>>

-----------------------------------------------------------------------------
(* The cards and the chip                                                  *)

\* A card interrupts.  It releases the line when its vector is fetched.
CardInterrupts(v) ==
  /\ line' = line \cup {v} /\ v \notin line
  /\ UNCHANGED <<irqVars, ints, errVars, isr, pc>>

\* A mailbox or a location monitor is hit, a source that is not enabled is seen.
ChipInterrupts ==
  /\ \E s \in Latched \ ({VERR} \cup ints) : ints' = ints \cup {s}
  /\ UNCHANGED <<irqVars, line, errVars, isr, pc>>

-----------------------------------------------------------------------------
(* vme_bridge_interrupt()                                                  *)

IsrGoto(from, to) == isr.pc = from /\ isr' = [isr EXCEPT !.pc = to]

\* The chip interrupts the CPU.
IsrEnter ==
  /\ IsrGoto("idle", "status") /\ Raised \cap Enabled # {}
  /\ UNCHANGED <<irqVars, ints, line, errVars, pc>>

\* The line is shared: another device interrupts.
IsrShared ==
  /\ IsrGoto("idle", "status") /\ Raised \cap Enabled = {}
  /\ UNCHANGED <<irqVars, ints, line, errVars, pc>>

\* One turn of the loop begins; it is the last if nothing is raised.
IsrStatus ==
  /\ isr.pc = "status"
  /\ isr' = IF Raised = {} THEN NoIsr
            ELSE [isr EXCEPT !.pc = "clear", !.mask = Raised]
  /\ UNCHANGED <<irqVars, ints, line, errVars, pc>>

\* Mutants of IsrClear: INTC is written with all ones; it is not written.
IsrClearAll ==
  /\ isr.pc = "clear"
  /\ ints' = {}
  /\ isr' = IF isr.mask \cap Enabled = {} THEN NoIsr
            ELSE [isr EXCEPT !.pc = "handle", !.mask = @ \cap Enabled]
  /\ UNCHANGED <<irqVars, line, errVars, pc>>
IsrClearNot ==
  /\ isr.pc = "clear"
  /\ isr' = IF isr.mask \cap Enabled = {} THEN NoIsr
            ELSE [isr EXCEPT !.pc = "handle", !.mask = @ \cap Enabled]
  /\ UNCHANGED <<irqVars, ints, line, errVars, pc>>

\* What was raised is cleared (INTC has no bits for the IRQ lines); IRQ_NONE
\* is returned if nothing of it is enabled.
IsrClear ==
  /\ isr.pc = "clear"
  /\ ints' = ints \ isr.mask
  /\ isr' = IF isr.mask \cap Enabled = {} THEN NoIsr
            ELSE [isr EXCEPT !.pc = "handle", !.mask = @ \cap Enabled]
  /\ UNCHANGED <<irqVars, line, errVars, pc>>

\* handle_vme_error(): the lock is taken and the registers are read, whether
\* they hold an error or not ...
IsrVerr ==
  /\ isr.pc = "handle" /\ VERR \in isr.mask
  /\ ~vlock /\ vlock' = TRUE
  /\ isr' = [isr EXCEPT !.pc = "verr", !.err = veat.err]
  /\ UNCHANGED <<irqVars, ints, line, veat, desc, hlist, polled, pc>>

\* ... the chip is free to catch another one, and this one is kept ...
IsrVerrClear ==
  /\ isr.pc = "verr"
  /\ veat' = [veat EXCEPT !.ves = FALSE]
  /\ desc' = [valid |-> TRUE, err |-> isr.err]
  /\ isr' = [isr EXCEPT !.pc = "dispatch", !.todo = hlist]
  /\ UNCHANGED <<irqVars, ints, line, vlock, hlist, polled, pc>>

\* ... __vme_dispatch_berr() calls the handlers it is for, one after the other ...
IsrDispatch ==
  /\ isr.pc = "dispatch" /\ isr.todo # <<>>
  /\ isr' = [isr EXCEPT !.todo = Tail(@),
               !.handler = IF isr.err \in RangeOf[Head(isr.todo)]
                             THEN Head(isr.todo) ELSE Nobody]
  /\ UNCHANGED <<irqVars, ints, line, errVars, pc>>

\* ... and the lock is dropped.
IsrVerrDone ==
  /\ isr.pc = "dispatch" /\ isr.todo = <<>>
  /\ vlock' = FALSE
  /\ isr' = [isr EXCEPT !.pc = "handle", !.mask = @ \ {VERR},
               !.handler = Nobody, !.err = NoAddress]
  /\ UNCHANGED <<irqVars, ints, line, veat, desc, hlist, polled, pc>>

IrqMask == isr.mask \cap (1 .. 7)                  \* TSI148_LCSR_INT_IRQM
Highest == CHOOSE l \in IrqMask : \A m \in IrqMask : m <= l

\* Mutant of IsrIack: one level is served and then the status is read again.
IsrIackHighestOnly ==
  /\ isr.pc = "handle" /\ VERR \notin isr.mask /\ IrqMask # {}
  /\ \E v \in {v \in line : LevelOf[v] = Highest} :
       /\ line' = line \ {v}
       /\ isr' = [isr EXCEPT !.pc = "test", !.vec = v, !.mask = {}]
  /\ UNCHANGED <<irqVars, ints, errVars, pc>>

\* handle_vme_interrupt(): the highest level of the mask is acknowledged, and
\* a card that pulls it gives its vector.
IsrIack ==
  /\ isr.pc = "handle" /\ VERR \notin isr.mask /\ IrqMask # {}
  /\ \E v \in {v \in line : LevelOf[v] = Highest} :
       /\ line' = line \ {v}
       /\ isr' = [isr EXCEPT !.pc = "test", !.vec = v, !.mask = @ \ {Highest}]
  /\ UNCHANGED <<irqVars, ints, errVars, pc>>

\* if (virq->handler)
IsrTest ==
  /\ isr.pc = "test"
  /\ LET h == table[isr.vec].handler IN
     isr' = [isr EXCEPT !.pc = IF h = Nobody THEN "handle" ELSE "call",
                        !.handler = h,
                        !.vec = IF h = Nobody THEN AnyVector ELSE @]
  /\ UNCHANGED <<irqVars, ints, line, errVars, pc>>

\* virq->handler(virq->arg): the argument is read now, and the handler again
\* if the compiler has not kept it.
IsrCall ==
  /\ isr.pc = "call"
  /\ \E h \in {isr.handler, table[isr.vec].handler} :
       isr' = [isr EXCEPT !.pc = "called", !.handler = h,
                          !.arg = table[isr.vec].arg]
  /\ UNCHANGED <<irqVars, ints, line, errVars, pc>>

IsrCallReturns ==
  /\ isr.pc = "called"
  /\ isr' = [isr EXCEPT !.pc = "handle", !.handler = Nobody, !.arg = Nobody,
                      !.vec = AnyVector]
  /\ UNCHANGED <<irqVars, ints, line, errVars, pc>>

\* Everything is handled: the sources that are left are only counted (for the
\* DMA channels see HandleDmaInterrupt of VmeDma).
IsrTurn ==
  /\ isr.pc = "handle" /\ VERR \notin isr.mask /\ IrqMask = {}
  /\ isr' = [isr EXCEPT !.pc = "status", !.mask = {}]
  /\ UNCHANGED <<irqVars, ints, line, errVars, pc>>

-----------------------------------------------------------------------------

DriverStep(d) ==
  \/ CallRequest(d) \/ CallFree(d) \/ Lock(d) \/ Interrupted(d)
  \/ RequestRefused(d) \/ RequestTest(d) \/ RequestHandler(d) \/ RequestArg(d)
  \/ FreeHandler(d) \/ FreeArg(d)
  \/ Check(d) \/ CheckReturns(d) \/ Register(d) \/ Unregister(d)
  \/ \E a \in Addresses : BusError(d, a) \/ CheckClear(d, a)

IsrRuns ==
  \/ IsrStatus \/ IsrClear \/ IsrVerr \/ IsrVerrClear \/ IsrDispatch
  \/ IsrVerrDone \/ IsrIack \/ IsrTest \/ IsrCall
  \/ IsrCallReturns \/ IsrTurn

Next ==
  \/ \E d \in Drivers : DriverStep(d)
  \/ \E v \in Vectors : CardInterrupts(v)
  \/ ChipInterrupts
  \/ IsrEnter \/ IsrShared \/ IsrRuns

Spec == Init /\ [][Next]_vars

\* The CPU takes an interrupt that is raised and enabled, and runs its handler
\* to the end.
Fairness == WF_vars(IsrEnter) /\ WF_vars(IsrRuns)

FairSpec == Spec /\ Fairness

-----------------------------------------------------------------------------
(* Properties                                                              *)

IsrPC == {"idle", "status", "clear", "handle", "verr", "dispatch", "test",
          "call", "called"}
DriverPC == {"idle", "request", "free", "test", "handler", "arg", "remove",
             "unarg", "failed", "found", "missed"}
Someone == Drivers \cup {Nobody}
Errors == Addresses \cup {NoAddress}

\* Every variable has its type.
TypeOK ==
  /\ lock \in Someone
  /\ table \in [Vectors -> [handler : Someone, arg : Someone]]
  /\ owns \in [Drivers -> SUBSET Vectors]
  /\ ints \subseteq Latched /\ line \subseteq Vectors
  /\ veat \in [ves : BOOLEAN, err : Errors]
  /\ vlock \in BOOLEAN
  /\ desc \in [valid : BOOLEAN, err : Errors]
  /\ hlist \in Seq(Drivers)
  /\ isr \in [pc : IsrPC, mask : SUBSET (Latched \cup (1 .. 7)), err : Errors,
              todo : Seq(Drivers), vec : Vectors, handler : Someone, arg : Someone]
  /\ pc \in [Drivers -> DriverPC]
  /\ vec \in [Drivers -> Vectors]
  /\ polled \in BOOLEAN

\* A vector that vme_request_irq() has given to a driver is its own until it
\* gives it back: its handler and its argument are in the table, whatever
\* others request and free, and whenever a signal stops them.  Once it has been
\* given back it is free again: an entry is in use only for a driver that owns it
\* or is about to.
VectorStaysOwned ==
  /\ \A d \in Drivers : \A v \in owns[d] :
       table[v] = [handler |-> d, arg |-> d]
  /\ \A v \in Vectors : table[v] # Free =>
       \E d \in Drivers :
         v \in owns[d] \/ (lock = d /\ vec[d] = v /\ pc[d] \in {"arg", "unarg"})

\* No bus error goes unnoticed: while the chip holds one, the interrupt is
\* pending or the interrupt handler is still to read the registers.
ErrorWillBeHandled ==
  veat.ves => VERR \in ints \cup isr.mask

\* The error that handle_vme_error() reports is one that the chip has caught and
\* that has not been reported before (as long as nobody polls for errors).
ReportsRealErrors ==
  isr.pc = "verr" /\ ~polled => veat = [ves |-> TRUE, err |-> isr.err]

\* A bus error handler is not called, and its memory not looked at, once
\* vme_unregister_berr_handler() has returned.
HandlersCalledAlive ==
  isr.pc = "dispatch" =>
    /\ \A k \in 1 .. Len(isr.todo) : Listed(isr.todo[k])
    /\ isr.handler # Nobody => Listed(isr.handler)

\* Every VME interrupt of an enabled level is acknowledged, also one that comes
\* while others are served.
EveryInterruptServed ==
  \A v \in Vectors : LevelOf[v] \in Enabled => (v \in line) ~> (v \notin line)

\* "When the handler is called, it is passed the argument arg" (vmebridge.txt).
HandlerGetsItsArg ==
  isr.pc = "called" => isr.handler # Nobody /\ isr.arg = isr.handler

\* "Returns 1 if a bus error occurred else 0" (vmebridge.txt): a driver whose
\* access met an error is told so by vme_bus_error_check().
PollerIsTold == \A d \in Drivers : pc[d] # "missed"
=============================================================================

------------------------------ MODULE VmeWindow ------------------------------
(***************************************************************************)
(* The table of PCI-VME windows and the mappings on top of them            *)
(* (src/vmebridge/driver/vme_window.c, and find_controller() and           *)
(* return_controller() of vme_cesif.c).                                    *)
(*                                                                         *)
(* A window is a hardware resource that makes a range of the VME bus       *)
(* visible on the PCI bus.  A mapping is a client's claim on a part of a   *)
(* window.  Clients are processes that use the ioctls of the window        *)
(* device, each with its own open file, and drivers that call the exported *)
(* functions.  Each window has a mutex; what the code does under the mutex *)
(* is one step, what it does without is split at every access to what      *)
(* others can change.                                                      *)
(*                                                                         *)
(* Addresses and sizes are counted in units small enough for Align units   *)
(* to be the 64K granularity of the chip.                                  *)
(***************************************************************************)
EXTENDS Integers, Sequences, FiniteSets

CONSTANTS Users,        \* processes; a process stands for its open file too
          Kernel,       \* drivers, whose mappings have no file
          NumWindows,   \* TSI148_NUM_OUT_WINDOWS
          Requests,     \* Requests[t]: the address ranges t asks for
          Align,        \* 64K
          SpaceA24,     \* size of the A24 address space, a multiple of Align
          Top,          \* 2^32: addresses and sizes wrap there
          Wide,         \* have virtual addresses more than 32 bits?
          Ops,          \* the operations clients use
          Faults,       \* the steps of creating a window that may fail
          Signals,      \* can a signal interrupt a wait for a mutex?
          Serial,       \* is a call made only when no other is under way?
          MaxHeld,      \* bound: mappings a client holds at a time
          Nobody

Tasks == Users \cup Kernel
Windows == 0 .. NumWindows - 1
Slots == 1 .. MaxHeld

ASSUME ClientsAssumption ==
  /\ IsFiniteSet(Tasks) /\ Users \cap Kernel = {} /\ Nobody \notin Tasks
ASSUME SizesAssumption ==
  /\ NumWindows \in Nat \ {0} /\ Align \in Nat \ {0} /\ MaxHeld \in Nat
  /\ SpaceA24 \in Nat /\ SpaceA24 % Align = 0 /\ Top \in Nat \ {0}
ASSUME RequestsAssumption ==
  Requests \in [Tasks -> SUBSET [addr : Nat, size : Nat, am : {"A24", "A32"}]]
ASSUME OptionsAssumption ==
  /\ Ops \subseteq {"create", "destroy", "find", "release", "close", "return",
                    "options"}
  /\ Faults \subseteq {"resource", "ioremap", "chip", "kzalloc", "efault"}
  /\ Signals \in BOOLEAN /\ Serial \in BOOLEAN /\ Wide \in BOOLEAN

VARIABLES
  lock,             \* lock[w]: holder of the window's mutex
  win,              \* win[w]: the window descriptor, see Window
  maps,             \* maps[w]: its list of mappings
  users,            \* users[w]: its user count
  bus,              \* bus[w]: what PCI, the page tables and the chip hold for it
  createOnFind,     \* vme_create_on_find_fail
  destroyOnRemove,  \* vme_destroy_on_remove
  pc, loc,          \* control point and local variables of each client's call
  held              \* held[t]: what t was given by vme_find_mapping() and has
                    \* not given back

vars == <<lock, win, maps, users, bus, createOnFind, destroyOnRemove,
          pc, loc, held>>
table == <<win, maps, users, bus>>
options == <<createOnFind, destroyOnRemove>>

\* kernel_va: a window's I/O mapping (named by the window) and an offset.
NULL == -1
Va == [base : Windows \cup {NULL}, off : Int]

\* desc of a window; it keeps the address of a destroyed window, not its va.
Unused == [active |-> FALSE, addr |-> 0, size |-> 0, am |-> "none", va |-> NULL]

\* Who a mapping belongs to: client.file, NULL for all drivers.
FileOf(t) == IF t \in Users THEN t ELSE Nobody

\* Local variables of a call: what was asked for (match), the window to create
\* for it (wnd), the mapping to add or to remove, the handle to give up, the
\* force argument, and what was read without a lock (list tail, user count).
NoReq == [addr |-> 0, size |-> 0, am |-> "none"]
NoVa == [base |-> NULL, off |-> 0]
NoId == <<Nobody, 0>>
NoMapping == [id |-> NoId, addr |-> 0, size |-> 0, va |-> NoVa, file |-> Nobody]
NoLoc == [op |-> "none", win |-> 0, next |-> "idle", match |-> NoReq,
          wnd |-> NoReq, m |-> NoMapping, handle |-> NoId, force |-> FALSE,
          tail |-> NoId, users |-> 0]

Init ==
  /\ lock = [w \in Windows |-> Nobody]
  /\ win = [w \in Windows |-> Unused]
  /\ maps = [w \in Windows |-> <<>>]
  /\ users = [w \in Windows |-> 0]
  /\ bus = [w \in Windows |-> {}]
  /\ createOnFind = FALSE
  /\ destroyOnRemove = FALSE
  /\ pc = [t \in Tasks |-> "idle"]
  /\ loc = [t \in Tasks |-> NoLoc]
  /\ held = [t \in Tasks |-> {}]

-----------------------------------------------------------------------------
(* Address arithmetic                                                      *)

RoundDown(a) == a - (a % Align)
RoundUp(s) == IF s % Align = 0 THEN s ELSE RoundDown((s + Align) % Top)

\* vme_create_window() rounds the address down and the size up.  It also adds
\* to the size the difference between the address and the rounded address,
\* after having replaced the one by the other: nothing is added.
Rounded(r) ==
  [addr |-> RoundDown(r.addr),
   size |-> RoundUp(r.size + (RoundDown(r.addr) - RoundDown(r.addr))),
   am |-> r.am]

\* vme_optimize_window_size(): one window for the whole of A24.
Optimized(r) ==
  IF r.am = "A24" THEN [addr |-> 0, size |-> SpaceA24, am |-> r.am] ELSE r

\* vme_mapping_sanity_check()
Sane(r) == r.am = "A24" => r.addr < SpaceA24

\* The test of __vme_find_mapping() on a window, in 32-bit arithmetic.
Matches(w, r) ==
  /\ win[w].active
  /\ win[w].am = r.am
  /\ win[w].addr <= r.addr
  /\ (win[w].addr + win[w].size) % Top >= (r.addr + r.size) % Top

-----------------------------------------------------------------------------
(* Calls and locks                                                         *)

\* A call waits for the mutex of window w; "next" is what it does then.
WaitFor(t, w, next, l) ==
  /\ pc' = [pc EXCEPT ![t] = "lock"]
  /\ loc' = [loc EXCEPT ![t] = [l EXCEPT !.win = w, !.next = next]]

\* The call is over.
Finish(t) ==
  /\ pc' = [pc EXCEPT ![t] = "idle"]
  /\ loc' = [loc EXCEPT ![t] = NoLoc]

Unlock(w) == lock' = [lock EXCEPT ![w] = Nobody]

Lock(t) ==
  /\ pc[t] = "lock" /\ lock[loc[t].win] = Nobody
  /\ lock' = [lock EXCEPT ![loc[t].win] = t]
  /\ pc' = [pc EXCEPT ![t] = loc[t].next]
  /\ UNCHANGED <<table, options, loc, held>>

\* A signal interrupts the wait for a mutex that somebody holds: the call
\* returns -ERESTARTSYS (find_vme_mapping_from_addr() returns NULL), and
\* vme_window_release() gives up the windows it has not come to.
Interrupted(t) ==
  /\ Signals
  /\ pc[t] = "lock" /\ lock[loc[t].win] # Nobody
  /\ IF loc[t].op = "close"
       THEN /\ pc' = [pc EXCEPT ![t] = "closed"]
            /\ UNCHANGED loc
       ELSE Finish(t)
  /\ UNCHANGED <<lock, table, options, held>>

\* The mappings that t has room for; a name for the next one.
Listed(w, id) == \E i \in 1 .. Len(maps[w]) : maps[w][i].id = id
FreeSlots(t) ==
  {k \in Slots : /\ \A h \in held[t] : h.id # <<t, k>>
                 /\ \A w \in Windows : ~Listed(w, <<t, k>>)}
NewId(t) == <<t, CHOOSE k \in FreeSlots(t) : \A j \in FreeSlots(t) : k <= j>>

-----------------------------------------------------------------------------
(* vme_create_window()                                                     *)

CallCreate(t) ==
  /\ pc[t] = "idle" /\ "create" \in Ops
  /\ \E w \in Windows, r \in Requests[t] :
       /\ r.size # 0
       /\ WaitFor(t, w, "create", [NoLoc EXCEPT !.op = "create", !.wnd = Rounded(r)])
  /\ UNCHANGED <<lock, table, options, held>>

\* The three things a window is made of, in the order they are obtained, and
\* what has been obtained when one of them cannot be had.
Parts == {"resource", "iomap", "chip"}
Obtained(fault) ==
  CASE fault = "resource" -> {}
    [] fault = "ioremap" -> {"resource"}
    [] fault = "chip" -> {"resource", "iomap"}

\* Mutant of Unwound: tsi148_create_window() failing goes to out_free.
UnwoundTooLate(fault) == IF fault = "ioremap" THEN {"resource"} ELSE {}

\* What the labels out_unmap, out_release and out_free give back.
Unwound(fault) ==
  CASE fault = "resource" -> {}
    [] fault = "ioremap" -> {"resource"}
    [] fault = "chip" -> {"iomap", "resource"}

\* Mutant of CreateRefused: the mutex is not dropped.
CreateRefusedLocked(t) ==
  /\ pc[t] = "create" /\ win[loc[t].win].active
  /\ Finish(t)
  /\ UNCHANGED <<lock, table, options, held>>

\* -EBUSY
CreateRefused(t) ==
  /\ pc[t] = "create" /\ win[loc[t].win].active
  /\ Unlock(loc[t].win) /\ Finish(t)
  /\ UNCHANGED <<table, options, held>>

CreateFails(t) ==
  LET w == loc[t].win IN
  /\ pc[t] = "create" /\ ~win[w].active
  /\ \E fault \in Faults \ {"kzalloc", "efault"} :
       bus' = [bus EXCEPT ![w] = (@ \cup Obtained(fault)) \ Unwound(fault)]
  /\ Unlock(w) /\ Finish(t)
  /\ UNCHANGED <<win, maps, users, options, held>>

\* Called from __vme_find_mapping() the mapping is still to be added.
Create(t) ==
  LET w == loc[t].win  d == loc[t].wnd IN
  /\ pc[t] = "create" /\ ~win[w].active
  /\ win' = [win EXCEPT ![w] = [active |-> TRUE, addr |-> d.addr,
                                size |-> d.size, am |-> d.am, va |-> w]]
  /\ bus' = [bus EXCEPT ![w] = Parts]
  /\ Unlock(w)
  /\ IF loc[t].op = "find"
       THEN pc' = [pc EXCEPT ![t] = "attach"] /\ UNCHANGED loc
       ELSE Finish(t)
  /\ UNCHANGED <<maps, users, options, held>>

-----------------------------------------------------------------------------
(* vme_destroy_window()                                                    *)

CallDestroy(t) ==
  /\ pc[t] = "idle" /\ "destroy" \in Ops
  /\ \E w \in Windows : WaitFor(t, w, "destroy", [NoLoc EXCEPT !.op = "destroy"])
  /\ UNCHANGED <<lock, table, options, held>>

\* All mappings go, if the user count says there are any.
Destroy(t) ==
  LET w == loc[t].win IN
  /\ pc[t] = "destroy"
  /\ IF win[w].active
       THEN /\ IF users[w] > 0
                 THEN /\ maps' = [maps EXCEPT ![w] = <<>>]
                      /\ users' = [users EXCEPT ![w] = @ - Len(maps[w])]
                 ELSE UNCHANGED <<maps, users>>
            /\ win' = [win EXCEPT ![w].active = FALSE, ![w].va = NULL]
            /\ bus' = [bus EXCEPT ![w] = {}]
       ELSE UNCHANGED table
  /\ Unlock(w) /\ Finish(t)
  /\ UNCHANGED <<options, held>>

-----------------------------------------------------------------------------
(* __vme_find_mapping()                                                    *)

\* The force argument is vme_create_on_find_fail for a process; a driver
\* passes what it likes.  (find_controller() allocates a descriptor for the call
\* and never frees it: memory that nothing of this model looks at.)
CallFind(t) ==
  /\ pc[t] = "idle" /\ "find" \in Ops /\ FreeSlots(t) # {}
  /\ \E r \in Requests[t],
        force \in IF t \in Users THEN {createOnFind} ELSE BOOLEAN :
       /\ Sane(r)
       /\ WaitFor(t, 0, "find",
                  [NoLoc EXCEPT !.op = "find", !.match = r, !.force = force])
  /\ UNCHANGED <<lock, table, options, held>>

\* The mapping of t's request on window w, and the handle t gets for it.
NewMapping(t, w) ==
  [id |-> NewId(t), addr |-> loc[t].match.addr, size |-> loc[t].match.size,
   va |-> [base |-> win[w].va, off |-> loc[t].match.addr - win[w].addr],
   file |-> FileOf(t)]
Handle(m, w) == [id |-> m.id, win |-> w, addr |-> m.addr, size |-> m.size, va |-> m.va]

\* t has its mapping; a process does not learn of it when copy_to_user() fails.
Hold(t, m, w) ==
  \/ held' = [held EXCEPT ![t] = @ \cup {Handle(m, w)}]
  \/ "efault" \in Faults /\ t \in Users /\ UNCHANGED held

\* A matching window is found; add_mapping() under its mutex.
FindHit(t) ==
  LET w == loc[t].win  m == NewMapping(t, w) IN
  /\ pc[t] = "find" /\ Matches(w, loc[t].match)
  /\ maps' = [maps EXCEPT ![w] = Append(@, m)]
  /\ users' = [users EXCEPT ![w] = @ + 1]
  /\ Hold(t, m, w)
  /\ Unlock(w) /\ Finish(t)
  /\ UNCHANGED <<win, bus, options>>

\* add_mapping() finds no memory.
FindNoMemory(t) ==
  /\ pc[t] = "find" /\ Matches(loc[t].win, loc[t].match) /\ "kzalloc" \in Faults
  /\ Unlock(loc[t].win) /\ Finish(t)
  /\ UNCHANGED <<table, options, held>>

\* try_next
FindNext(t) ==
  LET w == loc[t].win IN
  /\ pc[t] = "find" /\ ~Matches(w, loc[t].match)
  /\ Unlock(w)
  /\ IF w + 1 \in Windows
       THEN WaitFor(t, w + 1, "find", loc[t])
       ELSE pc' = [pc EXCEPT ![t] = "miss"] /\ UNCHANGED loc
  /\ UNCHANGED <<table, options, held>>

\* No window matches.  With force the first unused window, looked for without
\* a lock, is created (unless its size is 0); else, or if all are in use, -EBUSY.
FindMiss(t) ==
  LET unused == {w \in Windows : ~win[w].active} IN
  /\ pc[t] = "miss"
  /\ IF loc[t].force /\ unused # {} /\ Optimized(loc[t].match).size # 0
       THEN WaitFor(t, CHOOSE w \in unused : \A v \in unused : w <= v, "create",
                    [loc[t] EXCEPT !.wnd = Rounded(Optimized(loc[t].match))])
       ELSE Finish(t)
  /\ UNCHANGED <<lock, table, options, held>>

\* The window has been created and its mutex dropped.  Its descriptor is read,
\* and add_mapping() begins: list_add_tail() reads the tail of the list, and
\* users++ the count ...
Attach(t) ==
  LET w == loc[t].win IN
  /\ pc[t] = "attach"
  /\ \/ /\ loc' = [loc EXCEPT ![t].m = NewMapping(t, w),
                               ![t].tail = IF maps[w] = <<>> THEN NoId
                                           ELSE maps[w][Len(maps[w])].id,
                               ![t].users = users[w]]
        /\ pc' = [pc EXCEPT ![t] = "link"]
     \/ "kzalloc" \in Faults /\ Finish(t)
  /\ UNCHANGED <<lock, table, options, held>>

\* ... and then they are written.  An entry added in between is cut off, and
\* the new entry hangs on nothing if the tail has been removed in between.
Linked(list, tail, m) ==
  IF tail = NoId
    THEN <<m>>
    ELSE LET at == {i \in 1 .. Len(list) : list[i].id = tail} IN
         IF at = {} THEN list
         ELSE Append(SubSeq(list, 1, CHOOSE i \in at : TRUE), m)

Link(t) ==
  LET w == loc[t].win  m == loc[t].m IN
  /\ pc[t] = "link"
  /\ maps' = [maps EXCEPT ![w] = Linked(@, loc[t].tail, m)]
  /\ users' = [users EXCEPT ![w] = loc[t].users + 1]
  /\ Hold(t, m, w)
  /\ Finish(t)
  /\ UNCHANGED <<lock, win, bus, options>>

-----------------------------------------------------------------------------
(* __vme_release_mapping() and return_controller()                         *)

CallRelease(t) ==
  /\ pc[t] = "idle" /\ "release" \in Ops
  /\ \E h \in held[t], force \in IF t \in Users THEN {destroyOnRemove} ELSE BOOLEAN :
       WaitFor(t, h.win, "release",
               [NoLoc EXCEPT !.op = "release", !.handle = h.id, !.force = force,
                 !.m = [id |-> h.id, addr |-> h.addr, size |-> h.size,
                        va |-> h.va, file |-> FileOf(t)]])
  /\ UNCHANGED <<lock, table, options, held>>

\* Mutant of Removable: the owner is not compared.
RemovableByAnyone(w, m) ==
  {i \in 1 .. Len(maps[w]) :
     /\ maps[w][i].addr = m.addr /\ maps[w][i].size = m.size
     /\ maps[w][i].va = m.va}

\* The entries remove_mapping() accepts: same address, size and virtual
\* address, and same file when the caller has one.
Removable(w, m) ==
  {i \in 1 .. Len(maps[w]) :
     /\ maps[w][i].addr = m.addr /\ maps[w][i].size = m.size
     /\ maps[w][i].va = m.va
     /\ m.file = Nobody \/ maps[w][i].file = m.file}

Without(list, i) == SubSeq(list, 1, i - 1) \o SubSeq(list, i + 1, Len(list))
GiveUp(t) == held' = [held EXCEPT ![t] = {h \in @ : h.id # loc[t].handle}]

\* return_controller() passes a pointer into the list entry it found.  The entry
\* may be freed before the mutex of its window is taken: what is then compared
\* is garbage, or the entry of another mapping that has got the same memory.
Stale(t) == loc[t].op = "return" /\ ~Listed(loc[t].win, loc[t].m.id)

\* Nothing to remove: -EINVAL.
ReleaseFails(t) ==
  LET w == loc[t].win IN
  /\ pc[t] = "release"
  /\ ~win[w].active \/ Removable(w, loc[t].m) = {} \/ Stale(t)
  /\ GiveUp(t)
  /\ Unlock(w) /\ Finish(t)
  /\ UNCHANGED <<table, options>>

\* The entry remove_mapping() removes: the first that it accepts.
Removed(t) ==
  LET at == Removable(loc[t].win, loc[t].m) IN
  IF Stale(t) THEN 1 .. Len(maps[loc[t].win])
              ELSE {i \in at : \A j \in at : i <= j}

\* Mutant of LastUser: the user count is not looked at.
LastUserOrNot(w) == users[w] >= 1

\* The user count is 0 when one is taken off.
LastUser(w) == users[w] = 1

\* A mapping is removed.  If the window has no users left and force is set,
\* the mutex is dropped and vme_destroy_window() is called.
Release(t) ==
  LET w == loc[t].win IN
  /\ pc[t] = "release" /\ win[w].active
  /\ \E i \in Removed(t) : maps' = [maps EXCEPT ![w] = Without(@, i)]
  /\ users' = [users EXCEPT ![w] = @ - 1]
  /\ GiveUp(t)
  /\ Unlock(w)
  /\ IF LastUser(w) /\ loc[t].force
       THEN WaitFor(t, w, "destroy", loc[t])
       ELSE Finish(t)
  /\ UNCHANGED <<win, bus, options>>

\* return_controller(): a driver has kept the virtual address only.
CallReturn(t) ==
  /\ pc[t] = "idle" /\ t \in Kernel /\ "return" \in Ops
  /\ \E h \in held[t] :
       WaitFor(t, 0, "lookup",
               [NoLoc EXCEPT !.op = "return", !.handle = h.id, !.force = TRUE,
                 !.m = [NoMapping EXCEPT !.va = h.va]])
  /\ UNCHANGED <<lock, table, options, held>>

\* Mutant of AtAddress: any mapping of the window that holds the address.
InWindowOf(w, va) == {i \in 1 .. Len(maps[w]) : maps[w][i].va.base = va.base}

\* The entries of a window with a given virtual address.  The address is passed
\* as an unsigned of 32 bits and compared with the whole of kernel_va: none has it
\* when the kernel's addresses are wider.
AtAddress(w, va) == {i \in 1 .. Len(maps[w]) : ~Wide /\ maps[w][i].va = va}

\* find_vme_mapping_from_addr() looks at one window: the first entry with that
\* virtual address is the one vme_release_mapping() is then called for.
Lookup(t) ==
  LET w == loc[t].win
      at == AtAddress(w, loc[t].m.va) IN
  /\ pc[t] = "lookup"
  /\ Unlock(w)
  /\ IF at # {}
       THEN LET e == maps[w][CHOOSE i \in at : \A j \in at : i <= j] IN
            WaitFor(t, w, "release",
                    [loc[t] EXCEPT !.m = [e EXCEPT !.file = Nobody]])
            /\ UNCHANGED held
       ELSE IF w + 1 \in Windows
         THEN WaitFor(t, w + 1, "lookup", loc[t]) /\ UNCHANGED held
         ELSE Finish(t) /\ GiveUp(t)
  /\ UNCHANGED <<table, options>>

-----------------------------------------------------------------------------
(* vme_window_release(): a process closes the device                       *)

CallClose(t) ==
  /\ pc[t] = "idle" /\ t \in Users /\ "close" \in Ops
  /\ WaitFor(t, 0, "close", [NoLoc EXCEPT !.op = "close"])
  /\ UNCHANGED <<lock, table, options, held>>

\* What is left of a list: the entries at the places in keep.
Kept(list, keep) ==
  LET kept[i \in 0 .. Len(list)] ==
        IF i = 0 THEN <<>>
        ELSE IF i \in keep THEN Append(kept[i - 1], list[i])
        ELSE kept[i - 1]
  IN  kept[Len(list)]

\* The mappings of a file, and those of all others.
Own(list, file) == Kept(list, {i \in 1 .. Len(list) : list[i].file = file})
Others(list, file) == Kept(list, {i \in 1 .. Len(list) : list[i].file # file})

\* Mutants of CloseWindow: the user count is not updated; the last window is
\* not looked at.
CloseKeepsCount(t) ==
  LET w == loc[t].win IN
  /\ pc[t] = "close"
  /\ maps' = [maps EXCEPT ![w] = IF win[w].active THEN Others(@, t) ELSE @]
  /\ Unlock(w)
  /\ IF w + 1 \in Windows
       THEN WaitFor(t, w + 1, "close", loc[t])
       ELSE pc' = [pc EXCEPT ![t] = "closed"] /\ UNCHANGED loc
  /\ UNCHANGED <<win, users, bus, options, held>>
CloseSkipsLast(t) ==
  LET w == loc[t].win  rest == Others(maps[w], t) IN
  /\ pc[t] = "close"
  /\ IF win[w].active
       THEN /\ maps' = [maps EXCEPT ![w] = rest]
            /\ users' = [users EXCEPT ![w] = @ - (Len(maps[w]) - Len(rest))]
       ELSE UNCHANGED <<maps, users>>
  /\ Unlock(w)
  /\ IF w + 2 \in Windows
       THEN WaitFor(t, w + 1, "close", loc[t])
       ELSE pc' = [pc EXCEPT ![t] = "closed"] /\ UNCHANGED loc
  /\ UNCHANGED <<win, bus, options, held>>

\* The mappings of the file go, one window after the other.
CloseWindow(t) ==
  LET w == loc[t].win  rest == Others(maps[w], t) IN
  /\ pc[t] = "close"
  /\ IF win[w].active
       THEN /\ maps' = [maps EXCEPT ![w] = rest]
            /\ users' = [users EXCEPT ![w] = @ - (Len(maps[w]) - Len(rest))]
       ELSE UNCHANGED <<maps, users>>
  /\ Unlock(w)
  /\ IF w + 1 \in Windows
       THEN WaitFor(t, w + 1, "close", loc[t])
       ELSE pc' = [pc EXCEPT ![t] = "closed"] /\ UNCHANGED loc
  /\ UNCHANGED <<win, bus, options, held>>

\* The process opens the device again, with nothing in its hands.
Reopen(t) ==
  /\ pc[t] = "closed"
  /\ held' = [held EXCEPT ![t] = {}]
  /\ Finish(t)
  /\ UNCHANGED <<lock, table, options>>

-----------------------------------------------------------------------------

\* VME_IOCTL_SET_CREATE_ON_FIND_FAIL and VME_IOCTL_SET_DESTROY_ON_REMOVE
SetOptions(t) ==
  /\ pc[t] = "idle" /\ t \in Users /\ "options" \in Ops
  /\ \/ createOnFind' \in BOOLEAN /\ UNCHANGED destroyOnRemove
     \/ destroyOnRemove' \in BOOLEAN /\ UNCHANGED createOnFind
  /\ UNCHANGED <<lock, table, pc, loc, held>>

Call(t) ==
  /\ Serial => \A u \in Tasks : pc[u] = "idle"
  /\ \/ CallCreate(t) \/ CallDestroy(t) \/ CallFind(t) \/ CallRelease(t)
     \/ CallReturn(t) \/ CallClose(t) \/ SetOptions(t)

Step(t) ==
  \/ CreateRefused(t) \/ CreateFails(t) \/ Create(t) \/ Destroy(t)
  \/ FindHit(t) \/ FindNoMemory(t) \/ FindNext(t) \/ FindMiss(t)
  \/ Attach(t) \/ Link(t) \/ ReleaseFails(t) \/ Release(t) \/ Lookup(t)
  \/ CloseWindow(t) \/ Reopen(t)

Next == \E t \in Tasks : Call(t) \/ Lock(t) \/ Interrupted(t) \/ Step(t)

Spec == Init /\ [][Next]_vars

\* Every task runs on, and a mutex is given to whoever waits for it long enough.
Fairness == \A t \in Tasks : WF_vars(Step(t)) /\ SF_vars(Lock(t))

FairSpec == Spec /\ Fairness

-----------------------------------------------------------------------------
(* Properties                                                              *)

Ids == (Tasks \X Slots) \cup {NoId}
Window == [active : BOOLEAN, addr : Nat, size : Nat, am : {"A24", "A32", "none"},
           va : Windows \cup {NULL}]
Request == [addr : Nat, size : Nat, am : {"A24", "A32", "none"}]
Mapping == [id : Ids, addr : Nat, size : Nat, va : Va, file : Users \cup {Nobody}]
HandleType == [id : Ids, win : Windows, addr : Nat, size : Nat, va : Va]
PC == {"idle", "lock", "create", "destroy", "find", "miss", "attach", "link",
       "release", "lookup", "close", "closed"}
Local == [op : Ops \cup {"none"}, win : Windows, next : PC, match : Request,
          wnd : Request, m : Mapping, handle : Ids, force : BOOLEAN, tail : Ids,
          users : Int]

\* Every variable has its type.
TypeOK ==
  /\ lock \in [Windows -> Tasks \cup {Nobody}]
  /\ win \in [Windows -> Window]
  /\ maps \in [Windows -> Seq(Mapping)]
  /\ users \in [Windows -> Int]
  /\ bus \in [Windows -> SUBSET Parts]
  /\ createOnFind \in BOOLEAN /\ destroyOnRemove \in BOOLEAN
  /\ pc \in [Tasks -> PC]
  /\ loc \in [Tasks -> Local]
  /\ held \in [Tasks -> SUBSET HandleType]

\* A window is flagged active exactly when PCI, the page tables and the chip
\* all know it: no failure while creating it leaves a part behind, and nothing
\* is taken down under an active window.
WindowConsistent ==
  \A w \in Windows :
    IF win[w].active THEN bus[w] = Parts /\ win[w].va = w
                     ELSE bus[w] = {} /\ win[w].va = NULL

\* "@users: Number of users of this window": the count and the list agree, and
\* no mapping survives its window.
UsersCountMappings ==
  \A w \in Windows : /\ users[w] = Len(maps[w])
                     /\ ~win[w].active => maps[w] = <<>>

\* "the size is automatically rounded up to hold the requested address space
\* range" (vmebridge.txt): every mapping lies within its window.
MappingInsideWindow ==
  \A w \in Windows : \A i \in 1 .. Len(maps[w]) :
    LET m == maps[w][i] IN
    win[w].addr <= m.addr /\ m.addr + m.size <= win[w].addr + win[w].size

\* What a client was given and has not given back is there: its window is
\* active, and the list has an entry of its own for each of its handles.
Same(h, g) == h.win = g.win /\ h.addr = g.addr /\ h.size = g.size /\ h.va = g.va
HandlesLike(t, h) ==
  {g \in UNION {held[u] : u \in {u \in Tasks : FileOf(u) = FileOf(t)}} : Same(g, h)}
EntriesLike(t, h) ==
  {i \in 1 .. Len(maps[h.win]) :
     maps[h.win][i].file = FileOf(t) /\ Same(Handle(maps[h.win][i], h.win), h)}
Closing(t) == loc[t].op = "close"
HeldMappingsAlive ==
  \A t \in Tasks : ~Closing(t) => \A h \in held[t] :
    /\ win[h.win].active
    /\ Cardinality(EntriesLike(t, h)) >= Cardinality(HandlesLike(t, h))

\* "The release method is in charge of releasing all the mappings made by the
\* process closing the device file."
CloseReleasesAll ==
  \A t \in Users : pc[t] = "closed" =>
    \A w \in Windows : \A i \in 1 .. Len(maps[w]) : maps[w][i].file # t

\* The mappings of a process come and go by its own calls only: no other client
\* can release them, not even one that holds a mapping of the same range.
MappingsArePrivate ==
  [][\A u \in Users :
       (\E w \in Windows : Own(maps'[w], u) # Own(maps[w], u)) => pc'[u] # pc[u]]_vars

\* "If the mapping is the last one on that window and force is set then the
\* window is also destroyed": only then, so that releasing a mapping never takes
\* others with it.
ReleaseDestroysUnused ==
  [][\A t \in Tasks :
       /\ pc[t] = "destroy" /\ pc'[t] = "idle"
       /\ loc[t].op \in {"release", "return"} /\ win[loc[t].win].active
       => maps[loc[t].win] = <<>>]_vars

\* Every call returns: the mutexes of the windows are taken one at a time and
\* each is dropped on every way out.
EveryCallReturns == \A t \in Tasks : (pc[t] # "idle") ~> (pc[t] = "idle")
=============================================================================

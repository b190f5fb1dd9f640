-------------------------- MODULE CtrEventsProofs ---------------------------
(***************************************************************************)
(* Proofs about CtrEvents, for any number of clients, timers and events and*)
(* rings of any size: its types, that a context outside a call has no timer*)
(* running, that a permit stands for an event, that only timeouts leave    *)
(* events unannounced, and that the rings implement EventQueue.            *)
(***************************************************************************)
EXTENDS CtrEvents, FiniteSetTheorems, SequenceTheorems, WellFoundedInduction, TLAPS

\* The least member of a set of naturals is one of its members.
LEMMA MinIn ==
  ASSUME NEW S \in SUBSET Nat, S # {}
  PROVE  Min(S) \in S
<1>1. \E x \in S : \A y \in S : x <= y
  <2>1. PICK x \in S : \A y \in S : ~(<<y, x>> \in OpToRel(<, Nat))
    BY NatLessThanWellFounded, WFMin, Zenon
  <2>2. \A y \in S : ~(y < x)
    BY <2>1 DEF OpToRel
  <2> QED
    BY <2>2
<1> QED
  BY <1>1 DEF Min

\* What % does to a position less than twice round the ring.
LEMMA Around ==
  ASSUME NEW n \in Nat, n < 2 * QueueSize
  PROVE  n % QueueSize = IF n < QueueSize THEN n ELSE n - QueueSize
BY CtrAssumption

\* The oldest entry is taken off a ring: the end stays where it is.
LEMMA RingRead ==
  ASSUME NEW r \in 0..(QueueSize - 1), NEW z \in 1..QueueSize
  PROVE  (r + z) % QueueSize = (((r + 1) % QueueSize) + (z - 1)) % QueueSize
<1>0. QueueSize \in Nat \ {0}
  BY CtrAssumption
<1>1. CASE r + 1 < QueueSize
  <2>1. (r + 1) % QueueSize = r + 1
    BY <1>0, <1>1, Around
  <2>2. (r + 1) + (z - 1) = r + z
    OBVIOUS
  <2> QED
    BY <2>1, <2>2
<1>2. CASE r + 1 = QueueSize
  <2>1. (r + 1) % QueueSize = 0
    BY <1>0, <1>2, Around
  <2>2. (r + z) % QueueSize = z - 1 /\ (z - 1) % QueueSize = z - 1
    BY <1>0, <1>2, Around
  <2>3. 0 + (z - 1) = z - 1
    OBVIOUS
  <2> QED
    BY <2>1, <2>2, <2>3
<1> QED
  BY <1>0, <1>1, <1>2

\* An entry is added at the end of a ring that is not full.
LEMMA RingWrite ==
  ASSUME NEW r \in 0..(QueueSize - 1), NEW z \in 0..(QueueSize - 1)
  PROVE  (((r + z) % QueueSize) + 1) % QueueSize = (r + (z + 1)) % QueueSize
<1>0. QueueSize \in Nat \ {0}
  BY CtrAssumption
<1>1. CASE r + z < QueueSize
  <2>1. (r + z) % QueueSize = r + z /\ (r + z) + 1 = r + (z + 1)
    BY <1>0, <1>1, Around
  <2> QED
    BY <2>1
<1>2. CASE ~(r + z < QueueSize)
  <2>1. (r + z) % QueueSize = r + z - QueueSize
    BY <1>0, <1>2, Around
  <2>2. (r + z - QueueSize + 1) % QueueSize = r + z - QueueSize + 1
    BY <1>0, <1>2, Around
  <2>3. (r + (z + 1)) % QueueSize = r + z - QueueSize + 1
    BY <1>0, <1>2, Around
  <2> QED
    BY <2>1, <2>2, <2>3
<1> QED
  BY <1>1, <1>2

\* Of a full ring the ends meet.
LEMMA RingFull ==
  ASSUME NEW r \in 0..(QueueSize - 1)
  PROVE  /\ (r + QueueSize) % QueueSize = r /\ (r + 1) % QueueSize \in 0..(QueueSize - 1)
         /\ r % QueueSize = r
BY CtrAssumption, Around

-----------------------------------------------------------------------------
(* The inductive invariant.                                                *)

\* The user of a running timer can find it again: it has its number in hand, or
\* in its context, and (a client) will look, for its timeout is on.
OwnSlot(u, s) ==
  /\ \/ pc[u] \in {"store", "cancel", "cancelIntr"} /\ local[u] = s
     \/ pc[u] \in {"wait", "asleep", "woken"} /\ timer[u] = s
  /\ u \in Clients => timeout[u]

\* No running timer is lost by its user.
SlotInv == \A s \in Slots, u \in Users : slots[s] = u => OwnSlot(u, s)

\* PermitHasEvent, client by client.
Held(c) == IF HoldsPermit(c) THEN 1 ELSE 0
\* Every permit of a client, one it holds included, has an event in its ring.
PermitOK(c) == pc[c] # "opening" => count[c] + Held(c) <= queue[c].size

\* A reader about to wait has the number timeout() gave it, a sleeper has no
\* permit, and one whose timer is 0 lost it before it began to wait.
WaitOK(c) ==
  /\ pc[c] = "store" => local[c] # 0
  /\ pc[c] = "asleep" => count[c] = 0
  /\ pc[c] \in {"wait", "asleep"} /\ timeout[c] /\ timer[c] = 0 => early[c]

\* A timer is armed for a client that has set a timeout.
ArmOK(c) == pc[c] = "arm" => timeout[c]

\* The write pointer of a ring is its read pointer and its size ahead.
RingOK(c) == queue[c].wr = (queue[c].rd + queue[c].size) % QueueSize

\* No client has more permits, or has missed more events, than have been put:
\* the events on their way to it have not.
Coming(c, d) == IF c \in deliver[d].left THEN 1 ELSE 0
\* The events that have arrived bound the permits and the missed events.
BoundOK(c) ==
  /\ count[c] + Coming(c, "isr") + Coming(c, "write") <= arrived
  /\ queue[c].missed + Coming(c, "isr") + Coming(c, "write") <= arrived

\* What is being delivered is an event.
DeliverInv == \A d \in Sources : deliver[d].left # {} => deliver[d].event \in Events

\* The inductive invariant.
IInv == /\ TypeOK /\ SlotInv /\ DeliverInv
        /\ \A c \in Clients : ArmOK(c) /\ WaitOK(c) /\ PermitOK(c) /\ RingOK(c) /\ BoundOK(c)
        /\ count[Module] = 0

-----------------------------------------------------------------------------
(* Types.                                                                  *)

\* The rings, the control points and the deliveries.
QType == [ents : [0..(QueueSize - 1) -> 0..MaxEvents],
          wr : 0..(QueueSize - 1), rd : 0..(QueueSize - 1),
          size : 0..QueueSize, missed : 0..MaxEvents, off : BOOLEAN]
PCType == {"idle", "opening", "overflow", "arm", "store", "wait", "asleep",
           "woken", "cancel", "cancelIntr", "pop"}
DType == [event : 0..MaxEvents, left : SUBSET Clients]

\* The type invariant by parts.
LEMMA TypeParts ==
  TypeOK <=>
    /\ inUse \in [Clients -> BOOLEAN] /\ timeout \in [Clients -> BOOLEAN]
    /\ queue \in [Clients -> QType] /\ got \in [Clients -> 0..MaxEvents]
    /\ count \in [Users -> 0..MaxEvents] /\ timer \in [Users -> 0..NoSlot]
    /\ slots \in [Slots -> Users \cup {Free}] /\ pc \in [Users -> PCType]
    /\ local \in [Users -> 0..NoSlot] /\ early \in [Users -> BOOLEAN]
    /\ connected \subseteq Clients /\ deliver \in [Sources -> DType]
    /\ arrived \in 0..MaxEvents /\ mutex \in Users \cup {Free}
BY Zenon DEF TypeOK, QType, PCType, DType

\* Facts about the constants that every step needs.
LEMMA Constants ==
  /\ Clients \subseteq Users /\ Module \in Users /\ Free \notin Users
  /\ Clients \in SUBSET Nat /\ QueueSize \in Nat \ {0} /\ Timers \in Nat \ {0}
  /\ MaxEvents \in Nat /\ Slots \subseteq 0..NoSlot /\ Slots \in SUBSET Nat
  /\ NoSlot \in 0..NoSlot /\ 0 \in 0..NoSlot /\ NoSlot # 0 /\ 0 \notin Slots /\ NoSlot \notin Slots
  /\ EmptyQueue \in QType /\ Module \notin Clients
<1>1. EmptyQueue \in QType
  BY CtrAssumption DEF EmptyQueue, QType
<1> QED
  BY <1>1, CtrAssumption DEF Users, Free, Slots, NoSlot

\* A timer is taken from the free ones, if there is one.
LEMMA SlotTaken ==
  ASSUME TypeOK, NEW u \in Users, TakeSlot(u)
  PROVE  \/ \E s \in Slots : /\ slots[s] = Free
                             /\ slots' = [slots EXCEPT ![s] = u]
                             /\ local' = [local EXCEPT ![u] = s]
         \/ FreeSlots = {} /\ slots' = slots /\ local' = [local EXCEPT ![u] = NoSlot]
<1>1. CASE FreeSlots # {}
  <2>1. Min(FreeSlots) \in FreeSlots
    BY <1>1, Constants, MinIn DEF FreeSlots
  <2> QED
    BY <1>1, <2>1 DEF FreeSlots, TakeSlot
<1>2. CASE FreeSlots = {}
  BY <1>2 DEF TakeSlot
<1> QED
  BY <1>1, <1>2

\* A timer is stopped, the others run on.
LEMMA SlotFreed ==
  ASSUME TypeOK, NEW n, FreeSlot(n)
  PROVE  /\ slots' \in [Slots -> Users \cup {Free}]
         /\ \A s \in Slots : slots'[s] = IF s = n THEN Free ELSE slots[s]
<1>1. slots \in [Slots -> Users \cup {Free}]
  BY TypeParts
<1> QED
  BY <1>1 DEF FreeSlot

-----------------------------------------------------------------------------
(* One user moves, the others stay as they are.                            *)

\* A step of u, seen by everyone else.
Others(u) ==
  /\ \A v \in Users : v # u => /\ pc'[v] = pc[v] /\ timer'[v] = timer[v]
                               /\ local'[v] = local[v] /\ count'[v] = count[v]
                               /\ early'[v] = early[v]
  /\ \A c \in Clients : c # u => timeout'[c] = timeout[c] /\ queue'[c] = queue[c]

\* What a step may do to the announcements of a client.
Stranded(c) == pc[c] = "opening" \/ TimesOut(c) \/ TooLate(c)
\* OnlyTimeoutsStrand, client by client.
StrandOK(c) == Unannounced(c)' > Unannounced(c) => Stranded(c)

\* Only the user that moves has to be looked at.
LEMMA Frame ==
  ASSUME IInv, TypeOK', NEW u \in Users, Others(u), UNCHANGED <<deliver, arrived>>,
         \A s \in Slots : /\ slots'[s] \in {slots[s], Free, u}
                          /\ slots'[s] = u => OwnSlot(u, s)',
         u \in Clients => /\ ArmOK(u)' /\ WaitOK(u)' /\ PermitOK(u)' /\ RingOK(u)'
                          /\ count'[u] <= count[u] /\ queue'[u].missed <= queue[u].missed,
         u = Module => count'[u] = 0
  PROVE  IInv' /\ \A c \in Clients : c # u => StrandOK(c)
<1>t. /\ count \in [Users -> 0..MaxEvents] /\ count' \in [Users -> 0..MaxEvents]
      /\ queue \in [Clients -> QType] /\ queue' \in [Clients -> QType]
      /\ arrived \in Nat
  <2>1. TypeOK
    BY DEF IInv
  <2>2. arrived \in Nat
    BY <2>1, Constants DEF TypeOK
  <2> QED
    BY <2>1, <2>2, Zenon DEF TypeOK, QType
<1>c. Clients \subseteq Users /\ Module \in Users /\ Free \notin Users /\ Module \notin Clients
  BY Constants
<1>1. SlotInv'
  <2> SUFFICES ASSUME NEW s \in Slots, NEW v \in Users, slots'[s] = v PROVE OwnSlot(v, s)'
    BY DEF SlotInv
  <2>1. CASE v = u
    BY <2>1
  <2>2. CASE v # u
    <3>1. slots[s] = v
      BY <1>c, <2>2
    <3>2. OwnSlot(v, s)
      BY <3>1 DEF IInv, SlotInv
    <3> QED
      BY <1>c, <2>2, <3>2 DEF OwnSlot, Others
  <2> QED
    BY <2>1, <2>2
<1>2. DeliverInv'
  BY DEF IInv, DeliverInv
<1>3. ASSUME NEW c \in Clients, c # u
      PROVE  ArmOK(c)' /\ WaitOK(c)' /\ PermitOK(c)' /\ RingOK(c)' /\ BoundOK(c)' /\ StrandOK(c)
  <2>1. /\ pc'[c] = pc[c] /\ timer'[c] = timer[c] /\ count'[c] = count[c]
        /\ timeout'[c] = timeout[c] /\ queue'[c] = queue[c]
        /\ local'[c] = local[c] /\ early'[c] = early[c]
    BY <1>c, <1>3 DEF Others
  <2>2. HoldsPermit(c)' <=> HoldsPermit(c)
    BY <2>1 DEF HoldsPermit
  <2>3. ArmOK(c)' /\ WaitOK(c)' /\ PermitOK(c)'
    BY <2>1, <2>2 DEF IInv, ArmOK, WaitOK, PermitOK, Held
  <2>4. RingOK(c)' /\ BoundOK(c)'
    BY <2>1 DEF IInv, RingOK, BoundOK, Coming
  <2>5. Unannounced(c)' = Unannounced(c) /\ Unannounced(c) \in Int
    BY <1>t, <1>c, <2>1, <2>2 DEF Unannounced, QType
  <2>6. StrandOK(c)
    BY <2>5 DEF StrandOK
  <2> QED
    BY <2>3, <2>4, <2>6
<1>4. ASSUME u \in Clients PROVE BoundOK(u)'
  <2>1. BoundOK(u)
    BY <1>4 DEF IInv
  <2>2. /\ count[u] \in Nat /\ count'[u] \in Nat /\ queue[u].missed \in Nat
        /\ queue'[u].missed \in Nat
    BY <1>t, <1>4 DEF QType
  <2> QED
    BY <1>t, <1>4, <2>1, <2>2 DEF BoundOK, Coming
<1>5. count'[Module] = 0
  BY <1>c DEF Others, IInv
<1> QED
  BY <1>1, <1>2, <1>3, <1>4, <1>5 DEF IInv

\* A step of a client from outside read(), or into it.
LEMMA CallFrame ==
  ASSUME IInv, TypeOK', NEW c \in Clients, Others(c), UNCHANGED <<deliver, arrived>>,
         pc[c] \in {"idle", "opening", "overflow"},
         pc'[c] \in {"idle", "opening", "overflow", "arm", "wait"},
         \A s \in Slots : slots'[s] \in {slots[s], Free},
         count'[c] <= count[c], queue'[c].missed <= queue[c].missed,
         ArmOK(c)', pc'[c] = "wait" => ~timeout'[c], RingOK(c)',
         pc'[c] # "opening" => count'[c] <= queue'[c].size,
         pc[c] = "opening" \/ queue'[c].size - count'[c] <= queue[c].size - count[c]
  PROVE  IInv' /\ \A d \in Clients : StrandOK(d)
<1>c. Clients \subseteq Users /\ Module \notin Clients /\ Free \notin Users
  BY Constants
<1>t. /\ count \in [Users -> 0..MaxEvents] /\ count' \in [Users -> 0..MaxEvents]
      /\ queue \in [Clients -> QType] /\ queue' \in [Clients -> QType]
  BY Zenon DEF IInv, TypeOK, QType
<1>1. \A s \in Slots : slots'[s] # c
  BY <1>c DEF IInv, SlotInv, OwnSlot
<1>2. ~HoldsPermit(c) /\ ~HoldsPermit(c)'
  BY DEF HoldsPermit
<1>3. PermitOK(c)' /\ WaitOK(c)'
  BY <1>t, <1>c, <1>2 DEF PermitOK, Held, WaitOK
<1>4. StrandOK(c)
  <2>1. /\ Unannounced(c) = queue[c].size - count[c]
        /\ Unannounced(c)' = queue'[c].size - count'[c]
    BY <1>t, <1>c, <1>2 DEF Unannounced, QType
  <2>2. /\ queue[c].size \in Nat /\ count[c] \in Nat
        /\ queue'[c].size \in Nat /\ count'[c] \in Nat
    <3>1. queue[c] \in QType /\ queue'[c] \in QType /\ c \in Users
      BY <1>t, <1>c
    <3> QED
      BY <1>t, <3>1, CtrAssumption DEF QType
  <2> QED
    BY <2>1, <2>2 DEF StrandOK, Stranded
<1> QED
  BY <1>c, <1>1, <1>3, <1>4, Frame

-----------------------------------------------------------------------------
(* open(), close(), ioctl() and the beginning of read().                   *)

\* A queue field by field, for the steps that change some of the fields.
LEMMA QueueFields ==
  ASSUME NEW k \in QType
  PROVE  /\ k.ents \in [0..(QueueSize - 1) -> 0..MaxEvents]
         /\ k.wr \in 0..(QueueSize - 1) /\ k.rd \in 0..(QueueSize - 1)
         /\ k.size \in 0..QueueSize /\ k.missed \in 0..MaxEvents /\ k.off \in BOOLEAN
         /\ k.size \in Nat /\ k.missed \in Nat
BY CtrAssumption DEF QType

\* Every operation of a client outside read() keeps the invariant.
LEMMA CallsKeep ==
  ASSUME IInv, NEW c \in Clients,
         \/ Open(c) \/ OpenReset(c) \/ Close(c) \/ Connect(c) \/ DisConnect(c)
         \/ SetTimeout(c) \/ SetQueueFlag(c) \/ ReadOverflow(c) \/ ClearOverflow(c)
         \/ Read(c)
  PROVE  IInv' /\ \A d \in Clients : StrandOK(d)
<1>c. Clients \subseteq Users /\ c \in Users /\ Module \notin Clients /\ Free \notin Users
  BY Constants
<1>T. TypeOK /\ PermitOK(c) /\ RingOK(c)
  BY DEF IInv
<1>t. /\ inUse \in [Clients -> BOOLEAN] /\ timeout \in [Clients -> BOOLEAN]
      /\ queue \in [Clients -> QType] /\ got \in [Clients -> 0..MaxEvents]
      /\ count \in [Users -> 0..MaxEvents] /\ timer \in [Users -> 0..NoSlot]
      /\ slots \in [Slots -> Users \cup {Free}] /\ pc \in [Users -> PCType]
      /\ connected \subseteq Clients
  BY <1>T, TypeParts
<1>n. count[c] \in Nat /\ queue[c] \in QType /\ queue[c].size \in Nat /\ queue[c].missed \in Nat
  BY <1>c, <1>t, QueueFields, CtrAssumption
<1>z. /\ 0 \in 0..MaxEvents /\ 0 \in 0..(QueueSize - 1) /\ 0 \in 0..QueueSize
      /\ 0 \in 0..NoSlot /\ EmptyQueue \in QType
  BY Constants
<1>p. pc[c] \in {"idle", "overflow"} => count[c] <= queue[c].size
  BY <1>T, <1>n DEF PermitOK, Held, HoldsPermit
<1>1. CASE Open(c)
  <2>1. /\ pc' = [pc EXCEPT ![c] = "opening"] /\ pc[c] = "idle"
        /\ queue' = [queue EXCEPT ![c] = EmptyQueue] /\ mutex' = c
        /\ timeout' = [timeout EXCEPT ![c] = TRUE] /\ timer' = [timer EXCEPT ![c] = 0]
        /\ inUse' = [inUse EXCEPT ![c] = TRUE]
        /\ UNCHANGED <<got, count, slots, local, early, isrVars, connected>>
    BY <1>1 DEF Open, Enters
  <2>2. TypeOK'
    <3>1. /\ queue' \in [Clients -> QType] /\ pc' \in [Users -> PCType]
          /\ timeout' \in [Clients -> BOOLEAN] /\ inUse' \in [Clients -> BOOLEAN]
          /\ timer' \in [Users -> 0..NoSlot] /\ mutex' \in Users \cup {Free}
      BY <1>c, <1>t, <1>z, <2>1 DEF PCType
    <3> QED
      BY <1>T, <2>1, <3>1 DEF TypeOK, QType, PCType, isrVars
  <2>3. Others(c)
    BY <1>c, <1>t, <2>1 DEF Others
  <2>4. /\ pc'[c] = "opening" /\ queue'[c].size = 0 /\ queue'[c].missed = 0
        /\ queue'[c].wr = 0 /\ queue'[c].rd = 0
    BY <1>c, <1>t, <2>1 DEF EmptyQueue
  <2>5. RingOK(c)'
    BY <2>4, CtrAssumption DEF RingOK
  <2> QED
    BY <1>n, <2>1, <2>2, <2>3, <2>4, <2>5, CallFrame DEF isrVars, ArmOK
<1>2. CASE OpenReset(c)
  <2>1. /\ pc' = [pc EXCEPT ![c] = "idle"] /\ pc[c] = "opening"
        /\ count' = [count EXCEPT ![c] = 0] /\ mutex' = Free
        /\ UNCHANGED <<clientVars, timer, slots, local, early, isrVars, connected>>
    BY <1>2 DEF OpenReset, CountAfterReset
  <2>2. TypeOK'
    BY <1>T, <1>c, <1>t, <1>z, <2>1 DEF TypeOK, PCType, isrVars, clientVars
  <2>3. Others(c)
    BY <1>c, <1>t, <2>1 DEF Others, clientVars
  <2>4. pc'[c] = "idle" /\ queue' = queue /\ count'[c] = 0
    BY <1>c, <1>t, <2>1 DEF clientVars
  <2>5. RingOK(c)'
    BY <1>T, <2>4 DEF RingOK
  <2> QED
    BY <1>n, <2>1, <2>2, <2>3, <2>4, <2>5, CallFrame DEF isrVars, ArmOK
<1>3. CASE Close(c)
  <2>1. /\ pc' = pc /\ pc[c] = "idle" /\ queue' = queue /\ count' = count
        /\ timeout' = timeout /\ local' = local
        /\ inUse' = [inUse EXCEPT ![c] = FALSE] /\ timer' = [timer EXCEPT ![c] = 0]
        /\ FreeSlot(timer[c]) \/ slots' = slots
        /\ connected' = connected \ {c} /\ UNCHANGED <<got, early, isrVars, mutex>>
    BY <1>3 DEF Close, Enters
  <2>2. \A s \in Slots : slots'[s] \in {slots[s], Free}
    BY <1>T, <2>1, SlotFreed
  <2>3. slots' \in [Slots -> Users \cup {Free}]
    BY <1>T, <1>t, <2>1, SlotFreed
  <2>4. TypeOK'
    <3>1. /\ inUse' \in [Clients -> BOOLEAN] /\ timer' \in [Users -> 0..NoSlot]
          /\ connected' \subseteq Clients
      BY <1>c, <1>t, <1>z, <2>1
    <3> QED
      BY <1>T, <2>1, <2>3, <3>1 DEF TypeOK, isrVars
  <2>5. Others(c)
    BY <1>c, <1>t, <2>1 DEF Others
  <2>6. RingOK(c)'
    BY <1>T, <2>1 DEF RingOK
  <2>7. count[c] <= queue[c].size
    BY <1>p, <2>1
  <2> QED
    BY <1>n, <2>1, <2>2, <2>4, <2>5, <2>6, <2>7, CallFrame DEF isrVars, ArmOK
<1>4. CASE Connect(c) \/ DisConnect(c)
  <2>1. /\ pc[c] = "idle" /\ connected' \subseteq Clients
        /\ UNCHANGED <<clientVars, waitVars, isrVars, pc, mutex>>
    BY <1>4, <1>t DEF Connect, DisConnect, Enters
  <2>2. TypeOK'
    BY <1>T, <2>1 DEF TypeOK, clientVars, waitVars, isrVars
  <2>3. Others(c) /\ RingOK(c)' /\ queue' = queue /\ count' = count /\ slots' = slots
    BY <1>T, <2>1 DEF Others, RingOK, clientVars, waitVars
  <2>4. count[c] <= queue[c].size
    BY <1>p, <2>1
  <2> QED
    BY <1>n, <2>1, <2>2, <2>3, <2>4, CallFrame DEF isrVars, ArmOK
<1>5. CASE SetTimeout(c)
  <2>1. PICK b \in TimeoutsSet : timeout' = [timeout EXCEPT ![c] = b]
    BY <1>5 DEF SetTimeout
  <2>2. /\ pc[c] = "idle" /\ b \in BOOLEAN
        /\ UNCHANGED <<inUse, queue, got, waitVars, isrVars, pc, connected, mutex>>
    BY <1>5, CtrAssumption DEF SetTimeout, Enters
  <2>3. TypeOK'
    BY <1>T, <1>t, <2>1, <2>2 DEF TypeOK, waitVars, isrVars
  <2>4. Others(c) /\ RingOK(c)' /\ queue' = queue /\ count' = count /\ slots' = slots
    BY <1>T, <1>t, <2>1, <2>2 DEF Others, RingOK, waitVars
  <2>5. count[c] <= queue[c].size
    BY <1>p, <2>2
  <2> QED
    BY <1>n, <2>2, <2>3, <2>4, <2>5, CallFrame DEF isrVars, ArmOK
<1>6. CASE SetQueueFlag(c)
  <2>1. PICK b \in FlagsSet : queue' = [queue EXCEPT ![c].off = b]
    BY <1>6 DEF SetQueueFlag
  <2>2. /\ pc[c] = "idle" /\ b \in BOOLEAN
        /\ UNCHANGED <<inUse, timeout, got, waitVars, isrVars, pc, connected, mutex>>
    BY <1>6, CtrAssumption DEF SetQueueFlag, Enters
  <2> DEFINE k == [queue[c] EXCEPT !.off = b]
  <2>3. k \in QType /\ k.wr = queue[c].wr /\ k.rd = queue[c].rd /\ k.size = queue[c].size
          /\ k.missed = queue[c].missed
    BY <1>n, <2>2 DEF QType
  <2>4. queue' = [queue EXCEPT ![c] = k]
    BY <2>1
  <2> HIDE DEF k
  <2>5. queue' \in [Clients -> QType] /\ queue'[c] = k /\ \A d \in Clients : d # c => queue'[d] = queue[d]
    BY <1>t, <2>3, <2>4
  <2>6. TypeOK'
    BY <1>T, <2>2, <2>5 DEF TypeOK, QType, waitVars, isrVars
  <2>7. Others(c) /\ RingOK(c)' /\ count' = count /\ slots' = slots
    BY <1>T, <2>2, <2>3, <2>5 DEF Others, RingOK, waitVars
  <2>8. count[c] <= queue[c].size
    BY <1>p, <2>2
  <2> QED
    BY <1>n, <2>2, <2>3, <2>5, <2>6, <2>7, <2>8, CallFrame DEF isrVars, ArmOK
<1>7. CASE ReadOverflow(c)
  <2>1. /\ pc[c] = "idle" /\ pc' = [pc EXCEPT ![c] = "overflow"] /\ mutex' = c
        /\ UNCHANGED <<clientVars, waitVars, isrVars, connected>>
    BY <1>7 DEF ReadOverflow, Enters
  <2>2. TypeOK'
    BY <1>T, <1>c, <1>t, <2>1 DEF TypeOK, PCType, clientVars, waitVars, isrVars
  <2>3. Others(c) /\ RingOK(c)' /\ queue' = queue /\ count' = count /\ slots' = slots
    BY <1>T, <1>t, <2>1 DEF Others, RingOK, clientVars, waitVars
  <2>4. count[c] <= queue[c].size /\ pc'[c] = "overflow"
    BY <1>c, <1>t, <1>p, <2>1
  <2> QED
    BY <1>n, <2>1, <2>2, <2>3, <2>4, CallFrame DEF isrVars, ArmOK
<1>8. CASE ClearOverflow(c)
  <2> DEFINE k == [queue[c] EXCEPT !.missed = 0]
  <2>1. /\ pc[c] = "overflow" /\ pc' = [pc EXCEPT ![c] = "idle"] /\ mutex' = Free
        /\ queue' = [queue EXCEPT ![c] = k]
        /\ UNCHANGED <<inUse, timeout, got, waitVars, isrVars, connected>>
    BY <1>8 DEF ClearOverflow
  <2>2. k \in QType /\ k.wr = queue[c].wr /\ k.rd = queue[c].rd /\ k.size = queue[c].size
          /\ k.missed = 0
    BY <1>n, <1>z DEF QType
  <2> HIDE DEF k
  <2>3. queue' \in [Clients -> QType] /\ queue'[c] = k /\ \A d \in Clients : d # c => queue'[d] = queue[d]
    BY <1>t, <2>1, <2>2
  <2>4. TypeOK'
    BY <1>T, <1>c, <1>t, <2>1, <2>3 DEF TypeOK, QType, PCType, waitVars, isrVars
  <2>5. Others(c) /\ RingOK(c)' /\ count' = count /\ slots' = slots
    BY <1>T, <1>t, <2>1, <2>2, <2>3 DEF Others, RingOK, waitVars
  <2>6. count[c] <= queue[c].size /\ pc'[c] = "idle"
    BY <1>c, <1>t, <1>p, <2>1
  <2> QED
    BY <1>n, <2>1, <2>2, <2>3, <2>4, <2>5, <2>6, CallFrame DEF isrVars, ArmOK
<1>9. CASE Read(c)
  <2>1. /\ pc[c] = "idle"
        /\ pc' = [pc EXCEPT ![c] = IF timeout[c] THEN "arm" ELSE "wait"]
        /\ UNCHANGED <<inUse, timeout, got, timer, slots, local, early, isrVars, connected, mutex>>
    BY <1>9 DEF Read
  <2>2. /\ pc'[c] \in {"arm", "wait"} /\ pc' \in [Users -> PCType]
        /\ pc'[c] = "wait" => ~timeout'[c]
    BY <1>c, <1>t, <2>1 DEF PCType
  <2>3. count[c] <= queue[c].size
    BY <1>p, <2>1
  <2>4. CASE queue[c].off
    <3> DEFINE k == [queue[c] EXCEPT !.size = 0, !.missed = 0, !.wr = 0, !.rd = 0]
    <3>1. queue' = [queue EXCEPT ![c] = k] /\ count' = [count EXCEPT ![c] = 0]
      BY <1>9, <2>4 DEF Read, CountAfterReset
    <3>2. k \in QType /\ k.wr = 0 /\ k.rd = 0 /\ k.size = 0 /\ k.missed = 0
      BY <1>n, <1>z DEF QType
    <3> HIDE DEF k
    <3>3. queue' \in [Clients -> QType] /\ queue'[c] = k /\ \A d \in Clients : d # c => queue'[d] = queue[d]
      BY <1>t, <3>1, <3>2
    <3>4. count' \in [Users -> 0..MaxEvents] /\ count'[c] = 0
      BY <1>t, <1>c, <1>z, <3>1
    <3>5. TypeOK'
      BY <1>T, <2>1, <2>2, <3>3, <3>4 DEF TypeOK, QType, PCType, isrVars
    <3>6. Others(c)
      BY <1>c, <1>t, <2>1, <3>1, <3>3 DEF Others
    <3>7. RingOK(c)'
      BY <3>2, <3>3, CtrAssumption DEF RingOK
    <3> QED
      BY <1>n, <2>1, <2>2, <2>3, <3>2, <3>3, <3>4, <3>5, <3>6, <3>7, CallFrame DEF isrVars, ArmOK
  <2>5. CASE ~queue[c].off
    <3>1. queue' = queue /\ count' = count
      BY <1>9, <2>5 DEF Read
    <3>2. TypeOK'
      BY <1>T, <2>1, <2>2, <3>1 DEF TypeOK, PCType, isrVars
    <3>3. Others(c) /\ RingOK(c)'
      BY <1>T, <1>c, <1>t, <2>1, <3>1 DEF Others, RingOK
    <3> QED
      BY <1>n, <2>1, <2>2, <2>3, <3>1, <3>2, <3>3, CallFrame DEF isrVars, ArmOK
  <2> QED
    BY <2>4, <2>5
<1> QED
  BY <1>1, <1>2, <1>3, <1>4, <1>5, <1>6, <1>7, <1>8, <1>9

-----------------------------------------------------------------------------
(* The steps of a wait, of a client in read() and of the module in Reset().*)

\* A user arms a timer, or finds none free.
LEMMA ArmSlots ==
  ASSUME IInv, NEW u \in Users, u \in Clients => timeout[u], pc[u] \in {"arm", "idle"},
         UNCHANGED timeout, TakeSlot(u), pc' = [pc EXCEPT ![u] = "store"]
  PROVE  /\ slots' \in [Slots -> Users \cup {Free}] /\ local' \in [Users -> 0..NoSlot]
         /\ local'[u] # 0 /\ \A v \in Users : v # u => local'[v] = local[v]
         /\ \A s \in Slots : /\ slots'[s] \in {slots[s], Free, u}
                             /\ slots'[s] = u => OwnSlot(u, s)'
<1>c. /\ Free \notin Users /\ Slots \subseteq 0..NoSlot /\ NoSlot \in 0..NoSlot /\ NoSlot # 0
      /\ 0 \notin Slots
  BY Constants
<1>T. TypeOK /\ SlotInv
  BY DEF IInv
<1>t. /\ slots \in [Slots -> Users \cup {Free}] /\ local \in [Users -> 0..NoSlot]
      /\ pc \in [Users -> PCType]
  BY <1>T, TypeParts
<1>1. \A s \in Slots : slots[s] # u
  BY <1>T DEF SlotInv, OwnSlot
<1>2. ASSUME NEW s \in Slots, slots[s] = Free, slots' = [slots EXCEPT ![s] = u],
             local' = [local EXCEPT ![u] = s]
      PROVE  /\ slots' \in [Slots -> Users \cup {Free}] /\ local' \in [Users -> 0..NoSlot]
             /\ local'[u] # 0 /\ \A v \in Users : v # u => local'[v] = local[v]
             /\ \A r \in Slots : /\ slots'[r] \in {slots[r], Free, u}
                                 /\ slots'[r] = u => OwnSlot(u, r)'
  <2>2. pc'[u] = "store" /\ local'[u] = s
    BY <1>t, <1>2
  <2>3. \A r \in Slots : r # s => slots'[r] = slots[r]
    BY <1>t, <1>2
  <2>4. slots'[s] = u /\ OwnSlot(u, s)'
    BY <1>t, <1>2, <2>2 DEF OwnSlot
  <2>5. slots' \in [Slots -> Users \cup {Free}] /\ local' \in [Users -> 0..NoSlot]
    BY <1>c, <1>t, <1>2
  <2>6. \A v \in Users : v # u => local'[v] = local[v]
    BY <1>t, <1>2
  <2> QED
    BY <1>1, <1>c, <2>2, <2>3, <2>4, <2>5, <2>6
<1>3. CASE slots' = slots /\ local' = [local EXCEPT ![u] = NoSlot]
  BY <1>c, <1>t, <1>1, <1>3
<1> QED
  BY <1>T, <1>2, <1>3, SlotTaken

\* A user keeps sight of its timer: it stores the number, waits, wakes up,
\* forgets the number for the one in hand, or leaves when it has none.
LEMMA WaitSlots ==
  ASSUME IInv, NEW u \in Users, pc' \in [Users -> PCType], UNCHANGED <<slots, timeout>>,
         \/ pc[u] = "store" /\ pc'[u] = "wait" /\ timer'[u] = local[u]
         \/ /\ pc[u] \in {"wait", "asleep", "woken"}
            /\ \/ pc'[u] \in {"asleep", "woken"} /\ timer'[u] = timer[u]
               \/ pc'[u] \in {"cancel", "cancelIntr"} /\ local'[u] = timer[u]
               \/ timer[u] = 0 \/ (u \in Clients /\ ~timeout[u])
         \/ pc[u] \in {"idle", "arm", "pop"}
  PROVE  \A s \in Slots : /\ slots'[s] \in {slots[s], Free, u}
                          /\ slots'[s] = u => OwnSlot(u, s)'
<1>1. 0 \notin Slots
  BY CtrAssumption DEF Slots
<1>2. SlotInv
  BY DEF IInv
<1> SUFFICES ASSUME NEW s \in Slots, slots[s] = u PROVE OwnSlot(u, s)'
  OBVIOUS
<1>3. OwnSlot(u, s)
  BY <1>2 DEF SlotInv
<1> QED
  BY <1>1, <1>3 DEF OwnSlot

\* A wait, its permit or its sleep.
LEMMA Waits ==
  ASSUME TypeOK, NEW u \in Users, Swait(u), pc[u] = "wait"
  PROVE  /\ count' \in [Users -> 0..MaxEvents] /\ pc' \in [Users -> PCType]
         /\ \A v \in Users : v # u => count'[v] = count[v] /\ pc'[v] = pc[v]
         /\ \/ pc'[u] = "woken" /\ count'[u] = count[u] - 1 /\ count[u] > 0
            \/ pc'[u] = "asleep" /\ count'[u] = count[u]
<1>t. count \in [Users -> 0..MaxEvents] /\ pc \in [Users -> PCType] /\ MaxEvents \in Nat
  BY TypeParts, Constants
<1>1. CASE count[u] > 0
  BY <1>1, <1>t DEF Swait, PCType
<1>2. CASE ~(count[u] > 0)
  BY <1>2, <1>t DEF Swait, PCType
<1> QED
  BY <1>1, <1>2

\* A step inside read() that keeps the queue: what counts is where the reader
\* goes and what becomes of the permits.
LEMMA ReadFrame ==
  ASSUME IInv, TypeOK', NEW c \in Clients, Others(c),
         UNCHANGED <<deliver, arrived, timeout, queue>>,
         \A s \in Slots : /\ slots'[s] \in {slots[s], Free, c}
                          /\ slots'[s] = c => OwnSlot(c, s)',
         pc[c] # "opening", pc'[c] \notin {"opening", "arm"}, WaitOK(c)',
         count'[c] <= count[c],
         count'[c] + Held(c)' <= count[c] + Held(c),
         count'[c] + Held(c)' = count[c] + Held(c) \/ Stranded(c)
  PROVE  IInv' /\ \A d \in Clients : StrandOK(d)
<1>c. Clients \subseteq Users /\ c \in Users /\ Module \notin Clients /\ Free \notin Users
  BY Constants
<1>t. /\ count \in [Users -> 0..MaxEvents] /\ count' \in [Users -> 0..MaxEvents]
      /\ queue \in [Clients -> QType]
  BY Zenon DEF IInv, TypeOK, QType
<1>n. /\ count[c] \in Nat /\ count'[c] \in Nat /\ queue[c].size \in Nat /\ queue[c].missed \in Nat
      /\ Held(c) \in {0, 1} /\ Held(c)' \in {0, 1}
  BY <1>c, <1>t, QueueFields, CtrAssumption DEF Held
<1>T. PermitOK(c) /\ RingOK(c)
  BY DEF IInv
<1>1. PermitOK(c)' /\ RingOK(c)' /\ ArmOK(c)'
  BY <1>n, <1>T DEF PermitOK, RingOK, ArmOK
<1>2. StrandOK(c)
  <2>1. /\ Unannounced(c) = queue[c].size - count[c] - Held(c)
        /\ Unannounced(c)' = queue[c].size - count'[c] - Held(c)'
    BY DEF Unannounced, Held
  <2> QED
    BY <1>n, <2>1 DEF StrandOK
<1> QED
  BY <1>c, <1>n, <1>1, <1>2, Frame

\* Every step of a read keeps the invariant.
LEMMA ReadKeeps ==
  ASSUME IInv, NEW c \in Clients,
         \/ ReadArm(c) \/ ReadStore(c) \/ ReadWait(c) \/ ReadInterrupted(c) \/ ReadWoken(c)
  PROVE  IInv' /\ \A d \in Clients : StrandOK(d)
<1>c. Clients \subseteq Users /\ c \in Users /\ Module \notin Clients /\ Free \notin Users
  BY Constants
<1>T. TypeOK
  BY DEF IInv
<1>t. /\ timeout \in [Clients -> BOOLEAN] /\ queue \in [Clients -> QType]
      /\ count \in [Users -> 0..MaxEvents] /\ timer \in [Users -> 0..NoSlot]
      /\ slots \in [Slots -> Users \cup {Free}] /\ pc \in [Users -> PCType]
      /\ local \in [Users -> 0..NoSlot] /\ early \in [Users -> BOOLEAN]
  BY <1>T, TypeParts
<1>n. count[c] \in Nat /\ 0 \in 0..NoSlot
  BY <1>c, <1>t, Constants, CtrAssumption
<1>u. UNCHANGED <<inUse, timeout, queue, got, deliver, arrived, connected, mutex>>
  BY DEF ReadArm, ReadStore, ReadWait, ReadInterrupted, ReadWoken, clientVars, isrVars
<1>1. CASE ReadArm(c)
  <2>1. /\ pc[c] = "arm" /\ count' = count /\ early' = early
        /\ TakeSlot(c) /\ timer' = timer /\ pc' = [pc EXCEPT ![c] = "store"]
    BY <1>1 DEF ReadArm
  <2>2. timeout[c]
    BY <2>1 DEF IInv, ArmOK
  <2>3. /\ slots' \in [Slots -> Users \cup {Free}] /\ local' \in [Users -> 0..NoSlot]
        /\ local'[c] # 0 /\ \A v \in Users : v # c => local'[v] = local[v]
        /\ \A s \in Slots : /\ slots'[s] \in {slots[s], Free, c}
                            /\ slots'[s] = c => OwnSlot(c, s)'
    BY <1>c, <1>u, <2>1, <2>2, ArmSlots
  <2>4. /\ pc' \in [Users -> PCType] /\ timer' \in [Users -> 0..NoSlot]
        /\ pc'[c] = "store"
        /\ \A v \in Users : v # c => pc'[v] = pc[v] /\ timer'[v] = timer[v]
    BY <1>c, <1>t, <1>n, <2>1 DEF PCType
  <2>5. TypeOK'
    BY <1>T, <1>u, <2>1, <2>3, <2>4 DEF TypeOK, PCType
  <2>6. Others(c)
    BY <1>u, <2>1, <2>3, <2>4 DEF Others
  <2>7. Held(c) = 0 /\ Held(c)' = 0 /\ WaitOK(c)'
    BY <2>1, <2>3, <2>4 DEF Held, HoldsPermit, WaitOK
  <2> QED
    BY <1>n, <1>u, <2>1, <2>3, <2>4, <2>5, <2>6, <2>7, ReadFrame
<1>2. CASE ReadStore(c)
  <2>1. /\ pc[c] = "store" /\ count' = count /\ early' = early /\ slots' = slots
        /\ timer' = [timer EXCEPT ![c] = local[c]] /\ local' = [local EXCEPT ![c] = 0]
        /\ pc' = [pc EXCEPT ![c] = "wait"]
    BY <1>2 DEF ReadStore
  <2>2. /\ pc' \in [Users -> PCType] /\ timer' \in [Users -> 0..NoSlot]
        /\ local' \in [Users -> 0..NoSlot] /\ pc'[c] = "wait" /\ timer'[c] = local[c]
    BY <1>c, <1>t, <1>n, <2>1 DEF PCType
  <2>3. TypeOK'
    BY <1>T, <1>u, <2>1, <2>2 DEF TypeOK, PCType
  <2>4. Others(c)
    BY <1>t, <1>u, <2>1 DEF Others
  <2>5. \A s \in Slots : /\ slots'[s] \in {slots[s], Free, c}
                         /\ slots'[s] = c => OwnSlot(c, s)'
    BY <1>c, <1>u, <2>1, <2>2, WaitSlots
  <2>6. Held(c) = 0 /\ Held(c)' = 0
    BY <2>1, <2>2 DEF Held, HoldsPermit
  <2>7. WaitOK(c)'
    BY <2>1, <2>2 DEF IInv, WaitOK
  <2> QED
    BY <2>7, <1>n, <1>u, <2>1, <2>2, <2>3, <2>4, <2>5, <2>6, ReadFrame
<1>3. CASE ReadWait(c)
  <2>1. /\ pc[c] = "wait" /\ Swait(c) /\ UNCHANGED <<timer, slots, local, early>>
    BY <1>3 DEF ReadWait
  <2>2. /\ count' \in [Users -> 0..MaxEvents] /\ pc' \in [Users -> PCType]
        /\ \A v \in Users : v # c => count'[v] = count[v] /\ pc'[v] = pc[v]
        /\ \/ pc'[c] = "woken" /\ count'[c] = count[c] - 1 /\ count[c] > 0
           \/ pc'[c] = "asleep" /\ count'[c] = count[c]
    BY <1>T, <1>c, <2>1, Waits
  <2>3. TypeOK'
    BY <1>T, <1>u, <2>1, <2>2 DEF TypeOK, PCType
  <2>4. Others(c)
    BY <1>u, <2>1, <2>2 DEF Others
  <2>5. \A s \in Slots : /\ slots'[s] \in {slots[s], Free, c}
                         /\ slots'[s] = c => OwnSlot(c, s)'
    BY <1>c, <1>u, <2>1, <2>2, WaitSlots
  <2>6. Held(c) = 0
    BY <2>1 DEF Held, HoldsPermit
  <2>w. WaitOK(c)
    BY DEF IInv
  <2>7. \/ pc'[c] = "asleep" /\ Held(c)' = 0 /\ count'[c] = count[c]
        \/ pc'[c] = "woken" /\ Held(c)' = 1 /\ count'[c] = count[c] - 1
        \/ pc'[c] = "woken" /\ Held(c)' = 0 /\ count'[c] = count[c] - 1 /\ Stranded(c)
    BY <1>u, <2>1, <2>2, <2>w DEF Held, HoldsPermit, WaitOK, Stranded, TooLate
  <2>9. pc'[c] = "asleep" => count[c] = 0
    <3>1. CASE count[c] > 0
      BY <1>c, <1>t, <2>1, <3>1 DEF Swait
    <3>2. CASE ~(count[c] > 0)
      BY <1>n, <3>2
    <3> QED
      BY <3>1, <3>2
  <2>8. WaitOK(c)'
    BY <1>u, <2>1, <2>2, <2>9, <2>w DEF WaitOK
  <2> QED
    BY <2>8, <1>n, <1>u, <2>1, <2>3, <2>4, <2>5, <2>6, <2>7, ReadFrame
<1>4. CASE ReadInterrupted(c) \/ ReadWoken(c)
  <2>1. /\ pc[c] \in {"asleep", "woken"} /\ count' = count /\ slots' = slots
        /\ early' = [early EXCEPT ![c] = FALSE]
        /\ \/ /\ timer[c] # 0 /\ (pc[c] = "woken" => timeout[c])
              /\ local' = [local EXCEPT ![c] = timer[c]] /\ timer' = [timer EXCEPT ![c] = 0]
              /\ pc' = [pc EXCEPT ![c] = IF pc[c] = "woken" THEN "cancel" ELSE "cancelIntr"]
           \/ /\ timer[c] = 0 /\ (pc[c] = "woken" => timeout[c])
              /\ pc' = [pc EXCEPT ![c] = "idle"] /\ UNCHANGED <<local, timer>>
           \/ /\ pc[c] = "woken" /\ ~timeout[c]
              /\ pc' = [pc EXCEPT ![c] = "pop"] /\ UNCHANGED <<local, timer>>
    BY <1>4 DEF ReadInterrupted, ReadWoken, ForgetTimer, WaitOver
  <2>2. /\ pc' \in [Users -> PCType] /\ timer' \in [Users -> 0..NoSlot]
        /\ local' \in [Users -> 0..NoSlot] /\ early' \in [Users -> BOOLEAN]
    BY <1>c, <1>t, <1>n, <2>1 DEF PCType
  <2>3. TypeOK'
    BY <1>T, <1>u, <2>1, <2>2 DEF TypeOK, PCType
  <2>4. Others(c)
    BY <1>t, <1>u, <2>1 DEF Others
  <2>5. \/ /\ timer[c] # 0 /\ (pc[c] = "woken" => timeout[c]) /\ local'[c] = timer[c]
           /\ pc'[c] = IF pc[c] = "woken" THEN "cancel" ELSE "cancelIntr"
        \/ timer[c] = 0 /\ (pc[c] = "woken" => timeout[c]) /\ pc'[c] = "idle"
        \/ pc[c] = "woken" /\ ~timeout[c] /\ pc'[c] = "pop"
    BY <1>c, <1>t, <2>1
  <2>6. \A s \in Slots : /\ slots'[s] \in {slots[s], Free, c}
                         /\ slots'[s] = c => OwnSlot(c, s)'
    BY <1>c, <1>u, <2>1, <2>2, <2>5, WaitSlots
  <2>7. Held(c)' = Held(c) /\ Held(c) \in {0, 1}
    BY <1>u, <2>1, <2>5 DEF Held, HoldsPermit
  <2>8. pc'[c] \notin {"opening", "arm"} /\ WaitOK(c)'
    BY <2>5 DEF WaitOK
  <2> QED
    BY <1>n, <1>u, <2>1, <2>3, <2>4, <2>6, <2>7, <2>8, ReadFrame
<1> QED
  BY <1>1, <1>2, <1>3, <1>4

\* The end of a read: what was waited for is taken off the ring.
LEMMA PopKeeps ==
  ASSUME IInv, NEW c \in Clients, ReadPop(c)
  PROVE  IInv' /\ \A d \in Clients : StrandOK(d)
<1>c. Clients \subseteq Users /\ c \in Users /\ Module \notin Clients /\ Free \notin Users
  BY Constants
<1>T. TypeOK /\ PermitOK(c) /\ RingOK(c)
  BY DEF IInv
<1>t. /\ queue \in [Clients -> QType] /\ got \in [Clients -> 0..MaxEvents]
      /\ count \in [Users -> 0..MaxEvents] /\ pc \in [Users -> PCType]
  BY <1>T, TypeParts
<1> DEFINE k == queue[c]
<1>q. /\ k.ents \in [0..(QueueSize - 1) -> 0..MaxEvents] /\ k.rd \in 0..(QueueSize - 1)
      /\ k.size \in 0..QueueSize /\ k.size \in Nat /\ k.missed \in Nat /\ k \in QType
      /\ QueueSize \in Nat \ {0} /\ count[c] \in Nat
  BY <1>c, <1>t, QueueFields, CtrAssumption
<1>1. /\ pc[c] = "pop" /\ pc' = [pc EXCEPT ![c] = "idle"]
      /\ UNCHANGED <<inUse, timeout, waitVars, isrVars, connected, mutex>>
  BY DEF ReadPop
<1>2. k.size > 0 /\ count[c] + 1 <= k.size
  BY <1>T, <1>q, <1>1 DEF PermitOK, Held, HoldsPermit
<1> DEFINE m == [k EXCEPT !.rd = (k.rd + 1) % QueueSize, !.size = k.size - 1]
<1>3. /\ got' = [got EXCEPT ![c] = k.ents[k.rd]] /\ queue' = [queue EXCEPT ![c] = m]
  BY <1>2 DEF ReadPop
<1>4. (k.rd + 1) % QueueSize \in 0..(QueueSize - 1) /\ k.size - 1 \in 0..QueueSize
  BY <1>q, <1>2
<1>5. /\ m \in QType /\ m.rd = (k.rd + 1) % QueueSize /\ m.size = k.size - 1
      /\ m.wr = k.wr /\ m.missed = k.missed
  <2> DEFINE r == (k.rd + 1) % QueueSize
             z == k.size - 1
  <2>1. r \in 0..(QueueSize - 1) /\ z \in 0..QueueSize
    BY <1>4
  <2> HIDE DEF r, z, k
  <2>2. [k EXCEPT !.rd = r, !.size = z] \in QType
    BY <1>q, <2>1 DEF QType
  <2>3. /\ [k EXCEPT !.rd = r, !.size = z].rd = r /\ [k EXCEPT !.rd = r, !.size = z].size = z
        /\ [k EXCEPT !.rd = r, !.size = z].wr = k.wr
        /\ [k EXCEPT !.rd = r, !.size = z].missed = k.missed
    BY <1>q DEF QType
  <2> QED
    BY <2>2, <2>3 DEF r, z, m
<1> HIDE DEF m
<1>6. /\ queue' \in [Clients -> QType] /\ queue'[c] = m
      /\ \A d \in Clients : d # c => queue'[d] = queue[d]
  BY <1>t, <1>3, <1>5
<1>7. TypeOK'
  <2>1. got' \in [Clients -> 0..MaxEvents] /\ pc' \in [Users -> PCType]
    BY <1>c, <1>t, <1>q, <1>1, <1>3 DEF PCType
  <2> QED
    BY <1>T, <1>1, <1>6, <2>1 DEF TypeOK, QType, PCType, waitVars, isrVars
<1>8. Others(c)
  BY <1>t, <1>1, <1>6 DEF Others, waitVars
<1>9. pc'[c] = "idle" /\ ~HoldsPermit(c)' /\ HoldsPermit(c)
  BY <1>c, <1>t, <1>1 DEF HoldsPermit
<1>10. PermitOK(c)' /\ ArmOK(c)' /\ WaitOK(c)'
  BY <1>q, <1>1, <1>2, <1>5, <1>6, <1>9 DEF PermitOK, Held, ArmOK, WaitOK, waitVars
<1>11. RingOK(c)'
  <2>1. k.wr = (k.rd + k.size) % QueueSize
    BY <1>T DEF RingOK
  <2> HIDE DEF k
  <2>2. (k.rd + k.size) % QueueSize = (((k.rd + 1) % QueueSize) + (k.size - 1)) % QueueSize
    BY <1>q, <1>2, RingRead
  <2> QED
    BY <1>5, <1>6, <2>1, <2>2 DEF RingOK
<1>12. StrandOK(c)
  <2>1. Unannounced(c)' = (k.size - 1) - count[c]
    BY <1>q, <1>1, <1>5, <1>6, <1>9 DEF Unannounced, waitVars
  <2>2. Unannounced(c) = k.size - count[c] - 1
    BY <1>9 DEF Unannounced
  <2> QED
    BY <1>q, <2>1, <2>2 DEF StrandOK
<1>13. \A s \in Slots : /\ slots'[s] \in {slots[s], Free, c}
                        /\ slots'[s] = c => OwnSlot(c, s)'
  BY <1>c, <1>1 DEF waitVars, IInv, SlotInv, OwnSlot
<1> QED
  <2>1. /\ UNCHANGED <<deliver, arrived>> /\ count'[c] <= count[c]
        /\ queue'[c].missed <= queue[c].missed /\ c # Module
    BY <1>c, <1>q, <1>1, <1>5, <1>6 DEF waitVars, isrVars
  <2> QED
    BY <1>c, <1>7, <1>8, <1>10, <1>11, <1>12, <1>13, <2>1, Frame

\* The module waits in the same way, without a queue or permits.
LEMMA ResetKeeps ==
  ASSUME IInv,
         Reset \/ ResetStore \/ ResetWait \/ ResetWoken \/ ResetInterrupted \/ ResetDone
  PROVE  IInv' /\ \A d \in Clients : StrandOK(d)
<1> DEFINE u == Module
<1>c. Clients \subseteq Users /\ u \in Users /\ u \notin Clients /\ Free \notin Users
  BY Constants
<1>T. TypeOK /\ count[u] = 0
  BY DEF IInv
<1>t. /\ count \in [Users -> 0..MaxEvents] /\ timer \in [Users -> 0..NoSlot]
      /\ slots \in [Slots -> Users \cup {Free}] /\ pc \in [Users -> PCType]
      /\ local \in [Users -> 0..NoSlot] /\ early \in [Users -> BOOLEAN]
  BY <1>T, TypeParts
<1>n. 0 \in 0..NoSlot /\ 0 \in 0..MaxEvents
  BY Constants
<1>u. UNCHANGED <<inUse, timeout, queue, got, deliver, arrived, connected>>
  BY DEF Reset, ResetStore, ResetWait, ResetWoken, ResetInterrupted, ResetDone, ResetCancel,
         clientVars, isrVars
<1> HIDE DEF u
<1>1. CASE Reset
  <2>1. /\ pc[u] = "idle" /\ mutex' = u /\ count' = [count EXCEPT ![u] = 0] /\ early' = early
        /\ TakeSlot(u) /\ timer' = timer /\ pc' = [pc EXCEPT ![u] = "store"]
    BY <1>1 DEF Reset, CountAfterReset, u
  <2>2. /\ slots' \in [Slots -> Users \cup {Free}] /\ local' \in [Users -> 0..NoSlot]
        /\ \A v \in Users : v # u => local'[v] = local[v]
        /\ \A s \in Slots : /\ slots'[s] \in {slots[s], Free, u}
                            /\ slots'[s] = u => OwnSlot(u, s)'
    BY <1>c, <1>u, <2>1, ArmSlots
  <2>3. /\ pc' \in [Users -> PCType] /\ timer' \in [Users -> 0..NoSlot]
        /\ count' \in [Users -> 0..MaxEvents] /\ count'[u] = 0
        /\ \A v \in Users : v # u => /\ pc'[v] = pc[v] /\ timer'[v] = timer[v]
                                     /\ count'[v] = count[v]
    BY <1>c, <1>t, <1>n, <2>1 DEF PCType
  <2>4. TypeOK'
    BY <1>T, <1>c, <1>u, <2>1, <2>2, <2>3 DEF TypeOK, PCType
  <2>5. Others(u)
    BY <1>u, <2>1, <2>2, <2>3 DEF Others
  <2> QED
    BY <1>c, <1>u, <2>2, <2>3, <2>4, <2>5, Frame
<1>2. CASE ResetStore
  <2>1. /\ pc[u] = "store" /\ count' = count /\ early' = early /\ slots' = slots
        /\ timer' = [timer EXCEPT ![u] = local[u]] /\ local' = [local EXCEPT ![u] = 0]
        /\ pc' = [pc EXCEPT ![u] = "wait"] /\ mutex' = mutex
    BY <1>2 DEF ResetStore, u
  <2>2. /\ pc' \in [Users -> PCType] /\ timer' \in [Users -> 0..NoSlot]
        /\ local' \in [Users -> 0..NoSlot] /\ pc'[u] = "wait" /\ timer'[u] = local[u]
    BY <1>c, <1>t, <1>n, <2>1 DEF PCType
  <2>3. TypeOK'
    BY <1>T, <1>u, <2>1, <2>2 DEF TypeOK, PCType
  <2>4. Others(u)
    BY <1>t, <1>u, <2>1 DEF Others
  <2>5. \A s \in Slots : /\ slots'[s] \in {slots[s], Free, u}
                         /\ slots'[s] = u => OwnSlot(u, s)'
    BY <1>c, <1>u, <2>1, <2>2, WaitSlots
  <2> QED
    BY <1>T, <1>c, <1>u, <2>1, <2>3, <2>4, <2>5, Frame
<1>3. CASE ResetWait
  <2>1. /\ pc[u] = "wait" /\ UNCHANGED <<timer, slots, local, early, mutex>>
        /\ Swait(u) \/ (pc' = [pc EXCEPT ![u] = "woken"] /\ count' = count)
    BY <1>3 DEF ResetWait, u
  <2>2. /\ count' \in [Users -> 0..MaxEvents] /\ pc' \in [Users -> PCType]
        /\ \A v \in Users : v # u => count'[v] = count[v] /\ pc'[v] = pc[v]
        /\ pc'[u] \in {"woken", "asleep"} /\ count'[u] = 0
    <3>1. CASE Swait(u)
      BY <1>T, <1>c, <2>1, <3>1, Waits
    <3>2. CASE pc' = [pc EXCEPT ![u] = "woken"] /\ count' = count
      BY <1>T, <1>c, <1>t, <3>2 DEF PCType
    <3> QED
      BY <2>1, <3>1, <3>2
  <2>3. TypeOK'
    BY <1>T, <1>u, <2>1, <2>2 DEF TypeOK, PCType
  <2>4. Others(u)
    BY <1>u, <2>1, <2>2 DEF Others
  <2>5. \A s \in Slots : /\ slots'[s] \in {slots[s], Free, u}
                         /\ slots'[s] = u => OwnSlot(u, s)'
    BY <1>c, <1>u, <2>1, <2>2, WaitSlots
  <2> QED
    BY <1>c, <1>u, <2>2, <2>3, <2>4, <2>5, Frame
<1>4. CASE ResetWoken \/ ResetInterrupted
  <2>1. /\ pc[u] \in {"asleep", "woken"} /\ count' = count /\ slots' = slots /\ mutex' = mutex
        /\ early' = [early EXCEPT ![u] = FALSE]
        /\ \/ /\ local' = [local EXCEPT ![u] = timer[u]] /\ timer' = [timer EXCEPT ![u] = 0]
              /\ pc' = [pc EXCEPT ![u] = "cancel"]
           \/ /\ timer[u] = 0
              /\ pc' = [pc EXCEPT ![u] = "pop"] /\ UNCHANGED <<local, timer>>
    BY <1>4 DEF ResetWoken, ResetInterrupted, ResetCancel, ForgetTimer, WaitOver, u
  <2>2. /\ pc' \in [Users -> PCType] /\ timer' \in [Users -> 0..NoSlot]
        /\ local' \in [Users -> 0..NoSlot] /\ early' \in [Users -> BOOLEAN]
    BY <1>c, <1>t, <1>n, <2>1 DEF PCType
  <2>3. TypeOK'
    BY <1>T, <1>u, <2>1, <2>2 DEF TypeOK, PCType
  <2>4. Others(u)
    BY <1>t, <1>u, <2>1 DEF Others
  <2>5. \/ pc'[u] = "cancel" /\ local'[u] = timer[u]
        \/ timer[u] = 0
    BY <1>c, <1>t, <2>1
  <2>6. \A s \in Slots : /\ slots'[s] \in {slots[s], Free, u}
                         /\ slots'[s] = u => OwnSlot(u, s)'
    BY <1>c, <1>u, <2>1, <2>2, <2>5, WaitSlots
  <2> QED
    BY <1>T, <1>c, <1>u, <2>1, <2>3, <2>4, <2>6, Frame
<1>5. CASE ResetDone
  <2>1. /\ pc[u] = "pop" /\ UNCHANGED <<count, timer, slots, local, early>>
        /\ pc' = [pc EXCEPT ![u] = "idle"] /\ mutex' = Free
    BY <1>5 DEF ResetDone, waitVars, u
  <2>2. pc' \in [Users -> PCType]
    BY <1>t, <2>1 DEF PCType
  <2>3. TypeOK'
    BY <1>T, <1>u, <2>1, <2>2 DEF TypeOK, PCType
  <2>4. Others(u)
    BY <1>t, <1>u, <2>1 DEF Others
  <2>5. \A s \in Slots : /\ slots'[s] \in {slots[s], Free, u}
                         /\ slots'[s] = u => OwnSlot(u, s)'
    BY <1>c, <1>u, <2>1, <2>2, WaitSlots
  <2> QED
    BY <1>T, <1>c, <1>u, <2>1, <2>3, <2>4, <2>5, Frame
<1> QED
  BY <1>1, <1>2, <1>3, <1>4, <1>5

\* The timer in hand is stopped, or whatever timer now has its number: its user
\* has none left.
LEMMA CancelKeeps ==
  ASSUME IInv, NEW u \in Users, CancelSlot(u)
  PROVE  IInv' /\ \A d \in Clients : StrandOK(d)
<1>c. Clients \subseteq Users /\ Module \notin Clients /\ Free \notin Users
  BY Constants
<1>T. TypeOK
  BY DEF IInv
<1>t. /\ slots \in [Slots -> Users \cup {Free}] /\ pc \in [Users -> PCType]
      /\ local \in [Users -> 0..NoSlot] /\ count \in [Users -> 0..MaxEvents]
  BY <1>T, TypeParts
<1>n. 0 \in 0..NoSlot /\ count[u] \in Nat
  BY <1>t, Constants, CtrAssumption
<1>1. /\ pc[u] \in {"cancel", "cancelIntr"} /\ FreeSlot(local[u])
      /\ local' = [local EXCEPT ![u] = 0]
      /\ pc' = [pc EXCEPT ![u] = IF pc[u] = "cancel" THEN "pop" ELSE "idle"]
      /\ UNCHANGED <<inUse, timeout, queue, got, deliver, arrived, connected, mutex>>
      /\ UNCHANGED <<count, timer, early>>
  BY DEF CancelSlot, clientVars, isrVars
<1>f. /\ slots' \in [Slots -> Users \cup {Free}]
      /\ \A s \in Slots : slots'[s] = IF s = local[u] THEN Free ELSE slots[s]
  BY <1>T, <1>1, SlotFreed
<1>2. /\ slots' \in [Slots -> Users \cup {Free}] /\ pc' \in [Users -> PCType]
      /\ local' \in [Users -> 0..NoSlot]
      /\ pc'[u] = IF pc[u] = "cancel" THEN "pop" ELSE "idle"
  BY <1>t, <1>n, <1>1, <1>f DEF PCType
<1>3. TypeOK'
  BY <1>T, <1>1, <1>2 DEF TypeOK, PCType
<1>4. Others(u)
  BY <1>t, <1>1 DEF Others
<1>5. \A s \in Slots : slots'[s] \in {slots[s], Free} /\ slots'[s] # u
  <2> SUFFICES ASSUME NEW s \in Slots PROVE slots'[s] \in {slots[s], Free} /\ slots'[s] # u
    OBVIOUS
  <2>1. CASE s = local[u]
    BY <1>c, <1>f, <2>1
  <2>2. CASE s # local[u]
    <3>1. slots'[s] = slots[s]
      BY <1>f, <2>2
    <3>2. slots[s] # u
      BY <1>1, <2>2 DEF IInv, SlotInv, OwnSlot
    <3> QED
      BY <3>1, <3>2
  <2> QED
    BY <2>1, <2>2
<1>6. CASE u \in Clients
  <2>1. Held(u)' = Held(u) /\ Held(u) \in {0, 1}
    BY <1>1, <1>2 DEF Held, HoldsPermit
  <2>2. pc'[u] \notin {"opening", "arm"} /\ pc[u] # "opening" /\ WaitOK(u)'
    BY <1>1, <1>2 DEF WaitOK
  <2> QED
    BY <1>n, <1>1, <1>3, <1>4, <1>5, <1>6, <2>1, <2>2, ReadFrame
<1>7. CASE u = Module
  <2>1. count'[u] = 0
    BY <1>1, <1>7 DEF IInv
  <2> QED
    BY <1>c, <1>1, <1>3, <1>4, <1>5, <1>7, <2>1, Frame
<1> QED
  BY <1>6, <1>7 DEF Users

\* A timer runs out: its user loses its permits, and knows it (its timer is 0).
LEMMA ExpireKeeps ==
  ASSUME IInv, NEW s \in Slots, Expire(s)
  PROVE  IInv' /\ \A d \in Clients : StrandOK(d)
<1>c. Clients \subseteq Users /\ Module \notin Clients /\ Free \notin Users
  BY Constants
<1>T. TypeOK
  BY DEF IInv
<1>t. /\ slots \in [Slots -> Users \cup {Free}] /\ pc \in [Users -> PCType]
      /\ timer \in [Users -> 0..NoSlot] /\ count \in [Users -> 0..MaxEvents]
      /\ early \in [Users -> BOOLEAN]
  BY <1>T, TypeParts
<1>0. PICK u \in Users : slots[s] = u
  BY <1>t DEF Expire
<1>n. 0 \in 0..NoSlot /\ 0 \in 0..MaxEvents /\ count[u] \in Nat
  BY <1>t, Constants, CtrAssumption
<1>1. /\ FreeSlot(s) /\ local' = local
      /\ timer' = [timer EXCEPT ![u] = 0] /\ count' = [count EXCEPT ![u] = 0]
      /\ (pc' = pc /\ (pc[u] # "asleep" \/ count[u] # 0))
         \/ (pc' = [pc EXCEPT ![u] = "woken"] /\ pc[u] = "asleep")
      /\ \E b \in BOOLEAN : early' = [early EXCEPT ![u] = b] /\ (pc[u] \in {"store", "wait"} => b)
      /\ UNCHANGED <<inUse, timeout, queue, got, deliver, arrived, connected, mutex>>
  <2>1. early' = [early EXCEPT ![u] = pc[u] \in {"store", "wait"}]
    BY <1>0 DEF Expire, TimedOut
  <2>2. \E b \in BOOLEAN : early' = [early EXCEPT ![u] = b] /\ (pc[u] \in {"store", "wait"} => b)
    <3> DEFINE b == pc[u] \in {"store", "wait"}
    <3>1. b \in BOOLEAN /\ early' = [early EXCEPT ![u] = b] /\ (pc[u] \in {"store", "wait"} => b)
      BY <2>1
    <3> HIDE DEF b
    <3> QED
      BY <3>1
  <2> QED
    BY <1>0, <2>2 DEF Expire, TimedOut, CountAfterReset, PcAfterReset, clientVars, isrVars
<1>2. OwnSlot(u, s)
  BY <1>0 DEF IInv, SlotInv
<1>f. /\ slots' \in [Slots -> Users \cup {Free}]
      /\ \A r \in Slots : slots'[r] = IF r = s THEN Free ELSE slots[r]
  BY <1>T, <1>1, SlotFreed
<1>3. /\ slots' \in [Slots -> Users \cup {Free}] /\ pc' \in [Users -> PCType]
      /\ timer' \in [Users -> 0..NoSlot] /\ count' \in [Users -> 0..MaxEvents]
      /\ count'[u] = 0 /\ timer'[u] = 0
      /\ (pc'[u] = pc[u] /\ (pc[u] # "asleep" \/ count[u] # 0))
         \/ (pc'[u] = "woken" /\ pc[u] = "asleep")
  BY <1>t, <1>n, <1>1, <1>f DEF PCType
<1>4. early' \in [Users -> BOOLEAN] /\ (pc[u] \in {"store", "wait"} => early'[u])
  BY <1>t, <1>1
<1>5. TypeOK'
  BY <1>T, <1>1, <1>3, <1>4 DEF TypeOK, PCType
<1>6. Others(u)
  BY <1>t, <1>1 DEF Others
<1>7. \A r \in Slots : slots'[r] \in {slots[r], Free} /\ slots'[r] # u
  <2> SUFFICES ASSUME NEW r \in Slots PROVE slots'[r] \in {slots[r], Free} /\ slots'[r] # u
    OBVIOUS
  <2>1. CASE r = s
    BY <1>c, <1>f, <2>1
  <2>2. CASE r # s
    <3>1. slots'[r] = slots[r]
      BY <1>f, <2>2
    <3>2. slots[r] # u
      BY <1>2, <2>2 DEF IInv, SlotInv, OwnSlot
    <3> QED
      BY <3>1, <3>2
  <2> QED
    BY <2>1, <2>2
<1>8. CASE u \in Clients
  <2>1. timeout[u] /\ Stranded(u)
    BY <1>0, <1>2, <1>8 DEF OwnSlot, Stranded, TimesOut
  <2>w. WaitOK(u)
    BY <1>8 DEF IInv
  <2>4. WaitOK(u)'
    BY <1>1, <1>3, <1>4, <2>w DEF WaitOK
  <2>2. Held(u) \in {0, 1} /\ Held(u)' \in {0, 1} /\ Held(u)' <= Held(u)
    BY <1>1, <1>3, <2>1 DEF Held, HoldsPermit
  <2>3. pc'[u] \notin {"opening", "arm"} /\ pc[u] # "opening"
    BY <1>2, <1>3 DEF OwnSlot
  <2> QED
    BY <1>n, <1>1, <1>3, <1>5, <1>6, <1>7, <1>8, <2>1, <2>2, <2>3, <2>4, ReadFrame
<1>9. CASE u = Module
  BY <1>c, <1>1, <1>3, <1>5, <1>6, <1>7, <1>9, Frame
<1> QED
  BY <1>8, <1>9 DEF Users

-----------------------------------------------------------------------------
(* Events.                                                                 *)

\* An event that arrives is on its way to every client concerned.
LEMMA ArriveKeeps ==
  ASSUME IInv, NEW d \in Sources, Arrive(d)
  PROVE  IInv' /\ \A c \in Clients : StrandOK(c)
<1>T. TypeOK
  BY DEF IInv
<1>t. /\ deliver \in [Sources -> DType] /\ connected \subseteq Clients /\ arrived \in 0..MaxEvents
      /\ count \in [Users -> 0..MaxEvents] /\ queue \in [Clients -> QType]
  BY <1>T, TypeParts
<1>c. Clients \subseteq Users /\ MaxEvents \in Nat
  BY Constants
<1>1. PICK S \in SUBSET connected :
        deliver' = [deliver EXCEPT ![d] = [event |-> arrived + 1, left |-> S]]
  BY DEF Arrive
<1>2. /\ deliver[d].left = {} /\ arrived < MaxEvents /\ arrived' = arrived + 1
      /\ UNCHANGED <<inUse, timeout, queue, got, pc, connected, mutex>>
      /\ UNCHANGED <<count, timer, slots, local, early>>
  BY DEF Arrive, clientVars, waitVars
<1>3. /\ arrived' \in 1..MaxEvents /\ deliver' \in [Sources -> DType]
      /\ deliver'[d].event = arrived + 1
      /\ \A e \in Sources : e # d => deliver'[e] = deliver[e]
  BY <1>t, <1>c, <1>1, <1>2 DEF DType
<1>4. TypeOK'
  BY <1>T, <1>2, <1>3 DEF TypeOK, DType
<1>5. SlotInv'
  BY <1>2 DEF IInv, SlotInv, OwnSlot
<1>6. DeliverInv'
  BY <1>2, <1>3 DEF IInv, DeliverInv, Events
<1>7. ASSUME NEW c \in Clients
      PROVE  ArmOK(c)' /\ WaitOK(c)' /\ PermitOK(c)' /\ RingOK(c)' /\ BoundOK(c)' /\ StrandOK(c)
  <2>1. HoldsPermit(c)' <=> HoldsPermit(c)
    BY <1>2 DEF HoldsPermit
  <2>2. ArmOK(c)' /\ WaitOK(c)' /\ PermitOK(c)' /\ RingOK(c)'
    BY <1>2, <2>1 DEF IInv, ArmOK, WaitOK, PermitOK, RingOK, Held
  <2>n. count[c] \in Nat /\ queue[c].missed \in Nat /\ queue[c].size \in Nat /\ arrived \in Nat
    BY <1>c, <1>t, QueueFields
  <2>3. BoundOK(c)'
    <3>1. BoundOK(c) /\ Coming(c, d) = 0
      BY <1>2 DEF IInv, Coming
    <3>2. Coming(c, d)' \in {0, 1} /\ \A e \in Sources : e # d => Coming(c, e)' = Coming(c, e)
      BY <1>3 DEF Coming
    <3>3. \A e \in Sources : Coming(c, e) \in {0, 1}
      BY DEF Coming
    <3>4. CASE d = "isr"
      BY <1>2, <2>n, <3>1, <3>2, <3>3, <3>4 DEF BoundOK, Sources
    <3>5. CASE d = "write"
      BY <1>2, <2>n, <3>1, <3>2, <3>3, <3>5 DEF BoundOK, Sources
    <3> QED
      BY <3>4, <3>5 DEF Sources
  <2>4. Unannounced(c)' = Unannounced(c) /\ Unannounced(c) \in Int
    BY <1>2, <2>1, <2>n DEF Unannounced
  <2> QED
    BY <2>2, <2>3, <2>4 DEF StrandOK
<1> QED
  BY <1>2, <1>4, <1>5, <1>6, <1>7 DEF IInv

\* A queue after an event has been put in it.
Put1(k, e) ==
  [k EXCEPT !.ents = [k.ents EXCEPT ![k.wr] = e],
            !.wr = (k.wr + 1) % QueueSize,
            !.size = IF k.size = QueueSize THEN k.size ELSE k.size + 1,
            !.missed = IF k.size = QueueSize THEN k.missed + 1 ELSE k.missed,
            !.rd = IF k.size = QueueSize THEN (k.rd + 1) % QueueSize ELSE k.rd]

\* Field by field; only the count of missed events can leave its type.
LEMMA Put1Fields ==
  ASSUME NEW k \in QType, NEW e \in 0..MaxEvents
  PROVE  /\ Put1(k, e).ents = [k.ents EXCEPT ![k.wr] = e]
         /\ Put1(k, e).wr = (k.wr + 1) % QueueSize
         /\ Put1(k, e).size = IF k.size = QueueSize THEN k.size ELSE k.size + 1
         /\ Put1(k, e).missed = IF k.size = QueueSize THEN k.missed + 1 ELSE k.missed
         /\ Put1(k, e).rd = IF k.size = QueueSize THEN (k.rd + 1) % QueueSize ELSE k.rd
         /\ Put1(k, e).missed \in 0..MaxEvents => Put1(k, e) \in QType
<1> DEFINE ents == [k.ents EXCEPT ![k.wr] = e]
           wr == (k.wr + 1) % QueueSize
           size == IF k.size = QueueSize THEN k.size ELSE k.size + 1
           missed == IF k.size = QueueSize THEN k.missed + 1 ELSE k.missed
           rd == IF k.size = QueueSize THEN (k.rd + 1) % QueueSize ELSE k.rd
<1>0. QueueSize \in Nat \ {0} /\ MaxEvents \in Nat
  BY CtrAssumption
<1>1. /\ k.ents \in [0..(QueueSize - 1) -> 0..MaxEvents]
      /\ k.wr \in 0..(QueueSize - 1) /\ k.rd \in 0..(QueueSize - 1)
      /\ k.size \in 0..QueueSize /\ k.missed \in 0..MaxEvents
  BY QueueFields
<1>2. ents \in [0..(QueueSize - 1) -> 0..MaxEvents]
  BY <1>1
<1>3. wr \in 0..(QueueSize - 1) /\ rd \in 0..(QueueSize - 1)
  BY <1>1, RingFull
<1>4. size \in 0..QueueSize
  BY <1>0, <1>1
<1>5. Put1(k, e) = [k EXCEPT !.ents = ents, !.wr = wr, !.size = size, !.missed = missed, !.rd = rd]
  BY DEF Put1
<1> HIDE DEF ents, wr, size, missed, rd
<1>6. /\ Put1(k, e).ents = ents /\ Put1(k, e).wr = wr /\ Put1(k, e).size = size
      /\ Put1(k, e).missed = missed /\ Put1(k, e).rd = rd
  BY <1>5 DEF QType
<1>7. missed \in 0..MaxEvents => Put1(k, e) \in QType
  BY <1>2, <1>3, <1>4, <1>5 DEF QType
<1> QED
  BY <1>6, <1>7 DEF ents, wr, size, missed, rd

\* An event enters the ring of the next client, whose semaphore is signalled
\* unless the ring was full.
LEMMA PutEffect ==
  ASSUME IInv, NEW d \in Sources, Put(d)
  PROVE  \E c \in Clients :
           /\ c \in deliver[d].left /\ deliver[d].event \in Events
           /\ queue' = [queue EXCEPT ![c] = Put1(queue[c], deliver[d].event)]
           /\ IF queue[c].size = QueueSize THEN UNCHANGED <<count, pc>> ELSE Ssignal(c)
           /\ deliver' = [deliver EXCEPT ![d].left = @ \ {c}]
<1>1. deliver \in [Sources -> DType] /\ Clients \in SUBSET Nat
  BY TypeParts, Constants DEF IInv
<1>2. deliver[d].left \in SUBSET Nat /\ deliver[d].left # {} /\ deliver[d].left \subseteq Clients
  BY <1>1 DEF Put, DType
<1>3. Min(deliver[d].left) \in deliver[d].left
  BY <1>2, MinIn
<1>4. deliver[d].event \in Events
  BY <1>2 DEF IInv, DeliverInv
<1> DEFINE c == Min(deliver[d].left)
<1>5. /\ queue' = [queue EXCEPT ![c] = Put1(queue[c], deliver[d].event)]
      /\ IF queue[c].size = QueueSize THEN UNCHANGED <<count, pc>> ELSE Ssignal(c)
      /\ deliver' = [deliver EXCEPT ![d].left = @ \ {c}]
  BY DEF Put, Put1
<1> QED
  BY <1>2, <1>3, <1>4, <1>5

\* The signal reaches the sleeper, or stays as a permit.
LEMMA SignalEffect ==
  ASSUME IInv, NEW c \in Clients,
         IF queue[c].size = QueueSize THEN UNCHANGED <<count, pc>> ELSE Ssignal(c)
  PROVE  /\ pc' \in [Users -> PCType]
         /\ \A v \in Users : v # c => count'[v] = count[v] /\ pc'[v] = pc[v]
         /\ \/ queue[c].size = QueueSize /\ count' = count /\ pc' = pc
            \/ /\ queue[c].size # QueueSize /\ count' = count
               /\ pc[c] = "asleep" /\ pc'[c] = "woken"
            \/ /\ queue[c].size # QueueSize /\ count' = [count EXCEPT ![c] = count[c] + 1]
               /\ count'[c] = count[c] + 1 /\ pc' = pc /\ pc[c] # "asleep"
<1>t. count \in [Users -> 0..MaxEvents] /\ pc \in [Users -> PCType] /\ c \in Users
  BY TypeParts, Constants DEF IInv
<1>1. CASE queue[c].size = QueueSize
  BY <1>1, <1>t
<1>2. CASE queue[c].size # QueueSize /\ pc[c] = "asleep"
  BY <1>2, <1>t DEF Ssignal, PCType
<1>3. CASE queue[c].size # QueueSize /\ pc[c] # "asleep"
  BY <1>3, <1>t DEF Ssignal
<1> QED
  BY <1>1, <1>2, <1>3

\* Putting an event keeps the invariant.
LEMMA PutKeeps ==
  ASSUME IInv, NEW d \in Sources, Put(d)
  PROVE  IInv' /\ \A c \in Clients : StrandOK(c)
<1>T. TypeOK
  BY DEF IInv
<1>t. /\ deliver \in [Sources -> DType] /\ arrived \in 0..MaxEvents
      /\ count \in [Users -> 0..MaxEvents] /\ queue \in [Clients -> QType]
      /\ pc \in [Users -> PCType]
  BY <1>T, TypeParts
<1>c. Clients \subseteq Users /\ MaxEvents \in Nat /\ Module \in Users /\ Module \notin Clients
  BY Constants
<1>1. PICK c \in Clients :
        /\ c \in deliver[d].left /\ deliver[d].event \in Events
        /\ queue' = [queue EXCEPT ![c] = Put1(queue[c], deliver[d].event)]
        /\ IF queue[c].size = QueueSize THEN UNCHANGED <<count, pc>> ELSE Ssignal(c)
        /\ deliver' = [deliver EXCEPT ![d].left = @ \ {c}]
  BY PutEffect
<1>2. UNCHANGED <<inUse, timeout, got, timer, slots, local, early, arrived, connected, mutex>>
  BY DEF Put
<1>3. /\ pc' \in [Users -> PCType]
      /\ \A v \in Users : v # c => count'[v] = count[v] /\ pc'[v] = pc[v]
      /\ \/ queue[c].size = QueueSize /\ count' = count /\ pc' = pc
         \/ /\ queue[c].size # QueueSize /\ count' = count
            /\ pc[c] = "asleep" /\ pc'[c] = "woken"
         \/ /\ queue[c].size # QueueSize /\ count' = [count EXCEPT ![c] = count[c] + 1]
            /\ count'[c] = count[c] + 1 /\ pc' = pc /\ pc[c] # "asleep"
  BY <1>1, SignalEffect
<1> DEFINE k == queue[c]
           m == Put1(k, deliver[d].event)
<1>4. /\ k \in QType /\ k.wr \in 0..(QueueSize - 1) /\ k.rd \in 0..(QueueSize - 1)
      /\ k.size \in 0..QueueSize /\ k.size \in Nat /\ k.missed \in Nat
      /\ QueueSize \in Nat \ {0} /\ count[c] \in Nat /\ arrived \in Nat
  BY <1>c, <1>t, QueueFields, CtrAssumption
<1>5. /\ m.wr = (k.wr + 1) % QueueSize
      /\ m.size = IF k.size = QueueSize THEN k.size ELSE k.size + 1
      /\ m.missed = IF k.size = QueueSize THEN k.missed + 1 ELSE k.missed
      /\ m.rd = IF k.size = QueueSize THEN (k.rd + 1) % QueueSize ELSE k.rd
      /\ m.missed \in 0..MaxEvents => m \in QType
  <2>1. deliver[d].event \in 0..MaxEvents
    BY <1>1, <1>c DEF Events
  <2> QED
    BY <1>4, <2>1, Put1Fields
<1> HIDE DEF k, m
<1>6. /\ deliver' \in [Sources -> DType] /\ deliver'[d].left = deliver[d].left \ {c}
      /\ deliver'[d].event = deliver[d].event
      /\ \A e \in Sources : e # d => deliver'[e] = deliver[e]
  BY <1>t, <1>1 DEF DType
<1>7. BoundOK(c) /\ PermitOK(c) /\ RingOK(c) /\ ArmOK(c) /\ WaitOK(c)
  BY DEF IInv
<1>8. /\ Coming(c, d) = 1 /\ Coming(c, d)' = 0
      /\ \A v \in Clients, e \in Sources :
           /\ Coming(v, e) \in {0, 1} /\ Coming(v, e)' \in {0, 1}
           /\ v # c \/ e # d => Coming(v, e)' = Coming(v, e)
  BY <1>1, <1>6 DEF Coming
<1>9. m.missed + Coming(c, "isr")' + Coming(c, "write")' <= arrived
  <2>1. CASE d = "isr"
    BY <1>4, <1>5, <1>7, <1>8, <2>1 DEF BoundOK, k, Sources
  <2>2. CASE d = "write"
    BY <1>4, <1>5, <1>7, <1>8, <2>2 DEF BoundOK, k, Sources
  <2> QED
    BY <2>1, <2>2 DEF Sources
<1>10. m.missed \in 0..MaxEvents
  <2>1. m.missed \in Nat
    BY <1>4, <1>5
  <2> QED
    BY <1>c, <1>t, <1>8, <1>9, <2>1 DEF Sources
<1>11. count'[c] + Coming(c, "isr")' + Coming(c, "write")' <= arrived
  <2>1. count'[c] \in {count[c], count[c] + 1}
    BY <1>3
  <2>2. CASE d = "isr"
    BY <1>4, <1>7, <1>8, <2>1, <2>2 DEF BoundOK, Sources
  <2>3. CASE d = "write"
    BY <1>4, <1>7, <1>8, <2>1, <2>3 DEF BoundOK, Sources
  <2> QED
    BY <2>2, <2>3 DEF Sources
<1>12. count' \in [Users -> 0..MaxEvents]
  <2>1. count'[c] \in 0..MaxEvents
    <3>1. count'[c] \in Nat
      BY <1>3, <1>4
    <3> QED
      BY <1>c, <1>t, <1>8, <1>11, <3>1 DEF Sources
  <2> QED
    BY <1>t, <1>3, <2>1
<1>13. /\ queue' \in [Clients -> QType] /\ queue'[c] = m
       /\ \A v \in Clients : v # c => queue'[v] = queue[v]
  BY <1>1, <1>t, <1>5, <1>10 DEF k, m
<1>14. TypeOK'
  BY <1>T, <1>2, <1>3, <1>6, <1>12, <1>13 DEF TypeOK, PCType, QType, DType
<1>15. SlotInv'
  <2> SUFFICES ASSUME NEW s \in Slots, NEW v \in Users, slots[s] = v PROVE OwnSlot(v, s)'
    BY <1>2 DEF SlotInv
  <2>1. OwnSlot(v, s)
    BY DEF IInv, SlotInv
  <2>2. pc'[v] = pc[v] \/ (pc[v] = "asleep" /\ pc'[v] = "woken")
    BY <1>3
  <2> QED
    BY <1>2, <2>1, <2>2 DEF OwnSlot
<1>16. DeliverInv'
  BY <1>6 DEF IInv, DeliverInv
<1>17. ASSUME NEW v \in Clients, v # c
       PROVE  ArmOK(v)' /\ WaitOK(v)' /\ PermitOK(v)' /\ RingOK(v)' /\ BoundOK(v)' /\ StrandOK(v)
  <2>1. pc'[v] = pc[v] /\ count'[v] = count[v] /\ queue'[v] = queue[v]
    BY <1>c, <1>3, <1>13, <1>17
  <2>2. HoldsPermit(v)' <=> HoldsPermit(v)
    BY <1>2, <2>1 DEF HoldsPermit
  <2>3. ArmOK(v)' /\ WaitOK(v)' /\ PermitOK(v)' /\ RingOK(v)'
    BY <1>2, <2>1, <2>2 DEF IInv, ArmOK, WaitOK, PermitOK, RingOK, Held
  <2>4. BoundOK(v)'
    <3>1. BoundOK(v) /\ Coming(v, "isr")' = Coming(v, "isr") /\ Coming(v, "write")' = Coming(v, "write")
      BY <1>8, <1>17 DEF IInv, Sources
    <3> QED
      BY <1>2, <2>1, <3>1 DEF BoundOK
  <2>5. Unannounced(v)' = Unannounced(v) /\ Unannounced(v) \in Int
    <3>1. count[v] \in Nat /\ queue[v].size \in Nat
      BY <1>c, <1>t, QueueFields
    <3> QED
      BY <2>1, <2>2, <3>1 DEF Unannounced
  <2> QED
    BY <2>3, <2>4, <2>5 DEF StrandOK
<1>18. RingOK(c)'
  <2>1. k.wr = (k.rd + k.size) % QueueSize
    BY <1>7 DEF RingOK, k
  <2>2. m.wr = (m.rd + m.size) % QueueSize
    <3>1. CASE k.size = QueueSize
      <4>1. k.wr = k.rd
        BY <1>4, <2>1, <3>1, RingFull
      <4>2. m.rd = (k.rd + 1) % QueueSize /\ m.size = QueueSize /\ m.wr = m.rd
        BY <1>5, <3>1, <4>1
      <4>3. m.rd \in 0..(QueueSize - 1)
        BY <1>4, <4>2, RingFull
      <4> QED
        BY <4>2, <4>3, RingFull
    <3>2. CASE k.size # QueueSize
      <4>1. k.size \in 0..(QueueSize - 1)
        BY <1>4, <3>2
      <4> QED
        BY <1>4, <1>5, <2>1, <3>2, <4>1, RingWrite
    <3> QED
      BY <3>1, <3>2
  <2> QED
    BY <1>13, <2>2 DEF RingOK
<1>19. /\ BoundOK(c)' /\ ArmOK(c)' /\ WaitOK(c)'
  BY <1>2, <1>3, <1>7, <1>9, <1>11, <1>13 DEF BoundOK, ArmOK, WaitOK
<1>20. PermitOK(c)' /\ StrandOK(c)
  <2>0. Held(c) \in {0, 1} /\ Held(c)' \in {0, 1}
    BY DEF Held
  <2>1. /\ Unannounced(c) = k.size - count[c] - Held(c)
        /\ Unannounced(c)' = m.size - count'[c] - Held(c)'
    BY <1>13 DEF Unannounced, Held, k
  <2>2. CASE k.size = QueueSize /\ count' = count /\ pc' = pc
    <3>1. Held(c)' = Held(c) /\ m.size = k.size
      BY <1>2, <1>5, <2>2 DEF Held, HoldsPermit
    <3> QED
      BY <1>4, <1>7, <1>13, <2>0, <2>1, <2>2, <3>1 DEF PermitOK, StrandOK, k
  <2>3. CASE k.size # QueueSize /\ count' = count /\ pc[c] = "asleep" /\ pc'[c] = "woken"
    <3>1. Held(c) = 0 /\ m.size = k.size + 1 /\ (Held(c)' = 1 \/ Stranded(c))
      BY <1>2, <1>5, <1>7, <2>3 DEF Held, HoldsPermit, WaitOK, Stranded, TooLate
    <3> QED
      BY <1>4, <1>7, <1>13, <2>0, <2>1, <2>3, <3>1 DEF PermitOK, StrandOK, k
  <2>4. CASE /\ k.size # QueueSize /\ count'[c] = count[c] + 1 /\ pc' = pc
    <3>1. Held(c)' = Held(c) /\ m.size = k.size + 1
      BY <1>2, <1>5, <2>4 DEF Held, HoldsPermit
    <3> QED
      BY <1>4, <1>7, <1>13, <2>0, <2>1, <2>4, <3>1 DEF PermitOK, StrandOK, k
  <2> QED
    BY <1>3, <2>2, <2>3, <2>4 DEF k
<1>21. count'[Module] = 0
  BY <1>c, <1>3 DEF IInv
<1> QED
  BY <1>14, <1>15, <1>16, <1>17, <1>18, <1>19, <1>20, <1>21 DEF IInv

-----------------------------------------------------------------------------
(* The properties.                                                         *)

\* It holds at the start.
LEMMA InitIInv == Init => IInv
<1> SUFFICES ASSUME Init PROVE IInv
  OBVIOUS
<1>z. /\ 0 \in 0..MaxEvents /\ 0 \in 0..NoSlot /\ EmptyQueue \in QType
      /\ Module \in Users /\ Clients \subseteq Users /\ Free \notin Users
  BY Constants
<1>1. TypeOK
  <2>1. NoDelivery \in DType
    BY <1>z DEF NoDelivery, DType
  <2> QED
    BY <1>z, <2>1 DEF Init, TypeOK, QType, PCType, DType
<1>2. SlotInv /\ DeliverInv
  BY <1>z DEF Init, SlotInv, DeliverInv, NoDelivery
<1>3. ASSUME NEW c \in Clients PROVE ArmOK(c) /\ WaitOK(c) /\ PermitOK(c) /\ RingOK(c) /\ BoundOK(c)
  <2>1. /\ queue[c].size = 0 /\ queue[c].missed = 0 /\ queue[c].rd = 0 /\ queue[c].wr = 0
        /\ count[c] = 0 /\ pc[c] = "idle"
    BY <1>z DEF Init, EmptyQueue
  <2>2. Coming(c, "isr") = 0 /\ Coming(c, "write") = 0
    BY DEF Init, Coming, NoDelivery, Sources
  <2>3. arrived = 0
    BY DEF Init
  <2> QED
    BY <2>1, <2>2, <2>3, CtrAssumption DEF ArmOK, WaitOK, PermitOK, Held, HoldsPermit, RingOK, BoundOK
<1>4. count[Module] = 0
  BY <1>z DEF Init
<1> QED
  BY <1>1, <1>2, <1>3, <1>4 DEF IInv

\* Every step keeps it, and strands no event but by a timeout.
LEMMA StepIInv ==
  ASSUME IInv, Next
  PROVE  IInv' /\ \A c \in Clients : StrandOK(c)
<1>1. ASSUME NEW c \in Clients, ClientNext(c)
      PROVE  IInv' /\ \A d \in Clients : StrandOK(d)
  BY <1>1, CallsKeep, ReadKeeps, PopKeeps DEF ClientNext, ReadStep
<1>2. CASE IntrHandler \/ CtrDrvrWrite
  BY <1>2, ArriveKeeps DEF IntrHandler, CtrDrvrWrite, Sources
<1>3. CASE Reset \/ ResetStep \/ ResetInterrupted
  BY <1>3, ResetKeeps DEF ResetStep
<1> QED
  BY <1>1, <1>2, <1>3, CancelKeeps, ExpireKeeps, PutKeeps DEF Next

\* The invariant holds in every reachable state.
LEMMA Invariance == Spec => []IInv
<1>1. IInv /\ [Next]_vars => IInv'
  <2> SUFFICES ASSUME IInv, [Next]_vars PROVE IInv'
    OBVIOUS
  <2>1. CASE UNCHANGED vars
    BY <2>1 DEF vars, clientVars, waitVars, isrVars, IInv, TypeOK, SlotInv, OwnSlot,
       DeliverInv, ArmOK, WaitOK, PermitOK, Held, HoldsPermit, RingOK, BoundOK, Coming
  <2> QED
    BY <2>1, StepIInv
<1> QED
  BY <1>1, InitIInv, PTL DEF Spec

\* Every variable of the driver stays within its type; in particular no
\* semaphore and no count of missed events exceeds the events that arrived.
THEOREM TypeCorrect == Spec => []TypeOK
<1>1. IInv => TypeOK
  BY DEF IInv
<1> QED
  BY <1>1, Invariance, PTL

\* A context outside read() and Reset() has no timer running, however its last
\* call ended.
THEOREM TimersReturned == Spec => []IdleHasNoTimer
<1>1. IInv => IdleHasNoTimer
  BY DEF IInv, SlotInv, OwnSlot, IdleHasNoTimer
<1> QED
  BY <1>1, Invariance, PTL

\* A reader that gets past the wait without a timeout finds an event in its
\* queue, and so does the reader of every permit that is left.
THEOREM PermitsHaveEvents == Spec => []PermitHasEvent
<1>1. IInv => PermitHasEvent
  BY DEF IInv, PermitOK, Held, PermitHasEvent
<1> QED
  BY <1>1, Invariance, PTL

\* Only a timeout, or the opening of the device, leaves an event in a ring that
\* no permit announces.
THEOREM TimeoutsStrand == Spec => OnlyTimeoutsStrand
<1>1. IInv /\ [Next]_vars =>
        [\A c \in Clients : Unannounced(c)' > Unannounced(c) =>
            pc[c] = "opening" \/ TimesOut(c) \/ TooLate(c)]_vars
  <2> SUFFICES ASSUME IInv, Next, NEW c \in Clients, Unannounced(c)' > Unannounced(c)
               PROVE  pc[c] = "opening" \/ TimesOut(c) \/ TooLate(c)
    OBVIOUS
  <2>1. StrandOK(c)
    BY StepIInv
  <2> QED
    BY <2>1 DEF StrandOK, Stranded
<1> QED
  BY <1>1, Invariance, PTL DEF Spec, OnlyTimeoutsStrand

-----------------------------------------------------------------------------
(* Enough timers.                                                          *)

\* Nobody has failed to get a timer.
AllTimed == \A u \in Users : timer[u] # NoSlot /\ local[u] # NoSlot

\* Nobody runs two timers: as many timers as users are never all taken when a
\* user without one asks.
LEMMA OneIsFree ==
  ASSUME IInv, Timers >= Cardinality(Users), NEW u \in Users, \A s \in Slots : slots[s] # u
  PROVE  FreeSlots # {}
<1> SUFFICES ASSUME FreeSlots = {} PROVE FALSE
  OBVIOUS
<1>1. slots \in [Slots -> Users \cup {Free}] /\ Free \notin Users /\ Timers \in Nat
  BY TypeParts, Constants DEF IInv
<1>2. IsFiniteSet(Users) /\ Users \ {u} \subseteq Users
  <2>1. IsFiniteSet({Module})
    BY FS_Singleton
  <2> QED
    BY <2>1, FS_Union, CtrAssumption DEF Users
<1>3. IsFiniteSet(Users \ {u}) /\ Cardinality(Users \ {u}) = Cardinality(Users) - 1
      /\ Cardinality(Users) \in Nat
  BY <1>2, FS_RemoveElement, FS_CardinalityType
<1>4. \A s \in Slots : slots[s] \in Users \ {u}
  BY <1>1 DEF FreeSlots
<1>5. \A s, r \in Slots : slots[s] = slots[r] => s = r
  BY <1>4 DEF IInv, SlotInv, OwnSlot
<1>6. slots \in Injection(Slots, Users \ {u})
  <2>1. slots \in [Slots -> Users \ {u}]
    BY <1>1, <1>4
  <2> QED
    BY <1>5, <2>1 DEF Injection, IsInjective
<1>7. Cardinality(Slots) <= Cardinality(Users \ {u})
  BY <1>3, <1>6, FS_Injection, Zenon
<1>8. Cardinality(Slots) = Timers
  BY <1>1, FS_Interval DEF Slots
<1> QED
  BY <1>1, <1>3, <1>7, <1>8

\* With as many timers as there are contexts that wait, timeout() never fails:
\* no read that asked for a timeout waits without one, and the unsigned test of
\* CtrDrvrRead and Reset is never needed.
THEOREM TimersSuffice == (Timers >= Cardinality(Users)) /\ Spec => []TimedReadsHaveTimers
<1> SUFFICES ASSUME Timers >= Cardinality(Users) PROVE Spec => []TimedReadsHaveTimers
  OBVIOUS
<1>1. Init => AllTimed
  BY Constants DEF Init, AllTimed
<1>2. ASSUME IInv, AllTimed, Next PROVE AllTimed'
  <2>c. /\ NoSlot # 0 /\ NoSlot \notin Slots /\ Clients \subseteq Users /\ Module \in Users
    BY Constants
  <2>t. timer \in [Users -> 0..NoSlot] /\ local \in [Users -> 0..NoSlot] /\ TypeOK
    BY <1>2, TypeParts DEF IInv
  <2>1. ASSUME NEW u \in Users, pc[u] \in {"arm", "idle"}, TakeSlot(u), timer' = timer
        PROVE  AllTimed'
    <3>1. \A s \in Slots : slots[s] # u
      BY <1>2, <2>1 DEF IInv, SlotInv, OwnSlot
    <3>2. FreeSlots # {}
      BY <1>2, <3>1, OneIsFree
    <3>3. PICK s \in Slots : local' = [local EXCEPT ![u] = s]
      BY <2>t, <2>1, <3>2, SlotTaken
    <3> QED
      BY <1>2, <2>c, <2>t, <2>1, <3>3 DEF AllTimed
  <2>2. CASE timer' = timer /\ local' = local
    BY <1>2, <2>2 DEF AllTimed
  <2>3. ASSUME NEW u \in Users,
               \/ timer' = [timer EXCEPT ![u] = 0]
               \/ timer' = [timer EXCEPT ![u] = local[u]]
               \/ timer' = timer,
               \/ local' = [local EXCEPT ![u] = 0]
               \/ local' = [local EXCEPT ![u] = timer[u]]
               \/ local' = local
        PROVE  AllTimed'
    BY <1>2, <2>c, <2>t, <2>3 DEF AllTimed
  <2>4. ASSUME NEW c \in Clients, ClientNext(c) PROVE AllTimed'
    <3>1. CASE ReadArm(c)
      BY <2>c, <2>1, <3>1 DEF ReadArm
    <3>2. CASE Open(c) \/ Close(c)
      BY <2>c, <2>3, <3>2 DEF Open, Close
    <3>3. CASE ReadStore(c) \/ ReadInterrupted(c) \/ ReadWoken(c)
      BY <2>c, <2>3, <3>3 DEF ReadStore, ReadInterrupted, ReadWoken, ForgetTimer
    <3>4. CASE timer' = timer /\ local' = local
      BY <2>2, <3>4
    <3> QED
      BY <2>4, <3>1, <3>2, <3>3, <3>4 DEF ClientNext, ReadStep, OpenReset, Connect, DisConnect,
         SetTimeout, SetQueueFlag, ReadOverflow, ClearOverflow, Read, ReadWait, ReadPop, waitVars
  <2>5. ASSUME NEW u \in Users, CancelSlot(u) PROVE AllTimed'
    BY <2>3, <2>5 DEF CancelSlot
  <2>6. ASSUME NEW s \in Slots, Expire(s) PROVE AllTimed'
    <3>1. slots[s] \in Users
      BY <2>t, <2>6, TypeParts DEF Expire
    <3> QED
      BY <2>3, <2>6, <3>1 DEF Expire, TimedOut
  <2>7. CASE Reset \/ ResetStep \/ ResetInterrupted
    <3>1. CASE Reset
      BY <2>c, <2>1, <3>1 DEF Reset
    <3>2. CASE ResetStore \/ ResetWoken \/ ResetInterrupted
      BY <2>c, <2>3, <3>2 DEF ResetStore, ResetWoken, ResetInterrupted, ResetCancel, ForgetTimer
    <3>3. CASE ResetWait \/ ResetDone
      BY <2>2, <3>3 DEF ResetWait, ResetDone, waitVars
    <3> QED
      BY <2>7, <3>1, <3>2, <3>3 DEF ResetStep
  <2>8. ASSUME NEW d \in Sources, Put(d) PROVE AllTimed'
    BY <2>2, <2>8 DEF Put
  <2>9. CASE IntrHandler \/ CtrDrvrWrite
    BY <2>2, <2>9 DEF IntrHandler, CtrDrvrWrite, Arrive, waitVars
  <2> QED
    BY <1>2, <2>4, <2>5, <2>6, <2>7, <2>8, <2>9 DEF Next
<1>3. AllTimed /\ UNCHANGED vars => AllTimed'
  BY DEF AllTimed, vars, waitVars
<1>4. AllTimed => TimedReadsHaveTimers
  BY Constants DEF AllTimed, TimedReadsHaveTimers
<1>5. IInv /\ AllTimed /\ [Next]_vars => AllTimed'
  BY <1>2, <1>3
<1> QED
  BY <1>1, <1>4, <1>5, Invariance, PTL DEF Spec

-----------------------------------------------------------------------------
(* The rings implement first-in first-out queues.                          *)

\* What is in a ring, oldest first.
Ring(k) == [i \in 1..k.size |-> k.ents[(k.rd + i - 1) % QueueSize]]

\* A function on the first n naturals is a sequence of length n.
LEMMA FunctionIsSeq ==
  ASSUME NEW S, NEW n \in Nat, NEW f \in [1..n -> S]
  PROVE  f \in Seq(S) /\ Len(f) = n
<1>1. f \in Seq(S)
  BY SeqDef
<1>2. Len(f) \in Nat /\ DOMAIN f = 1..Len(f)
  BY <1>1, LenProperties
<1>3. 1..Len(f) = 1..n
  BY <1>2
<1> QED
  BY <1>1, <1>2, <1>3

\* It is a sequence of as many events as the ring's size says.
LEMMA RingIsSeq ==
  ASSUME NEW k \in QType
  PROVE  /\ Ring(k) \in Seq(0..MaxEvents) /\ Len(Ring(k)) = k.size
         /\ \A i \in 1..k.size : Ring(k)[i] = k.ents[(k.rd + i - 1) % QueueSize]
<1>0. QueueSize \in Nat \ {0}
  BY CtrAssumption
<1>1. /\ k.ents \in [0..(QueueSize - 1) -> 0..MaxEvents] /\ k.rd \in 0..(QueueSize - 1)
      /\ k.size \in Nat
  BY QueueFields
<1>2. \A i \in 1..k.size : (k.rd + i - 1) % QueueSize \in 0..(QueueSize - 1)
  BY <1>0, <1>1
<1>3. \A i \in 1..k.size : k.ents[(k.rd + i - 1) % QueueSize] \in 0..MaxEvents
  BY <1>1, <1>2
<1>4. Ring(k) \in [1..k.size -> 0..MaxEvents]
  BY <1>3 DEF Ring
<1>5. Ring(k) \in Seq(0..MaxEvents) /\ Len(Ring(k)) = k.size
  BY <1>1, <1>4, FunctionIsSeq
<1> QED
  BY <1>5 DEF Ring

\* The places of a ring are different.
LEMMA RingPlaces ==
  ASSUME NEW r \in 0..(QueueSize - 1), NEW i \in 0..(QueueSize - 1),
         NEW j \in 0..(QueueSize - 1), i # j
  PROVE  (r + i) % QueueSize # (r + j) % QueueSize
<1>0. QueueSize \in Nat \ {0}
  BY CtrAssumption
<1>1. /\ (r + i) % QueueSize = IF r + i < QueueSize THEN r + i ELSE r + i - QueueSize
      /\ (r + j) % QueueSize = IF r + j < QueueSize THEN r + j ELSE r + j - QueueSize
  BY <1>0, Around
<1> QED
  BY <1>0, <1>1

\* A ring of size 0 is empty.
LEMMA RingEmpty ==
  ASSUME NEW k \in QType, k.size = 0
  PROVE  Ring(k) = <<>>
<1>1. Ring(k) \in Seq(0..MaxEvents) /\ Len(Ring(k)) = 0
  BY RingIsSeq
<1> QED
  BY <1>1, EmptySeq

\* Advancing the read pointer takes the oldest event away.
LEMMA RingPop ==
  ASSUME NEW k \in QType, k.size > 0, NEW m \in QType,
         m.ents = k.ents, m.rd = (k.rd + 1) % QueueSize, m.size = k.size - 1
  PROVE  /\ Ring(k) # <<>> /\ Head(Ring(k)) = k.ents[k.rd] /\ Ring(m) = Tail(Ring(k))
<1>0. QueueSize \in Nat \ {0}
  BY CtrAssumption
<1>1. /\ k.rd \in 0..(QueueSize - 1) /\ k.size \in 1..QueueSize
  BY <1>0, QueueFields
<1>2. /\ Ring(k) \in Seq(0..MaxEvents) /\ Len(Ring(k)) = k.size
      /\ \A i \in 1..k.size : Ring(k)[i] = k.ents[(k.rd + i - 1) % QueueSize]
      /\ Ring(m) \in Seq(0..MaxEvents) /\ Len(Ring(m)) = m.size
      /\ \A i \in 1..m.size : Ring(m)[i] = m.ents[(m.rd + i - 1) % QueueSize]
  BY RingIsSeq
<1>3. Ring(k) # <<>>
  BY <1>1, <1>2, EmptySeq
<1>4. Head(Ring(k)) = k.ents[k.rd]
  <2>1. k.rd + 1 - 1 = k.rd /\ k.rd % QueueSize = k.rd /\ 1 \in 1..k.size
    BY <1>0, <1>1, Around
  <2>2. Head(Ring(k)) = Ring(k)[1]
    BY <1>2, <1>3
  <2> QED
    BY <1>2, <2>1, <2>2
<1>5. /\ Tail(Ring(k)) \in Seq(0..MaxEvents) /\ Len(Tail(Ring(k))) = k.size - 1
      /\ \A i \in 1..(k.size - 1) : Tail(Ring(k))[i] = Ring(k)[i + 1]
  BY <1>2, <1>3, HeadTailProperties
<1>6. ASSUME NEW i \in 1..(k.size - 1) PROVE Ring(m)[i] = Tail(Ring(k))[i]
  <2>0. i \in 1..QueueSize /\ i + 1 \in 1..k.size /\ k.rd + (i + 1) - 1 = k.rd + i
    BY <1>0, <1>1
  <2>1. (k.rd + i) % QueueSize = (((k.rd + 1) % QueueSize) + (i - 1)) % QueueSize
    BY <1>1, <2>0, RingRead
  <2>2. m.rd + i - 1 = ((k.rd + 1) % QueueSize) + (i - 1)
    BY <1>0, <1>1
  <2>3. Ring(m)[i] = k.ents[(k.rd + i) % QueueSize]
    BY <1>2, <2>1, <2>2
  <2>4. Tail(Ring(k))[i] = k.ents[(k.rd + i) % QueueSize]
    BY <1>2, <1>5, <2>0
  <2> QED
    BY <2>3, <2>4
<1>7. Ring(m) = Tail(Ring(k))
  BY <1>2, <1>5, <1>6, SeqEqual
<1> QED
  BY <1>3, <1>4, <1>7

\* An event is appended, after the oldest has been dropped from a full ring.
LEMMA RingPut ==
  ASSUME NEW k \in QType, NEW e \in 0..MaxEvents, Put1(k, e) \in QType,
         k.wr = (k.rd + k.size) % QueueSize
  PROVE  Ring(Put1(k, e)) = IF Len(Ring(k)) < QueueSize THEN Append(Ring(k), e)
                                                        ELSE Append(Tail(Ring(k)), e)
<1> DEFINE m == Put1(k, e)
           E == 0..MaxEvents
<1>0. QueueSize \in Nat \ {0}
  BY CtrAssumption
<1>1. /\ k.rd \in 0..(QueueSize - 1) /\ k.wr \in 0..(QueueSize - 1) /\ k.size \in 0..QueueSize
      /\ k.ents \in [0..(QueueSize - 1) -> E]
  BY QueueFields
<1>2. /\ Ring(k) \in Seq(E) /\ Len(Ring(k)) = k.size
      /\ \A i \in 1..k.size : Ring(k)[i] = k.ents[(k.rd + i - 1) % QueueSize]
      /\ Ring(m) \in Seq(E) /\ Len(Ring(m)) = m.size
      /\ \A i \in 1..m.size : Ring(m)[i] = m.ents[(m.rd + i - 1) % QueueSize]
  BY RingIsSeq
<1>3. /\ m.ents = [k.ents EXCEPT ![k.wr] = e]
      /\ m.size = IF k.size = QueueSize THEN k.size ELSE k.size + 1
      /\ m.rd = IF k.size = QueueSize THEN (k.rd + 1) % QueueSize ELSE k.rd
  BY Put1Fields
<1>4. m.ents[k.wr] = e /\ \A p \in 0..(QueueSize - 1) : p # k.wr => m.ents[p] = k.ents[p]
  BY <1>1, <1>3
<1> HIDE DEF m
<1>5. CASE k.size < QueueSize
  <2>1. m.size = k.size + 1 /\ m.rd = k.rd
    BY <1>0, <1>1, <1>3, <1>5
  <2>2. /\ Append(Ring(k), e) \in Seq(E) /\ Len(Append(Ring(k), e)) = k.size + 1
        /\ \A i \in 1..k.size : Append(Ring(k), e)[i] = Ring(k)[i]
        /\ Append(Ring(k), e)[k.size + 1] = e
    BY <1>2
  <2>3. ASSUME NEW i \in 1..k.size PROVE Ring(m)[i] = Ring(k)[i]
    <3>1. /\ i - 1 \in 0..(QueueSize - 1) /\ k.size \in 0..(QueueSize - 1) /\ i - 1 # k.size
          /\ k.rd + i - 1 = k.rd + (i - 1) /\ i \in 1..(k.size + 1)
      BY <1>0, <1>1, <1>5
    <3>2. (k.rd + i - 1) % QueueSize # k.wr
      BY <1>1, <3>1, RingPlaces
    <3>3. (k.rd + i - 1) % QueueSize \in 0..(QueueSize - 1)
      BY <1>0, <1>1
    <3> QED
      BY <1>2, <1>4, <2>1, <3>1, <3>2, <3>3
  <2>4. Ring(m)[k.size + 1] = e
    <3>1. k.rd + (k.size + 1) - 1 = k.rd + k.size /\ k.size + 1 \in 1..(k.size + 1)
      BY <1>0, <1>1
    <3> QED
      BY <1>2, <1>4, <2>1, <3>1
  <2>5. \A i \in 1..(k.size + 1) : Ring(m)[i] = Append(Ring(k), e)[i]
    <3>1. \A i \in 1..(k.size + 1) : i \in 1..k.size \/ i = k.size + 1
      BY <1>1
    <3> QED
      BY <2>2, <2>3, <2>4, <3>1
  <2>6. Ring(m) = Append(Ring(k), e)
    BY <1>2, <2>1, <2>2, <2>5, SeqEqual
  <2> QED
    BY <1>2, <1>5, <2>6 DEF m
<1>6. CASE k.size = QueueSize
  <2>1. m.size = QueueSize /\ m.rd = (k.rd + 1) % QueueSize /\ k.wr = k.rd
    BY <1>1, <1>3, <1>6, RingFull
  <2>2. Ring(k) # <<>>
    BY <1>0, <1>2, <1>6, EmptySeq
  <2>3. /\ Tail(Ring(k)) \in Seq(E) /\ Len(Tail(Ring(k))) = QueueSize - 1
        /\ \A i \in 1..(QueueSize - 1) : Tail(Ring(k))[i] = Ring(k)[i + 1]
    BY <1>2, <1>6, <2>2, HeadTailProperties
  <2> DEFINE T == Tail(Ring(k))
  <2> HIDE DEF T
  <2>4. /\ Append(T, e) \in Seq(E) /\ Len(Append(T, e)) = QueueSize
        /\ \A i \in 1..(QueueSize - 1) : Append(T, e)[i] = T[i]
        /\ Append(T, e)[QueueSize] = e
    BY <1>0, <2>3 DEF T
  <2>5. ASSUME NEW i \in 1..QueueSize
        PROVE  Ring(m)[i] = m.ents[(k.rd + i) % QueueSize]
    <3>1. (k.rd + i) % QueueSize = (((k.rd + 1) % QueueSize) + (i - 1)) % QueueSize
      BY <1>1, RingRead
    <3>2. m.rd + i - 1 = ((k.rd + 1) % QueueSize) + (i - 1)
      BY <1>0, <1>1, <2>1
    <3> QED
      BY <1>2, <2>1, <3>1, <3>2
  <2>6. ASSUME NEW i \in 1..(QueueSize - 1) PROVE Ring(m)[i] = T[i]
    <3>1. /\ i \in 0..(QueueSize - 1) /\ 0 \in 0..(QueueSize - 1) /\ i # 0 /\ k.rd + 0 = k.rd
          /\ i \in 1..QueueSize /\ i + 1 \in 1..k.size /\ k.rd + (i + 1) - 1 = k.rd + i
      BY <1>0, <1>1, <1>6
    <3>2. k.rd % QueueSize = k.rd
      BY <1>1, RingFull
    <3>3. (k.rd + i) % QueueSize # k.wr
      BY <1>1, <2>1, <3>1, <3>2, RingPlaces
    <3>4. (k.rd + i) % QueueSize \in 0..(QueueSize - 1)
      <4>1. k.rd + i \in Nat
        BY <1>0, <1>1
      <4> QED
        BY <1>0, <4>1
    <3>5. Ring(m)[i] = k.ents[(k.rd + i) % QueueSize]
      BY <1>4, <2>5, <3>1, <3>3, <3>4
    <3>6. T[i] = k.ents[(k.rd + i) % QueueSize]
      BY <1>2, <2>3, <3>1 DEF T
    <3> QED
      BY <3>5, <3>6
  <2>7. Ring(m)[QueueSize] = e
    <3>1. (k.rd + QueueSize) % QueueSize = k.wr /\ QueueSize \in 1..QueueSize
      <4>1. (k.rd + QueueSize) % QueueSize = k.rd
        BY <1>1, RingFull
      <4> QED
        BY <1>0, <2>1, <4>1
    <3> QED
      BY <1>4, <2>5, <3>1
  <2>8. \A i \in 1..QueueSize : Ring(m)[i] = Append(T, e)[i]
    <3>1. \A i \in 1..QueueSize : i \in 1..(QueueSize - 1) \/ i = QueueSize
      BY <1>0
    <3> QED
      BY <2>4, <2>6, <2>7, <3>1
  <2>9. Ring(m) = Append(T, e)
    BY <1>2, <2>1, <2>4, <2>8, SeqEqual
  <2> QED
    BY <1>0, <1>2, <1>6, <2>9 DEF m, T
<1> QED
  BY <1>0, <1>1, <1>5, <1>6

\* What the abstract queues hold.
Rings == [c \in Clients |-> Contents(c)]

\* The abstract queue of a client is what its ring holds, before a step and
\* after it.
LEMMA RingsAre == ASSUME NEW c \in Clients
                  PROVE  Rings[c] = Ring(queue[c]) /\ Rings'[c] = Ring(queue'[c])
BY DEF Rings, Contents, Ring

\* One ring changes, the others stay.
LEMMA OneRing ==
  ASSUME NEW c \in Clients, \A d \in Clients : d # c => queue'[d] = queue[d],
         NEW v, Ring(queue'[c]) = v
  PROVE  Rings' = [Rings EXCEPT ![c] = v]
<1>1. \A d \in Clients : Rings'[d] = [Rings EXCEPT ![c] = v][d]
  <2>1. Rings = [d \in Clients |-> Rings[d]]
    BY DEF Rings
  <2> QED
    BY <2>1, RingsAre
<1>2. /\ Rings' = [d \in Clients |-> Rings'[d]]
      /\ [Rings EXCEPT ![c] = v] = [d \in Clients |-> [Rings EXCEPT ![c] = v][d]]
  BY DEF Rings
<1> QED
  BY <1>1, <1>2

\* Opening, and a read with queueing off, empty the ring.
LEMMA ClearRefines ==
  ASSUME IInv, NEW c \in Clients, Open(c) \/ (Read(c) /\ queue[c].off)
  PROVE  Abstract!Clear(c)
<1>t. queue \in [Clients -> QType] /\ QueueSize \in Nat \ {0} /\ MaxEvents \in Nat
  BY TypeParts, Constants DEF IInv
<1>1. /\ queue'[c] \in QType /\ queue'[c].size = 0 /\ got' = got
      /\ \A d \in Clients : d # c => queue'[d] = queue[d]
  <2>1. CASE Open(c)
    <3>1. queue' = [queue EXCEPT ![c] = EmptyQueue] /\ got' = got
      BY <2>1 DEF Open
    <3>2. EmptyQueue \in QType /\ EmptyQueue.size = 0
      BY Constants DEF EmptyQueue
    <3> QED
      BY <1>t, <3>1, <3>2
  <2>2. CASE Read(c) /\ queue[c].off
    <3> DEFINE k == [queue[c] EXCEPT !.size = 0, !.missed = 0, !.wr = 0, !.rd = 0]
    <3>1. queue' = [queue EXCEPT ![c] = k] /\ got' = got
      BY <2>2 DEF Read
    <3>2. k \in QType /\ k.size = 0
      <4>1. /\ queue[c] \in QType /\ 0 \in 0..QueueSize /\ 0 \in 0..MaxEvents
            /\ 0 \in 0..(QueueSize - 1)
        BY <1>t
      <4> QED
        BY <4>1 DEF QType
    <3> HIDE DEF k
    <3> QED
      BY <1>t, <3>1, <3>2
  <2> QED
    BY <2>1, <2>2
<1>2. Ring(queue'[c]) = <<>>
  BY <1>1, RingEmpty
<1>3. Rings' = [Rings EXCEPT ![c] = <<>>]
  BY <1>1, <1>2, OneRing
<1> QED
  BY <1>1, <1>3 DEF Abstract!Clear, Rings

\* The end of a read takes the oldest event.
LEMMA PopRefines ==
  ASSUME IInv, NEW c \in Clients, ReadPop(c)
  PROVE  Abstract!Get(c)
<1> DEFINE k == queue[c]
           m == queue'[c]
<1>c. c \in Users /\ QueueSize \in Nat \ {0} /\ MaxEvents \in Nat
  BY Constants
<1>t. /\ queue \in [Clients -> QType] /\ queue' \in [Clients -> QType]
      /\ count \in [Users -> 0..MaxEvents] /\ IInv'
  <2>1. IInv'
    BY PopKeeps
  <2> QED
    BY <2>1, Zenon DEF IInv, TypeOK, QType
<1>1. k.size > 0
  <2>1. k.size \in Nat /\ count[c] \in Nat
    BY <1>c, <1>t, QueueFields
  <2> QED
    BY <2>1 DEF IInv, PermitOK, Held, HoldsPermit, ReadPop
<1>2. /\ got' = [got EXCEPT ![c] = k.ents[k.rd]]
      /\ queue' = [queue EXCEPT ![c] = [k EXCEPT !.rd = (k.rd + 1) % QueueSize,
                                                 !.size = k.size - 1]]
  BY <1>1 DEF ReadPop
<1>3. /\ m.ents = k.ents /\ m.rd = (k.rd + 1) % QueueSize /\ m.size = k.size - 1
      /\ \A d \in Clients : d # c => queue'[d] = queue[d]
  BY <1>t, <1>2 DEF QType
<1>4. k \in QType /\ m \in QType
  BY <1>t
<1>5. Ring(k) # <<>> /\ Head(Ring(k)) = k.ents[k.rd] /\ Ring(m) = Tail(Ring(k))
  BY <1>1, <1>3, <1>4, RingPop
<1>6. Rings' = [Rings EXCEPT ![c] = Tail(Rings[c])] /\ Rings[c] = Ring(k)
  BY <1>3, <1>5, OneRing, RingsAre
<1> QED
  BY <1>2, <1>5, <1>6 DEF Abstract!Get, Rings

\* A delivery appends its event, and drops the oldest of a full ring.
LEMMA PutRefines ==
  ASSUME IInv, NEW d \in Sources, Put(d)
  PROVE  \E c \in Clients : \E e \in Events : Abstract!Put(c, e)
<1>1. PICK c \in Clients :
        /\ deliver[d].event \in Events
        /\ queue' = [queue EXCEPT ![c] = Put1(queue[c], deliver[d].event)]
  BY PutEffect
<1> DEFINE k == queue[c]
           e == deliver[d].event
<1>t. queue \in [Clients -> QType] /\ queue' \in [Clients -> QType]
  <2>1. IInv'
    BY PutKeeps
  <2> QED
    BY <2>1, Zenon DEF IInv, TypeOK, QType
<1>2. /\ queue'[c] = Put1(k, e) /\ k \in QType /\ Put1(k, e) \in QType
      /\ \A b \in Clients : b # c => queue'[b] = queue[b]
  BY <1>t, <1>1
<1>3. k.wr = (k.rd + k.size) % QueueSize /\ e \in 0..MaxEvents
  BY <1>1, CtrAssumption DEF IInv, RingOK, Events
<1>4. Ring(queue'[c]) = IF Len(Ring(k)) < QueueSize THEN Append(Ring(k), e)
                                                    ELSE Append(Tail(Ring(k)), e)
  BY <1>2, <1>3, RingPut
<1>5. Rings' = [Rings EXCEPT ![c] = IF Len(Rings[c]) < QueueSize THEN Append(Rings[c], e)
                                                           ELSE Append(Tail(Rings[c]), e)]
  BY <1>2, <1>4, OneRing, RingsAre
<1>6. got' = got
  BY DEF Put
<1>7. Abstract!Put(c, e)
  BY <1>5, <1>6 DEF Abstract!Put, Rings
<1> QED
  BY <1>1, <1>7

\* No other step touches what the rings hold, or what a read has returned.
LEMMA OthersStutter ==
  ASSUME IInv, got' = got,
         \A c \in Clients : /\ queue'[c].ents = queue[c].ents
                            /\ queue'[c].rd = queue[c].rd
                            /\ queue'[c].size = queue[c].size
  PROVE  UNCHANGED <<Rings, got>>
<1>1. \A c \in Clients : Ring(queue'[c]) = Ring(queue[c])
  BY DEF Ring
<1> QED
  BY <1>1 DEF Rings, Contents, Ring

\* Interrupts and writes that overtake each other, overflow, flushes and reads
\* never show a client an event twice, out of order or garbled: each ring is a
\* first-in first-out queue that drops its oldest event.
THEOREM QueueImplemented == Spec => ImplementsQueue
<1>1. Init => Abstract!Init
  <2> SUFFICES ASSUME Init PROVE Abstract!Init
    OBVIOUS
  <2>1. \A c \in Clients : Ring(queue[c]) = <<>>
    <3> SUFFICES ASSUME NEW c \in Clients PROVE Ring(queue[c]) = <<>>
      OBVIOUS
    <3>1. queue[c] = EmptyQueue /\ EmptyQueue \in QType /\ EmptyQueue.size = 0
      BY Constants DEF Init, EmptyQueue
    <3> QED
      BY <3>1, RingEmpty
  <2> QED
    BY <2>1 DEF Abstract!Init, Init, Contents, Ring
<1>2. IInv /\ [Next]_vars => [Abstract!Next]_<<Rings, got>>
  <2> SUFFICES ASSUME IInv, [Next]_vars
               PROVE  Abstract!Next \/ UNCHANGED <<Rings, got>>
    OBVIOUS
  <2>t. queue \in [Clients -> QType]
    BY TypeParts DEF IInv
  <2>1. ASSUME NEW c \in Clients, ClientNext(c)
        PROVE  Abstract!Next \/ UNCHANGED <<Rings, got>>
    <3>1. CASE Open(c) \/ (Read(c) /\ queue[c].off)
      BY <3>1, ClearRefines DEF Abstract!Next
    <3>2. CASE ReadPop(c)
      BY <3>2, PopRefines DEF Abstract!Next
    <3>3. CASE SetQueueFlag(c) \/ ClearOverflow(c)
      <4>1. /\ got' = got
            /\ \/ \E b \in FlagsSet : queue' = [queue EXCEPT ![c].off = b]
               \/ queue' = [queue EXCEPT ![c].missed = 0]
        BY <3>3 DEF SetQueueFlag, ClearOverflow
      <4>2. \A d \in Clients : /\ queue'[d].ents = queue[d].ents
                               /\ queue'[d].rd = queue[d].rd
                               /\ queue'[d].size = queue[d].size
        <5>1. ASSUME NEW b, queue' = [queue EXCEPT ![c].off = b], NEW d \in Clients
              PROVE  /\ queue'[d].ents = queue[d].ents /\ queue'[d].rd = queue[d].rd
                     /\ queue'[d].size = queue[d].size
          BY <2>t, <5>1 DEF QType
        <5>2. ASSUME queue' = [queue EXCEPT ![c].missed = 0], NEW d \in Clients
              PROVE  /\ queue'[d].ents = queue[d].ents /\ queue'[d].rd = queue[d].rd
                     /\ queue'[d].size = queue[d].size
          BY <2>t, <5>2 DEF QType
        <5> QED
          BY <4>1, <5>1, <5>2
      <4> QED
        BY <4>1, <4>2, OthersStutter
    <3>4. CASE queue' = queue /\ got' = got
      BY <3>4, OthersStutter
    <3>5. \/ Open(c) \/ (Read(c) /\ queue[c].off) \/ ReadPop(c)
          \/ SetQueueFlag(c) \/ ClearOverflow(c) \/ (queue' = queue /\ got' = got)
      BY <2>1 DEF ClientNext, ReadStep, OpenReset, Close, Connect, DisConnect, SetTimeout,
         ReadOverflow, Read, ReadArm, ReadStore, ReadWait, ReadWoken, ReadInterrupted,
         clientVars
    <3> QED
      BY <3>1, <3>2, <3>3, <3>4, <3>5
  <2>2. ASSUME NEW d \in Sources, Put(d) PROVE Abstract!Next
    BY <2>2, PutRefines DEF Abstract!Next
  <2>3. ASSUME \/ \E u \in Users : CancelSlot(u)
               \/ \E s \in Slots : Expire(s)
               \/ IntrHandler \/ CtrDrvrWrite
               \/ Reset \/ ResetStep \/ ResetInterrupted
               \/ UNCHANGED vars
        PROVE  UNCHANGED <<Rings, got>>
    <3>1. queue' = queue /\ got' = got
      BY <2>3 DEF CancelSlot, Expire, IntrHandler, CtrDrvrWrite, Arrive, Reset, ResetStep,
         ResetStore, ResetWait, ResetWoken, ResetDone, ResetCancel, ResetInterrupted,
         clientVars, vars
    <3> QED
      BY <3>1, OthersStutter
  <2> QED
    BY <2>1, <2>2, <2>3 DEF Next
<1>3. <<Rings, got>> = Abstract!vars
  BY DEF Rings, Abstract!vars
<1> QED
  BY <1>1, <1>2, Invariance, PTL DEF Spec, ImplementsQueue, Abstract!Spec, Abstract!vars, Rings
=============================================================================

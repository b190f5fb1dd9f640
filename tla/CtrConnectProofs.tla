-------------------------- MODULE CtrConnectProofs --------------------------
(***************************************************************************)
(* Proofs about CtrConnect, for any number of clients, objects, triggers   *)
(* and sources: its types, that a client that has closed the device is in  *)
(* no mask, that no client makes another deaf, and that the trigger table  *)
(* agrees with itself and with the list of PTIM objects.                   *)
(***************************************************************************)
EXTENDS CtrConnect, WellFoundedInduction, TLAPS

\* The least member of a set of naturals is one of its members.
LEMMA MinIn ==
  ASSUME NEW S \in SUBSET Nat, S # {}
  PROVE  Min(S) \in S
<1>1. \E x \in S : \A y \in S : x <= y
  <2>1. PICK x \in S : \A y \in S : ~(<<y, x>> \in OpToRel(<, Nat))
    BY NatLessThanWellFounded, WFMin, Zenon
  <2>2. \A y \in S : ~(y < x)
    BY <2>1 DEF OpToRel
  <2> QED
    BY <2>2
<1> QED
  BY <1>1 DEF Min

\* DisConnectAll passes over the triggers that are not in use, so that it
\* forgets a client only as long as those have no clients: the trigger of an
\* object with number 0 has.
EmptyHasNoClients == Numbered => \A i \in Slots : ram[i].num = 0 => ram[i].clients = {}

\* ClosedIsForgotten, mask by mask.
InNoMask(c) == /\ \A i \in Slots : c \notin ram[i].clients
               /\ \A s \in SourceNums : c \notin hard[s]

\* ClosedIsForgotten, client by client.
OnlyOpenConnected == Numbered => \A c \in Clients \ inUse : InNoMask(c)

\* The inductive invariant of the masks.
IInv == TypeOK /\ EmptyHasNoClients /\ OnlyOpenConnected

\* The entries of the trigger table.
TriggerTypes == [num : Ctims \cup Ptims \cup {0}, class : Classes,
                 clients : SUBSET Clients, counter : 0..(Counters - 1),
                 ctim : Ctims \cup {0}, bus : BOOLEAN]

\* The driver starts with empty masks.
LEMMA InitIInv == Init => IInv
<1> SUFFICES ASSUME Init PROVE IInv
  OBVIOUS
<1>1. Empty \in TriggerTypes
  BY ConnectAssumption DEF Empty, TriggerTypes, Classes, Counter0
<1>2. TypeOK
  BY <1>1 DEF Init, TypeOK, TriggerTypes
<1>3. EmptyHasNoClients /\ OnlyOpenConnected
  BY DEF Init, EmptyHasNoClients, OnlyOpenConnected, InNoMask, Empty
<1> QED
  BY <1>2, <1>3 DEF IInv

-----------------------------------------------------------------------------
(* What the operations do to a trigger.                                     *)

\* Leaving a trigger takes the client off it, and no other.
LEMMA LeftTrigger ==
  ASSUME NEW c \in Clients, NEW t \in TriggerTypes
  PROVE  /\ Left(c, t) \in TriggerTypes
         /\ Left(c, t).clients = t.clients \ {c}
         /\ Left(c, t).counter = t.counter
         /\ t.clients \ {c} # {} => Left(c, t).bus = t.bus
         /\ c \notin t.clients => Left(c, t) = t
         /\ Left(c, t).num = 0 /\ t.num # 0 => Left(c, t).clients = {}
<1>1. Left(c, t) \in TriggerTypes
  BY DEF Left, TriggerTypes, Classes
<1>2. /\ Left(c, t).clients = t.clients \ {c}
      /\ Left(c, t).counter = t.counter
      /\ t.clients \ {c} # {} => Left(c, t).bus = t.bus
      /\ Left(c, t).num = 0 /\ t.num # 0 => Left(c, t).clients = {}
  BY DEF Left, TriggerTypes
<1>3. ASSUME c \notin t.clients PROVE Left(c, t) = t
  <2>1. t.clients \ {c} = t.clients
    BY <1>3
  <2>2. Left(c, t) = [t EXCEPT !.clients = t.clients]
    BY <1>3, <2>1 DEF Left
  <2> QED
    BY <2>2 DEF TriggerTypes
<1> QED
  BY <1>1, <1>2, <1>3

\* The same for a set of triggers, the others left alone.
LEMMA LeftTriggers ==
  ASSUME IInv, NEW c \in Clients, NEW S \in SUBSET Slots,
         \A i \in S : ram[i].num # 0,
         ram' = [i \in Slots |-> IF i \in S THEN Left(c, ram[i]) ELSE ram[i]]
  PROVE  /\ ram' \in [Slots -> TriggerTypes]
         /\ EmptyHasNoClients'
         /\ \A i \in Slots : /\ ram'[i].clients \subseteq ram[i].clients
                             /\ i \in S => ram'[i].clients = ram[i].clients \ {c}
<1>1. ram \in [Slots -> TriggerTypes]
  BY DEF IInv, TypeOK, TriggerTypes
<1>2. ASSUME NEW i \in Slots
      PROVE  /\ ram'[i] \in TriggerTypes
             /\ ram'[i].clients \subseteq ram[i].clients
             /\ i \in S => ram'[i].clients = ram[i].clients \ {c}
             /\ Numbered /\ ram'[i].num = 0 => ram'[i].clients = {}
  <2>1. ram[i] \in TriggerTypes
    BY <1>1
  <2>2. CASE i \in S
    <3>1. ram'[i] = Left(c, ram[i]) /\ ram[i].num # 0
      BY <2>2
    <3> QED
      BY <2>1, <2>2, <3>1, LeftTrigger
  <2>3. CASE i \notin S
    <3>1. ram'[i] = ram[i]
      BY <2>3
    <3> QED
      BY <2>1, <2>3, <3>1 DEF IInv, EmptyHasNoClients
  <2> QED
    BY <2>2, <2>3
<1>3. ram' \in [Slots -> TriggerTypes]
  BY <1>2
<1> QED
  BY <1>2, <1>3 DEF EmptyHasNoClients

\* After DisConnectAll the client is in no mask, and nobody has come in.
LEMMA ForgetAllForgets ==
  ASSUME IInv, NEW c \in Clients, ForgetAll(c)
  PROVE  /\ ram' \in [Slots -> TriggerTypes]
         /\ hard' \in [SourceNums -> SUBSET Clients]
         /\ enable' \subseteq enable
         /\ EmptyHasNoClients'
         /\ Numbered => InNoMask(c)'
         /\ \A d \in Clients : InNoMask(d) => InNoMask(d)'
<1> DEFINE S == {i \in Slots : ram[i].num # 0}
<1>1. ram' = [i \in Slots |-> IF i \in S THEN Left(c, ram[i]) ELSE ram[i]]
  BY DEF ForgetAll
<1>2. hard' = [s \in SourceNums |-> hard[s] \ {c}]
  BY DEF ForgetAll
<1>3. enable' \subseteq enable
  BY DEF ForgetAll
<1>4. /\ ram' \in [Slots -> TriggerTypes]
      /\ EmptyHasNoClients'
      /\ \A i \in Slots : /\ ram'[i].clients \subseteq ram[i].clients
                          /\ i \in S => ram'[i].clients = ram[i].clients \ {c}
  BY <1>1, LeftTriggers
<1>5. Numbered => \A i \in Slots : c \notin ram'[i].clients
  BY <1>4 DEF IInv, EmptyHasNoClients
<1>6. /\ hard' \in [SourceNums -> SUBSET Clients]
      /\ \A s \in SourceNums : hard'[s] = hard[s] \ {c}
  BY <1>2 DEF IInv, TypeOK
<1> QED
  BY <1>3, <1>4, <1>5, <1>6 DEF InNoMask

\* The triggers of an object are in use, unless its number is 0.
LEMMA TriggersInUse ==
  ASSUME NEW class, NEW num
  PROVE  /\ Triggers(class, num) \in SUBSET Slots
         /\ num # 0 => \A i \in Triggers(class, num) : ram[i].num # 0
BY DEF Triggers

\* A step that leaves the masks of sources alone, and adds no client to a
\* trigger but one that has the device open.
LEMMA TriggerStep ==
  ASSUME IInv, NEW c \in inUse,
         ram' \in [Slots -> TriggerTypes], UNCHANGED <<inUse, hard>>,
         \A i \in Slots : /\ ram'[i].clients \subseteq ram[i].clients \cup {c}
                          /\ Numbered /\ ram'[i].num = 0 => ram'[i].clients = {},
         enable' \subseteq SourceNums, ctims' \subseteq Ctims, ptims' \subseteq Bindings,
         upLock' \in BOOLEAN
  PROVE  IInv'
<1>1. TypeOK'
  BY DEF IInv, TypeOK, TriggerTypes
<1>2. EmptyHasNoClients'
  BY DEF EmptyHasNoClients
<1>3. OnlyOpenConnected'
  BY DEF IInv, TypeOK, OnlyOpenConnected, InNoMask
<1> QED
  BY <1>1, <1>2, <1>3 DEF IInv

-----------------------------------------------------------------------------
(* Every operation preserves the invariant.                                 *)

\* Connecting adds only a client that has the device open, and only to
\* triggers that are in use or become so.
LEMMA ConnectKeeps ==
  ASSUME IInv, NEW c \in Clients,
         \/ \E num \in Ptims : ConnectPtim(c, num)
         \/ \E num \in Ctims : ConnectCtimJoin(c, num) \/ ConnectCtimCreate(c, num)
         \/ \E mask \in HardMasks : ConnectHard(c, mask)
  PROVE  IInv'
<1>0. /\ ram \in [Slots -> TriggerTypes] /\ enable \subseteq SourceNums
      /\ 0..(Counters - 1) \subseteq SourceNums /\ Counter0 \in 0..(Counters - 1)
      /\ Slots \in SUBSET Nat
      /\ ctims \subseteq Ctims /\ ptims \subseteq Bindings /\ upLock \in BOOLEAN
  BY ConnectAssumption DEF IInv, TypeOK, TriggerTypes, SourceNums, Counter0, Slots
<1>1. ASSUME NEW num \in Ptims, ConnectPtim(c, num) PROVE IInv'
  <2> DEFINE S == Triggers("PTIM", num)
  <2>1. S \in SUBSET Slots /\ (Numbered => \A i \in S : ram[i].num # 0)
    BY TriggersInUse DEF Numbered
  <2>2. /\ ram' = [i \in Slots |-> IF i \in S
                                   THEN [ram[i] EXCEPT !.clients = @ \cup {c}, !.bus = TRUE]
                                   ELSE ram[i]]
        /\ enable' = enable \cup {ram[i].counter : i \in S}
    BY <1>1 DEF ConnectPtim, Joined
  <2>3. ASSUME NEW i \in Slots
        PROVE  /\ ram'[i] \in TriggerTypes
               /\ ram'[i].clients \subseteq ram[i].clients \cup {c}
               /\ Numbered /\ ram'[i].num = 0 => ram'[i].clients = {}
    <3> HIDE DEF S
    <3>1. ram[i] \in TriggerTypes
      BY <1>0
    <3>2. CASE i \in S  BY <2>1, <2>2, <3>1, <3>2 DEF TriggerTypes
    <3>3. CASE i \notin S
      BY <2>2, <3>1, <3>3 DEF IInv, EmptyHasNoClients
    <3> QED  BY <3>2, <3>3
  <2>4. ram' \in [Slots -> TriggerTypes]
    BY <2>2, <2>3
  <2>5. enable' \subseteq SourceNums
    BY <1>0, <2>1, <2>2 DEF TriggerTypes
  <2> QED
    BY <1>0, <1>1, <2>3, <2>4, <2>5, TriggerStep DEF ConnectPtim, Allowed
<1>2. ASSUME NEW num \in Ctims, ConnectCtimJoin(c, num) PROVE IInv'
  <2> DEFINE i == Min(Triggers("CTIM", num))
  <2>1. i \in Slots /\ (Numbered => ram[i].num # 0)
    <3>1. Triggers("CTIM", num) \in SUBSET Nat /\ Triggers("CTIM", num) # {}
      BY <1>0, <1>2 DEF ConnectCtimJoin, Triggers
    <3>2. i \in Triggers("CTIM", num)
      BY <3>1, MinIn
    <3> QED
      BY <3>2, TriggersInUse DEF Numbered
  <2>2. /\ ram' = [ram EXCEPT ![i].clients = @ \cup {c}, ![i].bus = TRUE]
        /\ enable' = enable \cup {Counter0}
    BY <1>2 DEF ConnectCtimJoin
  <2> HIDE DEF i
  <2>3. ram' \in [Slots -> TriggerTypes]
    BY <1>0, <2>1, <2>2 DEF TriggerTypes
  <2>4. \A j \in Slots : /\ ram'[j].clients \subseteq ram[j].clients \cup {c}
                         /\ Numbered /\ ram'[j].num = 0 => ram'[j].clients = {}
    BY <1>0, <2>1, <2>2 DEF TriggerTypes, IInv, EmptyHasNoClients
  <2> QED
    BY <1>0, <1>2, <2>2, <2>3, <2>4, TriggerStep DEF ConnectCtimJoin, Allowed
<1>3. ASSUME NEW num \in Ctims, ConnectCtimCreate(c, num) PROVE IInv'
  <2> DEFINE i == Min({j \in Slots : ram[j].num = 0})
  <2>1. i \in Slots
    <3>1. /\ {j \in Slots : ram[j].num = 0} \in SUBSET Nat
          /\ {j \in Slots : ram[j].num = 0} # {}
      BY <1>0, <1>3 DEF ConnectCtimCreate
    <3> QED
      BY <3>1, MinIn
  <2> DEFINE new == [num |-> num, class |-> "CTIM", clients |-> ram[i].clients \cup {c},
                     counter |-> Counter0, ctim |-> num, bus |-> TRUE]
  <2>2. /\ ram' = [ram EXCEPT ![i] = new]
        /\ enable' = enable \cup {Counter0}
    BY <1>3 DEF ConnectCtimCreate
  <2>3. new \in TriggerTypes /\ new.clients = ram[i].clients \cup {c}
          /\ (Numbered => new.num # 0)
    <3> HIDE DEF i
    <3> QED
      BY <1>0, <2>1 DEF TriggerTypes, Classes, Numbered
  <2> HIDE DEF i, new
  <2>4. ram' \in [Slots -> TriggerTypes]
    BY <1>0, <2>1, <2>2, <2>3
  <2>5. \A j \in Slots : /\ ram'[j].clients \subseteq ram[j].clients \cup {c}
                         /\ Numbered /\ ram'[j].num = 0 => ram'[j].clients = {}
    BY <1>0, <2>1, <2>2, <2>3 DEF IInv, EmptyHasNoClients
  <2> QED
    BY <1>0, <1>3, <2>2, <2>4, <2>5, TriggerStep DEF ConnectCtimCreate, Allowed
<1>4. ASSUME NEW mask \in HardMasks, ConnectHard(c, mask) PROVE IInv'
  <2>1. mask \subseteq SourceNums /\ c \in inUse
    BY <1>4, ConnectAssumption DEF SourceNums, ConnectHard, Allowed
  <2>2. TypeOK'
    BY <1>4, <2>1 DEF IInv, TypeOK, ConnectHard
  <2>3. EmptyHasNoClients'
    BY <1>4 DEF IInv, EmptyHasNoClients, ConnectHard
  <2>4. OnlyOpenConnected'
    BY <1>4, <2>1 DEF IInv, TypeOK, OnlyOpenConnected, InNoMask, ConnectHard
  <2> QED
    BY <2>2, <2>3, <2>4 DEF IInv
<1> QED
  BY <1>1, <1>2, <1>3, <1>4

\* Disconnecting takes clients away; the trigger a CTIM instance gives up has
\* lost its last client.
LEMMA DisConnectKeeps ==
  ASSUME IInv, NEW c \in Clients,
         \/ \E num \in Ctims : DisConnectObject(c, "CTIM", num)
         \/ \E num \in Ptims : DisConnectObject(c, "PTIM", num)
         \/ DisConnectHard(c) \/ DisConnectAll(c) \/ Close(c)
  PROVE  IInv'
<1>0. /\ enable \subseteq SourceNums
      /\ ctims \subseteq Ctims /\ ptims \subseteq Bindings /\ upLock \in BOOLEAN
  BY DEF IInv, TypeOK
<1>1. ASSUME NEW class, NEW num, DisConnectObject(c, class, num)
      PROVE  IInv'
  <2> DEFINE S == Triggers(class, num)
  <2>1. S \in SUBSET Slots /\ \A i \in S : ram[i].num # 0
    BY <1>1, TriggersInUse DEF DisConnectObject
  <2>2. ram' = [i \in Slots |-> IF i \in S THEN Left(c, ram[i]) ELSE ram[i]]
    BY <1>1 DEF DisConnectObject
  <2>3. enable' \subseteq SourceNums
    BY <1>0, <1>1 DEF DisConnectObject
  <2>4. /\ ram' \in [Slots -> TriggerTypes]
        /\ EmptyHasNoClients'
        /\ \A i \in Slots : ram'[i].clients \subseteq ram[i].clients
    <3> HIDE DEF S
    <3> QED  BY <2>1, <2>2, LeftTriggers
  <2>5. \A i \in Slots : /\ ram'[i].clients \subseteq ram[i].clients \cup {c}
                         /\ Numbered /\ ram'[i].num = 0 => ram'[i].clients = {}
    BY <2>4 DEF EmptyHasNoClients
  <2> QED
    BY <1>0, <1>1, <2>3, <2>4, <2>5, TriggerStep DEF DisConnectObject, Allowed
<1>2. CASE DisConnectHard(c)
  BY <1>2 DEF DisConnectHard, IInv, TypeOK, EmptyHasNoClients, OnlyOpenConnected, InNoMask
<1>3. CASE DisConnectAll(c) \/ Close(c)
  <2>1. /\ ram' \in [Slots -> TriggerTypes]
        /\ hard' \in [SourceNums -> SUBSET Clients]
        /\ enable' \subseteq enable
        /\ EmptyHasNoClients'
        /\ Numbered => InNoMask(c)'
        /\ \A d \in Clients : InNoMask(d) => InNoMask(d)'
    BY <1>3, ForgetAllForgets DEF DisConnectAll, Close
  <2>2. (inUse' = inUse \/ inUse' = inUse \ {c}) /\ UNCHANGED <<ctims, ptims, upLock>>
    BY <1>3 DEF DisConnectAll, Close
  <2>3. TypeOK'
    BY <2>1, <2>2 DEF IInv, TypeOK, TriggerTypes
  <2>4. OnlyOpenConnected'
    BY <2>1, <2>2 DEF IInv, OnlyOpenConnected
  <2> QED
    BY <2>1, <2>3, <2>4 DEF IInv
<1> QED
  BY <1>1, <1>2, <1>3

\* A trigger after CtrDrvrSET_ACTION.
ActedOn(t, act) == [num |-> act.num, class |-> act.class, clients |-> t.clients,
                    counter |-> act.counter, ctim |-> act.ctim, bus |-> t.clients # {}]

\* It has the fields of the action, its old clients, and interrupts for them.
LEMMA ActedOnIs ==
  ASSUME NEW t \in TriggerTypes, NEW act \in Actions
  PROVE  /\ ActedOn(t, act) \in TriggerTypes
         /\ ActedOn(t, act).clients = t.clients /\ ActedOn(t, act).num = act.num
         /\ ActedOn(t, act).class = act.class /\ ActedOn(t, act).counter = act.counter
         /\ ActedOn(t, act).bus <=> t.clients # {}
<1> DEFINE b == t.clients # {}
<1>1. b \in BOOLEAN
  OBVIOUS
<1>2. PICK u : u = ActedOn(t, act)
  OBVIOUS
<1>3. u = [num |-> act.num, class |-> act.class, clients |-> t.clients,
           counter |-> act.counter, ctim |-> act.ctim, bus |-> b]
  BY <1>2 DEF ActedOn
<1> HIDE DEF b
<1>4. /\ u \in TriggerTypes /\ u.clients = t.clients /\ u.num = act.num
      /\ u.class = act.class /\ u.counter = act.counter /\ u.bus = b
  BY <1>1, <1>3 DEF TriggerTypes, Actions, Classes
<1> QED
  BY <1>2, <1>4, Zenon DEF b

\* An object is created on empty triggers, which have no clients, and destroyed
\* only when its triggers have none.
LEMMA ObjectsKeep ==
  ASSUME IInv, NEW c \in Clients,
         \/ \E num \in Ctims : CreateCtim(c, num) \/ DestroyCtim(c, num)
         \/ \E num \in Ptims, n \in PtimSizes, k \in 0..(Counters - 1) :
               CreatePtim(c, num, n, k)
         \/ \E num \in Ptims : DestroyPtim(c, num)
         \/ \E i \in Slots, act \in Actions : SetAction(c, i, act)
  PROVE  IInv'
<1>0. /\ ram \in [Slots -> TriggerTypes] /\ enable \subseteq SourceNums
      /\ ctims \subseteq Ctims /\ ptims \subseteq Bindings /\ upLock \in BOOLEAN
  BY DEF IInv, TypeOK, TriggerTypes
<1>1. ASSUME NEW num \in Ctims, CreateCtim(c, num) \/ DestroyCtim(c, num) PROVE IInv'
  BY <1>1 DEF CreateCtim, DestroyCtim, IInv, TypeOK, EmptyHasNoClients,
              OnlyOpenConnected, InNoMask
<1>2. ASSUME NEW num \in Ptims, NEW n \in PtimSizes, NEW k \in 0..(Counters - 1),
             CreatePtim(c, num, n, k)
      PROVE  IInv'
  <2> DEFINE R == Min(Runs(n))..(Min(Runs(n)) + n - 1)
  <2>1. ram' = [i \in Slots |-> IF i \in R
                                THEN [ram[i] EXCEPT !.num = num, !.class = "PTIM",
                                                    !.counter = k]
                                ELSE ram[i]]
    BY <1>2 DEF CreatePtim
  <2> HIDE DEF R
  <2>2. ASSUME NEW i \in Slots
        PROVE  /\ ram'[i] \in TriggerTypes
               /\ ram'[i].clients \subseteq ram[i].clients \cup {c}
               /\ Numbered /\ ram'[i].num = 0 => ram'[i].clients = {}
    <3>1. ram[i] \in TriggerTypes
      BY <1>0
    <3>2. CASE i \in R
      BY <2>1, <3>1, <3>2 DEF TriggerTypes, Classes, Numbered
    <3>3. CASE i \notin R
      BY <2>1, <3>1, <3>3 DEF IInv, EmptyHasNoClients
    <3> QED  BY <3>2, <3>3
  <2>3. ram' \in [Slots -> TriggerTypes]
    BY <2>1, <2>2
  <2>4. ptims' \subseteq Bindings
    <3>1. Runs(n) \in SUBSET Slots /\ Runs(n) \in SUBSET Nat /\ Runs(n) # {}
      <4>1. Slots \in SUBSET Nat
        BY ConnectAssumption DEF Slots
      <4> QED
        BY <1>2, <4>1 DEF CreatePtim, Runs
    <3>2. Min(Runs(n)) \in Slots
      BY <3>1, MinIn
    <3> QED
      <4>1. PICK start \in Slots : start = Min(Runs(n))
        BY <3>2
      <4>2. ptims' = ptims \cup {[num |-> num, start |-> start, size |-> n, counter |-> k]}
        BY <1>2, <4>1 DEF CreatePtim
      <4>3. [num |-> num, start |-> start, size |-> n, counter |-> k] \in Bindings
        BY DEF Bindings
      <4> QED
        BY <1>0, <4>2, <4>3
  <2> QED
    BY <1>0, <1>2, <2>2, <2>3, <2>4, TriggerStep DEF CreatePtim, Allowed
<1>3. ASSUME NEW num \in Ptims, DestroyPtim(c, num) PROVE IInv'
  <2> DEFINE S == Triggers("PTIM", num)
  <2>1. /\ \A i \in S : ram[i].clients = {}
        /\ ram' = [i \in Slots |-> IF i \in S THEN [Empty EXCEPT !.clients = ram[i].clients]
                                   ELSE ram[i]]
    BY <1>3 DEF DestroyPtim
  <2>2. Empty \in TriggerTypes
    BY ConnectAssumption DEF Empty, TriggerTypes, Classes, Counter0
  <2> HIDE DEF S
  <2>3. ASSUME NEW i \in Slots
        PROVE  /\ ram'[i] \in TriggerTypes
               /\ ram'[i].clients \subseteq ram[i].clients \cup {c}
               /\ Numbered /\ ram'[i].num = 0 => ram'[i].clients = {}
    <3>1. ram[i] \in TriggerTypes
      BY <1>0
    <3>2. CASE i \in S
      BY <2>1, <2>2, <3>1, <3>2 DEF TriggerTypes
    <3>3. CASE i \notin S
      BY <2>1, <3>1, <3>3 DEF IInv, EmptyHasNoClients
    <3> QED  BY <3>2, <3>3
  <2>4. ram' \in [Slots -> TriggerTypes]
    BY <2>1, <2>3
  <2> QED
    BY <1>0, <1>3, <2>3, <2>4, TriggerStep DEF DestroyPtim, Allowed
<1>4. ASSUME NEW i \in Slots, NEW act \in Actions, SetAction(c, i, act) PROVE IInv'
  <2>1. PICK t : t = ActedOn(ram[i], act)
    OBVIOUS
  <2>2. t \in TriggerTypes /\ t.clients = ram[i].clients /\ t.num = act.num
    BY <1>0, <2>1, ActedOnIs
  <2>3. /\ ram' = [ram EXCEPT ![i] = t]
        /\ ram[i].num # 0 => act.num = ram[i].num
    BY <1>4, <2>1 DEF SetAction, ActedOn
  <2>4. ram' \in [Slots -> TriggerTypes]
    BY <1>0, <2>2, <2>3
  <2>5. \A j \in Slots : /\ ram'[j].clients \subseteq ram[j].clients \cup {c}
                         /\ Numbered /\ ram'[j].num = 0 => ram'[j].clients = {}
    BY <1>0, <2>2, <2>3 DEF IInv, EmptyHasNoClients
  <2> QED
    BY <1>0, <1>4, <2>4, <2>5, TriggerStep DEF SetAction, Allowed
<1> QED
  BY <1>1, <1>2, <1>3, <1>4

\* The invariant is inductive.
LEMMA StepIInv == IInv /\ [Next]_vars => IInv'
<1> SUFFICES ASSUME IInv, [Next]_vars PROVE IInv'
  OBVIOUS
<1>1. CASE UNCHANGED vars
  BY <1>1 DEF vars, IInv, TypeOK, EmptyHasNoClients, OnlyOpenConnected, InNoMask
<1>2. ASSUME NEW c \in Clients, Open(c) \/ LockCard(c) \/ UnlockCard(c) PROVE IInv'
  BY <1>2 DEF Open, LockCard, UnlockCard, IInv, TypeOK, EmptyHasNoClients,
              OnlyOpenConnected, InNoMask
<1> QED
  BY <1>1, <1>2, ConnectKeeps, DisConnectKeeps, ObjectsKeep DEF Next

\* It holds in every reachable state.
LEMMA Invariance == Spec => []IInv
<1> QED
  BY InitIInv, StepIInv, PTL DEF Spec

\* The tables of the driver and the card stay within their types.
THEOREM TypeCorrect == Spec => []TypeOK
<1>1. IInv => TypeOK
  BY DEF IInv
<1> QED
  BY Invariance, <1>1, PTL

\* A client that has closed the device is in no mask, whatever the card is
\* locked against and whoever else uses its triggers: no event goes to the
\* context of a process that has gone.  Objects are numbered from 1: the
\* triggers of one with number 0 are passed over, and the client stays.
THEOREM ClosedForgotten == Numbered /\ Spec => []ClosedIsForgotten
<1> SUFFICES ASSUME Numbered PROVE Spec => []ClosedIsForgotten
  OBVIOUS
<1>1. IInv => ClosedIsForgotten
  BY DEF IInv, OnlyOpenConnected, InNoMask, ClosedIsForgotten, Connections
<1> QED
  BY Invariance, <1>1, PTL

-----------------------------------------------------------------------------
(* No client makes another deaf.                                            *)

\* The connections of a client, and what it hears of them, mask by mask.
SameMasks(d) == /\ \A i \in Slots : d \in ram'[i].clients <=> d \in ram[i].clients
                /\ \A s \in SourceNums : d \in hard'[s] <=> d \in hard[s]

\* What d is connected to stays enabled, on the bus and at its source.
StillHears(d) ==
  /\ \A i \in Slots : d \in ram[i].clients /\ ram[i].bus /\ ram[i].counter \in enable
                         => ram'[i].bus /\ ram'[i].counter \in enable'
  /\ \A s \in enable : d \in hard[s] => s \in enable'

\* A step that disables nothing, and changes no trigger that has clients but
\* to let it interrupt.
QuietStep == /\ enable \subseteq enable'
             /\ \A i \in Slots : ram[i].clients # {} =>
                  ram'[i].counter = ram[i].counter /\ (ram[i].bus => ram'[i].bus)

\* Such a step makes nobody deaf.
LEMMA QuietDeafensNobody ==
  ASSUME QuietStep, NEW d
  PROVE  StillHears(d)
BY DEF QuietStep, StillHears

\* Connecting is such a step: a CTIM instance is made on a trigger without
\* clients.
LEMMA ConnectQuiet ==
  ASSUME IInv, Numbered, NEW c \in Clients,
         \/ \E num \in Ptims : ConnectPtim(c, num)
         \/ \E num \in Ctims : ConnectCtimJoin(c, num) \/ ConnectCtimCreate(c, num)
         \/ \E mask \in HardMasks : ConnectHard(c, mask)
  PROVE  QuietStep
<1>0. ram \in [Slots -> TriggerTypes] /\ Slots \in SUBSET Nat
  BY ConnectAssumption DEF IInv, TypeOK, TriggerTypes, Slots
<1>1. ASSUME NEW num \in Ptims, ConnectPtim(c, num) PROVE QuietStep
  <2> DEFINE S == Triggers("PTIM", num)
  <2>1. /\ ram' = [i \in Slots |-> IF i \in S
                                   THEN [ram[i] EXCEPT !.clients = @ \cup {c}, !.bus = TRUE]
                                   ELSE ram[i]]
        /\ enable \subseteq enable'
    BY <1>1 DEF ConnectPtim, Joined
  <2> HIDE DEF S
  <2> QED
    BY <1>0, <2>1 DEF TriggerTypes, QuietStep
<1>2. ASSUME NEW num \in Ctims, ConnectCtimJoin(c, num) PROVE QuietStep
  <2> DEFINE i == Min(Triggers("CTIM", num))
  <2>1. /\ ram' = [ram EXCEPT ![i].clients = @ \cup {c}, ![i].bus = TRUE]
        /\ enable \subseteq enable'
    BY <1>2 DEF ConnectCtimJoin
  <2> HIDE DEF i
  <2> QED
    BY <1>0, <2>1 DEF TriggerTypes, QuietStep
<1>3. ASSUME NEW num \in Ctims, ConnectCtimCreate(c, num) PROVE QuietStep
  <2> DEFINE i == Min({j \in Slots : ram[j].num = 0})
  <2>1. i \in Slots /\ ram[i].num = 0
    <3>1. /\ {j \in Slots : ram[j].num = 0} \in SUBSET Nat
          /\ {j \in Slots : ram[j].num = 0} # {}
      BY <1>0, <1>3 DEF ConnectCtimCreate
    <3>2. i \in {j \in Slots : ram[j].num = 0}
      BY <3>1, MinIn
    <3> QED
      BY <3>2
  <2>2. /\ \A j \in Slots : j # i => ram'[j] = ram[j]
        /\ enable \subseteq enable'
    <3>1. \E new : ram' = [ram EXCEPT ![i] = new]
      BY <1>3 DEF ConnectCtimCreate
    <3> HIDE DEF i
    <3> QED
      BY <1>0, <1>3, <3>1 DEF ConnectCtimCreate
  <2>3. ram[i].clients = {}
    BY <2>1 DEF IInv, EmptyHasNoClients
  <2> HIDE DEF i
  <2> QED
    BY <2>2, <2>3 DEF QuietStep
<1>4. ASSUME NEW mask \in HardMasks, ConnectHard(c, mask) PROVE QuietStep
  BY <1>4 DEF ConnectHard, QuietStep
<1> QED
  BY <1>1, <1>2, <1>3, <1>4

\* So are the operations on objects: the counter is set on triggers without
\* clients only, and SetAction keeps the counter.
LEMMA ObjectsQuiet ==
  ASSUME IInv, Numbered, NEW c \in Clients,
         \/ \E num \in Ctims : CreateCtim(c, num) \/ DestroyCtim(c, num)
         \/ \E num \in Ptims, n \in PtimSizes, k \in 0..(Counters - 1) :
               CreatePtim(c, num, n, k)
         \/ \E num \in Ptims : DestroyPtim(c, num)
         \/ \E i \in Slots, act \in Actions : SetAction(c, i, act)
  PROVE  QuietStep
<1>0. ram \in [Slots -> TriggerTypes] /\ Slots \in SUBSET Nat
  BY ConnectAssumption DEF IInv, TypeOK, TriggerTypes, Slots
<1>1. ASSUME NEW num \in Ctims, CreateCtim(c, num) \/ DestroyCtim(c, num) PROVE QuietStep
  BY <1>1 DEF CreateCtim, DestroyCtim, QuietStep
<1>2. ASSUME NEW num \in Ptims, NEW n \in PtimSizes, NEW k \in 0..(Counters - 1),
             CreatePtim(c, num, n, k)
      PROVE  QuietStep
  <2> DEFINE R == Min(Runs(n))..(Min(Runs(n)) + n - 1)
  <2>1. \A i \in R : ram[i].num = 0
    <3>1. Runs(n) \in SUBSET Nat /\ Runs(n) # {}
      BY <1>0, <1>2 DEF CreatePtim, Runs
    <3>2. Min(Runs(n)) \in Runs(n)
      BY <3>1, MinIn
    <3> QED
      BY <3>2 DEF Runs
  <2>2. /\ \A i \in Slots : i \notin R => ram'[i] = ram[i]
        /\ enable' = enable
    BY <1>2 DEF CreatePtim
  <2> HIDE DEF R
  <2> QED
    BY <2>1, <2>2 DEF IInv, EmptyHasNoClients, QuietStep
<1>3. ASSUME NEW num \in Ptims, DestroyPtim(c, num) PROVE QuietStep
  BY <1>3 DEF DestroyPtim, QuietStep
<1>4. ASSUME NEW i \in Slots, NEW act \in Actions, SetAction(c, i, act) PROVE QuietStep
  <2>1. PICK t : t = ActedOn(ram[i], act)
    OBVIOUS
  <2>2. (t.bus <=> ram[i].clients # {}) /\ t.counter = act.counter
    BY <1>0, <2>1, ActedOnIs
  <2>3. /\ ram' = [ram EXCEPT ![i] = t] /\ enable' = enable
        /\ ram[i].num # 0 => act.counter = ram[i].counter
    BY <1>4, <2>1 DEF SetAction, ActedOn
  <2>4. ram[i].clients # {} => ram[i].num # 0
    BY DEF IInv, EmptyHasNoClients
  <2> QED
    BY <1>0, <2>2, <2>3, <2>4 DEF QuietStep
<1> QED
  BY <1>1, <1>2, <1>3, <1>4

\* DisableInterrupts spares what another client needs.
LEMMA OthersSpared ==
  ASSUME IInv, NEW c \in Clients, NEW d \in Clients, c # d, NEW S, NEW stray
  PROVE  /\ \A i \in Slots : d \in ram[i].clients =>
              ram[i].counter \notin Disabled(c, S, stray) \cup DisabledHard(c, LastOfHard(c))
         /\ \A s \in SourceNums : d \in hard[s] =>
              s \notin Disabled(c, S, stray) \cup DisabledHard(c, LastOfHard(c))
<1>1. \A n : OthersOnCounter(c, n) => n \notin Disabled(c, S, stray)
  BY DEF Disabled
<1>2. ASSUME NEW i \in Slots, d \in ram[i].clients
      PROVE  ram[i].counter \notin Disabled(c, S, stray) \cup DisabledHard(c, LastOfHard(c))
  <2>1. OthersOnCounter(c, ram[i].counter)
    BY <1>2 DEF OthersOnCounter
  <2>2. ram[i].counter <= Counters
    BY ConnectAssumption DEF IInv, TypeOK
  <2> QED
    BY <1>1, <2>1, <2>2 DEF DisabledHard
<1>3. ASSUME NEW s \in SourceNums, d \in hard[s]
      PROVE  s \notin Disabled(c, S, stray) \cup DisabledHard(c, LastOfHard(c))
  <2>1. OthersOnCounter(c, s)
    BY <1>3 DEF OthersOnCounter
  <2>2. s \notin LastOfHard(c)
    BY <1>3 DEF LastOfHard
  <2> QED
    BY <1>1, <2>1, <2>2 DEF DisabledHard
<1> QED
  BY <1>2, <1>3

\* The client that leaves triggers either loses a connection or changes nothing.
LEMMA LeavingNothing ==
  ASSUME IInv, NEW c \in Clients, NEW S \in SUBSET Slots,
         ram' = [i \in Slots |-> IF i \in S THEN Left(c, ram[i]) ELSE ram[i]],
         SameMasks(c)
  PROVE  ram' = ram /\ LastOf(c, S) = {}
<1>1. ram \in [Slots -> TriggerTypes]
  BY DEF IInv, TypeOK, TriggerTypes
<1>2. ASSUME NEW i \in S PROVE c \notin ram[i].clients
  <2>1. ram'[i] = Left(c, ram[i]) /\ ram[i] \in TriggerTypes
    BY <1>1
  <2>2. c \notin ram'[i].clients
    BY <2>1, LeftTrigger
  <2> QED
    BY <2>2 DEF SameMasks
<1>3. \A i \in S : Left(c, ram[i]) = ram[i]
  BY <1>1, <1>2, LeftTrigger
<1>4. ram' = ram
  BY <1>1, <1>3
<1> QED
  BY <1>2, <1>4 DEF LastOf

\* The trigger another client is connected to stays as it is.
LEMMA OthersTriggers ==
  ASSUME IInv, NEW c \in Clients, NEW d \in Clients, c # d, NEW S \in SUBSET Slots,
         ram' = [i \in Slots |-> IF i \in S THEN Left(c, ram[i]) ELSE ram[i]],
         NEW i \in Slots, d \in ram[i].clients
  PROVE  ram'[i].bus = ram[i].bus /\ ram'[i].counter = ram[i].counter
<1>1. ram[i] \in TriggerTypes
  BY DEF IInv, TypeOK, TriggerTypes
<1>2. CASE i \in S
  <2>1. ram'[i] = Left(c, ram[i])
    BY <1>2
  <2>2. ram[i].clients \ {c} # {}
    OBVIOUS
  <2> QED
    BY <1>1, <2>1, <2>2, LeftTrigger
<1>3. CASE i \notin S
  BY <1>3
<1> QED
  BY <1>2, <1>3

\* Disconnecting, from an object, from the sources or from everything, makes
\* no other client deaf.
LEMMA DisConnectDeafensNobody ==
  ASSUME IInv, NEW c \in Clients, NEW d \in Clients, SameMasks(d),
         \/ \E num \in Ctims : DisConnectObject(c, "CTIM", num)
         \/ \E num \in Ptims : DisConnectObject(c, "PTIM", num)
         \/ DisConnectHard(c) \/ DisConnectAll(c) \/ Close(c)
  PROVE  StillHears(d)
<1>0. enable \subseteq SourceNums
  BY DEF IInv, TypeOK
<1>1. ASSUME NEW class, NEW num, DisConnectObject(c, class, num) PROVE StillHears(d)
  <2> DEFINE S == Triggers(class, num)
  <2>1. S \in SUBSET Slots
    BY DEF Triggers
  <2>2. ram' = [i \in Slots |-> IF i \in S THEN Left(c, ram[i]) ELSE ram[i]]
    BY <1>1 DEF DisConnectObject
  <2>3. PICK stray : enable' = enable \ Disabled(c, LastOf(c, S), stray)
    BY <1>1 DEF DisConnectObject
  <2> HIDE DEF S
  <2>4. CASE d = c
    <3>1. ram' = ram /\ LastOf(c, S) = {}
      BY <2>1, <2>2, <2>4, LeavingNothing
    <3>2. Disabled(c, LastOf(c, S), stray) = {}
      BY <3>1 DEF Disabled
    <3> QED
      BY <2>3, <3>1, <3>2 DEF StillHears
  <2>5. CASE d # c
    <3>1. \A i \in Slots : d \in ram[i].clients =>
            /\ ram'[i].bus = ram[i].bus /\ ram'[i].counter = ram[i].counter
            /\ ram[i].counter \notin Disabled(c, LastOf(c, S), stray)
      BY <2>1, <2>2, <2>5, OthersTriggers, OthersSpared
    <3>2. \A s \in SourceNums : d \in hard[s] => s \notin Disabled(c, LastOf(c, S), stray)
      BY <2>5, OthersSpared
    <3> QED
      BY <1>0, <2>3, <3>1, <3>2 DEF StillHears
  <2> QED
    BY <2>4, <2>5
<1>2. CASE DisConnectHard(c)
  <2>1. ram' = ram /\ enable' = enable \ DisabledHard(c, LastOfHard(c))
    BY <1>2 DEF DisConnectHard
  <2>2. CASE d = c
    <3>1. \A s \in SourceNums : c \notin hard'[s]
      BY <1>2 DEF DisConnectHard
    <3>2. LastOfHard(c) = {}
      BY <2>2, <3>1 DEF SameMasks, LastOfHard
    <3> QED
      BY <2>1, <3>2 DEF StillHears, DisabledHard
  <2>3. CASE d # c
    <3>1. /\ \A i \in Slots : d \in ram[i].clients =>
               ram[i].counter \notin DisabledHard(c, LastOfHard(c))
          /\ \A s \in SourceNums : d \in hard[s] => s \notin DisabledHard(c, LastOfHard(c))
      BY <2>3, OthersSpared
    <3> QED
      BY <1>0, <2>1, <3>1 DEF StillHears
  <2> QED
    BY <2>2, <2>3
<1>3. CASE DisConnectAll(c) \/ Close(c)
  <2>0. ForgetAll(c)
    BY <1>3 DEF DisConnectAll, Close
  <2> DEFINE S == {i \in Slots : ram[i].num # 0}
  <2>1. S \in SUBSET Slots
    OBVIOUS
  <2>2. /\ ram' = [i \in Slots |-> IF i \in S THEN Left(c, ram[i]) ELSE ram[i]]
        /\ hard' = [s \in SourceNums |-> hard[s] \ {c}]
    BY <2>0 DEF ForgetAll
  <2>3. PICK stray : enable' = enable \ (Disabled(c, LastOf(c, S), stray)
                                         \cup DisabledHard(c, LastOfHard(c)))
    BY <2>0 DEF ForgetAll
  <2> HIDE DEF S
  <2>4. CASE d = c
    <3>1. ram' = ram /\ LastOf(c, S) = {}
      BY <2>1, <2>2, <2>4, LeavingNothing
    <3>2. LastOfHard(c) = {}
      BY <2>2, <2>4 DEF SameMasks, LastOfHard
    <3>3. Disabled(c, LastOf(c, S), stray) = {} /\ DisabledHard(c, LastOfHard(c)) = {}
      BY <3>1, <3>2 DEF Disabled, DisabledHard
    <3> QED
      BY <2>3, <3>1, <3>3 DEF StillHears
  <2>5. CASE d # c
    <3>1. \A i \in Slots : d \in ram[i].clients =>
            /\ ram'[i].bus = ram[i].bus /\ ram'[i].counter = ram[i].counter
            /\ ram[i].counter \notin Disabled(c, LastOf(c, S), stray)
                                       \cup DisabledHard(c, LastOfHard(c))
      BY <2>1, <2>2, <2>5, OthersTriggers, OthersSpared
    <3>2. \A s \in SourceNums : d \in hard[s] =>
            s \notin Disabled(c, LastOf(c, S), stray) \cup DisabledHard(c, LastOfHard(c))
      BY <2>5, OthersSpared
    <3> QED
      BY <1>0, <2>3, <3>1, <3>2 DEF StillHears
  <2> QED
    BY <2>4, <2>5
<1> QED
  BY <1>1, <1>2, <1>3

\* Nothing one client does makes another deaf: DisableInterrupts, called for
\* every trigger and source the leaving client was the last one of, spares
\* each counter and each source that is needed on behalf of another client.
\* Objects are numbered from 1: the triggers of one with number 0 look empty,
\* and creating another object takes them from its clients.
THEOREM NobodyDeafened == Numbered /\ Spec => NobodyElseDeafened
<1> SUFFICES ASSUME Numbered PROVE Spec => NobodyElseDeafened
  OBVIOUS
<1>1. ASSUME IInv, Next, NEW d \in Clients, SameMasks(d) PROVE StillHears(d)
  <2>1. ASSUME NEW c \in Clients, Open(c) \/ LockCard(c) \/ UnlockCard(c) PROVE QuietStep
    BY <2>1 DEF Open, LockCard, UnlockCard, QuietStep
  <2> QED
    BY <1>1, <2>1, QuietDeafensNobody, ConnectQuiet, ObjectsQuiet,
       DisConnectDeafensNobody DEF Next
<1>2. IInv /\ [Next]_vars =>
        [\A c \in Clients : Connections(c)' = Connections(c) =>
            /\ Hears(c).objects \subseteq Hears(c).objects'
            /\ Hears(c).sources \subseteq Hears(c).sources']_vars
  <2> SUFFICES ASSUME IInv, Next, NEW d \in Clients, Connections(d)' = Connections(d)
               PROVE  /\ Hears(d).objects \subseteq Hears(d).objects'
                      /\ Hears(d).sources \subseteq Hears(d).sources'
    OBVIOUS
  <2>1. SameMasks(d)
    <3>1. /\ Connections(d).objects' = Connections(d).objects
          /\ Connections(d).sources' = Connections(d).sources
      OBVIOUS
    <3>2. /\ {i \in Slots : d \in ram'[i].clients} = {i \in Slots : d \in ram[i].clients}
          /\ {s \in SourceNums : d \in hard'[s]} = {s \in SourceNums : d \in hard[s]}
      BY <3>1 DEF Connections
    <3> QED
      BY <3>2 DEF SameMasks
  <2>2. StillHears(d) /\ enable \subseteq SourceNums
    BY <1>1, <2>1 DEF IInv, TypeOK
  <2> QED
    BY <2>1, <2>2 DEF SameMasks, StillHears, Hears
<1> QED
  BY Invariance, <1>2, PTL DEF Spec, NobodyElseDeafened

-----------------------------------------------------------------------------
(* The trigger table agrees with the objects.                               *)

\* A trigger by itself: an empty one is nobody's and silent, one in use belongs
\* to an object, interrupts exactly while it has clients, and a CTIM instance
\* always has some.
TriggerOK(t) ==
  /\ t.num = 0 <=> t.class = "HARD"
  /\ t.num = 0 => t.clients = {} /\ ~t.bus
  /\ t.class = "CTIM" => t.clients # {}
  /\ t.class # "HARD" => (t.bus <=> t.clients # {})

\* The triggers together: one instance of a CTIM, one counter for a PTIM, whose
\* binding names its triggers.
OneInstance ==
  \A i, j \in Slots :
    ram[i].class = "CTIM" /\ ram[j].class = "CTIM" /\ ram[i].num = ram[j].num => i = j
\* Slot i is a trigger of the PTIM with this number.
IsTrigger(i, num) == ram[i].class = "PTIM" /\ ram[i].num = num
\* The slots that a binding names.
Named(p) == p.start..(p.start + p.size - 1)
\* The triggers of a PTIM are those its binding names, on its counter.
BindingsHold ==
  \A p \in ptims, i \in Slots : /\ i \in Named(p) <=> IsTrigger(i, p.num)
                                /\ IsTrigger(i, p.num) => ram[i].counter = p.counter
\* What a binding names is in the table.
BindingsFit == \A p \in ptims : Named(p) \subseteq Slots
\* No trigger belongs to a PTIM that does not exist.
TriggersBound ==
  \A i \in Slots : ram[i].class = "PTIM" => \E p \in ptims : p.num = ram[i].num

\* The inductive invariant of the trigger table.
TableInv == /\ \A i \in Slots : TriggerOK(ram[i])
            /\ OneInstance /\ BindingsHold /\ BindingsFit /\ TriggersBound

\* A step that neither makes nor unmakes the trigger of a PTIM, and makes no
\* instance of a CTIM, disturbs nothing between the triggers.
LEMMA SameObjects ==
  ASSUME TableInv, ptims' = ptims,
         \A i \in Slots :
           /\ TriggerOK(ram'[i])
           /\ ram'[i].class = "PTIM" <=> ram[i].class = "PTIM"
           /\ ram'[i].class # "HARD" =>
                /\ ram'[i].class = ram[i].class
                /\ ram'[i].num = ram[i].num /\ ram'[i].counter = ram[i].counter
  PROVE  TableInv'
<1>1. OneInstance'
  BY DEF TableInv, OneInstance
<1>2. BindingsHold' /\ BindingsFit'
  BY DEF TableInv, BindingsHold, BindingsFit, IsTrigger, Named
<1>3. TriggersBound'
  BY DEF TableInv, TriggersBound
<1> QED
  BY <1>1, <1>2, <1>3 DEF TableInv

\* A trigger that a client leaves stays in order.
LEMMA LeftOK ==
  ASSUME NEW c \in Clients, NEW t \in TriggerTypes, TriggerOK(t), t.num # 0
  PROVE  /\ TriggerOK(Left(c, t))
         /\ Left(c, t).class = "PTIM" <=> t.class = "PTIM"
         /\ Left(c, t).class # "HARD" =>
              Left(c, t).class = t.class /\ Left(c, t).num = t.num
<1> DEFINE rest == t.clients \ {c}
<1>1. CASE c \notin t.clients \/ rest # {}
  <2>1. Left(c, t) = [t EXCEPT !.clients = rest]
    BY <1>1 DEF Left
  <2>2. t.clients # {} <=> rest # {}
    BY <1>1
  <2> HIDE DEF rest
  <2> QED
    BY <2>1, <2>2 DEF TriggerOK, TriggerTypes
<1>2. CASE c \in t.clients /\ rest = {}
  BY <1>2 DEF Left, TriggerOK, TriggerTypes
<1> QED
  BY <1>1, <1>2

\* Disconnecting from triggers that are in use keeps the table in order.
LEMMA LeftTable ==
  ASSUME IInv, TableInv, NEW c \in Clients, NEW S \in SUBSET Slots, ptims' = ptims,
         \A i \in S : ram[i].num # 0,
         ram' = [i \in Slots |-> IF i \in S THEN Left(c, ram[i]) ELSE ram[i]]
  PROVE  TableInv'
<1>1. ASSUME NEW i \in Slots
      PROVE  /\ TriggerOK(ram'[i])
             /\ ram'[i].class = "PTIM" <=> ram[i].class = "PTIM"
             /\ ram'[i].class # "HARD" =>
                  /\ ram'[i].class = ram[i].class
                  /\ ram'[i].num = ram[i].num /\ ram'[i].counter = ram[i].counter
  <2>1. ram[i] \in TriggerTypes /\ TriggerOK(ram[i])
    BY DEF IInv, TypeOK, TriggerTypes, TableInv
  <2>2. CASE i \in S
    <3>1. ram'[i] = Left(c, ram[i]) /\ ram[i].num # 0
      BY <2>2
    <3> QED
      BY <2>1, <3>1, LeftOK, LeftTrigger
  <2>3. CASE i \notin S
    <3>1. ram'[i] = ram[i]
      BY <2>3
    <3> QED
      BY <2>1, <3>1
  <2> QED
    BY <2>2, <2>3
<1> QED
  BY <1>1, SameObjects

\* A trigger with one more client.
WithClient(c, t) == [t EXCEPT !.clients = @ \cup {c}, !.bus = TRUE]

\* Connecting to a trigger keeps its class, number and counter, and it stays in
\* order.
LEMMA JoinedOK ==
  ASSUME NEW c \in Clients, NEW t \in TriggerTypes, TriggerOK(t), t.num # 0
  PROVE  /\ TriggerOK(WithClient(c, t)) /\ WithClient(c, t).class = t.class
         /\ WithClient(c, t).num = t.num /\ WithClient(c, t).counter = t.counter
<1> DEFINE u == WithClient(c, t)
<1>1. /\ u.class = t.class /\ u.num = t.num /\ u.counter = t.counter
      /\ u.clients = t.clients \cup {c} /\ u.bus
  BY DEF TriggerTypes, WithClient
<1> HIDE DEF u
<1>2. TriggerOK(u)
  BY <1>1 DEF TriggerOK
<1> QED
  BY <1>1, <1>2 DEF u

\* Connecting keeps the table in order: the instance of a CTIM is made only when
\* there is none, on a trigger that is empty.
LEMMA ConnectTable ==
  ASSUME IInv, Numbered, TableInv, NEW c \in Clients,
         \/ \E num \in Ptims : ConnectPtim(c, num)
         \/ \E num \in Ctims : ConnectCtimJoin(c, num) \/ ConnectCtimCreate(c, num)
         \/ \E mask \in HardMasks : ConnectHard(c, mask)
  PROVE  TableInv'
<1>0. /\ ram \in [Slots -> TriggerTypes] /\ Slots \in SUBSET Nat
      /\ \A i \in Slots : ram[i] \in TriggerTypes /\ TriggerOK(ram[i])
  <2>1. ram \in [Slots -> TriggerTypes] /\ Slots \in SUBSET Nat
    BY ConnectAssumption DEF IInv, TypeOK, TriggerTypes, Slots
  <2> QED
    BY <2>1 DEF TableInv
<1>1. ASSUME NEW num \in Ptims, ConnectPtim(c, num) PROVE TableInv'
  <2> DEFINE S == Triggers("PTIM", num)
  <2>1. S \in SUBSET Slots /\ \A i \in S : ram[i].num # 0
    BY TriggersInUse DEF Numbered
  <2>2. /\ ram' = [i \in Slots |-> IF i \in S
                                   THEN [ram[i] EXCEPT !.clients = @ \cup {c}, !.bus = TRUE]
                                   ELSE ram[i]]
        /\ ptims' = ptims
    BY <1>1 DEF ConnectPtim, Joined
  <2> HIDE DEF S
  <2>3. ASSUME NEW i \in Slots
        PROVE  /\ TriggerOK(ram'[i]) /\ ram'[i].class = ram[i].class
               /\ ram'[i].num = ram[i].num /\ ram'[i].counter = ram[i].counter
    <3>1. CASE i \in S
      <4>1. ram'[i] = WithClient(c, ram[i])
        BY <2>2, <3>1 DEF WithClient
      <4>2. ram[i] \in TriggerTypes /\ TriggerOK(ram[i]) /\ ram[i].num # 0
        BY <1>0, <2>1, <3>1
      <4> QED
        BY <4>1, <4>2, JoinedOK
    <3>2. CASE i \notin S
      <4>1. ram'[i] = ram[i]
        BY <2>2, <3>2
      <4> QED
        BY <1>0, <4>1
    <3> QED
      BY <3>1, <3>2
  <2> QED
    BY <2>2, <2>3, SameObjects
<1>2. ASSUME NEW num \in Ctims, ConnectCtimJoin(c, num) PROVE TableInv'
  <2> DEFINE i == Min(Triggers("CTIM", num))
             u == WithClient(c, ram[i])
  <2>1. i \in Slots /\ ram[i].num # 0
    <3>1. Triggers("CTIM", num) \in SUBSET Nat /\ Triggers("CTIM", num) # {}
      BY <1>0, <1>2 DEF ConnectCtimJoin, Triggers
    <3>2. i \in Triggers("CTIM", num)
      BY <3>1, MinIn
    <3> QED
      BY <3>2, TriggersInUse DEF Numbered
  <2>2. ram' = [ram EXCEPT ![i] = u] /\ ptims' = ptims
    BY <1>2 DEF ConnectCtimJoin, WithClient
  <2>3. TriggerOK(u) /\ u.class = ram[i].class /\ u.num = ram[i].num
          /\ u.counter = ram[i].counter
    <3> HIDE DEF i
    <3> QED  BY <1>0, <2>1, JoinedOK
  <2> HIDE DEF i, u
  <2>4. ASSUME NEW j \in Slots
        PROVE  /\ TriggerOK(ram'[j]) /\ ram'[j].class = ram[j].class
               /\ ram'[j].num = ram[j].num /\ ram'[j].counter = ram[j].counter
    <3>1. (ram'[j] = u /\ j = i) \/ ram'[j] = ram[j]
      BY <1>0, <2>1, <2>2
    <3> QED
      BY <1>0, <2>3, <3>1
  <2> QED
    BY <2>2, <2>4, SameObjects
<1>3. ASSUME NEW num \in Ctims, ConnectCtimCreate(c, num) PROVE TableInv'
  <2> DEFINE i == Min({j \in Slots : ram[j].num = 0})
             new == [num |-> num, class |-> "CTIM", clients |-> ram[i].clients \cup {c},
                     counter |-> Counter0, ctim |-> num, bus |-> TRUE]
  <2>1. i \in Slots /\ ram[i].num = 0
    <3>1. /\ {j \in Slots : ram[j].num = 0} \in SUBSET Nat
          /\ {j \in Slots : ram[j].num = 0} # {}
      BY <1>0, <1>3 DEF ConnectCtimCreate
    <3>2. i \in {j \in Slots : ram[j].num = 0}
      BY <3>1, MinIn
    <3> QED
      BY <3>2
  <2>2. ram' = [ram EXCEPT ![i] = new] /\ ptims' = ptims
    BY <1>3 DEF ConnectCtimCreate
  <2>3. TriggerOK(new) /\ new.class = "CTIM" /\ new.num = num
    BY DEF TriggerOK, Numbered
  <2>4. \A j \in Slots : ram[j].class = "CTIM" => ram[j].num # num
    BY <1>3 DEF ConnectCtimCreate, Triggers
  <2>5. ram[i].class = "HARD"
    BY <1>0, <2>1 DEF TriggerOK
  <2> HIDE DEF i, new
  <2>6. ram'[i] = new /\ \A j \in Slots : j # i => ram'[j] = ram[j]
    BY <1>0, <2>1, <2>2
  <2>7. \A j \in Slots : TriggerOK(ram'[j])
    BY <1>0, <2>3, <2>6
  <2>8. OneInstance'
    BY <2>3, <2>4, <2>6 DEF TableInv, OneInstance
  <2>9. BindingsHold' /\ BindingsFit'
    BY <2>2, <2>3, <2>5, <2>6 DEF TableInv, BindingsHold, BindingsFit, IsTrigger, Named
  <2>10. TriggersBound'
    BY <2>2, <2>3, <2>5, <2>6 DEF TableInv, TriggersBound
  <2> QED
    BY <2>7, <2>8, <2>9, <2>10 DEF TableInv
<1>4. ASSUME NEW mask \in HardMasks, ConnectHard(c, mask) PROVE TableInv'
  BY <1>4 DEF ConnectHard, TableInv, OneInstance, BindingsHold, BindingsFit, TriggersBound, IsTrigger, Named
<1> QED
  BY <1>1, <1>2, <1>3, <1>4

\* So does disconnecting.
LEMMA DisConnectTable ==
  ASSUME IInv, Numbered, TableInv, NEW c \in Clients,
         \/ \E num \in Ctims : DisConnectObject(c, "CTIM", num)
         \/ \E num \in Ptims : DisConnectObject(c, "PTIM", num)
         \/ DisConnectHard(c) \/ DisConnectAll(c) \/ Close(c)
  PROVE  TableInv'
<1>1. ASSUME NEW class, NEW num, DisConnectObject(c, class, num)
      PROVE  TableInv'
  <2> DEFINE S == Triggers(class, num)
  <2>1. S \in SUBSET Slots /\ \A i \in S : ram[i].num # 0
    BY <1>1, TriggersInUse DEF DisConnectObject
  <2>2. /\ ram' = [i \in Slots |-> IF i \in S THEN Left(c, ram[i]) ELSE ram[i]]
        /\ ptims' = ptims
    BY <1>1 DEF DisConnectObject
  <2> HIDE DEF S
  <2> QED
    BY <2>1, <2>2, LeftTable
<1>2. CASE DisConnectHard(c)
  BY <1>2 DEF DisConnectHard, TableInv, OneInstance, BindingsHold, BindingsFit, TriggersBound, IsTrigger, Named
<1>3. CASE DisConnectAll(c) \/ Close(c)
  <2> DEFINE S == {i \in Slots : ram[i].num # 0}
  <2>1. /\ ram' = [i \in Slots |-> IF i \in S THEN Left(c, ram[i]) ELSE ram[i]]
        /\ ptims' = ptims
    BY <1>3 DEF DisConnectAll, Close, ForgetAll
  <2>2. S \in SUBSET Slots /\ \A i \in S : ram[i].num # 0
    OBVIOUS
  <2> HIDE DEF S
  <2> QED
    BY <2>1, <2>2, LeftTable
<1> QED
  BY <1>1, <1>2, <1>3

\* An object is created on empty triggers, under a number that no trigger has,
\* and destroyed with all its triggers.
LEMMA ObjectsTable ==
  ASSUME IInv, Numbered, TableInv, NEW c \in Clients,
         \/ \E num \in Ctims : CreateCtim(c, num) \/ DestroyCtim(c, num)
         \/ \E num \in Ptims, n \in PtimSizes, k \in 0..(Counters - 1) :
               CreatePtim(c, num, n, k)
         \/ \E num \in Ptims : DestroyPtim(c, num)
         \/ \E i \in Slots, act \in Actions : SetAction(c, i, act)
  PROVE  TableInv'
<1>0. /\ ram \in [Slots -> TriggerTypes] /\ Slots \in SUBSET Nat
      /\ \A i \in Slots : ram[i] \in TriggerTypes /\ TriggerOK(ram[i])
  <2>1. ram \in [Slots -> TriggerTypes] /\ Slots \in SUBSET Nat
    BY ConnectAssumption DEF IInv, TypeOK, TriggerTypes, Slots
  <2> QED
    BY <2>1 DEF TableInv
<1>1. ASSUME NEW num \in Ctims, CreateCtim(c, num) \/ DestroyCtim(c, num) PROVE TableInv'
  BY <1>1 DEF CreateCtim, DestroyCtim, TableInv, OneInstance, BindingsHold, BindingsFit, TriggersBound, IsTrigger, Named
<1>2. ASSUME NEW num \in Ptims, NEW n \in PtimSizes, NEW k \in 0..(Counters - 1),
             CreatePtim(c, num, n, k)
      PROVE  TableInv'
  <2>1. PICK start \in Nat : start = Min(Runs(n)) /\ start \in Runs(n)
    <3>1. Runs(n) \in SUBSET Nat /\ Runs(n) # {}
      BY <1>0, <1>2 DEF CreatePtim, Runs
    <3>2. Min(Runs(n)) \in Runs(n)
      BY <3>1, MinIn
    <3> QED
      BY <3>1, <3>2
  <2>2. PICK new : new = [num |-> num, start |-> start, size |-> n, counter |-> k]
    OBVIOUS
  <2> DEFINE R == start..(start + n - 1)
  <2>3. R \subseteq Slots /\ \A i \in R : ram[i].num = 0
    BY <2>1 DEF Runs
  <2>4. /\ ram' = [i \in Slots |-> IF i \in R
                                   THEN [ram[i] EXCEPT !.num = num, !.class = "PTIM",
                                                       !.counter = k]
                                   ELSE ram[i]]
        /\ ptims' = ptims \cup {new} /\ \A p \in ptims : p.num # num
    BY <1>2, <2>1, <2>2 DEF CreatePtim
  <2>5. Named(new) = R /\ new.num = num /\ new.counter = k
    BY <2>2 DEF Named
  <2> HIDE DEF R
  <2>6. \A i \in Slots : i \notin R => ram'[i] = ram[i]
    BY <2>4
  <2>7. ASSUME NEW i \in R
        PROVE  /\ ram'[i].class = "PTIM" /\ ram'[i].num = num /\ ram'[i].counter = k
               /\ ram[i].class = "HARD" /\ TriggerOK(ram'[i])
    <3>1. ram'[i] = [ram[i] EXCEPT !.num = num, !.class = "PTIM", !.counter = k]
      BY <2>3, <2>4
    <3>2. ram[i] \in TriggerTypes /\ TriggerOK(ram[i]) /\ ram[i].num = 0
      BY <1>0, <2>3
    <3>3. /\ ram'[i].class = "PTIM" /\ ram'[i].num = num /\ ram'[i].counter = k
          /\ ram'[i].clients = ram[i].clients /\ ram'[i].bus = ram[i].bus
      BY <3>1, <3>2 DEF TriggerTypes
    <3> QED
      BY <3>2, <3>3 DEF TriggerOK, Numbered
  <2>8. \A i \in Slots : ram[i].class = "PTIM" => ram[i].num # num
    BY <2>4 DEF TableInv, TriggersBound
  <2>9. \A i \in Slots : TriggerOK(ram'[i])
    BY <1>0, <2>6, <2>7
  <2>10. OneInstance'
    BY <2>3, <2>6, <2>7 DEF TableInv, OneInstance
  <2>11. \A i \in Slots : /\ i \in R <=> IsTrigger(i, num)'
                          /\ IsTrigger(i, num)' => ram'[i].counter = k
    BY <2>6, <2>7, <2>8 DEF IsTrigger
  <2>12. ASSUME NEW p \in ptims, NEW i \in Slots
         PROVE  /\ i \in Named(p) <=> IsTrigger(i, p.num)'
                /\ IsTrigger(i, p.num)' => ram'[i].counter = p.counter
    <3>1. /\ i \in Named(p) <=> IsTrigger(i, p.num)
          /\ IsTrigger(i, p.num) => ram[i].counter = p.counter
      BY DEF TableInv, BindingsHold
    <3>2. p.num # num
      BY <2>4
    <3> QED
      BY <2>6, <2>7, <3>1, <3>2 DEF IsTrigger
  <2>13. BindingsHold'
    <3> SUFFICES ASSUME NEW p \in ptims', NEW i \in Slots
                 PROVE  /\ i \in Named(p) <=> IsTrigger(i, p.num)'
                        /\ IsTrigger(i, p.num)' => ram'[i].counter = p.counter
      BY DEF BindingsHold, IsTrigger, Named
    <3>1. CASE p = new
      BY <2>5, <2>11, <3>1 DEF IsTrigger
    <3>2. CASE p \in ptims
      BY <2>12, <3>2
    <3> QED
      BY <2>4, <3>1, <3>2
  <2>14. BindingsFit'
    BY <2>3, <2>4, <2>5 DEF TableInv, BindingsFit
  <2>15. TriggersBound'
    <3> SUFFICES ASSUME NEW i \in Slots, ram'[i].class = "PTIM"
                 PROVE  \E p \in ptims' : p.num = ram'[i].num
      BY DEF TriggersBound
    <3>1. CASE i \in R
      BY <2>4, <2>5, <2>7, <3>1
    <3>2. CASE i \notin R
      <4>1. PICK p \in ptims : p.num = ram[i].num
        BY <2>6, <3>2 DEF TableInv, TriggersBound
      <4> QED
        BY <2>4, <2>6, <3>2, <4>1
    <3> QED
      BY <3>1, <3>2
  <2> QED
    BY <2>9, <2>10, <2>13, <2>14, <2>15 DEF TableInv
<1>3. ASSUME NEW num \in Ptims, DestroyPtim(c, num) PROVE TableInv'
  <2> DEFINE S == Triggers("PTIM", num)
  <2>1. /\ \A i \in S : ram[i].clients = {}
        /\ ram' = [i \in Slots |-> IF i \in S THEN [Empty EXCEPT !.clients = ram[i].clients]
                                   ELSE ram[i]]
        /\ ptims' = {p \in ptims : p.num # num}
    BY <1>3 DEF DestroyPtim
  <2>2. S \subseteq Slots /\ \A i \in Slots : i \in S <=> ram[i].num = num /\ ram[i].class = "PTIM"
    BY DEF Triggers
  <2> HIDE DEF S
  <2>3. \A i \in Slots : i \notin S => ram'[i] = ram[i]
    BY <2>1
  <2>4. ASSUME NEW i \in S PROVE ram'[i].class = "HARD" /\ TriggerOK(ram'[i])
    BY <2>1, <2>2 DEF Empty, TriggerOK
  <2>5. \A i \in Slots : TriggerOK(ram'[i])
    BY <1>0, <2>3, <2>4
  <2>6. OneInstance'
    BY <2>3, <2>4 DEF TableInv, OneInstance
  <2>7. ASSUME NEW p \in ptims, p.num # num, NEW i \in Slots
        PROVE  /\ i \in Named(p) <=> IsTrigger(i, p.num)'
               /\ IsTrigger(i, p.num)' => ram'[i].counter = p.counter
    <3>1. /\ i \in Named(p) <=> IsTrigger(i, p.num)
          /\ IsTrigger(i, p.num) => ram[i].counter = p.counter
      BY DEF TableInv, BindingsHold
    <3> QED
      BY <2>2, <2>3, <2>4, <2>7, <3>1 DEF IsTrigger
  <2>8. BindingsHold' /\ BindingsFit'
    BY <2>1, <2>7 DEF TableInv, BindingsHold, BindingsFit, IsTrigger
  <2>9. TriggersBound'
    BY <2>1, <2>2, <2>3, <2>4 DEF TableInv, TriggersBound
  <2> QED
    BY <2>5, <2>6, <2>8, <2>9 DEF TableInv
<1>4. ASSUME NEW i \in Slots, NEW act \in Actions, SetAction(c, i, act) PROVE TableInv'
  <2>1. PICK t : t = ActedOn(ram[i], act)
    OBVIOUS
  <2>2. /\ t.clients = ram[i].clients /\ t.num = act.num /\ t.class = act.class
        /\ t.counter = act.counter /\ (t.bus <=> ram[i].clients # {})
    BY <1>0, <2>1, ActedOnIs
  <2>3. /\ ram' = [ram EXCEPT ![i] = t] /\ ptims' = ptims /\ ram[i].class # "HARD"
        /\ ram[i].num # 0 => /\ act.num = ram[i].num /\ act.class = ram[i].class
                             /\ act.counter = ram[i].counter
    BY <1>4, <2>1 DEF SetAction, ActedOn
  <2>4. ram[i].num # 0 /\ TriggerOK(ram[i])
    BY <1>0, <2>3 DEF TriggerOK
  <2>5. TriggerOK(t)
    BY <2>2, <2>3, <2>4, Zenon DEF TriggerOK
  <2>6. ASSUME NEW j \in Slots
        PROVE  /\ TriggerOK(ram'[j]) /\ ram'[j].class = ram[j].class
               /\ ram'[j].num = ram[j].num /\ ram'[j].counter = ram[j].counter
    <3>1. (ram'[j] = t /\ j = i) \/ ram'[j] = ram[j]
      BY <1>0, <2>3
    <3> QED
      BY <1>0, <2>2, <2>3, <2>4, <2>5, <3>1
  <2> QED
    BY <2>3, <2>6, SameObjects
<1> QED
  BY <1>1, <1>2, <1>3, <1>4

\* The table is in order from the start and stays so.
LEMMA TableInvariance == Numbered /\ Spec => []TableInv
<1> SUFFICES ASSUME Numbered PROVE Spec => []TableInv
  OBVIOUS
<1>1. Init => TableInv
  BY DEF Init, Empty, TableInv, TriggerOK, OneInstance, BindingsHold, BindingsFit, TriggersBound
<1>2. IInv /\ TableInv /\ [Next]_vars => TableInv'
  <2> SUFFICES ASSUME IInv, TableInv, [Next]_vars PROVE TableInv'
    OBVIOUS
  <2>1. CASE UNCHANGED vars
    BY <2>1 DEF vars, TableInv, OneInstance, BindingsHold, BindingsFit, TriggersBound, IsTrigger, Named
  <2>2. ASSUME NEW c \in Clients, Open(c) \/ LockCard(c) \/ UnlockCard(c) PROVE TableInv'
    BY <2>2 DEF Open, LockCard, UnlockCard, TableInv, OneInstance, BindingsHold,
                BindingsFit, TriggersBound, IsTrigger, Named
  <2> QED
    BY <2>1, <2>2, ConnectTable, DisConnectTable, ObjectsTable DEF Next
<1> QED
  BY <1>1, <1>2, Invariance, PTL DEF Spec

\* The trigger table of the card agrees with the objects of the driver: a
\* trigger nobody uses cannot interrupt, a CTIM has one instance and only while
\* somebody is connected, and a PTIM has the triggers that its binding names, on
\* the counter of the binding, none if it was made with size 0.  Objects are
\* numbered from 1: the triggers of one with number 0 are taken for empty.
THEOREM TableAgrees == Numbered /\ Spec => []TableConsistent
<1> SUFFICES ASSUME Numbered PROVE Spec => []TableConsistent
  OBVIOUS
<1>1. IInv /\ TableInv => TableConsistent
  <2> SUFFICES ASSUME IInv, TableInv PROVE TableConsistent
    OBVIOUS
  <2>1. \A i \in Slots : ram[i].num = 0 => ram[i].clients = {} /\ ~ram[i].bus
    BY DEF TableInv, TriggerOK
  <2>2. \A i, j \in Slots : /\ ram[i].class = "CTIM" => ram[i].clients # {}
                            /\ ram[i].class = "CTIM" /\ ram[j].class = "CTIM"
                                  /\ ram[i].num = ram[j].num => i = j
    BY DEF TableInv, TriggerOK, OneInstance
  <2>3. ASSUME NEW p \in ptims
        PROVE  /\ Triggers("PTIM", p.num) = p.start..(p.start + p.size - 1)
               /\ \A i \in Triggers("PTIM", p.num) : ram[i].counter = p.counter
    <3>1. \A i \in Slots : i \in Triggers("PTIM", p.num) <=> IsTrigger(i, p.num)
      BY DEF Triggers, IsTrigger
    <3>2. Triggers("PTIM", p.num) \subseteq Slots /\ Named(p) \subseteq Slots
      BY DEF Triggers, TableInv, BindingsFit
    <3>3. \A i \in Slots : /\ i \in Named(p) <=> IsTrigger(i, p.num)
                           /\ IsTrigger(i, p.num) => ram[i].counter = p.counter
      BY DEF TableInv, BindingsHold
    <3>4. Triggers("PTIM", p.num) = Named(p)
      BY <3>1, <3>2, <3>3
    <3>5. \A i \in Triggers("PTIM", p.num) : ram[i].counter = p.counter
      BY <3>1, <3>2, <3>3
    <3> QED
      BY <3>4, <3>5 DEF Named
  <2>5. \A i \in Slots : ram[i].class = "PTIM" => \E p \in ptims : p.num = ram[i].num
    BY DEF TableInv, TriggersBound
  <2>4. \A i \in Slots : ram[i].class # "HARD" => ram[i].bus = (ram[i].clients # {})
    <3>1. ASSUME NEW i \in Slots, ram[i].class # "HARD"
          PROVE  (ram[i].bus <=> ram[i].clients # {}) /\ ram[i].bus \in BOOLEAN
      BY <3>1 DEF TableInv, TriggerOK, IInv, TypeOK
    <3> QED
      BY <3>1, Zenon
  <2> QED
    BY <2>1, <2>2, <2>3, <2>4, <2>5 DEF TableConsistent
<1> QED
  BY <1>1, Invariance, TableInvariance, PTL
=============================================================================

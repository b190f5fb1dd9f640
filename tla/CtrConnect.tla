----------------------------- MODULE CtrConnect -----------------------------
(***************************************************************************)
(* Who is connected to which timing object of a CTR card, and whether the  *)
(* card can interrupt for it: the trigger table in the RAM of the card and *)
(* its copy in the driver, the masks of connected clients, the interrupt   *)
(* enable register, and the tables of CTIM and PTIM objects.               *)
(*                                                                         *)
(* Every operation runs under ctr_drvr_mutex from entry to return, so each *)
(* is one action.  One card is modelled.                                   *)
(***************************************************************************)
EXTENDS Integers, FiniteSets, FiniteSetsExt

CONSTANTS Clients,      \* client contexts
          Ctims, Ptims, \* equipment numbers of CTIM and PTIM objects; the ioctls refuse none
          RamTableSize, \* CtrDrvrRamTableSIZE
          Counters,     \* CtrDrvrCOUNTERS: sources 0..Counters-1 are counters
          Sources,      \* CtrDrvrInterruptSOURCES
          PtimSizes,    \* how many triggers a PTIM object is created with, 0 included
          HardMasks     \* the masks of sources clients connect to

ASSUME ConnectAssumption ==
    /\ Ctims \subseteq Nat /\ Ptims \subseteq Nat /\ PtimSizes \subseteq Nat
    /\ {RamTableSize, Counters, Sources} \subseteq Nat \ {0}
    /\ Counters < Sources
    /\ HardMasks \subseteq (SUBSET (0..(Sources - 1))) \ {{}}

\* Every object has a number other than 0, the number of an empty trigger.
Numbered == 0 \notin Ctims \cup Ptims

VARIABLES
    inUse,      \* the clients that have the device open
    ram,        \* per trigger: EqpNum, EqpClass, Clients, Trigs.Counter, Trigs.Ctim,
                \* and whether its configuration interrupts the bus on zero
    hard,       \* HardClients: per interrupt source, the clients connected to it
    enable,     \* InterruptEnable, in the driver and in the card
    ctims,      \* Wa->Ctim: the CTIM objects there are
    ptims,      \* Wa->Ptim: the bindings of the PTIM objects there are
    upLock      \* UpLock: the card is locked against changes

vars == <<inUse, ram, hard, enable, ctims, ptims, upLock>>

Slots      == 0..(RamTableSize - 1)
SourceNums == 0..(Sources - 1)
Classes    == {"HARD", "CTIM", "PTIM"}
Counter0   == 0

\* A trigger nobody uses: its class is 0, which is the value of HARD.
Empty == [num |-> 0, class |-> "HARD", clients |-> {}, counter |-> Counter0,
          ctim |-> 0, bus |-> FALSE]

Bindings == [num : Ptims, start : Slots, size : PtimSizes, counter : 0..(Counters - 1)]

TypeOK ==
    /\ inUse \subseteq Clients
    /\ ram \in [Slots -> [num : Ctims \cup Ptims \cup {0}, class : Classes,
                          clients : SUBSET Clients, counter : 0..(Counters - 1),
                          ctim : Ctims \cup {0}, bus : BOOLEAN]]
    /\ hard \in [SourceNums -> SUBSET Clients]
    /\ enable \subseteq SourceNums
    /\ ctims \subseteq Ctims
    /\ ptims \subseteq Bindings
    /\ upLock \in BOOLEAN

Init ==
    /\ inUse = {}
    /\ ram = [i \in Slots |-> Empty]
    /\ hard = [s \in SourceNums |-> {}]
    /\ enable = {}
    /\ ctims = {} /\ ptims = {}
    /\ upLock = FALSE

-----------------------------------------------------------------------------
\* The triggers of an object.
Triggers(class, num) == {i \in Slots : ram[i].num = num /\ ram[i].class = class}

\* An ioctl that changes the card, by a client that has the device open.
Allowed(c) == c \in inUse /\ ~upLock

Open(c) == /\ c \notin inUse
           /\ inUse' = inUse \cup {c}
           /\ UNCHANGED <<ram, hard, enable, ctims, ptims, upLock>>

\* Add the client to the triggers of the object and let them interrupt.
Joined(c, S) ==
    /\ ram' = [i \in Slots |-> IF i \in S
                               THEN [ram[i] EXCEPT !.clients = @ \cup {c}, !.bus = TRUE]
                               ELSE ram[i]]
    /\ enable' = enable \cup {ram[i].counter : i \in S}

\* Connect to a PTIM object: to all its triggers; to one without, ENXIO.
ConnectPtim(c, num) ==
    /\ Allowed(c) /\ \E p \in ptims : p.num = num
    /\ Triggers("PTIM", num) # {}
    /\ Joined(c, Triggers("PTIM", num))
    /\ UNCHANGED <<inUse, hard, ctims, ptims, upLock>>

\* Connect to a CTIM object somebody is connected to already.
ConnectCtimJoin(c, num) ==
    /\ Allowed(c) /\ Triggers("CTIM", num) # {}
    /\ LET i == Min(Triggers("CTIM", num)) IN
        /\ ram' = [ram EXCEPT ![i].clients = @ \cup {c}, ![i].bus = TRUE]
        /\ enable' = enable \cup {Counter0}
    /\ UNCHANGED <<inUse, hard, ctims, ptims, upLock>>

\* Connect to a CTIM object nobody is connected to: the first empty trigger
\* becomes its instance, on counter 0.  Without one the call fails (ENOMEM).
ConnectCtimCreate(c, num) ==
    /\ Allowed(c) /\ num \in ctims
    /\ Triggers("CTIM", num) = {}
    /\ \E i \in Slots : ram[i].num = 0
    /\ LET i == Min({j \in Slots : ram[j].num = 0}) IN
        ram' = [ram EXCEPT ![i] = [num |-> num, class |-> "CTIM", clients |-> @.clients \cup {c},
                                   counter |-> Counter0, ctim |-> num, bus |-> TRUE]]
    /\ enable' = enable \cup {Counter0}
    /\ UNCHANGED <<inUse, hard, ctims, ptims, upLock>>

\* Connect to interrupt sources of the card, given as a mask.
ConnectHard(c, mask) ==
    /\ Allowed(c)
    /\ enable' = enable \cup mask
    /\ hard' = [s \in SourceNums |-> IF s \in mask THEN hard[s] \cup {c} ELSE hard[s]]
    /\ UNCHANGED <<inUse, ram, ctims, ptims, upLock>>

-----------------------------------------------------------------------------
(* Disconnecting.  DisableInterrupts() is called for every trigger and every*)
(* source that loses its last client; it looks only at the other clients,   *)
(* whose connections the call leaves alone, so that the order does not      *)
(* matter and a set of them is handled at once.                             *)

\* Mutant of OthersOnCounter: only hardware connections are looked at.
OthersHardOnly(c, n) == hard[n] \ {c} # {}

\* Somebody else needs counter n.
OthersOnCounter(c, n) ==
    \/ hard[n] \ {c} # {}
    \/ \E j \in Slots : ram[j].counter = n /\ ram[j].clients \ {c} # {}

\* DisableInterrupts for a trigger that c was the last client of.  At the end
\* the code looks HardClients[] up with the number of the trigger: another
\* source, or memory past the table (stray: where it has other bits set).
Disabled(c, S, stray) ==
    {ram[i].counter : i \in {j \in S : /\ ~OthersOnCounter(c, ram[j].counter)
                                       /\ IF j \in SourceNums THEN hard[j] \ {c} = {}
                                                              ELSE j \notin stray}}

\* DisableInterrupts for sources that c was the last client of.  The number of
\* a counter is compared with <=, so one source too many is looked up.
DisabledHard(c, S) ==
    {s \in S : s <= Counters => ~OthersOnCounter(c, s)}

\* Mutant of Left: the instance of a CTIM stays, without clients.
LeftInstanceStays(c, t) ==
    LET rest == t.clients \ {c} IN
    [t EXCEPT !.clients = rest, !.bus = @ /\ rest # {}]

\* A trigger after DisConnectOne: the last client of a CTIM instance removes
\* it (its trigger is kept in the driver), that of a PTIM silences it.
Left(c, t) ==
    LET rest == t.clients \ {c} IN
    IF c \notin t.clients \/ rest # {} THEN [t EXCEPT !.clients = rest]
    ELSE IF t.class = "CTIM"
    THEN [t EXCEPT !.clients = rest, !.num = 0, !.class = "HARD", !.bus = FALSE]
    ELSE [t EXCEPT !.clients = rest, !.bus = FALSE]

\* Those of the triggers S, and of the sources, that c is the last client of.
LastOf(c, S)   == {i \in S : ram[i].clients = {c}}
LastOfHard(c)  == {s \in SourceNums : hard[s] = {c}}

\* DisConnect from a CTIM or PTIM object; number 0 means all connections.
DisConnectObject(c, class, num) ==
    LET S == Triggers(class, num) IN
    /\ Allowed(c) /\ num # 0
    /\ ram' = [i \in Slots |-> IF i \in S THEN Left(c, ram[i]) ELSE ram[i]]
    /\ \E stray \in SUBSET (Slots \ SourceNums) :
          enable' = enable \ Disabled(c, LastOf(c, S), stray)
    /\ UNCHANGED <<inUse, hard, ctims, ptims, upLock>>

\* DisConnect from hardware sources: all of them, whatever the mask says.
DisConnectHard(c) ==
    /\ Allowed(c)
    /\ hard' = [s \in SourceNums |-> hard[s] \ {c}]
    /\ enable' = enable \ DisabledHard(c, LastOfHard(c))
    /\ UNCHANGED <<inUse, ram, ctims, ptims, upLock>>

\* DisConnectAll: the triggers in use first, then the sources.  A trigger of an
\* object with number 0 counts as not in use.
ForgetAll(c) ==
    LET S == {i \in Slots : ram[i].num # 0} IN
    /\ ram' = [i \in Slots |-> IF i \in S THEN Left(c, ram[i]) ELSE ram[i]]
    /\ hard' = [s \in SourceNums |-> hard[s] \ {c}]
    /\ \E stray \in SUBSET (Slots \ SourceNums) :
          enable' = enable \ (Disabled(c, LastOf(c, S), stray)
                              \cup DisabledHard(c, LastOfHard(c)))

DisConnectAll(c) ==
    /\ Allowed(c)
    /\ ForgetAll(c)
    /\ UNCHANGED <<inUse, ctims, ptims, upLock>>

\* Mutant of Close: a locked card is left alone, as the ioctls do.
CloseUnlessLocked(c) ==
    /\ c \in inUse
    /\ inUse' = inUse \ {c}
    /\ IF upLock THEN UNCHANGED <<ram, hard, enable>> ELSE ForgetAll(c)
    /\ UNCHANGED <<ctims, ptims, upLock>>

\* Closing the device disconnects from everything, locked card or not.
Close(c) ==
    /\ c \in inUse
    /\ inUse' = inUse \ {c}
    /\ ForgetAll(c)
    /\ UNCHANGED <<ctims, ptims, upLock>>

-----------------------------------------------------------------------------
(* The objects.                                                             *)

CreateCtim(c, num) ==
    /\ Allowed(c) /\ num \notin ctims
    /\ ctims' = ctims \cup {num}
    /\ UNCHANGED <<inUse, ram, hard, enable, ptims, upLock>>

\* A trigger that mentions the object makes the call fail (EBUSY).
CtimBusy(num) == \E i \in Slots : ram[i].ctim = num

DestroyCtim(c, num) ==
    /\ Allowed(c) /\ num \in ctims /\ ~CtimBusy(num)
    /\ ctims' = ctims \ {num}
    /\ UNCHANGED <<inUse, ram, hard, enable, ptims, upLock>>

\* Where n empty triggers in a row begin; at least one is asked for.
Runs(n) == {i \in Slots : /\ ram[i].num = 0
                          /\ \A k \in i..(i + n - 1) : k \in Slots /\ ram[k].num = 0}

\* CtrDrvrCREATE_PTIM_OBJECT; without room the call fails.  Neither number nor
\* size is checked: an object of size 0 has no trigger, and the triggers of one
\* with number 0 go on looking empty.
CreatePtim(c, num, n, counter) ==
    /\ Allowed(c) /\ \A p \in ptims : p.num # num
    /\ Runs(n) # {}
    /\ LET start == Min(Runs(n)) IN
        /\ ram' = [i \in Slots |-> IF i \in start..(start + n - 1)
                                   THEN [ram[i] EXCEPT !.num = num, !.class = "PTIM",
                                                       !.counter = counter]
                                   ELSE ram[i]]
        /\ ptims' = ptims \cup {[num |-> num, start |-> start, size |-> n,
                                 counter |-> counter]}
    /\ UNCHANGED <<inUse, hard, enable, ctims, upLock>>

\* An object whose triggers somebody is connected to stays (EBUSY), and so does
\* one without triggers.
DestroyPtim(c, num) ==
    LET S == Triggers("PTIM", num) IN
    /\ Allowed(c) /\ S # {}
    /\ \A i \in S : ram[i].clients = {}
    /\ ram' = [i \in Slots |-> IF i \in S THEN [Empty EXCEPT !.clients = ram[i].clients]
                               ELSE ram[i]]
    /\ ptims' = {p \in ptims : p.num # num}
    /\ UNCHANGED <<inUse, hard, enable, ctims, upLock>>

\* What CtrDrvrSET_ACTION is given for a trigger.
Actions == [num : Ctims \cup Ptims \cup {0}, class : Classes,
            counter : 0..(Counters - 1), ctim : Ctims \cup {0}]

\* CtrDrvrSET_ACTION: a new trigger condition for the same object and counter;
\* the trigger of an object with number 0 takes any.  The bus interrupt follows
\* from the clients.
SetAction(c, i, act) ==
    /\ Allowed(c) /\ ram[i].class # "HARD"
    /\ ram[i].num # 0 => /\ act.num = ram[i].num /\ act.class = ram[i].class
                         /\ act.counter = ram[i].counter
    /\ ram' = [ram EXCEPT ![i] = [num |-> act.num, class |-> act.class,
                                  clients |-> @.clients, counter |-> act.counter,
                                  ctim |-> act.ctim, bus |-> @.clients # {}]]
    /\ UNCHANGED <<inUse, hard, enable, ctims, ptims, upLock>>

LockCard(c) == /\ c \in inUse
               /\ upLock' = TRUE
               /\ UNCHANGED <<inUse, ram, hard, enable, ctims, ptims>>

\* With the right password.
UnlockCard(c) == /\ c \in inUse
                 /\ upLock' = FALSE
                 /\ UNCHANGED <<inUse, ram, hard, enable, ctims, ptims>>

Next == \E c \in Clients :
    \/ Open(c) \/ Close(c) \/ DisConnectHard(c) \/ DisConnectAll(c)
    \/ LockCard(c) \/ UnlockCard(c)
    \/ \E mask \in HardMasks : ConnectHard(c, mask)
    \/ \E num \in Ctims : \/ CreateCtim(c, num) \/ DestroyCtim(c, num)
                          \/ ConnectCtimJoin(c, num) \/ ConnectCtimCreate(c, num)
                          \/ DisConnectObject(c, "CTIM", num)
    \/ \E num \in Ptims :
          \/ ConnectPtim(c, num) \/ DisConnectObject(c, "PTIM", num)
          \/ DestroyPtim(c, num)
          \/ \E n \in PtimSizes, k \in 0..(Counters - 1) : CreatePtim(c, num, n, k)
    \/ \E i \in Slots, act \in Actions : SetAction(c, i, act)

Spec == Init /\ [][Next]_vars

-----------------------------------------------------------------------------
\* The connections of a client, and those the card can interrupt for.
Connections(c) == [objects |-> {i \in Slots : c \in ram[i].clients},
                   sources |-> {s \in SourceNums : c \in hard[s]}]
Hears(c) == [objects |-> {i \in Slots : /\ c \in ram[i].clients
                                        /\ ram[i].bus /\ ram[i].counter \in enable},
             sources |-> {s \in enable : c \in hard[s]}]

\* A client that has closed the device is in no mask: IntrHandler and
\* CtrDrvrWrite put no event in the queue of a context that is free, or that
\* the next process to open it has just got.  A locked card is no exception.
\* CtrDrvrClose: "Disconnect this client from events".
ClosedIsForgotten ==
    \A c \in Clients \ inUse : Connections(c) = [objects |-> {}, sources |-> {}]

\* The trigger table agrees with the objects: an empty trigger has no client
\* and cannot interrupt; a CTIM has one instance, and only while somebody is
\* connected to it; the triggers of a PTIM object are those its binding names,
\* on the counter of the binding, and there are no others.
TableConsistent ==
    /\ \A i \in Slots : ram[i].num = 0 => ram[i].clients = {} /\ ~ram[i].bus
    /\ \A i, j \in Slots : /\ ram[i].class = "CTIM" => ram[i].clients # {}
                           /\ ram[i].class = "CTIM" /\ ram[j].class = "CTIM"
                                 /\ ram[i].num = ram[j].num => i = j
    /\ \A p \in ptims : /\ Triggers("PTIM", p.num) = p.start..(p.start + p.size - 1)
                        /\ \A i \in Triggers("PTIM", p.num) : ram[i].counter = p.counter
    /\ \A i \in Slots : ram[i].class = "PTIM" => \E p \in ptims : p.num = ram[i].num
    /\ \A i \in Slots : ram[i].class # "HARD" => ram[i].bus = (ram[i].clients # {})

\* Nothing one client does makes another deaf: as long as a client's own
\* connections stay as they are, so does what the card interrupts for on its
\* behalf (DisableInterrupts asks who else needs the source).
NobodyElseDeafened ==
    [][\A c \in Clients : Connections(c)' = Connections(c) =>
            /\ Hears(c).objects \subseteq Hears(c).objects'
            /\ Hears(c).sources \subseteq Hears(c).sources']_vars

\* "In use by ptim object": a CTIM object that cannot be destroyed is
\* mentioned by a trigger that is in use.
BusyMeansUsed ==
    \A num \in Ctims : CtimBusy(num) => \E i \in Slots : ram[i].num # 0 /\ ram[i].ctim = num

\* A client hears what it is connected to.
ConnectedIsHeard == \A c \in inUse : Hears(c) = Connections(c)
=============================================================================

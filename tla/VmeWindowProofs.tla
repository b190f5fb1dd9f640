--------------------------- MODULE VmeWindowProofs ---------------------------
(***************************************************************************)
(* Proofs about VmeWindow, for any number of clients, windows, mappings and*)
(* requests: its types and the agreement of a window's flag with PCI, the  *)
(* page tables and the chip, without any assumption; and, when calls do not*)
(* overlap or nothing is created and destroyed behind a client's back, that*)
(* the user count is the number of mappings, that closing the device       *)
(* releases all mappings of the process, and that the mappings of a process*)
(* come and go by its own calls, and are there as long as it holds them.   *)
(***************************************************************************)
EXTENDS VmeWindow, SequenceTheorems, FiniteSetTheorems, WellFoundedInduction, TLAPS

-----------------------------------------------------------------------------
(* The inductive invariant.                                                *)

\* What a call does next, once it has the mutex it may be waiting for.
Going(t) == IF pc[t] = "lock" THEN loc[t].next ELSE pc[t]

\* __vme_find_mapping() before the new mapping has been made.
ForFind(t) == Going(t) = "create" /\ loc[t].op = "find"
\* A find that will need a free place for what it returns.
Finding(t) == Going(t) \in {"find", "miss", "attach"} \/ ForFind(t)

\* Calls overlap only where nothing is created or destroyed behind a client's
\* back: the options have their default values and there are no drivers.
NoForce == Kernel = {} /\ "options" \notin Ops
\* What the user counts and the lists are proved under.
Orderly == Serial \/ NoForce

\* The mappings in a list.
Entries(list) == {list[i] : i \in 1 .. Len(list)}

\* An entry that t may add to a list.
NewEntry(t, e) == e.file = FileOf(t) /\ e.id \in {t} \X Slots

\* What is done with a mutex held.
Locked == {"create", "destroy", "find", "release", "lookup", "close"}

\* Control: a client waits for the mutex in order to do something under it.
NextOK(t) == pc[t] = "lock" => loc[t].next \in Locked
\* A find has a free place for its result.
FreeOK(t) == Finding(t) => FreeSlots(t) # {}
\* What a find links is its own new entry.
MappingOK(t) == pc[t] = "link" => NewEntry(t, loc[t].m)
\* Where only the options or a driver lead.
Forced(t) ==
  \/ Going(t) \in {"attach", "link"} \/ ForFind(t)
  \/ Going(t) = "destroy" /\ loc[t].op \in {"release", "return"}
\* A call is there only with force set, which NoForce excludes.
ForceOK(t) == /\ Forced(t) => loc[t].force
              /\ NoForce => ~loc[t].force
\* The control of every client.
ControlInv == \A t \in Tasks :
                /\ NextOK(t) /\ FreeOK(t) /\ MappingOK(t) /\ ForceOK(t)
\* The options keep their default values.
OptionsInv == NoForce => ~createOnFind /\ ~destroyOnRemove
\* With Serial set, calls do not overlap.
OneAtATime == Serial => \A t, u \in Tasks : pc[t] # "idle" /\ pc[u] # "idle" => t = u

\* The window that a find has created is still its own when it attaches to it.
AttachOK(t) ==
  pc[t] = "attach" => maps[loc[t].win] = <<>> /\ win[loc[t].win].active
\* And it is when the new entry is linked, after the tail that was read.
LinkOK(t) ==
  LET w == loc[t].win IN
  pc[t] = "link" => /\ maps[w] = <<>> /\ win[w].active
                    /\ loc[t].tail = NoId /\ loc[t].users = 0
\* A window that the last user has left stays empty until it is destroyed.
DestroyOK(t) ==
  Going(t) = "destroy" /\ loc[t].op \in {"release", "return"} => maps[loc[t].win] = <<>>

\* The lists and the user counts, under Orderly.
TableInv == /\ UsersCountMappings
            /\ \A t \in Tasks : AttachOK(t) /\ LinkOK(t) /\ DestroyOK(t)

\* A close has emptied the windows it has passed.
CloseOK(t) ==
  \A w \in Windows :
    \/ Going(t) = "close" /\ w < loc[t].win
    \/ Going(t) = "closed"
    => \A e \in Entries(maps[w]) : e.file # t

\* The inductive invariant.
IInv == /\ TypeOK /\ WindowConsistent /\ ControlInv /\ OptionsInv /\ OneAtATime
        /\ Orderly => TableInv
        /\ Orderly /\ ~Signals => \A t \in Users : CloseOK(t)

-----------------------------------------------------------------------------
(* Lists.                                                                  *)

\* A set of naturals has a least member.
LEMMA Least ==
  ASSUME NEW S \in SUBSET Nat, S # {}
  PROVE  \E x \in S : \A y \in S : x <= y
<1>1. PICK x \in S : \A y \in S : ~(<<y, x>> \in OpToRel(<, Nat))
  BY NatLessThanWellFounded, WFMin, Zenon
<1>2. \A y \in S : ~(y < x)
  BY <1>1 DEF OpToRel
<1> QED
  BY <1>2

\* list_add_tail() adds its entry.
LEMMA EntriesAppend ==
  ASSUME NEW S, NEW list \in Seq(S), NEW m \in S
  PROVE  /\ Append(list, m) \in Seq(S) /\ Len(Append(list, m)) = Len(list) + 1
         /\ Entries(Append(list, m)) = Entries(list) \cup {m}
<1>1. /\ Append(list, m) \in Seq(S) /\ Len(Append(list, m)) = Len(list) + 1
      /\ Len(list) \in Nat
      /\ \A i \in 1 .. Len(list) : Append(list, m)[i] = list[i]
      /\ Append(list, m)[Len(list) + 1] = m
  OBVIOUS
<1>2. \A i \in 1 .. Len(list) + 1 : i \in 1 .. Len(list) \/ i = Len(list) + 1
  BY <1>1
<1>3. \A i \in 1 .. Len(list) : i \in 1 .. Len(list) + 1
  BY <1>1
<1>4. Len(list) + 1 \in 1 .. Len(list) + 1
  BY <1>1
<1>5. Entries(Append(list, m)) \subseteq Entries(list) \cup {m}
  BY <1>1, <1>2 DEF Entries
<1>6. Entries(list) \cup {m} \subseteq Entries(Append(list, m))
  BY <1>1, <1>3, <1>4 DEF Entries
<1> QED
  BY <1>1, <1>5, <1>6

\* list_del() leaves the other entries, one less.
LEMMA EntriesWithout ==
  ASSUME NEW S, NEW list \in Seq(S), NEW i \in 1 .. Len(list)
  PROVE  /\ Without(list, i) \in Seq(S) /\ Len(Without(list, i)) = Len(list) - 1
         /\ Entries(Without(list, i)) \subseteq Entries(list)
<1> DEFINE a == SubSeq(list, 1, i - 1)
           b == SubSeq(list, i + 1, Len(list))
<1>0. Len(list) \in Nat
  OBVIOUS
<1>1. /\ a \in Seq(S) /\ Len(a) = i - 1 /\ \A j \in 1 .. i - 1 : a[j] = list[j]
  BY <1>0, SubSeqProperties
<1>2. /\ b \in Seq(S) /\ Len(b) = Len(list) - i
      /\ \A j \in 1 .. Len(list) - i : b[j] = list[i + j]
  BY <1>0, SubSeqProperties
<1> HIDE DEF a, b
<1> DEFINE c == a \o b
<1>3. /\ c \in Seq(S) /\ Len(c) = Len(list) - 1
      /\ \A j \in 1 .. Len(list) - 1 :
           c[j] = IF j <= i - 1 THEN a[j] ELSE b[j - (i - 1)]
  <2>1. /\ c \in Seq(S) /\ Len(c) = Len(a) + Len(b)
        /\ \A j \in 1 .. Len(a) + Len(b) : c[j] = IF j <= Len(a) THEN a[j] ELSE b[j - Len(a)]
    BY <1>1, <1>2, ConcatProperties
  <2>2. Len(a) + Len(b) = Len(list) - 1
    BY <1>0, <1>1, <1>2
  <2> QED
    BY <1>1, <2>1, <2>2
<1> HIDE DEF c
<1>4. ASSUME NEW j \in 1 .. Len(list) - 1
      PROVE  \E k \in 1 .. Len(list) : c[j] = list[k]
  <2>1. CASE j <= i - 1
    BY <1>0, <1>1, <1>3, <2>1
  <2>2. CASE j > i - 1
    <3>1. j - (i - 1) \in 1 .. Len(list) - i /\ i + (j - (i - 1)) \in 1 .. Len(list)
      BY <1>0, <2>2
    <3>2. c[j] = b[j - (i - 1)]
      <4>1. ~(j <= i - 1)
        BY <1>0, <2>2
      <4> QED
        BY <1>3, <4>1
    <3> QED
      BY <1>2, <3>1, <3>2
  <2> QED
    BY <1>0, <2>1, <2>2
<1>5. Entries(c) \subseteq Entries(list)
  BY <1>3, <1>4 DEF Entries
<1> QED
  BY <1>3, <1>5 DEF Without, a, b, c

\* The function that Kept() computes, on the first n entries.
IsKept(f, n, list, keep) ==
  f = [i \in 0 .. n |->
         IF i = 0 THEN <<>>
         ELSE IF i \in keep THEN Append(f[i - 1], list[i])
         ELSE f[i - 1]]

\* There is one.
LEMMA KeptExists ==
  ASSUME NEW S, NEW list \in Seq(S), NEW keep, NEW n \in 0 .. Len(list)
  PROVE  \E f : IsKept(f, n, list, keep)
<1> DEFINE Bad == {k \in 0 .. Len(list) : ~\E f : IsKept(f, k, list, keep)}
<1> SUFFICES ASSUME Bad # {} PROVE FALSE
  OBVIOUS
<1>0. Bad \in SUBSET Nat
  OBVIOUS
<1>1. PICK k \in Bad : \A j \in Bad : k <= j
  BY <1>0, Least
<1>2. CASE k = 0
  <2> DEFINE f == [i \in 0 .. 0 |-> <<>>]
  <2>1. IsKept(f, 0, list, keep)
    BY DEF IsKept
  <2> QED
    BY <1>1, <1>2, <2>1
<1>3. CASE k # 0
  <2>1. k \in Nat /\ k - 1 \in 0 .. Len(list) /\ k - 1 \notin Bad
    BY <1>1, <1>3
  <2>2. PICK f : IsKept(f, k - 1, list, keep)
    BY <2>1
  <2> DEFINE g == [i \in 0 .. k |->
                     IF i < k THEN f[i]
                     ELSE IF i \in keep THEN Append(f[i - 1], list[i])
                     ELSE f[i - 1]]
  <2>3. \A i \in 0 .. k - 1 :
          f[i] = IF i = 0 THEN <<>>
                 ELSE IF i \in keep THEN Append(f[i - 1], list[i])
                 ELSE f[i - 1]
    BY <2>2 DEF IsKept
  <2>4. \A i \in 0 .. k :
          g[i] = IF i = 0 THEN <<>>
                 ELSE IF i \in keep THEN Append(g[i - 1], list[i])
                 ELSE g[i - 1]
    <3> SUFFICES ASSUME NEW i \in 0 .. k
                 PROVE  g[i] = IF i = 0 THEN <<>>
                               ELSE IF i \in keep THEN Append(g[i - 1], list[i])
                               ELSE g[i - 1]
      OBVIOUS
    <3>1. CASE i = 0
      BY <1>3, <2>1, <2>3, <3>1
    <3>2. CASE i # 0 /\ i < k
      <4>1. i \in 0 .. k - 1 /\ i - 1 \in 0 .. k /\ i - 1 < k
        BY <2>1, <3>2
      <4>2. g[i] = f[i] /\ g[i - 1] = f[i - 1]
        BY <3>2, <4>1
      <4> QED
        BY <2>3, <3>2, <4>1, <4>2
    <3>3. CASE i = k
      <4>1. i - 1 \in 0 .. k /\ i - 1 < k /\ ~(i < k)
        BY <1>3, <2>1, <3>3
      <4>2. g[i - 1] = f[i - 1]
        BY <4>1
      <4> QED
        BY <1>3, <3>3, <4>1, <4>2
    <3> QED
      BY <2>1, <3>1, <3>2, <3>3
  <2>5. IsKept(g, k, list, keep)
    <3>1. g = [i \in 0 .. k |-> g[i]]
      OBVIOUS
    <3> HIDE DEF g
    <3> QED
      BY <2>4, <3>1 DEF IsKept
  <2> QED
    BY <1>1, <2>5
<1> QED
  BY <1>2, <1>3

\* Kept() is a value of it.
LEMMA KeptIs ==
  ASSUME NEW S, NEW list \in Seq(S), NEW keep
  PROVE  \E f : Kept(list, keep) = f[Len(list)] /\ IsKept(f, Len(list), list, keep)
<1> DEFINE n == Len(list)
           g == CHOOSE f : IsKept(f, n, list, keep)
<1>1. n \in 0 .. Len(list)
  OBVIOUS
<1>2. Kept(list, keep) = g[n]
  BY DEF Kept, IsKept
<1>3. IsKept(g, n, list, keep)
  BY <1>1, KeptExists
<1> HIDE DEF g
<1> QED
  BY <1>2, <1>3

\* Its values.
LEMMA KeptValues ==
  ASSUME NEW f, NEW n \in Nat, NEW list, NEW keep, IsKept(f, n, list, keep)
  PROVE  /\ f[0] = <<>>
         /\ \A i \in 1 .. n : f[i] = IF i \in keep THEN Append(f[i - 1], list[i])
                                    ELSE f[i - 1]
<1>1. \A i \in 0 .. n : f[i] = IF i = 0 THEN <<>>
                               ELSE IF i \in keep THEN Append(f[i - 1], list[i])
                               ELSE f[i - 1]
  BY DEF IsKept
<1>2. 0 \in 0 .. n /\ \A i \in 1 .. n : i \in 0 .. n /\ i # 0
  OBVIOUS
<1> QED
  BY <1>1, <1>2

\* Others() keeps entries of the list, those of other files only.
LEMMA EntriesOthers ==
  ASSUME NEW S, NEW list \in Seq(S), NEW file
  PROVE  /\ Others(list, file) \in Seq(S)
         /\ \A e \in Entries(Others(list, file)) : e \in Entries(list) /\ e.file # file
<1> DEFINE n == Len(list)
           keep == {i \in 1 .. n : list[i].file # file}
<1>0. n \in Nat
  OBVIOUS
<1>2. PICK g : Kept(list, keep) = g[n] /\ IsKept(g, n, list, keep)
  BY KeptIs
<1>1. Others(list, file) = g[n]
  BY <1>2 DEF Others
<1>3. /\ g[0] = <<>>
      /\ \A i \in 1 .. n : g[i] = IF list[i].file # file THEN Append(g[i - 1], list[i])
                                 ELSE g[i - 1]
  <2>1. \A i \in 1 .. n : i \in keep <=> list[i].file # file
    OBVIOUS
  <2> HIDE DEF keep
  <2>2. /\ g[0] = <<>>
        /\ \A i \in 1 .. n : g[i] = IF i \in keep THEN Append(g[i - 1], list[i])
                                   ELSE g[i - 1]
    BY <1>0, <1>2, KeptValues
  <2> QED
    BY <2>1, <2>2
<1> DEFINE Good(k) == /\ g[k] \in Seq(S)
                      /\ \A e \in Entries(g[k]) : e \in Entries(list) /\ e.file # file
           Bad == {k \in 0 .. n : ~Good(k)}
<1>4. ASSUME Bad # {} PROVE FALSE
  <2>0. Bad \in SUBSET Nat
    OBVIOUS
  <2> HIDE DEF Bad
  <2>1. PICK k \in Bad : \A j \in Bad : k <= j
    BY <1>4, <2>0, Least
  <2> USE DEF Bad
  <2>2. CASE k = 0
    <3>1. g[k] = <<>>
      BY <1>0, <1>3, <2>2
    <3>2. <<>> \in Seq(S) /\ Entries(<<>>) = {}
      BY EmptySeq DEF Entries
    <3> QED
      BY <2>1, <3>1, <3>2
  <2>3. CASE k # 0
    <3>1. k \in 1 .. n /\ k - 1 \in 0 .. n /\ ~(k <= k - 1)
      BY <2>1, <2>3
    <3>2. Good(k - 1)
      BY <2>1, <3>1
    <3>3. list[k] \in S /\ list[k] \in Entries(list)
      BY <3>1 DEF Entries
    <3>4. CASE list[k].file # file
      <4>1. g[k] = Append(g[k - 1], list[k])
        BY <1>3, <3>1, <3>4
      <4>2. g[k] \in Seq(S) /\ Entries(g[k]) = Entries(g[k - 1]) \cup {list[k]}
        BY <3>2, <3>3, <4>1, EntriesAppend
      <4> QED
        BY <2>1, <3>2, <3>3, <3>4, <4>2
    <3>5. CASE list[k].file = file
      <4>1. g[k] = g[k - 1]
        BY <1>3, <3>1, <3>5
      <4> QED
        BY <2>1, <3>2, <4>1
    <3> QED
      BY <3>4, <3>5
  <2> QED
    BY <2>2, <2>3
<1> QED
  BY <1>0, <1>1, <1>4

\* The function that Own() computes, by its values.
IsOwn(f, list, file) ==
  /\ f[0] = <<>>
  /\ \A i \in 1 .. Len(list) :
       f[i] = IF list[i].file = file THEN Append(f[i - 1], list[i]) ELSE f[i - 1]

\* Own() is a value of it.
LEMMA OwnIs ==
  ASSUME NEW S, NEW list \in Seq(S), NEW file
  PROVE  \E f : Own(list, file) = f[Len(list)] /\ IsOwn(f, list, file)
<1> DEFINE n == Len(list)
           keep == {i \in 1 .. Len(list) : list[i].file = file}
<1>0. n \in Nat
  OBVIOUS
<1>1. PICK f : Kept(list, keep) = f[n] /\ IsKept(f, n, list, keep)
  BY KeptIs
<1>2. \A i \in 1 .. n : i \in keep <=> list[i].file = file
  OBVIOUS
<1>3. Own(list, file) = f[n]
  BY <1>1 DEF Own
<1> HIDE DEF keep
<1>4. /\ f[0] = <<>>
      /\ \A i \in 1 .. n : f[i] = IF i \in keep THEN Append(f[i - 1], list[i]) ELSE f[i - 1]
  BY <1>0, <1>1, KeptValues
<1> QED
  BY <1>2, <1>3, <1>4 DEF IsOwn

\* Two such functions go on as equals as long as the lists do.
GoOnAlike(f, list, g, tsil) ==
  \A a, b, d \in Nat :
    /\ f[a] = g[b] /\ a + d <= Len(list) /\ b + d <= Len(tsil)
    /\ \A i \in 1 .. d : list[a + i] = tsil[b + i]
    => f[a + d] = g[b + d]

\* The own entries of a file after equal beginnings and equal continuations are
\* equal.
LEMMA OwnAgree ==
  ASSUME NEW list, NEW tsil, NEW file, NEW f, NEW g,
         IsOwn(f, list, file), IsOwn(g, tsil, file),
         Len(list) \in Nat, Len(tsil) \in Nat
  PROVE  GoOnAlike(f, list, g, tsil)
<1> SUFFICES ASSUME NEW a \in Nat, NEW b \in Nat, NEW d \in Nat,
                    f[a] = g[b], a + d <= Len(list), b + d <= Len(tsil),
                    \A i \in 1 .. d : list[a + i] = tsil[b + i]
             PROVE  f[a + d] = g[b + d]
  BY DEF GoOnAlike
<1> DEFINE Bad == {i \in 0 .. d : f[a + i] # g[b + i]}
<1>1. Bad \in SUBSET Nat
  OBVIOUS
<1>2. ASSUME Bad # {} PROVE FALSE
  <2>1. PICK i \in Bad : \A j \in Bad : i <= j
    BY <1>1, <1>2, Least
  <2>2. i # 0
    <3>1. f[a + 0] = g[b + 0]
      OBVIOUS
    <3> QED
      BY <2>1, <3>1
  <2>3. PICK j \in Nat : i = j + 1 /\ j <= d /\ i \in 1 .. d
    <3>1. i - 1 \in Nat /\ i = (i - 1) + 1 /\ i - 1 <= d /\ i \in 1 .. d
      BY <2>1, <2>2
    <3> QED
      BY <3>1
  <2>4. f[a + j] = g[b + j]
    BY <2>1, <2>3
  <2>5. /\ a + i \in 1 .. Len(list) /\ b + i \in 1 .. Len(tsil)
        /\ (a + i) - 1 = a + j /\ (b + i) - 1 = b + j
    BY <2>3
  <2>6. f[a + i] = IF list[a + i].file = file THEN Append(f[a + j], list[a + i])
                   ELSE f[a + j]
    BY <2>5 DEF IsOwn
  <2>7. g[b + i] = IF tsil[b + i].file = file THEN Append(g[b + j], tsil[b + i])
                   ELSE g[b + j]
    BY <2>5 DEF IsOwn
  <2>8. f[a + i] = g[b + i]
    BY <2>3, <2>4, <2>6, <2>7
  <2> QED
    BY <2>1, <2>8
<1>3. Bad = {}
  BY <1>2
<1>4. \A i \in 0 .. d : f[a + i] = g[b + i]
  BY <1>3
<1> QED
  BY <1>4

\* In particular from the beginning.
LEMMA OwnPrefix ==
  ASSUME NEW list, NEW tsil, NEW file, NEW f, NEW g,
         IsOwn(f, list, file), IsOwn(g, tsil, file),
         Len(list) \in Nat, Len(tsil) \in Nat, NEW d \in Nat,
         d <= Len(list), d <= Len(tsil), \A i \in 1 .. d : list[i] = tsil[i]
  PROVE  f[d] = g[d]
<1>1. PICK z \in Nat : z = 0
  OBVIOUS
<1>2. /\ z + d <= Len(list) /\ z + d <= Len(tsil) /\ f[z] = g[z]
      /\ \A i \in 1 .. d : list[z + i] = tsil[z + i]
  BY <1>1 DEF IsOwn
<1>3. GoOnAlike(f, list, g, tsil)
  BY OwnAgree
<1>4. f[z + d] = g[z + d]
  BY <1>2, <1>3, Zenon DEF GoOnAlike
<1> QED
  BY <1>1, <1>4

\* A mapping that is added is its owner's.
LEMMA OwnAppend ==
  ASSUME NEW S, NEW list \in Seq(S), NEW e \in S, NEW file
  PROVE  Own(Append(list, e), file) =
           IF e.file = file THEN Append(Own(list, file), e) ELSE Own(list, file)
<1>0. PICK n \in Nat : n = Len(list)
  OBVIOUS
<1>1. PICK more : more = Append(list, e)
  OBVIOUS
<1>2. /\ more \in Seq(S) /\ Len(more) = n + 1 /\ more[n + 1] = e
      /\ \A i \in 1 .. n : more[i] = list[i]
  BY <1>0, <1>1
<1>3. PICK f : Own(list, file) = f[n] /\ IsOwn(f, list, file)
  BY <1>0, OwnIs
<1>4. PICK g : Own(more, file) = g[n + 1] /\ IsOwn(g, more, file)
  BY <1>2, OwnIs
<1>5. g[n + 1] = IF e.file = file THEN Append(g[n], e) ELSE g[n]
  <2>1. n + 1 \in 1 .. Len(more) /\ (n + 1) - 1 = n
    BY <1>2
  <2> QED
    BY <1>2, <1>4, <2>1 DEF IsOwn
<1>6. f[n] = g[n]
  <2>1. n <= Len(list) /\ n <= Len(more) /\ Len(list) \in Nat /\ Len(more) \in Nat
    BY <1>0, <1>2
  <2>2. \A i \in 1 .. n : list[i] = more[i]
    BY <1>2
  <2>3. IsOwn(f, list, file) /\ IsOwn(g, more, file)
    BY <1>3, <1>4
  <2> QED
    BY <2>1, <2>2, <2>3, OwnPrefix
<1> QED
  BY <1>1, <1>3, <1>4, <1>5, <1>6

\* list_del() closes the gap.
LEMMA WithoutIs ==
  ASSUME NEW S, NEW list \in Seq(S), NEW i \in 1 .. Len(list)
  PROVE  /\ Without(list, i) \in Seq(S) /\ Len(Without(list, i)) = Len(list) - 1
         /\ \A j \in 1 .. i - 1 : Without(list, i)[j] = list[j]
         /\ \A j \in i .. Len(list) - 1 : Without(list, i)[j] = list[j + 1]
<1> DEFINE a == SubSeq(list, 1, i - 1)
           b == SubSeq(list, i + 1, Len(list))
<1>0. Len(list) \in Nat
  OBVIOUS
<1>1. /\ a \in Seq(S) /\ Len(a) = i - 1 /\ \A j \in 1 .. i - 1 : a[j] = list[j]
  BY <1>0, SubSeqProperties
<1>2. /\ b \in Seq(S) /\ Len(b) = Len(list) - i
      /\ \A j \in 1 .. Len(list) - i : b[j] = list[i + j]
  BY <1>0, SubSeqProperties
<1>3. Without(list, i) = a \o b
  BY DEF Without
<1> HIDE DEF a, b
<1> DEFINE c == a \o b
<1>4. /\ c \in Seq(S) /\ Len(c) = Len(a) + Len(b)
      /\ \A j \in 1 .. Len(a) + Len(b) : c[j] = IF j <= Len(a) THEN a[j] ELSE b[j - Len(a)]
  BY <1>1, <1>2, ConcatProperties
<1> HIDE DEF c
<1>5. Len(a) + Len(b) = Len(list) - 1
  BY <1>0, <1>1, <1>2
<1>6. ASSUME NEW j \in 1 .. i - 1 PROVE c[j] = list[j]
  <2>1. j \in 1 .. Len(list) - 1 /\ j <= i - 1
    BY <1>0
  <2>2. c[j] = a[j]
    BY <1>1, <1>4, <1>5, <2>1
  <2> QED
    BY <1>1, <2>2
<1>7. ASSUME NEW j \in i .. Len(list) - 1 PROVE c[j] = list[j + 1]
  <2>1. /\ j \in 1 .. Len(list) - 1 /\ ~(j <= i - 1)
        /\ j - (i - 1) \in 1 .. Len(list) - i /\ i + (j - (i - 1)) = j + 1
    BY <1>0
  <2>2. c[j] = b[j - (i - 1)]
    BY <1>1, <1>4, <1>5, <2>1
  <2> QED
    BY <1>2, <2>1, <2>2
<1> QED
  BY <1>3, <1>4, <1>5, <1>6, <1>7 DEF c

\* A mapping that is removed is missed by its owner only.
LEMMA OwnWithout ==
  ASSUME NEW S, NEW list \in Seq(S), NEW i \in 1 .. Len(list), NEW file,
         list[i].file # file
  PROVE  Own(Without(list, i), file) = Own(list, file)
<1>0. PICK n \in Nat : n = Len(list) /\ i \in 1 .. n /\ n - 1 \in Nat
  OBVIOUS
<1>1. PICK less : less = Without(list, i)
  OBVIOUS
<1>2. /\ less \in Seq(S) /\ Len(less) = n - 1
      /\ \A j \in 1 .. i - 1 : less[j] = list[j]
      /\ \A j \in i .. n - 1 : less[j] = list[j + 1]
  BY <1>0, <1>1, WithoutIs
<1>3. PICK f : Own(list, file) = f[n] /\ IsOwn(f, list, file)
  BY <1>0, OwnIs
<1>4. PICK g : Own(less, file) = g[n - 1] /\ IsOwn(g, less, file)
  BY <1>0, <1>2, OwnIs
<1>5. PICK m \in Nat, h \in Nat, r \in Nat, p \in Nat :
        /\ m = n - 1 /\ h = i - 1 /\ r = n - i /\ p = i
        /\ h <= n /\ h <= m /\ p + r <= n /\ h + r <= m /\ p + r = n /\ h + r = m
  <2>1. i \in Nat /\ i - 1 \in Nat /\ n - i \in Nat
    BY <1>0
  <2> QED
    BY <1>0, <2>1
<1>6. IsOwn(f, list, file) /\ IsOwn(g, less, file) /\ Len(list) = n /\ Len(less) = m
  BY <1>0, <1>2, <1>3, <1>4, <1>5
<1>7. f[h] = g[h]
  <2>1. \A j \in 1 .. h : list[j] = less[j]
    BY <1>2, <1>5
  <2> QED
    BY <1>5, <1>6, <2>1, OwnPrefix
<1>8. f[p] = g[h]
  <2>1. p \in 1 .. Len(list) /\ p - 1 = h /\ list[p].file # file
    BY <1>0, <1>5
  <2> QED
    BY <1>6, <1>7, <2>1 DEF IsOwn
<1>9. f[p + r] = g[h + r]
  <2>1. \A j \in 1 .. r : list[p + j] = less[h + j]
    <3> SUFFICES ASSUME NEW j \in 1 .. r PROVE list[p + j] = less[h + j]
      OBVIOUS
    <3>1. h + j \in i .. n - 1 /\ (h + j) + 1 = p + j
      BY <1>0, <1>5
    <3> QED
      BY <1>2, <3>1
  <2>2. p + r <= Len(list) /\ h + r <= Len(less) /\ Len(list) \in Nat /\ Len(less) \in Nat
    BY <1>5, <1>6
  <2> QED
    <3>1. GoOnAlike(f, list, g, less)
      BY <1>6, <2>2, OwnAgree
    <3> QED
      BY <1>8, <2>1, <2>2, <3>1, Zenon DEF GoOnAlike
<1> QED
  BY <1>1, <1>3, <1>4, <1>5, <1>9

\* Closing a file leaves the mappings of the others as they are.
LEMMA OwnOthers ==
  ASSUME NEW S, NEW list \in Seq(S), NEW file, NEW closed, file # closed
  PROVE  Own(Others(list, closed), file) = Own(list, file)
<1>0. PICK n \in Nat : n = Len(list)
  OBVIOUS
<1> DEFINE keep == {i \in 1 .. Len(list) : list[i].file # closed}
<1>1. PICK r : Kept(list, keep) = r[n] /\ IsKept(r, n, list, keep)
  BY <1>0, KeptIs
<1>2. Others(list, closed) = r[n]
  BY <1>1 DEF Others
<1>3. \A i \in 1 .. n : i \in keep <=> list[i].file # closed
  BY <1>0
<1> HIDE DEF keep
<1>4. /\ r[0] = <<>>
      /\ \A i \in 1 .. n : r[i] = IF list[i].file # closed THEN Append(r[i - 1], list[i])
                                 ELSE r[i - 1]
  <2>1. /\ r[0] = <<>>
        /\ \A i \in 1 .. n : r[i] = IF i \in keep THEN Append(r[i - 1], list[i])
                                   ELSE r[i - 1]
    BY <1>1, KeptValues
  <2> QED
    BY <1>3, <2>1
<1>5. PICK f : /\ Own(list, file) = f[n] /\ f[0] = <<>>
               /\ \A i \in 1 .. n :
                    f[i] = IF list[i].file = file THEN Append(f[i - 1], list[i])
                           ELSE f[i - 1]
  <2>1. PICK f : Own(list, file) = f[n] /\ IsOwn(f, list, file)
    BY <1>0, OwnIs
  <2> QED
    BY <1>0, <2>1 DEF IsOwn
<1> DEFINE Good(k) == r[k] \in Seq(S) /\ Own(r[k], file) = f[k]
           Bad == {k \in 0 .. n : ~Good(k)}
<1>6. ASSUME Bad # {} PROVE FALSE
  <2>0. Bad \in SUBSET Nat
    OBVIOUS
  <2> HIDE DEF Bad
  <2>1. PICK k \in Bad : \A j \in Bad : k <= j
    BY <1>6, <2>0, Least
  <2> USE DEF Bad
  <2>2. CASE k = 0
    <3>1. <<>> \in Seq(S) /\ Len(<<>>) = 0
      OBVIOUS
    <3>2. Own(<<>>, file) = <<>>
      <4>1. PICK e : e = <<>> /\ e \in Seq(S) /\ Len(e) = 0
        BY <3>1
      <4>2. PICK h : Own(e, file) = h[Len(e)] /\ IsOwn(h, e, file)
        BY <4>1, OwnIs
      <4> QED
        BY <4>1, <4>2 DEF IsOwn
    <3> QED
      BY <1>4, <1>5, <2>1, <2>2, <3>1, <3>2
  <2>3. CASE k # 0
    <3>1. k \in 1 .. n /\ k - 1 \in 0 .. n /\ ~(k <= k - 1)
      BY <2>1, <2>3
    <3>2. Good(k - 1)
      BY <2>1, <3>1
    <3>3. list[k] \in S
      BY <1>0, <3>1
    <3>4. CASE list[k].file # closed
      <4>1. r[k] = Append(r[k - 1], list[k])
        BY <1>4, <3>1, <3>4
      <4>2. r[k] \in Seq(S)
        BY <3>2, <3>3, <4>1
      <4>3. Own(r[k], file) = IF list[k].file = file THEN Append(Own(r[k - 1], file), list[k])
                              ELSE Own(r[k - 1], file)
        <5>1. PICK q \in Seq(S) : q = r[k - 1]
          BY <3>2
        <5>2. PICK e \in S : e = list[k]
          BY <3>3
        <5>3. Own(Append(q, e), file) =
                IF e.file = file THEN Append(Own(q, file), e) ELSE Own(q, file)
          BY OwnAppend
        <5> QED
          BY <4>1, <5>1, <5>2, <5>3
      <4>4. Own(r[k], file) = f[k]
        BY <1>5, <3>1, <3>2, <4>3
      <4> QED
        BY <2>1, <4>2, <4>4
    <3>5. CASE list[k].file = closed
      <4>1. r[k] = r[k - 1] /\ f[k] = f[k - 1]
        BY <1>4, <1>5, <3>1, <3>5
      <4> QED
        BY <2>1, <3>2, <4>1
    <3> QED
      BY <3>4, <3>5
  <2> QED
    BY <2>2, <2>3
<1>7. Good(n)
  BY <1>6
<1> QED
  BY <1>2, <1>5, <1>7

-----------------------------------------------------------------------------
(* Types.                                                                  *)

\* Facts about the constants that every step needs.
LEMMA Sizes ==
  /\ 0 \in Windows /\ Windows \in SUBSET Nat /\ NULL \notin Windows
  /\ Slots \in SUBSET Nat /\ Align \in Nat \ {0} /\ SpaceA24 \in Nat /\ Top \in Nat \ {0}
  /\ Nobody \notin Tasks /\ Users \subseteq Tasks
BY SizesAssumption, ClientsAssumption DEF Windows, NULL, Slots, Tasks

\* What is rounded stays an address.
LEMMA RoundTypes ==
  ASSUME NEW a \in Nat
  PROVE  RoundDown(a) \in Nat /\ RoundUp(a) \in Nat /\ RoundDown(a) = a - (a % Align)
<1>0. Align \in Nat \ {0}
  BY Sizes
<1>1. \A b \in Nat : b % Align \in Nat /\ b % Align <= b
  <2> SUFFICES ASSUME NEW b \in Nat PROVE b % Align \in Nat /\ b % Align <= b
    OBVIOUS
  <2>1. b % Align \in 0 .. Align - 1
    BY <1>0
  <2>2. CASE b < Align
    <3>1. b % Align = b
      BY <1>0, <2>2
    <3> QED
      BY <3>1
  <2>3. CASE b >= Align
    BY <1>0, <2>1, <2>3
  <2> QED
    BY <1>0, <2>2, <2>3
<1>2. \A b \in Nat : RoundDown(b) \in Nat
  BY <1>1 DEF RoundDown
<1>3. (a + Align) % Top \in Nat
  BY <1>0, SizesAssumption
<1> QED
  BY <1>2, <1>3 DEF RoundUp, RoundDown

\* So does a request.
LEMMA RequestTypes ==
  ASSUME NEW r \in Request
  PROVE  /\ Rounded(r) \in Request /\ Optimized(r) \in Request
         /\ Rounded(r).addr = RoundDown(r.addr) /\ Rounded(r).size = RoundUp(r.size)
<1>1. r.addr \in Nat /\ r.size \in Nat /\ r.am \in {"A24", "A32", "none"}
  BY DEF Request
<1>2. RoundDown(r.addr) \in Nat /\ RoundUp(r.size) \in Nat
  BY <1>1, RoundTypes
<1>3. r.size + (RoundDown(r.addr) - RoundDown(r.addr)) = r.size
  BY <1>1, <1>2
<1>4. Rounded(r) = [addr |-> RoundDown(r.addr), size |-> RoundUp(r.size), am |-> r.am]
  BY <1>3 DEF Rounded
<1>5. Optimized(r) \in Request
  BY Sizes DEF Optimized, Request
<1> QED
  BY <1>1, <1>2, <1>4, <1>5 DEF Request

\* The local variables of a call that has not begun.
LEMMA NoLocType ==
  NoLoc \in Local /\ NoMapping \in Mapping /\ NoReq \in Request /\ NoId \in Ids
<1>1. NoReq \in Request
  BY DEF NoReq, Request
<1>2. NoId \in Ids
  BY DEF Ids
<1>3. NoVa \in Va
  BY DEF NoVa, Va
<1>4. NoMapping \in Mapping
  BY <1>2, <1>3 DEF NoMapping, Mapping
<1>5. NoLoc \in Local
  BY <1>1, <1>2, <1>4, Sizes DEF NoLoc, Local, PC
<1> QED
  BY <1>1, <1>2, <1>4, <1>5

\* A new mapping gets a name of its own.
LEMMA NewIdType ==
  ASSUME NEW t \in Tasks, FreeSlots(t) # {}
  PROVE  NewId(t) \in {t} \X Slots
<1>1. FreeSlots(t) \in SUBSET Nat /\ FreeSlots(t) \subseteq Slots
  BY Sizes DEF FreeSlots
<1>2. \E k \in FreeSlots(t) : \A j \in FreeSlots(t) : k <= j
  BY <1>1, Least
<1> DEFINE n == CHOOSE k \in FreeSlots(t) : \A j \in FreeSlots(t) : k <= j
<1>3. n \in Slots
  BY <1>1, <1>2
<1>4. NewId(t) = <<t, n>>
  BY DEF NewId
<1> HIDE DEF n
<1> QED
  BY <1>3, <1>4

\* The local variables, one by one.
LEMMA LocalFields ==
  ASSUME NEW l \in Local
  PROVE  /\ l.op \in Ops \cup {"none"} /\ l.win \in Windows /\ l.next \in PC
         /\ l.match \in Request /\ l.wnd \in Request /\ l.m \in Mapping
         /\ l.handle \in Ids /\ l.force \in BOOLEAN /\ l.tail \in Ids /\ l.users \in Int
BY DEF Local

-----------------------------------------------------------------------------
(* One client moves, the others stay where they are.                       *)

\* A step of t, seen by the other clients.
Stay(t) == \A u \in Tasks : u # t => pc'[u] = pc[u] /\ loc'[u] = loc[u]

\* A call begins to wait for a mutex.
LEMMA WaitEffect ==
  ASSUME TypeOK, NEW t \in Tasks, NEW w \in Windows, NEW next \in PC, NEW l \in Local,
         WaitFor(t, w, next, l)
  PROVE  /\ pc' \in [Tasks -> PC] /\ loc' \in [Tasks -> Local] /\ Stay(t)
         /\ pc'[t] = "lock" /\ loc'[t].win = w /\ loc'[t].next = next
         /\ loc'[t].op = l.op /\ loc'[t].match = l.match /\ loc'[t].wnd = l.wnd
         /\ loc'[t].m = l.m /\ loc'[t].force = l.force
<1>1. pc \in [Tasks -> PC] /\ loc \in [Tasks -> Local] /\ "lock" \in PC
  BY DEF TypeOK, PC
<1> DEFINE k == [l EXCEPT !.win = w, !.next = next]
<1>2. pc' = [pc EXCEPT ![t] = "lock"] /\ loc' = [loc EXCEPT ![t] = k]
  BY DEF WaitFor
<1>3. /\ k \in Local /\ k.win = w /\ k.next = next /\ k.op = l.op /\ k.match = l.match
      /\ k.wnd = l.wnd /\ k.m = l.m /\ k.force = l.force
  BY DEF Local
<1> HIDE DEF k
<1> QED
  BY <1>1, <1>2, <1>3 DEF Stay

\* A call ends.
LEMMA FinishEffect ==
  ASSUME TypeOK, NEW t \in Tasks, Finish(t)
  PROVE  /\ pc' \in [Tasks -> PC] /\ loc' \in [Tasks -> Local] /\ Stay(t)
         /\ pc'[t] = "idle" /\ loc'[t] = NoLoc
BY NoLocType DEF TypeOK, PC, Finish, Stay

\* A mutex is dropped.
LEMMA UnlockEffect ==
  ASSUME TypeOK, NEW w \in Windows, Unlock(w)
  PROVE  lock' \in [Windows -> Tasks \cup {Nobody}]
BY DEF TypeOK, Unlock

\* The lists hold what they held, and what t has added.
Grow(t) == \A w \in Windows : \A e \in Entries(maps'[w]) :
             e \in Entries(maps[w]) \/ NewEntry(t, e)

\* The parts of the invariant that are about one client.
OwnOK(t) == NextOK(t) /\ FreeOK(t) /\ MappingOK(t) /\ ForceOK(t)
OwnTableOK(t) == AttachOK(t) /\ LinkOK(t) /\ DestroyOK(t)

\* A list names what its entries name.
LEMMA ListedIs ==
  ASSUME NEW w, NEW id
  PROVE  /\ Listed(w, id) <=> \E e \in Entries(maps[w]) : e.id = id
         /\ Listed(w, id)' <=> \E e \in Entries(maps'[w]) : e.id = id
BY DEF Listed, Entries

\* While others move, a client keeps the room it has for a mapping.
LEMMA RoomStays ==
  ASSUME NEW t \in Tasks, NEW u \in Tasks, u # t, Grow(t), held'[u] = held[u],
         FreeSlots(u) # {}
  PROVE  FreeSlots(u)' # {}
<1>1. PICK k \in Slots : /\ \A h \in held[u] : h.id # <<u, k>>
                         /\ \A w \in Windows : ~Listed(w, <<u, k>>)
  BY DEF FreeSlots
<1>2. ASSUME NEW w \in Windows PROVE ~Listed(w, <<u, k>>)'
  <2> SUFFICES ASSUME NEW e \in Entries(maps'[w]), e.id = <<u, k>> PROVE FALSE
    BY ListedIs
  <2>1. ~NewEntry(t, e)
    BY DEF NewEntry
  <2>2. e \in Entries(maps[w])
    BY <2>1 DEF Grow
  <2> QED
    BY <1>1, <2>2, ListedIs
<1> QED
  BY <1>1, <1>2 DEF FreeSlots

\* Nobody else depends on a table that a client inside a call may change.
LEMMA Alone ==
  ASSUME IInv, Orderly, NEW t \in Tasks, NEW u \in Tasks, u # t, pc[t] # "idle"
  PROVE  ~Forced(u)
<1>1. CASE Serial
  <2>1. pc[u] = "idle"
    BY <1>1 DEF IInv, OneAtATime
  <2> QED
    BY <2>1 DEF Forced, ForFind, Going
<1>2. CASE NoForce
  BY <1>2 DEF IInv, ControlInv, ForceOK
<1> QED
  BY <1>1, <1>2 DEF Orderly

\* Only the client that moves, and the table, have to be looked at.
LEMMA Frame ==
  ASSUME IInv, TypeOK', NEW t \in Tasks, Stay(t), Grow(t),
         \A u \in Tasks : u # t => held'[u] = held[u],
         \/ pc[t] # "idle"
         \/ UNCHANGED table /\ (Serial => \A u \in Tasks : pc[u] = "idle"),
         OptionsInv', WindowConsistent', OwnOK(t)',
         Orderly => UsersCountMappings' /\ OwnTableOK(t)',
         Orderly /\ ~Signals /\ t \in Users => CloseOK(t)'
  PROVE  IInv'
<1>1. ASSUME NEW u \in Tasks, u # t PROVE OwnOK(u)'
  <2>1. pc'[u] = pc[u] /\ loc'[u] = loc[u] /\ held'[u] = held[u]
    BY <1>1 DEF Stay
  <2>2. NextOK(u) /\ FreeOK(u) /\ MappingOK(u) /\ ForceOK(u)
    BY DEF IInv, ControlInv
  <2>3. FreeOK(u)'
    BY <1>1, <2>1, <2>2, RoomStays DEF FreeOK, Finding, ForFind, Going
  <2>4. NextOK(u)' /\ MappingOK(u)' /\ ForceOK(u)'
    BY <2>1, <2>2 DEF NextOK, Finding, ForFind, Going, MappingOK, NewEntry, ForceOK, Forced
  <2> QED
    BY <2>3, <2>4 DEF OwnOK
<1>2. ControlInv'
  BY <1>1 DEF ControlInv, OwnOK
<1>3. OneAtATime'
  <2> SUFFICES ASSUME Serial, NEW u \in Tasks, NEW v \in Tasks,
                      pc'[u] # "idle", pc'[v] # "idle"
               PROVE  u = v
    BY DEF OneAtATime
  <2>1. \A x \in Tasks : x # t => pc[x] = "idle"
    BY DEF IInv, OneAtATime
  <2> QED
    BY <2>1 DEF Stay
<1>4. ASSUME Orderly, NEW u \in Tasks, u # t PROVE OwnTableOK(u)'
  <2>1. pc'[u] = pc[u] /\ loc'[u] = loc[u]
    BY <1>4 DEF Stay
  <2>2. CASE ~Forced(u)
    BY <2>1, <2>2 DEF OwnTableOK, AttachOK, LinkOK, DestroyOK, Forced, Going
  <2>3. CASE UNCHANGED table
    <3>1. AttachOK(u) /\ LinkOK(u) /\ DestroyOK(u)
      BY <1>4 DEF IInv, TableInv
    <3> QED
      BY <2>1, <2>3, <3>1 DEF OwnTableOK, AttachOK, LinkOK, DestroyOK, Going, table
  <2> QED
    BY <1>4, <2>2, <2>3, Alone
<1>5. Orderly => TableInv'
  BY <1>4 DEF TableInv, OwnTableOK
<1>6. ASSUME Orderly, ~Signals, NEW u \in Users, u # t PROVE CloseOK(u)'
  <2>1. u \in Tasks /\ pc'[u] = pc[u] /\ loc'[u] = loc[u]
    BY <1>6, Sizes DEF Stay
  <2>2. CloseOK(u)
    BY <1>6 DEF IInv
  <2>3. \A e : NewEntry(t, e) => e.file # u
    BY <1>6, <2>1, Sizes DEF NewEntry, FileOf
  <2> QED
    BY <2>1, <2>2, <2>3 DEF CloseOK, Going, Grow
<1> QED
  BY <1>2, <1>3, <1>5, <1>6 DEF IInv

\* A step that leaves the table alone.
LEMMA TableFrame ==
  ASSUME IInv, TypeOK', NEW t \in Tasks, Stay(t), UNCHANGED table,
         \A u \in Tasks : u # t => held'[u] = held[u],
         pc[t] # "idle" \/ (Serial => \A u \in Tasks : pc[u] = "idle"),
         OptionsInv', OwnOK(t)',
         Orderly => OwnTableOK(t)',
         Orderly /\ ~Signals /\ t \in Users => CloseOK(t)'
  PROVE  IInv'
<1>1. Grow(t)
  BY DEF Grow, table
<1>2. WindowConsistent'
  BY DEF IInv, WindowConsistent, table
<1>3. Orderly => UsersCountMappings'
  BY DEF IInv, TableInv, UsersCountMappings, table
<1> QED
  BY <1>1, <1>2, <1>3, Frame

\* The end of a call asks nothing.
LEMMA EndsWell ==
  ASSUME NEW t \in Tasks, pc'[t] = "idle", loc'[t] = NoLoc
  PROVE  OwnOK(t)' /\ OwnTableOK(t)' /\ CloseOK(t)'
<1>1. Going(t)' = "idle" /\ ~loc'[t].force
  BY DEF Going, NoLoc
<1> QED
  BY <1>1 DEF OwnOK, NextOK, FreeOK, Finding, ForFind, MappingOK, ForceOK, Forced,
     OwnTableOK, AttachOK, LinkOK, DestroyOK, CloseOK

-----------------------------------------------------------------------------
(* Calls begin.                                                            *)

\* What the beginning of a call has to see to.
LEMMA BeginKeeps ==
  ASSUME IInv, NEW t \in Tasks, pc[t] = "idle", Serial => \A u \in Tasks : pc[u] = "idle",
         NEW w \in Windows,
         NEW next \in Locked,
         NEW l \in Local, WaitFor(t, w, next, l), UNCHANGED <<lock, table, options, held>>,
         next = "create" => l.op # "find", next = "destroy" => l.op = "destroy",
         next = "find" => FreeSlots(t) # {} /\ l.match \in Requests[t],
         next = "close" => w = 0, NoForce => ~l.force
  PROVE  IInv'
<1>0. TypeOK /\ next \in PC
  BY DEF IInv, PC, Locked
<1>1. /\ pc' \in [Tasks -> PC] /\ loc' \in [Tasks -> Local] /\ Stay(t)
      /\ pc'[t] = "lock" /\ loc'[t].win = w /\ loc'[t].next = next
      /\ loc'[t].op = l.op /\ loc'[t].match = l.match /\ loc'[t].force = l.force
  BY <1>0, WaitEffect
<1>2. Going(t)' = next
  BY <1>1 DEF Going
<1>3. TypeOK'
  BY <1>0, <1>1 DEF TypeOK, table, options
<1>4. FreeSlots(t)' = FreeSlots(t)
  BY DEF FreeSlots, Listed, table
<1>5. OwnOK(t)' /\ OwnTableOK(t)'
  BY <1>1, <1>2, <1>4 DEF Locked, OwnOK, NextOK, FreeOK, Finding, ForFind,
     MappingOK, ForceOK, Forced, OwnTableOK, AttachOK, LinkOK, DestroyOK
<1>6. CloseOK(t)'
  <2>1. \A v \in Windows : ~(v < 0)
    BY Sizes
  <2> QED
    BY <1>1, <1>2, <2>1 DEF CloseOK, Locked
<1>7. OptionsInv'
  BY DEF IInv, OptionsInv, options
<1> QED
  BY <1>1, <1>3, <1>5, <1>6, <1>7, TableFrame DEF table

\* Every call begins well.
LEMMA CallKeeps ==
  ASSUME IInv, NEW t \in Tasks, Call(t)
  PROVE  IInv'
<1>t. TypeOK
  BY DEF IInv
<1>n. /\ NoLoc \in Local /\ NoLoc.op = "none" /\ NoLoc.force = FALSE
      /\ NoLoc.m = NoMapping /\ NoMapping \in Mapping
  BY NoLocType DEF NoLoc
<1>r. \A r \in Requests[t] : r \in Request
  BY RequestsAssumption DEF Request
<1>h. \A h \in held[t] : h \in HandleType
  BY <1>t DEF TypeOK
<1>s. Serial => \A u \in Tasks : pc[u] = "idle"
  BY DEF Call
<1>f. FileOf(t) \in Users \cup {Nobody}
  BY DEF FileOf
<1>1. CASE CallCreate(t)
  <2>1. PICK w \in Windows, r \in Requests[t] :
          WaitFor(t, w, "create", [NoLoc EXCEPT !.op = "create", !.wnd = Rounded(r)])
    BY <1>1 DEF CallCreate
  <2> DEFINE l == [NoLoc EXCEPT !.op = "create", !.wnd = Rounded(r)]
  <2>2. "create" \in Ops /\ pc[t] = "idle" /\ UNCHANGED <<lock, table, options, held>>
    BY <1>1 DEF CallCreate
  <2>3. Rounded(r) \in Request
    BY <1>r, RequestTypes
  <2>4. l \in Local /\ l.op = "create" /\ l.force = FALSE
    BY <1>n, <2>2, <2>3 DEF Local
  <2> HIDE DEF l
  <2>5. WaitFor(t, w, "create", l)
    BY <2>1 DEF l
  <2> QED
    BY <1>s, <2>2, <2>4, <2>5, BeginKeeps DEF Locked
<1>2. CASE CallDestroy(t)
  <2>1. PICK w \in Windows : WaitFor(t, w, "destroy", [NoLoc EXCEPT !.op = "destroy"])
    BY <1>2 DEF CallDestroy
  <2> DEFINE l == [NoLoc EXCEPT !.op = "destroy"]
  <2>2. "destroy" \in Ops /\ pc[t] = "idle" /\ UNCHANGED <<lock, table, options, held>>
    BY <1>2 DEF CallDestroy
  <2>4. l \in Local /\ l.op = "destroy" /\ l.force = FALSE
    BY <1>n, <2>2 DEF Local
  <2> HIDE DEF l
  <2>5. WaitFor(t, w, "destroy", l)
    BY <2>1 DEF l
  <2> QED
    BY <1>s, <2>2, <2>4, <2>5, BeginKeeps DEF Locked
<1>3. CASE CallFind(t)
  <2>1. PICK r \in Requests[t], force \in IF t \in Users THEN {createOnFind} ELSE BOOLEAN :
          WaitFor(t, 0, "find",
                  [NoLoc EXCEPT !.op = "find", !.match = r, !.force = force])
    BY <1>3 DEF CallFind
  <2> DEFINE l == [NoLoc EXCEPT !.op = "find", !.match = r, !.force = force]
  <2>2. /\ "find" \in Ops /\ pc[t] = "idle" /\ UNCHANGED <<lock, table, options, held>>
        /\ FreeSlots(t) # {}
    BY <1>3 DEF CallFind
  <2>3. force \in BOOLEAN /\ (NoForce => ~force)
    BY <1>t DEF TypeOK, NoForce, Tasks, IInv, OptionsInv
  <2>4. l \in Local /\ l.op = "find" /\ l.force = force /\ l.match = r
    BY <1>n, <1>r, <2>2, <2>3 DEF Local
  <2> HIDE DEF l
  <2>5. WaitFor(t, 0, "find", l)
    BY <2>1 DEF l
  <2> QED
    BY <1>s, <2>2, <2>3, <2>4, <2>5, BeginKeeps, Sizes DEF Locked
<1>4. CASE CallRelease(t)
  <2> DEFINE m(h) == [id |-> h.id, addr |-> h.addr, size |-> h.size,
                      va |-> h.va, file |-> FileOf(t)]
  <2>1. PICK h \in held[t], force \in IF t \in Users THEN {destroyOnRemove} ELSE BOOLEAN :
          WaitFor(t, h.win, "release",
                  [NoLoc EXCEPT !.op = "release", !.handle = h.id, !.force = force,
                                !.m = m(h)])
    BY <1>4 DEF CallRelease
  <2> DEFINE l == [NoLoc EXCEPT !.op = "release", !.handle = h.id, !.force = force,
                                !.m = m(h)]
  <2>2. "release" \in Ops /\ pc[t] = "idle" /\ UNCHANGED <<lock, table, options, held>>
    BY <1>4 DEF CallRelease
  <2>3. force \in BOOLEAN /\ (NoForce => ~force)
    BY <1>t DEF TypeOK, NoForce, Tasks, IInv, OptionsInv
  <2>4. m(h) \in Mapping /\ h.win \in Windows /\ h.id \in Ids
    BY <1>h, <1>f DEF HandleType, Mapping
  <2> HIDE DEF m
  <2>5. l \in Local /\ l.op = "release" /\ l.force = force
    BY <1>n, <2>2, <2>3, <2>4 DEF Local
  <2> HIDE DEF l
  <2>6. WaitFor(t, h.win, "release", l)
    BY <2>1 DEF l
  <2> QED
    BY <1>s, <2>2, <2>3, <2>4, <2>5, <2>6, BeginKeeps DEF Locked
<1>5. CASE CallReturn(t)
  <2>1. PICK h \in held[t] :
          WaitFor(t, 0, "lookup",
                  [NoLoc EXCEPT !.op = "return", !.handle = h.id, !.force = TRUE,
                                !.m = [NoMapping EXCEPT !.va = h.va]])
    BY <1>5 DEF CallReturn
  <2> DEFINE m == [NoMapping EXCEPT !.va = h.va]
             l == [NoLoc EXCEPT !.op = "return", !.handle = h.id, !.force = TRUE, !.m = m]
  <2>2. /\ "return" \in Ops /\ pc[t] = "idle" /\ UNCHANGED <<lock, table, options, held>>
        /\ t \in Kernel
    BY <1>5 DEF CallReturn
  <2>3. m \in Mapping /\ h.id \in Ids
    BY <1>n, <1>h DEF HandleType, Mapping
  <2> HIDE DEF m
  <2>4. l \in Local /\ l.op = "return"
    BY <1>n, <2>2, <2>3 DEF Local
  <2> HIDE DEF l
  <2>5. WaitFor(t, 0, "lookup", l) /\ ~NoForce
    BY <2>1, <2>2 DEF l, m, NoForce
  <2> QED
    BY <1>s, <2>2, <2>4, <2>5, BeginKeeps, Sizes DEF Locked
<1>6. CASE CallClose(t)
  <2> DEFINE l == [NoLoc EXCEPT !.op = "close"]
  <2>2. /\ "close" \in Ops /\ pc[t] = "idle" /\ UNCHANGED <<lock, table, options, held>>
        /\ WaitFor(t, 0, "close", l)
    BY <1>6 DEF CallClose
  <2>4. l \in Local /\ l.op = "close" /\ l.force = FALSE
    BY <1>n, <2>2 DEF Local
  <2> HIDE DEF l
  <2> QED
    BY <1>s, <2>2, <2>4, BeginKeeps, Sizes DEF Locked
<1>7. CASE SetOptions(t)
  <2>1. /\ pc[t] = "idle" /\ UNCHANGED <<lock, table, pc, loc, held>> /\ "options" \in Ops
        /\ createOnFind' \in BOOLEAN /\ destroyOnRemove' \in BOOLEAN
    BY <1>7, <1>t DEF SetOptions, TypeOK
  <2>2. TypeOK'
    BY <1>t, <2>1 DEF TypeOK, table
  <2>3. OptionsInv' /\ Stay(t)
    BY <2>1 DEF OptionsInv, NoForce, Stay
  <2>4. OwnOK(t)'
    BY <2>1 DEF IInv, ControlInv, OwnOK, NextOK, FreeOK, FreeSlots, Listed, Finding, ForFind,
       Going, MappingOK, NewEntry, ForceOK, Forced, table
  <2>5. OwnTableOK(t)' /\ CloseOK(t)'
    BY <2>1 DEF OwnTableOK, AttachOK, LinkOK, DestroyOK, CloseOK, Going
  <2> QED
    BY <1>s, <2>1, <2>2, <2>3, <2>4, <2>5, TableFrame DEF table
<1> QED
  BY <1>1, <1>2, <1>3, <1>4, <1>5, <1>6, <1>7 DEF Call

-----------------------------------------------------------------------------
(* Steps that leave the table alone.                                       *)

\* A call is over.
LEMMA EndKeeps ==
  ASSUME IInv, NEW t \in Tasks, pc[t] # "idle", Finish(t), UNCHANGED <<table, options>>,
         lock' \in [Windows -> Tasks \cup {Nobody}],
         held' \in [Tasks -> SUBSET HandleType],
         \A u \in Tasks : u # t => held'[u] = held[u]
  PROVE  IInv'
<1>0. TypeOK
  BY DEF IInv
<1>1. /\ pc' \in [Tasks -> PC] /\ loc' \in [Tasks -> Local] /\ Stay(t)
      /\ pc'[t] = "idle" /\ loc'[t] = NoLoc
  BY <1>0, FinishEffect
<1>2. TypeOK'
  BY <1>0, <1>1 DEF TypeOK, table, options
<1>3. OptionsInv'
  BY DEF IInv, OptionsInv, options
<1> QED
  BY <1>1, <1>2, <1>3, EndsWell, TableFrame

\* Handles are given up.
LEMMA GiveUpEffect ==
  ASSUME TypeOK, NEW t \in Tasks, GiveUp(t)
  PROVE  /\ held' \in [Tasks -> SUBSET HandleType]
         /\ \A u \in Tasks : u # t => held'[u] = held[u]
BY DEF TypeOK, GiveUp

\* Calls that end without having changed anything.
LEMMA RefusalsKeep ==
  ASSUME IInv, NEW t \in Tasks,
         CreateRefused(t) \/ FindNoMemory(t) \/ ReleaseFails(t) \/ Reopen(t)
  PROVE  IInv'
<1>0. TypeOK /\ loc[t].win \in Windows
  BY LocalFields DEF IInv, TypeOK
<1>1. CASE CreateRefused(t) \/ FindNoMemory(t)
  <2>1. /\ pc[t] # "idle" /\ Finish(t) /\ UNCHANGED <<table, options, held>>
        /\ Unlock(loc[t].win)
    BY <1>1 DEF CreateRefused, FindNoMemory
  <2> QED
    BY <1>0, <2>1, UnlockEffect, EndKeeps DEF TypeOK
<1>2. CASE ReleaseFails(t)
  <2>1. /\ pc[t] # "idle" /\ Finish(t) /\ UNCHANGED <<table, options>>
        /\ Unlock(loc[t].win) /\ GiveUp(t)
    BY <1>2 DEF ReleaseFails
  <2> QED
    BY <1>0, <2>1, UnlockEffect, GiveUpEffect, EndKeeps
<1>3. CASE Reopen(t)
  <2>1. /\ pc[t] # "idle" /\ Finish(t) /\ UNCHANGED <<lock, table, options>>
        /\ held' = [held EXCEPT ![t] = {}]
    BY <1>3 DEF Reopen
  <2>2. /\ lock' \in [Windows -> Tasks \cup {Nobody}]
        /\ held' \in [Tasks -> SUBSET HandleType]
        /\ \A u \in Tasks : u # t => held'[u] = held[u]
    BY <1>0, <2>1 DEF TypeOK
  <2> QED
    BY <2>1, <2>2, EndKeeps
<1> QED
  BY <1>1, <1>2, <1>3

\* The mutex is there, or a signal ends the wait for it.
LEMMA LockKeeps ==
  ASSUME IInv, NEW t \in Tasks, Lock(t) \/ Interrupted(t)
  PROVE  IInv'
<1>0. /\ TypeOK /\ loc[t].win \in Windows /\ loc[t].next \in PC /\ loc[t] \in Local
      /\ pc \in [Tasks -> PC] /\ loc \in [Tasks -> Local]
      /\ lock \in [Windows -> Tasks \cup {Nobody}]
  BY LocalFields DEF IInv, TypeOK
<1>1. CASE Lock(t)
  <2>1. /\ pc[t] = "lock" /\ pc' = [pc EXCEPT ![t] = loc[t].next]
        /\ lock' = [lock EXCEPT ![loc[t].win] = t]
        /\ UNCHANGED <<table, options, loc, held>>
    BY <1>1 DEF Lock
  <2>2. pc'[t] = loc[t].next /\ Stay(t) /\ pc' \in [Tasks -> PC]
        /\ lock' \in [Windows -> Tasks \cup {Nobody}]
    BY <1>0, <2>1 DEF Stay
  <2>3. TypeOK'
    BY <1>0, <2>1, <2>2 DEF TypeOK, table, options
  <2>4. loc[t].next \in Locked
    BY <2>1 DEF IInv, ControlInv, NextOK
  <2>5. Going(t)' = Going(t) /\ FreeSlots(t)' = FreeSlots(t)
    BY <2>1, <2>2, <2>4 DEF Going, FreeSlots, Listed, table, Locked
  <2>6. NextOK(t) /\ FreeOK(t) /\ MappingOK(t) /\ ForceOK(t)
    BY DEF IInv, ControlInv
  <2>7. OwnOK(t)'
    BY <2>1, <2>2, <2>4, <2>5, <2>6 DEF Locked, OwnOK, NextOK, FreeOK, Finding,
       ForFind, MappingOK, ForceOK, Forced
  <2>8. Orderly => OwnTableOK(t)'
    BY <2>1, <2>2, <2>4, <2>5 DEF Locked, IInv, TableInv, OwnTableOK, AttachOK, LinkOK,
       DestroyOK, table
  <2>9. Orderly /\ ~Signals /\ t \in Users => CloseOK(t)'
    BY <2>1, <2>5 DEF IInv, CloseOK, table
  <2>10. OptionsInv'
    BY <2>1 DEF IInv, OptionsInv, options
  <2> QED
    BY <2>1, <2>2, <2>3, <2>7, <2>8, <2>9, <2>10, TableFrame DEF table
<1>2. CASE Interrupted(t)
  <2>1. /\ pc[t] = "lock" /\ Signals /\ UNCHANGED <<lock, table, options, held>>
        /\ IF loc[t].op = "close"
             THEN pc' = [pc EXCEPT ![t] = "closed"] /\ UNCHANGED loc
             ELSE Finish(t)
    BY <1>2 DEF Interrupted
  <2>2. CASE loc[t].op # "close"
    BY <1>0, <2>1, <2>2, EndKeeps DEF TypeOK
  <2>3. CASE loc[t].op = "close"
    <3>1. /\ pc'[t] = "closed" /\ Stay(t) /\ pc' \in [Tasks -> PC] /\ loc' = loc
          /\ Going(t)' = "closed"
      BY <1>0, <2>1, <2>3 DEF Stay, PC, Going
    <3>2. TypeOK'
      BY <1>0, <2>1, <3>1 DEF TypeOK, table, options
    <3>3. ForceOK(t)
      BY DEF IInv, ControlInv
    <3>4. OwnOK(t)' /\ OwnTableOK(t)'
      BY <3>1, <3>3 DEF OwnOK, NextOK, FreeOK, Finding, ForFind, MappingOK, ForceOK,
         Forced, OwnTableOK, AttachOK, LinkOK, DestroyOK
    <3>5. OptionsInv'
      BY <2>1 DEF IInv, OptionsInv, options
    <3> QED
      BY <2>1, <3>1, <3>2, <3>4, <3>5, TableFrame DEF table
  <2> QED
    BY <2>2, <2>3
<1> QED
  BY <1>1, <1>2

\* The search goes on with the next window, or ends.
LEMMA FindNextKeeps ==
  ASSUME IInv, NEW t \in Tasks, FindNext(t)
  PROVE  IInv'
<1> DEFINE w == loc[t].win
<1>0. /\ TypeOK /\ w \in Windows /\ loc[t] \in Local
      /\ pc \in [Tasks -> PC] /\ loc \in [Tasks -> Local]
  BY LocalFields DEF IInv, TypeOK
<1>1. /\ pc[t] = "find" /\ Unlock(w) /\ UNCHANGED <<table, options, held>>
      /\ IF w + 1 \in Windows
           THEN WaitFor(t, w + 1, "find", loc[t])
           ELSE pc' = [pc EXCEPT ![t] = "miss"] /\ UNCHANGED loc
  BY DEF FindNext
<1>2. /\ pc' \in [Tasks -> PC] /\ loc' \in [Tasks -> Local] /\ Stay(t)
      /\ Going(t)' \in {"find", "miss"} /\ loc'[t].match = loc[t].match
      /\ loc'[t].force = loc[t].force /\ NextOK(t)' /\ pc'[t] \in {"lock", "miss"}
  <2>1. CASE w + 1 \in Windows
    <3>1. "find" \in PC
      BY DEF PC
    <3>2. WaitFor(t, w + 1, "find", loc[t])
      BY <1>1, <2>1
    <3> QED
      BY <1>0, <2>1, <3>1, <3>2, WaitEffect DEF Going, NextOK, Locked
  <2>2. CASE w + 1 \notin Windows
    BY <1>0, <1>1, <2>2 DEF PC, Stay, Going, NextOK
  <2> QED
    BY <2>1, <2>2
<1>3. TypeOK'
  BY <1>0, <1>1, <1>2, UnlockEffect DEF TypeOK, table, options
<1>4. FreeSlots(t)' = FreeSlots(t)
  BY <1>1 DEF FreeSlots, Listed, table
<1>5. FreeOK(t) /\ ForceOK(t) /\ Finding(t)
  BY <1>1 DEF IInv, ControlInv, Finding, Going
<1>6. OwnOK(t)' /\ OwnTableOK(t)' /\ CloseOK(t)'
  BY <1>2, <1>4, <1>5 DEF OwnOK, FreeOK, Finding, ForFind, MappingOK, ForceOK,
     Forced, OwnTableOK, AttachOK, LinkOK, DestroyOK, CloseOK
<1>7. OptionsInv'
  BY <1>1 DEF IInv, OptionsInv, options
<1> QED
  BY <1>1, <1>2, <1>3, <1>6, <1>7, TableFrame DEF table

\* No window matches: one is to be created, or the call fails.
LEMMA FindMissKeeps ==
  ASSUME IInv, NEW t \in Tasks, FindMiss(t)
  PROVE  IInv'
<1> DEFINE unused == {w \in Windows : ~win[w].active}
           l == [loc[t] EXCEPT !.wnd = Rounded(Optimized(loc[t].match))]
           c == CHOOSE w \in unused : \A v \in unused : w <= v
           go == loc[t].force /\ unused # {} /\ Optimized(loc[t].match).size # 0
<1>0. TypeOK /\ loc[t] \in Local /\ loc[t].match \in Request
  BY LocalFields DEF IInv, TypeOK
<1>1. /\ pc[t] = "miss" /\ UNCHANGED <<lock, table, options, held>>
      /\ IF go THEN WaitFor(t, c, "create", l) ELSE Finish(t)
  BY DEF FindMiss
<1>2. CASE ~go
  BY <1>0, <1>1, <1>2, EndKeeps DEF TypeOK
<1>3. CASE go
  <2>1. c \in Windows
    <3>1. unused \in SUBSET Nat /\ unused # {} /\ unused \subseteq Windows
      BY <1>3, Sizes
    <3>2. \E w \in unused : \A v \in unused : w <= v
      <4> HIDE DEF unused
      <4> QED
        BY <3>1, Least
    <3> HIDE DEF unused
    <3> QED
      BY <3>1, <3>2
  <2>2. loc[t].force /\ WaitFor(t, c, "create", l)
    BY <1>1, <1>3
  <2>3. Rounded(Optimized(loc[t].match)) \in Request
    BY <1>0, RequestTypes
  <2>4. /\ l \in Local /\ l.wnd = Rounded(Optimized(loc[t].match)) /\ l.op = loc[t].op
        /\ l.match = loc[t].match /\ l.force = loc[t].force
    BY <1>0, <2>3 DEF Local
  <2>5. PICK a \in Windows, k \in Local :
          /\ WaitFor(t, a, "create", k) /\ k.wnd = l.wnd /\ k.op = l.op
          /\ k.match = l.match /\ k.force = l.force
    BY <2>1, <2>2, <2>4
  <2> HIDE DEF l, c, go, unused
  <2>a. "create" \in PC
    BY DEF PC
  <2>6. /\ pc' \in [Tasks -> PC] /\ loc' \in [Tasks -> Local] /\ Stay(t)
        /\ pc'[t] = "lock" /\ loc'[t].next = "create"
        /\ loc'[t].op = l.op /\ loc'[t].match = l.match /\ loc'[t].wnd = l.wnd
        /\ loc'[t].force = l.force
    BY <1>0, <2>5, <2>a, WaitEffect
  <2>7. TypeOK'
    BY <1>0, <1>1, <2>6 DEF TypeOK, table, options
  <2>8. Going(t)' = "create" /\ FreeSlots(t)' = FreeSlots(t)
    BY <1>1, <2>6 DEF Going, FreeSlots, Listed, table
  <2>9. FreeOK(t) /\ ForceOK(t) /\ Finding(t)
    BY <1>1 DEF IInv, ControlInv, Finding, Going
  <2>10. OwnOK(t)'
    BY <2>2, <2>4, <2>6, <2>8, <2>9 DEF OwnOK, NextOK, Locked, FreeOK, Finding,
       ForFind, MappingOK, ForceOK, Forced
  <2>11. OwnTableOK(t)' /\ CloseOK(t)'
    BY <2>6, <2>8 DEF OwnTableOK, AttachOK, LinkOK, DestroyOK, CloseOK
  <2>12. OptionsInv'
    BY <1>1 DEF IInv, OptionsInv, options
  <2> QED
    BY <1>1, <2>6, <2>7, <2>10, <2>11, <2>12, TableFrame DEF table
<1> QED
  BY <1>2, <1>3

\* The mapping that t is about to add.
LEMMA NewMappingType ==
  ASSUME IInv, NEW t \in Tasks, NEW w \in Windows, Finding(t)
  PROVE  /\ NewMapping(t, w) \in Mapping /\ NewEntry(t, NewMapping(t, w))
         /\ NewMapping(t, w).addr = loc[t].match.addr
         /\ NewMapping(t, w).size = loc[t].match.size
         /\ NewMapping(t, w).va = [base |-> win[w].va,
                                   off |-> loc[t].match.addr - win[w].addr]
<1>1. /\ loc[t].match \in Request /\ win[w] \in Window
  BY LocalFields DEF IInv, TypeOK
<1>2. NewId(t) \in {t} \X Slots
  BY NewIdType DEF IInv, ControlInv, FreeOK
<1>3. NewId(t) \in Ids
  BY <1>2 DEF Ids
<1> DEFINE va == [base |-> win[w].va, off |-> loc[t].match.addr - win[w].addr]
<1>4. va \in Va
  <2>1. /\ loc[t].match.addr \in Nat /\ win[w].addr \in Nat
        /\ win[w].va \in Windows \cup {NULL}
    BY <1>1 DEF Request, Window
  <2>2. loc[t].match.addr - win[w].addr \in Int
    BY <2>1
  <2> QED
    BY <2>1, <2>2 DEF Va
<1>5. FileOf(t) \in Users \cup {Nobody}
  BY DEF FileOf
<1>6. NewMapping(t, w) = [id |-> NewId(t), addr |-> loc[t].match.addr,
                          size |-> loc[t].match.size, va |-> va, file |-> FileOf(t)]
  BY DEF NewMapping
<1> HIDE DEF va
<1>7. /\ NewMapping(t, w).addr = loc[t].match.addr /\ NewMapping(t, w).size = loc[t].match.size
      /\ NewMapping(t, w).va = va /\ NewMapping(t, w).id = NewId(t)
      /\ NewMapping(t, w).file = FileOf(t)
  BY <1>6
<1>8. NewMapping(t, w) \in Mapping
  BY <1>1, <1>3, <1>4, <1>5, <1>6 DEF Mapping, Request
<1> QED
  BY <1>2, <1>7, <1>8 DEF NewEntry, va

\* add_mapping() has read what it will write.
LEMMA AttachKeeps ==
  ASSUME IInv, NEW t \in Tasks, Attach(t)
  PROVE  IInv'
<1> DEFINE w == loc[t].win
           m == NewMapping(t, w)
           tail == IF maps[w] = <<>> THEN NoId ELSE maps[w][Len(maps[w])].id
<1>0. /\ TypeOK /\ w \in Windows /\ loc[t] \in Local
      /\ pc \in [Tasks -> PC] /\ loc \in [Tasks -> Local]
      /\ users[w] \in Int /\ maps[w] \in Seq(Mapping)
  BY LocalFields DEF IInv, TypeOK
<1>1. /\ pc[t] = "attach" /\ UNCHANGED <<lock, table, options, held>>
      /\ \/ /\ loc' = [loc EXCEPT ![t].m = m, ![t].tail = tail, ![t].users = users[w]]
            /\ pc' = [pc EXCEPT ![t] = "link"]
         \/ Finish(t)
  BY DEF Attach
<1>2. Finding(t)
  BY <1>1 DEF Finding, Going
<1>3. m \in Mapping /\ NewEntry(t, m)
  BY <1>0, <1>2, NewMappingType
<1>4. tail \in Ids
  <2>1. CASE maps[w] # <<>>
    <3>1. maps[w][Len(maps[w])] \in Mapping
      BY <1>0, <2>1
    <3> QED
      BY <2>1, <3>1 DEF Mapping
  <2> QED
    BY <2>1, NoLocType
<1>5. CASE Finish(t)
  BY <1>0, <1>1, <1>5, EndKeeps DEF TypeOK
<1>6. CASE /\ loc' = [loc EXCEPT ![t].m = m, ![t].tail = tail, ![t].users = users[w]]
           /\ pc' = [pc EXCEPT ![t] = "link"]
  <2> DEFINE n == users[w]
  <2>0. n \in Int
    BY <1>0
  <2>1. loc' = [loc EXCEPT ![t].m = m, ![t].tail = tail, ![t].users = n]
    BY <1>6
  <2> HIDE DEF m, tail, n
  <2>2. /\ loc' \in [Tasks -> Local] /\ loc'[t].m = m /\ loc'[t].tail = tail
        /\ loc'[t].users = n /\ loc'[t].win = loc[t].win /\ loc'[t].force = loc[t].force
        /\ \A u \in Tasks : u # t => loc'[u] = loc[u]
    BY <1>0, <1>3, <1>4, <2>0, <2>1 DEF Local
  <2>3. pc' \in [Tasks -> PC] /\ pc'[t] = "link" /\ \A u \in Tasks : u # t => pc'[u] = pc[u]
    BY <1>0, <1>6 DEF PC
  <2>4. Stay(t) /\ Going(t)' = "link"
    BY <2>2, <2>3 DEF Stay, Going
  <2>5. TypeOK'
    BY <1>0, <1>1, <2>2, <2>3 DEF TypeOK, table, options
  <2>6. ForceOK(t) /\ loc[t].force
    BY <1>1 DEF IInv, ControlInv, ForceOK, Forced, Going
  <2>7. OwnOK(t)'
    BY <1>3, <2>2, <2>3, <2>4, <2>6 DEF OwnOK, NextOK, FreeOK, Finding, ForFind,
       MappingOK, NewEntry, ForceOK, Forced
  <2>8. ASSUME Orderly PROVE OwnTableOK(t)'
    <3>1. /\ maps[w] = <<>> /\ win[w].active
          /\ users[w] = Len(maps[w])
      BY <1>0, <1>1, <2>8 DEF IInv, TableInv, AttachOK, UsersCountMappings
    <3>2. tail = NoId /\ n = 0
      BY <3>1 DEF tail, n
    <3>4. maps' = maps /\ win' = win
      BY <1>1 DEF table
    <3>5. AttachOK(t)' /\ DestroyOK(t)'
      BY <2>3, <2>4 DEF AttachOK, DestroyOK
    <3>6. LinkOK(t)'
      BY <2>2, <3>1, <3>2, <3>4 DEF LinkOK
    <3> QED
      BY <3>5, <3>6 DEF OwnTableOK
  <2>9. CloseOK(t)' /\ OptionsInv'
    BY <1>1, <2>4 DEF CloseOK, IInv, OptionsInv, options
  <2> QED
    BY <1>1, <2>4, <2>5, <2>7, <2>8, <2>9, TableFrame DEF table
<1> QED
  BY <1>1, <1>5, <1>6

\* find_vme_mapping_from_addr() goes through the windows.
LEMMA LookupKeeps ==
  ASSUME IInv, NEW t \in Tasks, Lookup(t)
  PROVE  IInv'
<1> DEFINE w == loc[t].win
           at == AtAddress(w, loc[t].m.va)
           e == maps[w][CHOOSE i \in at : \A j \in at : i <= j]
<1>0. /\ TypeOK /\ w \in Windows /\ loc[t] \in Local /\ maps[w] \in Seq(Mapping)
  BY LocalFields DEF IInv, TypeOK
<1>1. /\ pc[t] = "lookup" /\ Unlock(w) /\ UNCHANGED <<table, options>>
      /\ \/ at # {} /\ UNCHANGED held
            /\ WaitFor(t, w, "release", [loc[t] EXCEPT !.m = [e EXCEPT !.file = Nobody]])
         \/ w + 1 \in Windows /\ UNCHANGED held /\ WaitFor(t, w + 1, "lookup", loc[t])
         \/ Finish(t) /\ GiveUp(t)
  BY DEF Lookup
<1>2. CASE Finish(t) /\ GiveUp(t)
  BY <1>0, <1>1, <1>2, UnlockEffect, GiveUpEffect, EndKeeps
<1>3. ASSUME NEW a \in Windows, NEW next \in {"release", "lookup"}, NEW l \in Local,
             WaitFor(t, a, next, l), l.force = loc[t].force, UNCHANGED held
      PROVE  IInv'
  <2>1. next \in PC
    BY DEF PC
  <2>2. /\ pc' \in [Tasks -> PC] /\ loc' \in [Tasks -> Local] /\ Stay(t)
        /\ pc'[t] = "lock" /\ loc'[t].next = next /\ loc'[t].force = loc[t].force
    BY <1>0, <1>3, <2>1, WaitEffect
  <2>3. TypeOK'
    BY <1>0, <1>1, <1>3, <2>2, UnlockEffect DEF TypeOK, table, options
  <2>4. Going(t)' = next
    BY <2>2 DEF Going
  <2>5. ForceOK(t)
    BY DEF IInv, ControlInv
  <2>6. OwnOK(t)' /\ OwnTableOK(t)' /\ CloseOK(t)'
    BY <2>2, <2>4, <2>5 DEF OwnOK, NextOK, Locked, FreeOK, Finding, ForFind,
       MappingOK, ForceOK, Forced, OwnTableOK, AttachOK, LinkOK, DestroyOK, CloseOK
  <2>7. OptionsInv'
    BY <1>1 DEF IInv, OptionsInv, options
  <2> QED
    BY <1>1, <1>3, <2>2, <2>3, <2>6, <2>7, TableFrame DEF table
<1>4. CASE w + 1 \in Windows /\ UNCHANGED held /\ WaitFor(t, w + 1, "lookup", loc[t])
  BY <1>0, <1>3, <1>4
<1>5. CASE /\ at # {} /\ UNCHANGED held
           /\ WaitFor(t, w, "release", [loc[t] EXCEPT !.m = [e EXCEPT !.file = Nobody]])
  <2>0. at # {} /\ at \subseteq 1 .. Len(maps[w])
    BY <1>5 DEF AtAddress
  <2>1. at \in SUBSET Nat /\ at # {} /\ at \subseteq 1 .. Len(maps[w])
    BY <1>0, <2>0
  <2> HIDE DEF at
  <2>2. \E i \in at : \A j \in at : i <= j
    BY <2>1, Least
  <2>3. (CHOOSE i \in at : \A j \in at : i <= j) \in 1 .. Len(maps[w])
    BY <2>1, <2>2
  <2>4. e \in Mapping
    BY <1>0, <2>3
  <2> HIDE DEF e
  <2>5. [e EXCEPT !.file = Nobody] \in Mapping
    BY <2>4 DEF Mapping
  <2> DEFINE m == [e EXCEPT !.file = Nobody]
  <2>6. WaitFor(t, w, "release", [loc[t] EXCEPT !.m = m])
    BY <1>5
  <2> HIDE DEF m
  <2>7. [loc[t] EXCEPT !.m = m] \in Local /\ [loc[t] EXCEPT !.m = m].force = loc[t].force
    BY <1>0, <2>5 DEF Local, m
  <2> QED
    BY <1>0, <1>3, <1>5, <2>6, <2>7
<1> QED
  BY <1>1, <1>2, <1>4, <1>5

-----------------------------------------------------------------------------
(* Steps that change the table, in one window.                             *)

\* The windows other than w are left alone.
OneWindow(w) == \A v \in Windows : v # w => /\ win'[v] = win[v] /\ maps'[v] = maps[v]
                                            /\ users'[v] = users[v] /\ bus'[v] = bus[v]

\* What the window that changes has to satisfy afterwards.
WindowOK(w) == users[w] = Len(maps[w]) /\ (~win[w].active => maps[w] = <<>>)
\* WindowConsistent, window by window.
FlagOK(w) == IF win[w].active THEN bus[w] = Parts /\ win[w].va = w
                              ELSE bus[w] = {} /\ win[w].va = NULL

\* Before the step both hold of every window.
LEMMA WindowsBefore ==
  ASSUME IInv, NEW w \in Windows
  PROVE  FlagOK(w) /\ (Orderly => WindowOK(w))
<1>1. FlagOK(w)
  BY DEF IInv, WindowConsistent, FlagOK
<1>2. Orderly => WindowOK(w)
  BY DEF IInv, TableInv, UsersCountMappings, WindowOK
<1> QED
  BY <1>1, <1>2

\* Only the window that changes, and the client that moves, have to be looked at.
LEMMA WindowFrame ==
  ASSUME IInv, TypeOK', NEW t \in Tasks, pc[t] # "idle", Stay(t),
         \A u \in Tasks : u # t => held'[u] = held[u], UNCHANGED options,
         NEW w \in Windows, OneWindow(w), FlagOK(w)',
         \A e \in Entries(maps'[w]) : e \in Entries(maps[w]) \/ NewEntry(t, e),
         OwnOK(t)', Orderly => WindowOK(w)' /\ OwnTableOK(t)',
         Orderly /\ ~Signals /\ t \in Users => CloseOK(t)'
  PROVE  IInv'
<1>1. Grow(t)
  BY DEF Grow, OneWindow
<1>2. OptionsInv'
  BY DEF IInv, OptionsInv, options
<1>3. WindowConsistent'
  <2>1. \A v \in Windows : FlagOK(v)'
    BY WindowsBefore DEF FlagOK, OneWindow
  <2> QED
    BY <2>1 DEF WindowConsistent, FlagOK
<1>4. ASSUME Orderly PROVE UsersCountMappings'
  <2>1. \A v \in Windows : WindowOK(v)'
    BY <1>4, WindowsBefore DEF WindowOK, OneWindow
  <2> QED
    BY <2>1 DEF UsersCountMappings, WindowOK
<1> QED
  BY <1>1, <1>2, <1>3, <1>4, Frame

\* A window that cannot be created leaves nothing behind.
LEMMA CreateFailsKeeps ==
  ASSUME IInv, NEW t \in Tasks, CreateFails(t)
  PROVE  IInv'
<1>w. PICK w \in Windows : w = loc[t].win
  BY LocalFields DEF IInv, TypeOK
<1>0. TypeOK /\ w \in Windows /\ bus \in [Windows -> SUBSET Parts]
  BY LocalFields DEF IInv, TypeOK
<1>1. /\ pc[t] = "create" /\ ~win[w].active /\ Unlock(w) /\ Finish(t)
      /\ UNCHANGED <<win, maps, users, options, held>>
      /\ \E fault \in Faults \ {"kzalloc", "efault"} :
           bus' = [bus EXCEPT ![w] = (@ \cup Obtained(fault)) \ Unwound(fault)]
  BY <1>w DEF CreateFails
<1>2. PICK fault \in {"resource", "ioremap", "chip"} :
        bus' = [bus EXCEPT ![w] = (@ \cup Obtained(fault)) \ Unwound(fault)]
  BY <1>1, OptionsAssumption
<1>3. Obtained(fault) \subseteq Unwound(fault)
  BY DEF Obtained, Unwound
<1>4. bus[w] = {} /\ win[w].va = NULL
  BY <1>0, <1>1 DEF IInv, WindowConsistent
<1>5. bus' \in [Windows -> SUBSET Parts] /\ bus'[w] = {} /\ bus' = [bus EXCEPT ![w] = {}]
  BY <1>0, <1>2, <1>3, <1>4
<1>6. /\ pc' \in [Tasks -> PC] /\ loc' \in [Tasks -> Local] /\ Stay(t)
      /\ OwnOK(t)' /\ OwnTableOK(t)' /\ CloseOK(t)'
  BY <1>0, <1>1, FinishEffect, EndsWell
<1>7. TypeOK'
  BY <1>0, <1>1, <1>5, <1>6, UnlockEffect DEF TypeOK, options
<1>8. OneWindow(w) /\ FlagOK(w)'
  BY <1>0, <1>1, <1>4, <1>5 DEF OneWindow, FlagOK
<1>9. Orderly => WindowOK(w)'
  BY <1>0, <1>1, WindowsBefore DEF WindowOK
<1> QED
  BY <1>0, <1>1, <1>6, <1>7, <1>8, <1>9, WindowFrame

\* A window is created.
LEMMA CreateKeeps ==
  ASSUME IInv, NEW t \in Tasks, Create(t)
  PROVE  IInv'
<1>w. PICK w \in Windows : w = loc[t].win
  BY LocalFields DEF IInv, TypeOK
<1> DEFINE d == loc[t].wnd
           new == [active |-> TRUE, addr |-> d.addr, size |-> d.size, am |-> d.am, va |-> w]
<1>0. /\ TypeOK /\ w \in Windows /\ d \in Request /\ loc[t] \in Local
      /\ bus \in [Windows -> SUBSET Parts] /\ win \in [Windows -> Window]
      /\ pc \in [Tasks -> PC] /\ loc \in [Tasks -> Local]
  BY LocalFields DEF IInv, TypeOK
<1>1. /\ pc[t] = "create" /\ ~win[w].active /\ Unlock(w)
      /\ UNCHANGED <<maps, users, options, held>>
      /\ win' = [win EXCEPT ![w] = new] /\ bus' = [bus EXCEPT ![w] = Parts]
      /\ IF loc[t].op = "find"
           THEN pc' = [pc EXCEPT ![t] = "attach"] /\ UNCHANGED loc
           ELSE Finish(t)
  BY <1>w DEF Create
<1>2. /\ new \in Window /\ new.active /\ new.addr = d.addr /\ new.size = d.size /\ new.va = w
  BY <1>0 DEF Request, Window
<1> HIDE DEF new
<1>3. /\ win' \in [Windows -> Window] /\ win'[w] = new /\ bus' \in [Windows -> SUBSET Parts]
      /\ bus'[w] = Parts /\ \A v \in Windows : v # w => win'[v] = win[v] /\ bus'[v] = bus[v]
  BY <1>0, <1>1, <1>2
<1>4. OneWindow(w) /\ FlagOK(w)'
  BY <1>1, <1>2, <1>3 DEF OneWindow, FlagOK
<1>5. Orderly => WindowOK(w)' /\ maps'[w] = <<>>
  <2> SUFFICES ASSUME Orderly PROVE WindowOK(w)' /\ maps'[w] = <<>>
    OBVIOUS
  <2>1. maps[w] = <<>> /\ users[w] = Len(maps[w])
    BY <1>0, <1>1, WindowsBefore DEF WindowOK
  <2>2. Entries(maps'[w]) = {}
    BY <1>1, <2>1 DEF Entries
  <2> QED
    BY <1>1, <1>2, <1>3, <2>1, <2>2 DEF WindowOK
<1>6. /\ pc' \in [Tasks -> PC] /\ loc' \in [Tasks -> Local] /\ Stay(t) /\ OwnOK(t)'
      /\ (Orderly => OwnTableOK(t)') /\ CloseOK(t)'
  <2>1. CASE loc[t].op = "find"
    <3>1. /\ pc' \in [Tasks -> PC] /\ loc' = loc /\ Stay(t) /\ pc'[t] = "attach"
          /\ Going(t)' = "attach"
      BY <1>0, <1>1, <2>1 DEF PC, Stay, Going
    <3>2. /\ FreeOK(t) /\ ForceOK(t) /\ Finding(t) /\ ForFind(t) /\ Forced(t)
      BY <1>1, <2>1 DEF IInv, ControlInv, Finding, ForFind, Forced, Going
    <3>3. FreeSlots(t)' = FreeSlots(t)
      BY <1>1 DEF FreeSlots, Listed
    <3>4. OwnOK(t)'
      BY <3>1, <3>2, <3>3 DEF OwnOK, NextOK, FreeOK, Finding, ForFind, MappingOK,
         ForceOK, Forced
    <3>5. ASSUME Orderly PROVE OwnTableOK(t)'
      BY <1>w, <1>2, <1>3, <1>5, <3>1, <3>5 DEF OwnTableOK, AttachOK, LinkOK, DestroyOK
    <3> QED
      BY <1>0, <3>1, <3>4, <3>5 DEF CloseOK
  <2>2. CASE loc[t].op # "find"
    BY <1>0, <1>1, <2>2, FinishEffect, EndsWell
  <2> QED
    BY <2>1, <2>2
<1>7. TypeOK'
  BY <1>0, <1>1, <1>3, <1>6, UnlockEffect DEF TypeOK, options
<1> QED
  BY <1>0, <1>1, <1>4, <1>5, <1>6, <1>7, WindowFrame

\* A window is destroyed, with its mappings.
LEMMA DestroyKeeps ==
  ASSUME IInv, NEW t \in Tasks, Destroy(t)
  PROVE  IInv'
<1>w. PICK w \in Windows : w = loc[t].win
  BY LocalFields DEF IInv, TypeOK
<1>0. /\ TypeOK /\ w \in Windows
      /\ bus \in [Windows -> SUBSET Parts] /\ win \in [Windows -> Window]
      /\ maps \in [Windows -> Seq(Mapping)] /\ users \in [Windows -> Int]
      /\ Len(maps[w]) \in Nat
  BY LocalFields DEF IInv, TypeOK
<1>1. pc[t] = "destroy" /\ Unlock(w) /\ Finish(t) /\ UNCHANGED <<options, held>>
  BY <1>w DEF Destroy
<1>2. /\ pc' \in [Tasks -> PC] /\ loc' \in [Tasks -> Local] /\ Stay(t)
      /\ OwnOK(t)' /\ OwnTableOK(t)' /\ CloseOK(t)'
  BY <1>0, <1>1, FinishEffect, EndsWell
<1>3. CASE ~win[w].active
  <2>1. UNCHANGED table
    BY <1>w, <1>3 DEF Destroy
  <2> QED
    BY <1>0, <1>1, <2>1, UnlockEffect, EndKeeps DEF TypeOK
<1>4. CASE win[w].active
  <2>1. /\ win' = [win EXCEPT ![w].active = FALSE, ![w].va = NULL]
        /\ bus' = [bus EXCEPT ![w] = {}]
        /\ \/ /\ users[w] > 0 /\ maps' = [maps EXCEPT ![w] = <<>>]
              /\ users' = [users EXCEPT ![w] = @ - Len(maps[w])]
           \/ ~(users[w] > 0) /\ UNCHANGED <<maps, users>>
    BY <1>w, <1>4 DEF Destroy
  <2>2. /\ win' \in [Windows -> Window] /\ ~win'[w].active /\ win'[w].va = NULL
        /\ \A v \in Windows : v # w => win'[v] = win[v]
    BY <1>0, <2>1 DEF Window
  <2>3. /\ bus' \in [Windows -> SUBSET Parts] /\ bus'[w] = {}
        /\ \A v \in Windows : v # w => bus'[v] = bus[v]
    BY <1>0, <2>1
  <2>4. <<>> \in Seq(Mapping) /\ Entries(<<>>) = {} /\ Len(<<>>) = 0
    BY EmptySeq DEF Entries
  <2>5. /\ maps' \in [Windows -> Seq(Mapping)] /\ users' \in [Windows -> Int]
        /\ \A v \in Windows : v # w => maps'[v] = maps[v] /\ users'[v] = users[v]
    <3>1. users[w] - Len(maps[w]) \in Int
      BY <1>0
    <3>2. CASE users[w] > 0
      <4>1. /\ maps' = [maps EXCEPT ![w] = <<>>]
            /\ users' = [users EXCEPT ![w] = users[w] - Len(maps[w])]
        BY <2>1, <3>2
      <4> QED
        BY <1>0, <2>4, <3>1, <4>1
    <3>3. CASE UNCHANGED <<maps, users>>
      BY <1>0, <3>3
    <3> QED
      BY <2>1, <3>2, <3>3
  <2>6. Entries(maps'[w]) \subseteq Entries(maps[w])
    BY <1>0, <2>1, <2>4
  <2>7. ASSUME Orderly PROVE WindowOK(w)'
    <3>1. users[w] = Len(maps[w])
      BY <1>0, <2>7, WindowsBefore DEF WindowOK
    <3>2. maps'[w] = <<>> /\ users'[w] = 0
      <4>1. CASE users[w] > 0
        BY <1>0, <2>1, <3>1, <4>1
      <4>2. CASE ~(users[w] > 0)
        <5>1. Len(maps[w]) = 0 /\ maps' = maps /\ users' = users
          BY <1>0, <2>1, <3>1, <4>2
        <5>2. maps[w] \in Seq(Mapping)
          BY <1>0
        <5> QED
          BY <3>1, <5>1, <5>2, EmptySeq
      <4> QED
        BY <4>1, <4>2
    <3> QED
      BY <2>4, <3>2 DEF WindowOK
  <2>8. TypeOK'
    BY <1>0, <1>1, <1>2, <2>2, <2>3, <2>5, UnlockEffect DEF TypeOK, options
  <2>9. OneWindow(w) /\ FlagOK(w)'
    BY <2>2, <2>3, <2>5 DEF OneWindow, FlagOK
  <2> QED
    BY <1>0, <1>1, <1>2, <2>6, <2>7, <2>8, <2>9, WindowFrame
<1> QED
  BY <1>3, <1>4

\* A client holds what it has been given.
LEMMA HoldEffect ==
  ASSUME TypeOK, NEW t \in Tasks, NEW w \in Windows, NEW m \in Mapping, Hold(t, m, w)
  PROVE  /\ held' \in [Tasks -> SUBSET HandleType]
         /\ \A u \in Tasks : u # t => held'[u] = held[u]
<1>1. Handle(m, w) \in HandleType
  BY DEF Handle, Mapping, HandleType
<1>2. held \in [Tasks -> SUBSET HandleType]
  BY DEF TypeOK
<1> QED
  BY <1>1, <1>2 DEF Hold

\* A mapping is added under the mutex.
LEMMA FindHitKeeps ==
  ASSUME IInv, NEW t \in Tasks, FindHit(t)
  PROVE  IInv'
<1>w. PICK w \in Windows : w = loc[t].win
  BY LocalFields DEF IInv, TypeOK
<1>0. /\ TypeOK /\ maps \in [Windows -> Seq(Mapping)] /\ users \in [Windows -> Int]
      /\ Finding(t)
  BY DEF IInv, TypeOK, FindHit, Finding, Going
<1>m. PICK m \in Mapping : m = NewMapping(t, w)
  BY <1>0, NewMappingType
<1>1. /\ pc[t] = "find" /\ Matches(w, loc[t].match) /\ Unlock(w) /\ Finish(t)
      /\ maps' = [maps EXCEPT ![w] = Append(@, m)] /\ users' = [users EXCEPT ![w] = @ + 1]
      /\ Hold(t, m, w) /\ UNCHANGED <<win, bus, options>>
  BY <1>w, <1>m DEF FindHit
<1>2. /\ pc' \in [Tasks -> PC] /\ loc' \in [Tasks -> Local] /\ Stay(t)
      /\ OwnOK(t)' /\ OwnTableOK(t)' /\ CloseOK(t)'
  BY <1>0, <1>1, FinishEffect, EndsWell
<1>3. /\ maps[w] \in Seq(Mapping) /\ Append(maps[w], m) \in Seq(Mapping)
      /\ Len(Append(maps[w], m)) = Len(maps[w]) + 1
      /\ Entries(Append(maps[w], m)) = Entries(maps[w]) \cup {m}
  BY <1>0, EntriesAppend
<1>4. /\ maps' \in [Windows -> Seq(Mapping)] /\ users' \in [Windows -> Int]
      /\ maps'[w] = Append(maps[w], m) /\ users'[w] = users[w] + 1
      /\ \A v \in Windows : v # w => maps'[v] = maps[v] /\ users'[v] = users[v]
  BY <1>0, <1>1, <1>3
<1>5. TypeOK'
  BY <1>0, <1>1, <1>2, <1>4, UnlockEffect, HoldEffect DEF TypeOK, options
<1>6. OneWindow(w) /\ FlagOK(w)'
  BY <1>1, <1>4, WindowsBefore DEF OneWindow, FlagOK
<1>7. \A e \in Entries(maps'[w]) : e \in Entries(maps[w]) \/ NewEntry(t, e)
  <2>1. NewEntry(t, m)
    BY <1>0, <1>m, NewMappingType
  <2> QED
    BY <1>3, <1>4, <2>1
<1>8. ASSUME Orderly PROVE WindowOK(w)'
  <2>1. WindowOK(w)
    BY <1>8, WindowsBefore
  <2>2. users'[w] = Len(maps'[w])
    BY <1>3, <1>4, <2>1 DEF WindowOK
  <2>3. win'[w].active
    BY <1>1 DEF Matches
  <2> QED
    BY <2>2, <2>3 DEF WindowOK
<1>9. \A u \in Tasks : u # t => held'[u] = held[u]
  BY <1>0, <1>1, HoldEffect
<1> QED
  BY <1>1, <1>2, <1>5, <1>6, <1>7, <1>8, <1>9, WindowFrame

\* What list_add_tail() leaves of a list it has not seen change.
LEMMA LinkedEntries ==
  ASSUME NEW list \in Seq(Mapping), NEW tail, NEW m \in Mapping
  PROVE  /\ Linked(list, tail, m) \in Seq(Mapping)
         /\ Entries(Linked(list, tail, m)) \subseteq Entries(list) \cup {m}
<1>0. Len(list) \in Nat /\ <<m>> \in Seq(Mapping) /\ Entries(<<m>>) = {m}
  BY DEF Entries
<1> DEFINE at == {i \in 1 .. Len(list) : list[i].id = tail}
           n == CHOOSE i \in at : TRUE
           s == SubSeq(list, 1, n)
<1>1. CASE tail # NoId /\ at # {}
  <2>1. n \in 1 .. Len(list)
    BY <1>1
  <2> HIDE DEF n
  <2>2. s \in Seq(Mapping) /\ Len(s) = n /\ \A i \in 1 .. n : s[i] = list[i]
    BY <1>0, <2>1, SubSeqProperties
  <2>3. Linked(list, tail, m) = Append(s, m)
    BY <1>1 DEF Linked, n
  <2> HIDE DEF s
  <2>4. Entries(s) \subseteq Entries(list)
    BY <1>0, <2>1, <2>2 DEF Entries
  <2> QED
    BY <2>2, <2>3, <2>4, EntriesAppend
<1>2. CASE tail = NoId
  BY <1>0, <1>2 DEF Linked
<1>3. CASE tail # NoId /\ at = {}
  <2>1. Linked(list, tail, m) = list
    BY <1>3 DEF Linked
  <2> QED
    BY <2>1
<1> QED
  BY <1>1, <1>2, <1>3

\* A mapping is added without the mutex.
LEMMA LinkKeeps ==
  ASSUME IInv, NEW t \in Tasks, Link(t)
  PROVE  IInv'
<1>w. PICK w \in Windows : w = loc[t].win
  BY LocalFields DEF IInv, TypeOK
<1>m. PICK m \in Mapping : m = loc[t].m
  BY LocalFields DEF IInv, TypeOK
<1>0. /\ TypeOK /\ maps \in [Windows -> Seq(Mapping)] /\ users \in [Windows -> Int]
      /\ maps[w] \in Seq(Mapping) /\ loc[t].users \in Int
  BY LocalFields DEF IInv, TypeOK
<1>1. /\ pc[t] = "link" /\ Finish(t)
      /\ maps' = [maps EXCEPT ![w] = Linked(@, loc[t].tail, m)]
      /\ users' = [users EXCEPT ![w] = loc[t].users + 1]
      /\ Hold(t, m, w) /\ UNCHANGED <<lock, win, bus, options>>
  BY <1>w, <1>m DEF Link
<1>2. /\ pc' \in [Tasks -> PC] /\ loc' \in [Tasks -> Local] /\ Stay(t)
      /\ OwnOK(t)' /\ OwnTableOK(t)' /\ CloseOK(t)'
  BY <1>0, <1>1, FinishEffect, EndsWell
<1>3. /\ Linked(maps[w], loc[t].tail, m) \in Seq(Mapping)
      /\ Entries(Linked(maps[w], loc[t].tail, m)) \subseteq Entries(maps[w]) \cup {m}
  BY <1>0, LinkedEntries
<1>4. /\ maps' \in [Windows -> Seq(Mapping)] /\ users' \in [Windows -> Int]
      /\ maps'[w] = Linked(maps[w], loc[t].tail, m) /\ users'[w] = loc[t].users + 1
      /\ \A v \in Windows : v # w => maps'[v] = maps[v] /\ users'[v] = users[v]
  BY <1>0, <1>1, <1>3
<1>5. TypeOK'
  BY <1>0, <1>1, <1>2, <1>4, HoldEffect DEF TypeOK, options
<1>6. OneWindow(w) /\ FlagOK(w)'
  BY <1>1, <1>4, WindowsBefore DEF OneWindow, FlagOK
<1>7. \A e \in Entries(maps'[w]) : e \in Entries(maps[w]) \/ NewEntry(t, e)
  BY <1>m, <1>1, <1>3, <1>4 DEF IInv, ControlInv, MappingOK
<1>8. ASSUME Orderly PROVE WindowOK(w)'
  <2>1. /\ maps[w] = <<>> /\ win[w].active /\ loc[t].tail = NoId /\ loc[t].users = 0
    BY <1>w, <1>m, <1>1, <1>8 DEF IInv, TableInv, LinkOK
  <2>2. maps'[w] = <<m>> /\ users'[w] = 1
    BY <1>4, <2>1 DEF Linked
  <2>3. Len(<<m>>) = 1 /\ Entries(<<m>>) = {m}
    BY DEF Entries
  <2> QED
    BY <1>1, <2>1, <2>2, <2>3 DEF WindowOK
<1>9. \A u \in Tasks : u # t => held'[u] = held[u]
  BY <1>0, <1>1, HoldEffect
<1> QED
  BY <1>1, <1>2, <1>5, <1>6, <1>7, <1>8, <1>9, WindowFrame

\* A mapping is removed; the window may have to follow it.
LEMMA ReleaseKeeps ==
  ASSUME IInv, NEW t \in Tasks, Release(t)
  PROVE  IInv'
<1>w. PICK w \in Windows : w = loc[t].win
  BY LocalFields DEF IInv, TypeOK
<1>0. /\ TypeOK /\ maps \in [Windows -> Seq(Mapping)] /\ users \in [Windows -> Int]
      /\ maps[w] \in Seq(Mapping) /\ loc[t] \in Local /\ Len(maps[w]) \in Nat
  BY DEF IInv, TypeOK
<1>1. /\ pc[t] = "release" /\ win[w].active /\ users' = [users EXCEPT ![w] = @ - 1]
      /\ GiveUp(t) /\ Unlock(w) /\ UNCHANGED <<win, bus, options>>
      /\ IF LastUser(w) /\ loc[t].force THEN WaitFor(t, w, "destroy", loc[t]) ELSE Finish(t)
  BY <1>w DEF Release
<1>i. PICK i \in 1 .. Len(maps[w]) : maps' = [maps EXCEPT ![w] = Without(@, i)]
  <2>1. Removed(t) \subseteq 1 .. Len(maps[w])
    BY <1>w DEF Removed, Removable
  <2> QED
    BY <1>w, <2>1 DEF Release
<1>2. /\ Without(maps[w], i) \in Seq(Mapping) /\ Len(Without(maps[w], i)) = Len(maps[w]) - 1
      /\ Entries(Without(maps[w], i)) \subseteq Entries(maps[w])
  BY <1>0, EntriesWithout
<1>3. /\ maps' \in [Windows -> Seq(Mapping)] /\ users' \in [Windows -> Int]
      /\ maps'[w] = Without(maps[w], i) /\ users'[w] = users[w] - 1
      /\ \A v \in Windows : v # w => maps'[v] = maps[v] /\ users'[v] = users[v]
  BY <1>0, <1>1, <1>i, <1>2
<1>4. OneWindow(w) /\ FlagOK(w)'
  BY <1>1, <1>3, WindowsBefore DEF OneWindow, FlagOK
<1>5. ASSUME Orderly PROVE WindowOK(w)' /\ (LastUser(w) => maps'[w] = <<>>)
  <2>1. WindowOK(w)
    BY <1>5, WindowsBefore
  <2>2. users'[w] = Len(maps'[w]) /\ win'[w].active
    BY <1>1, <1>2, <1>3, <2>1 DEF WindowOK
  <2>4. LastUser(w) => maps'[w] = <<>>
    <3> SUFFICES ASSUME LastUser(w) PROVE maps'[w] = <<>>
      OBVIOUS
    <3>1. Len(maps'[w]) = 0 /\ maps'[w] \in Seq(Mapping)
      BY <1>2, <1>3, <2>1 DEF LastUser, WindowOK
    <3> QED
      BY <3>1, EmptySeq
  <2> QED
    BY <2>2, <2>4 DEF WindowOK
<1>6. /\ pc' \in [Tasks -> PC] /\ loc' \in [Tasks -> Local] /\ Stay(t) /\ OwnOK(t)'
      /\ (Orderly => OwnTableOK(t)') /\ CloseOK(t)'
  <2>1. CASE LastUser(w) /\ loc[t].force
    <3>1. "destroy" \in PC /\ WaitFor(t, w, "destroy", loc[t])
      BY <1>1, <2>1 DEF PC
    <3>2. /\ pc' \in [Tasks -> PC] /\ loc' \in [Tasks -> Local] /\ Stay(t)
          /\ pc'[t] = "lock" /\ loc'[t].win = w /\ loc'[t].next = "destroy"
          /\ loc'[t].force = loc[t].force
      BY <1>0, <3>1, WaitEffect
    <3>3. Going(t)' = "destroy" /\ ForceOK(t)
      BY <3>2 DEF Going, IInv, ControlInv
    <3>4. OwnOK(t)' /\ CloseOK(t)'
      BY <2>1, <3>2, <3>3 DEF OwnOK, NextOK, Locked, FreeOK, Finding, ForFind,
         MappingOK, ForceOK, Forced, CloseOK
    <3>5. Orderly => OwnTableOK(t)'
      BY <1>5, <2>1, <3>2, <3>3 DEF OwnTableOK, AttachOK, LinkOK, DestroyOK
    <3> QED
      BY <3>2, <3>4, <3>5
  <2>2. CASE ~(LastUser(w) /\ loc[t].force)
    BY <1>0, <1>1, <2>2, FinishEffect, EndsWell
  <2> QED
    BY <2>1, <2>2
<1>7. TypeOK'
  BY <1>0, <1>1, <1>3, <1>6, UnlockEffect, GiveUpEffect DEF TypeOK, options
<1>8. \A u \in Tasks : u # t => held'[u] = held[u]
  BY <1>0, <1>1, GiveUpEffect
<1>9. \A e \in Entries(maps'[w]) : e \in Entries(maps[w]) \/ NewEntry(t, e)
  BY <1>2, <1>3
<1> QED
  BY <1>1, <1>4, <1>5, <1>6, <1>7, <1>8, <1>9, WindowFrame

\* The mappings of a file go, in one window.
LEMMA CloseKeeps ==
  ASSUME IInv, NEW t \in Tasks, CloseWindow(t)
  PROVE  IInv'
<1>w. PICK w \in Windows : w = loc[t].win
  BY LocalFields DEF IInv, TypeOK
<1>0. /\ TypeOK /\ maps \in [Windows -> Seq(Mapping)] /\ users \in [Windows -> Int]
      /\ maps[w] \in Seq(Mapping) /\ loc[t] \in Local /\ Len(maps[w]) \in Nat
      /\ pc \in [Tasks -> PC] /\ loc \in [Tasks -> Local]
  BY DEF IInv, TypeOK
<1> DEFINE rest == Others(maps[w], t)
<1>1. /\ pc[t] = "close" /\ Unlock(w) /\ UNCHANGED <<win, bus, options, held>>
      /\ IF w + 1 \in Windows
           THEN WaitFor(t, w + 1, "close", loc[t])
           ELSE pc' = [pc EXCEPT ![t] = "closed"] /\ UNCHANGED loc
      /\ \/ /\ win[w].active /\ maps' = [maps EXCEPT ![w] = rest]
            /\ users' = [users EXCEPT ![w] = @ - (Len(maps[w]) - Len(rest))]
         \/ ~win[w].active /\ UNCHANGED <<maps, users>>
  BY <1>w DEF CloseWindow
<1>2. /\ rest \in Seq(Mapping) /\ Len(rest) \in Nat
      /\ \A e \in Entries(rest) : e \in Entries(maps[w]) /\ e.file # t
  BY <1>0, EntriesOthers
<1> HIDE DEF rest
<1>3. /\ maps' \in [Windows -> Seq(Mapping)] /\ users' \in [Windows -> Int]
      /\ \A v \in Windows : v # w => maps'[v] = maps[v] /\ users'[v] = users[v]
      /\ \/ /\ win[w].active /\ maps'[w] = rest
            /\ users'[w] = users[w] - (Len(maps[w]) - Len(rest))
         \/ ~win[w].active /\ maps'[w] = maps[w] /\ users'[w] = users[w]
  <2>1. CASE win[w].active
    <3>1. users[w] - (Len(maps[w]) - Len(rest)) \in Int
      BY <1>0, <1>2
    <3>2. /\ maps' = [maps EXCEPT ![w] = rest]
          /\ users' = [users EXCEPT ![w] = users[w] - (Len(maps[w]) - Len(rest))]
      BY <1>1, <2>1
    <3> QED
      BY <1>0, <1>2, <2>1, <3>1, <3>2
  <2>2. CASE ~win[w].active
    BY <1>0, <1>1, <2>2
  <2> QED
    BY <2>1, <2>2
<1>4. OneWindow(w) /\ FlagOK(w)' /\ Entries(maps'[w]) \subseteq Entries(maps[w])
  BY <1>1, <1>2, <1>3, WindowsBefore DEF OneWindow, FlagOK
<1>5. ASSUME Orderly PROVE WindowOK(w)' /\ \A e \in Entries(maps'[w]) : e.file # t
  <2>1. WindowOK(w)
    BY <1>5, WindowsBefore
  <2>2. users'[w] = Len(maps'[w]) /\ (~win'[w].active => maps'[w] = <<>>)
    BY <1>0, <1>1, <1>2, <1>3, <2>1 DEF WindowOK
  <2>4. \A e \in Entries(maps'[w]) : e.file # t
    <3>1. CASE win[w].active
      BY <1>2, <1>3, <3>1
    <3>2. CASE ~win[w].active
      <4>1. maps'[w] = <<>>
        BY <1>1, <2>2, <3>2
      <4> QED
        BY <4>1 DEF Entries
    <3> QED
      BY <3>1, <3>2
  <2> QED
    BY <2>2, <2>4 DEF WindowOK
<1>6. /\ pc' \in [Tasks -> PC] /\ loc' \in [Tasks -> Local] /\ Stay(t)
      /\ loc'[t].force = loc[t].force /\ pc'[t] \in {"lock", "closed"} /\ NextOK(t)'
      /\ \/ Going(t)' = "close" /\ loc'[t].win = w + 1
         \/ Going(t)' = "closed" /\ w + 1 \notin Windows
  <2>1. CASE w + 1 \in Windows
    <3>1. "close" \in PC /\ WaitFor(t, w + 1, "close", loc[t])
      BY <1>1, <2>1 DEF PC
    <3> QED
      BY <1>0, <2>1, <3>1, WaitEffect DEF Going, NextOK, Locked
  <2>2. CASE w + 1 \notin Windows
    BY <1>0, <1>1, <2>2 DEF PC, Stay, Going, NextOK
  <2> QED
    BY <2>1, <2>2
<1>7. OwnOK(t)' /\ OwnTableOK(t)'
  <2>1. ForceOK(t)
    BY DEF IInv, ControlInv
  <2> QED
    BY <1>6, <2>1 DEF OwnOK, FreeOK, Finding, ForFind, MappingOK, ForceOK, Forced,
       OwnTableOK, AttachOK, LinkOK, DestroyOK
<1>8. ASSUME Orderly, ~Signals, t \in Users PROVE CloseOK(t)'
  <2>1. CloseOK(t) /\ Going(t) = "close"
    BY <1>1, <1>8 DEF IInv, Going
  <2>2. ASSUME NEW v \in Windows, v < w + 1, NEW e \in Entries(maps'[v]) PROVE e.file # t
    <3>1. CASE v = w
      BY <1>5, <1>8, <2>2, <3>1
    <3>2. CASE v # w
      <4>1. v < w
        BY <2>2, <3>2, Sizes
      <4> QED
        BY <1>w, <1>3, <2>1, <2>2, <3>2, <4>1 DEF CloseOK
    <3> QED
      BY <3>1, <3>2
  <2>3. w + 1 \notin Windows => \A v \in Windows : v < w + 1
    BY SizesAssumption DEF Windows
  <2> QED
    BY <1>6, <2>2, <2>3 DEF CloseOK
<1>9. TypeOK'
  BY <1>0, <1>1, <1>3, <1>6, UnlockEffect DEF TypeOK, options
<1> QED
  BY <1>1, <1>4, <1>5, <1>6, <1>7, <1>8, <1>9, WindowFrame

-----------------------------------------------------------------------------
(* The properties.                                                         *)

\* At the start all windows are unused and nobody is in a call.
LEMMA InitIInv == Init => IInv
<1> SUFFICES ASSUME Init PROVE IInv
  OBVIOUS
<1>1. Unused \in Window /\ <<>> \in Seq(Mapping) /\ Entries(<<>>) = {}
  BY EmptySeq DEF Unused, Window, Entries
<1>2. TypeOK
  <2>1. /\ win \in [Windows -> Window] /\ maps \in [Windows -> Seq(Mapping)]
        /\ loc \in [Tasks -> Local]
    BY <1>1, NoLocType DEF Init
  <2>2. /\ lock \in [Windows -> Tasks \cup {Nobody}] /\ users \in [Windows -> Int]
        /\ bus \in [Windows -> SUBSET Parts] /\ pc \in [Tasks -> PC]
    BY DEF Init, PC
  <2>3. createOnFind \in BOOLEAN /\ destroyOnRemove \in BOOLEAN
    BY DEF Init
  <2>4. held \in [Tasks -> SUBSET HandleType]
    BY DEF Init
  <2> QED
    BY <2>1, <2>2, <2>3, <2>4 DEF TypeOK
<1>3. WindowConsistent
  BY DEF Init, WindowConsistent, Unused
<1>4. \A t \in Tasks : pc[t] = "idle" /\ Going(t) = "idle" /\ ~loc[t].force
  BY DEF Init, Going, NoLoc
<1>5. ControlInv /\ OneAtATime
  BY <1>4 DEF ControlInv, NextOK, FreeOK, Finding, ForFind, MappingOK, ForceOK,
     Forced, OneAtATime
<1>6. OptionsInv
  BY DEF Init, OptionsInv
<1>7. TableInv
  <2>1. UsersCountMappings
    BY DEF Init, UsersCountMappings
  <2> QED
    BY <1>4, <2>1 DEF TableInv, AttachOK, LinkOK, DestroyOK
<1>8. \A t \in Users : CloseOK(t)
  BY <1>4, Sizes DEF CloseOK
<1> QED
  BY <1>2, <1>3, <1>5, <1>6, <1>7, <1>8 DEF IInv

\* Every step keeps the invariant.
LEMMA StepIInv ==
  ASSUME IInv, Next
  PROVE  IInv'
BY CallKeeps, LockKeeps, RefusalsKeep, CreateFailsKeeps, CreateKeeps, DestroyKeeps,
   FindHitKeeps, FindNextKeeps, FindMissKeeps, AttachKeeps, LinkKeeps, ReleaseKeeps,
   LookupKeeps, CloseKeeps DEF Next, Step

\* The invariant holds in every reachable state.
LEMMA Invariance == Spec => []IInv
<1>1. IInv /\ [Next]_vars => IInv'
  <2> SUFFICES ASSUME IInv, [Next]_vars PROVE IInv'
    OBVIOUS
  <2>1. CASE UNCHANGED vars
    <3>0. /\ lock' = lock /\ win' = win /\ maps' = maps /\ users' = users /\ bus' = bus
          /\ createOnFind' = createOnFind /\ destroyOnRemove' = destroyOnRemove
          /\ pc' = pc /\ loc' = loc /\ held' = held
      BY <2>1 DEF vars
    <3>1. TypeOK' /\ WindowConsistent' /\ OptionsInv' /\ OneAtATime'
      BY <3>0 DEF IInv, TypeOK, WindowConsistent, OptionsInv, OneAtATime
    <3>2. ControlInv'
      <4>1. \A t \in Tasks : FreeSlots(t)' = FreeSlots(t)
        BY <3>0 DEF FreeSlots, Listed
      <4> QED
        BY <3>0, <4>1 DEF IInv, ControlInv, NextOK, FreeOK, Finding, ForFind, Going,
           MappingOK, NewEntry, ForceOK, Forced
    <3>3. Orderly => TableInv'
      BY <3>0 DEF IInv, TableInv, UsersCountMappings, AttachOK, LinkOK, DestroyOK, Going
    <3>4. Orderly /\ ~Signals => \A t \in Users : CloseOK(t)'
      BY <3>0 DEF IInv, CloseOK, Going
    <3> QED
      BY <3>1, <3>2, <3>3, <3>4 DEF IInv
  <2> QED
    BY <2>1, StepIInv
<1> QED
  BY <1>1, InitIInv, PTL DEF Spec

\* Every variable stays within its type, however calls overlap; in particular
\* a client that looks for a mapping has room for it when it gets it.
THEOREM TypeCorrect == Spec => []TypeOK
<1>1. IInv => TypeOK
  BY DEF IInv
<1> QED
  BY <1>1, Invariance, PTL

\* A window is flagged active exactly when PCI, the page tables and the chip
\* all know it, whatever fails while it is created.
THEOREM WindowsConsistent == Spec => []WindowConsistent
<1>1. IInv => WindowConsistent
  BY DEF IInv
<1> QED
  BY <1>1, Invariance, PTL

\* The user count of a window is the number of its mappings, and no mapping
\* survives its window, when calls do not overlap or the options have their
\* default values and no driver uses the windows.
THEOREM CountsAgree ==
  ASSUME Orderly
  PROVE  Spec => []UsersCountMappings
<1>1. IInv => UsersCountMappings
  BY DEF IInv, TableInv
<1> QED
  BY <1>1, Invariance, PTL

\* A process that has closed the device has no mapping left in any window,
\* unless a signal interrupted the close.
THEOREM CloseReleases ==
  ASSUME Orderly, ~Signals
  PROVE  Spec => []CloseReleasesAll
<1>1. IInv => CloseReleasesAll
  <2> SUFFICES ASSUME IInv, NEW t \in Users, pc[t] = "closed", NEW w \in Windows,
                      NEW i \in 1 .. Len(maps[w])
               PROVE  maps[w][i].file # t
    BY DEF CloseReleasesAll
  <2>1. CloseOK(t) /\ Going(t) = "closed" /\ maps[w][i] \in Entries(maps[w])
    BY DEF IInv, Going, Entries
  <2> QED
    BY <2>1 DEF CloseOK
<1> QED
  BY <1>1, Invariance, PTL

-----------------------------------------------------------------------------
(* Mappings are private, among processes.                                  *)

\* A process releases with its own file, and destroys a window by asking for
\* it or by releasing its last mapping.
CallerOK(t) ==
  /\ Going(t) = "release" => loc[t].op = "release" /\ loc[t].m.file = t
  /\ Going(t) = "destroy" => loc[t].op \in {"destroy", "release"}
  /\ Going(t) # "lookup"

\* No driver uses the windows, and no process destroys one with all its mappings.
Processes == Kernel = {} /\ "destroy" \notin Ops

\* A call that waits for a mutex to do something harmless.
LEMMA CallerWaits ==
  ASSUME TypeOK, NEW t \in Tasks, NEW w \in Windows, NEW next \in Locked, NEW l \in Local,
         WaitFor(t, w, next, l),
         next = "release" => l.op = "release" /\ l.m.file = t,
         next = "destroy" => l.op \in {"destroy", "release"}, next # "lookup"
  PROVE  CallerOK(t)' /\ Stay(t)
<1>1. next \in PC
  BY DEF PC, Locked
<1>2. /\ Stay(t) /\ pc'[t] = "lock" /\ loc'[t].next = next /\ loc'[t].op = l.op
      /\ loc'[t].m = l.m
  BY <1>1, WaitEffect
<1> QED
  BY <1>2 DEF CallerOK, Going

\* A call that is over.
LEMMA CallerEnds ==
  ASSUME TypeOK, NEW t \in Tasks, Finish(t)
  PROVE  CallerOK(t)' /\ Stay(t) /\ pc'[t] = "idle"
BY FinishEffect DEF CallerOK, Going

\* Every process keeps to it, whatever step is taken.
LEMMA CallersStep ==
  ASSUME IInv, Kernel = {}, NEW t \in Tasks, CallerOK(t),
         Call(t) \/ Lock(t) \/ Interrupted(t) \/ Step(t)
  PROVE  CallerOK(t)' /\ Stay(t)
<1>0. /\ TypeOK /\ loc[t] \in Local /\ loc[t].win \in Windows /\ t \in Users /\ t \notin Kernel
      /\ pc \in [Tasks -> PC] /\ loc \in [Tasks -> Local] /\ 0 \in Windows
  BY LocalFields, Sizes DEF IInv, TypeOK, Tasks
<1>1. FileOf(t) = t
  BY <1>0 DEF FileOf
<1>q. \A r \in Requests[t] : r \in Request
  BY RequestsAssumption DEF Request
<1>2. CASE Finish(t)
  BY <1>0, <1>2, CallerEnds
<1>3. CASE CallCreate(t)
  <2>1. PICK w \in Windows, r \in Requests[t] :
          WaitFor(t, w, "create", [NoLoc EXCEPT !.op = "create", !.wnd = Rounded(r)])
    BY <1>3 DEF CallCreate
  <2>2. [NoLoc EXCEPT !.op = "create", !.wnd = Rounded(r)] \in Local
    BY <1>q, <1>3, NoLocType, RequestTypes DEF Local, CallCreate
  <2> QED
    BY <1>0, <2>1, <2>2, CallerWaits DEF Locked
<1>4. CASE CallDestroy(t)
  <2>1. PICK w \in Windows : WaitFor(t, w, "destroy", [NoLoc EXCEPT !.op = "destroy"])
    BY <1>4 DEF CallDestroy
  <2>2. /\ [NoLoc EXCEPT !.op = "destroy"] \in Local
        /\ [NoLoc EXCEPT !.op = "destroy"].op = "destroy"
    BY <1>4, NoLocType DEF Local, CallDestroy
  <2> QED
    BY <1>0, <2>1, <2>2, CallerWaits DEF Locked
<1>5. CASE CallFind(t)
  <2>1. PICK r \in Requests[t], force \in BOOLEAN :
          WaitFor(t, 0, "find", [NoLoc EXCEPT !.op = "find", !.match = r, !.force = force])
    BY <1>0, <1>5 DEF CallFind, TypeOK
  <2>2. [NoLoc EXCEPT !.op = "find", !.match = r, !.force = force] \in Local
    BY <1>q, <1>5, NoLocType DEF Local, CallFind
  <2> QED
    BY <1>0, <2>1, <2>2, CallerWaits DEF Locked
<1>6. CASE CallRelease(t)
  <2>1. PICK h \in held[t], force \in BOOLEAN :
          WaitFor(t, h.win, "release",
                  [NoLoc EXCEPT !.op = "release", !.handle = h.id, !.force = force,
                    !.m = [id |-> h.id, addr |-> h.addr, size |-> h.size,
                           va |-> h.va, file |-> FileOf(t)]])
    BY <1>0, <1>6 DEF CallRelease, TypeOK
  <2> DEFINE m == [id |-> h.id, addr |-> h.addr, size |-> h.size, va |-> h.va,
                   file |-> FileOf(t)]
             l == [NoLoc EXCEPT !.op = "release", !.handle = h.id, !.force = force, !.m = m]
  <2>2. h \in HandleType
    BY <1>0 DEF TypeOK
  <2>3. m \in Mapping /\ m.file = t /\ h.win \in Windows /\ h.id \in Ids
    BY <1>0, <1>1, <2>2 DEF HandleType, Mapping
  <2> HIDE DEF m
  <2>4. l \in Local /\ l.op = "release" /\ l.m = m
    BY <1>6, <2>3, NoLocType DEF Local, CallRelease
  <2>5. WaitFor(t, h.win, "release", l)
    BY <2>1 DEF m
  <2> HIDE DEF l
  <2> QED
    BY <1>0, <2>3, <2>4, <2>5, CallerWaits DEF Locked
<1>7. CASE CallClose(t)
  <2>1. WaitFor(t, 0, "close", [NoLoc EXCEPT !.op = "close"])
    BY <1>7 DEF CallClose
  <2>2. [NoLoc EXCEPT !.op = "close"] \in Local
    BY <1>7, NoLocType DEF Local, CallClose
  <2> QED
    BY <1>0, <2>1, <2>2, CallerWaits DEF Locked
<1>8. CASE pc' = pc /\ loc' = loc
  BY <1>8 DEF CallerOK, Going, Stay
<1>9. CASE Lock(t)
  <2>1. pc[t] = "lock" /\ pc' = [pc EXCEPT ![t] = loc[t].next] /\ loc' = loc
    BY <1>9 DEF Lock
  <2>2. loc[t].next \in Locked
    BY <2>1 DEF IInv, ControlInv, NextOK
  <2>3. Going(t)' = Going(t) /\ Stay(t)
    BY <1>0, <2>1, <2>2 DEF Going, Locked, Stay
  <2> QED
    BY <2>1, <2>3 DEF CallerOK
<1>10. CASE \E p \in {"closed", "miss", "attach"} : pc' = [pc EXCEPT ![t] = p] /\ loc' = loc
  BY <1>0, <1>10 DEF CallerOK, Going, Stay
<1>11. CASE FindNext(t) \/ CloseWindow(t)
  <2>1. CASE \E next \in {"find", "close"} :
               loc[t].win + 1 \in Windows /\ WaitFor(t, loc[t].win + 1, next, loc[t])
    BY <1>0, <2>1, CallerWaits DEF Locked
  <2> QED
    BY <1>10, <1>11, <2>1 DEF FindNext, CloseWindow
<1>12. CASE FindMiss(t)
  <2>1. CASE \E w \in Windows :
               WaitFor(t, w, "create",
                       [loc[t] EXCEPT !.wnd = Rounded(Optimized(loc[t].match))])
    <3>1. [loc[t] EXCEPT !.wnd = Rounded(Optimized(loc[t].match))] \in Local
      <4>1. loc[t].match \in Request
        BY <1>0, LocalFields
      <4>2. Rounded(Optimized(loc[t].match)) \in Request
        BY <4>1, RequestTypes
      <4> QED
        BY <1>0, <4>2 DEF Local
    <3> QED
      BY <1>0, <2>1, <3>1, CallerWaits DEF Locked
  <2>2. CASE ~Finish(t)
    <3> DEFINE unused == {w \in Windows : ~win[w].active}
               v == CHOOSE w \in unused : \A x \in unused : w <= x
    <3>1. /\ unused # {}
          /\ WaitFor(t, v, "create", [loc[t] EXCEPT !.wnd = Rounded(Optimized(loc[t].match))])
      BY <1>12, <2>2 DEF FindMiss
    <3>2. v \in Windows
      <4>1. unused \in SUBSET Nat
        BY Sizes
      <4>2. \E w \in unused : \A x \in unused : w <= x
        BY <3>1, <4>1, Least
      <4>3. v \in unused
        BY <4>2
      <4> QED
        BY <4>3
    <3> HIDE DEF v
    <3> QED
      BY <2>1, <3>1, <3>2
  <2> QED
    BY <1>2, <2>2
<1>13. CASE Attach(t)
  <2>1. CASE ~Finish(t)
    <3>1. /\ pc' = [pc EXCEPT ![t] = "link"]
          /\ \A u \in Tasks : u # t => loc'[u] = loc[u]
      BY <1>0, <1>13, <2>1 DEF Attach
    <3> QED
      BY <1>0, <3>1 DEF CallerOK, Going, Stay
  <2> QED
    BY <1>2, <2>1
<1>14. CASE Release(t)
  <2>1. CASE WaitFor(t, loc[t].win, "destroy", loc[t])
    <3>1. loc[t].op = "release"
      BY <1>14 DEF Release, CallerOK, Going
    <3> QED
      BY <1>0, <2>1, <3>1, CallerWaits DEF Locked
  <2> QED
    BY <1>2, <1>14, <2>1 DEF Release
<1>15. CASE Lookup(t)
  BY <1>15 DEF Lookup, CallerOK, Going
<1>16. CASE Create(t)
  BY <1>2, <1>10, <1>16 DEF Create
<1>17. CASE Interrupted(t)
  BY <1>2, <1>10, <1>17 DEF Interrupted
<1>18. CASE Call(t)
  BY <1>0, <1>3, <1>4, <1>5, <1>6, <1>7, <1>8, <1>18 DEF Call, CallReturn, SetOptions
<1>19. CASE \/ CreateRefused(t) \/ CreateFails(t) \/ Destroy(t) \/ FindHit(t)
            \/ FindNoMemory(t) \/ Link(t) \/ ReleaseFails(t) \/ Reopen(t)
  BY <1>2, <1>19 DEF CreateRefused, CreateFails, Destroy, FindHit, FindNoMemory, Link,
     ReleaseFails, Reopen
<1> QED
  BY <1>9, <1>11, <1>12, <1>13, <1>14, <1>15, <1>16, <1>17, <1>18, <1>19 DEF Step

\* A step changes the mappings of the process that takes it only, and takes
\* that process on.
LEMMA PrivateStep ==
  ASSUME IInv, Orderly, Processes, NEW t \in Tasks, CallerOK(t),
         Call(t) \/ Lock(t) \/ Interrupted(t) \/ Step(t), NEW u \in Users, NEW v \in Windows
  PROVE  Own(maps'[v], u) = Own(maps[v], u) \/ (u = t /\ pc'[t] # pc[t])
<1>w. PICK w \in Windows : w = loc[t].win
  BY LocalFields DEF IInv, TypeOK
<1>0. /\ TypeOK /\ loc[t] \in Local /\ t \in Users /\ FileOf(t) = t
      /\ maps \in [Windows -> Seq(Mapping)] /\ maps[w] \in Seq(Mapping)
      /\ pc \in [Tasks -> PC] /\ loc \in [Tasks -> Local]
  BY DEF IInv, TypeOK, Processes, Tasks, FileOf
<1>1. CASE maps' = maps
  BY <1>1
<1>2. CASE FindHit(t)
  <2>1. PICK m \in Mapping : m = NewMapping(t, w) /\ m.file = t
    <3>1. NewMapping(t, w) \in Mapping
      BY <1>2, NewMappingType DEF FindHit, IInv, ControlInv, FreeOK, Finding, Going
    <3>2. NewMapping(t, w).file = FileOf(t)
      BY DEF NewMapping
    <3> QED
      BY <1>0, <3>1, <3>2
  <2>2. /\ pc[t] = "find" /\ maps' = [maps EXCEPT ![w] = Append(@, m)] /\ Finish(t)
    BY <1>w, <1>2, <2>1 DEF FindHit
  <2>3. maps'[v] = maps[v] \/ (v = w /\ maps'[v] = Append(maps[w], m))
    BY <1>0, <2>2
  <2>4. u # t => Own(Append(maps[w], m), u) = Own(maps[w], u)
    BY <1>0, <2>1, OwnAppend
  <2> QED
    BY <1>0, <2>2, <2>3, <2>4, CallerEnds
<1>3. CASE Link(t)
  <2>1. PICK m \in Mapping : m = loc[t].m /\ m.file = t
    BY <1>0, <1>3, LocalFields DEF Link, IInv, ControlInv, MappingOK, NewEntry
  <2>2. pc[t] = "link" /\ maps[w] = <<>> /\ loc[t].tail = NoId
    BY <1>w, <1>3 DEF Link, IInv, TableInv, LinkOK
  <2>3. maps' = [maps EXCEPT ![w] = Linked(@, loc[t].tail, m)] /\ Finish(t)
    BY <1>w, <1>3, <2>1 DEF Link
  <2>4. Linked(maps[w], loc[t].tail, m) = <<m>>
    BY <2>2 DEF Linked
  <2>5. Append(maps[w], m) = <<m>>
    BY <2>2
  <2>6. maps'[v] = maps[v] \/ (v = w /\ maps'[v] = Append(maps[w], m))
    BY <1>0, <2>3, <2>4, <2>5
  <2>7. u # t => Own(Append(maps[w], m), u) = Own(maps[w], u)
    BY <1>0, <2>1, OwnAppend
  <2> QED
    BY <1>0, <2>2, <2>3, <2>6, <2>7, CallerEnds
<1>4. CASE Release(t)
  <2>1. pc[t] = "release" /\ loc[t].op = "release" /\ loc[t].m.file = t
    BY <1>4 DEF Release, CallerOK, Going
  <2>2. t # Nobody
    BY ClientsAssumption DEF Tasks
  <2>3. Removed(t) \subseteq Removable(w, loc[t].m)
    BY <1>w, <2>1 DEF Removed, Stale
  <2>4. PICK i \in 1 .. Len(maps[w]) : /\ maps' = [maps EXCEPT ![w] = Without(@, i)]
                                       /\ maps[w][i].file = t
    <3>1. PICK i \in Removed(t) : maps' = [maps EXCEPT ![w] = Without(@, i)]
      BY <1>w, <1>4 DEF Release
    <3>2. i \in Removable(w, loc[t].m)
      BY <2>3
    <3>3. i \in 1 .. Len(maps[w]) /\ maps[w][i].file = t
      BY <2>1, <2>2, <3>2 DEF Removable
    <3> QED
      BY <3>1, <3>3
  <2>5. maps'[v] = maps[v] \/ (v = w /\ maps'[v] = Without(maps[w], i))
    BY <1>0, <2>4
  <2>6. u # t => Own(Without(maps[w], i), u) = Own(maps[w], u)
    BY <1>0, <2>4, OwnWithout
  <2>7. pc'[t] # pc[t]
    <3>1. CASE Finish(t)
      BY <1>0, <2>1, <3>1, CallerEnds
    <3>2. CASE WaitFor(t, w, "destroy", loc[t])
      BY <1>0, <2>1, <3>2 DEF WaitFor
    <3> QED
      BY <1>w, <1>4, <3>1, <3>2 DEF Release
  <2> QED
    BY <2>5, <2>6, <2>7
<1>5. CASE CloseWindow(t)
  <2>1. /\ pc[t] = "close"
        /\ (maps' = maps \/ maps' = [maps EXCEPT ![w] = Others(maps[w], t)])
    BY <1>w, <1>5 DEF CloseWindow
  <2>2. maps'[v] = maps[v] \/ (v = w /\ maps'[v] = Others(maps[w], t))
    BY <1>0, <2>1
  <2>3. u # t => Own(Others(maps[w], t), u) = Own(maps[w], u)
    BY <1>0, OwnOthers
  <2>4. pc'[t] # pc[t]
    BY <1>0, <1>5, <2>1 DEF CloseWindow, WaitFor
  <2> QED
    BY <2>2, <2>3, <2>4
<1>6. CASE Destroy(t)
  <2>1. Going(t) = "destroy" /\ loc[t].op \in {"destroy", "release"} /\ loc[t].op \in Ops \cup {"none"}
    BY <1>0, <1>6, LocalFields DEF Destroy, CallerOK, Going
  <2>2. maps[w] = <<>>
    BY <1>w, <2>1 DEF Processes, IInv, TableInv, DestroyOK
  <2>3. maps' = maps \/ maps' = [maps EXCEPT ![w] = <<>>]
    BY <1>w, <1>6 DEF Destroy, table
  <2>4. maps'[v] = maps[v]
    BY <1>0, <2>2, <2>3
  <2> QED
    BY <2>4
<1>7. CASE \/ Call(t) \/ Lock(t) \/ Interrupted(t) \/ CreateRefused(t) \/ CreateFails(t)
           \/ Create(t) \/ FindNoMemory(t) \/ FindNext(t) \/ FindMiss(t) \/ Attach(t)
           \/ ReleaseFails(t) \/ Lookup(t) \/ Reopen(t)
  BY <1>1, <1>7 DEF Call, CallCreate, CallDestroy, CallFind, CallRelease, CallReturn, CallClose,
     SetOptions, Lock, Interrupted, CreateRefused, CreateFails, Create, FindNoMemory, FindNext,
     FindMiss, Attach, ReleaseFails, Lookup, Reopen, table
<1> QED
  BY <1>2, <1>3, <1>4, <1>5, <1>6, <1>7 DEF Step

\* The mappings of a process come and go by its own calls only, for any number
\* of processes that find, release and close, when calls do not overlap or the
\* options have their default values.
THEOREM MappingsPrivate ==
  ASSUME Orderly, Processes
  PROVE  Spec => MappingsArePrivate
<1> DEFINE Callers == \A t \in Tasks : CallerOK(t)
           Private == \A u \in Users :
                        (\E w \in Windows : Own(maps'[w], u) # Own(maps[w], u)) => pc'[u] # pc[u]
<1>1. Init => Callers
  BY DEF Init, CallerOK, Going
<1>2. IInv /\ Callers /\ [Next]_vars => Callers'
  <2> SUFFICES ASSUME IInv, Callers, [Next]_vars PROVE Callers'
    OBVIOUS
  <2>1. CASE UNCHANGED vars
    BY <2>1 DEF vars, CallerOK, Going
  <2>2. CASE Next
    <3>1. PICK t \in Tasks : Call(t) \/ Lock(t) \/ Interrupted(t) \/ Step(t)
      BY <2>2 DEF Next
    <3>2. CallerOK(t)' /\ Stay(t)
      BY <3>1, CallersStep DEF Processes
    <3>3. ASSUME NEW u \in Tasks, u # t PROVE CallerOK(u)'
      BY <3>2, <3>3 DEF Stay, CallerOK, Going
    <3> QED
      BY <3>2, <3>3
  <2> QED
    BY <2>1, <2>2
<1>3. IInv /\ Callers /\ [Next]_vars => [Private]_vars
  <2> SUFFICES ASSUME IInv, Callers, Next PROVE Private
    OBVIOUS
  <2>1. PICK t \in Tasks : Call(t) \/ Lock(t) \/ Interrupted(t) \/ Step(t)
    BY DEF Next
  <2>2. \A u \in Users, v \in Windows :
          Own(maps'[v], u) = Own(maps[v], u) \/ (u = t /\ pc'[t] # pc[t])
    BY <2>1, PrivateStep
  <2> QED
    BY <2>2
<1> QED
  BY <1>1, <1>2, <1>3, Invariance, PTL DEF Spec, MappingsArePrivate

-----------------------------------------------------------------------------
(* What a process holds stays mapped.                                      *)

\* The places in a list of a file's mappings of what the handle h stands for.
Alike(e, file, h) ==
  e.file = file /\ e.addr = h.addr /\ e.size = h.size /\ e.va = h.va
Like(list, file, h) == {i \in 1 .. Len(list) : Alike(list[i], file, h)}

\* They can be counted.
LEMMA LikeFinite ==
  ASSUME NEW S, NEW list \in Seq(S), NEW file, NEW h
  PROVE  /\ IsFiniteSet(Like(list, file, h)) /\ Cardinality(Like(list, file, h)) \in Nat
         /\ list = <<>> => Cardinality(Like(list, file, h)) = 0
<1>1. Len(list) \in Nat
  OBVIOUS
<1>2. IsFiniteSet(1 .. Len(list))
  BY <1>1, FS_Interval
<1>3. Like(list, file, h) \in SUBSET (1 .. Len(list))
  BY DEF Like
<1>4. IsFiniteSet(Like(list, file, h))
  BY <1>2, <1>3, FS_Subset
<1>5. list = <<>> => Like(list, file, h) = {}
  BY <1>3
<1> QED
  BY <1>4, <1>5, FS_CardinalityType, FS_EmptySet

\* A mapping added counts if it is one of them.
LEMMA LikeAppend ==
  ASSUME NEW S, NEW list \in Seq(S), NEW e \in S, NEW file, NEW h
  PROVE  Cardinality(Like(Append(list, e), file, h)) =
           Cardinality(Like(list, file, h)) + (IF Alike(e, file, h) THEN 1 ELSE 0)
<1>0. PICK n \in Nat : n = Len(list)
  OBVIOUS
<1>1. PICK more : more = Append(list, e)
  OBVIOUS
<1>2. /\ Len(more) = n + 1 /\ more[n + 1] = e
      /\ \A i \in 1 .. n : more[i] = list[i]
  BY <1>0, <1>1
<1>3. IsFiniteSet(Like(list, file, h)) /\ Cardinality(Like(list, file, h)) \in Nat
  BY LikeFinite
<1>4. n + 1 \notin Like(list, file, h)
  BY <1>0 DEF Like
<1>5. CASE Alike(e, file, h)
  <2>1. Like(more, file, h) = Like(list, file, h) \cup {n + 1}
    BY <1>0, <1>2, <1>5 DEF Like
  <2> QED
    BY <1>1, <1>3, <1>4, <1>5, <2>1, FS_AddElement
<1>6. CASE ~Alike(e, file, h)
  <2>1. Like(more, file, h) = Like(list, file, h)
    BY <1>0, <1>2, <1>6 DEF Like
  <2> QED
    BY <1>1, <1>3, <1>6, <2>1
<1> QED
  BY <1>5, <1>6

\* A mapping removed counted if it was one of them.
LEMMA LikeWithout ==
  ASSUME NEW S, NEW list \in Seq(S), NEW k \in 1 .. Len(list), NEW file, NEW h
  PROVE  Cardinality(Like(Without(list, k), file, h)) =
           Cardinality(Like(list, file, h)) - (IF Alike(list[k], file, h) THEN 1 ELSE 0)
<1>0. PICK n \in Nat : n = Len(list) /\ k \in 1 .. n /\ n - 1 \in Nat
  OBVIOUS
<1>1. PICK less : less = Without(list, k)
  OBVIOUS
<1>2. /\ Len(less) = n - 1 /\ \A j \in 1 .. k - 1 : less[j] = list[j]
      /\ \A j \in k .. n - 1 : less[j] = list[j + 1]
  BY <1>0, <1>1, WithoutIs
<1>3. IsFiniteSet(Like(list, file, h)) /\ Cardinality(Like(list, file, h)) \in Nat
  BY LikeFinite
<1>4. PICK rest : rest = Like(list, file, h) \ {k}
  OBVIOUS
<1>5. /\ IsFiniteSet(rest)
      /\ Cardinality(rest) =
           Cardinality(Like(list, file, h)) - (IF Alike(list[k], file, h) THEN 1 ELSE 0)
  <2>1. k \in Like(list, file, h) <=> Alike(list[k], file, h)
    BY DEF Like
  <2> QED
    BY <1>3, <1>4, <2>1, FS_RemoveElement
<1>6. PICK f : f = [i \in rest |-> IF i < k THEN i ELSE i - 1]
  OBVIOUS
<1>7. f \in Bijection(rest, Like(less, file, h))
  <2>1. \A i \in rest : /\ i \in 1 .. n /\ i # k /\ Alike(list[i], file, h)
                        /\ f[i] = IF i < k THEN i ELSE i - 1
    BY <1>0, <1>4, <1>6 DEF Like
  <2>2. \A i \in rest : f[i] \in 1 .. n - 1 /\ less[f[i]] = list[i]
    BY <1>0, <1>2, <2>1
  <2>3. f \in [rest -> Like(less, file, h)]
    BY <1>2, <1>6, <2>1, <2>2 DEF Like
  <2>4. \A i, j \in rest : f[i] = f[j] => i = j
    BY <1>0, <2>1
  <2>5. ASSUME NEW j \in Like(less, file, h) PROVE \E i \in rest : f[i] = j
    <3>1. j \in 1 .. n - 1 /\ Alike(less[j], file, h)
      BY <1>2 DEF Like
    <3>2. CASE j < k
      <4>1. j \in 1 .. n /\ list[j] = less[j] /\ j # k
        BY <1>0, <1>2, <3>1, <3>2
      <4>2. j \in rest
        BY <1>0, <1>4, <3>1, <4>1 DEF Like
      <4> QED
        BY <2>1, <3>2, <4>2
    <3>3. CASE ~(j < k)
      <4>1. j + 1 \in 1 .. n /\ list[j + 1] = less[j] /\ j + 1 # k /\ ~(j + 1 < k)
        BY <1>0, <1>2, <3>1, <3>3
      <4>2. j + 1 \in rest
        BY <1>0, <1>4, <3>1, <4>1 DEF Like
      <4>3. f[j + 1] = (j + 1) - 1
        BY <2>1, <4>1, <4>2
      <4> QED
        BY <3>1, <4>2, <4>3
    <3> QED
      BY <3>2, <3>3
  <2> QED
    BY <2>3, <2>4, <2>5 DEF Bijection, Injection, Surjection, IsInjective
<1>8. Cardinality(Like(less, file, h)) = Cardinality(rest)
  BY <1>5, <1>7, FS_Bijection DEF ExistsBijection
<1> QED
  BY <1>1, <1>5, <1>8

\* Own() leaves none of them out.
LEMMA LikeOwn ==
  ASSUME NEW S, NEW list \in Seq(S), NEW file, NEW h
  PROVE  Cardinality(Like(list, file, h)) = Cardinality(Like(Own(list, file), file, h))
<1>0. PICK n \in Nat : n = Len(list)
  OBVIOUS
<1>1. PICK f : Own(list, file) = f[n] /\ IsOwn(f, list, file)
  BY <1>0, OwnIs
<1> DEFINE Upto(k) == Like(list, file, h) \cap (1 .. k)
           Good(k) == /\ f[k] \in Seq(S) /\ IsFiniteSet(Upto(k))
                      /\ Cardinality(Upto(k)) \in Nat
                      /\ Cardinality(Like(f[k], file, h)) = Cardinality(Upto(k))
           Bad == {k \in 0 .. n : ~Good(k)}
<1> HIDE DEF Upto, Good
<1>2. ASSUME Bad # {} PROVE FALSE
  <2>0. Bad \in SUBSET Nat
    BY <1>0
  <2>1. PICK k \in Bad : \A j \in Bad : k <= j
    BY <1>2, <2>0, Least
  <2>2. CASE k = 0
    <3>0. f[0] = <<>>
      BY <1>1 DEF IsOwn
    <3>1. f[k] = <<>> /\ f[k] \in Seq(S)
      BY <2>2, <3>0
    <3>2. Upto(k) = {}
      BY <2>2 DEF Upto
    <3>3. Cardinality(Like(f[k], file, h)) = 0
      BY <3>1, LikeFinite
    <3>4. Good(k)
      BY <3>1, <3>2, <3>3, FS_EmptySet DEF Good
    <3> QED
      BY <2>1, <3>4
  <2>3. CASE k # 0
    <3>1. k \in 1 .. n /\ k - 1 \in 0 .. n /\ Good(k - 1)
      BY <1>0, <2>1, <2>3
    <3>u. PICK U : U = Upto(k - 1)
      OBVIOUS
    <3>2. PICK s \in Seq(S) : /\ s = f[k - 1] /\ U = Upto(k - 1)
                              /\ IsFiniteSet(U) /\ Cardinality(U) \in Nat
                              /\ Cardinality(Like(s, file, h)) = Cardinality(U)
      BY <3>1, <3>u DEF Good
    <3>3. PICK e \in S : e = list[k]
      BY <1>0, <3>1
    <3>4. f[k] = IF e.file = file THEN Append(s, e) ELSE s
      BY <1>0, <1>1, <3>1, <3>2, <3>3 DEF IsOwn
    <3>5. k \notin U /\ (k \in Like(list, file, h) <=> Alike(e, file, h))
      BY <1>0, <3>1, <3>2, <3>3 DEF Like, Upto
    <3>6. f[k] \in Seq(S)
      BY <3>4
    <3>7. CASE Alike(e, file, h)
      <4>1. Upto(k) = U \cup {k}
        BY <1>0, <3>1, <3>2, <3>5, <3>7 DEF Upto
      <4>2. f[k] = Append(s, e)
        BY <3>4, <3>7 DEF Alike
      <4>3. Cardinality(Like(f[k], file, h)) = Cardinality(U) + 1
        BY <3>2, <3>7, <4>2, LikeAppend
      <4>4. IsFiniteSet(U \cup {k}) /\ Cardinality(U \cup {k}) = Cardinality(U) + 1
        BY <3>2, <3>5, FS_AddElement
      <4>5. Good(k)
        BY <3>2, <3>6, <4>1, <4>3, <4>4 DEF Good
      <4> QED
        BY <2>1, <4>5
    <3>8. CASE ~Alike(e, file, h)
      <4>1. Upto(k) = U
        BY <1>0, <3>1, <3>2, <3>5, <3>8 DEF Upto
      <4>2. Cardinality(Like(f[k], file, h)) = Cardinality(U)
        BY <3>2, <3>4, <3>8, LikeAppend
      <4>3. Good(k)
        BY <3>2, <3>6, <4>1, <4>2 DEF Good
      <4> QED
        BY <2>1, <4>3
    <3> QED
      BY <3>7, <3>8
  <2> QED
    BY <2>2, <2>3
<1>3. Good(n)
  BY <1>0, <1>2
<1>4. Upto(n) = Like(list, file, h)
  BY <1>0 DEF Like, Upto
<1> QED
  BY <1>1, <1>3, <1>4 DEF Good

\* The handles among S of what h stands for.
Handles(S, h) == {g \in S : Same(g, h)}

\* A process has an entry for each of its handles, unless it is closing the
\* device; it closes the device in vme_window_release() only; and it releases
\* what one of its handles stands for.
CountOK(t) == \A h \in held[t] :
                Cardinality(Handles(held[t], h)) <= Cardinality(Like(maps[h.win], t, h))
ClosingOK(t) == Closing(t) <=> Going(t) \in {"close", "closed"}
ReleasingOK(t) ==
  Going(t) = "release" =>
    \E h \in held[t] : /\ h.id = loc[t].handle /\ h.win = loc[t].win
                       /\ h.addr = loc[t].m.addr /\ h.size = loc[t].m.size
                       /\ h.va = loc[t].m.va
HolderOK(t) == /\ ClosingOK(t) /\ ReleasingOK(t)
               /\ IsFiniteSet(held[t]) /\ (~Closing(t) => CountOK(t))

\* A step that leaves a process its handles and its own mappings.
LEMMA CountFrame ==
  ASSUME maps \in [Windows -> Seq(Mapping)], maps' \in [Windows -> Seq(Mapping)],
         held \in [Tasks -> SUBSET HandleType], NEW u \in Tasks, held'[u] = held[u],
         \A w \in Windows : Own(maps'[w], u) = Own(maps[w], u), CountOK(u)
  PROVE  CountOK(u)'
<1> SUFFICES ASSUME NEW h \in held[u]
             PROVE  Cardinality(Handles(held[u], h)) <= Cardinality(Like(maps'[h.win], u, h))
  BY DEF CountOK
<1>1. h.win \in Windows
  BY DEF HandleType
<1>2. PICK a \in Seq(Mapping), b \in Seq(Mapping) : a = maps[h.win] /\ b = maps'[h.win]
  BY <1>1
<1>3. Own(a, u) = Own(b, u)
  BY <1>1, <1>2
<1>4. Cardinality(Like(a, u, h)) = Cardinality(Like(b, u, h))
  BY <1>3, LikeOwn
<1> QED
  BY <1>2, <1>4 DEF CountOK

\* A process gets a mapping and a handle for it, or a mapping only.
LEMMA CountMore ==
  ASSUME TypeOK, NEW t \in Tasks, NEW w \in Windows, NEW m \in Mapping, m.file = t,
         maps' = [maps EXCEPT ![w] = Append(@, m)],
         \/ held'[t] = held[t] \cup {Handle(m, w)}
         \/ held'[t] = held[t],
         IsFiniteSet(held[t]), CountOK(t)
  PROVE  IsFiniteSet(held'[t]) /\ CountOK(t)'
<1>0. maps \in [Windows -> Seq(Mapping)] /\ held[t] \in SUBSET HandleType
  BY DEF TypeOK
<1>1. PICK H, g : H = held[t] /\ g = Handle(m, w) /\ IsFiniteSet(H)
  OBVIOUS
<1>2. /\ g \in HandleType /\ g.win = w /\ g.addr = m.addr /\ g.size = m.size /\ g.va = m.va
  BY <1>1 DEF Handle, HandleType, Mapping
<1>3. IsFiniteSet(held'[t])
  BY <1>1, FS_AddElement
<1>4. ASSUME NEW h \in HandleType, h \in held'[t]
      PROVE  Cardinality(Handles(held'[t], h)) <= Cardinality(Like(maps'[h.win], t, h))
  <2>0. h.win \in Windows
    BY DEF HandleType
  <2>1. PICK list \in Seq(Mapping) : list = maps[h.win]
    BY <1>0, <2>0
  <2>2. Cardinality(Like(list, t, h)) \in Nat
    BY <2>1, LikeFinite
  <2>3. /\ IsFiniteSet(Handles(H, h)) /\ Cardinality(Handles(H, h)) \in Nat
    BY <1>1, FS_Subset, FS_CardinalityType DEF Handles
  <2>4. Cardinality(Handles(H, h)) <= Cardinality(Like(list, t, h))
    <3>1. CASE \E k \in H : Same(k, h)
      <4>1. PICK k \in H : Same(k, h)
        BY <3>1
      <4>2. Handles(H, k) = Handles(H, h) /\ k.win = h.win
        BY <4>1 DEF Handles, Same
      <4>3. Like(list, t, k) = Like(list, t, h)
        BY <4>1 DEF Like, Alike, Same
      <4>4. Cardinality(Handles(H, k)) <= Cardinality(Like(maps[k.win], t, k))
        BY <1>1, <4>1 DEF CountOK
      <4> QED
        BY <2>1, <4>2, <4>3, <4>4
    <3>2. CASE ~\E k \in H : Same(k, h)
      <4>1. Handles(H, h) = {}
        BY <3>2 DEF Handles
      <4> QED
        BY <2>2, <4>1, FS_EmptySet
    <3> QED
      BY <3>1, <3>2
  <2>5. CASE Same(g, h)
    <3>1. h.win = w /\ Alike(m, t, h)
      BY <1>2, <2>5 DEF Same, Alike
    <3>2. maps'[h.win] = Append(list, m)
      BY <1>0, <2>1, <3>1
    <3>3. Cardinality(Like(maps'[h.win], t, h)) = Cardinality(Like(list, t, h)) + 1
      BY <3>1, <3>2, LikeAppend
    <3>4. Handles(held'[t], h) = Handles(H, h) \cup {g} \/ Handles(held'[t], h) = Handles(H, h)
      BY <1>1, <2>5 DEF Handles
    <3>5. /\ Cardinality(Handles(H, h) \cup {g}) \in Nat
          /\ Cardinality(Handles(H, h) \cup {g}) <= Cardinality(Handles(H, h)) + 1
      <4>1. PICK T : T = Handles(H, h) /\ IsFiniteSet(T) /\ Cardinality(T) \in Nat
        BY <2>3
      <4>2. Cardinality(T \cup {g}) = IF g \in T THEN Cardinality(T) ELSE Cardinality(T) + 1
        BY <4>1, FS_AddElement
      <4> QED
        BY <4>1, <4>2
    <3>6. \/ Cardinality(Handles(held'[t], h)) = Cardinality(Handles(H, h) \cup {g})
          \/ Cardinality(Handles(held'[t], h)) = Cardinality(Handles(H, h))
      BY <3>4, Zenon
    <3>7. PICK a \in Nat, b \in Nat, c \in Nat :
            /\ a = Cardinality(Handles(H, h)) /\ b = Cardinality(Like(list, t, h))
            /\ c = Cardinality(Handles(H, h) \cup {g}) /\ a <= b /\ c <= a + 1
      BY <2>2, <2>3, <2>4, <3>5
    <3> QED
      BY <3>3, <3>6, <3>7
  <2>6. CASE ~Same(g, h)
    <3>1. Handles(held'[t], h) = Handles(H, h)
      BY <1>1, <2>6 DEF Handles
    <3>2. CASE h.win = w
      <4>1. ~Alike(m, t, h)
        BY <1>2, <2>6, <3>2 DEF Same, Alike
      <4>2. maps'[h.win] = Append(list, m)
        BY <1>0, <2>1, <3>2
      <4>3. Cardinality(Like(Append(list, m), t, h)) =
              Cardinality(Like(list, t, h)) + (IF Alike(m, t, h) THEN 1 ELSE 0)
        BY LikeAppend
      <4>4. Cardinality(Like(Append(list, m), t, h)) = Cardinality(Like(list, t, h))
        <5>1. PICK b \in Nat : b = Cardinality(Like(list, t, h))
          BY <2>2
        <5>2. (IF Alike(m, t, h) THEN 1 ELSE 0) = 0
          BY <4>1
        <5>3. Cardinality(Like(Append(list, m), t, h)) = b + 0
          BY <4>3, <5>1, <5>2, Zenon
        <5> QED
          BY <5>1, <5>3
      <4>5. Cardinality(Like(maps'[h.win], t, h)) = Cardinality(Like(list, t, h))
        BY <4>2, <4>4, Zenon
      <4> QED
        BY <2>4, <3>1, <4>5
    <3>3. CASE h.win # w
      <4>1. maps'[h.win] = list
        BY <1>0, <2>0, <2>1, <3>3
      <4> QED
        BY <2>4, <3>1, <4>1
    <3> QED
      BY <3>2, <3>3
  <2> QED
    BY <2>5, <2>6
<1>5. held'[t] \subseteq HandleType
  BY <1>0, <1>1, <1>2
<1> QED
  BY <1>3, <1>4, <1>5 DEF CountOK

\* A process gives up handles and keeps its mappings.
LEMMA CountFewer ==
  ASSUME TypeOK, NEW t \in Tasks, maps' = maps, held'[t] \subseteq held[t],
         IsFiniteSet(held[t]), CountOK(t)
  PROVE  IsFiniteSet(held'[t]) /\ CountOK(t)'
<1>1. IsFiniteSet(held'[t])
  BY FS_Subset
<1>2. ASSUME NEW h \in held'[t]
      PROVE  Cardinality(Handles(held'[t], h)) <= Cardinality(Like(maps'[h.win], t, h))
  <2>0. h \in held[t] /\ h.win \in Windows
    BY DEF TypeOK, HandleType
  <2>1. PICK A, B : A = Handles(held'[t], h) /\ B = Handles(held[t], h)
    OBVIOUS
  <2>2. A \in SUBSET B /\ B \in SUBSET held[t]
    BY <2>1 DEF Handles
  <2>3. IsFiniteSet(B) /\ IsFiniteSet(A)
    BY <2>2, FS_Subset
  <2>4. Cardinality(A) \in Nat /\ Cardinality(B) \in Nat /\ Cardinality(A) <= Cardinality(B)
    BY <2>2, <2>3, FS_Subset, FS_CardinalityType
  <2>5. Cardinality(Like(maps[h.win], t, h)) \in Nat
    BY <2>0, LikeFinite DEF TypeOK
  <2>6. Cardinality(B) <= Cardinality(Like(maps[h.win], t, h))
    BY <2>0, <2>1 DEF CountOK
  <2> QED
    BY <2>1, <2>4, <2>5, <2>6
<1> QED
  BY <1>1, <1>2 DEF CountOK

\* A process gives up a handle k, and a mapping it stands for goes.
LEMMA CountLess ==
  ASSUME TypeOK, NEW t \in Tasks, NEW w \in Windows, NEW i \in 1 .. Len(maps[w]),
         maps' = [maps EXCEPT ![w] = Without(@, i)],
         NEW k \in held[t], k.win = w, Alike(maps[w][i], t, k),
         held'[t] \subseteq held[t] \ {k},
         IsFiniteSet(held[t]), CountOK(t)
  PROVE  IsFiniteSet(held'[t]) /\ CountOK(t)'
<1>0. maps \in [Windows -> Seq(Mapping)] /\ held[t] \in SUBSET HandleType
  BY DEF TypeOK
<1>1. IsFiniteSet(held'[t])
  BY FS_Subset
<1>2. ASSUME NEW h \in held'[t]
      PROVE  Cardinality(Handles(held'[t], h)) <= Cardinality(Like(maps'[h.win], t, h))
  <2>0. h \in held[t] /\ h.win \in Windows
    BY <1>0 DEF HandleType
  <2>1. PICK A, B : A = Handles(held'[t], h) /\ B = Handles(held[t], h)
    OBVIOUS
  <2>2. A \in SUBSET (B \ {k}) /\ B \in SUBSET held[t] /\ (k \in B <=> Same(k, h))
    BY <2>1 DEF Handles
  <2>3. IsFiniteSet(B) /\ IsFiniteSet(B \ {k}) /\ IsFiniteSet(A)
    BY <2>2, FS_Subset, FS_RemoveElement
  <2>4. PICK a \in Nat, b \in Nat : a = Cardinality(A) /\ b = Cardinality(B)
    BY <2>3, FS_CardinalityType
  <2>5. a <= IF Same(k, h) THEN b - 1 ELSE b
    <3>1. Cardinality(A) <= Cardinality(B \ {k})
      BY <2>2, <2>3, FS_Subset
    <3>2. Cardinality(B \ {k}) = IF k \in B THEN Cardinality(B) - 1 ELSE Cardinality(B)
      BY <2>3, FS_RemoveElement
    <3> QED
      BY <2>2, <2>4, <3>1, <3>2
  <2>6. PICK list \in Seq(Mapping), new \in Seq(Mapping) :
          /\ list = maps[h.win] /\ new = maps'[h.win]
          /\ IF h.win = w THEN i \in 1 .. Len(list) /\ new = Without(list, i) ELSE new = list
    <3>1. CASE h.win = w
      <4>1. maps'[h.win] = Without(maps[h.win], i)
        BY <1>0, <3>1
      <4>2. Without(maps[h.win], i) \in Seq(Mapping)
        BY <1>0, <3>1, WithoutIs
      <4> QED
        BY <1>0, <3>1, <4>1, <4>2
    <3>2. CASE h.win # w
      BY <1>0, <2>0, <3>2
    <3> QED
      BY <3>1, <3>2
  <2>7. PICK c \in Nat, d \in Nat : /\ c = Cardinality(Like(list, t, h))
                                    /\ d = Cardinality(Like(new, t, h))
    BY LikeFinite
  <2>8. b <= c
    BY <2>0, <2>1, <2>4, <2>6, <2>7 DEF CountOK
  <2>9. d >= IF Same(k, h) THEN c - 1 ELSE c
    <3>1. CASE h.win = w
      <4>1. i \in 1 .. Len(list) /\ new = Without(list, i)
        BY <2>6, <3>1
      <4>2. Cardinality(Like(Without(list, i), t, h)) =
              Cardinality(Like(list, t, h)) - (IF Alike(list[i], t, h) THEN 1 ELSE 0)
        BY <4>1, LikeWithout
      <4>3. d = c - (IF Alike(list[i], t, h) THEN 1 ELSE 0)
        BY <2>7, <4>1, <4>2, Zenon
      <4>4. Alike(list[i], t, h) => Same(k, h)
        BY <2>6, <3>1 DEF Alike, Same
      <4> QED
        BY <4>3, <4>4
    <3>2. CASE h.win # w
      <4>1. c = d
        BY <2>6, <2>7, <3>2, Zenon
      <4> QED
        BY <4>1
    <3> QED
      BY <3>1, <3>2
  <2>10. a <= d
    BY <2>5, <2>8, <2>9
  <2> QED
    BY <2>1, <2>4, <2>6, <2>7, <2>10, Zenon
<1> QED
  BY <1>1, <1>2 DEF CountOK

\* A process whose call is over.
LEMMA HolderEnds ==
  ASSUME TypeOK, NEW t \in Tasks, Finish(t), IsFiniteSet(held'[t]), CountOK(t)'
  PROVE  HolderOK(t)'
<1>1. pc'[t] = "idle" /\ loc'[t] = NoLoc
  BY FinishEffect
<1> QED
  BY <1>1 DEF HolderOK, ClosingOK, ReleasingOK, Closing, Going, NoLoc

\* A call of a process that goes on to something else than a release.
LEMMA HolderGoesOn ==
  ASSUME NEW t \in Tasks, maps' = maps, held'[t] = held[t],
         Closing(t)' <=> Going(t)' \in {"close", "closed"}, Going(t)' # "release",
         IsFiniteSet(held[t]), ~Closing(t)' => CountOK(t)
  PROVE  HolderOK(t)'
<1>1. ~Closing(t)' => CountOK(t)'
  BY DEF CountOK
<1> QED
  BY <1>1 DEF HolderOK, ClosingOK, ReleasingOK

\* Every step of a process keeps what it holds mapped.
LEMMA HolderStep ==
  ASSUME IInv, Orderly, Processes, NEW t \in Tasks, CallerOK(t), HolderOK(t),
         Call(t) \/ Lock(t) \/ Interrupted(t) \/ Step(t)
  PROVE  HolderOK(t)' /\ \A u \in Tasks : u # t => held'[u] = held[u]
<1>w. PICK w \in Windows : w = loc[t].win
  BY LocalFields DEF IInv, TypeOK
<1>0. /\ TypeOK /\ loc[t] \in Local /\ t \in Users /\ t \notin Kernel /\ FileOf(t) = t
      /\ pc \in [Tasks -> PC] /\ loc \in [Tasks -> Local] /\ 0 \in Windows
      /\ held \in [Tasks -> SUBSET HandleType] /\ maps \in [Windows -> Seq(Mapping)]
  BY Sizes DEF IInv, TypeOK, Processes, Tasks, FileOf
<1>h. /\ ClosingOK(t) /\ ReleasingOK(t) /\ IsFiniteSet(held[t])
      /\ ~Closing(t) => CountOK(t)
  BY DEF HolderOK
<1>q. \A r \in Requests[t] : r \in Request
  BY RequestsAssumption DEF Request
<1>1. ASSUME maps' = maps, held' = held, Finish(t), ~Closing(t) PROVE HolderOK(t)'
  BY <1>0, <1>h, <1>1, HolderEnds DEF CountOK
<1>2. ASSUME maps' = maps, held' = held, NEW v \in Windows, NEW next \in Locked,
             NEW l \in Local, WaitFor(t, v, next, l), next # "release",
             l.op = "close" <=> next = "close", ~Closing(t)
      PROVE  HolderOK(t)'
  <2>1. next \in PC
    BY DEF PC, Locked
  <2>2. pc'[t] = "lock" /\ loc'[t].next = next /\ loc'[t].op = l.op
    BY <1>0, <1>2, <2>1, WaitEffect
  <2>3. /\ Closing(t)' <=> Going(t)' \in {"close", "closed"}
        /\ Going(t)' # "release"
    BY <1>2, <2>2 DEF Closing, Going, Locked
  <2> QED
    BY <1>h, <1>2, <2>3, HolderGoesOn
<1>3. CASE Call(t)
  <2>0. pc[t] = "idle" /\ held' = held /\ maps' = maps
    BY <1>3 DEF Call, CallCreate, CallDestroy, CallFind, CallRelease, CallReturn, CallClose,
       SetOptions, table
  <2>1. ~Closing(t)
    BY <1>h, <2>0 DEF ClosingOK, Going
  <2>2. CASE CallCreate(t)
    <3>1. PICK v \in Windows, r \in Requests[t] :
            WaitFor(t, v, "create", [NoLoc EXCEPT !.op = "create", !.wnd = Rounded(r)])
      BY <2>2 DEF CallCreate
    <3>2. /\ [NoLoc EXCEPT !.op = "create", !.wnd = Rounded(r)] \in Local
          /\ [NoLoc EXCEPT !.op = "create", !.wnd = Rounded(r)].op = "create"
      BY <1>q, <2>2, NoLocType, RequestTypes DEF Local, CallCreate
    <3> QED
      BY <1>2, <2>0, <2>1, <3>1, <3>2 DEF Locked
  <2>3. CASE CallFind(t)
    <3>1. PICK r \in Requests[t], force \in BOOLEAN :
            WaitFor(t, 0, "find", [NoLoc EXCEPT !.op = "find", !.match = r, !.force = force])
      BY <1>0, <2>3 DEF CallFind, TypeOK
    <3>2. /\ [NoLoc EXCEPT !.op = "find", !.match = r, !.force = force] \in Local
          /\ [NoLoc EXCEPT !.op = "find", !.match = r, !.force = force].op = "find"
      BY <1>q, <2>3, NoLocType DEF Local, CallFind
    <3> QED
      BY <1>0, <1>2, <2>0, <2>1, <3>1, <3>2 DEF Locked
  <2>4. CASE CallClose(t)
    <3>1. WaitFor(t, 0, "close", [NoLoc EXCEPT !.op = "close"])
      BY <2>4 DEF CallClose
    <3>2. [NoLoc EXCEPT !.op = "close"] \in Local /\ [NoLoc EXCEPT !.op = "close"].op = "close"
      BY <2>4, NoLocType DEF Local, CallClose
    <3> QED
      BY <1>0, <1>2, <2>0, <2>1, <3>1, <3>2 DEF Locked
  <2>5. CASE CallRelease(t)
    <3>1. PICK h \in held[t], force \in BOOLEAN :
            WaitFor(t, h.win, "release",
                    [NoLoc EXCEPT !.op = "release", !.handle = h.id, !.force = force,
                      !.m = [id |-> h.id, addr |-> h.addr, size |-> h.size,
                             va |-> h.va, file |-> FileOf(t)]])
      BY <1>0, <2>5 DEF CallRelease, TypeOK
    <3> DEFINE m == [id |-> h.id, addr |-> h.addr, size |-> h.size, va |-> h.va,
                     file |-> FileOf(t)]
               l == [NoLoc EXCEPT !.op = "release", !.handle = h.id, !.force = force, !.m = m]
               k == [l EXCEPT !.win = h.win, !.next = "release"]
    <3>2. h \in HandleType
      BY <1>0
    <3>3. /\ m \in Mapping /\ m.addr = h.addr /\ m.size = h.size /\ m.va = h.va
          /\ h.win \in Windows /\ h.id \in Ids
      BY <1>0, <3>2 DEF HandleType, Mapping
    <3> HIDE DEF m
    <3>4. l \in Local /\ l.op = "release" /\ l.m = m /\ l.handle = h.id
      BY <2>5, <3>3, NoLocType DEF Local, CallRelease
    <3>5. pc' = [pc EXCEPT ![t] = "lock"] /\ loc' = [loc EXCEPT ![t] = k]
      BY <3>1 DEF m, WaitFor
    <3> HIDE DEF l
    <3>6. /\ k.op = "release" /\ k.m = m /\ k.handle = h.id /\ k.win = h.win
          /\ k.next = "release"
      BY <3>4 DEF Local
    <3> HIDE DEF k
    <3>7. pc'[t] = "lock" /\ loc'[t] = k
      BY <1>0, <3>5
    <3>8. ClosingOK(t)' /\ ReleasingOK(t)'
      BY <2>0, <3>3, <3>6, <3>7 DEF ClosingOK, ReleasingOK, Closing, Going
    <3>9. CountOK(t)'
      BY <1>h, <2>0, <2>1 DEF CountOK
    <3> QED
      BY <1>h, <2>0, <3>8, <3>9 DEF HolderOK
  <2>6. CASE SetOptions(t)
    <3>1. pc' = pc /\ loc' = loc
      BY <2>6 DEF SetOptions
    <3> QED
      BY <1>h, <2>0, <3>1 DEF HolderOK, ClosingOK, ReleasingOK, CountOK, Closing, Going
  <2> QED
    BY <1>0, <1>3, <2>0, <2>2, <2>3, <2>4, <2>5, <2>6 DEF Call, CallDestroy, CallReturn, Processes
<1>4. CASE Lock(t)
  <2>1. /\ pc[t] = "lock" /\ pc'[t] = loc[t].next /\ loc' = loc /\ maps' = maps /\ held' = held
    BY <1>0, <1>4 DEF Lock, table
  <2>2. Going(t)' = Going(t)
    BY <2>1 DEF IInv, ControlInv, NextOK, Locked, Going
  <2> QED
    BY <1>h, <2>1, <2>2 DEF HolderOK, ClosingOK, ReleasingOK, CountOK, Closing
<1>5. CASE Interrupted(t)
  <2>0. pc[t] = "lock" /\ maps' = maps /\ held' = held
    BY <1>5 DEF Interrupted, table
  <2>1. CASE loc[t].op = "close"
    <3>1. pc'[t] = "closed" /\ loc' = loc
      BY <1>0, <1>5, <2>1 DEF Interrupted
    <3>2. /\ Closing(t)' <=> Going(t)' \in {"close", "closed"}
          /\ Going(t)' # "release" /\ Closing(t)'
      BY <2>1, <3>1 DEF Closing, Going
    <3> QED
      BY <1>h, <2>0, <3>2, HolderGoesOn
  <2>2. CASE loc[t].op # "close"
    BY <1>1, <1>5, <2>0, <2>2 DEF Interrupted, Closing
  <2> QED
    BY <2>0, <2>1, <2>2
<1>6. CASE \/ CreateRefused(t) \/ CreateFails(t) \/ FindNoMemory(t)
  <2>1. pc[t] \in {"create", "find"} /\ Finish(t) /\ maps' = maps /\ held' = held
    BY <1>6 DEF CreateRefused, CreateFails, FindNoMemory, table
  <2>2. ~Closing(t)
    BY <1>h, <2>1 DEF ClosingOK, Going
  <2> QED
    BY <1>1, <2>1, <2>2
<1>7. CASE Create(t) \/ Attach(t)
  <2>1. pc[t] \in {"create", "attach"} /\ maps' = maps /\ held' = held
    BY <1>7 DEF Create, Attach, table
  <2>2. ~Closing(t)
    BY <1>h, <2>1 DEF ClosingOK, Going
  <2>3. CASE Finish(t)
    BY <1>1, <2>1, <2>2, <2>3
  <2>4. CASE ~Finish(t)
    <3>1. pc'[t] \in {"attach", "link"} /\ loc'[t].op = loc[t].op
      BY <1>0, <1>7, <2>4 DEF Create, Attach, Local
    <3>2. /\ Closing(t)' <=> Going(t)' \in {"close", "closed"}
          /\ Going(t)' # "release"
      BY <2>2, <3>1 DEF Closing, Going
    <3> QED
      BY <1>h, <2>1, <2>2, <3>2, HolderGoesOn
  <2> QED
    BY <2>1, <2>3, <2>4
<1>8. CASE FindNext(t) \/ FindMiss(t)
  <2>1. pc[t] \in {"find", "miss"} /\ maps' = maps /\ held' = held
    BY <1>8 DEF FindNext, FindMiss, table
  <2>2. ~Closing(t)
    BY <1>h, <2>1 DEF ClosingOK, Going
  <2>3. CASE Finish(t)
    BY <1>1, <2>1, <2>2, <2>3
  <2>4. CASE pc' = [pc EXCEPT ![t] = "miss"] /\ loc' = loc
    <3>1. /\ Closing(t)' <=> Going(t)' \in {"close", "closed"}
          /\ Going(t)' # "release"
      BY <1>0, <2>2, <2>4 DEF Closing, Going
    <3> QED
      BY <1>h, <2>1, <2>2, <3>1, HolderGoesOn
  <2>5. CASE FindNext(t) /\ w + 1 \in Windows /\ WaitFor(t, w + 1, "find", loc[t])
    BY <1>0, <1>2, <2>1, <2>2, <2>5 DEF Locked, Closing
  <2>6. ASSUME NEW v \in Windows,
               WaitFor(t, v, "create", [loc[t] EXCEPT !.wnd = Rounded(Optimized(loc[t].match))])
        PROVE  HolderOK(t)'
    <3>1. pc'[t] = "lock" /\ loc'[t].next = "create" /\ loc'[t].op = loc[t].op
      BY <1>0, <2>6 DEF WaitFor, Local
    <3>2. /\ Closing(t)' <=> Going(t)' \in {"close", "closed"}
          /\ Going(t)' # "release"
      BY <2>2, <3>1 DEF Closing, Going
    <3> QED
      BY <1>h, <2>1, <2>2, <3>2, HolderGoesOn
  <2>7. CASE FindNext(t)
    BY <1>w, <2>1, <2>3, <2>4, <2>5, <2>7 DEF FindNext
  <2>8. CASE FindMiss(t)
    <3> DEFINE unused == {v \in Windows : ~win[v].active}
    <3>1. CASE unused # {}
      <4>1. unused \in SUBSET Nat
        BY Sizes DEF Windows
      <4>2. \E v \in unused : \A x \in unused : v <= x
        BY <3>1, <4>1, Least
      <4>3. (CHOOSE v \in unused : \A x \in unused : v <= x) \in Windows
        BY <4>2
      <4> QED
        BY <2>1, <2>3, <2>6, <2>8, <4>3 DEF FindMiss
    <3>2. CASE unused = {}
      BY <2>1, <2>3, <2>8, <3>2 DEF FindMiss
    <3> QED
      BY <3>1, <3>2
  <2> QED
    BY <1>8, <2>7, <2>8
<1>9. CASE Destroy(t)
  <2>1. pc[t] = "destroy" /\ Finish(t) /\ held' = held
    BY <1>9 DEF Destroy
  <2>2. ~Closing(t)
    BY <1>h, <2>1 DEF ClosingOK, Going
  <2>3. loc[t].op \in {"destroy", "release"} /\ loc[t].op \in Ops \cup {"none"}
    BY <1>0, <2>1, LocalFields DEF CallerOK, Going
  <2>4. maps[w] = <<>>
    BY <1>w, <2>1, <2>3 DEF Processes, IInv, TableInv, DestroyOK, Going
  <2>5. maps' = maps \/ maps' = [maps EXCEPT ![w] = <<>>]
    BY <1>w, <1>9 DEF Destroy, table
  <2>6. maps' = maps
    BY <1>0, <2>4, <2>5
  <2> QED
    BY <1>1, <2>1, <2>2, <2>6
<1>10. CASE FindHit(t) \/ Link(t)
  <2>1. PICK m \in Mapping : /\ m.file = t /\ Hold(t, m, w)
                             /\ maps' = [maps EXCEPT ![w] = Append(@, m)]
    <3>1. CASE FindHit(t)
      <4>1. NewMapping(t, w) \in Mapping
        BY <3>1, NewMappingType DEF FindHit, IInv, ControlInv, FreeOK, Finding, Going
      <4>2. NewMapping(t, w).file = FileOf(t)
        BY DEF NewMapping
      <4> QED
        BY <1>0, <1>w, <3>1, <4>1, <4>2 DEF FindHit
    <3>2. CASE Link(t)
      <4>1. PICK m \in Mapping : m = loc[t].m /\ m.file = t
        BY <1>0, <3>2, LocalFields DEF Link, IInv, ControlInv, MappingOK, NewEntry
      <4>2. maps[w] = <<>> /\ loc[t].tail = NoId
        BY <1>w, <3>2 DEF Link, IInv, TableInv, LinkOK
      <4>3. /\ maps' = [maps EXCEPT ![w] = Linked(@, loc[t].tail, m)] /\ Hold(t, m, w)
        BY <1>w, <3>2, <4>1 DEF Link
      <4>4. Linked(maps[w], loc[t].tail, m) = Append(maps[w], m)
        BY <4>2 DEF Linked
      <4> QED
        BY <4>1, <4>3, <4>4
    <3> QED
      BY <1>10, <3>1, <3>2
  <2>2. pc[t] \in {"find", "link"} /\ Finish(t)
    BY <1>10 DEF FindHit, Link
  <2>3. ~Closing(t)
    BY <1>h, <2>2 DEF ClosingOK, Going
  <2>4. held'[t] = held[t] \cup {Handle(m, w)} \/ held'[t] = held[t]
    BY <1>0, <2>1 DEF Hold
  <2>5. IsFiniteSet(held'[t]) /\ CountOK(t)'
    BY <1>0, <1>h, <2>1, <2>3, <2>4, CountMore
  <2> QED
    BY <1>0, <2>1, <2>2, <2>5, HoldEffect, HolderEnds
<1>11. CASE ReleaseFails(t) \/ Release(t)
  <2>1. pc[t] = "release" /\ GiveUp(t) /\ loc[t].op = "release" /\ loc[t].m.file = t
    BY <1>11 DEF ReleaseFails, Release, CallerOK, Going
  <2>2. ~Closing(t)
    BY <2>1 DEF Closing
  <2>3. PICK k \in held[t] : /\ k.id = loc[t].handle /\ k.win = w
                             /\ k.addr = loc[t].m.addr /\ k.size = loc[t].m.size
                             /\ k.va = loc[t].m.va
    BY <1>h, <1>w, <2>1 DEF ReleasingOK, Going
  <2>4. held'[t] \subseteq held[t] \ {k}
    BY <1>0, <2>1, <2>3 DEF GiveUp
  <2>5. CASE ReleaseFails(t)
    <3>1. maps' = maps /\ Finish(t)
      BY <2>5 DEF ReleaseFails, table
    <3>2. IsFiniteSet(held'[t]) /\ CountOK(t)'
      BY <1>0, <1>h, <2>2, <2>4, <3>1, CountFewer
    <3> QED
      BY <1>0, <2>1, <3>1, <3>2, GiveUpEffect, HolderEnds
  <2>6. CASE Release(t)
    <3>1. t # Nobody
      BY ClientsAssumption DEF Tasks
    <3>2. Removed(t) \subseteq Removable(w, loc[t].m)
      BY <1>w, <2>1 DEF Removed, Stale
    <3>3. PICK i \in Removed(t) : maps' = [maps EXCEPT ![w] = Without(@, i)]
      BY <1>w, <2>6 DEF Release
    <3>4. i \in Removable(w, loc[t].m)
      BY <3>2
    <3>5. i \in 1 .. Len(maps[w]) /\ Alike(maps[w][i], t, k)
      BY <2>1, <2>3, <3>1, <3>4 DEF Removable, Alike
    <3>6. IsFiniteSet(held'[t]) /\ CountOK(t)'
      BY <1>0, <1>h, <2>2, <2>3, <2>4, <3>3, <3>5, CountLess
    <3>7. CASE Finish(t)
      BY <1>0, <2>1, <3>6, <3>7, GiveUpEffect, HolderEnds
    <3>8. CASE WaitFor(t, w, "destroy", loc[t])
      <4>1. pc'[t] = "lock" /\ loc'[t].next = "destroy" /\ loc'[t].op = loc[t].op
        BY <1>0, <3>8, WaitEffect DEF PC
      <4>2. ClosingOK(t)' /\ ReleasingOK(t)'
        BY <2>1, <4>1 DEF ClosingOK, ReleasingOK, Closing, Going
      <4> QED
        BY <1>0, <2>1, <3>6, <4>2, GiveUpEffect DEF HolderOK
    <3> QED
      BY <1>w, <2>6, <3>7, <3>8 DEF Release
  <2> QED
    BY <1>11, <2>5, <2>6
<1>12. CASE CloseWindow(t)
  <2>1. pc[t] = "close" /\ held' = held
    BY <1>12 DEF CloseWindow
  <2>2. Closing(t)
    BY <1>h, <2>1 DEF ClosingOK, Going
  <2>3. loc'[t].op = "close" /\ Going(t)' \in {"close", "closed"}
    <3>1. CASE w + 1 \in Windows
      <4>1. WaitFor(t, w + 1, "close", loc[t]) /\ "close" \in PC
        BY <1>12, <1>w, <3>1 DEF CloseWindow, PC
      <4>2. pc'[t] = "lock" /\ loc'[t].next = "close" /\ loc'[t].op = loc[t].op
        BY <1>0, <3>1, <4>1, WaitEffect
      <4> QED
        BY <2>2, <4>2 DEF Going, Closing
    <3>2. CASE w + 1 \notin Windows
      <4>1. pc'[t] = "closed" /\ loc' = loc
        BY <1>0, <1>12, <1>w, <3>2 DEF CloseWindow
      <4> QED
        BY <2>2, <4>1 DEF Going, Closing
    <3> QED
      BY <3>1, <3>2
  <2> QED
    BY <1>h, <2>1, <2>3 DEF HolderOK, ClosingOK, ReleasingOK, Closing
<1>13. CASE Reopen(t)
  <2>1. Finish(t) /\ held' = [held EXCEPT ![t] = {}]
    BY <1>13 DEF Reopen
  <2>2. held'[t] = {} /\ \A u \in Tasks : u # t => held'[u] = held[u]
    BY <1>0, <2>1
  <2>3. IsFiniteSet(held'[t]) /\ CountOK(t)'
    BY <2>2, FS_EmptySet DEF CountOK
  <2> QED
    BY <1>0, <2>1, <2>2, <2>3, HolderEnds
<1>14. CASE Lookup(t)
  BY <1>14 DEF Lookup, CallerOK, Going
<1> QED
  BY <1>3, <1>4, <1>5, <1>6, <1>7, <1>8, <1>9, <1>10, <1>11, <1>12, <1>13, <1>14 DEF Step

\* What a process was given by vme_find_mapping() and has not given back stays
\* mapped, and it has an entry of its own for each such mapping, equal ones
\* included: for any number of processes that create windows, find, release,
\* close and are interrupted, when calls do not overlap or the options have
\* their default values.
THEOREM HeldStayMapped ==
  ASSUME Orderly, Processes
  PROVE  Spec => []HeldMappingsAlive
<1> DEFINE Holders == \A t \in Tasks : CallerOK(t) /\ HolderOK(t)
<1>1. Init => Holders
  <2> SUFFICES ASSUME Init, NEW t \in Tasks PROVE CallerOK(t) /\ HolderOK(t)
    OBVIOUS
  <2>1. pc[t] = "idle" /\ loc[t] = NoLoc /\ held[t] = {}
    BY DEF Init
  <2> QED
    BY <2>1, FS_EmptySet DEF CallerOK, HolderOK, ClosingOK, ReleasingOK, CountOK, Closing,
       Going, NoLoc
<1>2. IInv /\ IInv' /\ Holders /\ [Next]_vars => Holders'
  <2> SUFFICES ASSUME IInv, IInv', Holders, [Next]_vars, NEW u \in Tasks
               PROVE  CallerOK(u)' /\ HolderOK(u)'
    OBVIOUS
  <2>0. /\ maps \in [Windows -> Seq(Mapping)] /\ maps' \in [Windows -> Seq(Mapping)]
        /\ held \in [Tasks -> SUBSET HandleType] /\ u \in Users
    BY DEF IInv, TypeOK, Processes, Tasks
  <2>1. CASE UNCHANGED vars
    <3>1. pc' = pc /\ loc' = loc /\ held' = held /\ maps' = maps
      BY <2>1 DEF vars
    <3> QED
      BY <3>1 DEF CallerOK, HolderOK, ClosingOK, ReleasingOK, CountOK, Closing, Going
  <2>2. CASE Next
    <3>1. PICK t \in Tasks : Call(t) \/ Lock(t) \/ Interrupted(t) \/ Step(t)
      BY <2>2 DEF Next
    <3>2. CallerOK(t)' /\ Stay(t)
      BY <3>1, CallersStep DEF Processes
    <3>3. HolderOK(t)' /\ \A v \in Tasks : v # t => held'[v] = held[v]
      BY <3>1, HolderStep
    <3>4. CASE u # t
      <4>1. pc'[u] = pc[u] /\ loc'[u] = loc[u] /\ held'[u] = held[u]
        BY <3>2, <3>3, <3>4 DEF Stay
      <4>2. \A w \in Windows : Own(maps'[w], u) = Own(maps[w], u)
        BY <2>0, <3>1, <3>4, PrivateStep
      <4>3. CountOK(u) => CountOK(u)'
        BY <2>0, <4>1, <4>2, CountFrame
      <4> QED
        BY <4>1, <4>3 DEF CallerOK, HolderOK, ClosingOK, ReleasingOK, Closing, Going
    <3> QED
      BY <3>2, <3>3, <3>4
  <2> QED
    BY <2>1, <2>2
<1>3. IInv /\ Holders => HeldMappingsAlive
  <2> SUFFICES ASSUME IInv, Holders, NEW t \in Tasks, ~Closing(t), NEW h \in held[t]
               PROVE  /\ win[h.win].active
                      /\ Cardinality(EntriesLike(t, h)) >= Cardinality(HandlesLike(t, h))
    BY DEF HeldMappingsAlive
  <2>0. /\ t \in Users /\ h.win \in Windows /\ maps[h.win] \in Seq(Mapping)
        /\ \A u \in Tasks : FileOf(u) = u
    BY DEF IInv, TypeOK, HandleType, Processes, Tasks, FileOf
  <2>1. EntriesLike(t, h) = Like(maps[h.win], t, h)
    BY <2>0 DEF EntriesLike, Like, Alike, Same, Handle
  <2>2. HandlesLike(t, h) = Handles(held[t], h)
    BY <2>0 DEF HandlesLike, Handles
  <2>3. /\ IsFiniteSet(Handles(held[t], h)) /\ Cardinality(Handles(held[t], h)) \in Nat
        /\ h \in Handles(held[t], h)
    BY FS_Subset, FS_CardinalityType DEF HolderOK, Handles, Same
  <2>4. Cardinality(Handles(held[t], h)) # 0
    BY <2>3, FS_EmptySet
  <2>5. Cardinality(Handles(held[t], h)) <= Cardinality(Like(maps[h.win], t, h))
    BY DEF HolderOK, CountOK
  <2>6. Cardinality(Like(maps[h.win], t, h)) \in Nat
    BY <2>0, LikeFinite
  <2>7. Cardinality(Like(maps[h.win], t, h)) # 0
    BY <2>3, <2>4, <2>5, <2>6
  <2>8. maps[h.win] # <<>>
    BY <2>0, <2>7, LikeFinite
  <2>9. win[h.win].active
    BY <2>0, <2>8 DEF IInv, TableInv, UsersCountMappings
  <2>10. Cardinality(Like(maps[h.win], t, h)) >= Cardinality(Handles(held[t], h))
    BY <2>3, <2>5, <2>6
  <2> QED
    BY <2>1, <2>2, <2>9, <2>10, Zenon
<1> QED
  BY <1>1, <1>2, <1>3, Invariance, PTL DEF Spec
=============================================================================

--------------------------- MODULE DmaChainProofs ---------------------------
(***************************************************************************)
(* Theorems about DmaChain: no link crosses a block boundary, whatever is  *)
(* asked for; and the chain is the transfer that was asked for, for every  *)
(* transfer whose addresses have room in a descriptor.                     *)
(***************************************************************************)
EXTENDS DmaChain, SequenceTheorems, WellFoundedInduction, TLAPS

-----------------------------------------------------------------------------
(* Sums of lengths                                                         *)

\* A set of naturals has a least member.
LEMMA Least ==
  ASSUME NEW S \in SUBSET Nat, S # {}
  PROVE  \E x \in S : \A y \in S : x <= y
<1>1. PICK x \in S : \A y \in S : ~(<<y, x>> \in OpToRel(<, Nat))
  BY NatLessThanWellFounded, WFMin, Zenon
<1>2. \A y \in S : ~(y < x)
  BY <1>1 DEF OpToRel
<1> QED
  BY <1>2

\* The function that Moved() computes, on the first n links.
IsSum(f, c, n) ==
  f = [k \in 0 .. n |-> IF k = 0 THEN 0 ELSE f[k - 1] + c[k].len]

\* The first n links have lengths.
HasLengths(c, n) == \A k \in 1 .. n : c[k].len \in Nat

\* There is one.
LEMMA SumExists ==
  ASSUME NEW c, NEW n \in Nat
  PROVE  \E f : IsSum(f, c, n)
<1> DEFINE Bad == {k \in Nat : ~\E f : IsSum(f, c, k)}
<1> SUFFICES ASSUME Bad # {} PROVE FALSE
  OBVIOUS
<1>0. Bad \in SUBSET Nat
  OBVIOUS
<1>1. PICK n0 \in Bad : \A j \in Bad : n0 <= j
  BY <1>0, Least
<1>2. CASE n0 = 0
  <2> DEFINE f == [k \in 0 .. 0 |-> 0]
  <2>1. IsSum(f, c, 0)
    BY DEF IsSum
  <2> QED
    BY <1>1, <1>2, <2>1
<1>3. CASE n0 # 0
  <2>1. n0 \in Nat /\ n0 - 1 \in Nat /\ n0 - 1 \notin Bad
    BY <1>1, <1>3
  <2>2. PICK f : IsSum(f, c, n0 - 1)
    BY <2>1
  <2> DEFINE g == [k \in 0 .. n0 |-> IF k < n0 THEN f[k] ELSE f[k - 1] + c[k].len]
  <2>3. \A k \in 0 .. n0 - 1 : f[k] = IF k = 0 THEN 0 ELSE f[k - 1] + c[k].len
    BY <2>2 DEF IsSum
  <2>4. ASSUME NEW k \in 0 .. n0
        PROVE  g[k] = IF k = 0 THEN 0 ELSE g[k - 1] + c[k].len
    <3>1. CASE k = 0
      BY <1>3, <2>1, <2>3, <3>1
    <3>2. CASE k # 0 /\ k < n0
      <4>1. k \in 0 .. n0 - 1 /\ k - 1 \in 0 .. n0 /\ k - 1 < n0
        BY <2>1, <3>2
      <4>2. g[k] = f[k] /\ g[k - 1] = f[k - 1]
        BY <3>2, <4>1
      <4> QED
        BY <2>3, <3>2, <4>1, <4>2
    <3>3. CASE k = n0
      <4>1. k - 1 \in 0 .. n0 /\ k - 1 < n0 /\ ~(k < n0)
        BY <1>3, <2>1, <3>3
      <4>2. g[k - 1] = f[k - 1]
        BY <4>1
      <4> QED
        BY <1>3, <3>3, <4>1, <4>2
    <3> QED
      BY <2>1, <3>1, <3>2, <3>3
  <2>5. IsSum(g, c, n0)
    <3>1. g = [k \in 0 .. n0 |-> g[k]]
      OBVIOUS
    <3> HIDE DEF g
    <3> QED
      BY <2>4, <3>1 DEF IsSum
  <2> QED
    BY <1>1, <2>5
<1> QED
  BY <1>2, <1>3

\* Sums agree as far as the lengths do, and are naturals.
LEMMA SumsAgree ==
  ASSUME NEW c, NEW d, NEW n \in Nat, NEW p \in 0 .. n,
         NEW f, NEW g, IsSum(f, c, n), IsSum(g, d, p),
         HasLengths(c, p), \A k \in 1 .. p : c[k].len = d[k].len
  PROVE  f[p] = g[p] /\ f[p] \in Nat
<1> DEFINE Bad == {k \in Nat : k <= p /\ ~(f[k] = g[k] /\ f[k] \in Nat)}
<1>1. Bad \in SUBSET Nat
  OBVIOUS
<1>2. \A k \in 0 .. n : f[k] = IF k = 0 THEN 0 ELSE f[k - 1] + c[k].len
  BY DEF IsSum
<1>3. \A k \in 0 .. p : g[k] = IF k = 0 THEN 0 ELSE g[k - 1] + d[k].len
  BY DEF IsSum
<1>4. ASSUME Bad # {} PROVE FALSE
  <2>1. PICK k \in Bad : \A j \in Bad : k <= j
    BY <1>1, <1>4, Least
  <2>2. k \in Nat /\ k \in 0 .. n /\ k \in 0 .. p /\ k <= p
    BY <2>1
  <2>3. CASE k = 0
    <3>1. f[k] = 0 /\ g[k] = 0
      BY <1>2, <1>3, <2>2, <2>3
    <3> QED
      BY <2>1, <3>1
  <2>4. CASE k # 0
    <3>1. k - 1 \in Nat /\ k - 1 <= p /\ ~(k <= k - 1) /\ k \in 1 .. p
      BY <2>2, <2>4
    <3>2. f[k - 1] = g[k - 1] /\ f[k - 1] \in Nat
      BY <2>1, <3>1
    <3>3. c[k].len = d[k].len /\ c[k].len \in Nat
      BY <3>1 DEF HasLengths
    <3>4. f[k] = f[k - 1] + c[k].len /\ g[k] = g[k - 1] + d[k].len
      BY <1>2, <1>3, <2>2, <2>4
    <3>5. f[k] = g[k] /\ f[k] \in Nat
      BY <3>2, <3>3, <3>4
    <3> QED
      BY <2>1, <3>5
  <2> QED
    BY <2>3, <2>4
<1> QED
  BY <1>4

\* Moved() is a value of such a function.
LEMMA MovedIsSum ==
  ASSUME NEW c, NEW n \in Nat
  PROVE  \E f : IsSum(f, c, n) /\ Moved(c, n) = f[n]
<1> DEFINE f == CHOOSE f : IsSum(f, c, n)
<1>1. IsSum(f, c, n)
  BY SumExists
<1>2. Moved(c, n) = f[n]
  BY DEF Moved, IsSum
<1> HIDE DEF f
<1> QED
  BY <1>1, <1>2

\* The bytes moved by the links of a prefix depend on that prefix only.
LEMMA MovedPrefix ==
  ASSUME NEW c, NEW d, NEW n \in Nat, HasLengths(c, n),
         \A k \in 1 .. n : c[k].len = d[k].len
  PROVE  Moved(c, n) = Moved(d, n) /\ Moved(c, n) \in Nat
<1>1. PICK f : IsSum(f, c, n) /\ Moved(c, n) = f[n]
  BY MovedIsSum
<1>2. PICK g : IsSum(g, d, n) /\ Moved(d, n) = g[n]
  BY MovedIsSum
<1>3. f[n] = g[n] /\ f[n] \in Nat
  <2>1. n \in 0 .. n
    OBVIOUS
  <2> QED
    BY <1>1, <1>2, <2>1, SumsAgree, Zenon
<1> QED
  BY <1>1, <1>2, <1>3

\* Nothing is moved by no link, and one more link moves its length.
LEMMA MovedNext ==
  ASSUME NEW c, NEW n \in Nat, HasLengths(c, n)
  PROVE  /\ n = 0 => Moved(c, n) = 0
         /\ n # 0 => Moved(c, n) = Moved(c, n - 1) + c[n].len
<1>1. PICK f : IsSum(f, c, n) /\ Moved(c, n) = f[n]
  BY MovedIsSum
<1>2. \A k \in 0 .. n : f[k] = IF k = 0 THEN 0 ELSE f[k - 1] + c[k].len
  BY <1>1 DEF IsSum
<1>3. n \in 0 .. n
  OBVIOUS
<1>4. CASE n = 0
  BY <1>1, <1>2, <1>3, <1>4
<1>5. CASE n # 0
  <2>0. n - 1 \in Nat
    BY <1>5
  <2>1. PICK m \in Nat : m = n - 1 /\ m \in 0 .. n
    BY <2>0
  <2>2. PICK g : IsSum(g, c, m) /\ Moved(c, m) = g[m]
    BY <2>1, MovedIsSum
  <2>3. HasLengths(c, m)
    BY <2>1 DEF HasLengths
  <2>4. f[m] = g[m] /\ f[m] \in Nat
    <3>1. PICK d : d = c
      OBVIOUS
    <3>2. IsSum(g, d, m) /\ \A k \in 1 .. m : c[k].len = d[k].len
      BY <2>2, <3>1
    <3> QED
      <4>1. IsSum(f, c, n)
        BY <1>1
      <4>2. m \in 0 .. n
        BY <2>1
      <4>3. IsSum(g, d, m)
        BY <3>2
      <4>4. \A k \in 1 .. m : c[k].len = d[k].len
        BY <3>2
      <4> HIDE <1>1, <1>2, <2>1, <2>2, <3>2
      <4> QED
        BY <4>1, <4>2, <4>3, <4>4, <2>3, SumsAgree
  <2> QED
    BY <1>1, <1>2, <1>3, <1>5, <2>1, <2>2, <2>4
<1> QED
  BY <1>4, <1>5

-----------------------------------------------------------------------------
(* Pages                                                                   *)

\* Division and remainder, by what they are.
LEMMA DivMod ==
  ASSUME NEW P \in Nat \ {0}, NEW x \in Nat
  PROVE  /\ x \div P \in Nat /\ x % P \in 0 .. P - 1
         /\ x = (x \div P) * P + (x % P)
  OBVIOUS

\* A product by a larger factor is larger by at least the other factor.
LEMMA Times ==
  ASSUME NEW P \in Nat \ {0}, NEW a \in Int, NEW b \in Int, a < b
  PROVE  a * P \in Int /\ b * P \in Int /\ a * P + P <= b * P
<1>1. PICK d \in Nat : b = a + 1 + d
  <2>1. b - a - 1 \in Nat /\ b = a + 1 + (b - a - 1)
    OBVIOUS
  <2> QED
    BY <2>1
<1>2. b * P = a * P + P + d * P
  BY <1>1
<1>3. d * P \in Nat /\ a * P \in Int
  BY <1>1
<1> QED
  BY <1>2, <1>3

\* They are determined by it.
LEMMA DivModUnique ==
  ASSUME NEW P \in Nat \ {0}, NEW q \in Nat, NEW r \in 0 .. P - 1
  PROVE  q * P + r \in Nat /\ (q * P + r) \div P = q /\ (q * P + r) % P = r
<1>0. q * P \in Nat /\ q * P + r \in Nat
  OBVIOUS
<1>1. PICK x \in Nat : x = q * P + r
  BY <1>0
<1>2. /\ x \div P \in Nat /\ x % P \in 0 .. P - 1
      /\ x = (x \div P) * P + (x % P)
  BY DivMod
<1>3. PICK e \in Nat, s \in 0 .. P - 1 : e = x \div P /\ s = x % P /\ x = e * P + s
  BY <1>2
<1>4. e * P \in Nat
  OBVIOUS
<1>5. ~(e < q)
  <2>1. e < q => e * P + P <= q * P
    BY Times
  <2> QED
    BY <1>0, <1>1, <1>3, <1>4, <2>1
<1>6. ~(q < e)
  <2>1. q < e => q * P + P <= e * P
    BY Times
  <2> QED
    BY <1>0, <1>1, <1>3, <1>4, <2>1
<1>7. e = q
  BY <1>5, <1>6
<1> QED
  BY <1>0, <1>1, <1>3, <1>7

\* The fields of a job.
LEMMA JobFields ==
  ASSUME NEW j \in Jobs
  PROVE  /\ j.uaddr \in Nat /\ j.length \in Nat \ {0} /\ j.vme \in 0 .. Top - 1
         /\ j.am \in {"SCT", "BLT", "MBLT"} /\ j.novmeinc \in BOOLEAN
  BY JobsAssumption

\* The pages of a buffer are as many as it needs.
LEMMA PageCount ==
  ASSUME NEW j \in Jobs
  PROVE  /\ Off(j) \in 0 .. PageSize - 1 /\ NrPages(j) \in Nat \ {0}
         /\ NrPages(j) <= Len(Frames)
         /\ (NrPages(j) - 1) * PageSize < Off(j) + j.length
         /\ Off(j) + j.length <= NrPages(j) * PageSize
<1>0. PageSize \in Nat \ {0}
  BY SizesAssumption
<1>1. j.uaddr \in Nat /\ j.length \in Nat \ {0}
  BY JobFields
<1>2. Off(j) \in 0 .. PageSize - 1
  BY <1>0, <1>1, DivMod DEF Off
<1>3. PICK x \in Nat : x = Off(j) + j.length + PageSize - 1
  <2>1. Off(j) + j.length + PageSize - 1 \in Nat
    BY <1>0, <1>1, <1>2
  <2> QED
    BY <2>1
<1>4. NrPages(j) = x \div PageSize
  BY <1>3 DEF NrPages
<1>5. PICK q \in Nat, r \in 0 .. PageSize - 1 : NrPages(j) = q /\ x = q * PageSize + r
  BY <1>0, <1>4, DivMod
<1>6. q # 0
  BY <1>0, <1>1, <1>2, <1>3, <1>5
<1>7. (q - 1) * PageSize = q * PageSize - PageSize /\ q * PageSize \in Nat
  BY <1>0
<1> QED
  BY <1>0, <1>1, <1>2, <1>3, <1>5, <1>6, <1>7, JobsAssumption

\* Bytes of the buffer before its k-th page, and where in that page it begins.
Before(j, k) ==
  IF k = 1 THEN 0 ELSE IF k > NrPages(j) THEN j.length
  ELSE (k - 1) * PageSize - Off(j)
\* Where the buffer begins in its k-th page.
First(j, k) == IF k = 1 THEN Off(j) ELSE 0

\* The entries of the list cut the buffer into pieces that follow one another,
\* none of them empty and each within a page.
LEMMA Entries ==
  ASSUME NEW j \in Jobs, NEW k \in 1 .. NrPages(j)
  PROVE  /\ SgLen(j, k) \in Nat \ {0} /\ Before(j, k) \in Nat
         /\ Before(j, k + 1) = Before(j, k) + SgLen(j, k)
         /\ Before(j, k + 1) <= j.length
         /\ k = NrPages(j) => Before(j, k + 1) = j.length
         /\ First(j, k) \in Nat /\ First(j, k) + SgLen(j, k) <= PageSize
         /\ Off(j) + Before(j, k) = (k - 1) * PageSize + First(j, k)
<1>0. /\ PageSize \in Nat \ {0} /\ j.length \in Nat \ {0} /\ k \in Nat
      /\ Off(j) \in 0 .. PageSize - 1 /\ NrPages(j) \in Nat \ {0}
  BY SizesAssumption, JobFields, PageCount
<1>1. PICK P \in Nat \ {0}, o \in Nat, l \in Nat \ {0}, n \in Nat \ {0} :
        P = PageSize /\ o = Off(j) /\ l = j.length /\ n = NrPages(j) /\ o < P
  BY <1>0
<1>2. (n - 1) * P < o + l /\ o + l <= n * P
  BY <1>1, PageCount
<1>3. /\ k * P = (k - 1) * P + P /\ (k - 1) * P = (k - 2) * P + P
      /\ (k - 1) * P \in Nat
  BY <1>0
<1>4. k < n => k * P <= (n - 1) * P
  <2>1. k < n => k = n - 1 \/ k < n - 1
    BY <1>0
  <2>2. k < n - 1 => k * P + P <= (n - 1) * P
    BY <1>0, Times
  <2> QED
    BY <1>0, <2>1, <2>2
<1>5. (n - 1) * P \in Nat /\ n * P = (n - 1) * P + P
  BY <1>0
<1>6. CASE k = n
  <2>1. CASE n = 1
    <3>1. SgLen(j, k) = l /\ Before(j, k) = 0 /\ Before(j, k + 1) = l /\ First(j, k) = o
      BY <1>0, <1>1, <1>6, <2>1 DEF SgLen, Before, First
    <3> QED
      BY <1>0, <1>1, <1>2, <1>3, <1>5, <1>6, <2>1, <3>1
  <2>2. CASE n # 1
    <3>1. /\ SgLen(j, k) = o + l - (k - 1) * P /\ Before(j, k) = (k - 1) * P - o
          /\ Before(j, k + 1) = l /\ First(j, k) = 0
      <4>1. PICK m \in Int : m = (k - 2) * P /\ (k - 1) * P = m + P
        BY <1>3, <1>0
      <4>2. l - (P - o) - m = o + l - (k - 1) * P
        BY <1>0, <1>1, <4>1
      <4>3. SgLen(j, k) = IF l - (P - o) - m < P THEN l - (P - o) - m ELSE P
        BY <1>0, <1>1, <1>6, <2>2, <4>1 DEF SgLen
      <4>4. o + l - (k - 1) * P <= P
        BY <1>2, <1>0, <1>1, <1>3, <1>5, <1>6
      <4>5. SgLen(j, k) = o + l - (k - 1) * P
        BY <4>2, <4>3, <4>4, <4>1, <1>0, <1>1
      <4> QED
        BY <1>0, <1>1, <1>6, <2>2, <4>5 DEF Before, First
    <3>2. P <= (k - 1) * P
      BY <1>0, <1>3, <1>6, <2>2, Times
    <3> QED
      BY <1>0, <1>1, <1>2, <1>3, <1>5, <1>6, <3>1, <3>2
  <2> QED
    BY <2>1, <2>2
<1>7. CASE k # n
  <2>1. k < n /\ k + 1 <= n
    BY <1>0, <1>1, <1>7
  <2>2. k * P < o + l
    BY <1>0, <1>1, <1>2, <1>4, <1>5, <2>1
  <2>3. Before(j, k + 1) = k * P - o
    BY <1>0, <1>1, <2>1 DEF Before
  <2>4. CASE k = 1
    <3>1. SgLen(j, k) = P - o /\ Before(j, k) = 0 /\ First(j, k) = o
      BY <1>0, <1>1, <2>1, <2>4 DEF SgLen, Before, First
    <3> QED
      BY <1>0, <1>1, <1>3, <2>1, <2>2, <2>3, <2>4, <3>1
  <2>5. CASE k # 1
    <3>1. SgLen(j, k) = P /\ Before(j, k) = (k - 1) * P - o /\ First(j, k) = 0
      <4>1. PICK m \in Int : m = (k - 2) * P /\ k * P = m + P + P
        BY <1>3, <1>0
      <4>2. SgLen(j, k) = IF l - (P - o) - m < P THEN l - (P - o) - m ELSE P
        BY <1>0, <1>1, <2>1, <2>5, <4>1 DEF SgLen
      <4>3. ~(l - (P - o) - m < P)
        BY <1>0, <1>1, <2>2, <4>1
      <4> QED
        BY <1>0, <1>1, <2>1, <2>5, <4>2, <4>3 DEF Before, First
    <3>2. P <= (k - 1) * P
      BY <1>0, <1>3, <2>5, Times
    <3> QED
      BY <1>0, <1>1, <1>3, <2>1, <2>2, <2>3, <3>1, <3>2
  <2> QED
    BY <2>4, <2>5
<1> QED
  BY <1>6, <1>7

\* Every byte of an entry is the byte of the buffer it should be.
LEMMA BufferBytes ==
  ASSUME NEW j \in Jobs, NEW k \in 1 .. NrPages(j), NEW b \in 0 .. SgLen(j, k) - 1
  PROVE  SgAddr(j, k) \in Nat /\ SgAddr(j, k) + b = BufferByte(j, Before(j, k) + b)
<1>0. PageSize \in Nat \ {0} /\ NrPages(j) \in Nat /\ NrPages(j) <= Len(Frames)
  BY SizesAssumption, PageCount
<1>1. /\ SgLen(j, k) \in Nat /\ Before(j, k) \in Nat
      /\ First(j, k) \in Nat /\ First(j, k) + SgLen(j, k) <= PageSize
      /\ Off(j) + Before(j, k) = (k - 1) * PageSize + First(j, k)
  BY Entries
<1>2. Frames[k] \in Nat
  <2>1. k \in 1 .. Len(Frames)
    BY <1>0, JobsAssumption
  <2> QED
    BY <2>1, JobsAssumption
<1>3. Off(j) \in Nat /\ k - 1 \in Nat
  BY PageCount, <1>0
<1>4. PICK r \in 0 .. PageSize - 1 : r = First(j, k) + b
  BY <1>0, <1>1
<1>5. Off(j) + (Before(j, k) + b) = (k - 1) * PageSize + r
  <2>1. (k - 1) * PageSize \in Nat
    BY <1>0, <1>3
  <2> QED
    BY <1>1, <1>3, <1>4, <2>1
<1>6. /\ ((k - 1) * PageSize + r) \div PageSize = k - 1
      /\ ((k - 1) * PageSize + r) % PageSize = r
  BY <1>0, <1>3, DivModUnique
<1>7. BufferByte(j, Before(j, k) + b) = Frames[(k - 1) + 1] + r
  BY <1>5, <1>6 DEF BufferByte
<1>8. SgAddr(j, k) = Frames[k] + First(j, k) /\ (k - 1) + 1 = k
  BY DEF SgAddr, First
<1> QED
  BY <1>1, <1>2, <1>4, <1>7, <1>8

-----------------------------------------------------------------------------
(* Types and blocks                                                        *)

\* There is a descriptor to fill while pages are left.
ShapeOK ==
  /\ pc \in {"entry", "link"} => Len(chain) > 0
  /\ pc = "link" => i <= NrPages(job)

\* The inductive invariant of the block boundaries.
BlockInv == TypeOK /\ ShapeOK /\ NoBlockCrossed

\* The end of an entry on the PCI bus.
LEMMA EntryEnd ==
  ASSUME TypeOK, i <= NrPages(job)
  PROVE  /\ i \in 1 .. NrPages(job)
         /\ SgLen(job, i) \in Nat \ {0} /\ SgAddr(job, i) \in Nat
         /\ DmaEnd \in Nat /\ DmaEnd = SgAddr(job, i) + SgLen(job, i)
<1>1. NrPages(job) \in Nat
  BY PageCount DEF TypeOK
<1>2. i \in 1 .. NrPages(job) /\ job \in Jobs
  BY <1>1 DEF TypeOK
<1>3. SgLen(job, i) \in Nat \ {0}
  BY <1>2, Entries
<1>4. SgAddr(job, i) \in Nat
  <2>1. 0 \in 0 .. SgLen(job, i) - 1
    BY <1>3
  <2> QED
    BY <1>2, <2>1, BufferBytes
<1> QED
  BY <1>2, <1>3, <1>4 DEF DmaEnd

\* A link is not empty, ends within its entry and within its block.
LEMMA LinkFits ==
  ASSUME TypeOK, i <= NrPages(job), dma < DmaEnd
  PROVE  /\ LinkLen \in Nat \ {0} /\ dma + LinkLen <= DmaEnd
         /\ Block(job.am) # 0 => (vme % Block(job.am)) + LinkLen <= Block(job.am)
<1> DEFINE B == Block(job.am)
           full == IF B = 0 THEN SgLen(job, i) ELSE B - (vme % B)
<1>1. B \in Nat
  BY SizesAssumption DEF Block
<1>2. vme \in Nat /\ dma \in Nat /\ DmaEnd \in Nat /\ SgLen(job, i) \in Nat \ {0}
  BY EntryEnd DEF TypeOK
<1>3. B # 0 => vme % B \in 0 .. B - 1
  BY <1>1, <1>2, DivMod
<1>4. LinkLen = IF dma + full > DmaEnd THEN DmaEnd - dma ELSE full
  BY DEF LinkLen
<1> HIDE DEF B
<1>5. full \in Nat \ {0} /\ (B # 0 => (vme % B) + full <= B)
  BY <1>1, <1>2, <1>3
<1> HIDE DEF full
<1>6. CASE B = 0
  BY <1>2, <1>4, <1>5, <1>6 DEF B
<1>7. CASE B # 0
  <2>1. PICK v \in 0 .. B - 1 : v = vme % B
    BY <1>3, <1>7
  <2>2. LinkLen \in Nat \ {0} /\ dma + LinkLen <= DmaEnd /\ LinkLen <= full
    BY <1>2, <1>4, <1>5
  <2>3. v + LinkLen <= B
    BY <1>1, <1>5, <1>7, <2>1, <2>2
  <2> QED
    BY <2>1, <2>2, <2>3 DEF B
<1> QED
  BY <1>6, <1>7

\* A remainder by Top has 32 bits.
LEMMA Wrapped ==
  ASSUME NEW x \in Nat
  PROVE  x % Top \in 0 .. Top - 1
  BY SizesAssumption, DivMod

\* What the pool hands out has the type of a descriptor.
LEMMA BlankIsDescriptor == Blank \in Descriptor
<1>1. 0 \in 0 .. Top - 1
  BY SizesAssumption
<1> QED
  BY <1>1 DEF Blank, Descriptor

\* What a turn of the loop makes of the chain: its last descriptor is filled,
\* and an empty one follows when one is needed.
LEMMA AddLinkEffect ==
  ASSUME TypeOK, ShapeOK, AddLink
  PROVE  /\ Len(chain) \in Nat \ {0} /\ i <= NrPages(job) /\ dma < DmaEnd
         /\ \/ chain' = <<>> /\ pc' = "failed" /\ virt' = virt
            \/ /\ pc' = "link" /\ (virt' <=> virt \/ NeedsNext(LinkLen))
               /\ virt' \in BOOLEAN
               /\ chain' \in Seq(Descriptor)
               /\ Len(chain') = IF NeedsNext(LinkLen) THEN Len(chain) + 1 ELSE Len(chain)
               /\ \A k \in 1 .. Len(chain) - 1 : chain'[k] = chain[k]
               /\ chain'[Len(chain)].filled /\ chain'[Len(chain)].vme = vme
               /\ chain'[Len(chain)].dma = dma % Top /\ chain'[Len(chain)].len = LinkLen
               /\ chain'[Len(chain)].last <=> ~NeedsNext(LinkLen)
               /\ NeedsNext(LinkLen) => chain'[Len(chain) + 1] = Blank
<1>1. /\ pc = "link" /\ i <= NrPages(job) /\ dma < DmaEnd
      /\ chain \in Seq(Descriptor) /\ Len(chain) \in Nat \ {0}
      /\ vme \in 0 .. Top - 1 /\ dma \in Nat
  BY DEF TypeOK, ShapeOK, AddLink, More
<1>2. LinkLen \in Nat
  BY <1>1, LinkFits
<1>3. PICK n \in Nat \ {0}, len \in Nat : n = Len(chain) /\ len = LinkLen
  BY <1>1, <1>2
<1> DEFINE full == [chain EXCEPT ![n] = Filled(vme, dma, len)]
           linked == [full EXCEPT ![n].last = FALSE]
<1>4. Filled(vme, dma, len) \in Descriptor /\ Blank \in Descriptor
  <2>1. dma % Top \in 0 .. Top - 1
    BY <1>1, Wrapped
  <2> QED
    BY <1>1, <2>1, BlankIsDescriptor DEF Filled, Descriptor
<1>5. /\ full \in Seq(Descriptor) /\ Len(full) = n /\ full[n] = Filled(vme, dma, len)
      /\ \A k \in 1 .. n - 1 : full[k] = chain[k]
  BY <1>1, <1>3, <1>4
<1> HIDE DEF full
<1>6. /\ linked \in Seq(Descriptor) /\ Len(linked) = n
      /\ linked[n] = [Filled(vme, dma, len) EXCEPT !.last = FALSE]
      /\ \A k \in 1 .. n - 1 : linked[k] = chain[k]
  <2>1. [full[n] EXCEPT !.last = FALSE] \in Descriptor
    BY <1>4, <1>5 DEF Descriptor
  <2>2. linked = [full EXCEPT ![n] = [full[n] EXCEPT !.last = FALSE]]
    OBVIOUS
  <2> HIDE DEF linked
  <2> QED
    BY <1>5, <2>1, <2>2
<1> HIDE DEF linked
<1>7. /\ Append(linked, Blank) \in Seq(Descriptor) /\ Len(Append(linked, Blank)) = n + 1
      /\ Append(linked, Blank)[n + 1] = Blank
      /\ \A k \in 1 .. n : Append(linked, Blank)[k] = linked[k]
  BY <1>4, <1>6
<1>8. \/ /\ chain' = IF NeedsNext(LinkLen) THEN Append(linked, Blank) ELSE full
         /\ virt' = (virt \/ NeedsNext(LinkLen)) /\ pc' = pc
      \/ chain' = <<>> /\ pc' = "failed" /\ virt' = virt
  BY <1>3 DEF AddLink, full, linked
<1>9. ASSUME chain' = Append(linked, Blank)
      PROVE  /\ chain' \in Seq(Descriptor) /\ Len(chain') = n + 1
             /\ \A k \in 1 .. n - 1 : chain'[k] = chain[k]
             /\ chain'[n] = [Filled(vme, dma, len) EXCEPT !.last = FALSE]
             /\ chain'[n + 1] = Blank
  BY <1>6, <1>7, <1>9
<1>10. CASE chain' = <<>> /\ pc' = "failed" /\ virt' = virt
  BY <1>1, <1>10
<1>11. CASE /\ chain' = IF NeedsNext(LinkLen) THEN Append(linked, Blank) ELSE full
            /\ virt' = (virt \/ NeedsNext(LinkLen)) /\ pc' = pc
  <2>1. virt' \in BOOLEAN /\ (virt' <=> virt \/ NeedsNext(LinkLen))
    BY <1>11 DEF TypeOK
  <2>2. CASE NeedsNext(LinkLen)
    <3>1. chain' = Append(linked, Blank)
      BY <1>11, <2>2
    <3>2. /\ chain'[n].filled = TRUE /\ chain'[n].vme = vme /\ chain'[n].dma = dma % Top
          /\ chain'[n].len = len /\ chain'[n].last = FALSE
      BY <1>9, <3>1 DEF Filled
    <3> QED
      BY <1>1, <1>3, <1>9, <1>11, <2>1, <2>2, <3>1, <3>2
  <2>3. CASE ~NeedsNext(LinkLen)
    <3>1. chain' = full
      BY <1>11, <2>3
    <3>2. /\ chain'[n].filled = TRUE /\ chain'[n].vme = vme /\ chain'[n].dma = dma % Top
          /\ chain'[n].len = len /\ chain'[n].last = TRUE
      BY <1>5, <3>1 DEF Filled
    <3> QED
      BY <1>1, <1>3, <1>5, <1>11, <2>1, <2>3, <3>1, <3>2
  <2> QED
    BY <2>2, <2>3
<1> QED
  BY <1>8, <1>10, <1>11

\* The invariant holds at first.
LEMMA BlockInit == Init => BlockInv
<1> SUFFICES ASSUME Init PROVE BlockInv
  OBVIOUS
<1>1. job \in Jobs /\ NrPages(job) \in Nat \ {0} /\ job.vme \in 0 .. Top - 1
  BY PageCount, JobFields DEF Init
<1>2. 0 \in 0 .. Top - 1
  BY SizesAssumption
<1>3. chain = <<>> /\ chain \in Seq(Descriptor) /\ Len(chain) = 0
  BY DEF Init
<1>4. TypeOK
  <2>1. virt \in BOOLEAN /\ pc = "init" /\ i = 1 /\ vmeAddr = job.vme /\ vme = 0 /\ dma = 0
    BY DEF Init
  <2>2. 1 \in 1 .. NrPages(job) + 1
    BY <1>1
  <2> QED
    BY <1>1, <1>2, <1>3, <2>1, <2>2 DEF TypeOK
<1> QED
  BY <1>3, <1>4 DEF BlockInv, ShapeOK, NoBlockCrossed, Init

\* Every step keeps the types, and finds a descriptor to work on.
LEMMA TypeStep == TypeOK /\ ShapeOK /\ [Next]_vars => TypeOK' /\ ShapeOK'
<1> SUFFICES ASSUME TypeOK, ShapeOK, [Next]_vars PROVE TypeOK' /\ ShapeOK'
  OBVIOUS
<1>0. /\ job \in Jobs /\ NrPages(job) \in Nat \ {0} /\ i \in Nat
      /\ job.novmeinc \in BOOLEAN /\ vmeAddr \in Nat /\ vme \in Nat
  BY PageCount, JobFields DEF TypeOK
<1>1. CASE AllocFirst
  <2>1. Blank \in Descriptor
    BY BlankIsDescriptor
  <2>2. chain' \in Seq(Descriptor) /\ (pc' = "entry" => Len(chain') > 0)
    <3>1. CASE chain' = <<Blank>>
      BY <2>1, <3>1
    <3>2. CASE chain' = chain /\ pc' = "failed"
      BY <3>2 DEF TypeOK
    <3> QED
      BY <1>1, <3>1, <3>2 DEF AllocFirst
  <2> QED
    BY <1>1, <2>2 DEF AllocFirst, TypeOK, ShapeOK
<1>2. CASE Enter
  <2>1. i \in 1 .. NrPages(job) /\ SgAddr(job, i) \in Nat
    BY <1>2, EntryEnd DEF Enter
  <2> QED
    BY <1>2, <2>1 DEF Enter, TypeOK, ShapeOK
<1>3. CASE AddLink
  <2>1. LinkLen \in Nat /\ dma + LinkLen \in Nat /\ (vme + LinkLen) % Top \in 0 .. Top - 1
    <3>1. LinkLen \in Nat /\ dma \in Nat
      BY <1>3, AddLinkEffect, LinkFits DEF TypeOK
    <3> QED
      BY <1>0, <3>1, Wrapped
  <2>2. /\ vme' \in 0 .. Top - 1 /\ dma' \in Nat
        /\ job' = job /\ i' = i /\ vmeAddr' = vmeAddr
    BY <1>3, <2>1 DEF AddLink, TypeOK
  <2>3. /\ chain' \in Seq(Descriptor) /\ pc' \in {"link", "failed"} /\ virt' \in BOOLEAN
        /\ pc' = "link" => Len(chain') > 0
    <3>1. <<>> \in Seq(Descriptor)
      OBVIOUS
    <3>2. virt \in BOOLEAN
      BY DEF TypeOK
    <3>3. CASE chain' = <<>> /\ pc' = "failed" /\ virt' = virt
      BY <3>1, <3>2, <3>3
    <3>4. CASE ~(chain' = <<>> /\ pc' = "failed" /\ virt' = virt)
      BY <1>3, <3>4, AddLinkEffect
    <3> QED
      BY <3>3, <3>4
  <2> QED
    BY <1>3, <2>2, <2>3, AddLinkEffect DEF TypeOK, ShapeOK
<1>4. CASE Leave
  <2>1. i \in 1 .. NrPages(job) /\ SgLen(job, i) \in Nat
    BY <1>4, EntryEnd DEF Leave, ShapeOK
  <2>2. (vmeAddr + SgLen(job, i)) % Top \in 0 .. Top - 1
    BY <1>0, <2>1, Wrapped
  <2>3. vmeAddr' \in 0 .. Top - 1 /\ i' \in 1 .. NrPages(job) + 1
    BY <1>0, <1>4, <2>1, <2>2 DEF Leave, TypeOK
  <2> QED
    BY <1>4, <2>3 DEF Leave, TypeOK, ShapeOK
<1>5. CASE Program
  BY <1>5 DEF Program, TypeOK, ShapeOK
<1>6. CASE UNCHANGED vars
  BY <1>6 DEF vars, TypeOK, ShapeOK
<1> QED
  BY <1>1, <1>2, <1>3, <1>4, <1>5, <1>6 DEF Next

\* No step makes a link that crosses a block boundary.
LEMMA BlockStep == BlockInv /\ [Next]_vars => NoBlockCrossed'
<1> SUFFICES ASSUME TypeOK, ShapeOK, NoBlockCrossed, [Next]_vars PROVE NoBlockCrossed'
  BY DEF BlockInv
<1>1. CASE AllocFirst
  <2>1. CASE chain' = <<Blank>>
    <3>1. \A k \in 1 .. Len(chain') : chain'[k] = Blank
      BY <2>1
    <3> QED
      BY <3>1 DEF NoBlockCrossed, Blank
  <2>2. CASE chain' = chain
    BY <1>1, <2>2 DEF NoBlockCrossed, AllocFirst, Block
  <2> QED
    BY <1>1, <2>1, <2>2 DEF AllocFirst
<1>2. CASE AddLink
  <2>1. LinkLen \in Nat /\ (Block(job.am) # 0 =>
          (vme % Block(job.am)) + LinkLen <= Block(job.am))
    BY <1>2, AddLinkEffect, LinkFits
  <2>2. job' = job
    BY <1>2 DEF AddLink
  <2>3. CASE chain' = <<>>
    BY <2>3 DEF NoBlockCrossed
  <2>4. CASE chain' # <<>>
    <3>1. PICK n \in Nat \ {0} : n = Len(chain)
      BY <1>2, AddLinkEffect
    <3>2. ASSUME NEW k \in 1 .. Len(chain'), chain'[k].filled, Block(job.am) # 0
          PROVE  (chain'[k].vme % Block(job.am)) + chain'[k].len <= Block(job.am)
      <4>1. CASE k < n
        <5>1. k \in 1 .. n - 1 /\ k \in 1 .. Len(chain)
          BY <3>1, <4>1
        <5>2. chain'[k] = chain[k]
          BY <1>2, <2>4, <3>1, <5>1, AddLinkEffect
        <5> QED
          BY <3>2, <5>1, <5>2 DEF NoBlockCrossed
      <4>2. CASE k = n
        <5>1. chain'[k].vme = vme /\ chain'[k].len = LinkLen
          BY <1>2, <2>4, <3>1, <4>2, AddLinkEffect
        <5> QED
          BY <2>1, <3>2, <5>1
      <4>3. CASE k > n
        <5>1. k = n + 1 /\ chain'[n + 1] = Blank
          BY <1>2, <2>4, <3>1, <4>3, AddLinkEffect
        <5> QED
          BY <3>2, <5>1 DEF Blank
      <4> QED
        BY <3>1, <4>1, <4>2, <4>3
    <3> QED
      BY <2>2, <3>2 DEF NoBlockCrossed
  <2> QED
    BY <2>3, <2>4
<1>3. CASE Enter \/ Leave \/ Program \/ UNCHANGED vars
  <2>1. chain' = chain /\ job' = job
    BY <1>3 DEF Enter, Leave, Program, vars
  <2> QED
    BY <2>1 DEF NoBlockCrossed
<1> QED
  BY <1>1, <1>2, <1>3 DEF Next

\* Every variable of the chain builder keeps its type.
THEOREM TypeCorrect == Spec => []TypeOK
<1>1. Init => BlockInv
  BY BlockInit
<1>2. BlockInv /\ [Next]_vars => BlockInv'
  BY TypeStep, BlockStep DEF BlockInv
<1>3. BlockInv => TypeOK
  BY DEF BlockInv
<1> QED
  BY <1>1, <1>2, <1>3, PTL DEF Spec

\* No link that tsi148_dma_link_add() makes crosses a BLT or MBLT boundary:
\* for all pages, blocks, alignments and lengths, when addresses wrap too.
THEOREM BlocksRespected == Spec => []NoBlockCrossed
<1>1. Init => BlockInv
  BY BlockInit
<1>2. BlockInv /\ [Next]_vars => BlockInv'
  BY TypeStep, BlockStep DEF BlockInv
<1>3. BlockInv => NoBlockCrossed
  BY DEF BlockInv
<1> QED
  BY <1>1, <1>2, <1>3, PTL DEF Spec

-----------------------------------------------------------------------------
(* The chain and the transfer                                              *)

\* VME address of byte b of a transfer.
At(j, b) == IF j.novmeinc THEN j.vme ELSE j.vme + b

\* The k-th entry of a transfer ends below the top of the VME address space.
FitsVme(j, k) == At(j, Before(j, k)) + SgLen(j, k) < Top
\* It has PCI addresses of 32 bits.
FitsPci(j, k) == SgAddr(j, k) + SgLen(j, k) <= Top
\* All the entries are such.
Fits(j) == \A k \in 1 .. NrPages(j) : FitsVme(j, k) /\ FitsPci(j, k)

\* The k-th link of the chain c moves what comes after the links before it.
LinkOK(c, j, k) ==
  /\ c[k].filled /\ (c[k].last <=> k = Len(c)) /\ c[k].len > 0
  /\ c[k].vme = At(j, Moved(c, k - 1))
  /\ \A b \in 0 .. c[k].len - 1 : c[k].dma + b = BufferByte(j, Moved(c, k - 1) + b)

\* The first n links of c move the first b bytes of the transfer.
Built(c, j, n, b) == Moved(c, n) = b /\ \A k \in 1 .. n : LinkOK(c, j, k)

\* Bytes of the transfer in links, in the middle of an entry.
Pos == Before(job, i) + (dma - SgAddr(job, i))

\* How far the chain is at each control point: the descriptor at its end is
\* empty as long as something is to come, and that is when virt must be set.
EntryOK ==
  /\ vmeAddr = At(job, Before(job, i))
  /\ i <= NrPages(job) => virt
  /\ Built(chain, job, IF i <= NrPages(job) THEN Len(chain) - 1 ELSE Len(chain),
           Before(job, i))
\* The addresses in the middle of a page: dma is how far the page has come.
InEntryAt ==
  /\ SgAddr(job, i) <= dma /\ dma <= DmaEnd
  /\ vmeAddr = At(job, Before(job, i)) /\ vme = At(job, Pos)
\* The same in the middle of a page.
InEntryOK ==
  /\ InEntryAt
  /\ dma = DmaEnd /\ i < NrPages(job) => virt
  /\ Built(chain, job,
           IF dma < DmaEnd \/ i < NrPages(job) THEN Len(chain) - 1 ELSE Len(chain), Pos)
\* The inductive invariant of the transfer, at every control point.
ProgressInv ==
  /\ pc # "bug"
  /\ pc = "init" => i = 1 /\ vmeAddr = job.vme
  /\ pc = "entry" => EntryOK
  /\ pc = "link" => InEntryOK
  /\ pc = "done" => Built(chain, job, Len(chain), job.length)

\* An address below the top stays what it is.
LEMMA Unwrapped ==
  ASSUME NEW x \in Nat, x < Top
  PROVE  x % Top = x
<1>1. Top \in Nat \ {0} /\ x \in 0 .. Top - 1 /\ 0 \in Nat
  BY SizesAssumption
<1>2. (0 * Top + x) % Top = x
  BY <1>1, DivModUnique
<1>3. 0 * Top + x = x
  BY <1>1
<1> QED
  BY <1>2, <1>3

\* The VME side of an entry ends where it should.
LEMMA EntryEndVme ==
  ASSUME FitsVme(job, i), TypeOK, i <= NrPages(job), vmeAddr = At(job, Before(job, i))
  PROVE  /\ VmeEnd = vmeAddr + SgLen(job, i)
         /\ Before(job, i) \in Nat /\ SgLen(job, i) \in Nat \ {0}
         /\ Before(job, i + 1) = Before(job, i) + SgLen(job, i)
         /\ ~job.novmeinc => job.vme + Before(job, i) + SgLen(job, i) < Top
         /\ job.vme \in Nat /\ Top \in Nat
<1>1. i \in 1 .. NrPages(job) /\ job \in Jobs
  BY EntryEnd DEF TypeOK
<1>2. /\ SgLen(job, i) \in Nat \ {0} /\ Before(job, i) \in Nat
      /\ Before(job, i + 1) = Before(job, i) + SgLen(job, i)
      /\ Before(job, i + 1) <= job.length
  BY <1>1, Entries
<1>3. job.vme \in Nat /\ Top \in Nat
  BY <1>1, JobFields, SizesAssumption
<1>4. ~job.novmeinc => job.vme + Before(job, i) + SgLen(job, i) < Top
  BY <1>2, <1>3 DEF FitsVme, At
<1>5. vmeAddr + SgLen(job, i) \in Nat /\ vmeAddr + SgLen(job, i) < Top
  BY <1>2, <1>3 DEF FitsVme, At
<1> QED
  BY <1>2, <1>3, <1>4, <1>5, Unwrapped DEF VmeEnd

\* The loop goes on exactly until the entry is covered.
LEMMA MoreIs ==
  ASSUME FitsVme(job, i), TypeOK, i <= NrPages(job), InEntryAt
  PROVE  (More <=> dma < DmaEnd) /\ Pos \in Nat
<1>1. /\ VmeEnd = vmeAddr + SgLen(job, i)
      /\ Before(job, i) \in Nat /\ SgLen(job, i) \in Nat \ {0} /\ job.vme \in Nat
  BY EntryEndVme DEF InEntryAt
<1>2. SgAddr(job, i) \in Nat /\ DmaEnd = SgAddr(job, i) + SgLen(job, i) /\ dma \in Nat
  BY EntryEnd DEF TypeOK
<1>3. /\ SgAddr(job, i) <= dma /\ dma <= DmaEnd
      /\ vmeAddr = At(job, Before(job, i)) /\ vme = At(job, Pos)
  BY DEF InEntryAt
<1>4. Pos \in Nat /\ Pos = Before(job, i) + (dma - SgAddr(job, i))
  BY <1>1, <1>2, <1>3 DEF Pos
<1>5. dma < DmaEnd => vme < VmeEnd
  <2>1. CASE job.novmeinc
    BY <1>1, <1>3, <2>1 DEF At
  <2>2. CASE ~job.novmeinc
    <3>1. vmeAddr = job.vme + Before(job, i) /\ vme = job.vme + Pos
      BY <1>3, <2>2 DEF At
    <3> QED
      BY <1>1, <1>2, <1>4, <3>1
  <2> QED
    BY <2>1, <2>2
<1> QED
  BY <1>4, <1>5 DEF More

\* A turn of the loop goes on where the one before has stopped.
LEMMA AddressesStep ==
  ASSUME FitsVme(job, i), TypeOK, ShapeOK, InEntryAt, AddLink
  PROVE  InEntryAt' /\ Pos' = Pos + LinkLen /\ DmaEnd' = DmaEnd
<1>0. job \in Jobs /\ job' = job /\ job.vme \in Nat
  BY JobFields DEF TypeOK, AddLink
<1>1. pc = "link" /\ i <= NrPages(job) /\ dma < DmaEnd
  BY AddLinkEffect DEF AddLink
<1>2. LinkLen \in Nat \ {0} /\ dma + LinkLen <= DmaEnd
  BY <1>1, LinkFits
<1>3. /\ SgAddr(job, i) \in Nat /\ dma \in Nat /\ DmaEnd \in Nat
      /\ DmaEnd = SgAddr(job, i) + SgLen(job, i) /\ SgLen(job, i) \in Nat
  BY <1>1, EntryEnd DEF TypeOK
<1>4. /\ Before(job, i) \in Nat /\ Top \in Nat
      /\ ~job.novmeinc => job.vme + Before(job, i) + SgLen(job, i) < Top
  BY <1>1, EntryEndVme DEF InEntryAt
<1>5. /\ i' = i /\ vmeAddr' = vmeAddr /\ dma' = dma + LinkLen
      /\ vme' = IF job.novmeinc THEN vme ELSE (vme + LinkLen) % Top
  BY DEF AddLink
<1>6. Pos' = Pos + LinkLen /\ Pos \in Nat /\ Pos = Before(job, i) + (dma - SgAddr(job, i))
  BY <1>0, <1>1, <1>2, <1>3, <1>4, <1>5, MoreIs DEF Pos
<1>7. DmaEnd' = DmaEnd
  BY <1>0, <1>5 DEF DmaEnd
<1>8. vme' = At(job, Pos)'
  <2>1. CASE job.novmeinc
    BY <1>0, <1>5, <2>1 DEF InEntryAt, At
  <2>2. CASE ~job.novmeinc
    <3>1. vme = job.vme + Pos
      BY <2>2 DEF InEntryAt, At
    <3>2. vme + LinkLen \in Nat /\ vme + LinkLen < Top
      <4>1. Pos + LinkLen <= Before(job, i) + SgLen(job, i)
        BY <1>2, <1>3, <1>4, <1>6
      <4>2. PICK v \in Nat, p \in Nat, l \in Nat, b \in Nat, s \in Nat, t \in Nat :
              /\ v = job.vme /\ p = Pos /\ l = LinkLen /\ b = Before(job, i)
              /\ s = SgLen(job, i) /\ t = Top
        BY <1>0, <1>2, <1>3, <1>4, <1>6
      <4>3. p + l <= b + s /\ v + b + s < t /\ vme + LinkLen = v + p + l
        BY <1>4, <2>2, <3>1, <4>1, <4>2
      <4> QED
        BY <4>2, <4>3
    <3>3. vme' = vme + LinkLen
      BY <1>5, <2>2, <3>2, Unwrapped
    <3> QED
      BY <1>0, <1>2, <1>6, <2>2, <3>1, <3>3 DEF At
  <2> QED
    BY <2>1, <2>2
<1>9. SgAddr(job, i)' <= dma' /\ dma' <= DmaEnd'
  BY <1>0, <1>2, <1>3, <1>5, <1>7 DEF InEntryAt
<1>10. vmeAddr' = At(job, Before(job, i))'
  BY <1>0, <1>5 DEF InEntryAt
<1> QED
  BY <1>6, <1>7, <1>8, <1>9, <1>10 DEF InEntryAt

\* At the end of an entry the VME address is that of the next one.
LEMMA LeaveAddress ==
  ASSUME FitsVme(job, i), TypeOK, i <= NrPages(job), InEntryAt, Leave
  PROVE  vmeAddr' = At(job, Before(job, i + 1)) /\ dma = DmaEnd
<1>0. job \in Jobs /\ job.vme \in Nat
  BY JobFields DEF TypeOK
<1>1. dma = DmaEnd
  <2>1. ~(dma < DmaEnd)
    BY MoreIs DEF Leave
  <2>2. dma <= DmaEnd /\ dma \in Nat /\ DmaEnd \in Nat
    BY EntryEnd DEF InEntryAt, TypeOK
  <2> QED
    BY <2>1, <2>2
<1>2. /\ VmeEnd = vmeAddr + SgLen(job, i)
      /\ Before(job, i) \in Nat /\ SgLen(job, i) \in Nat
      /\ Before(job, i + 1) = Before(job, i) + SgLen(job, i)
      /\ vmeAddr = At(job, Before(job, i))
  BY EntryEndVme DEF InEntryAt
<1>3. vmeAddr' = IF job.novmeinc THEN vmeAddr ELSE (vmeAddr + SgLen(job, i)) % Top
  BY DEF Leave
<1>4. CASE job.novmeinc
  BY <1>1, <1>2, <1>3, <1>4 DEF At
<1>5. CASE ~job.novmeinc
  BY <1>0, <1>1, <1>2, <1>3, <1>5 DEF At, VmeEnd
<1> QED
  BY <1>4, <1>5

\* Descriptors have lengths.
LEMMA ChainLengths ==
  ASSUME TypeOK, NEW n \in Nat, n <= Len(chain)
  PROVE  HasLengths(chain, n)
<1>1. chain \in Seq(Descriptor) /\ Len(chain) \in Nat
  BY DEF TypeOK
<1>2. \A k \in 1 .. n : chain[k] \in Descriptor
  BY <1>1
<1>3. \A d \in Descriptor : d.len \in Nat
  BY DEF Descriptor
<1> QED
  BY <1>2, <1>3 DEF HasLengths

\* A link is added to those that are there.
LEMMA LinkAdded ==
  ASSUME Fits(job), TypeOK, ShapeOK, InEntryOK, AddLink, TypeOK', chain' # <<>>
  PROVE  Built(chain', job, Len(chain), Pos + LinkLen)
<1>1. /\ Len(chain) \in Nat \ {0} /\ i <= NrPages(job) /\ dma < DmaEnd
      /\ Len(chain') = IF NeedsNext(LinkLen) THEN Len(chain) + 1 ELSE Len(chain)
      /\ \A k \in 1 .. Len(chain) - 1 : chain'[k] = chain[k]
      /\ chain'[Len(chain)].filled /\ chain'[Len(chain)].vme = vme
      /\ chain'[Len(chain)].dma = dma % Top /\ chain'[Len(chain)].len = LinkLen
      /\ chain'[Len(chain)].last <=> ~NeedsNext(LinkLen)
  BY AddLinkEffect
<1>2. LinkLen \in Nat \ {0} /\ dma + LinkLen <= DmaEnd
  BY <1>1, LinkFits
<1>10. chain'[Len(chain)].dma = dma
  <2>1. /\ i \in 1 .. NrPages(job) /\ dma \in Nat /\ Top \in Nat
        /\ DmaEnd = SgAddr(job, i) + SgLen(job, i) /\ DmaEnd \in Nat
    BY <1>1, EntryEnd, SizesAssumption DEF TypeOK
  <2>2. DmaEnd <= Top
    BY <2>1 DEF Fits, FitsPci
  <2>3. dma < Top
    BY <1>1, <2>1, <2>2
  <2> QED
    BY <1>1, <2>1, <2>3, Unwrapped
<1>0. PICK c : c = chain'
  OBVIOUS
<1>3. PICK n \in Nat \ {0}, len \in Nat \ {0} :
        n = Len(chain) /\ c = chain' /\ len = LinkLen
  BY <1>0, <1>1, <1>2
<1>4. Built(chain, job, n - 1, Pos)
  BY <1>1, <1>3 DEF InEntryOK
<1>5. HasLengths(chain, n - 1) /\ HasLengths(c, n)
  <2>1. HasLengths(chain, n - 1)
    BY <1>3, ChainLengths
  <2>2. \A k \in 1 .. n : c[k].len \in Nat
    <3> SUFFICES ASSUME NEW k \in 1 .. n PROVE c[k].len \in Nat
      OBVIOUS
    <3>1. CASE k = n
      BY <1>1, <1>3, <3>1
    <3>2. CASE k # n
      BY <1>1, <1>3, <2>1, <3>2 DEF HasLengths
    <3> QED
      BY <3>1, <3>2
  <2> QED
    BY <2>1, <2>2 DEF HasLengths
<1>6. ASSUME NEW m \in 0 .. n - 1
      PROVE  Moved(c, m) = Moved(chain, m)
  <2>1. m \in Nat /\ HasLengths(chain, m)
    BY <1>5 DEF HasLengths
  <2>2. \A k \in 1 .. m : chain[k].len = c[k].len
    BY <1>1, <1>3
  <2> QED
    BY <2>1, <2>2, MovedPrefix
<1>7. Moved(c, n - 1) = Pos
  BY <1>4, <1>6 DEF Built
<1>8. Moved(c, n) = Pos + len
  BY <1>1, <1>3, <1>5, <1>7, MovedNext
<1>9. ASSUME NEW k \in 1 .. n
      PROVE  LinkOK(c, job, k)
  <2>1. CASE k # n
    <3>1. k \in 1 .. n - 1 /\ k - 1 \in 0 .. n - 1 /\ c[k] = chain[k]
      BY <1>1, <1>3, <2>1
    <3>2. LinkOK(chain, job, k) /\ Moved(c, k - 1) = Moved(chain, k - 1)
      BY <1>4, <1>6, <3>1 DEF Built
    <3>3. k # Len(chain) /\ k # Len(c)
      BY <1>1, <1>3, <3>1
    <3> QED
      BY <3>1, <3>2, <3>3 DEF LinkOK
  <2>2. CASE k = n
    <3>1. c[k].vme = At(job, Moved(c, k - 1))
      BY <1>1, <1>3, <1>7, <2>2 DEF InEntryOK, InEntryAt
    <3>2. c[k].filled /\ c[k].len > 0 /\ (c[k].last <=> k = Len(c))
      BY <1>1, <1>3, <2>2
    <3>3. ASSUME NEW b \in 0 .. c[k].len - 1
          PROVE  c[k].dma + b = BufferByte(job, Moved(c, k - 1) + b)
      <4>1. /\ SgAddr(job, i) \in Nat /\ SgLen(job, i) \in Nat
            /\ DmaEnd = SgAddr(job, i) + SgLen(job, i)
            /\ i \in 1 .. NrPages(job) /\ job \in Jobs /\ dma \in Nat
        BY <1>1, EntryEnd DEF TypeOK
      <4>2. Before(job, i) \in Nat
        BY <4>1, Entries
      <4>3. b \in Nat /\ b < len
        BY <1>1, <1>3, <2>2
      <4>4. PICK a \in 0 .. SgLen(job, i) - 1 : a = (dma - SgAddr(job, i)) + b
        <5>1. SgAddr(job, i) <= dma
          BY DEF InEntryOK, InEntryAt
        <5> QED
          BY <1>2, <1>3, <4>1, <4>3, <5>1
      <4>5. SgAddr(job, i) + a = BufferByte(job, Before(job, i) + a)
        BY <4>1, BufferBytes
      <4>6. SgAddr(job, i) + a = dma + b /\ Before(job, i) + a = Pos + b
        BY <4>1, <4>2, <4>3, <4>4 DEF Pos
      <4> QED
        BY <1>1, <1>3, <1>7, <1>10, <2>2, <4>5, <4>6
    <3> QED
      BY <3>1, <3>2, <3>3 DEF LinkOK
  <2> QED
    BY <2>1, <2>2
<1> QED
  BY <1>3, <1>8, <1>9 DEF Built

\* The chain is as far as it should be, after every step.
LEMMA ProgressStep ==
  ASSUME Fits(job), TypeOK, ShapeOK, ProgressInv, TypeOK', [Next]_vars
  PROVE  ProgressInv'
<1>0. /\ job \in Jobs /\ NrPages(job) \in Nat \ {0} /\ i \in 1 .. NrPages(job) + 1
      /\ job.vme \in Nat /\ job.length \in Nat /\ job' = job /\ Len(chain) \in Nat
  <2>1. job \in Jobs /\ i \in 1 .. NrPages(job) + 1 /\ Len(chain) \in Nat
    BY DEF TypeOK
  <2>2. NrPages(job) \in Nat \ {0} /\ job.vme \in Nat /\ job.length \in Nat
    BY <2>1, PageCount, JobFields
  <2>3. job' = job
    BY DEF Next, vars, AllocFirst, Enter, AddLink, Leave, Program
  <2> QED
    BY <2>1, <2>2, <2>3
<1>1. CASE AllocFirst
  <2>1. CASE pc' = "failed"
    BY <2>1 DEF ProgressInv
  <2>2. CASE pc' = "entry" /\ virt' = TRUE /\ chain' = <<Blank>>
    <3>1. i' = 1 /\ vmeAddr' = job.vme
      BY <1>1, <2>2 DEF AllocFirst, ProgressInv
    <3>2. Before(job, 1) = 0 /\ At(job, 0) = job.vme
      BY <1>0 DEF Before, At
    <3>3. Len(chain') = 1 /\ 1 <= NrPages(job)
      BY <1>0, <2>2
    <3>4. Moved(chain', 0) = 0
      <4>1. HasLengths(chain', 0)
        BY DEF HasLengths
      <4> QED
        BY <4>1, MovedNext
    <3>5. Built(chain', job, 0, 0)
      BY <3>4 DEF Built
    <3>6. EntryOK'
      BY <1>0, <2>2, <3>1, <3>2, <3>3, <3>5 DEF EntryOK
    <3> QED
      BY <2>2, <3>6 DEF ProgressInv
  <2> QED
    BY <1>1, <2>1, <2>2 DEF AllocFirst
<1>2. CASE Enter
  <2>1. pc = "entry" /\ i <= NrPages(job) /\ EntryOK
    BY <1>2 DEF Enter, ProgressInv
  <2>2. /\ pc' = "link" /\ vme' = vmeAddr /\ dma' = SgAddr(job, i)
        /\ i' = i /\ vmeAddr' = vmeAddr /\ chain' = chain
    BY <1>2, <2>1 DEF Enter, EntryOK
  <2>3. /\ SgLen(job, i) \in Nat \ {0} /\ SgAddr(job, i) \in Nat
        /\ Before(job, i) \in Nat
    BY <1>0, <2>1, EntryEnd, Entries
  <2>4. Pos' = Before(job, i)
    BY <1>0, <2>2, <2>3 DEF Pos
  <2>5. DmaEnd' = SgAddr(job, i) + SgLen(job, i)
    BY <1>0, <2>2 DEF DmaEnd
  <2>6. Built(chain, job, Len(chain) - 1, Before(job, i))
    BY <2>1 DEF EntryOK
  <2>7. InEntryOK'
    <3>1. SgAddr(job, i)' <= dma' /\ dma' < DmaEnd' /\ ~(dma' = DmaEnd')
      BY <1>0, <2>2, <2>3, <2>5
    <3>2. vmeAddr' = At(job, Before(job, i))' /\ vme' = At(job, Pos)'
      BY <1>0, <2>1, <2>2, <2>4 DEF EntryOK
    <3>3. dma' <= DmaEnd'
      BY <2>2, <2>3, <2>5
    <3> QED
      BY <1>0, <2>2, <2>4, <2>6, <3>1, <3>2, <3>3 DEF InEntryOK, InEntryAt
  <2> QED
    BY <2>2, <2>7 DEF ProgressInv
<1>3. CASE AddLink
  <2>1. pc = "link" /\ i <= NrPages(job) /\ InEntryOK
    BY <1>3 DEF AddLink, ProgressInv, ShapeOK
  <2>2. CASE pc' = "failed"
    BY <2>2 DEF ProgressInv
  <2>3. CASE pc' # "failed"
    <3>1. /\ pc' = "link" /\ chain' # <<>> /\ (virt' <=> virt \/ NeedsNext(LinkLen))
          /\ Len(chain') = IF NeedsNext(LinkLen) THEN Len(chain) + 1 ELSE Len(chain)
          /\ Len(chain) \in Nat \ {0} /\ dma < DmaEnd
      <4>1. Len(<<>>) = 0
        OBVIOUS
      <4> QED
        BY <1>3, <2>3, <4>1, AddLinkEffect
    <3>2. FitsVme(job, i) /\ InEntryAt
      BY <1>0, <2>1 DEF Fits, InEntryOK
    <3>3. InEntryAt' /\ Pos' = Pos + LinkLen /\ DmaEnd' = DmaEnd
      BY <1>3, <3>2, AddressesStep
    <3>4. i' = i /\ dma' = dma + LinkLen
      BY <1>3 DEF AddLink
    <3>5. Built(chain', job, Len(chain), Pos + LinkLen)
      BY <1>3, <2>1, <3>1, LinkAdded
    <3>6. NeedsNext(LinkLen) <=> dma' < DmaEnd' \/ i' < NrPages(job')
      BY <1>0, <3>3, <3>4 DEF NeedsNext
    <3>7. Len(chain) = IF dma' < DmaEnd' \/ i' < NrPages(job') THEN Len(chain') - 1
                        ELSE Len(chain')
      BY <3>1, <3>6
    <3>8. InEntryOK'
      BY <1>0, <3>1, <3>3, <3>5, <3>6, <3>7 DEF InEntryOK
    <3> QED
      BY <3>1, <3>8 DEF ProgressInv
  <2> QED
    BY <2>2, <2>3
<1>4. CASE Leave
  <2>1. pc = "link" /\ i <= NrPages(job) /\ InEntryOK
    BY <1>4 DEF Leave, ProgressInv, ShapeOK
  <2>2. FitsVme(job, i) /\ InEntryAt
    BY <1>0, <2>1 DEF Fits, InEntryOK
  <2>3. /\ pc' = "entry" /\ i' = i + 1 /\ virt' = virt /\ chain' = chain
        /\ dma = DmaEnd /\ vmeAddr' = At(job, Before(job, i + 1))
    BY <1>4, <2>1, <2>2, LeaveAddress DEF Leave
  <2>4. /\ Before(job, i) \in Nat /\ SgLen(job, i) \in Nat
        /\ Before(job, i + 1) = Before(job, i) + SgLen(job, i)
    BY <2>1, <2>2, EntryEndVme DEF InEntryAt
  <2>5. SgAddr(job, i) \in Nat /\ DmaEnd = SgAddr(job, i) + SgLen(job, i)
    BY <2>1, EntryEnd
  <2>6. Pos = Before(job, i + 1)
    BY <2>3, <2>4, <2>5 DEF Pos
  <2>8. i < NrPages(job) => virt
    BY <2>1, <2>3 DEF InEntryOK
  <2>9. ~(dma < DmaEnd)
    BY <2>3, <2>4, <2>5
  <2>10. Built(chain, job, IF i < NrPages(job) THEN Len(chain) - 1 ELSE Len(chain), Pos)
    BY <2>1, <2>9 DEF InEntryOK
  <2>11. i' <= NrPages(job) <=> i < NrPages(job)
    BY <1>0, <2>3
  <2>12. EntryOK'
    BY <1>0, <2>3, <2>6, <2>8, <2>10, <2>11 DEF EntryOK
  <2> QED
    BY <2>3, <2>12 DEF ProgressInv
<1>5. CASE Program
  <2>1. pc = "entry" /\ ~(i <= NrPages(job)) /\ EntryOK
    BY <1>0, <1>5 DEF Program, ProgressInv
  <2>2. Before(job, i) = job.length
    BY <1>0, <2>1 DEF Before
  <2>3. Built(chain, job, Len(chain), job.length)
    BY <2>1, <2>2 DEF EntryOK
  <2> QED
    BY <1>0, <1>5, <2>3 DEF Program, ProgressInv
<1>6. CASE UNCHANGED vars
  <2>1. /\ EntryOK' <=> EntryOK
        /\ InEntryOK' <=> InEntryOK
    BY <1>6 DEF vars, EntryOK, InEntryOK, InEntryAt, Pos, DmaEnd
  <2> QED
    BY <1>6, <2>1 DEF vars, ProgressInv
<1> QED
  BY <1>1, <1>2, <1>3, <1>4, <1>5, <1>6 DEF Next

\* What tsi148_dma_setup_chain() leaves in memory is the transfer that was asked
\* for, every byte once and in order, and its BUG_ON never fires: for all sizes
\* of pages and blocks and all places of the pages, as long as every entry ends
\* below the top of the VME address space and has PCI addresses of 32 bits.
THEOREM TransferExact == Spec => [](Fits(job) => ChainIsTransfer)
<1> DEFINE IInv == TypeOK /\ ShapeOK /\ (Fits(job) => ProgressInv)
<1>1. Init => IInv
  <2>1. Init => ProgressInv
    BY DEF Init, ProgressInv
  <2> QED
    BY <2>1, BlockInit DEF BlockInv
<1>2. IInv /\ [Next]_vars => IInv'
  <2>1. [Next]_vars => job' = job
    BY DEF Next, vars, AllocFirst, Enter, AddLink, Leave, Program
  <2>2. [Next]_vars => (Fits(job)' <=> Fits(job))
    BY <2>1
  <2> QED
    BY <2>2, TypeStep, ProgressStep
<1>3. IInv => (Fits(job) => ChainIsTransfer)
  BY DEF ProgressInv, ChainIsTransfer, VirtInitialised, Built, LinkOK, At
<1> QED
  BY <1>1, <1>2, <1>3, PTL DEF Spec

-----------------------------------------------------------------------------
(* Transfers that reach the top                                            *)

\* The entries before the n-th end below the top.
FitUpTo(n) == \A k \in 1 .. NrPages(job) : k < n => FitsVme(job, k)
\* The descriptor at the end of the chain has not been filled.
LastBlank == Len(chain) > 0 /\ chain[Len(chain)].filled = FALSE
\* An entry that reaches the top is left as it was entered, without a new link.
TopInv ==
  /\ pc = "init" => i = 1 /\ vmeAddr = job.vme
  /\ pc = "entry" =>
       \/ /\ FitUpTo(i) /\ vmeAddr = At(job, Before(job, i))
          /\ i <= NrPages(job) => LastBlank
       \/ ~virt /\ LastBlank
  /\ pc = "link" =>
       /\ FitUpTo(i) /\ vmeAddr = At(job, Before(job, i))
       /\ FitsVme(job, i) =>
            InEntryAt /\ (dma < DmaEnd \/ i < NrPages(job) => LastBlank)
       /\ ~FitsVme(job, i) => vme = vmeAddr /\ ~virt /\ LastBlank
  /\ pc = "done" => FitUpTo(NrPages(job) + 1) \/ LastBlank

\* The end of an entry that reaches the top is not above its beginning.
LEMMA TopNotEntered ==
  ASSUME TypeOK, i <= NrPages(job), ~FitsVme(job, i),
         vmeAddr = At(job, Before(job, i)), vme = vmeAddr
  PROVE  ~More
<1>1. i \in 1 .. NrPages(job) /\ job \in Jobs
  BY EntryEnd DEF TypeOK
<1>2. SgLen(job, i) \in Nat /\ SgLen(job, i) <= PageSize
  <2>1. /\ SgLen(job, i) \in Nat /\ First(job, i) \in Nat
        /\ First(job, i) + SgLen(job, i) <= PageSize
    BY <1>1, Entries
  <2> QED
    BY <2>1, SizesAssumption
<1>3. Top \in Nat \ {0} /\ PageSize \in Nat /\ PageSize <= Top /\ vmeAddr \in 0 .. Top - 1
  BY SizesAssumption DEF TypeOK
<1>4. ~(vmeAddr + SgLen(job, i) < Top)
  BY DEF FitsVme
<1>5. PICK r \in Nat : r = vmeAddr + SgLen(job, i) - Top /\ r <= vmeAddr
  BY <1>2, <1>3, <1>4
<1>6. (1 * Top + r) % Top = r
  <2>1. r \in 0 .. Top - 1 /\ 1 \in Nat
    BY <1>3, <1>5
  <2> QED
    BY <1>3, <2>1, DivModUnique
<1>7. 1 * Top + r = vmeAddr + SgLen(job, i)
  BY <1>2, <1>3, <1>5
<1>8. VmeEnd = r
  BY <1>6, <1>7 DEF VmeEnd
<1> QED
  BY <1>3, <1>5, <1>8 DEF More

\* Every step keeps track of the entries that did not reach the top.
LEMMA TopStep ==
  ASSUME TypeOK, ShapeOK, TopInv, [Next]_vars
  PROVE  TopInv'
<1>0. /\ job \in Jobs /\ NrPages(job) \in Nat \ {0} /\ i \in 1 .. NrPages(job) + 1
      /\ job.vme \in Nat /\ job' = job /\ Len(chain) \in Nat
  <2>1. job \in Jobs /\ i \in 1 .. NrPages(job) + 1 /\ Len(chain) \in Nat
    BY DEF TypeOK
  <2>2. NrPages(job) \in Nat \ {0} /\ job.vme \in Nat
    BY <2>1, PageCount, JobFields
  <2>3. job' = job
    BY DEF Next, vars, AllocFirst, Enter, AddLink, Leave, Program
  <2> QED
    BY <2>1, <2>2, <2>3
<1>1. CASE AllocFirst
  <2>1. CASE pc' = "failed"
    BY <2>1 DEF TopInv
  <2>2. CASE pc' = "entry" /\ virt' = TRUE /\ chain' = <<Blank>>
    <3>1. i' = 1 /\ vmeAddr' = job.vme
      BY <1>1, <2>2 DEF AllocFirst, TopInv
    <3>2. vmeAddr' = At(job, Before(job, i))'
      BY <1>0, <3>1 DEF Before, At
    <3>3. FitUpTo(i)'
      BY <1>0, <3>1 DEF FitUpTo
    <3>4. Len(chain') = 1 /\ chain'[1].filled = FALSE
      BY <2>2 DEF Blank
    <3>5. LastBlank'
      BY <3>4 DEF LastBlank
    <3> QED
      BY <2>2, <3>2, <3>3, <3>5 DEF TopInv
  <2> QED
    BY <1>1, <2>1, <2>2 DEF AllocFirst
<1>2. CASE Enter
  <2>1. CASE ~virt
    BY <1>2, <2>1 DEF Enter, TopInv
  <2>2. CASE virt
    <3>1. /\ pc = "entry" /\ i <= NrPages(job) /\ pc' = "link" /\ vme' = vmeAddr
          /\ dma' = SgAddr(job, i) /\ ~virt' /\ i' = i /\ vmeAddr' = vmeAddr
          /\ chain' = chain
      BY <1>2, <2>2 DEF Enter
    <3>2. FitUpTo(i) /\ vmeAddr = At(job, Before(job, i)) /\ LastBlank
      BY <2>2, <3>1 DEF TopInv
    <3>3. FitUpTo(i)' /\ LastBlank' /\ vmeAddr' = At(job, Before(job, i))'
      BY <1>0, <3>1, <3>2 DEF FitUpTo, LastBlank
    <3>4. InEntryAt'
      <4>1. /\ SgLen(job, i) \in Nat \ {0} /\ SgAddr(job, i) \in Nat
            /\ Before(job, i) \in Nat
        BY <1>0, <3>1, EntryEnd, Entries
      <4>2. Pos' = Before(job, i)
        BY <1>0, <3>1, <4>1 DEF Pos
      <4>3. DmaEnd' = SgAddr(job, i) + SgLen(job, i)
        BY <1>0, <3>1 DEF DmaEnd
      <4>4. SgAddr(job, i)' <= dma' /\ dma' <= DmaEnd'
        BY <1>0, <3>1, <4>1, <4>3
      <4>5. vme' = At(job, Pos)'
        BY <1>0, <3>1, <3>2, <4>2
      <4> QED
        BY <3>3, <4>4, <4>5 DEF InEntryAt
    <3> QED
      BY <1>0, <3>1, <3>3, <3>4 DEF TopInv
  <2> QED
    BY <2>1, <2>2
<1>3. CASE AddLink
  <2>1. pc = "link" /\ i <= NrPages(job) /\ More
    BY <1>3 DEF AddLink, ShapeOK
  <2>2. FitUpTo(i) /\ vmeAddr = At(job, Before(job, i))
    BY <2>1 DEF TopInv
  <2>3. FitsVme(job, i)
    BY <2>1, <2>2, TopNotEntered DEF TopInv
  <2>4. InEntryAt
    BY <2>1, <2>3 DEF TopInv
  <2>5. InEntryAt' /\ DmaEnd' = DmaEnd
    BY <1>3, <2>3, <2>4, AddressesStep
  <2>6. i' = i /\ vmeAddr' = vmeAddr /\ dma' = dma + LinkLen
    BY <1>3 DEF AddLink
  <2>7. CASE pc' = "failed"
    BY <2>7 DEF TopInv
  <2>8. CASE pc' # "failed"
    <3>1. /\ pc' = "link"
          /\ Len(chain') = IF NeedsNext(LinkLen) THEN Len(chain) + 1 ELSE Len(chain)
          /\ NeedsNext(LinkLen) => chain'[Len(chain) + 1] = Blank
      BY <1>3, <2>8, AddLinkEffect
    <3>2. NeedsNext(LinkLen) <=> dma' < DmaEnd' \/ i' < NrPages(job')
      BY <1>0, <2>5, <2>6 DEF NeedsNext
    <3>3. NeedsNext(LinkLen) => LastBlank'
      <4>1. NeedsNext(LinkLen) => Len(chain') > 0 /\ chain'[Len(chain')] = Blank
        BY <1>0, <3>1
      <4> QED
        BY <4>1 DEF LastBlank, Blank
    <3>4. FitUpTo(i)' /\ FitsVme(job, i)' /\ vmeAddr' = At(job, Before(job, i))'
      BY <1>0, <2>2, <2>3, <2>6 DEF FitUpTo
    <3> QED
      BY <2>5, <3>1, <3>2, <3>3, <3>4 DEF TopInv
  <2> QED
    BY <2>7, <2>8
<1>4. CASE Leave
  <2>1. /\ pc = "link" /\ i <= NrPages(job) /\ pc' = "entry" /\ i' = i + 1
        /\ virt' = virt /\ chain' = chain
    BY <1>4 DEF Leave, ShapeOK
  <2>2. FitUpTo(i)
    BY <2>1 DEF TopInv
  <2>3. CASE FitsVme(job, i)
    <3>1. InEntryAt
      BY <2>1, <2>3 DEF TopInv
    <3>2. vmeAddr' = At(job, Before(job, i))'
      BY <1>0, <1>4, <2>1, <2>3, <3>1, LeaveAddress
    <3>3. FitUpTo(i)'
      <4>1. \A k \in 1 .. NrPages(job) : k < i + 1 => FitsVme(job, k)
        <5> SUFFICES ASSUME NEW k \in 1 .. NrPages(job), k < i + 1 PROVE FitsVme(job, k)
          OBVIOUS
        <5>1. k = i \/ k < i
          BY <1>0
        <5> QED
          BY <2>2, <2>3, <5>1 DEF FitUpTo
      <4> QED
        BY <1>0, <2>1, <4>1 DEF FitUpTo
    <3>4. i' <= NrPages(job)' => LastBlank'
      <4>1. i' <= NrPages(job)' => i < NrPages(job)
        BY <1>0, <2>1
      <4> QED
        BY <2>1, <2>3, <4>1 DEF TopInv, LastBlank
    <3> QED
      BY <2>1, <3>2, <3>3, <3>4 DEF TopInv
  <2>4. CASE ~FitsVme(job, i)
    BY <2>1, <2>4 DEF TopInv, LastBlank
  <2> QED
    BY <2>3, <2>4
<1>5. CASE Program
  <2>1. pc = "entry" /\ i > NrPages(job) /\ pc' = "done" /\ chain' = chain
    BY <1>5 DEF Program
  <2>2. FitUpTo(i) => FitUpTo(NrPages(job) + 1)
    BY <1>0, <2>1 DEF FitUpTo
  <2>3. FitUpTo(NrPages(job) + 1) \/ LastBlank
    BY <2>1, <2>2 DEF TopInv
  <2>4. FitUpTo(NrPages(job) + 1)' \/ LastBlank'
    BY <1>0, <2>1, <2>3 DEF FitUpTo, LastBlank
  <2> QED
    BY <2>1, <2>4 DEF TopInv
<1>6. CASE UNCHANGED vars
  <2>1. /\ FitUpTo(i)' <=> FitUpTo(i)
        /\ FitUpTo(NrPages(job) + 1)' <=> FitUpTo(NrPages(job) + 1)
        /\ LastBlank' <=> LastBlank
        /\ InEntryAt' <=> InEntryAt
        /\ DmaEnd' = DmaEnd
    BY <1>6 DEF vars, FitUpTo, LastBlank, InEntryAt, Pos, DmaEnd
  <2> QED
    BY <1>6, <2>1 DEF vars, TopInv
<1> QED
  BY <1>1, <1>2, <1>3, <1>4, <1>5, <1>6 DEF Next

\* The other side of the bound: a transfer one of whose entries ends at the top
\* of the VME address space or beyond never gets its chain.  If one is handed to
\* the chip at all, the descriptor at its end has not been filled.
THEOREM TopNotReached ==
  Spec => [](pc = "done" /\ ChainIsTransfer =>
               \A k \in 1 .. NrPages(job) : FitsVme(job, k))
<1> DEFINE IInv == TypeOK /\ ShapeOK /\ TopInv
<1>1. Init => IInv
  <2>1. Init => TopInv
    BY DEF Init, TopInv
  <2> QED
    BY <2>1, BlockInit DEF BlockInv
<1>2. IInv /\ [Next]_vars => IInv'
  BY TypeStep, TopStep
<1>3. IInv => (pc = "done" /\ ChainIsTransfer => \A k \in 1 .. NrPages(job) : FitsVme(job, k))
  <2> SUFFICES ASSUME IInv, pc = "done", ChainIsTransfer
               PROVE  \A k \in 1 .. NrPages(job) : FitsVme(job, k)
    OBVIOUS
  <2>1. NrPages(job) \in Nat /\ Len(chain) \in Nat
    BY PageCount DEF TypeOK
  <2>2. LastBlank => FALSE
    <3>1. LastBlank => Len(chain) \in 1 .. Len(chain) /\ chain[Len(chain)].filled = FALSE
      BY <2>1 DEF LastBlank
    <3>2. \A k \in 1 .. Len(chain) : chain[k].filled
      BY DEF ChainIsTransfer
    <3> QED
      BY <3>1, <3>2
  <2>3. FitUpTo(NrPages(job) + 1)
    BY <2>2 DEF TopInv
  <2> QED
    BY <2>1, <2>3 DEF FitUpTo
<1> QED
  BY <1>1, <1>2, <1>3, PTL DEF Spec
=============================================================================

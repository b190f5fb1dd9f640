------------------------------ MODULE DmaChain ------------------------------
(***************************************************************************)
(* Cutting a DMA transfer into a chain of hardware descriptors: the        *)
(* scatter-gather list that sgl_map_user_pages() makes of a buffer         *)
(* (src/vmebridge/driver/vme_dma.c), and the chain of descriptors that     *)
(* tsi148_dma_setup_chain() and tsi148_dma_link_add() make of the list     *)
(* (tsi148.c).  One step is one turn of an inner loop.                     *)
(*                                                                         *)
(* VME addresses are 32 bits wide and wrap at Top.  PCI addresses are as   *)
(* wide as the DMA mask of the bridge allows, but a descriptor has room    *)
(* for 32 bits of them only.                                               *)
(***************************************************************************)
EXTENDS Integers, Sequences

CONSTANTS PageSize,     \* PAGE_SIZE
          Top,          \* 2^32
          DmaMask,      \* 2^BITS_PER_LONG: PCI addresses are below it
          BltBlock,     \* 256: what a BLT cycle must not cross
          MbltBlock,    \* 2048: what an MBLT cycle must not cross
          Frames,       \* Frames[k]: PCI address of the k-th page of the buffer
          Jobs,         \* the transfers that are asked for
          PoolMayFail   \* can dma_desc_pool run out of descriptors?

ASSUME SizesAssumption ==
  /\ PageSize \in Nat \ {0} /\ Top \in Nat \ {0} /\ DmaMask \in Nat
  /\ PageSize <= Top
  /\ BltBlock \in Nat \ {0} /\ MbltBlock \in Nat \ {0}

VARIABLES
  job,       \* the transfer: channel->desc
  pc,        \* control point, named for what is done next
  i,         \* entry of the scatter-gather list that is worked on
  virt,      \* is there a descriptor to fill (the last of the chain)?
  vmeAddr,   \* vme_addr of tsi148_dma_setup_chain()
  vme, dma,  \* the two addresses of tsi148_dma_link_add()
  chain      \* hw_desc_list: the descriptors allocated so far

vars == <<job, pc, i, virt, vmeAddr, vme, dma, chain>>

-----------------------------------------------------------------------------
(* The scatter-gather list                                                 *)

Off(j) == j.uaddr % PageSize                               \* offset_in_page()
NrPages(j) == (Off(j) + j.length + PageSize - 1) \div PageSize

\* The buffer of a job lies in the pages that were pinned for it, and pci_map_sg()
\* gives them addresses that the mask allows.
ASSUME JobsAssumption ==
  /\ Frames \in Seq(Nat) /\ PoolMayFail \in BOOLEAN
  /\ \A k \in 1 .. Len(Frames) : Frames[k] + PageSize <= DmaMask
  /\ Jobs \subseteq [uaddr : Nat, length : Nat \ {0}, vme : 0 .. Top - 1,
                     am : {"SCT", "BLT", "MBLT"}, novmeinc : BOOLEAN]
  /\ \A j \in Jobs : NrPages(j) <= Len(Frames)

\* Mutant of SgLen: the first page counts as a whole one.
SgLenWholePages(j, k) ==
  IF NrPages(j) = 1 \/ k < NrPages(j)
    THEN IF NrPages(j) = 1 THEN j.length ELSE PageSize
    ELSE j.length - (k - 1) * PageSize

\* Bytes of the k-th page that belong to the buffer.
SgLen(j, k) ==
  LET left == j.length - (PageSize - Off(j)) - (k - 2) * PageSize IN
  IF NrPages(j) = 1 THEN j.length
  ELSE IF k = 1 THEN PageSize - Off(j)
  ELSE IF left < PageSize THEN left ELSE PageSize

\* pci_map_sg() maps every page to where it is.
SgAddr(j, k) == Frames[k] + (IF k = 1 THEN Off(j) ELSE 0)

-----------------------------------------------------------------------------
(* The chain                                                               *)

\* A descriptor as it comes from the pool, and as tsi148_fill_dma_desc() leaves
\* it: the upper words of both addresses are 0, and "By default behave as if we
\* were at the end of the list".
Blank == [filled |-> FALSE, vme |-> 0, dma |-> 0, len |-> 0, last |-> FALSE]
Filled(v, d, n) ==
  [filled |-> TRUE, vme |-> v, dma |-> d % Top, len |-> n, last |-> TRUE]

Init ==
  /\ job \in Jobs
  /\ pc = "init" /\ i = 1 /\ virt = FALSE
  /\ vmeAddr = job.vme /\ vme = 0 /\ dma = 0 /\ chain = <<>>

\* The first descriptor of the chain is allocated.
AllocFirst ==
  /\ pc = "init"
  /\ \/ pc' = "entry" /\ virt' = TRUE /\ chain' = <<Blank>>
     \/ PoolMayFail /\ pc' = "failed" /\ UNCHANGED <<virt, chain>>
  /\ UNCHANGED <<job, i, vmeAddr, vme, dma>>

\* tsi148_dma_link_add() is called for entry i; BUG_ON(*virt == NULL).
Enter ==
  /\ pc = "entry" /\ i <= NrPages(job)
  /\ IF virt
       THEN pc' = "link" /\ vme' = vmeAddr /\ dma' = SgAddr(job, i)
       ELSE pc' = "bug" /\ UNCHANGED <<vme, dma>>
  /\ virt' = FALSE
  /\ UNCHANGED <<job, i, vmeAddr, chain>>

VmeEnd == (vmeAddr + SgLen(job, i)) % Top
DmaEnd == SgAddr(job, i) + SgLen(job, i)
More == vme < VmeEnd /\ dma < DmaEnd

\* __tsi148_get_bshift() and tsi148_get_bsize(); 0 when there is no limit.
Block(am) == CASE am = "MBLT" -> MbltBlock [] am = "BLT" -> BltBlock [] OTHER -> 0

\* Mutant of LinkLen: the distance to the next boundary is not looked at.
LinkLenWholeBlock ==
  LET full == IF Block(job.am) = 0 THEN SgLen(job, i) ELSE Block(job.am) IN
  IF dma + full > DmaEnd THEN DmaEnd - dma ELSE full

\* "calculate the length up to the next block boundary", within the entry.
LinkLen ==
  LET full == IF Block(job.am) = 0 THEN SgLen(job, i)
              ELSE Block(job.am) - (vme % Block(job.am)) IN
  IF dma + full > DmaEnd THEN DmaEnd - dma ELSE full

\* Does another link follow one of length len?
NeedsNext(len) == i < NrPages(job) \/ dma + len < DmaEnd

\* One turn of the loop: the descriptor is filled, and chained to a new one
\* when more is to come.  The chain is freed when there is no new one.
AddLink ==
  LET n == Len(chain)
      full == [chain EXCEPT ![n] = Filled(vme, dma, LinkLen)] IN
  /\ pc = "link" /\ More
  /\ \/ /\ chain' = IF NeedsNext(LinkLen)
                      THEN Append([full EXCEPT ![n].last = FALSE], Blank)
                      ELSE full
        /\ virt' = (virt \/ NeedsNext(LinkLen))
        /\ UNCHANGED pc
     \/ /\ PoolMayFail /\ NeedsNext(LinkLen)
        /\ chain' = <<>> /\ pc' = "failed" /\ UNCHANGED virt
  /\ vme' = IF job.novmeinc THEN vme ELSE (vme + LinkLen) % Top
  /\ dma' = dma + LinkLen
  /\ UNCHANGED <<job, i, vmeAddr>>

\* The loop ends; *virt is the last descriptor allocated in it, or NULL.
Leave ==
  /\ pc = "link" /\ ~More
  /\ pc' = "entry"
  /\ i' = i + 1
  /\ vmeAddr' = IF job.novmeinc THEN vmeAddr ELSE (vmeAddr + SgLen(job, i)) % Top
  /\ UNCHANGED <<job, virt, vme, dma, chain>>

\* The registers are programmed with the first descriptor.
Program ==
  /\ pc = "entry" /\ i > NrPages(job)
  /\ pc' = "done"
  /\ UNCHANGED <<job, i, virt, vmeAddr, vme, dma, chain>>

Next == AllocFirst \/ Enter \/ AddLink \/ Leave \/ Program

Spec == Init /\ [][Next]_vars

-----------------------------------------------------------------------------
(* Properties                                                              *)

Descriptor ==
  [filled : BOOLEAN, vme : 0 .. Top - 1, dma : 0 .. Top - 1, len : Nat,
   last : BOOLEAN]

\* Every variable has its type.
TypeOK ==
  /\ job \in Jobs
  /\ pc \in {"init", "entry", "link", "done", "failed", "bug"}
  /\ i \in 1 .. NrPages(job) + 1
  /\ virt \in BOOLEAN
  /\ vmeAddr \in 0 .. Top - 1 /\ vme \in 0 .. Top - 1 /\ dma \in Nat
  /\ chain \in Seq(Descriptor)

\* "BLT cycles MUST NOT cross any 256 byte boundary", "MBLT cycles MUST NOT
\* cross any 2048 byte boundary" (the VME64 rules quoted above
\* __tsi148_get_bshift()): no link of the chain does, wherever pages end.
NoBlockCrossed ==
  \A k \in 1 .. Len(chain) :
    chain[k].filled /\ Block(job.am) # 0 =>
      (chain[k].vme % Block(job.am)) + chain[k].len <= Block(job.am)

\* Bytes moved by the first n links of the chain c.
Moved(c, n) ==
  LET sum[k \in 0 .. n] == IF k = 0 THEN 0 ELSE sum[k - 1] + c[k].len
  IN sum[n]

\* Where byte b of the buffer is on the PCI bus.
BufferByte(j, b) ==
  LET at == Off(j) + b IN Frames[(at \div PageSize) + 1] + (at % PageSize)

\* "The function expects **virt to be already initialised": every entry finds a
\* link to fill, and the BUG_ON of tsi148_dma_link_add() never fires.
VirtInitialised == pc # "bug"

\* What the chip finds in memory is the transfer that was asked for: a chain of
\* filled descriptors with its end at its end, which moves every byte of the
\* buffer once and in order, to consecutive VME addresses (to one address for a
\* FIFO), however pages and blocks cut it.
ChainIsTransfer ==
  /\ VirtInitialised
  /\ pc = "done" =>
       /\ Moved(chain, Len(chain)) = job.length
       /\ \A k \in 1 .. Len(chain) :
            /\ chain[k].filled /\ (chain[k].last <=> k = Len(chain))
            /\ chain[k].len > 0
            /\ chain[k].vme = IF job.novmeinc THEN job.vme ELSE job.vme + Moved(chain, k - 1)
            /\ \A b \in 0 .. chain[k].len - 1 :
                 chain[k].dma + b = BufferByte(job, Moved(chain, k - 1) + b)
=============================================================================

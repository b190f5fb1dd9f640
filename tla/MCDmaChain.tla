----------------------------- MODULE MCDmaChain -----------------------------
(***************************************************************************)
(* DmaChain with pages of 8 bytes, MBLT blocks of 4 and BLT blocks of 2:   *)
(* as in the driver, blocks divide pages.                                  *)
(***************************************************************************)
EXTENDS DmaChain

CONSTANTS MaxLength,   \* bound: the longest transfer
          Starts       \* the VME addresses transfers start at

\* Pages are not where their order suggests; one is the last below 64.
Scattered == <<40, 8, 56, 16>>
\* One page is above 64, as a host with 64-bit addresses may have it.
High == <<40, 8, 72, 16>>

\* Every offset in a page, length, alignment on the VME side and kind of cycle.
AllJobs ==
  [uaddr : 0 .. PageSize - 1, length : 1 .. MaxLength, vme : Starts,
   am : {"SCT", "BLT", "MBLT"}, novmeinc : BOOLEAN]
=============================================================================

--------------------------- MODULE MCVmeInterrupt ---------------------------
(***************************************************************************)
(* VmeInterrupt on small instances.                                        *)
(***************************************************************************)
EXTENDS VmeInterrupt

CONSTANTS d1, d2, v1, v2, a1

\* Each vector on a level of its own.
TwoLevels == [v \in Vectors |-> IF v = v1 THEN 7 ELSE 3]

\* Of the sources of the chip, bus errors are enabled and the edge of an IRQ
\* line (11) is not.
Sources == {11, VERR}
SysconEnabled == {VERR} \cup (1 .. 7)

\* Both drivers want the same vector; nobody handles the other.
SameVector == [d \in Drivers |-> {v1}]

\* One driver has a handler for bus errors.
Ranges == [d \in Drivers |-> IF d = d1 THEN {a1} ELSE {}]
=============================================================================

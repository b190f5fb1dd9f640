----------------------------- MODULE MCVmeWindow -----------------------------
(***************************************************************************)
(* VmeWindow on small instances: addresses in units of 32K, so Align = 2.  *)
(***************************************************************************)
EXTENDS VmeWindow, TLC

CONSTANTS u1, u2, k1, k2

All(requests) == [t \in Tasks |-> requests]

\* Two A32 ranges, one inside the other, of which the window for the inner one
\* does not hold the outer one, and one A24 range.
AlignedRequests ==
  All({ [addr |-> 2, size |-> 4, am |-> "A32"],
        [addr |-> 2, size |-> 1, am |-> "A32"],
        [addr |-> 1, size |-> 1, am |-> "A24"] })

OneRequest == All({ [addr |-> 2, size |-> 2, am |-> "A32"] })

\* Processes use two A32 ranges at one address, of which the window for the
\* smaller one does not hold the larger one, drivers two A24 ranges that the same
\* window holds at different addresses.
OwnRequests ==
  [t \in Tasks |->
     IF t \in Users
       THEN { [addr |-> 2, size |-> 4, am |-> "A32"],
              [addr |-> 2, size |-> 1, am |-> "A32"] }
       ELSE { [addr |-> 0, size |-> 2, am |-> "A24"],
              [addr |-> 2, size |-> 1, am |-> "A24"] }]

\* A range that crosses a 64K boundary and does not start on one.
UnalignedRequests == All({ [addr |-> 1, size |-> 2, am |-> "A32"] })

\* A range that ends at the top of the address space, and one far below it.
TopRequests == All({ [addr |-> 2, size |-> 4, am |-> "A32"],
                     [addr |-> 12, size |-> 4, am |-> "A32"] })

UserSymmetry == Permutations(Users)
=============================================================================

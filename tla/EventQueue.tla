----------------------------- MODULE EventQueue -----------------------------
(***************************************************************************)
(* What the CTR driver promises to a client that reads events: a first-in  *)
(* first-out queue of bounded length that drops its oldest event to make   *)
(* room for a new one.  The ring buffer of CtrEvents implements it.        *)
(***************************************************************************)
EXTENDS Naturals, Sequences

CONSTANTS Clients,    \* the client contexts, each with a queue of its own
          Events,     \* what the queues carry
          QueueSize   \* how many events a queue holds

VARIABLES q,          \* q[c]: the events waiting for client c, oldest first
          got         \* got[c]: the last event a read of c returned, 0 before the first

vars == <<q, got>>

Init == /\ q = [c \in Clients |-> <<>>]
        /\ got = [c \in Clients |-> 0]

\* An event arrives; a full queue forgets its oldest one.
Put(c, e) ==
    /\ q' = [q EXCEPT ![c] = IF Len(@) < QueueSize THEN Append(@, e)
                                                   ELSE Append(Tail(@), e)]
    /\ UNCHANGED got

\* A read returns the oldest event.
Get(c) == /\ q[c] # <<>>
          /\ got' = [got EXCEPT ![c] = Head(q[c])]
          /\ q' = [q EXCEPT ![c] = Tail(@)]

\* The client opens the device, or reads with queueing off: the past is forgotten.
Clear(c) == /\ q' = [q EXCEPT ![c] = <<>>]
            /\ UNCHANGED got

Next == \E c \in Clients : \/ \E e \in Events : Put(c, e)
                           \/ Get(c)
                           \/ Clear(c)

Spec == Init /\ [][Next]_vars
=============================================================================

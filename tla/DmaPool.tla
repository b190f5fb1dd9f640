------------------------------ MODULE DmaPool -------------------------------
(***************************************************************************)
(* What the pool of DMA channels promises to the callers of vme_do_dma():  *)
(* a channel has one owner at a time, a transfer is started only by the    *)
(* owner of an idle channel, and a channel is given back only when the     *)
(* chip has stopped working on it.                                         *)
(***************************************************************************)
CONSTANTS Tasks, Channels, NoTask

VARIABLES owner,     \* owner[c]: the task channel c belongs to, or NoTask
          running    \* the channels on which a transfer is in progress

Init ==
  /\ owner = [c \in Channels |-> NoTask]
  /\ running = {}

Acquire(t, c) ==
  /\ owner[c] = NoTask
  /\ \A d \in Channels : owner[d] # t
  /\ owner' = [owner EXCEPT ![c] = t]
  /\ UNCHANGED running

Begin(c) ==
  /\ owner[c] # NoTask
  /\ c \notin running
  /\ running' = running \cup {c}
  /\ UNCHANGED owner

End(c) ==
  /\ c \in running
  /\ running' = running \ {c}
  /\ UNCHANGED owner

Release(c) ==
  /\ owner[c] # NoTask
  /\ c \notin running
  /\ owner' = [owner EXCEPT ![c] = NoTask]
  /\ UNCHANGED running

Next ==
  \E c \in Channels :
    \/ \E t \in Tasks : Acquire(t, c)
    \/ Begin(c) \/ End(c) \/ Release(c)

Spec == Init /\ [][Next]_<<owner, running>>
=============================================================================

---------------------------- MODULE BoundedFifo ----------------------------
(***************************************************************************)
(* What a bounded channel between two tasks promises, however it is built: *)
(* at most Cap items are under way, an item leaves in the order in which   *)
(* it entered and leaves once, and none waits for ever.  The feed of swap  *)
(* signals (ForgeFeed) is shown to implement it.                           *)
(***************************************************************************)
EXTENDS Naturals, Sequences

CONSTANTS
  Items,  \* what may be sent
  Cap     \* items that may be under way at once

VARIABLES
  queue,  \* the items under way, oldest first
  sent,   \* items sent so far
  got     \* items received so far

vars == <<queue, sent, got>>

Init == queue = <<>> /\ sent = 0 /\ got = 0

Send(item) ==
  /\ Len(queue) < Cap
  /\ queue' = Append(queue, item)
  /\ sent' = sent + 1
  /\ UNCHANGED got

Get ==
  /\ queue # <<>>
  /\ queue' = Tail(queue)
  /\ got' = got + 1
  /\ UNCHANGED sent

Next == (\E item \in Items : Send(item)) \/ Get

Safety == Init /\ [][Next]_vars
Spec == Safety /\ WF_vars(Get)
=============================================================================

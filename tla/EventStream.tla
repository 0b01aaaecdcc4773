----------------------------- MODULE EventStream -----------------------------
(***************************************************************************)
(* What a live feed promises each of its viewers: every event published    *)
(* after the viewer has joined, in the order of publication, none skipped  *)
(* and none twice.  The live events of the control panel (ControlPanel)    *)
(* are shown to implement it, through a ring buffer that forgets.          *)
(***************************************************************************)
EXTENDS Naturals, Sequences

CONSTANTS Viewers, Events

VARIABLES
  log,    \* the events published so far
  from,   \* per viewer: number of the first event it is owed, 0 before it joins
  shown   \* per viewer: number of the last event it was shown

vars == <<log, from, shown>>

Init ==
  /\ log = <<>>
  /\ from = [v \in Viewers |-> 0]
  /\ shown = [v \in Viewers |-> 0]

Publish(event) ==
  /\ log' = Append(log, event)
  /\ UNCHANGED <<from, shown>>

Join(v) ==
  /\ from[v] = 0
  /\ from' = [from EXCEPT ![v] = Len(log) + 1]
  /\ shown' = [shown EXCEPT ![v] = Len(log)]
  /\ UNCHANGED log

Show(v) ==
  /\ from[v] # 0
  /\ shown[v] < Len(log)
  /\ shown' = [shown EXCEPT ![v] = @ + 1]
  /\ UNCHANGED <<log, from>>

Next ==
  \/ \E event \in Events : Publish(event)
  \/ \E v \in Viewers : Join(v) \/ Show(v)

Spec == Init /\ [][Next]_vars
=============================================================================

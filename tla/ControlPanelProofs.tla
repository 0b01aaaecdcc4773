------------------------- MODULE ControlPanelProofs -------------------------
(***************************************************************************)
(* Machine-checked proofs about ControlPanel, for any settings, any number *)
(* of browsers and any capacity of the channel: a status agrees with the   *)
(* events broadcast before it, and what a browser is shown is the event    *)
(* stream, without a gap or a repetition.                                  *)
(***************************************************************************)
EXTENDS ControlPanel, TLAPS, FiniteSetTheorems

(* Facts about short and growing sequences.                                *)
LEMMA RemoveFacts ==
  ASSUME NEW S, NEW s \in Seq(S), NEW i \in DOMAIN s
  PROVE  /\ RemoveAt(s, i) \in Seq(S) /\ Len(RemoveAt(s, i)) = Len(s) - 1
         /\ i \in 1..Len(s) /\ s[i] \in S /\ Len(s) \in Nat
<1>1. i \in 1..Len(s) /\ s[i] \in S /\ Len(s) \in Nat
  OBVIOUS
<1>2. SubSeq(s, 1, i - 1) \in Seq(S) /\ SubSeq(s, i + 1, Len(s)) \in Seq(S)
  BY <1>1
<1>3. Len(SubSeq(s, 1, i - 1)) = i - 1 /\ Len(SubSeq(s, i + 1, Len(s))) = Len(s) - i
  BY <1>1
<1> DEFINE front == SubSeq(s, 1, i - 1)
           back == SubSeq(s, i + 1, Len(s))
<1>4. RemoveAt(s, i) = front \o back
  BY DEF RemoveAt
<1> HIDE DEF front, back
<1>5. /\ front \o back \in Seq(S) /\ Len(front \o back) = Len(front) + Len(back)
      /\ Len(front) = i - 1 /\ Len(back) = Len(s) - i
  BY <1>2, <1>3 DEF front, back
<1> QED
  BY <1>1, <1>4, <1>5

(* What Append makes of a sequence.                                        *)
LEMMA AppendFacts ==
  ASSUME NEW S, NEW s \in Seq(S), NEW x \in S
  PROVE  /\ Append(s, x) \in Seq(S) /\ Len(Append(s, x)) = Len(s) + 1 /\ Len(s) \in Nat
         /\ DOMAIN s = 1..Len(s) /\ DOMAIN Append(s, x) = 1..(Len(s) + 1)
         /\ Append(s, x)[Len(s) + 1] = x
         /\ \A i \in 1..Len(s) : Append(s, x)[i] = s[i]
OBVIOUS

(* What Tail leaves of a sequence.                                         *)
LEMMA TailFacts ==
  ASSUME NEW S, NEW s \in Seq(S), s # <<>>
  PROVE  Tail(s) \in Seq(S) /\ Len(Tail(s)) = Len(s) - 1 /\ Head(s) \in S /\ Len(s) \in Nat \ {0}
OBVIOUS

(* The kinds of requests and events.                                       *)
LEMMA Kinds ==
  /\ \A r \in Changes : r.kind \in {"update", "start", "stop"} /\ r \in Requests
  /\ \A e \in ChangeEvents : e.kind \in {"update", "start", "stop"} /\ e \in Events
  /\ SignalEvent \in Events /\ SignalEvent.kind = "signal" /\ SignalEvent \notin ChangeEvents
<1>1. \A r \in Changes : r.kind \in {"update", "start", "stop"}
  BY DEF Changes, Switches, Update, Other
<1>2. \A e \in ChangeEvents : e.kind \in {"update", "start", "stop"}
  BY DEF ChangeEvents, ConfigEvents, Switches, Update, Other
<1>3. SignalEvent.kind = "signal"
  BY DEF SignalEvent, Other
<1>4. Changes \subseteq Requests /\ ChangeEvents \subseteq Events /\ SignalEvent \in Events
  BY DEF Events, Requests
<1> QED
  BY <1>1, <1>2, <1>3, <1>4

Config == [settings : [Settings -> Values], running : BOOLEAN]

(* An update gives a value to some of the settings.                        *)
LEMMA UpdateFacts ==
  ASSUME NEW r \in Changes, r.kind = "update"
  PROVE  DOMAIN r.to \subseteq Settings /\ \A s \in DOMAIN r.to : r.to[s] \in Values
<1>1. PICK values \in Updates : r = Update(values)
  BY DEF Changes, Switches, Other
<1>2. PICK named \in SUBSET Settings : values \in [named -> Values]
  BY PanelAssumption
<1> QED
  BY <1>1, <1>2 DEF Update

(* A change makes a configuration of one, and its event is one of Events.  *)
LEMMA AppliedType ==
  ASSUME NEW c \in Config, NEW r \in Changes
  PROVE  Applied(c, r) \in Config /\ EventOf(Applied(c, r), r) \in ChangeEvents
<1>1. CASE r.kind = "update"
  <2>1. Merged(c.settings, r.to) \in [Settings -> Values]
    BY <1>1, UpdateFacts DEF Merged, Config
  <2>2. Applied(c, r) = [c EXCEPT !.settings = Merged(c.settings, r.to)]
    BY <1>1 DEF Applied
  <2>3. Applied(c, r) \in Config /\ Applied(c, r).settings = Merged(c.settings, r.to)
    BY <2>1, <2>2 DEF Config
  <2>4. ToldOf(Applied(c, r).settings) \in [Told -> Values]
    BY <2>1, <2>3, PanelAssumption DEF ToldOf
  <2> QED
    BY <1>1, <2>3, <2>4 DEF EventOf, ChangeEvents, ConfigEvents
<1>2. CASE r.kind # "update"
  <2>1. r \in Switches
    BY <1>2 DEF Changes, Update
  <2>2. Applied(c, r) \in Config
    BY <1>2 DEF Applied, Config
  <2> QED
    BY <1>2, <2>1, <2>2 DEF EventOf, ChangeEvents
<1> QED
  BY <1>1, <1>2

-----------------------------------------------------------------------------
(* Type correctness.  The guard of a change excludes another change and    *)
(* every reader; requests being served are as many as were admitted.       *)
GuardsOK ==
  /\ Len(waiting) + reading + Len(announcing) <= MaxRequests
  /\ announcing # <<>> => reading = 0
TypeInv == TypeOK /\ GuardsOK

(* The initial state is well typed, with no guard held.                    *)
LEMMA InitTypeInv == Init => TypeInv
<1> SUFFICES ASSUME Init PROVE TypeInv
  OBVIOUS
<1>1. /\ waiting \in Seq(Requests) /\ announcing \in Seq(ChangeEvents) /\ log \in Seq(Events)
      /\ Len(waiting) = 0 /\ Len(announcing) = 0 /\ Len(log) = 0
  BY DEF Init
<1>2. MaxRequests \in Nat \ {0} /\ InitialSettings \in [Settings -> Values]
  BY PanelAssumption
<1>3. /\ next \in [Panels -> 1..(Len(log) + 1)] /\ from \in [Panels -> 0..(Len(log) + 1)]
      /\ shown \in [Panels -> 0..Len(log)]
  BY <1>1 DEF Init
<1>4. GuardsOK
  BY <1>1, <1>2 DEF Init, GuardsOK
<1>7. config \in [settings : [Settings -> Values], running : BOOLEAN]
  BY <1>2 DEF Init
<1>5. /\ reading \in 0..MaxRequests /\ signals \in Nat
      /\ Len(waiting) <= MaxRequests /\ Len(announcing) <= 1
  <2>1. reading = 0 /\ signals = 0
    BY DEF Init
  <2> QED
    BY <1>1, <1>2, <2>1
<1>8. counted \in BOOLEAN
  BY DEF Init
<1>6. /\ socket \in [Panels -> {"new", "open", "closed"}]
      /\ task \in [Panels -> {"none", "receiving", "sending", "ended", "lagged"}]
  BY DEF Init
<1> QED
  BY <1>1, <1>3, <1>4, <1>5, <1>6, <1>7, <1>8 DEF TypeInv, TypeOK

(* A longer log leaves room for every number a panel holds.                *)
LEMMA LogGrows ==
  ASSUME TypeOK, NEW event \in Events, log' = Append(log, event), UNCHANGED <<next, from, shown>>
  PROVE  /\ log' \in Seq(Events) /\ Len(log') = Len(log) + 1 /\ Len(log) \in Nat
         /\ next' \in [Panels -> 1..(Len(log') + 1)]
         /\ from' \in [Panels -> 0..(Len(log') + 1)]
         /\ shown' \in [Panels -> 0..Len(log')]
<1>1. /\ log' \in Seq(Events) /\ Len(log') = Len(log) + 1 /\ Len(log) \in Nat
  BY AppendFacts DEF TypeOK
<1>2. /\ 1..(Len(log) + 1) \subseteq 1..(Len(log') + 1)
      /\ 0..(Len(log) + 1) \subseteq 0..(Len(log') + 1)
      /\ 0..Len(log) \subseteq 0..Len(log')
  BY <1>1
<1> QED
  BY <1>1, <1>2 DEF TypeOK

(* Handlers and the main loop keep the types and the guards.               *)
LEMMA ServerTypeInv ==
  ASSUME TypeInv, UNCHANGED panelVars,
         \/ \E r \in Requests : Request(r)
         \/ AcquireRead \/ AnswerStatus \/ Change \/ Announce \/ CountSignal \/ BroadcastSignal
  PROVE  TypeInv'
<1>1. /\ TypeOK /\ GuardsOK
      /\ waiting \in Seq(Requests) /\ announcing \in Seq(ChangeEvents) /\ log \in Seq(Events)
      /\ Len(waiting) \in Nat /\ Len(announcing) \in Nat /\ reading \in Nat
      /\ MaxRequests \in Nat
  BY PanelAssumption DEF TypeInv, TypeOK
<1>2. ASSUME NEW r \in Requests, Request(r) PROVE TypeInv'
  <2>1. waiting' \in Seq(Requests) /\ Len(waiting') = Len(waiting) + 1
    BY <1>1, <1>2, AppendFacts DEF Request
  <2> QED
    BY <1>1, <1>2, <2>1 DEF Request, TypeInv, TypeOK, GuardsOK, loopVars, panelVars
<1>3. CASE AcquireRead
  <2>1. waiting' \in Seq(Requests) /\ Len(waiting') = Len(waiting) - 1
    BY <1>1, <1>3, RemoveFacts DEF AcquireRead, FirstPlace
  <2>2. announcing = <<>> /\ Len(announcing) = 0
    BY <1>3 DEF AcquireRead, NotAnnouncing
  <2> QED
    BY <1>1, <1>3, <2>1, <2>2 DEF AcquireRead, TypeInv, TypeOK, GuardsOK, loopVars, panelVars
<1>4. CASE AnswerStatus
  BY <1>1, <1>4 DEF AnswerStatus, TypeInv, TypeOK, GuardsOK, loopVars, panelVars
<1>5. CASE Change
  <2>1. /\ waiting # <<>> /\ Head(waiting) \in Changes /\ reading = 0 /\ announcing = <<>>
        /\ config' = Applied(config, Head(waiting)) /\ waiting' = Tail(waiting)
        /\ \/ announcing' = announcing
           \/ announcing' = Append(announcing, EventOf(config', Head(waiting)))
        /\ UNCHANGED <<reading, signals, counted, log, socket, task, next, from, shown>>
    BY <1>5 DEF Change, NotAnnouncing, loopVars, panelVars
  <2>2. waiting' \in Seq(Requests) /\ Len(waiting') = Len(waiting) - 1
    BY <1>1, <2>1, TailFacts
  <2>3. /\ announcing' \in Seq(ChangeEvents) /\ Len(announcing') <= Len(announcing) + 1
        /\ Len(announcing) = 0 /\ Len(announcing') \in Nat
    <3>1. Len(announcing) = 0
      BY <1>1, <2>1
    <3>2. CASE announcing' = announcing
      BY <1>1, <3>1, <3>2
    <3>3. CASE announcing' = Append(announcing, EventOf(config', Head(waiting)))
      <4>1. EventOf(config', Head(waiting)) \in ChangeEvents
        BY <1>1, <2>1, AppliedType DEF TypeOK, Config
      <4> QED
        BY <1>1, <3>1, <3>3, <4>1, AppendFacts
    <3> QED
      BY <2>1, <3>1, <3>2, <3>3
  <2>4. config' \in [settings : [Settings -> Values], running : BOOLEAN]
    BY <1>1, <2>1, AppliedType DEF TypeOK, Config
  <2> QED
    BY <1>1, <2>1, <2>2, <2>3, <2>4 DEF TypeInv, TypeOK, GuardsOK
<1>6. CASE Announce
  <2>1. PICK i \in DOMAIN announcing :
          log' = Append(log, announcing[i]) /\ announcing' = RemoveAt(announcing, i)
    BY <1>6 DEF Announce
  <2>2. /\ announcing' \in Seq(ChangeEvents) /\ Len(announcing') = Len(announcing) - 1
        /\ announcing[i] \in Events
    BY <1>1, <2>1, RemoveFacts, Kinds
  <2>3. /\ log' \in Seq(Events) /\ next' \in [Panels -> 1..(Len(log') + 1)]
        /\ from' \in [Panels -> 0..(Len(log') + 1)] /\ shown' \in [Panels -> 0..Len(log')]
    BY <1>1, <2>1, <2>2, LogGrows DEF panelVars
  <2>4. announcing # <<>>
    BY <2>1
  <2>5. UNCHANGED <<config, waiting, reading, signals, counted, socket, task>>
    BY <1>6 DEF Announce, loopVars, panelVars
  <2> QED
    BY <1>1, <2>2, <2>3, <2>4, <2>5 DEF TypeInv, TypeOK, GuardsOK
<1>7. CASE CountSignal
  BY <1>1, <1>7 DEF CountSignal, TypeInv, TypeOK, GuardsOK, lockVars, panelVars
<1>8. CASE BroadcastSignal
  <2>1. /\ log' \in Seq(Events) /\ next' \in [Panels -> 1..(Len(log') + 1)]
        /\ from' \in [Panels -> 0..(Len(log') + 1)] /\ shown' \in [Panels -> 0..Len(log')]
    BY <1>1, <1>8, LogGrows, Kinds DEF BroadcastSignal, panelVars
  <2>2. /\ counted' = FALSE
        /\ UNCHANGED <<config, waiting, reading, announcing, signals, socket, task>>
    BY <1>8 DEF BroadcastSignal, lockVars, panelVars
  <2> QED
    BY <1>1, <2>1, <2>2 DEF TypeInv, TypeOK, GuardsOK
<1> QED
  BY <1>2, <1>3, <1>4, <1>5, <1>6, <1>7, <1>8

(* Updating a function at one argument.                                    *)
LEMMA ExceptFacts ==
  ASSUME NEW D, NEW R, NEW f \in [D -> R], NEW x \in D, NEW v \in R
  PROVE  /\ [f EXCEPT ![x] = v] \in [D -> R]
         /\ \A y \in D : [f EXCEPT ![x] = v][y] = IF y = x THEN v ELSE f[y]
OBVIOUS

PanelStep(p) ==
  Connect(p) \/ Subscribe(p) \/ ReceiveEvent(p) \/ StopLagging(p) \/ Forward(p) \/ Disconnect(p)

(* Sockets and their tasks keep the types and the guards.                  *)
LEMMA PanelTypeInv ==
  ASSUME TypeInv, NEW p \in Panels, PanelStep(p)
  PROVE  TypeInv'
<1>1. /\ socket \in [Panels -> {"new", "open", "closed"}]
      /\ task \in [Panels -> {"none", "receiving", "sending", "ended", "lagged"}]
      /\ next \in [Panels -> 1..(Len(log) + 1)] /\ from \in [Panels -> 0..(Len(log) + 1)]
      /\ shown \in [Panels -> 0..Len(log)]
      /\ Len(log) \in Nat
  BY DEF TypeInv, TypeOK
<1>2. /\ UNCHANGED <<config, waiting, reading, announcing, signals, counted, log>>
  BY DEF PanelStep, Connect, Subscribe, ReceiveEvent, StopLagging, Forward, Disconnect,
         lockVars, loopVars
<1>3. ASSUME /\ socket' \in [Panels -> {"new", "open", "closed"}]
             /\ task' \in [Panels -> {"none", "receiving", "sending", "ended", "lagged"}]
             /\ next' \in [Panels -> 1..(Len(log) + 1)]
             /\ from' \in [Panels -> 0..(Len(log) + 1)]
             /\ shown' \in [Panels -> 0..Len(log)]
      PROVE  TypeInv'
  BY <1>2, <1>3 DEF TypeInv, TypeOK, GuardsOK
<1>4. /\ "open" \in {"new", "open", "closed"} /\ "closed" \in {"new", "open", "closed"}
      /\ {"receiving", "sending", "ended", "lagged"}
           \subseteq {"none", "receiving", "sending", "ended", "lagged"}
  OBVIOUS
<1>5. CASE Connect(p) \/ Disconnect(p)
  <2>1. socket' \in [Panels -> {"new", "open", "closed"}]
    BY <1>1, <1>4, <1>5, ExceptFacts DEF Connect, Disconnect
  <2> QED
    BY <1>1, <1>3, <1>5, <2>1 DEF Connect, Disconnect
<1>6. CASE Subscribe(p)
  <2>1. Len(log) + 1 \in 1..(Len(log) + 1) /\ Len(log) + 1 \in 0..(Len(log) + 1)
        /\ Len(log) \in 0..Len(log)
    BY <1>1
  <2>2. task' \in [Panels -> {"none", "receiving", "sending", "ended", "lagged"}]
    BY <1>1, <1>4, <1>6, ExceptFacts DEF Subscribe
  <2>3. next' \in [Panels -> 1..(Len(log) + 1)]
    BY <1>1, <1>6, <2>1, ExceptFacts DEF Subscribe
  <2>4. from' \in [Panels -> 0..(Len(log) + 1)]
    BY <1>1, <1>6, <2>1, ExceptFacts DEF Subscribe
  <2>5. shown' \in [Panels -> 0..Len(log)]
    BY <1>1, <1>6, <2>1, ExceptFacts DEF Subscribe
  <2> QED
    BY <1>1, <1>3, <1>6, <2>2, <2>3, <2>4, <2>5 DEF Subscribe
<1>7. CASE ReceiveEvent(p)
  <2>1. next[p] + 1 \in 1..(Len(log) + 1)
    BY <1>1, <1>7 DEF ReceiveEvent
  <2>2. next' \in [Panels -> 1..(Len(log) + 1)]
    BY <1>1, <1>7, <2>1, ExceptFacts DEF ReceiveEvent
  <2>3. task' \in [Panels -> {"none", "receiving", "sending", "ended", "lagged"}]
    BY <1>1, <1>4, <1>7, ExceptFacts DEF ReceiveEvent
  <2> QED
    BY <1>1, <1>3, <1>7, <2>2, <2>3 DEF ReceiveEvent
<1>8. CASE StopLagging(p)
  <2>1. task' \in [Panels -> {"none", "receiving", "sending", "ended", "lagged"}]
    BY <1>1, <1>4, <1>8, ExceptFacts DEF StopLagging
  <2> QED
    BY <1>1, <1>3, <1>8, <2>1 DEF StopLagging
<1>9. CASE Forward(p)
  <2>1. next[p] - 1 \in 0..Len(log)
    BY <1>1
  <2>2. [shown EXCEPT ![p] = next[p] - 1] \in [Panels -> 0..Len(log)]
    BY <1>1, <2>1, ExceptFacts
  <2>3. AfterSend(p) \in {"receiving", "ended"}
    BY DEF AfterSend
  <2>4. task' \in [Panels -> {"none", "receiving", "sending", "ended", "lagged"}]
    BY <1>1, <1>4, <1>9, <2>3, ExceptFacts DEF Forward
  <2> QED
    BY <1>1, <1>3, <1>9, <2>2, <2>4 DEF Forward
<1> QED
  BY <1>5, <1>6, <1>7, <1>8, <1>9 DEF PanelStep

(* A step is one of the server or one of a panel.                          *)
ServerStep ==
  \/ \E r \in Requests : Request(r)
  \/ AcquireRead \/ AnswerStatus \/ Change \/ Announce \/ CountSignal \/ BroadcastSignal

(* A step is one of the server's or one of a panel's.                      *)
LEMMA StepCases ==
  /\ Next <=> ServerStep \/ \E p \in Panels : PanelStep(p)
  /\ ServerStep => UNCHANGED panelVars
  /\ \A p \in Panels : PanelStep(p) =>
       UNCHANGED <<config, waiting, reading, announcing, signals, counted, log>>
<1>1. Next <=> ServerStep \/ \E p \in Panels : PanelStep(p)
  BY DEF Next, ServerStep, PanelStep
<1>2. ServerStep => UNCHANGED panelVars
  BY DEF ServerStep, Request, AcquireRead, AnswerStatus, Change, Announce, CountSignal,
         BroadcastSignal
<1>3. \A p \in Panels : PanelStep(p) =>
       UNCHANGED <<config, waiting, reading, announcing, signals, counted, log>>
  BY DEF PanelStep, Connect, Subscribe, ReceiveEvent, StopLagging, Forward, Disconnect,
         lockVars, loopVars
<1> QED
  BY <1>1, <1>2, <1>3

(* So every step does.                                                     *)
LEMMA NextTypeInv == TypeInv /\ [Next]_vars => TypeInv'
<1>1. ASSUME TypeInv, UNCHANGED vars PROVE TypeInv'
  BY <1>1 DEF vars, TypeInv, TypeOK, GuardsOK
<1> QED
  BY <1>1, StepCases, ServerTypeInv, PanelTypeInv DEF ServerStep

(* The lock, the log and the numbers of the panels keep their types.       *)
THEOREM TypeCorrect == Spec => []TypeOK
<1>1. TypeInv => TypeOK
  BY DEF TypeInv
<1> QED
  BY <1>1, InitTypeInv, NextTypeInv, PTL DEF Spec
-----------------------------------------------------------------------------
(* The event stream.  A receiver is one event ahead of its browser, and    *)
(* two while it sends; it lags or dies, but never skips.                   *)
PanelInv ==
  \A p \in Panels :
    /\ task[p] = "none" <=> from[p] = 0
    /\ task[p] = "receiving" => next[p] = shown[p] + 1
    /\ task[p] = "sending" => next[p] = shown[p] + 2

(* There is no task before the first connection.                           *)
LEMMA InitPanelInv == Init => PanelInv
BY DEF Init, PanelInv

(* Every step of the panel is a step of the stream or a stutter.           *)
LEMMA ServerStepIsStream ==
  ASSUME TypeInv, PanelInv, ServerStep
  PROVE  PanelInv' /\ [Stream!Next]_Stream!vars
<1>1. UNCHANGED <<socket, task, next, from, shown>>
  BY StepCases DEF panelVars
<1>2. PanelInv'
  BY <1>1 DEF PanelInv
<1>3. ASSUME NEW event \in Events, log' = Append(log, event) PROVE Stream!Next
  BY <1>1, <1>3 DEF Stream!Next, Stream!Publish
<1>4. CASE UNCHANGED log
  BY <1>1, <1>2, <1>4 DEF Stream!vars
<1>5. CASE Announce
  <2>1. PICK i \in DOMAIN announcing : log' = Append(log, announcing[i])
    BY <1>5 DEF Announce
  <2>2. announcing[i] \in Events
    BY <2>1, RemoveFacts, Kinds DEF TypeInv, TypeOK
  <2> QED
    BY <1>2, <1>3, <2>1, <2>2
<1>6. CASE BroadcastSignal
  BY <1>2, <1>3, <1>6, Kinds DEF BroadcastSignal
<1>7. CASE (\E r \in Requests : Request(r)) \/ AcquireRead \/ AnswerStatus \/ Change \/ CountSignal
  BY <1>4, <1>7 DEF Request, AcquireRead, AnswerStatus, Change, CountSignal
<1> QED
  BY <1>5, <1>6, <1>7 DEF ServerStep

(* A step of a panel joins, shows the next event, or is a stutter.         *)
LEMMA PanelStepIsStream ==
  ASSUME TypeInv, PanelInv, NEW p \in Panels, PanelStep(p)
  PROVE  PanelInv' /\ [Stream!Next]_Stream!vars
<1>1. /\ socket \in [Panels -> {"new", "open", "closed"}]
      /\ task \in [Panels -> {"none", "receiving", "sending", "ended", "lagged"}]
      /\ next \in [Panels -> 1..(Len(log) + 1)] /\ from \in [Panels -> 0..(Len(log) + 1)]
      /\ shown \in [Panels -> 0..Len(log)]
      /\ Len(log) \in Nat
  BY DEF TypeInv, TypeOK
<1>2. log' = log
  BY StepCases
<1>3. ASSUME UNCHANGED <<from, shown>> PROVE [Stream!Next]_Stream!vars
  BY <1>2, <1>3 DEF Stream!vars
<1>4. ASSUME \A q \in Panels \ {p} : /\ task'[q] = task[q] /\ from'[q] = from[q]
                                     /\ next'[q] = next[q] /\ shown'[q] = shown[q],
             task'[p] = "none" <=> from'[p] = 0,
             task'[p] = "receiving" => next'[p] = shown'[p] + 1,
             task'[p] = "sending" => next'[p] = shown'[p] + 2
      PROVE  PanelInv'
  BY <1>4 DEF PanelInv
<1>5. /\ task[p] = "none" <=> from[p] = 0
      /\ task[p] = "receiving" => next[p] = shown[p] + 1
      /\ task[p] = "sending" => next[p] = shown[p] + 2
  BY DEF PanelInv
<1>6. CASE Connect(p) \/ Disconnect(p)
  <2>1. UNCHANGED <<task, next, from, shown>>
    BY <1>6 DEF Connect, Disconnect
  <2> QED
    BY <1>3, <2>1 DEF PanelInv
<1>7. CASE Subscribe(p)
  <2>1. /\ task[p] = "none" /\ task' = [task EXCEPT ![p] = "receiving"]
        /\ next' = [next EXCEPT ![p] = Len(log) + 1]
        /\ from' = [from EXCEPT ![p] = Len(log) + 1]
        /\ shown' = [shown EXCEPT ![p] = Len(log)]
    BY <1>7 DEF Subscribe
  <2>2. /\ task'[p] = "receiving" /\ next'[p] = Len(log) + 1
        /\ from'[p] = Len(log) + 1 /\ shown'[p] = Len(log)
    BY <1>1, <2>1
  <2>3. PanelInv'
    BY <1>1, <1>4, <2>1, <2>2
  <2>4. Stream!Join(p)
    BY <1>2, <1>5, <2>1 DEF Stream!Join
  <2> QED
    BY <2>3, <2>4 DEF Stream!Next
<1>8. CASE ReceiveEvent(p)
  <2>1. /\ task[p] = "receiving" /\ task' = [task EXCEPT ![p] = "sending"]
        /\ next' = [next EXCEPT ![p] = next[p] + 1] /\ UNCHANGED <<from, shown>>
    BY <1>8 DEF ReceiveEvent
  <2>2. task'[p] = "sending" /\ next'[p] = next[p] + 1
    BY <1>1, <2>1
  <2>3. PanelInv'
    BY <1>1, <1>4, <1>5, <2>1, <2>2
  <2> QED
    BY <1>3, <2>1, <2>3
<1>9. CASE StopLagging(p)
  <2>1. /\ task[p] = "receiving" /\ task' = [task EXCEPT ![p] = "lagged"]
        /\ UNCHANGED <<next, from, shown>>
    BY <1>9 DEF StopLagging
  <2>2. task'[p] = "lagged"
    BY <1>1, <2>1
  <2>3. PanelInv'
    BY <1>1, <1>4, <1>5, <2>1, <2>2
  <2> QED
    BY <1>3, <2>1, <2>3
<1>10. CASE Forward(p)
  <2>1. /\ task[p] = "sending" /\ UNCHANGED <<next, from>>
        /\ \/ /\ task' = [task EXCEPT ![p] = "receiving"]
              /\ shown' = [shown EXCEPT ![p] = next[p] - 1]
           \/ /\ task' = [task EXCEPT ![p] = "ended"]
              /\ shown' = shown
    BY <1>10 DEF Forward, AfterSend
  <2>2. from[p] # 0 /\ next[p] = shown[p] + 2 /\ shown[p] \in Nat /\ next[p] \in 1..(Len(log) + 1)
    BY <1>1, <1>5, <2>1
  <2>3. CASE task' = [task EXCEPT ![p] = "receiving"] /\ shown' = [shown EXCEPT ![p] = next[p] - 1]
    <3>1. task'[p] = "receiving" /\ shown'[p] = next[p] - 1
      BY <1>1, <2>3
    <3>2. PanelInv'
      BY <1>1, <1>4, <2>1, <2>2, <2>3, <3>1
    <3>3. next[p] - 1 = shown[p] + 1 /\ shown[p] < Len(log)
      BY <1>1, <2>2
    <3>4. shown' = [shown EXCEPT ![p] = shown[p] + 1]
      BY <2>3, <3>3
    <3>5. Stream!Show(p)
      BY <1>2, <2>1, <2>2, <3>3, <3>4 DEF Stream!Show
    <3> QED
      BY <3>2, <3>5 DEF Stream!Next
  <2>4. CASE task' = [task EXCEPT ![p] = "ended"] /\ shown' = shown
    <3>1. task'[p] = "ended"
      BY <1>1, <2>4
    <3>2. PanelInv'
      BY <1>1, <1>4, <2>1, <2>2, <2>4, <3>1
    <3> QED
      BY <1>3, <2>1, <2>4, <3>2
  <2> QED
    BY <2>1, <2>3, <2>4
<1> QED
  BY <1>6, <1>7, <1>8, <1>9, <1>10 DEF PanelStep

(* The live events implement the event stream: what a browser is shown is  *)
(* every event from its subscription on, in order and once, however few    *)
(* events the channel keeps and wherever a forwarding task stops.          *)
THEOREM PanelsImplementStream == Spec => StreamBehaviour
<1>1. Init => Stream!Init
  BY DEF Init, Stream!Init
<1>2. TypeInv /\ PanelInv /\ [Next]_vars => PanelInv' /\ [Stream!Next]_Stream!vars
  <2>1. ASSUME PanelInv, UNCHANGED vars PROVE PanelInv' /\ [Stream!Next]_Stream!vars
    BY <2>1 DEF vars, PanelInv, Stream!vars
  <2> QED
    BY <2>1, StepCases, ServerStepIsStream, PanelStepIsStream
<1> QED
  BY <1>1, <1>2, InitTypeInv, NextTypeInv, InitPanelInv, PTL DEF Spec, StreamBehaviour, Stream!Spec
-----------------------------------------------------------------------------
(* The status.  Says relates a configuration to the events that lead to    *)
(* it; a change and its event preserve the relation together.              *)
Says(c, events) ==
  /\ \/ /\ ToldOf(c.settings) = ToldOf(InitialSettings)
        /\ \A i \in DOMAIN events : events[i].kind # "update"
     \/ \E i \in DOMAIN events :
          LastAmong({"update"}, events, i) /\ events[i].to = ToldOf(c.settings)
  /\ c.running <=> Running(events)

(* An event appended is the last of its kinds.                             *)
LEMMA LastIsNew ==
  ASSUME NEW events \in Seq(Events), NEW r \in Events, NEW kinds, r.kind \in kinds
  PROVE  \A i \in DOMAIN Append(events, r) :
           LastAmong(kinds, Append(events, r), i) <=> i = Len(events) + 1
<1> DEFINE longer == Append(events, r)
<1>1. /\ Len(events) \in Nat /\ DOMAIN longer = 1..(Len(events) + 1)
      /\ longer[Len(events) + 1] = r
  BY AppendFacts
<1> HIDE DEF longer
<1>2. ASSUME NEW i \in DOMAIN longer PROVE LastAmong(kinds, longer, i) <=> i = Len(events) + 1
  <2>1. i \in 1..(Len(events) + 1) /\ Len(events) + 1 \in DOMAIN longer
    BY <1>1
  <2>2. ASSUME i # Len(events) + 1 PROVE ~LastAmong(kinds, longer, i)
    BY <1>1, <2>1, <2>2 DEF LastAmong
  <2>3. LastAmong(kinds, longer, Len(events) + 1)
    BY <1>1 DEF LastAmong
  <2> QED
    BY <2>2, <2>3
<1> QED
  BY <1>2 DEF longer

(* An event of another kind leaves the last one where it was.              *)
LEMMA LastStays ==
  ASSUME NEW events \in Seq(Events), NEW r \in Events, NEW kinds, r.kind \notin kinds
  PROVE  \A i \in DOMAIN Append(events, r) :
           LastAmong(kinds, Append(events, r), i)
             <=> i \in DOMAIN events /\ LastAmong(kinds, events, i)
<1> DEFINE longer == Append(events, r)
<1>1. /\ Len(events) \in Nat /\ DOMAIN longer = 1..(Len(events) + 1)
      /\ DOMAIN events = 1..Len(events)
      /\ longer[Len(events) + 1] = r /\ \A i \in 1..Len(events) : longer[i] = events[i]
  BY AppendFacts
<1> HIDE DEF longer
<1>2. ASSUME NEW i \in DOMAIN longer
      PROVE  LastAmong(kinds, longer, i) <=> i \in DOMAIN events /\ LastAmong(kinds, events, i)
  <2>1. i \in 1..(Len(events) + 1)
    BY <1>1
  <2>2. CASE i = Len(events) + 1
    BY <1>1, <2>2 DEF LastAmong
  <2>3. CASE i \in 1..Len(events)
    <3>1. longer[i] = events[i]
      BY <1>1, <2>3
    <3>2. (\A j \in DOMAIN longer : j > i => longer[j].kind \notin kinds)
            <=> (\A j \in DOMAIN events : j > i => events[j].kind \notin kinds)
      <4>1. \A j \in DOMAIN longer : j \in DOMAIN events \/ j = Len(events) + 1
        BY <1>1
      <4>2. DOMAIN events \subseteq DOMAIN longer
        BY <1>1
      <4> QED
        BY <1>1, <4>1, <4>2
    <3> QED
      BY <1>1, <2>3, <3>1, <3>2 DEF LastAmong
  <2> QED
    BY <1>1, <2>1, <2>2, <2>3
<1> QED
  BY <1>2 DEF longer

(* What an event does to the running state a reader believes in.           *)
LEMMA RunningNext ==
  ASSUME NEW events \in Seq(Events), NEW r \in Events
  PROVE  Running(Append(events, r)) <=> IF r.kind \in {"start", "stop"} THEN r.kind = "start"
                                        ELSE Running(events)
<1> DEFINE longer == Append(events, r)
           kinds == {"start", "stop"}
<1>1. /\ Len(events) \in Nat /\ DOMAIN longer = 1..(Len(events) + 1)
      /\ DOMAIN events = 1..Len(events)
      /\ longer[Len(events) + 1] = r /\ \A i \in 1..Len(events) : longer[i] = events[i]
  BY AppendFacts
<1>2. r.kind \in kinds => \A i \in DOMAIN longer :
           LastAmong(kinds, longer, i) <=> i = Len(events) + 1
  BY LastIsNew
<1>3. r.kind \notin kinds => \A i \in DOMAIN longer :
           LastAmong(kinds, longer, i) <=> i \in DOMAIN events /\ LastAmong(kinds, events, i)
  BY LastStays
<1>4. Running(longer) <=> ~\E i \in DOMAIN longer : LastAmong(kinds, longer, i) /\ longer[i].kind = "stop"
  BY DEF Running
<1>5. Running(events) <=> ~\E i \in DOMAIN events : LastAmong(kinds, events, i) /\ events[i].kind = "stop"
  BY DEF Running
<1> HIDE DEF longer
<1>6. CASE r.kind \in kinds
  <2>1. Len(events) + 1 \in DOMAIN longer
    BY <1>1
  <2>2. Running(longer) <=> r.kind # "stop"
    BY <1>1, <1>2, <1>4, <1>6, <2>1
  <2> QED
    BY <1>6, <2>2 DEF longer
<1>7. CASE r.kind \notin kinds
  <2>1. DOMAIN events \subseteq DOMAIN longer /\ \A i \in DOMAIN events : longer[i] = events[i]
    BY <1>1
  <2>2. Running(longer) <=> Running(events)
    BY <1>3, <1>4, <1>5, <1>7, <2>1
  <2> QED
    BY <1>7, <2>2 DEF longer
<1> QED
  BY <1>6, <1>7

(* An event keeps the relation if it tells what became of the settings     *)
(* Told and of the running state.                                          *)
LEMMA SaysNext ==
  ASSUME NEW c \in Config, NEW d \in Config, NEW events \in Seq(Events), NEW e \in Events,
         Says(c, events),
         IF e.kind = "update" THEN e.to = ToldOf(d.settings)
         ELSE ToldOf(d.settings) = ToldOf(c.settings),
         d.running = IF e.kind \in {"start", "stop"} THEN e.kind = "start" ELSE c.running
  PROVE  Says(d, Append(events, e))
<1> DEFINE longer == Append(events, e)
<1>1. /\ Len(events) \in Nat /\ DOMAIN longer = 1..(Len(events) + 1)
      /\ DOMAIN events = 1..Len(events)
      /\ longer[Len(events) + 1] = e /\ \A i \in 1..Len(events) : longer[i] = events[i]
  BY AppendFacts
<1>2. Running(longer) <=> IF e.kind \in {"start", "stop"} THEN e.kind = "start" ELSE Running(events)
  BY RunningNext
<1>3. e.kind = "update" => \A i \in DOMAIN longer :
           LastAmong({"update"}, longer, i) <=> i = Len(events) + 1
  BY LastIsNew
<1>4. e.kind # "update" => \A i \in DOMAIN longer :
           LastAmong({"update"}, longer, i) <=> i \in DOMAIN events /\ LastAmong({"update"}, events, i)
  BY LastStays
<1> HIDE DEF longer
<1>5. d.running <=> Running(longer)
  BY <1>2 DEF Says
<1>6. CASE e.kind = "update"
  <2>1. Len(events) + 1 \in DOMAIN longer
    BY <1>1
  <2>2. LastAmong({"update"}, longer, Len(events) + 1)
        /\ longer[Len(events) + 1].to = ToldOf(d.settings)
    BY <1>1, <1>3, <1>6, <2>1
  <2> QED
    BY <1>5, <2>1, <2>2 DEF Says, longer
<1>7. CASE e.kind # "update"
  <2>1. /\ DOMAIN events \subseteq DOMAIN longer /\ \A i \in DOMAIN events : longer[i] = events[i]
        /\ \A i \in DOMAIN longer : i \in DOMAIN events \/ longer[i] = e
    BY <1>1
  <2>2. ToldOf(d.settings) = ToldOf(c.settings)
    BY <1>7
  <2>3. CASE /\ ToldOf(c.settings) = ToldOf(InitialSettings)
             /\ \A i \in DOMAIN events : events[i].kind # "update"
    BY <1>5, <1>7, <2>1, <2>2, <2>3 DEF Says, longer
  <2>4. CASE \E i \in DOMAIN events :
               LastAmong({"update"}, events, i) /\ events[i].to = ToldOf(c.settings)
    BY <1>4, <1>5, <1>7, <2>1, <2>2, <2>4 DEF Says, longer
  <2> QED
    BY <2>3, <2>4 DEF Says
<1> QED
  BY <1>6, <1>7

(* The event of a change tells it.                                         *)
LEMMA EventTells ==
  ASSUME NEW c \in Config, NEW r \in Changes
  PROVE  LET d == Applied(c, r)
             e == EventOf(d, r)
         IN  /\ IF e.kind = "update" THEN e.to = ToldOf(d.settings)
                ELSE ToldOf(d.settings) = ToldOf(c.settings)
             /\ d.running = IF e.kind \in {"start", "stop"} THEN e.kind = "start" ELSE c.running
<1>1. CASE r.kind = "update"
  <2>1. Applied(c, r).running = c.running
    BY <1>1 DEF Applied, Config
  <2>2. /\ EventOf(Applied(c, r), r).kind = "update"
        /\ EventOf(Applied(c, r), r).to = ToldOf(Applied(c, r).settings)
    BY <1>1 DEF EventOf, Update
  <2> QED
    BY <2>1, <2>2
<1>2. CASE r.kind # "update"
  <2>1. r.kind \in {"start", "stop"} /\ EventOf(Applied(c, r), r) = r
    BY <1>2, Kinds DEF EventOf
  <2>2. /\ Applied(c, r).settings = c.settings
        /\ Applied(c, r).running = (r.kind = "start")
    BY <2>1 DEF Applied, Config
  <2> QED
    BY <1>2, <2>1, <2>2
<1> QED
  BY <1>1, <1>2

(* Says determines what is told of the configuration.                      *)
LEMMA SaysDetermines ==
  ASSUME NEW c \in Config, NEW events \in Seq(Events), Says(c, events)
  PROVE  ToldOf(c.settings) = ToldBy(events) /\ c.running = Running(events)
<1>1. ToldOf(c.settings) = ToldBy(events)
  <2>1. CASE /\ ToldOf(c.settings) = ToldOf(InitialSettings)
             /\ \A i \in DOMAIN events : events[i].kind # "update"
    BY <2>1 DEF ToldBy
  <2>2. CASE \E i \in DOMAIN events :
               LastAmong({"update"}, events, i) /\ events[i].to = ToldOf(c.settings)
    <3>1. PICK i \in DOMAIN events :
            LastAmong({"update"}, events, i) /\ events[i].to = ToldOf(c.settings)
      BY <2>2
    <3> DEFINE k == CHOOSE j \in DOMAIN events : LastAmong({"update"}, events, j)
    <3>2. k \in DOMAIN events /\ LastAmong({"update"}, events, k)
      BY <3>1
    <3>3. DOMAIN events = 1..Len(events)
      OBVIOUS
    <3>4. events[i].kind = "update"
      BY <3>1 DEF LastAmong
    <3>5. ToldBy(events) = events[k].to
      BY <3>4 DEF ToldBy
    <3> HIDE DEF k
    <3>6. k = i
      BY <3>1, <3>2, <3>3 DEF LastAmong
    <3> QED
      BY <3>1, <3>5, <3>6
  <2> QED
    BY <2>1, <2>2 DEF Says
<1>2. c.running = Running(events)
  <2>1. c.running \in BOOLEAN
    BY DEF Config
  <2>2. c.running <=> Running(events)
    BY DEF Says
  <2>3. Running(events) \in BOOLEAN
    BY DEF Running
  <2> QED
    BY <2>1, <2>2, <2>3
<1> QED
  BY <1>1, <1>2

(* A signal event is counted, any other is not.                            *)
LEMMA SignalsNext ==
  ASSUME NEW events \in Seq(Events), NEW r \in Events
  PROVE  /\ SignalsIn(events) \in Nat
         /\ SignalsIn(Append(events, r)) = SignalsIn(events) + (IF r = SignalEvent THEN 1 ELSE 0)
<1> DEFINE longer == Append(events, r)
           Old == {i \in DOMAIN events : events[i] = SignalEvent}
           New == {i \in DOMAIN longer : longer[i] = SignalEvent}
<1>1. /\ Len(events) \in Nat /\ DOMAIN longer = 1..(Len(events) + 1)
      /\ DOMAIN events = 1..Len(events)
      /\ longer[Len(events) + 1] = r /\ \A i \in 1..Len(events) : longer[i] = events[i]
  BY AppendFacts
<1>2. IsFiniteSet(Old)
  <2>1. IsFiniteSet(1..Len(events)) /\ Old \subseteq 1..Len(events)
    BY <1>1, FS_Interval
  <2> QED
    BY <2>1, FS_Subset
<1>3. New = IF r = SignalEvent THEN Old \union {Len(events) + 1} ELSE Old
  <2> HIDE DEF longer
  <2>1. \A i : i \in 1..(Len(events) + 1) <=> (i \in 1..Len(events) \/ i = Len(events) + 1)
    BY <1>1
  <2> QED
    BY <1>1, <2>1
<1>4. Len(events) + 1 \notin Old
  BY <1>1
<1>5. SignalsIn(events) = Cardinality(Old) /\ SignalsIn(longer) = Cardinality(New)
  BY DEF SignalsIn
<1> HIDE DEF Old, New, longer
<1>6. Cardinality(Old) \in Nat
  BY <1>2, FS_CardinalityType
<1>7. Cardinality(Old \union {Len(events) + 1}) = Cardinality(Old) + 1
  BY <1>2, <1>4, FS_AddElement
<1> QED
  BY <1>3, <1>5, <1>6, <1>7 DEF longer
(* The events broadcast so far lead to the configuration, but for the      *)
(* change whose event the holder of the guard has yet to broadcast; the    *)
(* counter is ahead of the signal events by the one not yet broadcast.     *)
StatusInv ==
  /\ announcing = <<>> => Says(config, log)
  /\ announcing # <<>> =>
       \E c \in Config, r \in Changes :
         /\ Says(c, log) /\ config = Applied(c, r)
         /\ announcing[1] = EventOf(config, r)
  /\ signals = SignalsIn(log) + (IF counted THEN 1 ELSE 0)

(* No event, and the initial configuration.                                *)
LEMMA InitStatusInv == Init => StatusInv
<1> SUFFICES ASSUME Init PROVE StatusInv
  OBVIOUS
<1>1. /\ config.settings = InitialSettings /\ config.running = TRUE
      /\ announcing = <<>> /\ signals = 0 /\ counted = FALSE /\ log = <<>>
  BY DEF Init
<1>2. DOMAIN log = {}
  BY <1>1
<1>3. Running(log) /\ \A i \in DOMAIN log : log[i].kind # "update"
  BY <1>2 DEF Running
<1>4. {i \in DOMAIN log : log[i] = SignalEvent} = {}
  BY <1>2
<1>5. SignalsIn(log) = 0
  BY <1>4, FS_EmptySet DEF SignalsIn
<1>6. Says(config, log)
  BY <1>1, <1>3 DEF Says
<1> QED
  BY <1>1, <1>5, <1>6 DEF StatusInv

(* Every step of the server keeps configuration and events together.       *)
LEMMA ServerStatusInv ==
  ASSUME TypeInv, StatusInv, ServerStep
  PROVE  StatusInv'
<1>1. /\ config \in Config /\ waiting \in Seq(Requests)
      /\ announcing \in Seq(ChangeEvents) /\ Len(announcing) <= 1
      /\ log \in Seq(Events) /\ counted \in BOOLEAN
  BY DEF TypeInv, TypeOK, Config
<1>2. SignalsIn(log) \in Nat /\ signals = SignalsIn(log) + (IF counted THEN 1 ELSE 0)
  BY <1>1, SignalsNext, Kinds DEF StatusInv
<1>3. ASSUME UNCHANGED <<config, announcing, signals, counted, log>> PROVE StatusInv'
  BY <1>3 DEF StatusInv
<1>4. CASE (\E r \in Requests : Request(r)) \/ AcquireRead \/ AnswerStatus
  BY <1>3, <1>4 DEF Request, AcquireRead, AnswerStatus, loopVars
<1>5. CASE Change
  <2>1. /\ Head(waiting) \in Changes /\ announcing = <<>>
        /\ config' = Applied(config, Head(waiting))
        /\ announcing' = IF Redundant(Head(waiting)) THEN announcing
                         ELSE Append(announcing, EventOf(config', Head(waiting)))
        /\ UNCHANGED <<signals, counted, log>>
    BY <1>5 DEF Change, NotAnnouncing, loopVars
  <2>2. Says(config, log)
    BY <2>1 DEF StatusInv
  <2>3. CASE Redundant(Head(waiting))
    <3>1. Head(waiting).kind = "start" /\ config.running
      BY <2>3 DEF Redundant
    <3>2. config.running = TRUE
      BY <1>1, <3>1 DEF Config
    <3>3. Applied(config, Head(waiting)) = config
      BY <1>1, <3>1, <3>2 DEF Applied, Config
    <3> QED
      BY <1>3, <2>1, <2>3, <3>3
  <2>4. CASE ~Redundant(Head(waiting))
    <3> DEFINE e == EventOf(config', Head(waiting))
    <3>1. announcing' = Append(<<>>, e) /\ e \in ChangeEvents
      BY <1>1, <2>1, <2>4, AppliedType
    <3> HIDE DEF e
    <3>2. <<>> \in Seq(ChangeEvents) /\ Len(<<>>) = 0
      OBVIOUS
    <3>3. announcing' \in Seq(ChangeEvents) /\ Len(announcing') = 1 /\ announcing'[1] = e
      BY <3>1, <3>2, AppendFacts
    <3>4. announcing' # <<>>
      BY <3>2, <3>3
    <3>5. \E c \in Config, r \in Changes :
            /\ Says(c, log') /\ config' = Applied(c, r)
            /\ announcing'[1] = EventOf(config', r)
      BY <1>1, <2>1, <2>2, <3>3 DEF e
    <3> QED
      BY <1>2, <2>1, <3>4, <3>5 DEF StatusInv
  <2> QED
    BY <2>3, <2>4
<1>6. CASE Announce
  <2>1. PICK i \in DOMAIN announcing :
          log' = Append(log, announcing[i]) /\ announcing' = RemoveAt(announcing, i)
    BY <1>6 DEF Announce
  <2>2. /\ i \in 1..Len(announcing) /\ announcing[i] \in ChangeEvents /\ Len(announcing) \in Nat
        /\ announcing' \in Seq(ChangeEvents) /\ Len(announcing') = Len(announcing) - 1
    BY <1>1, <2>1, RemoveFacts
  <2>3. i = 1 /\ announcing # <<>> /\ announcing' = <<>>
    BY <1>1, <2>1, <2>2
  <2>4. PICK c \in Config, r \in Changes :
          /\ Says(c, log) /\ config = Applied(c, r)
          /\ announcing[1] = EventOf(config, r)
    BY <2>3 DEF StatusInv
  <2>5. announcing[1] \in Events /\ announcing[1] # SignalEvent
    BY <2>2, <2>3, Kinds
  <2>6. Says(config, log')
    BY <1>1, <2>1, <2>3, <2>4, <2>5, EventTells, SaysNext
  <2>7. SignalsIn(log') = SignalsIn(log)
    BY <1>1, <1>2, <2>1, <2>3, <2>5, SignalsNext
  <2>8. UNCHANGED <<config, signals, counted>>
    BY <1>6 DEF Announce, loopVars
  <2> QED
    BY <1>2, <2>3, <2>6, <2>7, <2>8 DEF StatusInv
<1>7. CASE CountSignal
  <2>1. /\ counted = FALSE /\ counted' = TRUE /\ signals' = signals + 1
        /\ UNCHANGED <<config, announcing, log>>
    BY <1>1, <1>7 DEF CountSignal, lockVars
  <2> QED
    BY <1>2, <2>1 DEF StatusInv
<1>8. CASE BroadcastSignal
  <2>1. /\ counted = TRUE /\ counted' = FALSE /\ log' = Append(log, SignalEvent)
        /\ UNCHANGED <<config, announcing, signals>>
    BY <1>1, <1>8 DEF BroadcastSignal, lockVars
  <2>2. SignalsIn(log') = SignalsIn(log) + 1
    BY <1>1, <2>1, Kinds, SignalsNext
  <2>3. ASSUME NEW c \in Config, Says(c, log) PROVE Says(c, log')
    BY <1>1, <2>1, <2>3, Kinds, SaysNext
  <2> QED
    BY <1>1, <1>2, <2>1, <2>2, <2>3 DEF StatusInv
<1> QED
  BY <1>4, <1>5, <1>6, <1>7, <1>8 DEF ServerStep

(* The relation is all a status request needs: readers exclude changes.    *)
LEMMA StatusInvMatches == TypeInv /\ StatusInv => StatusMatchesEvents
<1> SUFFICES ASSUME TypeInv, StatusInv, reading > 0 PROVE StatusMatchesEvents
  BY DEF StatusMatchesEvents
<1>1. config \in Config /\ log \in Seq(Events) /\ announcing = <<>>
  BY DEF TypeInv, TypeOK, GuardsOK, Config
<1>2. ToldOf(config.settings) = ToldBy(log) /\ config.running = Running(log)
  BY <1>1, SaysDetermines DEF StatusInv
<1>3. SignalsIn(log) \in Nat
  BY <1>1, SignalsNext, Kinds
<1> QED
  BY <1>2, <1>3 DEF StatusInv, StatusMatchesEvents

(* A status or configuration that is being answered has the running state  *)
(* and the settings Told the broadcast events lead to, and the count       *)
(* covers every broadcast signal (lib.rs:152-178, 193-253).                *)
THEOREM StatusMatches == Spec => []StatusMatchesEvents
<1>1. TypeInv /\ StatusInv /\ [Next]_vars => StatusInv'
  <2>1. ASSUME StatusInv, UNCHANGED <<config, announcing, signals, counted, log>> PROVE StatusInv'
    BY <2>1 DEF StatusInv
  <2> QED
    BY <2>1, StepCases, ServerStatusInv DEF vars
<1> QED
  BY <1>1, InitTypeInv, NextTypeInv, InitStatusInv, StatusInvMatches, PTL DEF Spec
=============================================================================

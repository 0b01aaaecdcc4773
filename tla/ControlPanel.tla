---------------------------- MODULE ControlPanel ----------------------------
(***************************************************************************)
(* The control panel (arb-api/src/lib.rs): the handlers that read and      *)
(* change the shared RuntimeConfig under its lock, and the live events     *)
(* they and the main loop broadcast to the browsers on /ws/live.           *)
(*                                                                         *)
(* The lock is tokio's RwLock, which serves its waiters in order.  The     *)
(* broadcast channel keeps the last RingCap events; a receiver that has    *)
(* fallen behind gets the error Lagged.                                    *)
(***************************************************************************)
EXTENDS Integers, Sequences, FiniteSets, SequencesExt

CONSTANTS
  Panels,      \* WebSocket connections; a browser that reconnects is a new one
  Settings,    \* the settings of RuntimeConfig (mode and four thresholds)
  Told,        \* those a config event carries (mode and min_signal_sol)
  Values,      \* what a setting may be
  InitialSettings,  \* the command line's
  Updates,     \* the bodies of POST /config: values for some of the settings
  RingCap,     \* capacity of the broadcast channel (1000)
  MaxRequests, \* bound on the requests served at once
  MaxEvents    \* bound on the events of a behaviour

ASSUME PanelAssumption ==
  /\ Told \subseteq Settings
  /\ InitialSettings \in [Settings -> Values]
  /\ Updates \subseteq UNION {[named -> Values] : named \in SUBSET Settings}
  /\ RingCap \in Nat \ {0} /\ MaxRequests \in Nat \ {0} /\ MaxEvents \in Nat

VARIABLES
  config,     \* RuntimeConfig: settings and system_running
  waiting,    \* requests waiting for the lock of config, in order
  reading,    \* get_status handlers that hold a read guard
  announcing, \* the event of the handler that holds the write guard, if any
  signals,    \* signals_received
  counted,    \* the main loop has counted a signal it has not yet broadcast
  log,        \* all events broadcast (history; the channel keeps the last)
  socket,     \* per panel: "new", "open" or "closed", as the browser sees it
  task,       \* per panel: its forwarding task
  next,       \* per panel: number of the event its receiver reads next
  from,       \* per panel: first event after its subscription, or 0 (history)
  shown       \* per panel: last event the browser was shown (history)

lockVars == <<config, waiting, reading, announcing>>
loopVars == <<signals, counted>>
panelVars == <<socket, task, next, from, shown>>
vars == <<config, waiting, reading, announcing, signals, counted, log,
          socket, task, next, from, shown>>

(* Requests and events.  An update names some of the settings; its event   *)
(* carries the values of the settings Told, named or not.                  *)
Update(values) == [kind |-> "update", to |-> values]
Other(kind) == [kind |-> kind]
Switches == {Other("start"), Other("stop")}
Changes == {Update(values) : values \in Updates} \union Switches
Requests == Changes \union {Other("status")}
SignalEvent == Other("signal")
ConfigEvents == {Update(values) : values \in [Told -> Values]}
ChangeEvents == ConfigEvents \union Switches
Events == ChangeEvents \union {SignalEvent}

(* Events that are broadcast or will be, whatever else happens.            *)
Due ==
  Len(log) + Len(announcing) + (IF counted THEN 1 ELSE 0)
    + Len(SelectSeq(waiting, LAMBDA r : r \in Changes))

-----------------------------------------------------------------------------
(* main: the program starts as running; the handlers find no lock taken.   *)
Init ==
  /\ config = [settings |-> InitialSettings, running |-> TRUE]
  /\ waiting = <<>>
  /\ reading = 0
  /\ announcing = <<>>
  /\ signals = 0
  /\ counted = FALSE
  /\ log = <<>>
  /\ socket = [p \in Panels |-> "new"]
  /\ task = [p \in Panels |-> "none"]
  /\ next = [p \in Panels |-> 1]
  /\ from = [p \in Panels |-> 0]
  /\ shown = [p \in Panels |-> 0]

(* A handler is called and waits for the lock.                             *)
Request(r) ==
  /\ Len(waiting) + reading + Len(announcing) < MaxRequests
  /\ r \in Changes => Due < MaxEvents
  /\ waiting' = Append(waiting, r)
  /\ UNCHANGED <<config, reading, announcing, loopVars, log, panelVars>>

(* Faulty variants: the write guard is dropped before the broadcast; a     *)
(* reader passes the writers that wait before it.                          *)
NoLock == TRUE
NotAnnouncing == announcing = <<>>
AnyPlace == DOMAIN waiting
FirstPlace == DOMAIN waiting \intersect {1}

(* get_status holds the guard while it waits for the SOL price ...         *)
AcquireRead ==
  /\ NotAnnouncing
  /\ \E i \in FirstPlace :
       /\ waiting[i].kind = "status"
       /\ waiting' = RemoveAt(waiting, i)
  /\ reading' = reading + 1
  /\ UNCHANGED <<config, announcing, loopVars, log, panelVars>>

(* ... and then answers what config and the counters hold.                 *)
AnswerStatus ==
  /\ reading > 0
  /\ reading' = reading - 1
  /\ UNCHANGED <<config, waiting, announcing, loopVars, log, panelVars>>

(* update_config, system_start, system_stop: assign under the write guard. *)
(* Starting a running system changes and broadcasts nothing.               *)
Redundant(r) == r.kind = "start" /\ config.running
Merged(settings, values) ==
  [s \in Settings |-> IF s \in DOMAIN values THEN values[s] ELSE settings[s]]
Applied(c, r) ==
  CASE r.kind = "update" -> [c EXCEPT !.settings = Merged(@, r.to)]
    [] r.kind = "start"  -> [c EXCEPT !.running = TRUE]
    [] r.kind = "stop"   -> [c EXCEPT !.running = FALSE]
    [] OTHER             -> c
ToldOf(settings) == [s \in Told |-> settings[s]]
EventOf(c, r) == IF r.kind = "update" THEN Update(ToldOf(c.settings)) ELSE r
Change ==
  /\ waiting # <<>>
  /\ Head(waiting) \in Changes
  /\ reading = 0 /\ NotAnnouncing
  /\ config' = Applied(config, Head(waiting))
  /\ announcing' = IF Redundant(Head(waiting)) THEN announcing
                   ELSE Append(announcing, EventOf(config', Head(waiting)))
  /\ waiting' = Tail(waiting)
  /\ UNCHANGED <<reading, loopVars, log, panelVars>>

(* The change is broadcast and the guard dropped.                          *)
Announce ==
  /\ \E i \in DOMAIN announcing :
       /\ log' = Append(log, announcing[i])
       /\ announcing' = RemoveAt(announcing, i)
  /\ UNCHANGED <<config, waiting, reading, loopVars, panelVars>>

(* The main loop counts a signal and then broadcasts it.                   *)
CountSignal ==
  /\ ~counted
  /\ Due < MaxEvents
  /\ signals' = signals + 1
  /\ counted' = TRUE
  /\ UNCHANGED <<lockVars, log, panelVars>>

BroadcastSignal ==
  /\ counted
  /\ log' = Append(log, SignalEvent)
  /\ counted' = FALSE
  /\ UNCHANGED <<lockVars, signals, panelVars>>

-----------------------------------------------------------------------------
(* A browser opens the socket; the handler subscribes a moment later.      *)
Connect(p) ==
  /\ socket[p] = "new"
  /\ socket' = [socket EXCEPT ![p] = "open"]
  /\ UNCHANGED <<lockVars, loopVars, log, task, next, from, shown>>

Subscribe(p) ==
  /\ socket[p] # "new"
  /\ task[p] = "none"
  /\ task' = [task EXCEPT ![p] = "receiving"]
  /\ next' = [next EXCEPT ![p] = Len(log) + 1]
  /\ from' = [from EXCEPT ![p] = Len(log) + 1]
  /\ shown' = [shown EXCEPT ![p] = Len(log)]
  /\ UNCHANGED <<lockVars, loopVars, log, socket>>

(* Has the channel overwritten the event p reads next?                     *)
Lagged(p) == next[p] + RingCap <= Len(log)

ReceiveEvent(p) ==
  /\ task[p] = "receiving"
  /\ next[p] <= Len(log)
  /\ ~Lagged(p)
  /\ next' = [next EXCEPT ![p] = @ + 1]
  /\ task' = [task EXCEPT ![p] = "sending"]
  /\ UNCHANGED <<lockVars, loopVars, log, socket, from, shown>>

(* Lagged is an Err, so it ends the forwarding task.  The other task of    *)
(* the handler keeps the socket, and the browser is not told.              *)
(* Faulty variant: the task goes on with the oldest event kept.            *)
SkipAhead(p) ==
  /\ task[p] = "receiving"
  /\ Lagged(p)
  /\ next' = [next EXCEPT ![p] = Len(log) - RingCap + 2]
  /\ task' = [task EXCEPT ![p] = "sending"]
  /\ UNCHANGED <<lockVars, loopVars, log, socket, from, shown>>
StopLagging(p) ==
  /\ task[p] = "receiving"
  /\ Lagged(p)
  /\ task' = [task EXCEPT ![p] = "lagged"]
  /\ UNCHANGED <<lockVars, loopVars, log, socket, next, from, shown>>

(* sender.send(event).await: to an open socket, or an error that ends the  *)
(* task.  Faulty variant: a task sends a single event.                     *)
Once(p) == "ended"
AfterSend(p) == IF socket[p] = "open" THEN "receiving" ELSE "ended"
Forward(p) ==
  /\ task[p] = "sending"
  /\ task' = [task EXCEPT ![p] = AfterSend(p)]
  /\ shown' = IF socket[p] = "open" THEN [shown EXCEPT ![p] = next[p] - 1] ELSE shown
  /\ UNCHANGED <<lockVars, loopVars, log, socket, next, from>>

(* The browser leaves or the connection breaks.  The handler returns, but  *)
(* the forwarding task runs on until a send of it fails.                   *)
Disconnect(p) ==
  /\ socket[p] = "open"
  /\ socket' = [socket EXCEPT ![p] = "closed"]
  /\ UNCHANGED <<lockVars, loopVars, log, task, next, from, shown>>

Next ==
  \/ \E r \in Requests : Request(r)
  \/ AcquireRead
  \/ AnswerStatus
  \/ Change
  \/ Announce
  \/ CountSignal
  \/ BroadcastSignal
  \/ \E p \in Panels :
       \/ Connect(p)
       \/ Subscribe(p)
       \/ ReceiveEvent(p)
       \/ StopLagging(p)
       \/ Forward(p)
       \/ Disconnect(p)

(* The tasks of the server are scheduled and browsers read their sockets;  *)
(* nobody is obliged to send requests, to connect or to disconnect.        *)
Fairness ==
  /\ WF_vars(AcquireRead) /\ WF_vars(AnswerStatus)
  /\ WF_vars(Change) /\ WF_vars(Announce) /\ WF_vars(BroadcastSignal)
  /\ \A p \in Panels :
       /\ WF_vars(ReceiveEvent(p)) /\ WF_vars(StopLagging(p)) /\ WF_vars(Forward(p))

Spec == Init /\ [][Next]_vars /\ Fairness

-----------------------------------------------------------------------------
TypeOK ==
  /\ config \in [settings : [Settings -> Values], running : BOOLEAN]
  /\ waiting \in Seq(Requests) /\ Len(waiting) <= MaxRequests
  /\ reading \in 0..MaxRequests
  /\ announcing \in Seq(ChangeEvents) /\ Len(announcing) <= 1
  /\ signals \in Nat
  /\ counted \in BOOLEAN
  /\ log \in Seq(Events)
  /\ socket \in [Panels -> {"new", "open", "closed"}]
  /\ task \in [Panels -> {"none", "receiving", "sending", "ended", "lagged"}]
  /\ next \in [Panels -> 1..(Len(log) + 1)]
  /\ from \in [Panels -> 0..(Len(log) + 1)]
  /\ shown \in [Panels -> 0..Len(log)]

(* What a reader of the events believes: the values told by the last       *)
(* update among them, and a system that runs unless a stop came last.      *)
LastAmong(kinds, events, i) ==
  events[i].kind \in kinds /\ \A j \in DOMAIN events : j > i => events[j].kind \notin kinds
ToldBy(events) ==
  IF \E i \in DOMAIN events : events[i].kind = "update"
  THEN events[CHOOSE i \in DOMAIN events : LastAmong({"update"}, events, i)].to
  ELSE ToldOf(InitialSettings)
Running(events) ==
  ~\E i \in DOMAIN events :
     LastAmong({"start", "stop"}, events, i) /\ events[i].kind = "stop"
SignalsIn(events) == Cardinality({i \in DOMAIN events : events[i] = SignalEvent})

(* A status or configuration that is being answered never contradicts the  *)
(* event stream: the running state and the settings Told are those the     *)
(* events broadcast so far amount to, although an update may name only     *)
(* settings no event carries, and the count covers every signal event.     *)
(* Changes are broadcast before the write guard is dropped, in the order   *)
(* they were made, and a signal is counted before it is broadcast          *)
(* (lib.rs:152-178, 193-253; main.rs:750-764).                             *)
StatusMatchesEvents ==
  reading > 0 =>
    /\ ToldOf(config.settings) = ToldBy(log)
    /\ config.running = Running(log)
    /\ signals >= SignalsIn(log)

(* What a browser is shown is the event stream from its subscription on,   *)
(* without a gap, a repetition or a swap, although the channel forgets     *)
(* events and the task that forwards them may stop at any of them          *)
(* (lib.rs:271-302).                                                       *)
Stream == INSTANCE EventStream WITH Viewers <- Panels
StreamBehaviour == Stream!Spec

(* A change is made however often the status is polled: status handlers    *)
(* hold the lock while they wait for the SOL price, but do not pass a      *)
(* change that waits.  Starts are left out: on a running system they       *)
(* change nothing and may wait for ever anew                               *)
(* (lib.rs:152-154, 197, 252; index.html:452).                             *)
Waits(r) == \E i \in DOMAIN waiting : waiting[i] = r
ChangesAreMade == \A r \in Changes \ {Other("start")} : Waits(r) ~> ~Waits(r)

(* Every event published after a subscription is shown, unless the browser *)
(* has left, or its task has fallen RingCap events behind and is gone for  *)
(* good, although the socket stays open; no task outlives its socket by    *)
(* more than an event (lib.rs:284-302).                                    *)
EventsReachPanels ==
  \A p \in Panels, n \in 1..MaxEvents :
    (from[p] \in 1..n /\ n <= Len(log))
      ~> \/ shown[p] >= n
         \/ task[p] = "lagged"
         \/ task[p] = "ended" /\ socket[p] = "closed"
=============================================================================

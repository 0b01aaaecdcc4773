------------------------------ MODULE ForgeFeed ------------------------------
(***************************************************************************)
(* The forge feed: the task that reads solana-forge's swap stream over a   *)
(* WebSocket (arb-feed/src/forge_feed.rs), keeps one signal per token and  *)
(* debounce window, and sends it to the main loop through a bounded        *)
(* channel.  main.rs restarts the session five seconds after it ends.      *)
(*                                                                         *)
(* Time is kept as ages: an Instant stored in the code is the number of    *)
(* seconds since it was taken, capped where the code no longer tells       *)
(* values apart.  No clock has to be bounded.                              *)
(***************************************************************************)
EXTENDS Integers, Sequences, FiniteSets

CONSTANTS
  Tokens,            \* token mints that are neither SOL nor a stablecoin
  WSOL,              \* the wrapped SOL mint
  Stables,           \* USDC and USDT
  Platforms,         \* venues a swap is reported on
  Swaps,             \* swaps forge may stream: [tokenIn, tokenOut, amount, platform]
  UsdPerSol,         \* 150.0 of classify_swap
  MinSolEquivalent,  \* MIN_SOL_EQUIVALENT, in the unit of the amounts
  Debounce,          \* DEBOUNCE_SECS
  RetainFor,         \* age at which the clean-up drops an entry (30 s)
  CleanupSize,       \* entries above which the clean-up runs (500)
  ReconnectDelay,    \* pause of main.rs between two sessions (5 s)
  ChannelCap,        \* capacity of the signal channel (1000)
  MaxSignals         \* bound on the signals of a behaviour

ASSUME FeedAssumption ==
  /\ Debounce \in Nat \ {0} /\ RetainFor \in Nat /\ ReconnectDelay \in Nat
  /\ CleanupSize \in Nat /\ ChannelCap \in Nat \ {0} /\ MaxSignals \in Nat
  /\ UsdPerSol \in Nat \ {0} /\ MinSolEquivalent \in Nat
  /\ WSOL \notin Tokens /\ Stables \intersect Tokens = {}
  /\ Swaps \subseteq [tokenIn : Tokens \union Stables \union {WSOL},
                      tokenOut : Tokens \union Stables \union {WSOL},
                      amount : Nat, platform : Platforms]

(* What makes the debounce survive a reconnect and a clean-up.             *)
ASSUME DelayAssumption == ReconnectDelay >= Debounce /\ RetainFor >= Debounce

VARIABLES
  session,      \* "disabled", "connecting", "open" or "sleeping"
  sleepLeft,    \* seconds main.rs still sleeps before the next session
  debounce,     \* per token: age of its debounce entry, or Absent
  sinceSignal,  \* per token: age of its last signal, capped at Debounce (history)
  accepted,     \* signals the feed has let through (history; numbers them)
  outbox,       \* the signal in `signal_tx.send(signal).await`, if any
  chan,         \* the mpsc channel of SwapSignals
  taken         \* signals the main loop has received (signals_received)

feedVars == <<session, sleepLeft, debounce, sinceSignal, accepted, outbox>>
vars == <<session, sleepLeft, debounce, sinceSignal, accepted, outbox, chan, taken>>

Absent == -1
Ids == 1..MaxSignals
Signal == [id : Ids, token : Tokens, direction : {"buy", "sell"},
           platform : Platforms, sol : Nat]

-----------------------------------------------------------------------------
(* classify_swap: a swap with SOL or a stablecoin on exactly one side.     *)
IsSolOrStable(mint) == mint = WSOL \/ mint \in Stables
Classifiable(s) == IsSolOrStable(s.tokenIn) # IsSolOrStable(s.tokenOut)
IsBuy(s) == IsSolOrStable(s.tokenIn)
TokenOf(s) == IF IsBuy(s) THEN s.tokenOut ELSE s.tokenIn
SolEquivalent(s) ==
  LET base == IF IsBuy(s) THEN s.tokenIn ELSE s.tokenOut
  IN  IF base = WSOL THEN s.amount ELSE s.amount \div UsdPerSol

(* Is the token inside the window its last signal opened?                  *)
Muted(t) == debounce[t] # Absent /\ debounce[t] < Debounce

(* The debounce map with t stamped now; an oversized map is cleaned up.    *)
Stamp(t) ==
  LET stamped == [debounce EXCEPT ![t] = 0]
      live    == {u \in Tokens : stamped[u] # Absent}
  IN  IF Cardinality(live) > CleanupSize
      THEN [u \in Tokens |-> IF stamped[u] < RetainFor THEN stamped[u] ELSE Absent]
      ELSE stamped

SignalOf(s, n) ==
  [id |-> n, token |-> TokenOf(s), direction |-> IF IsBuy(s) THEN "buy" ELSE "sell",
   platform |-> s.platform, sol |-> SolEquivalent(s)]

(* Faulty variant: a skipped swap refreshes the entry of its token.        *)
SkipRefreshing(s) ==
  /\ debounce' = [debounce EXCEPT ![TokenOf(s)] = IF @ = Absent THEN @ ELSE 0]
  /\ UNCHANGED <<sinceSignal, accepted, outbox>>
Skip(s) == UNCHANGED <<debounce, sinceSignal, accepted, outbox>>

Passes(s) ==
  /\ Classifiable(s)
  /\ SolEquivalent(s) >= MinSolEquivalent
  /\ ~Muted(TokenOf(s))

-----------------------------------------------------------------------------
(* Without --no-forge the feed task is spawned and connects at once.       *)
FeedInit ==
  /\ session \in {"disabled", "connecting"}
  /\ sleepLeft = 0
  /\ debounce = [t \in Tokens |-> Absent]
  /\ sinceSignal = [t \in Tokens |-> Debounce]
  /\ accepted = 0
  /\ outbox = <<>>
  /\ chan = <<>>

ConnectOk ==
  /\ session = "connecting"
  /\ session' = "open"
  /\ UNCHANGED <<sleepLeft, debounce, sinceSignal, accepted, outbox, chan>>

(* The sleep of main.rs between two sessions; faulty variant: none.        *)
NoPause == 0
Pause == ReconnectDelay

(* Faulty variant: the loop of main.rs ends with a session that ends well. *)
StopOnClose ==
  /\ session \in {"connecting", "open"}
  /\ outbox = <<>>
  /\ session' = IF session = "open" THEN "disabled" ELSE "sleeping"
  /\ sleepLeft' = Pause
  /\ UNCHANGED <<debounce, sinceSignal, accepted, outbox, chan>>

(* run_forge_feed returns: a failed connect, a read error, a Close frame   *)
(* or the end of the stream.  A session blocked in send() reads nothing.   *)
SessionEnds ==
  /\ session \in {"connecting", "open"}
  /\ outbox = <<>>
  /\ session' = "sleeping"
  /\ sleepLeft' = Pause
  /\ UNCHANGED <<debounce, sinceSignal, accepted, outbox, chan>>

(* The next run_forge_feed starts, with an empty debounce map.             *)
Restart ==
  /\ session = "sleeping"
  /\ sleepLeft = 0
  /\ session' = "connecting"
  /\ debounce' = [t \in Tokens |-> Absent]
  /\ UNCHANGED <<sleepLeft, sinceSignal, accepted, outbox, chan>>

(* One swap event of the stream.  A swap that does not pass is skipped.    *)
ReadSwap(s) ==
  /\ session = "open"
  /\ outbox = <<>>
  /\ IF Passes(s)
     THEN /\ accepted < MaxSignals
          /\ debounce' = Stamp(TokenOf(s))
          /\ sinceSignal' = [sinceSignal EXCEPT ![TokenOf(s)] = 0]
          /\ accepted' = accepted + 1
          /\ outbox' = <<SignalOf(s, accepted + 1)>>
     ELSE Skip(s)
  /\ UNCHANGED <<session, sleepLeft, chan>>

(* Faulty variants: an unbounded channel; a signal dropped when it is full.*)
Unbounded == TRUE
HasRoom == Len(chan) < ChannelCap
SendOrDrop ==
  /\ outbox # <<>>
  /\ chan' = IF HasRoom THEN Append(chan, Head(outbox)) ELSE chan
  /\ outbox' = <<>>
  /\ UNCHANGED <<session, sleepLeft, debounce, sinceSignal, accepted>>

(* send().await completes as soon as the channel has room.                 *)
SendSignal ==
  /\ outbox # <<>>
  /\ HasRoom
  /\ chan' = Append(chan, Head(outbox))
  /\ outbox' = <<>>
  /\ UNCHANGED <<session, sleepLeft, debounce, sinceSignal, accepted>>

(* A second passes for every age and for the sleeping reconnect loop.      *)
Older(age, cap) == IF age = Absent \/ age >= cap THEN age ELSE age + 1
Tick ==
  /\ debounce' = [t \in Tokens |-> Older(debounce[t], RetainFor)]
  /\ sinceSignal' = [t \in Tokens |-> Older(sinceSignal[t], Debounce)]
  /\ sleepLeft' = IF sleepLeft > 0 THEN sleepLeft - 1 ELSE 0
  /\ UNCHANGED <<session, accepted, outbox, chan>>

(* signal_rx.recv() of the main loop returns a signal.                     *)
Receive ==
  /\ chan # <<>>
  /\ chan' = Tail(chan)
  /\ taken' = taken + 1

FeedStep ==
  \/ ConnectOk
  \/ SessionEnds
  \/ Restart
  \/ \E s \in Swaps : ReadSwap(s)
  \/ SendSignal
  \/ Tick

(* The feed on its own: the main loop is reduced to the calls of recv().   *)
Init == FeedInit /\ taken = 0
Next ==
  \/ FeedStep /\ UNCHANGED taken
  \/ Receive /\ UNCHANGED feedVars

(* Timers fire, the feed's task is scheduled, and the main loop keeps      *)
(* calling recv(); forge owes nothing: connections, swaps and the ends of  *)
(* sessions are never forced to happen.                                    *)
Fairness ==
  /\ WF_vars(Tick /\ UNCHANGED taken)
  /\ WF_vars(Restart /\ UNCHANGED taken)
  /\ WF_vars(SendSignal /\ UNCHANGED taken)
  /\ WF_vars(Receive /\ UNCHANGED feedVars)

Spec == Init /\ [][Next]_vars /\ Fairness

-----------------------------------------------------------------------------
TypeOK ==
  /\ session \in {"disabled", "connecting", "open", "sleeping"}
  /\ sleepLeft \in 0..ReconnectDelay
  /\ debounce \in [Tokens -> Absent..RetainFor]
  /\ sinceSignal \in [Tokens -> 0..Debounce]
  /\ accepted \in 0..MaxSignals
  /\ outbox \in Seq(Signal) /\ Len(outbox) <= 1
  /\ chan \in Seq(Signal) /\ Len(chan) <= ChannelCap
  /\ taken \in Nat

(* Nothing is lost, duplicated or reordered between the debounce and the   *)
(* main loop, even when the full channel blocks the session: the signals   *)
(* taken, queued and being sent are the accepted ones, in their order      *)
(* (forge_feed.rs:186-201, main.rs:748).                                   *)
InOrder ==
  /\ accepted = taken + Len(chan) + Len(outbox)
  /\ \A i \in 1..Len(chan) : chan[i].id = taken + i
  /\ outbox # <<>> => outbox[1].id = accepted

(* The way of a signal from the debounce to the main loop is one bounded    *)
(* queue, although it is a suspended send and a channel: it holds one      *)
(* signal more than the channel, keeps the order, and every accepted       *)
(* signal is received in the end, whatever happens to the sessions         *)
(* (forge_feed.rs:186-201, main.rs:682, 748).                              *)
Path == INSTANCE BoundedFifo
          WITH Items <- {SignalOf(s, n) : s \in Swaps, n \in Ids}, Cap <- ChannelCap + 1,
               queue <- chan \o outbox, sent <- accepted, got <- taken
FeedIsFifo == Path!Spec

(* "3-second per-token debounce" (README.md:93): a signal for a token is   *)
(* accepted only when the previous one is Debounce seconds old, although   *)
(* each session starts with an empty map and the clean-up drops entries    *)
(* (forge_feed.rs:127, 173-184; main.rs:688-695).                          *)
DebounceSpacing ==
  [][accepted' # accepted => sinceSignal[outbox'[1].token] = Debounce]_vars

(* The debounce mutes a token only for a while: however often the token    *)
(* is traded, skipped swaps do not extend the window (forge_feed.rs:174).  *)
NeverMutedForever == \A t \in Tokens : Muted(t) ~> ~Muted(t)

(* A feed that was started is never given up: whatever ends its sessions,  *)
(* there is always a later attempt to connect (main.rs:688-695).           *)
FeedComesBack ==
  (session = "connecting") => []<>(session \in {"connecting", "open"})
=============================================================================

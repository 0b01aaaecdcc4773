--------------------------- MODULE ForgeFeedProofs ---------------------------
(***************************************************************************)
(* Machine-checked proofs about ForgeFeed: its type invariant, the         *)
(* conservation and order of the signals, and the debounce, for every set  *)
(* of tokens and swaps and every value of the bounds and delays.           *)
(***************************************************************************)
EXTENDS ForgeFeed, SequenceTheorems, TLAPS

(* A swap of the stream is a record with the fields classify_swap reads.   *)
LEMMA SwapType ==
  ASSUME NEW s \in Swaps
  PROVE  /\ s.tokenIn \in Tokens \union Stables \union {WSOL}
         /\ s.tokenOut \in Tokens \union Stables \union {WSOL}
         /\ s.amount \in Nat
         /\ s.platform \in Platforms
BY FeedAssumption

(* classify_swap makes a well-formed signal of a classifiable swap.        *)
LEMMA SignalType ==
  ASSUME NEW s \in Swaps, Classifiable(s), NEW n \in Ids
  PROVE  TokenOf(s) \in Tokens /\ SignalOf(s, n) \in Signal
<1>1. SolEquivalent(s) \in Nat
  <2>1. s.amount \div UsdPerSol \in Nat
    BY SwapType, FeedAssumption
  <2> QED
    BY <2>1, SwapType DEF SolEquivalent
<1>2. TokenOf(s) \in Tokens
  BY SwapType, FeedAssumption DEF Classifiable, IsSolOrStable, TokenOf, IsBuy
<1> QED
  BY <1>1, <1>2, SwapType DEF SignalOf, Signal

(* The debounce map stays a map of ages, with or without the clean-up.     *)
LEMMA StampType ==
  ASSUME TypeOK, NEW t \in Tokens
  PROVE  Stamp(t) \in [Tokens -> Absent..RetainFor]
<1> DEFINE stamped == [debounce EXCEPT ![t] = 0]
<1>1. stamped \in [Tokens -> Absent..RetainFor]
  BY FeedAssumption DEF TypeOK, Absent
<1>2. [u \in Tokens |-> IF stamped[u] < RetainFor THEN stamped[u] ELSE Absent]
        \in [Tokens -> Absent..RetainFor]
  BY <1>1, FeedAssumption DEF Absent
<1> QED
  BY <1>1, <1>2 DEF Stamp

-----------------------------------------------------------------------------
(* The only signal of a non-empty outbox.                                  *)
LEMMA OutboxSignal ==
  ASSUME TypeOK, outbox # <<>>
  PROVE  Len(outbox) = 1 /\ Head(outbox) = outbox[1] /\ outbox[1] \in Signal
<1>1. outbox \in Seq(Signal) /\ Len(outbox) <= 1
  BY DEF TypeOK
<1>2. Len(outbox) = 1
  <2>1. Len(outbox) \in Nat \ {0}
    BY <1>1, EmptySeq
  <2>2. Len(outbox) <= 1
    BY <1>1
  <2>3. \A n \in Nat \ {0} : n <= 1 => n = 1
    OBVIOUS
  <2> QED
    BY <2>1, <2>2, <2>3
<1>3. outbox[1] \in Signal
  BY <1>1, <1>2, ElementOfSeq
<1>4. Head(outbox) = outbox[1]
  BY <1>1, <1>2, HeadTailProperties
<1> QED
  BY <1>2, <1>3, <1>4

(* The initial state is well typed.                                        *)
LEMMA InitTypeOK == Init => TypeOK
BY FeedAssumption DEF Init, FeedInit, TypeOK, Absent, Ids

(* Every step of the feed or of recv() keeps the types.                    *)
LEMMA NextTypeOK == TypeOK /\ [Next]_vars => TypeOK'
<1> SUFFICES ASSUME TypeOK, [Next]_vars
             PROVE  TypeOK'
  OBVIOUS
<1> USE FeedAssumption
<1>1. CASE ConnectOk /\ UNCHANGED taken
  BY <1>1 DEF ConnectOk, TypeOK
<1>2. CASE SessionEnds /\ UNCHANGED taken
  BY <1>2 DEF SessionEnds, TypeOK, Pause
<1>3. CASE Restart /\ UNCHANGED taken
  BY <1>3 DEF Restart, TypeOK, Absent
<1>4. ASSUME NEW s \in Swaps, ReadSwap(s), UNCHANGED taken
      PROVE  TypeOK'
  <2>1. CASE ~Passes(s)
    BY <1>4, <2>1 DEF ReadSwap, Skip, TypeOK
  <2>2. CASE Passes(s)
    <3>1. accepted + 1 \in Ids
      BY <1>4, <2>2 DEF ReadSwap, TypeOK, Ids
    <3>2. TokenOf(s) \in Tokens /\ SignalOf(s, accepted + 1) \in Signal
      BY <3>1, <2>2, SignalType DEF Passes
    <3>3. debounce' \in [Tokens -> Absent..RetainFor]
      BY <1>4, <2>2, <3>2, StampType DEF ReadSwap
    <3>4. sinceSignal' \in [Tokens -> 0..Debounce]
      BY <1>4, <2>2, <3>2 DEF ReadSwap, TypeOK
    <3>5. outbox' \in Seq(Signal) /\ Len(outbox') <= 1
      <4> DEFINE sig == SignalOf(s, accepted + 1)
      <4>1. outbox' = <<sig>> /\ sig \in Signal
        BY <1>4, <2>2, <3>2 DEF ReadSwap
      <4> HIDE DEF sig
      <4> QED
        BY <4>1
    <3> QED
      BY <1>4, <2>2, <3>1, <3>3, <3>4, <3>5 DEF ReadSwap, TypeOK, Ids
  <2> QED
    BY <2>1, <2>2
<1>5. CASE SendSignal /\ UNCHANGED taken
  BY <1>5 DEF SendSignal, HasRoom, TypeOK
<1>6. CASE Tick /\ UNCHANGED taken
  <2>1. debounce' \in [Tokens -> Absent..RetainFor]
    BY <1>6 DEF Tick, Older, TypeOK, Absent
  <2>2. sinceSignal' \in [Tokens -> 0..Debounce]
    BY <1>6 DEF Tick, Older, TypeOK, Absent
  <2> QED
    BY <1>6, <2>1, <2>2 DEF Tick, TypeOK
<1>7. CASE Receive /\ UNCHANGED feedVars
  BY <1>7 DEF Receive, feedVars, TypeOK
<1>8. CASE UNCHANGED vars
  BY <1>8 DEF vars, TypeOK
<1> QED
  BY <1>1, <1>2, <1>3, <1>4, <1>5, <1>6, <1>7, <1>8 DEF Next, FeedStep

(* The variables keep their types, and with them the queue its capacity.   *)
THEOREM TypeCorrect == Spec => []TypeOK
BY InitTypeOK, NextTypeOK, PTL DEF Spec

-----------------------------------------------------------------------------
(* Every step keeps accepted signals numbered without a gap or a swap.     *)
LEMMA NextInOrder == TypeOK /\ InOrder /\ [Next]_vars => InOrder'
<1> SUFFICES ASSUME TypeOK, InOrder, [Next]_vars
             PROVE  InOrder'
  OBVIOUS
<1>1. CASE \/ ConnectOk /\ UNCHANGED taken
           \/ SessionEnds /\ UNCHANGED taken
           \/ Restart /\ UNCHANGED taken
           \/ Tick /\ UNCHANGED taken
           \/ UNCHANGED vars
  BY <1>1 DEF ConnectOk, SessionEnds, Restart, Tick, vars, InOrder
<1>2. ASSUME NEW s \in Swaps, ReadSwap(s), UNCHANGED taken
      PROVE  InOrder'
  <2>1. CASE ~Passes(s)
    BY <1>2, <2>1 DEF ReadSwap, Skip, InOrder
  <2>2. CASE Passes(s)
    <3> DEFINE sig == SignalOf(s, accepted + 1)
    <3>1. sig.id = accepted + 1
      BY DEF SignalOf
    <3>2. /\ outbox = <<>> /\ outbox' = <<sig>>
          /\ accepted' = accepted + 1 /\ UNCHANGED <<chan, taken>>
      BY <1>2, <2>2 DEF ReadSwap
    <3> HIDE DEF sig
    <3> QED
      BY <3>1, <3>2 DEF InOrder, TypeOK
  <2> QED
    BY <2>1, <2>2
<1>3. CASE SendSignal /\ UNCHANGED taken
  <2>1. Len(outbox) = 1 /\ Head(outbox) = outbox[1] /\ outbox[1].id = accepted
    BY <1>3, OutboxSignal DEF SendSignal, InOrder
  <2>2. /\ outbox' = <<>> /\ chan' = Append(chan, outbox[1])
        /\ chan \in Seq(Signal) /\ Len(chan) \in Nat
        /\ UNCHANGED <<accepted, taken>>
    BY <1>3, <2>1 DEF SendSignal, TypeOK
  <2>3. /\ Len(chan') = Len(chan) + 1
        /\ \A i \in 1..Len(chan) : chan'[i] = chan[i]
        /\ chan'[Len(chan) + 1] = outbox[1]
    BY <2>2
  <2>4. accepted = taken + Len(chan) + 1 /\ taken \in Nat
    BY <2>1 DEF InOrder, TypeOK
  <2>5. accepted' = taken' + Len(chan') + Len(outbox')
    BY <2>2, <2>3, <2>4
  <2>6. ASSUME NEW i \in 1..Len(chan')
        PROVE  chan'[i].id = taken' + i
    <3>1. CASE i \in 1..Len(chan)
      BY <2>2, <2>3, <3>1 DEF InOrder
    <3>2. CASE i = Len(chan) + 1
      BY <2>1, <2>2, <2>3, <2>4, <3>2
    <3> QED
      BY <2>2, <2>3, <3>1, <3>2
  <2> QED
    BY <2>2, <2>5, <2>6 DEF InOrder
<1>4. CASE Receive /\ UNCHANGED feedVars
  <2>1. /\ Len(Tail(chan)) = Len(chan) - 1
        /\ \A i \in 1..Len(Tail(chan)) : Tail(chan)[i] = chan[i + 1]
    BY <1>4 DEF Receive, TypeOK
  <2> QED
    BY <1>4, <2>1 DEF Receive, feedVars, InOrder, TypeOK
<1> QED
  BY <1>1, <1>2, <1>3, <1>4 DEF Next, FeedStep

(* What the main loop has taken, what is queued and what is being sent are *)
(* the accepted signals in order, whatever the capacity of the channel.    *)
THEOREM SignalsInOrder == Spec => []InOrder
<1>1. Init => InOrder
  BY DEF Init, FeedInit, InOrder
<1> QED
  BY <1>1, NextInOrder, TypeCorrect, PTL DEF Spec

-----------------------------------------------------------------------------
(* The debounce.  While a session can accept swaps, the map remembers every*)
(* token whose window is open; while main.rs sleeps, the sleep outlasts    *)
(* every open window, so that the map of the next session may be empty.    *)
Remembered(t) ==
  sinceSignal[t] = Debounce \/ debounce[t] = sinceSignal[t]
DebounceInv ==
  /\ session \in {"connecting", "open"} => \A t \in Tokens : Remembered(t)
  /\ session = "sleeping" => \A t \in Tokens : Debounce - sinceSignal[t] <= sleepLeft

(* The clean-up drops no entry of an open window.                          *)
LEMMA StampRemembers ==
  ASSUME TypeOK, NEW t \in Tokens, NEW u \in Tokens, u # t, Remembered(u)
  PROVE  sinceSignal[u] = Debounce \/ Stamp(t)[u] = sinceSignal[u]
<1> DEFINE stamped == [debounce EXCEPT ![t] = 0]
<1>1. stamped[u] = debounce[u]
  BY DEF TypeOK
<1>2. CASE sinceSignal[u] = Debounce
  BY <1>2
<1>3. CASE sinceSignal[u] # Debounce /\ debounce[u] = sinceSignal[u]
  <2>1. debounce[u] < RetainFor
    BY <1>3, FeedAssumption, DelayAssumption DEF TypeOK
  <2>2. [w \in Tokens |-> IF stamped[w] < RetainFor THEN stamped[w] ELSE Absent][u]
          = debounce[u]
    BY <1>1, <2>1
  <2> QED
    BY <1>1, <1>3, <2>2 DEF Stamp
<1> QED
  BY <1>2, <1>3 DEF Remembered

(* Every step keeps the debounce map a faithful memory of open windows.    *)
LEMMA NextDebounceInv == TypeOK /\ DebounceInv /\ [Next]_vars => DebounceInv'
<1> SUFFICES ASSUME TypeOK, DebounceInv, [Next]_vars
             PROVE  DebounceInv'
  OBVIOUS
<1> USE FeedAssumption, DelayAssumption
<1>1. CASE \/ ConnectOk /\ UNCHANGED taken
           \/ SendSignal /\ UNCHANGED taken
           \/ Receive /\ UNCHANGED feedVars
           \/ UNCHANGED vars
  BY <1>1 DEF ConnectOk, SendSignal, Receive, feedVars, vars, DebounceInv, Remembered
<1>2. CASE SessionEnds /\ UNCHANGED taken
  BY <1>2 DEF SessionEnds, Pause, DebounceInv, TypeOK
<1>3. CASE Restart /\ UNCHANGED taken
  BY <1>3 DEF Restart, DebounceInv, Remembered, TypeOK
<1>4. ASSUME NEW s \in Swaps, ReadSwap(s), UNCHANGED taken
      PROVE  DebounceInv'
  <2>1. CASE ~Passes(s)
    BY <1>4, <2>1 DEF ReadSwap, Skip, DebounceInv, Remembered
  <2>2. CASE Passes(s)
    <3> DEFINE t == TokenOf(s)
    <3>1. t \in Tokens
      BY <2>2, SwapType DEF Passes, Classifiable, IsSolOrStable, TokenOf, IsBuy
    <3>2. Remembered(t)'
      BY <1>4, <2>2, <3>1 DEF ReadSwap, Stamp, Remembered, TypeOK
    <3>3. ASSUME NEW u \in Tokens, u # t
          PROVE  Remembered(u)'
      BY <1>4, <2>2, <3>1, <3>3, StampRemembers DEF ReadSwap, DebounceInv, Remembered, TypeOK
    <3> QED
      BY <1>4, <3>2, <3>3 DEF ReadSwap, DebounceInv
  <2> QED
    BY <2>1, <2>2
<1>5. CASE Tick /\ UNCHANGED taken
  <2>1. ASSUME NEW t \in Tokens, Remembered(t)
        PROVE  Remembered(t)'
    BY <1>5, <2>1 DEF Tick, Older, Absent, Remembered, TypeOK
  <2>2. ASSUME NEW t \in Tokens, Debounce - sinceSignal[t] <= sleepLeft
        PROVE  Debounce - sinceSignal'[t] <= sleepLeft'
    BY <1>5, <2>2 DEF Tick, Older, Absent, TypeOK
  <2> QED
    BY <1>5, <2>1, <2>2 DEF Tick, DebounceInv
<1> QED
  BY <1>1, <1>2, <1>3, <1>4, <1>5 DEF Next, FeedStep

(* A connected session remembers every window that is still open, and a    *)
(* sleeping one sleeps at least until the last of them closes.             *)
THEOREM DebounceInvariant == Spec => []DebounceInv
<1>1. Init => DebounceInv
  BY DEF Init, FeedInit, DebounceInv, Remembered
<1> QED
  BY <1>1, NextDebounceInv, TypeCorrect, PTL DEF Spec

(* A swap that passes does so only when the window of its token is over.   *)
LEMMA SpacingStep ==
  TypeOK /\ DebounceInv /\ [Next]_vars
    => [accepted' # accepted => sinceSignal[outbox'[1].token] = Debounce]_vars
<1> SUFFICES ASSUME TypeOK, DebounceInv, Next, accepted' # accepted
             PROVE  sinceSignal[outbox'[1].token] = Debounce
  OBVIOUS
<1>1. PICK s \in Swaps : ReadSwap(s)
  BY DEF Next, FeedStep, ConnectOk, SessionEnds, Restart, SendSignal, Tick, feedVars
<1>2. Passes(s) /\ outbox' = <<SignalOf(s, accepted + 1)>>
  BY <1>1 DEF ReadSwap, Skip
<1>3. outbox'[1].token = TokenOf(s) /\ TokenOf(s) \in Tokens
  BY <1>2, SwapType, FeedAssumption
  DEF SignalOf, Passes, Classifiable, IsSolOrStable, TokenOf, IsBuy
<1>4. ~Muted(TokenOf(s)) /\ Remembered(TokenOf(s))
  BY <1>1, <1>2, <1>3 DEF ReadSwap, Passes, DebounceInv
<1> QED
  BY <1>3, <1>4, FeedAssumption DEF Muted, Remembered, TypeOK, Absent

(* No signal of a token is accepted less than Debounce seconds after the   *)
(* one before, across reconnects, clean-ups and a blocked channel.         *)
THEOREM DebounceHolds == Spec => DebounceSpacing
BY SpacingStep, DebounceInvariant, TypeCorrect, PTL DEF Spec, DebounceSpacing

-----------------------------------------------------------------------------
(* The tail of the path, and what an element entering or leaving makes.    *)
LEMMA TailOfPath ==
  ASSUME NEW S, NEW q \in Seq(S), NEW r \in Seq(S), q # <<>>
  PROVE  /\ q \o r # <<>>
         /\ Tail(q \o r) = Tail(q) \o r
<1>1. Len(q) \in Nat \ {0}
  BY EmptySeq
<1>2. /\ q \o r \in Seq(S) /\ Tail(q) \in Seq(S)
      /\ Len(q \o r) = Len(q) + Len(r) /\ Len(r) \in Nat
      /\ Len(Tail(q)) = Len(q) - 1
  BY <1>1
<1>3. q \o r # <<>>
  BY <1>1, <1>2
<1>4. Tail(q \o r) \in Seq(S) /\ Len(Tail(q \o r)) = Len(q) + Len(r) - 1
  BY <1>2, <1>3
<1>5. /\ Tail(q) \o r \in Seq(S)
      /\ Len(Tail(q) \o r) = Len(q) + Len(r) - 1
  BY <1>1, <1>2
<1>6. ASSUME NEW i \in 1..(Len(q) + Len(r) - 1)
      PROVE  Tail(q \o r)[i] = (Tail(q) \o r)[i]
  <2>1. Tail(q \o r)[i] = (q \o r)[i + 1]
    BY <1>2, <1>3, <1>4, <1>6
  <2>2. CASE i <= Len(q) - 1
    BY <1>1, <1>2, <2>1, <2>2
  <2>3. CASE i > Len(q) - 1
    <3>1. (q \o r)[i + 1] = r[i + 1 - Len(q)]
      BY <1>1, <1>2, <2>3
    <3>2. (Tail(q) \o r)[i] = r[i - (Len(q) - 1)]
      BY <1>1, <1>2, <2>3
    <3>3. i + 1 - Len(q) = i - (Len(q) - 1)
      BY <1>1
    <3> QED
      BY <2>1, <3>1, <3>2, <3>3
  <2> QED
    BY <1>1, <2>2, <2>3
<1>7. Tail(q \o r) = Tail(q) \o r
  BY <1>4, <1>5, <1>6, SeqEqual
<1> QED
  BY <1>3, <1>7

(* The suspended send and the channel together, as one queue of signals.   *)
LEMMA OneOnPath ==
  ASSUME NEW S, NEW q \in Seq(S), NEW x \in S
  PROVE  /\ q \o <<x>> = Append(q, x)
         /\ q \o <<>> = q
OBVIOUS

(* A step of the feed or of recv() is a step of the bounded queue, or none.*)
LEMMA NextPath == TypeOK /\ [Next]_vars => [Path!Next]_(Path!vars)
<1> SUFFICES ASSUME TypeOK, [Next]_vars
             PROVE  Path!Next \/ UNCHANGED Path!vars
  OBVIOUS
<1> USE FeedAssumption
<1>1. CASE \/ ConnectOk /\ UNCHANGED taken
           \/ SessionEnds /\ UNCHANGED taken
           \/ Restart /\ UNCHANGED taken
           \/ Tick /\ UNCHANGED taken
           \/ UNCHANGED vars
  BY <1>1 DEF ConnectOk, SessionEnds, Restart, Tick, vars, Path!vars
<1>2. ASSUME NEW s \in Swaps, ReadSwap(s), UNCHANGED taken
      PROVE  Path!Next \/ UNCHANGED Path!vars
  <2>1. CASE ~Passes(s)
    BY <1>2, <2>1 DEF ReadSwap, Skip, Path!vars
  <2>2. CASE Passes(s)
    <3> DEFINE sig == SignalOf(s, accepted + 1)
    <3>1. accepted + 1 \in Ids
      BY <1>2, <2>2 DEF ReadSwap, TypeOK, Ids
    <3>2. sig \in Signal /\ sig \in {SignalOf(w, n) : w \in Swaps, n \in Ids}
      BY <3>1, <2>2, SignalType DEF Passes
    <3>3. /\ outbox = <<>> /\ outbox' = <<sig>>
          /\ accepted' = accepted + 1 /\ UNCHANGED <<chan, taken>>
      BY <1>2, <2>2 DEF ReadSwap
    <3> HIDE DEF sig
    <3>4. chan \in Seq(Signal) /\ Len(chan) <= ChannelCap /\ Len(chan) \in Nat
      BY DEF TypeOK
    <3>5. chan \o outbox = chan /\ chan' \o outbox' = Append(chan, sig)
      BY <3>2, <3>3, <3>4, OneOnPath
    <3>6. Len(chan \o outbox) < ChannelCap + 1
      BY <3>4, <3>5
    <3>7. Path!Send(sig)
      BY <3>3, <3>5, <3>6 DEF Path!Send
    <3> QED
      BY <3>2, <3>7 DEF Path!Next
  <2> QED
    BY <2>1, <2>2
<1>3. CASE SendSignal /\ UNCHANGED taken
  <2> DEFINE sig == outbox[1]
  <2>1. Len(outbox) = 1 /\ Head(outbox) = sig /\ sig \in Signal
    BY <1>3, OutboxSignal DEF SendSignal
  <2>2. outbox = <<sig>>
    BY <2>1 DEF TypeOK
  <2>3. /\ outbox' = <<>> /\ chan' = Append(chan, sig)
        /\ UNCHANGED <<accepted, taken>>
    BY <1>3, <2>1 DEF SendSignal
  <2> HIDE DEF sig
  <2>4. chan \in Seq(Signal)
    BY DEF TypeOK
  <2>5. Append(chan, sig) \in Seq(Signal)
    BY <2>1, <2>4
  <2>6. chan \o outbox = Append(chan, sig)
    BY <2>1, <2>2, <2>4, OneOnPath
  <2>7. chan' \o outbox' = Append(chan, sig)
    BY <2>1, <2>3, <2>5, OneOnPath
  <2> QED
    BY <2>3, <2>6, <2>7 DEF Path!vars
<1>4. CASE Receive /\ UNCHANGED feedVars
  <2>1. /\ chan \in Seq(Signal) /\ outbox \in Seq(Signal) /\ chan # <<>>
        /\ chan' = Tail(chan) /\ taken' = taken + 1
        /\ UNCHANGED <<outbox, accepted>>
    BY <1>4 DEF Receive, feedVars, TypeOK
  <2>2. chan \o outbox # <<>> /\ Tail(chan \o outbox) = Tail(chan) \o outbox
    BY <2>1, TailOfPath
  <2>3. Path!Get
    BY <2>1, <2>2 DEF Path!Get
  <2> QED
    BY <2>3 DEF Path!Next
<1> QED
  BY <1>1, <1>2, <1>3, <1>4 DEF Next, FeedStep

(* The feed implements the bounded queue that BoundedFifo specifies, but   *)
(* for its liveness: a signal accepted by a session, suspended in send()   *)
(* or queued leaves in its turn, once, whatever the channel's capacity.    *)
THEOREM FeedImplementsFifo == Spec => Path!Safety
<1>1. Init => Path!Init
  BY DEF Init, FeedInit, Path!Init
<1> QED
  BY <1>1, NextPath, TypeCorrect, PTL DEF Spec, Path!Safety
=============================================================================

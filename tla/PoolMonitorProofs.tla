-------------------------- MODULE PoolMonitorProofs --------------------------
(***************************************************************************)
(* Machine-checked proofs about PoolMonitor, for any curves, whirlpools,   *)
(* channel capacities and bounds: its types, that a run announces a        *)
(* graduation once and prices the curve no more, and that a settled        *)
(* Raydium picture is a picture of one chain state.                        *)
(***************************************************************************)
EXTENDS PoolMonitor, TLAPS

Note == VaultNote \union SingleNote

(* Outside an open session nothing is subscribed to and nothing under way; *)
(* a curve that is notified complete has completed.                        *)
ClosedIsQuiet == run # "open" => subscribed = {} /\ wire = <<>>
DoneIsComplete ==
  \A i \in DOMAIN wire :
    wire[i].acct \in Singles /\ wire[i].done => wire[i].acct \in complete
TypeInv == TypeOK /\ ClosedIsQuiet /\ DoneIsComplete

-----------------------------------------------------------------------------
(* Facts about sequences of notifications.                                 *)
LEMMA ConcatNotes ==
  ASSUME NEW S, NEW s \in Seq(S), NEW t \in Seq(S)
  PROVE  /\ s \o t \in Seq(S) /\ Len(s \o t) = Len(s) + Len(t)
         /\ \A i \in DOMAIN (s \o t) :
              \/ i \in DOMAIN s /\ (s \o t)[i] = s[i]
              \/ /\ i \notin DOMAIN s /\ i - Len(s) \in DOMAIN t
                 /\ (s \o t)[i] = t[i - Len(s)]
         /\ \A i \in DOMAIN s : i \in DOMAIN (s \o t) /\ (s \o t)[i] = s[i]
         /\ \A i \in DOMAIN t : /\ i + Len(s) \in DOMAIN (s \o t)
                                /\ (s \o t)[i + Len(s)] = t[i]
OBVIOUS

(* What is left on the wire when a notification is taken.                  *)
LEMMA TailNotes ==
  ASSUME NEW S, NEW s \in Seq(S), s # <<>>
  PROVE  /\ Tail(s) \in Seq(S) /\ Len(Tail(s)) = Len(s) - 1
         /\ Head(s) = s[1] /\ Head(s) \in S /\ 1 \in DOMAIN s
         /\ \A i \in DOMAIN Tail(s) : i + 1 \in DOMAIN s /\ Tail(s)[i] = s[i + 1]
         /\ \A i \in DOMAIN s : i # 1 => i - 1 \in DOMAIN Tail(s) /\ Tail(s)[i - 1] = s[i]
OBVIOUS

(* The accounts of vaults and of single-account pools are apart.           *)
LEMMA NoteKinds ==
  ASSUME NEW n \in Note
  PROVE  /\ n.acct \in Vaults <=> n \in VaultNote
         /\ n.acct \in Singles <=> n \in SingleNote
         /\ n.acct \in Vaults => n.at \in Nat /\ n.acct \notin Singles
         /\ n.acct \in Singles => n.done \in BOOLEAN /\ n.acct \notin Vaults
         /\ n.readable \in BOOLEAN
<1>1. Vaults \intersect Singles = {}
  BY MonitorAssumption DEF Vaults, Singles
<1> QED
  BY <1>1 DEF Note, VaultNote, SingleNote

(* What is sent of one notification.                                       *)
LEMMA SentNote ==
  ASSUME NEW S, NEW n \in S
  PROVE  /\ Sent(n) \in Seq(S)
         /\ n.acct \in subscribed => Sent(n) = <<n>> /\ DOMAIN Sent(n) = {1} /\ Sent(n)[1] = n
         /\ n.acct \notin subscribed => Sent(n) = <<>> /\ DOMAIN Sent(n) = {}
BY DEF Sent

(* A trade notifies each vault that is subscribed to, of the same state.   *)
TradeNote == [acct : Vaults, at : {trades + 1}, readable : BOOLEAN]

(* The notifications a trade sends: one of each vault not lost afterwards, *)
(* and that one is readable.                                               *)
LEMMA TradeNotes ==
  ASSUME TypeInv, RaydiumTrade
  PROVE  \E sent \in Seq(TradeNote) :
           /\ wire' = wire \o sent /\ Len(wire') <= MaxWire
           /\ \A i \in DOMAIN sent : sent[i].acct \in subscribed
           /\ \A v \in Vaults \ lost' : \E i \in DOMAIN sent : sent[i].acct = v
           /\ \A v \in Vaults \ lost' :
                \A i \in DOMAIN sent : sent[i].acct = v => sent[i].readable
           /\ lost' \subseteq lost \union Vaults
<1>1. PICK readable \in SUBSET Vaults :
        LET NoteOf(v) == [acct |-> v, at |-> trades + 1, readable |-> v \in readable]
            coin == Sent(NoteOf("coin"))
            pc == Sent(NoteOf("pc"))
        IN  Notify(coin \o pc, Vaults) \/ Notify(pc \o coin, Vaults)
  BY DEF RaydiumTrade
<1> DEFINE c == [acct |-> "coin", at |-> trades + 1, readable |-> "coin" \in readable]
           p == [acct |-> "pc", at |-> trades + 1, readable |-> "pc" \in readable]
<1>2. c \in TradeNote /\ p \in TradeNote /\ c.acct = "coin" /\ p.acct = "pc"
  BY DEF TradeNote, Vaults
<1>3. Notify(Sent(c) \o Sent(p), Vaults) \/ Notify(Sent(p) \o Sent(c), Vaults)
  BY <1>1
<1> HIDE DEF c, p
<1>4. ASSUME NEW m \in TradeNote, NEW n \in TradeNote, m.acct # n.acct,
             Notify(Sent(m) \o Sent(n), Vaults)
      PROVE  \E sent \in Seq(TradeNote) :
               /\ wire' = wire \o sent /\ Len(wire') <= MaxWire
               /\ \A i \in DOMAIN sent : sent[i].acct \in subscribed
               /\ \A v \in Vaults \ lost' : \E i \in DOMAIN sent : sent[i].acct = v
               /\ \A v \in Vaults \ lost' :
                    \A i \in DOMAIN sent : sent[i].acct = v => sent[i].readable
               /\ lost' \subseteq lost \union Vaults
  <2> DEFINE sent == Sent(m) \o Sent(n)
  <2>1. Sent(m) \in Seq(TradeNote) /\ Sent(n) \in Seq(TradeNote)
    BY SentNote
  <2>2. /\ \A i \in DOMAIN Sent(m) : Sent(m)[i] = m /\ m.acct \in subscribed
        /\ \A i \in DOMAIN Sent(n) : Sent(n)[i] = n /\ n.acct \in subscribed
    BY SentNote
  <2>3. /\ sent \in Seq(TradeNote)
        /\ \A i \in DOMAIN sent : sent[i] \in {m, n} /\ sent[i].acct \in subscribed
    BY <2>1, <2>2, ConcatNotes
  <2>4. wire' = wire \o sent /\ Len(wire') <= MaxWire
    BY <1>4 DEF Notify
  <2>5. lost' = (lost \union Vaults) \ {k.acct : k \in {q \in Range(sent) : q.readable}}
    BY <1>4 DEF Notify
  <2> HIDE DEF sent
  <2>6. ASSUME NEW v \in Vaults \ lost'
        PROVE  \E i \in DOMAIN sent : sent[i].acct = v /\ sent[i].readable
    BY <2>5, <2>6 DEF Range
  <2>7. ASSUME NEW v \in Vaults \ lost', NEW i \in DOMAIN sent, sent[i].acct = v
        PROVE  sent[i].readable
    <3>1. PICK j \in DOMAIN sent : sent[j].acct = v /\ sent[j].readable
      BY <2>6
    <3> QED
      BY <1>4, <2>3, <2>7, <3>1
  <2> QED
    BY <2>3, <2>4, <2>5, <2>6, <2>7
<1> QED
  BY <1>2, <1>3, <1>4
-----------------------------------------------------------------------------
(* Type correctness (pool_monitor.rs:56-75, 97-114).                       *)
LEMMA InitTypeInv == Init => TypeInv
<1> SUFFICES ASSUME Init PROVE TypeInv
  OBVIOUS
<1>1. ASSUME NEW S PROVE <<>> \in Seq(S) /\ Len(<<>>) = 0 /\ DOMAIN <<>> = {}
  OBVIOUS
<1>2. ClosedIsQuiet /\ DoneIsComplete
  BY <1>1 DEF Init, ClosedIsQuiet, DoneIsComplete
<1>3. vault \in [Vaults -> {Unknown} \union Nat]
  BY DEF Init, NoRaydiumState
<1> QED
  BY <1>1, <1>2, <1>3, MonitorAssumption DEF Init, TypeInv, TypeOK

(* A trade of the Raydium pool.                                            *)
LEMMA TradeTypeInv == TypeInv /\ RaydiumTrade => TypeInv'
<1> SUFFICES ASSUME TypeInv, RaydiumTrade PROVE TypeInv'
  OBVIOUS
<1>1. PICK sent \in Seq(TradeNote) :
        /\ wire' = wire \o sent /\ Len(wire') <= MaxWire
        /\ \A i \in DOMAIN sent : sent[i].acct \in subscribed
        /\ lost' \subseteq lost \union Vaults
  BY TradeNotes
<1>2. trades' \in 0..MaxTrades /\ trades + 1 \in Nat
  BY MonitorAssumption DEF TypeInv, TypeOK, RaydiumTrade
<1>3. TradeNote \subseteq Note /\ \A n \in TradeNote : n.acct \in Vaults
  BY <1>2 DEF TradeNote, Note, VaultNote
<1>4. wire \in Seq(Note) /\ sent \in Seq(Note)
  BY <1>1, <1>3 DEF TypeInv, TypeOK, Note
<1>5. wire' \in Seq(Note)
  BY <1>1, <1>4, ConcatNotes
<1>6. ClosedIsQuiet'
  <2> SUFFICES ASSUME run # "open" PROVE subscribed' = {} /\ wire' = <<>>
    BY DEF ClosedIsQuiet, RaydiumTrade, sessionVars
  <2>1. subscribed = {} /\ wire = <<>>
    BY DEF TypeInv, ClosedIsQuiet
  <2>2. DOMAIN sent = {}
    BY <1>1, <2>1
  <2>3. sent = <<>>
    BY <1>4, <2>2
  <2> QED
    BY <1>1, <2>1, <2>3 DEF RaydiumTrade, sessionVars
<1>7. DoneIsComplete'
  <2> SUFFICES ASSUME NEW i \in DOMAIN wire', wire'[i].acct \in Singles, wire'[i].done
               PROVE  wire'[i].acct \in complete
    BY DEF DoneIsComplete, RaydiumTrade
  <2>1. CASE i \in DOMAIN wire /\ wire'[i] = wire[i]
    BY <2>1 DEF TypeInv, DoneIsComplete
  <2>2. CASE i - Len(wire) \in DOMAIN sent /\ wire'[i] = sent[i - Len(wire)]
    <3>1. wire'[i] \in TradeNote
      BY <2>2
    <3> QED
      BY <1>3, <3>1, NoteKinds
  <2> QED
    BY <1>1, <1>4, <2>1, <2>2, ConcatNotes
<1> QED
  BY <1>1, <1>2, <1>5, <1>6, <1>7
     DEF RaydiumTrade, TypeInv, TypeOK, sessionVars, picture, consumers, Note

(* A change of a curve or a whirlpool: the notification it sends, if any.  *)
LEMMA SingleNotes ==
  ASSUME TypeInv, NEW p \in Singles, SingleChanges(p)
  PROVE  \E n \in SingleNote :
           /\ n.acct = p /\ (p \in complete => n.done) /\ (n.done => p \in Curves)
           /\ complete' = IF n.done THEN complete \union {p} ELSE complete
           /\ wire' = wire \o Sent(n) /\ Len(wire') <= MaxWire
           /\ lost' \subseteq lost \union {p} /\ lost \ {p} \subseteq lost'
<1>1. PICK done \in BOOLEAN, readable \in BOOLEAN :
        /\ p \in complete => done
        /\ done => p \in Curves
        /\ complete' = IF done THEN complete \union {p} ELSE complete
        /\ Notify(Sent([acct |-> p, done |-> done, readable |-> readable]), {p})
  BY DEF SingleChanges
<1> DEFINE n == [acct |-> p, done |-> done, readable |-> readable]
<1>2. n \in SingleNote /\ n.acct = p /\ n.done = done
  BY DEF SingleNote
<1> HIDE DEF n
<1>3. Notify(Sent(n), {p})
  BY <1>1 DEF n
<1>4. \A k \in Range(Sent(n)) : k.acct = p
  BY <1>2 DEF Sent, Range
<1>5. lost' \subseteq lost \union {p} /\ lost \ {p} \subseteq lost'
  BY <1>3, <1>4 DEF Notify
<1> QED
  BY <1>1, <1>2, <1>3, <1>5 DEF Notify

(* A step about one account keeps the types.                               *)
LEMMA SingleTypeInv ==
  ASSUME TypeInv, NEW p \in Singles, SingleChanges(p)
  PROVE  TypeInv'
<1>1. PICK n \in SingleNote :
        /\ n.acct = p /\ (p \in complete => n.done) /\ (n.done => p \in Curves)
        /\ complete' = IF n.done THEN complete \union {p} ELSE complete
        /\ wire' = wire \o Sent(n) /\ Len(wire') <= MaxWire
        /\ lost' \subseteq lost \union {p}
  BY SingleNotes
<1>2. n \in Note /\ n.done \in BOOLEAN
  BY DEF Note, SingleNote
<1>3. wire \in Seq(Note) /\ Sent(n) \in Seq(Note)
  BY <1>2, SentNote DEF TypeInv, TypeOK, Note
<1>4. wire' \in Seq(Note)
  BY <1>1, <1>3, ConcatNotes
<1>5. ClosedIsQuiet'
  <2> SUFFICES ASSUME run # "open" PROVE subscribed' = {} /\ wire' = <<>>
    BY DEF ClosedIsQuiet, SingleChanges, sessionVars
  <2>1. subscribed = {} /\ wire = <<>>
    BY DEF TypeInv, ClosedIsQuiet
  <2>2. Sent(n) = <<>>
    BY <2>1 DEF Sent
  <2> QED
    BY <1>1, <2>1, <2>2 DEF SingleChanges, sessionVars
<1>6. complete \subseteq complete'
  BY <1>1, <1>2
<1>7. DoneIsComplete'
  <2> SUFFICES ASSUME NEW i \in DOMAIN wire', wire'[i].acct \in Singles, wire'[i].done
               PROVE  wire'[i].acct \in complete'
    BY DEF DoneIsComplete
  <2>1. CASE i \in DOMAIN wire /\ wire'[i] = wire[i]
    BY <1>6, <2>1 DEF TypeInv, DoneIsComplete
  <2>2. CASE i - Len(wire) \in DOMAIN Sent(n) /\ wire'[i] = Sent(n)[i - Len(wire)]
    <3>1. wire'[i] = n
      BY <2>2, SentNote DEF Sent
    <3> QED
      BY <1>1, <3>1
  <2> QED
    BY <1>1, <1>3, <2>1, <2>2, ConcatNotes
<1>8. complete' \subseteq Curves /\ lost' \subseteq Singles \union Vaults
  BY <1>1, <1>2 DEF TypeInv, TypeOK
<1> QED
  BY <1>1, <1>4, <1>5, <1>7, <1>8
     DEF SingleChanges, TypeInv, TypeOK, sessionVars, picture, consumers, Note

(* The monitor takes a notification off the wire.                          *)
LEMMA HandleTypeInv == TypeInv /\ Handle => TypeInv'
<1> SUFFICES ASSUME TypeInv, Handle PROVE TypeInv'
  OBVIOUS
<1> DEFINE n == Head(wire)
<1>1. wire \in Seq(Note) /\ wire # <<>> /\ wire' = Tail(wire) /\ MaxWire \in Nat
  BY MonitorAssumption DEF TypeInv, TypeOK, Handle, Note
<1>2. n \in Note /\ n = wire[1] /\ 1 \in DOMAIN wire
  BY <1>1, TailNotes
<1> HIDE DEF n
<1>3. wire' \in Seq(Note) /\ Len(wire') <= MaxWire
  BY <1>1, TailNotes DEF TypeInv, TypeOK
<1>4. ClosedIsQuiet'
  BY DEF ClosedIsQuiet, Handle, sessionVars
<1>5. DoneIsComplete'
  <2> SUFFICES ASSUME NEW i \in DOMAIN wire', wire'[i].acct \in Singles, wire'[i].done
               PROVE  wire'[i].acct \in complete
    BY DEF DoneIsComplete, Handle, chainVars
  <2>1. i + 1 \in DOMAIN wire /\ wire'[i] = wire[i + 1]
    BY <1>1, TailNotes
  <2> QED
    BY <2>1 DEF TypeInv, DoneIsComplete
<1>6. CASE HandleVault(n) /\ n.acct \in Vaults
  <2>1. HandleVault(n)
    BY <1>6
  <2>2. n.at \in Nat
    BY <1>2, <1>6, NoteKinds
  <2>3. vault' \in [Vaults -> {Unknown} \union Nat]
    BY <1>6, <2>1, <2>2 DEF HandleVault, TypeInv, TypeOK
  <2>4. CASE UNCHANGED <<outbox, shown>>
    BY <1>3, <1>4, <1>5, <2>1, <2>3, <2>4
       DEF HandleVault, Handle, TypeInv, TypeOK, chainVars, sessionVars, consumers, Note
  <2>5. CASE ~UNCHANGED <<outbox, shown>>
    <3> DEFINE quote == [to |-> "quotes", pool |-> "raydium",
                         coin |-> vault'["coin"], pc |-> vault'["pc"]]
    <3>1. /\ ~(\E v \in Vaults : vault'[v] = Unknown)
          /\ outbox' = <<quote>> /\ shown' = <<quote>>
      BY <2>1, <2>5 DEF HandleVault, PriceAfter
    <3>2. quote \in RaydiumQuote
      BY <2>3, <3>1 DEF RaydiumQuote, Vaults
    <3> HIDE DEF quote
    <3>3. /\ <<quote>> \in Seq(RaydiumQuote) /\ Len(<<quote>>) = 1
          /\ <<quote>> \in Seq(RaydiumQuote \union SingleQuote \union Graduation)
      BY <3>2
    <3> QED
      BY <1>3, <1>4, <1>5, <2>1, <2>3, <3>1, <3>3
         DEF HandleVault, Handle, TypeInv, TypeOK, chainVars, sessionVars, consumers, Note
  <2> QED
    BY <2>4, <2>5
<1>7. CASE HandleSingle(n) /\ n.acct \notin Vaults
  <2>1. HandleSingle(n)
    BY <1>7
  <2>2. n.acct \in Singles /\ n.done \in BOOLEAN
    BY <1>2, <1>7, NoteKinds DEF Note, VaultNote, SingleNote
  <2>3. n.done => n.acct \in Curves
    BY <1>2, <2>2 DEF TypeInv, TypeOK, DoneIsComplete
  <2>4. was' \subseteq Curves /\ announced' \subseteq Curves
    BY <2>1, <2>3 DEF HandleSingle, TypeInv, TypeOK
  <2>5. outbox' \in Seq(RaydiumQuote \union SingleQuote \union Graduation) /\ Len(outbox') <= 1
    <3>1. CASE outbox' = <<[to |-> "grads", pool |-> n.acct]>> /\ n.done
      <4>1. [to |-> "grads", pool |-> n.acct] \in Graduation
        BY <2>3, <3>1 DEF Graduation
      <4> QED
        BY <3>1, <4>1
    <3>2. CASE outbox' = <<[to |-> "quotes", pool |-> n.acct]>>
      <4>1. [to |-> "quotes", pool |-> n.acct] \in SingleQuote
        BY <2>2 DEF SingleQuote
      <4> QED
        BY <3>2, <4>1
    <3>3. CASE outbox' = <<>>
      BY <3>3
    <3> QED
      BY <2>1, <3>1, <3>2, <3>3 DEF HandleSingle
  <2> QED
    BY <1>3, <1>4, <1>5, <2>1, <2>4, <2>5
       DEF HandleSingle, Handle, TypeInv, TypeOK, chainVars, sessionVars, consumers, Note
<1>8. CASE UNCHANGED picture
  BY <1>3, <1>4, <1>5, <1>8
     DEF Handle, TypeInv, TypeOK, chainVars, sessionVars, picture, consumers, Note
<1> QED
  BY <1>6, <1>7, <1>8 DEF Handle, n

(* Sessions: their accounts are those of the watched pools.                *)
LEMMA SessionTypeInv ==
  ASSUME TypeInv,
         \/ Discover \/ SleepOver \/ Connect \/ SessionFails \/ SessionCloses
         \/ \E a \in AccountsOf(watched) : Subscribe(a)
  PROVE  TypeInv'
<1>1. <<>> \in Seq(RaydiumQuote) /\ <<>> \in Seq(VaultNote \union SingleNote)
      /\ Len(<<>>) = 0 /\ DOMAIN <<>> = {}
  OBVIOUS
<1>2. CASE Discover
  <2>1. subscribed = {} /\ subscribed' = {} /\ wire' = wire /\ wire = <<>>
    BY <1>2 DEF Discover, TypeInv, ClosedIsQuiet
  <2>2. vault' \in [Vaults -> {Unknown} \union Nat]
    BY <1>2 DEF Discover, NoRaydiumState
  <2>3. watched' \subseteq Singles \union {"raydium"}
    BY <1>2 DEF Discover, Discoveries
  <2>4. run' \in {"discovering", "connecting"}
    BY <1>2 DEF Discover
  <2>5. ClosedIsQuiet' /\ DoneIsComplete'
    BY <1>1, <2>1 DEF ClosedIsQuiet, DoneIsComplete
  <2> QED
    BY <1>1, <1>2, <2>1, <2>2, <2>3, <2>4, <2>5
       DEF Discover, TypeInv, TypeOK, chainVars, consumers
<1>3. CASE SleepOver
  BY <1>3 DEF SleepOver, TypeInv, TypeOK, ClosedIsQuiet, DoneIsComplete,
              chainVars, picture, consumers, AccountsOf
<1>4. CASE Connect
  BY <1>4 DEF Connect, TypeInv, TypeOK, ClosedIsQuiet, DoneIsComplete,
              chainVars, picture, consumers, AccountsOf
<1>5. ASSUME NEW a \in AccountsOf(watched), Subscribe(a) PROVE TypeInv'
  BY <1>5 DEF Subscribe, TypeInv, TypeOK, ClosedIsQuiet, DoneIsComplete,
              chainVars, picture, consumers, AccountsOf
<1>6. ASSUME NEW after \in {"waiting", "discovering"}, EndSession(after) PROVE TypeInv'
  <2>1. wire \in Seq(Note) /\ MaxWire \in Nat
    BY MonitorAssumption DEF TypeInv, TypeOK, Note
  <2>2. {wire[i].acct : i \in DOMAIN wire} \subseteq Singles \union Vaults
    <3>1. \A i \in DOMAIN wire : wire[i] \in Note
      BY <2>1
    <3> QED
      BY <3>1 DEF Note, VaultNote, SingleNote
  <2>3. lost' \subseteq Singles \union Vaults
    BY <1>6, <2>2 DEF EndSession, TypeInv, TypeOK
  <2>4. subscribed' = {} /\ wire' = <<>> /\ run' = after
    BY <1>6 DEF EndSession
  <2>5. ClosedIsQuiet' /\ DoneIsComplete'
    BY <1>1, <2>4 DEF ClosedIsQuiet, DoneIsComplete
  <2> QED
    BY <1>1, <1>6, <2>1, <2>3, <2>4, <2>5
       DEF EndSession, Remember, TypeInv, TypeOK, chainVars, consumers
<1> QED
  BY <1>2, <1>3, <1>4, <1>5, <1>6 DEF SessionFails, SessionCloses

(* The channels of quotes and graduations, and their readers.              *)
LEMMA ChannelTypeInv ==
  ASSUME TypeInv,
         \/ SendQuote \/ SendGraduation \/ TakeQuote \/ Launch
         \/ \E c \in Curves : SniperEnds(c)
  PROVE  TypeInv'
<1> USE MonitorAssumption
<1> DEFINE Sending == Seq(RaydiumQuote \union SingleQuote \union Graduation)
<1>1. <<>> \in Sending /\ Len(<<>>) = 0
  OBVIOUS
<1>2. outbox # <<>> => Head(outbox) \in RaydiumQuote \union SingleQuote \union Graduation
  BY DEF TypeInv, TypeOK
<1>3. ClosedIsQuiet' /\ DoneIsComplete'
  BY DEF SendQuote, SendGraduation, TakeQuote, Launch, SniperEnds, TypeInv, ClosedIsQuiet,
         DoneIsComplete, chainVars, sessionVars
<1>4. CASE SendQuote
  <2>1. Head(outbox) \in RaydiumQuote \union SingleQuote
    BY <1>2, <1>4 DEF SendQuote, Graduation
  <2>2. quotes' \in Seq(RaydiumQuote \union SingleQuote) /\ Len(quotes') <= QuoteCap
    BY <1>4, <2>1 DEF SendQuote, RoomIn, TypeInv, TypeOK
  <2> QED
    BY <1>1, <1>3, <1>4, <2>2
       DEF SendQuote, TypeInv, TypeOK, chainVars, sessionVars
<1>5. CASE SendGraduation
  <2>1. Head(outbox) \in Graduation
    BY <1>2, <1>5 DEF SendGraduation, RaydiumQuote, SingleQuote
  <2>2. grads' \in Seq(Graduation) /\ Len(grads') <= GradCap
    BY <1>5, <2>1 DEF SendGraduation, RoomIn, TypeInv, TypeOK
  <2> QED
    BY <1>1, <1>3, <1>5, <2>2
       DEF SendGraduation, TypeInv, TypeOK, chainVars, sessionVars
<1>6. CASE TakeQuote
  <2>1. quotes' \in Seq(RaydiumQuote \union SingleQuote) /\ Len(quotes') <= QuoteCap
    BY <1>6 DEF TakeQuote, TypeInv, TypeOK
  <2> QED
    BY <1>3, <1>6, <2>1 DEF TakeQuote, TypeInv, TypeOK, chainVars, sessionVars, picture
<1>7. CASE Launch
  <2>1. grads' \in Seq(Graduation) /\ Len(grads') <= GradCap /\ Head(grads) \in Graduation
    BY <1>7 DEF Launch, TypeInv, TypeOK
  <2>2. sniping' \subseteq Curves
    BY <1>7, <2>1 DEF Launch, Graduation, TypeInv, TypeOK
  <2> QED
    BY <1>3, <1>7, <2>1, <2>2 DEF Launch, TypeInv, TypeOK, chainVars, sessionVars, picture
<1>8. ASSUME NEW c \in Curves, SniperEnds(c) PROVE TypeInv'
  BY <1>3, <1>8 DEF SniperEnds, TypeInv, TypeOK, chainVars, sessionVars, picture
<1> QED
  BY <1>4, <1>5, <1>6, <1>7, <1>8

(* Every step keeps the types.                                             *)
LEMMA NextTypeInv == TypeInv /\ [Next]_vars => TypeInv'
<1>1. TypeInv /\ UNCHANGED vars => TypeInv'
  BY DEF TypeInv, TypeOK, ClosedIsQuiet, DoneIsComplete, vars, chainVars, sessionVars,
         picture, consumers, AccountsOf
<1> QED
  BY <1>1, TradeTypeInv, SingleTypeInv, HandleTypeInv, SessionTypeInv, ChannelTypeInv DEF Next

(* Notifications, channels and the picture keep their types, and only the  *)
(* accounts of watched pools are ever subscribed to.                       *)
THEOREM TypeCorrect == Spec => []TypeOK
<1>1. TypeInv => TypeOK
  BY DEF TypeInv
<1> QED
  BY <1>1, InitTypeInv, NextTypeInv, PTL DEF Spec

-----------------------------------------------------------------------------
(* A run sends a graduation once.  That the monitor remembers what it saw  *)
(* complete (was) is not enough: an open curve's notification would make   *)
(* it forget.  It never comes after a complete one, because the wire keeps *)
(* the order and a curve stays complete.                                   *)
NotesInOrder ==
  \A i, j \in DOMAIN wire :
    /\ i < j /\ wire[i].acct = wire[j].acct
    /\ wire[i].acct \in Singles /\ wire[i].done
    => wire[j].done
AnnouncedStayDone ==
  /\ announced \subseteq was \intersect complete
  /\ \A i \in DOMAIN wire : wire[i].acct \in announced => wire[i].done
GraduationInv == TypeInv /\ NotesInOrder /\ AnnouncedStayDone

(* Nothing is announced at first.                                          *)
LEMMA InitGraduationInv == Init => GraduationInv
BY InitTypeInv DEF Init, GraduationInv, NotesInOrder, AnnouncedStayDone

(* A trade adds no notification of a curve.                                *)
LEMMA TradeGraduation == GraduationInv /\ RaydiumTrade => GraduationInv'
<1> SUFFICES ASSUME GraduationInv, RaydiumTrade PROVE GraduationInv'
  OBVIOUS
<1>1. TypeInv /\ TypeInv'
  BY NextTypeInv DEF GraduationInv, Next
<1>2. PICK sent \in Seq(TradeNote) : wire' = wire \o sent
  BY <1>1, TradeNotes
<1>3. TradeNote \subseteq Note /\ \A n \in TradeNote : n.acct \in Vaults
  <2>1. trades + 1 \in Nat
    BY <1>1 DEF TypeInv, TypeOK
  <2> QED
    BY <2>1 DEF TradeNote, Note, VaultNote
<1>4. wire \in Seq(Note) /\ sent \in Seq(Note)
  BY <1>1, <1>2, <1>3 DEF TypeInv, TypeOK, Note
<1>5. ASSUME NEW i \in DOMAIN wire', wire'[i].acct \in Singles
      PROVE  i \in DOMAIN wire /\ wire'[i] = wire[i]
  <2>1. CASE i - Len(wire) \in DOMAIN sent /\ wire'[i] = sent[i - Len(wire)]
    <3>1. wire'[i] \in TradeNote
      BY <2>1
    <3> QED
      BY <1>3, <1>5, <3>1, NoteKinds
  <2> QED
    BY <1>2, <1>4, <2>1, ConcatNotes
<1>6. announced \subseteq Singles
  BY <1>1 DEF TypeInv, TypeOK, Singles
<1>7. UNCHANGED <<announced, was, complete>>
  BY DEF RaydiumTrade, picture
<1> QED
  BY <1>1, <1>5, <1>6, <1>7 DEF GraduationInv, NotesInOrder, AnnouncedStayDone

(* A change of a complete curve is notified as one of a complete curve.    *)
LEMMA SingleGraduation ==
  ASSUME GraduationInv, NEW p \in Singles, SingleChanges(p)
  PROVE  GraduationInv'
<1>1. TypeInv /\ TypeInv'
  BY SingleTypeInv DEF GraduationInv
<1>2. PICK n \in SingleNote :
        /\ n.acct = p /\ (p \in complete => n.done)
        /\ complete' = IF n.done THEN complete \union {p} ELSE complete
        /\ wire' = wire \o Sent(n)
  BY <1>1, SingleNotes
<1>3. n \in Note /\ n.done \in BOOLEAN
  BY DEF Note, SingleNote
<1>4. wire \in Seq(Note) /\ Sent(n) \in Seq(Note)
  BY <1>1, <1>3, SentNote DEF TypeInv, TypeOK, Note
<1>5. Len(Sent(n)) \in 0..1 /\ \A k \in DOMAIN Sent(n) : k = 1 /\ Sent(n)[k] = n
  BY DEF Sent
<1>6. ASSUME NEW i \in DOMAIN wire'
      PROVE  \/ i \in DOMAIN wire /\ wire'[i] = wire[i]
             \/ i = Len(wire) + 1 /\ wire'[i] = n
  <2>1. CASE i - Len(wire) \in DOMAIN Sent(n) /\ wire'[i] = Sent(n)[i - Len(wire)]
    <3>1. i - Len(wire) = 1 /\ wire'[i] = n
      BY <1>5, <2>1
    <3>2. i \in Int /\ Len(wire) \in Int
      BY <1>2, <1>4, ConcatNotes
    <3> QED
      BY <3>1, <3>2
  <2> QED
    BY <1>2, <1>4, <2>1, ConcatNotes
<1>7. complete \subseteq complete' /\ UNCHANGED <<announced, was>>
  BY <1>2, <1>3 DEF SingleChanges, picture
<1>8. NotesInOrder'
  <2> SUFFICES ASSUME NEW i \in DOMAIN wire', NEW j \in DOMAIN wire',
                      i < j, wire'[i].acct = wire'[j].acct,
                      wire'[i].acct \in Singles, wire'[i].done
               PROVE  wire'[j].done
    BY DEF NotesInOrder
  <2>1. CASE j \in DOMAIN wire /\ wire'[j] = wire[j]
    <3>1. i \in DOMAIN wire /\ wire'[i] = wire[i]
      BY <1>4, <1>6, <2>1
    <3> QED
      BY <2>1, <3>1 DEF GraduationInv, NotesInOrder
  <2>2. CASE j = Len(wire) + 1 /\ wire'[j] = n
    <3>1. i \in DOMAIN wire /\ wire'[i] = wire[i]
      BY <1>4, <1>6, <2>2
    <3>2. p \in complete
      BY <1>1, <1>2, <2>2, <3>1 DEF TypeInv, DoneIsComplete
    <3> QED
      BY <1>2, <2>2, <3>2
  <2> QED
    BY <1>6, <2>1, <2>2
<1>9. AnnouncedStayDone'
  BY <1>2, <1>6, <1>7 DEF GraduationInv, AnnouncedStayDone
<1> QED
  BY <1>1, <1>8, <1>9 DEF GraduationInv

(* Taking a notification: what remains keeps its order, and a graduation   *)
(* that is sent is of a curve all of whose notifications are complete.     *)
LEMMA HandleGraduation == GraduationInv /\ Handle => GraduationInv'
<1> SUFFICES ASSUME GraduationInv, Handle PROVE GraduationInv'
  OBVIOUS
<1> DEFINE n == Head(wire)
<1>1. TypeInv /\ TypeInv' /\ complete' = complete
  BY HandleTypeInv DEF GraduationInv, Handle, chainVars
<1>2. wire \in Seq(Note) /\ wire # <<>> /\ wire' = Tail(wire)
  BY <1>1 DEF TypeInv, TypeOK, Handle, Note
<1>3. n \in Note /\ n = wire[1] /\ 1 \in DOMAIN wire
  BY <1>2, TailNotes
<1> HIDE DEF n
<1>4. \A i \in DOMAIN wire' : i + 1 \in DOMAIN wire /\ wire'[i] = wire[i + 1] /\ i \in Nat \ {0}
  BY <1>2, TailNotes
<1>5. NotesInOrder'
  BY <1>4 DEF GraduationInv, NotesInOrder
<1>6. CASE UNCHANGED picture \/ HandleVault(n)
  <2>1. UNCHANGED <<was, announced>>
    BY <1>6 DEF HandleVault, picture
  <2> QED
    BY <1>1, <1>4, <1>5, <2>1 DEF GraduationInv, AnnouncedStayDone
<1>7. CASE HandleSingle(n) /\ n.acct \notin Vaults
  <2>1. HandleSingle(n)
    BY <1>7
  <2>2. n.acct \in Singles /\ n.done \in BOOLEAN
    BY <1>3, <1>7, NoteKinds DEF Note, VaultNote, SingleNote
  <2>3. CASE n.done /\ n.acct \notin was
    <3>1. was' = was \union {n.acct} /\ announced' = announced \union {n.acct}
      BY <2>1, <2>3 DEF HandleSingle
    <3>2. n.acct \in complete
      BY <1>1, <1>3, <2>2, <2>3 DEF TypeInv, DoneIsComplete
    <3>3. \A i \in DOMAIN wire' : wire'[i].acct = n.acct => wire'[i].done
      BY <1>3, <1>4, <2>2, <2>3 DEF GraduationInv, NotesInOrder
    <3> QED
      BY <1>1, <1>4, <1>5, <3>1, <3>2, <3>3 DEF GraduationInv, AnnouncedStayDone
  <2>4. CASE ~(n.done /\ n.acct \notin was)
    <3>1. announced' = announced
      BY <2>1, <2>4 DEF HandleSingle
    <3>2. announced \subseteq was'
      BY <1>3, <2>1, <2>2 DEF HandleSingle, GraduationInv, AnnouncedStayDone
    <3> QED
      BY <1>1, <1>4, <1>5, <3>1, <3>2 DEF GraduationInv, AnnouncedStayDone
  <2> QED
    BY <2>3, <2>4
<1> QED
  BY <1>6, <1>7 DEF Handle, n

(* Every step keeps what is announced remembered.                          *)
LEMMA NextGraduationInv == GraduationInv /\ [Next]_vars => GraduationInv'
<1> SUFFICES ASSUME GraduationInv, [Next]_vars PROVE GraduationInv'
  OBVIOUS
<1>1. TypeInv /\ TypeInv'
  BY NextTypeInv DEF GraduationInv
<1>2. CASE Discover
  <2>1. announced' = {} /\ wire' = <<>>
    BY <1>1, <1>2 DEF Discover, TypeInv, ClosedIsQuiet
  <2> QED
    BY <1>1, <2>1 DEF GraduationInv, NotesInOrder, AnnouncedStayDone
<1>3. CASE SessionFails \/ SessionCloses
  <2>1. wire' = <<>> /\ UNCHANGED <<announced, was, complete>>
    BY <1>3 DEF SessionFails, SessionCloses, EndSession, Remember, chainVars
  <2> QED
    BY <1>1, <2>1 DEF GraduationInv, NotesInOrder, AnnouncedStayDone
<1>4. CASE UNCHANGED <<wire, announced, was, complete>>
  BY <1>1, <1>4 DEF GraduationInv, NotesInOrder, AnnouncedStayDone
<1>5. \/ UNCHANGED vars \/ SleepOver \/ Connect \/ SendQuote \/ SendGraduation
      \/ TakeQuote \/ Launch \/ \E c \in Curves : SniperEnds(c)
      \/ \E a \in AccountsOf(watched) : Subscribe(a)
      => UNCHANGED <<wire, announced, was, complete>>
  BY DEF vars, SleepOver, Connect, SendQuote, SendGraduation, TakeQuote, Launch, SniperEnds,
         Subscribe, chainVars, picture
<1> QED
  BY <1>2, <1>3, <1>4, <1>5, TradeGraduation, SingleGraduation, HandleGraduation DEF Next

(* A run sends the graduation of a curve once, through any number of       *)
(* reconnects and repeated notifications, and no price of the curve        *)
(* afterwards (pool_monitor.rs:97-103, 352-367).                           *)
THEOREM GraduatesOnce == Spec => GraduatesOncePerRun
<1>1. GraduationInv /\ [Next]_vars
        => [outbox' # outbox /\ outbox' # <<>> => outbox'[1].pool \notin announced]_vars
  <2> SUFFICES ASSUME GraduationInv, Next, outbox' # outbox, outbox' # <<>>
               PROVE  outbox'[1].pool \notin announced
    OBVIOUS
  <2> DEFINE n == Head(wire)
  <2>1. TypeInv
    BY DEF GraduationInv
  <2>2. Handle
    BY DEF Next, RaydiumTrade, SingleChanges, Discover, SleepOver, Connect, Subscribe,
           SessionFails, SessionCloses, EndSession, SendQuote, SendGraduation, TakeQuote,
           Launch, SniperEnds, picture
  <2>3. wire \in Seq(Note) /\ wire # <<>>
    BY <2>1, <2>2 DEF TypeInv, TypeOK, Handle, Note
  <2>4. n \in Note /\ n = wire[1] /\ 1 \in DOMAIN wire
    BY <2>3, TailNotes
  <2> HIDE DEF n
  <2>5. CASE HandleVault(n)
    <3>1. outbox'[1].pool = "raydium"
      BY <2>5 DEF HandleVault
    <3> QED
      BY <2>1, <3>1, MonitorAssumption DEF TypeInv, TypeOK
  <2>6. CASE HandleSingle(n)
    <3>1. outbox'[1].pool = n.acct /\ (n.acct \notin was \/ ~n.done)
      BY <2>6 DEF HandleSingle, Priced
    <3> QED
      BY <2>4, <3>1 DEF GraduationInv, AnnouncedStayDone
  <2> QED
    BY <2>2, <2>5, <2>6 DEF Handle, n, picture
<1> QED
  BY <1>1, InitGraduationInv, NextGraduationInv, PTL DEF Spec, GraduatesOncePerRun

-----------------------------------------------------------------------------
(* The picture of the Raydium pool.  As long as no change of a vault was   *)
(* lost, its newest notification under way is readable and of the last     *)
(* trade, or with none under way the stored balance is; and the last quote *)
(* was made of the stored balances, unless they leave nothing to price.    *)
NewestIsCurrent ==
  \A v \in Vaults \ lost :
    \A i \in DOMAIN wire :
      wire[i].acct = v /\ (\A j \in DOMAIN wire : i < j => wire[j].acct # v)
      => wire[i].at = trades /\ wire[i].readable
StoredIsCurrent ==
  \A v \in Vaults \ lost :
    (\A i \in DOMAIN wire : wire[i].acct # v) /\ vault[v] # Unknown => vault[v] = trades
QuoteIsOfPicture ==
  (\A v \in Vaults : vault[v] # Unknown) /\ vault["coin"] \notin EmptyAt
  => shown # <<>> /\ shown[1].coin = vault["coin"] /\ shown[1].pc = vault["pc"]
PictureInv == TypeInv /\ NewestIsCurrent /\ StoredIsCurrent /\ QuoteIsOfPicture

(* Both vaults change with a trade: what is not lost is notified.          *)
LEMMA TradePicture == PictureInv /\ RaydiumTrade => PictureInv'
<1> SUFFICES ASSUME PictureInv, RaydiumTrade PROVE PictureInv'
  OBVIOUS
<1>1. TypeInv /\ TypeInv'
  BY NextTypeInv DEF PictureInv, Next
<1>2. PICK sent \in Seq(TradeNote) :
        /\ wire' = wire \o sent
        /\ \A v \in Vaults \ lost' : \E i \in DOMAIN sent : sent[i].acct = v
        /\ \A v \in Vaults \ lost' :
             \A i \in DOMAIN sent : sent[i].acct = v => sent[i].readable
  BY <1>1, TradeNotes
<1>3. TradeNote \subseteq Note /\ \A n \in TradeNote : n.at = trades + 1
  <2>1. trades + 1 \in Nat
    BY <1>1 DEF TypeInv, TypeOK
  <2> QED
    BY <2>1 DEF TradeNote, Note, VaultNote
<1>4. wire \in Seq(Note) /\ sent \in Seq(Note)
  BY <1>1, <1>2, <1>3 DEF TypeInv, TypeOK, Note
<1>5. ASSUME NEW v \in Vaults \ lost'
      PROVE  \E i \in DOMAIN wire' : i > Len(wire) /\ wire'[i].acct = v
  <2>1. PICK k \in DOMAIN sent : sent[k].acct = v
    BY <1>2
  <2>2. k + Len(wire) \in DOMAIN wire' /\ wire'[k + Len(wire)] = sent[k]
    BY <1>2, <1>4, ConcatNotes
  <2>3. k + Len(wire) > Len(wire)
    BY <1>4
  <2> QED
    BY <2>1, <2>2, <2>3
<1>6. ASSUME NEW i \in DOMAIN wire', i > Len(wire)
      PROVE  /\ wire'[i].at = trades + 1
             /\ \A v \in Vaults \ lost' : wire'[i].acct = v => wire'[i].readable
  <2>1. i - Len(wire) \in DOMAIN sent /\ wire'[i] = sent[i - Len(wire)]
    BY <1>2, <1>4, <1>6, ConcatNotes
  <2>2. wire'[i] \in TradeNote
    BY <2>1
  <2> QED
    BY <1>2, <1>3, <2>1, <2>2
<1>7. NewestIsCurrent'
  <2> SUFFICES ASSUME NEW v \in Vaults \ lost', NEW i \in DOMAIN wire', wire'[i].acct = v,
                      \A j \in DOMAIN wire' : i < j => wire'[j].acct # v
               PROVE  wire'[i].at = trades' /\ wire'[i].readable
    BY DEF NewestIsCurrent
  <2>1. PICK k \in DOMAIN wire' : k > Len(wire) /\ wire'[k].acct = v
    BY <1>5
  <2>2. ~(i < k) /\ i \in Int /\ k \in Int /\ Len(wire) \in Int
    BY <1>1, <1>4, <2>1 DEF TypeInv, TypeOK
  <2>3. i > Len(wire)
    BY <2>1, <2>2
  <2> QED
    BY <1>6, <2>3 DEF RaydiumTrade
<1>8. StoredIsCurrent'
  BY <1>5 DEF StoredIsCurrent
<1>9. QuoteIsOfPicture'
  BY DEF PictureInv, QuoteIsOfPicture, RaydiumTrade, picture
<1> QED
  BY <1>1, <1>7, <1>8, <1>9 DEF PictureInv

(* A change of another account says nothing of the vaults.                 *)
LEMMA SinglePicture ==
  ASSUME PictureInv, NEW p \in Singles, SingleChanges(p)
  PROVE  PictureInv'
<1>1. TypeInv /\ TypeInv'
  BY SingleTypeInv DEF PictureInv
<1>2. PICK n \in SingleNote :
        /\ n.acct = p /\ wire' = wire \o Sent(n)
        /\ lost' \subseteq lost \union {p} /\ lost \ {p} \subseteq lost'
  BY <1>1, SingleNotes
<1>3. n \in Note /\ p \notin Vaults
  BY <1>2, NoteKinds DEF Note
<1>4. wire \in Seq(Note) /\ Sent(n) \in Seq(Note)
  BY <1>1, <1>3, SentNote DEF TypeInv, TypeOK, Note
<1>5. \A k \in DOMAIN Sent(n) : Sent(n)[k] = n
  BY DEF Sent
<1>6. /\ \A i \in DOMAIN wire : i \in DOMAIN wire' /\ wire'[i] = wire[i]
      /\ \A i \in DOMAIN wire' : wire'[i].acct \in Vaults => i \in DOMAIN wire /\ wire'[i] = wire[i]
  BY <1>2, <1>3, <1>4, <1>5, ConcatNotes
<1>7. UNCHANGED <<trades, vault, shown>> /\ Vaults \ lost' = Vaults \ lost
  BY <1>2, <1>3 DEF SingleChanges, picture
<1> QED
  BY <1>1, <1>6, <1>7
     DEF PictureInv, NewestIsCurrent, StoredIsCurrent, QuoteIsOfPicture

(* A balance taken off the wire: if it is the newest it is current.        *)
LEMMA HandlePicture == PictureInv /\ Handle => PictureInv'
<1> SUFFICES ASSUME PictureInv, Handle PROVE PictureInv'
  OBVIOUS
<1> DEFINE n == Head(wire)
<1>1. TypeInv /\ TypeInv' /\ UNCHANGED <<trades, lost>>
  BY HandleTypeInv DEF PictureInv, Handle, chainVars
<1>2. wire \in Seq(Note) /\ wire # <<>> /\ wire' = Tail(wire)
  BY <1>1 DEF TypeInv, TypeOK, Handle, Note
<1>3. n \in Note /\ n = wire[1] /\ 1 \in DOMAIN wire
  BY <1>2, TailNotes
<1> HIDE DEF n
<1>4. /\ \A i \in DOMAIN wire' : i + 1 \in DOMAIN wire /\ wire'[i] = wire[i + 1] /\ i \in Nat \ {0}
      /\ \A i \in DOMAIN wire : i # 1 => i - 1 \in DOMAIN wire' /\ wire'[i - 1] = wire[i]
                                     /\ i \in Nat \ {0}
  BY <1>2, TailNotes
<1>5. NewestIsCurrent'
  <2> SUFFICES ASSUME NEW v \in Vaults \ lost, NEW i \in DOMAIN wire', wire'[i].acct = v,
                      \A j \in DOMAIN wire' : i < j => wire'[j].acct # v
               PROVE  wire'[i].at = trades /\ wire'[i].readable
    BY <1>1 DEF NewestIsCurrent
  <2>1. ASSUME NEW j \in DOMAIN wire, i + 1 < j PROVE wire[j].acct # v
    <3>1. j - 1 \in DOMAIN wire' /\ wire'[j - 1] = wire[j] /\ i < j - 1
      BY <1>4, <2>1
    <3> QED
      BY <3>1
  <2> QED
    BY <1>4, <2>1 DEF PictureInv, NewestIsCurrent
<1>6. CASE HandleVault(n) /\ n.acct \in Vaults
  <2>1. HandleVault(n)
    BY <1>6
  <2>2. vault' = [vault EXCEPT ![n.acct] = n.at] /\ vault \in [Vaults -> {Unknown} \union Nat]
    BY <1>1, <2>1 DEF HandleVault, TypeInv, TypeOK
  <2>3. StoredIsCurrent'
    <3> SUFFICES ASSUME NEW v \in Vaults \ lost, \A i \in DOMAIN wire' : wire'[i].acct # v,
                        vault'[v] # Unknown
                 PROVE  vault'[v] = trades
      BY <1>1 DEF StoredIsCurrent
    <3>1. \A i \in DOMAIN wire : i # 1 => wire[i].acct # v
      BY <1>4
    <3>2. CASE v = n.acct
      <4>1. wire[1].at = trades
        BY <1>3, <3>1, <3>2 DEF PictureInv, NewestIsCurrent
      <4> QED
        BY <1>3, <2>2, <3>2, <4>1
    <3>3. CASE v # n.acct
      <4>1. \A i \in DOMAIN wire : wire[i].acct # v
        BY <1>3, <3>1, <3>3
      <4> QED
        BY <2>2, <3>3, <4>1 DEF PictureInv, StoredIsCurrent
    <3> QED
      BY <3>2, <3>3
  <2>4. QuoteIsOfPicture'
    <3> SUFFICES ASSUME \A v \in Vaults : vault'[v] # Unknown,
                        vault'["coin"] \notin EmptyAt
                 PROVE  shown' # <<>> /\ shown'[1].coin = vault'["coin"]
                                     /\ shown'[1].pc = vault'["pc"]
      BY DEF QuoteIsOfPicture
    <3> QED
      BY <2>1 DEF HandleVault, PriceAfter
  <2> QED
    BY <1>1, <1>5, <2>3, <2>4 DEF PictureInv
<1>7. CASE \/ UNCHANGED picture /\ ~n.readable
           \/ HandleSingle(n) /\ n.acct \notin Vaults
  <2>1. UNCHANGED <<vault, shown>>
    BY <1>7 DEF HandleSingle, picture
  <2>2. StoredIsCurrent'
    <3> SUFFICES ASSUME NEW v \in Vaults \ lost, \A i \in DOMAIN wire' : wire'[i].acct # v,
                        vault[v] # Unknown
                 PROVE  vault[v] = trades
      BY <1>1, <2>1 DEF StoredIsCurrent
    <3>1. \A i \in DOMAIN wire : i # 1 => wire[i].acct # v
      BY <1>4
    <3>2. wire[1].acct = v => wire[1].readable
      BY <1>3, <3>1 DEF PictureInv, NewestIsCurrent
    <3>3. \A i \in DOMAIN wire : wire[i].acct # v
      BY <1>3, <1>7, <3>1, <3>2
    <3> QED
      BY <3>3 DEF PictureInv, StoredIsCurrent
  <2>3. QuoteIsOfPicture'
    BY <2>1 DEF PictureInv, QuoteIsOfPicture
  <2> QED
    BY <1>1, <1>5, <2>2, <2>3 DEF PictureInv
<1> QED
  BY <1>6, <1>7 DEF Handle, n

(* Every step keeps the picture current.                                   *)
LEMMA NextPictureInv == PictureInv /\ [Next]_vars => PictureInv'
<1> SUFFICES ASSUME PictureInv, [Next]_vars PROVE PictureInv'
  OBVIOUS
<1>1. TypeInv /\ TypeInv'
  BY NextTypeInv DEF PictureInv
<1>2. CASE Discover
  <2>1. vault' = NoRaydiumState /\ wire' = <<>>
    BY <1>1, <1>2 DEF Discover, TypeInv, ClosedIsQuiet
  <2>2. \A v \in Vaults : vault'[v] = Unknown
    BY <2>1 DEF NoRaydiumState
  <2>3. "coin" \in Vaults /\ DOMAIN wire' = {}
    BY <2>1 DEF Vaults
  <2> QED
    BY <1>1, <2>2, <2>3 DEF PictureInv, NewestIsCurrent, StoredIsCurrent, QuoteIsOfPicture
<1>3. CASE SessionFails \/ SessionCloses
  <2>1. /\ wire' = <<>> /\ UNCHANGED <<vault, shown, trades>>
        /\ lost' = lost \union {wire[i].acct : i \in DOMAIN wire}
    BY <1>3 DEF SessionFails, SessionCloses, EndSession, chainVars
  <2>2. StoredIsCurrent'
    BY <2>1 DEF PictureInv, StoredIsCurrent
  <2> QED
    BY <1>1, <2>1, <2>2 DEF PictureInv, NewestIsCurrent, QuoteIsOfPicture
<1>4. CASE UNCHANGED <<wire, vault, shown, trades, lost>>
  BY <1>1, <1>4 DEF PictureInv, NewestIsCurrent, StoredIsCurrent, QuoteIsOfPicture
<1>5. \/ UNCHANGED vars \/ SleepOver \/ Connect \/ SendQuote \/ SendGraduation
      \/ TakeQuote \/ Launch \/ \E c \in Curves : SniperEnds(c)
      \/ \E a \in AccountsOf(watched) : Subscribe(a)
      => UNCHANGED <<wire, vault, shown, trades, lost>>
  BY DEF vars, SleepOver, Connect, SendQuote, SendGraduation, TakeQuote, Launch, SniperEnds,
         Subscribe, chainVars, picture
<1> QED
  BY <1>2, <1>3, <1>4, <1>5, TradePicture, SinglePicture, HandlePicture DEF Next

(* A Raydium price mixes two notifications, and sessions leave half of the *)
(* picture behind and messages that do not decode are passed over; once    *)
(* nothing is under way and no change of a vault was lost since, the       *)
(* picture is of one chain state, and so is the last quote unless the coin *)
(* vault is empty and has no price                                         *)
(* (pool_monitor.rs:326-342, 381-388; pool_decoder.rs:36-38).              *)
THEOREM SettledQuotes == Spec => []SettledQuoteIsConsistent
<1>1. Init => PictureInv
  BY InitTypeInv
     DEF Init, PictureInv, NewestIsCurrent, StoredIsCurrent, QuoteIsOfPicture, NoRaydiumState,
         Vaults
<1>2. PictureInv => SettledQuoteIsConsistent
  <2>1. "coin" \in Vaults /\ "pc" \in Vaults /\ DOMAIN <<>> = {}
    BY DEF Vaults
  <2> QED
    BY <2>1 DEF PictureInv, StoredIsCurrent, QuoteIsOfPicture, SettledQuoteIsConsistent
<1> QED
  BY <1>1, <1>2, NextPictureInv, PTL DEF Spec
=============================================================================

----------------------------- MODULE PoolMonitor -----------------------------
(***************************************************************************)
(* The WebSocket pool monitor (arb-feed/src/pool_monitor.rs), its restart  *)
(* loop and the graduation handler of arb-cli/src/main.rs.  A run discovers*)
(* pools once and holds sessions with the RPC node until one ends without  *)
(* an error; main.rs then starts the next run.  Accounts notify their      *)
(* changes; there is no message for the state at the time of subscribing,  *)
(* and a message whose data do not decode is passed over.                  *)
(*                                                                         *)
(* One Raydium pool, priced from two vault accounts, and any number of     *)
(* pools priced from one account: PumpFun curves, which graduate, and      *)
(* Orca whirlpools, which do not.  The chain and the node are external.    *)
(***************************************************************************)
EXTENDS Integers, Sequences, Functions

CONSTANTS
  Curves,      \* PumpFun bonding curves
  Whirlpools,  \* Orca pools
  QuoteCap,    \* capacity of the quote channel (5000)
  GradCap,     \* capacity of the graduation channel (100)
  MaxWire,     \* bound on the notifications in flight
  MaxTrades,   \* bound on the trades in the Raydium pool
  EmptyAt      \* the trades that leave its coin vault empty

ASSUME MonitorAssumption ==
  /\ QuoteCap \in Nat \ {0} /\ GradCap \in Nat \ {0}
  /\ MaxWire \in Nat /\ MaxTrades \in Nat /\ EmptyAt \subseteq Nat
  /\ Curves \intersect Whirlpools = {}
  /\ {"raydium", "coin", "pc"} \intersect (Curves \union Whirlpools) = {}

VARIABLES
  trades,      \* chain: trades in the Raydium pool; each moves both vaults
  complete,    \* chain: the curves that have completed
  run,         \* "discovering", "connecting", "waiting" or "open"
  watched,     \* pools of the run
  subscribed,  \* accounts with a confirmed subscription in the session
  wire,        \* notifications of the session on their way to the monitor
  vault,       \* RaydiumVaultState: per vault the trade it shows, or Unknown
  was,         \* curves with pumpfun_was_complete
  outbox,      \* what handle_message is sending, if anything
  quotes,      \* the quote channel
  grads,       \* the graduation channel
  sniping,     \* curves a sniper task is running for
  lost,        \* accounts whose last change was not told: not notified,
               \* not received or not readable (history)
  shown,       \* the last Raydium quote sent, if any (history)
  announced    \* curves whose graduation this run has sent (history)

chainVars == <<trades, complete>>
sessionVars == <<run, watched, subscribed>>
picture == <<vault, was, outbox, shown, announced>>
consumers == <<quotes, grads, sniping>>
vars == <<chainVars, sessionVars, wire, picture, consumers, lost>>

Vaults == {"coin", "pc"}
Singles == Curves \union Whirlpools
Unknown == -1
AccountsOf(pools) ==
  (pools \intersect Singles) \union (IF "raydium" \in pools THEN Vaults ELSE {})

VaultNote == [acct : Vaults, at : Nat, readable : BOOLEAN]
SingleNote == [acct : Singles, done : BOOLEAN, readable : BOOLEAN]
RaydiumQuote == [to : {"quotes"}, pool : {"raydium"}, coin : Nat, pc : Nat]
SingleQuote == [to : {"quotes"}, pool : Singles]
Graduation == [to : {"grads"}, pool : Curves]

NoRaydiumState == [v \in Vaults |-> Unknown]

-----------------------------------------------------------------------------
Init ==
  /\ trades = 0
  /\ complete = {}
  /\ run = "discovering"
  /\ watched = {}
  /\ subscribed = {}
  /\ wire = <<>>
  /\ vault = NoRaydiumState
  /\ was = {}
  /\ outbox = <<>>
  /\ quotes = <<>>
  /\ grads = <<>>
  /\ sniping = {}
  /\ lost = {}
  /\ shown = <<>>
  /\ announced = {}

(* The chain: an account that changes is notified if it is subscribed to.  *)
Sent(note) == IF note.acct \in subscribed THEN <<note>> ELSE <<>>
Notify(sent, changed) ==
  /\ wire' = wire \o sent
  /\ Len(wire') <= MaxWire
  /\ lost' = (lost \union changed) \ {n.acct : n \in {m \in Range(sent) : m.readable}}

RaydiumTrade ==
  /\ trades < MaxTrades
  /\ trades' = trades + 1
  /\ \E readable \in SUBSET Vaults :
       LET NoteOf(v) == [acct |-> v, at |-> trades + 1, readable |-> v \in readable]
           coin == Sent(NoteOf("coin"))
           pc == Sent(NoteOf("pc"))
       IN  Notify(coin \o pc, Vaults) \/ Notify(pc \o coin, Vaults)
  /\ UNCHANGED <<complete, sessionVars, picture, consumers>>

(* A completed curve may still change: its liquidity is withdrawn and the  *)
(* account closed, after which it does not decode.                         *)
SingleChanges(p) ==
  /\ \E done, readable \in BOOLEAN :
       /\ p \in complete => done
       /\ done => p \in Curves
       /\ complete' = IF done THEN complete \union {p} ELSE complete
       /\ Notify(Sent([acct |-> p, done |-> done, readable |-> readable]), {p})
  /\ UNCHANGED <<trades, sessionVars, picture, consumers>>

-----------------------------------------------------------------------------
(* discover_pools: what DexScreener lists of the pools; errors leave some  *)
(* or all of them out and are never returned.                              *)
Discoveries == SUBSET (Singles \union {"raydium"})

(* PoolMonitor::run subscribes to the accounts of what was discovered and  *)
(* resolved.  With nothing to watch it returns Ok, and main.rs calls it    *)
(* again at once: run never returns an error.                              *)
Discover ==
  /\ run = "discovering"
  /\ watched' \in Discoveries
  /\ run' = IF watched' = {} THEN "discovering" ELSE "connecting"
  /\ vault' = NoRaydiumState
  /\ was' = {}
  /\ announced' = {}
  /\ shown' = <<>>
  /\ UNCHANGED <<chainVars, subscribed, wire, outbox, consumers, lost>>

(* The three seconds before the session of a run is tried again.           *)
SleepOver ==
  /\ run = "waiting"
  /\ run' = "connecting"
  /\ UNCHANGED <<chainVars, watched, subscribed, wire, picture, consumers, lost>>

Connect ==
  /\ run = "connecting"
  /\ run' \in {"open", "waiting"}
  /\ UNCHANGED <<chainVars, watched, subscribed, wire, picture, consumers, lost>>

(* The node accepts a subscription; it may reject one or never answer.     *)
Subscribe(a) ==
  /\ run = "open"
  /\ a \in AccountsOf(watched) \ subscribed
  /\ subscribed' = subscribed \union {a}
  /\ UNCHANGED <<chainVars, run, watched, wire, picture, consumers, lost>>

(* What a new session starts from; faulty variant: nothing is remembered.  *)
Forget == was' = {}
Remember == UNCHANGED was

(* run_session ends: with an error, and the same run reconnects after      *)
(* three seconds; or with a Close frame or the end of the stream, and run  *)
(* returns Ok.  Notifications under way are gone.                          *)
EndSession(after) ==
  /\ run = "open"
  /\ outbox = <<>>
  /\ run' = after
  /\ subscribed' = {}
  /\ wire' = <<>>
  /\ lost' = lost \union {wire[i].acct : i \in DOMAIN wire}
  /\ Remember
  /\ UNCHANGED <<chainVars, watched, vault, outbox, shown, announced, consumers>>

SessionFails == EndSession("waiting")
SessionCloses == EndSession("discovering")

(* handle_message: a vault balance, and a quote once both are known, if    *)
(* the coin vault has something in it: there is no price otherwise.        *)
(* Faulty variant: the quote is made before the balance is stored.         *)
PriceBefore == vault
PriceAfter == vault'
HandleVault(note) ==
  /\ vault' = [vault EXCEPT ![note.acct] = note.at]
  /\ IF (\E v \in Vaults : PriceAfter[v] = Unknown) \/ PriceAfter["coin"] \in EmptyAt
     THEN UNCHANGED <<outbox, shown>>
     ELSE LET quote == [to |-> "quotes", pool |-> "raydium",
                        coin |-> PriceAfter["coin"], pc |-> PriceAfter["pc"]]
          IN  outbox' = <<quote>> /\ shown' = <<quote>>
  /\ UNCHANGED <<was, announced>>

(* ... a curve or a whirlpool: the graduation the first time the curve is  *)
(* seen complete, a quote as long as it is not and there is a price.       *)
(* Faulty variant: a completed curve is still priced.                      *)
AlwaysPriced(note) == TRUE
Priced(note) == ~note.done
HandleSingle(note) ==
  /\ was' = IF note.done THEN was \union {note.acct} ELSE was \ {note.acct}
  /\ IF note.done /\ note.acct \notin was
     THEN /\ outbox' = <<[to |-> "grads", pool |-> note.acct]>>
          /\ announced' = announced \union {note.acct}
     ELSE /\ \/ outbox' = <<>>
             \/ Priced(note) /\ outbox' = <<[to |-> "quotes", pool |-> note.acct]>>
          /\ UNCHANGED announced
  /\ UNCHANGED <<vault, shown>>

Handle ==
  /\ run = "open"
  /\ outbox = <<>>
  /\ wire # <<>>
  /\ wire' = Tail(wire)
  /\ LET note == Head(wire)
     IN  \/ ~note.readable /\ UNCHANGED picture
         \/ note.readable /\ note.acct \in Vaults /\ HandleVault(note)
         \/ note.readable /\ note.acct \notin Vaults /\ HandleSingle(note)
  /\ UNCHANGED <<chainVars, sessionVars, consumers, lost>>

(* Faulty variant: a channel without a limit.                              *)
NoLimit(channel, cap) == TRUE
RoomIn(channel, cap) == Len(channel) < cap

(* send().await: the session reads nothing while a channel is full.        *)
SendQuote ==
  /\ outbox # <<>>
  /\ Head(outbox).to = "quotes"
  /\ RoomIn(quotes, QuoteCap)
  /\ quotes' = Append(quotes, Head(outbox))
  /\ outbox' = <<>>
  /\ UNCHANGED <<chainVars, sessionVars, wire, vault, was, shown, announced,
                 grads, sniping, lost>>

SendGraduation ==
  /\ outbox # <<>>
  /\ Head(outbox).to = "grads"
  /\ RoomIn(grads, GradCap)
  /\ grads' = Append(grads, Head(outbox))
  /\ outbox' = <<>>
  /\ UNCHANGED <<chainVars, sessionVars, wire, vault, was, shown, announced,
                 quotes, sniping, lost>>

TakeQuote ==
  /\ quotes # <<>>
  /\ quotes' = Tail(quotes)
  /\ UNCHANGED <<chainVars, sessionVars, wire, picture, grads, sniping, lost>>

(* The graduation handler spawns a sniper for every event.                 *)
(* Faulty variant: it takes the event and spawns none.                     *)
Discard ==
  /\ grads # <<>>
  /\ grads' = Tail(grads)
  /\ UNCHANGED <<chainVars, sessionVars, wire, picture, quotes, sniping, lost>>
Launch ==
  /\ grads # <<>>
  /\ grads' = Tail(grads)
  /\ sniping' = sniping \union {Head(grads).pool}
  /\ UNCHANGED <<chainVars, sessionVars, wire, picture, quotes, lost>>

(* The last sniper of a curve has used up its sixty seconds.               *)
SniperEnds(c) ==
  /\ c \in sniping
  /\ sniping' = sniping \ {c}
  /\ UNCHANGED <<chainVars, sessionVars, wire, picture, quotes, grads, lost>>

Next ==
  \/ RaydiumTrade
  \/ \E p \in Singles : SingleChanges(p)
  \/ Discover
  \/ SleepOver
  \/ Connect
  \/ \E a \in AccountsOf(watched) : Subscribe(a)
  \/ SessionFails
  \/ SessionCloses
  \/ Handle
  \/ SendQuote
  \/ SendGraduation
  \/ TakeQuote
  \/ Launch
  \/ \E c \in Curves : SniperEnds(c)

(* The monitor's task, the main loop and the handler are scheduled; the    *)
(* chain, the node and DexScreener owe nothing, and snipers may hang.      *)
Fairness ==
  /\ WF_vars(Handle)
  /\ WF_vars(SendQuote \/ SendGraduation)
  /\ WF_vars(TakeQuote)
  /\ WF_vars(Launch)

Spec == Init /\ [][Next]_vars /\ Fairness

-----------------------------------------------------------------------------
TypeOK ==
  /\ trades \in 0..MaxTrades
  /\ complete \subseteq Curves
  /\ run \in {"discovering", "connecting", "waiting", "open"}
  /\ watched \subseteq Singles \union {"raydium"}
  /\ subscribed \subseteq AccountsOf(watched)
  /\ wire \in Seq(VaultNote \union SingleNote) /\ Len(wire) <= MaxWire
  /\ vault \in [Vaults -> {Unknown} \union Nat]
  /\ was \subseteq Curves
  /\ outbox \in Seq(RaydiumQuote \union SingleQuote \union Graduation) /\ Len(outbox) <= 1
  /\ quotes \in Seq(RaydiumQuote \union SingleQuote) /\ Len(quotes) <= QuoteCap
  /\ grads \in Seq(Graduation) /\ Len(grads) <= GradCap
  /\ sniping \subseteq Curves
  /\ lost \subseteq Singles \union Vaults
  /\ shown \in Seq(RaydiumQuote) /\ Len(shown) <= 1
  /\ announced \subseteq Curves

(* A run sends the graduation of a curve once, through any number of       *)
(* reconnects and repeated notifications, and no price of the curve        *)
(* afterwards: the sniper is not started again by a reconnect              *)
(* (pool_monitor.rs:97-103, 352-367).                                      *)
GraduatesOncePerRun ==
  [][outbox' # outbox /\ outbox' # <<>> => outbox'[1].pool \notin announced]_vars

(* A Raydium price mixes two notifications, and sessions leave half of the *)
(* picture behind; still, once nothing is under way and no change was lost *)
(* since, the picture is that of one chain state, and so is the last       *)
(* quote, unless the coin vault is empty: then there is no new quote and   *)
(* the last may be of an earlier state, or of two                          *)
(* (pool_monitor.rs:326-342, 381-388; pool_decoder.rs:36-38).              *)
SettledQuoteIsConsistent ==
  /\ wire = <<>>
  /\ \A v \in Vaults : vault[v] # Unknown /\ v \notin lost
  => /\ \A v \in Vaults : vault[v] = trades
     /\ trades \notin EmptyAt =>
          shown # <<>> /\ shown[1].coin = trades /\ shown[1].pc = trades

(* A graduation that reaches an open session gets its sniper, although the *)
(* notification may be stuck behind quotes no channel has room for         *)
(* (pool_monitor.rs:364; main.rs:281-395).                                 *)
Queued(c) ==
  \/ \E i \in DOMAIN grads : grads[i].pool = c
  \/ \E i \in DOMAIN outbox : outbox[i] = [to |-> "grads", pool |-> c]
Notified(c) ==
  /\ run = "open" /\ c \notin was
  /\ \E i \in DOMAIN wire : wire[i].acct = c /\ wire[i].done /\ wire[i].readable
GraduationSniped ==
  \A c \in Curves :
    /\ Queued(c) ~> c \in sniping
    /\ Notified(c) ~> (Queued(c) \/ run # "open")
=============================================================================

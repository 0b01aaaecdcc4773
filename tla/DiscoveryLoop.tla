--------------------------- MODULE DiscoveryLoop ---------------------------
(***************************************************************************)
(* The discovery loop and the periodic scanner of arb-cli/src/main.rs with *)
(* the token sources of arb-feed/src/discovery.rs.  The loop asks          *)
(* DexScreener for recently profiled tokens, has them checked, asks for    *)
(* boosted ones, and puts every token with two pools on a capped list the  *)
(* periodic scanner works through.  The set of known tokens belongs to the *)
(* loop; the list and the pool registry are shared under locks.  Triggered *)
(* scans and snipers add entries to the registry too and take none away    *)
(* (RegistrationServes of PoolRegistry); they are left out here.           *)
(*                                                                         *)
(* DexScreener, the RPC node and RugCheck are external: any of them may    *)
(* fail on any call.  The chain is what Authorities says.                  *)
(***************************************************************************)
EXTENDS Naturals, SequencesExt

CONSTANTS
  Tokens,       \* tokens DexScreener may name
  Watched,      \* tokens the user named (--watch), in order
  Authorities,  \* tokens with a mint or a freeze authority
  ListCap,      \* tokens kept on the list (50)
  BatchCap      \* tokens looked at per answer (10 profiles, 15 boosts)

ASSUME DiscoveryAssumption ==
  /\ Watched \in Seq(Tokens)
  /\ Authorities \subseteq Tokens
  /\ ListCap \in Nat /\ BatchCap \in 1..ListCap

VARIABLES
  known,       \* tokens the loop does not look at again
  source,      \* the source the loop is at: "profiles" or "boosts"
  at,          \* what the loop awaits: "answer", "checks", "pools", "lock", "scan"
  candidates,  \* profiled tokens still to be checked
  batch,       \* tokens still to be given pools, a place on the list, a scan
  discovered,  \* discovered_tokens, the shared list
  registered,  \* tokens with an entry in the pool registry
  cycle,       \* the periodic scanner's copy of the list, from the token it scans
  hung,        \* does that scan wait for an answer that never comes?
  grounds,     \* per token: what first admitted it (history)
  listings     \* per token: how often it was put on the list (history)

loopVars == <<known, source, at, candidates, batch>>
scannerVars == <<cycle, hung>>
history == <<grounds, listings>>
vars == <<loopVars, discovered, registered, scannerVars, history>>

Grounds == {"mint account", "RugCheck report", "no answer", "boost"}
Nothing == "not admitted"
PoolCounts == 0..2  \* two stands for two or more
Named(list) == ToSet(list)

-----------------------------------------------------------------------------
Init ==
  /\ known = Named(Watched)
  /\ source = "profiles"
  /\ at = "answer"
  /\ candidates = <<>>
  /\ batch = <<>>
  /\ discovered = Watched
  /\ registered = {}
  /\ cycle = <<>>
  /\ hung = FALSE
  /\ grounds = [t \in Tokens |-> Nothing]
  /\ listings = [t \in Tokens |-> 0]

(* A token DexScreener names is looked at if it is not known.              *)
(* Faulty variant: if it is not on the list.                               *)
NotListed(t) == t \notin Named(discovered)
New(t) == t \notin known

(* What is left of an answer: new tokens, one of them more than once       *)
(* perhaps; none when DexScreener fails.                                   *)
(* Faulty variant: the rest of a long answer is not cut off.               *)
NewTokens == {t \in Tokens : New(t)}
LongAnswers == BoundedSeq(NewTokens, BatchCap + 1)
Answers == BoundedSeq(NewTokens, BatchCap)

AskProfiles ==
  /\ source = "profiles" /\ at = "answer"
  /\ candidates' \in Answers
  /\ at' = "checks"
  /\ UNCHANGED <<known, source, batch, discovered, registered, scannerVars, history>>

(* The verdict on a token: the mint account, if the RPC node returns it,   *)
(* must have no authority; then the RugCheck report, if there is one, must *)
(* be good.  A check that does not answer passes.                          *)
(* Faulty variant: the report decides whenever there is one.               *)
ReportDecides(t, mintRead, report) ==
  IF report = "none" THEN mintRead => t \notin Authorities ELSE report = "good"
Safe(t, mintRead, report) ==
  /\ mintRead => t \notin Authorities
  /\ report \in {"good", "none"}

Ground(mintRead, report) ==
  IF mintRead THEN "mint account"
  ELSE IF report = "good" THEN "RugCheck report" ELSE "no answer"
GroundsWith(admitted, ground) ==
  [t \in Tokens |-> IF t \in admitted /\ grounds[t] = Nothing THEN ground ELSE grounds[t]]

(* A candidate without pairs, with too much liquidity or found unsafe is   *)
(* dropped without becoming known, so a later cycle looks at it again.     *)
Admit(t, mintRead, report) ==
  /\ Safe(t, mintRead, report)
  /\ batch' = Append(batch, t)
  /\ grounds' = GroundsWith({t}, Ground(mintRead, report))
Drop == UNCHANGED <<batch, grounds>>

Check ==
  /\ at = "checks"
  /\ candidates # <<>>
  /\ \/ \E mintRead \in BOOLEAN, report \in {"good", "bad", "none"} :
          Admit(Head(candidates), mintRead, report)
     \/ Drop
  /\ candidates' = Tail(candidates)
  /\ UNCHANGED <<known, source, at, discovered, registered, scannerVars, listings>>

Checked ==
  /\ at = "checks"
  /\ candidates = <<>>
  /\ at' = "pools"
  /\ UNCHANGED <<known, source, candidates, batch, discovered, registered, scannerVars, history>>

(* discover_trending_multi_pool: boosted tokens with pools on two DEXes    *)
(* are taken as they are.                                                  *)
AskBoosts ==
  /\ source = "boosts" /\ at = "answer"
  /\ batch' \in Answers
  /\ at' = "pools"
  /\ grounds' = GroundsWith(Named(batch'), "boost")
  /\ UNCHANGED <<known, source, candidates, discovered, registered, scannerVars, listings>>

-----------------------------------------------------------------------------
(* register_pools: some pools make or replace the entry, none do not.      *)
(* Faulty variant: no pools remove the entry.                              *)
RegisterAny(t, pools) ==
  registered' = IF pools > 0 THEN registered \union {t} ELSE registered \ {t}
RegisterPools(t, pools) ==
  registered' = IF pools > 0 THEN registered \union {t} ELSE registered

(* The token becomes known, then its pools are discovered and registered.  *)
(* A token with fewer than two, or whose discovery fails, is passed over.  *)
FindPools ==
  LET t == Head(batch)
  IN  /\ at = "pools"
      /\ batch # <<>>
      /\ known' = known \union {t}
      /\ \E pools \in PoolCounts :
           /\ RegisterPools(t, pools)
           /\ at' = IF pools < 2 THEN "pools" ELSE "lock"
           /\ batch' = IF pools < 2 THEN Tail(batch) ELSE batch
      /\ UNCHANGED <<source, candidates, discovered, scannerVars, history>>

(* Faulty variant: the list is not searched for the token first.           *)
AlwaysPush(t) == TRUE
Absent(t) == t \notin Named(discovered)

(* Under the write lock: at the end of the list, the oldest leaves it.     *)
PutOnList ==
  LET t == Head(batch)
      longer == Append(discovered, t)
  IN  /\ at = "lock"
      /\ IF Absent(t)
         THEN /\ discovered' = IF Len(longer) > ListCap THEN Tail(longer) ELSE longer
              /\ listings' = [listings EXCEPT ![t] = @ + 1]
         ELSE UNCHANGED <<discovered, listings>>
      /\ at' = "scan"
      /\ UNCHANGED <<known, source, candidates, batch, registered, scannerVars, grounds>>

(* The first scan of the token returns; its result is logged and stored.   *)
FirstScanReturns ==
  /\ at = "scan"
  /\ batch' = Tail(batch)
  /\ at' = "pools"
  /\ UNCHANGED <<known, source, candidates, discovered, registered, scannerVars, history>>

(* From one source to the other, or to the next cycle after three minutes. *)
NextSource ==
  /\ at = "pools"
  /\ batch = <<>>
  /\ source' = IF source = "profiles" THEN "boosts" ELSE "profiles"
  /\ at' = "answer"
  /\ UNCHANGED <<known, candidates, batch, discovered, registered, scannerVars, history>>

-----------------------------------------------------------------------------
(* The periodic scanner copies the list and scans the copy.                *)
(* Faulty variant: only the token that has been on the list longest.       *)
CopyFirst == cycle' = <<Head(discovered)>>
CopyList == cycle' = discovered

StartCycle ==
  /\ cycle = <<>>
  /\ discovered # <<>>
  /\ CopyList
  /\ UNCHANGED <<loopVars, discovered, registered, hung, history>>

(* scan_token returns: a token without an entry has been discovered on the *)
(* way, if DexScreener answered.                                           *)
ScanReturns ==
  LET t == Head(cycle)
  IN  /\ cycle # <<>>
      /\ ~hung
      /\ IF t \in registered
         THEN UNCHANGED registered
         ELSE \E pools \in PoolCounts : RegisterPools(t, pools)
      /\ cycle' = Tail(cycle)
      /\ UNCHANGED <<loopVars, discovered, hung, history>>

(* The calls of a scan have no timeout.                                    *)
ScanHangs ==
  /\ cycle # <<>>
  /\ hung' = TRUE
  /\ UNCHANGED <<loopVars, discovered, registered, cycle, history>>

Next ==
  \/ AskProfiles
  \/ Check
  \/ Checked
  \/ AskBoosts
  \/ FindPools
  \/ PutOnList
  \/ FirstScanReturns
  \/ NextSource
  \/ StartCycle
  \/ ScanReturns
  \/ ScanHangs

(* The scanner wakes from its sleep, and its calls return unless they hang.*)
Spec == Init /\ [][Next]_vars /\ WF_vars(StartCycle) /\ WF_vars(ScanReturns)

-----------------------------------------------------------------------------
(* The list grows to its cap, or stays as long as the user made it.        *)
ListLimit == IF Len(Watched) > ListCap THEN Len(Watched) ELSE ListCap

TypeOK ==
  /\ known \subseteq Tokens
  /\ source \in {"profiles", "boosts"}
  /\ at \in {"answer", "checks", "pools", "lock", "scan"}
  /\ candidates \in Seq(Tokens) /\ Len(candidates) <= BatchCap
  /\ batch \in Seq(Tokens) /\ Len(batch) <= BatchCap
  /\ discovered \in Seq(Tokens) /\ Len(discovered) <= ListLimit
  /\ registered \subseteq Tokens
  /\ cycle \in Seq(Tokens) /\ Len(cycle) <= ListLimit
  /\ hung \in BOOLEAN
  /\ grounds \in [Tokens -> Grounds \union {Nothing}]
  /\ listings \in [Tokens -> Nat]

(* No token is put on the list twice: neither one that DexScreener names   *)
(* twice nor one that the cap has pushed off (discovery.rs:53;             *)
(* main.rs:538-545).                                                       *)
ListedOnce ==
  \A t \in Tokens : listings[t] <= IF t \in Named(Watched) THEN 0 ELSE 1

(* A token on the list that the user did not name was admitted, and never  *)
(* on a mint account that shows an authority, whatever RugCheck says of it *)
(* (discovery.rs:92-130, main.rs:500-502).                                 *)
AuthoritiesKeptOut ==
  \A t \in Named(discovered) \ Named(Watched) :
    /\ grounds[t] # Nothing
    /\ t \in Authorities => grounds[t] # "mint account"

(* Pools are registered before their token is listed and never taken away, *)
(* so the periodic scanner need not discover a token of the loop again     *)
(* (main.rs:513, 538; local_scanner.rs:506, 517-521).                      *)
ListedHasPools ==
  Named(discovered) \ Named(Watched) \subseteq registered

(* A token on the list is scanned, unless newer tokens push it off first   *)
(* or the scanner waits for an answer that never comes (main.rs:413-475).  *)
ListedIsScanned ==
  \A t \in Tokens :
    t \in Named(discovered) ~>
      \/ t \notin Named(discovered)
      \/ cycle # <<>> /\ Head(cycle) = t
      \/ hung

(* "On-chain safety validation: freeze authority and mint authority        *)
(* checks", "fallback to RugCheck-only when RPC rate limits hit",          *)
(* "discovered tokens feed the periodic scan cycle" (README.md:122-125): a *)
(* token discovery puts on the list has passed one of the two checks.      *)
ListedIsValidated ==
  \A t \in Named(discovered) \ Named(Watched) :
    grounds[t] \in {"mint account", "RugCheck report"}
=============================================================================

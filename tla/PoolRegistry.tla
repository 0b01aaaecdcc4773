---------------------------- MODULE PoolRegistry ----------------------------
(***************************************************************************)
(* The pool registry of arb-sim/src/local_scanner.rs: the pools known for  *)
(* a token, shared by the triggered scans, the periodic scanner, the       *)
(* graduation sniper and the discovery loop.  Entries of different tokens  *)
(* are independent, so one entry is modelled.  The lock is held for a      *)
(* lookup or an insert only: DexScreener and RPC calls run in between.     *)
(*                                                                         *)
(* DexScreener and the RPC node are external: they may answer anything in  *)
(* Listings, return any part of the accounts asked for, or fail.           *)
(***************************************************************************)
EXTENDS Integers, Sequences, FiniteSets, Functions

CONSTANTS
  Callers,    \* tasks that scan or discover the token
  Addresses,  \* pool addresses
  Layout,     \* per address, what its account is: "v4", "clmm" or "other"
  Listings    \* answers of DexScreener: sequences of [addr, dex, liquid]

Supported == {"Raydium", "RaydiumClmm", "PumpSwap", "PumpFun", "Orca"}
Unsupported == {"Jupiter", "Meteora", "Unknown"}

ASSUME RegistryAssumption ==
  /\ Layout \in [Addresses -> {"v4", "clmm", "other"}]
  /\ Listings \subseteq Seq([addr : Addresses,
                             dex : (Supported \union Unsupported) \ {"RaydiumClmm"},
                             liquid : BOOLEAN])

VARIABLES
  entry,    \* the registry's list for the token; no pools: no entry
  step,     \* per caller: where it is suspended
  purpose,  \* per caller: "scan", "snipe", "discover" or "rescan"
  list      \* per caller: the list it works on, then the one it returned

vars == <<entry, step, purpose, list>>

(* A list of pools: each pool at the position it has in the listing it     *)
(* comes from, so that the positions of those removed are left free.  all  *)
(* and missed are history: what the discovery found before the list was    *)
(* reduced to one pool per DEX, and the DEXes whose accounts could not be  *)
(* fetched.                                                                *)
Pool == [addr : Addresses, dex : Supported, vaults : BOOLEAN]
Positions == UNION {DOMAIN listing : listing \in Listings}
Pools == UNION {[I -> Pool] : I \in SUBSET Positions}
List == [pools : Pools, all : Pools, missed : SUBSET Supported]
NoList == [pools |-> <<>>, all |-> <<>>, missed |-> {}]
None(pools) == DOMAIN pools = {}

(* dedup_by_dex: the first pool of each DEX.                               *)
FirstPerDex(pools) ==
  Restrict(pools, {i \in DOMAIN pools :
                     \A j \in DOMAIN pools : j < i => pools[j].dex # pools[i].dex})
Dedup(l) == [l EXCEPT !.pools = FirstPerDex(@)]
(* Faulty variant: what the cache holds is returned as it is.              *)
AsCached(l) == l
OfCached(l) == Dedup(l)

(* Faulty variant: the DEX of a listed pair is not looked at.              *)
AnyDex(pair) == pair.liquid
Quotable(pair) == pair.dex \in Supported /\ pair.liquid
Listed(pair) == [addr |-> pair.addr, dex |-> pair.dex, vaults |-> FALSE]
PoolsOf(listing) ==
  [i \in {j \in DOMAIN listing : Quotable(listing[j])} |-> Listed(listing[i])]

-----------------------------------------------------------------------------
Init ==
  /\ entry = NoList
  /\ step = [c \in Callers |-> "idle"]
  /\ purpose = [c \in Callers |-> "scan"]
  /\ list = [c \in Callers |-> NoList]

(* scan_triggered and scan_token look the token up first; the sniper and   *)
(* the discovery loop call discover_pools_for_token first.                 *)
Begin(c) ==
  /\ step[c] = "idle"
  /\ list' = [list EXCEPT ![c] = NoList]
  /\ \E p \in {"scan", "snipe", "discover"} :
       /\ purpose' = [purpose EXCEPT ![c] = p]
       /\ step' = [step EXCEPT ![c] = IF p = "scan" THEN "lookup" ELSE "query"]
  /\ UNCHANGED entry

(* get_or_discover_pools under the read lock.                              *)
Lookup(c) ==
  /\ step[c] = "lookup"
  /\ IF ~None(entry.pools)
     THEN /\ list' = [list EXCEPT ![c] = OfCached(entry)]
          /\ step' = [step EXCEPT ![c] = "idle"]
     ELSE /\ step' = [step EXCEPT ![c] = "query"]
          /\ UNCHANGED list
  /\ UNCHANGED <<entry, purpose>>

(* DexScreener fails: a scan returns the error and the discovery loop goes *)
(* on to another token, but the sniper scans all the same.                 *)
QueryFails(c) ==
  /\ step[c] = "query"
  /\ IF purpose[c] = "snipe"
     THEN /\ step' = [step EXCEPT ![c] = "lookup"]
          /\ purpose' = [purpose EXCEPT ![c] = "scan"]
     ELSE /\ step' = [step EXCEPT ![c] = "idle"]
          /\ UNCHANGED purpose
  /\ UNCHANGED <<entry, list>>

QueryAnswers(c) ==
  /\ step[c] = "query"
  /\ \E listing \in Listings :
       list' = [list EXCEPT ![c] = [NoList EXCEPT !.pools = PoolsOf(listing)]]
  /\ step' = [step EXCEPT ![c] = "raydium"]
  /\ UNCHANGED <<entry, purpose>>

(* The vaults of the pools of a DEX are read from the accounts fetched;    *)
(* an address missing from got was not returned or does not decode.        *)
WithVaults(p, got) ==
  CASE p.addr \notin got -> p
    [] p.dex = "PumpSwap" -> [p EXCEPT !.vaults = TRUE]
    [] p.dex = "Raydium" /\ Layout[p.addr] = "v4" -> [p EXCEPT !.vaults = TRUE]
    [] p.dex = "Raydium" /\ Layout[p.addr] = "clmm" ->
         [p EXCEPT !.dex = "RaydiumClmm", !.vaults = TRUE]
    [] OTHER -> p

(* Faulty variant: a pool whose vaults are unknown is kept.                *)
KeepAll(p, dexes) == TRUE
Retained(p, dexes) == p.dex \in dexes => p.vaults

(* resolve_raydium_vaults and resolve_pumpswap_vaults: there is nothing to *)
(* resolve, or the RPC call fails and the list stays as it is, or what     *)
(* could not be resolved is removed.                                       *)
Resolve(c, dexes) ==
  LET pools == list[c].pools
      open  == {i \in DOMAIN pools : pools[i].dex \in dexes /\ ~pools[i].vaults}
  IN  IF open = {}
      THEN UNCHANGED list
      ELSE \/ list' = [list EXCEPT ![c].missed = @ \union dexes]
           \/ \E got \in SUBSET {pools[i].addr : i \in open} :
                LET resolved == [i \in DOMAIN pools |-> WithVaults(pools[i], got)]
                    keep(p) == Retained(p, dexes)
                IN  list' = [list EXCEPT ![c].pools = RestrictValues(resolved, keep)]

ResolveRaydium(c) ==
  /\ step[c] = "raydium"
  /\ Resolve(c, {"Raydium", "RaydiumClmm"})
  /\ step' = [step EXCEPT ![c] = "pumpswap"]
  /\ UNCHANGED <<entry, purpose>>

ResolvePumpSwap(c) ==
  /\ step[c] = "pumpswap"
  /\ Resolve(c, {"PumpSwap"})
  /\ step' = [step EXCEPT ![c] = "save"]
  /\ UNCHANGED <<entry, purpose>>

(* The insert under the write lock: whatever another caller stored since   *)
(* the lookup is overwritten, but never by an empty list.                  *)
(* Faulty variant: an empty list is inserted too.                          *)
InsertAny(l) == entry' = l
Insert(l) == entry' = IF None(l.pools) THEN entry ELSE l

(* What discover_pools_for_token returned to the caller.                  *)
Discovered(c) == [list[c] EXCEPT !.all = list[c].pools]

(* The end of get_or_discover_pools on a miss: one pool per DEX is cached  *)
(* and returned.                                                           *)
SaveScanned(c) ==
  /\ step[c] = "save"
  /\ purpose[c] \in {"scan", "rescan"}
  /\ Insert(Dedup(Discovered(c)))
  /\ list' = [list EXCEPT ![c] = Dedup(Discovered(c))]
  /\ step' = [step EXCEPT ![c] = "idle"]
  /\ UNCHANGED purpose

(* register_pools of the sniper and the discovery loop, with all pools;    *)
(* then they scan the token, the loop only if there are two pools.         *)
Register(c) ==
  LET pools == list[c].pools
      scans == purpose[c] = "snipe" \/ Cardinality(DOMAIN pools) >= 2
  IN  /\ step[c] = "save"
      /\ purpose[c] \in {"snipe", "discover"}
      /\ Insert(Discovered(c))
      /\ purpose' = [purpose EXCEPT ![c] = IF None(pools) THEN "scan" ELSE "rescan"]
      /\ step' = [step EXCEPT ![c] = IF scans THEN "lookup" ELSE "idle"]
      /\ list' = [list EXCEPT ![c] = NoList]

Next ==
  \E c \in Callers :
    \/ Begin(c)
    \/ Lookup(c)
    \/ QueryFails(c)
    \/ QueryAnswers(c)
    \/ ResolveRaydium(c)
    \/ ResolvePumpSwap(c)
    \/ SaveScanned(c)
    \/ Register(c)

Spec == Init /\ [][Next]_vars

-----------------------------------------------------------------------------
TypeOK ==
  /\ entry \in List
  /\ step \in [Callers -> {"idle", "lookup", "query", "raydium", "pumpswap", "save"}]
  /\ purpose \in [Callers -> {"scan", "snipe", "discover", "rescan"}]
  /\ list \in [Callers -> List]

(* "Keep at most 1 pool per DEX ... the first per DEX is the best"         *)
(* (local_scanner.rs:490-491): whichever way a scan got its list (from a   *)
(* registered list of any length, from one another scan reduced before, or *)
(* from its own discovery) it has one pool of every DEX found by the       *)
(* discovery the list comes from, none listed before it, and no other.     *)
Returned(c) == step[c] = "idle" /\ ~None(list[c].pools)
OfDiscovery(l) == \A i \in DOMAIN l.pools : i \in DOMAIN l.all /\ l.pools[i] = l.all[i]
BestOfEveryDex(l) ==
  \A i \in DOMAIN l.all : \E j \in DOMAIN l.pools : j <= i /\ l.pools[j].dex = l.all[i].dex
OnePerDex(l) == \A i, j \in DOMAIN l.pools : l.pools[i].dex = l.pools[j].dex => i = j
ScansBestPerDex ==
  \A c \in Callers :
    Returned(c) => OfDiscovery(list[c]) /\ BestOfEveryDex(list[c]) /\ OnePerDex(list[c])

(* A pool without vaults, which no scan can quote, gets into the registry  *)
(* or a scan only from a discovery whose account fetch for its DEX failed: *)
(* missing accounts and unknown layouts never leave one behind, and a CLMM *)
(* pool always has its vaults (local_scanner.rs:629-680, 734).             *)
Excused(l) ==
  \A i \in DOMAIN l.pools :
    ~l.pools[i].vaults =>
      \/ l.pools[i].dex \in {"PumpFun", "Orca"}
      \/ l.pools[i].dex \in {"Raydium", "PumpSwap"} \intersect l.missed
UnresolvedOnlyIfMissed ==
  /\ Excused(entry)
  /\ \A c \in Callers : Returned(c) => Excused(list[c])

(* A caller that has registered pools is served by the registry when it    *)
(* scans: no discovery of another caller that overlaps with it, however    *)
(* old or empty its answer, takes the entry away (local_scanner.rs:506,    *)
(* 529; main.rs:316-321, 513-549).                                         *)
RegistrationServes ==
  \A c \in Callers : purpose[c] = "rescan" => ~None(entry.pools) /\ step[c] # "query"
=============================================================================

------------------------- MODULE PoolRegistryProofs -------------------------
(***************************************************************************)
(* Machine-checked proofs about PoolRegistry, for any callers, addresses   *)
(* and answers of DexScreener: a scan gets the best pool of every DEX of   *)
(* one discovery, an unresolved pool has its excuse, and whoever has       *)
(* registered pools is served by the registry.                             *)
(***************************************************************************)
EXTENDS PoolRegistry, WellFoundedInduction, TLAPS

(* Every set of positions has a first one.                                 *)
LEMMA Least ==
  ASSUME NEW T, T \subseteq Nat, T # {}
  PROVE  \E x \in T : \A y \in T : x <= y
<1> DEFINE R == {p \in Nat \X Nat : p[1] < p[2]}
<1>1. IsWellFoundedOn(R, Nat)
  BY NatLessThanWellFounded DEF OpToRel
<1>2. \E x \in T : \A y \in T : ~(<<y, x>> \in R)
  <2> HIDE DEF R
  <2> QED
    BY <1>1, WFMin
<1>3. PICK x \in T : \A y \in T : ~(<<y, x>> \in R)
  BY <1>2
<1>4. ASSUME NEW y \in T PROVE x <= y
  <2>1. ~(<<y, x>> \in R) /\ x \in Nat /\ y \in Nat
    BY <1>3
  <2>2. y < x => <<y, x>> \in R
    BY <2>1
  <2> QED
    BY <2>1, <2>2
<1> QED
  BY <1>4

-----------------------------------------------------------------------------
(* Lists of pools.                                                         *)
LEMMA PositionsNat == Positions \subseteq Nat \ {0}
BY RegistryAssumption DEF Positions

(* Lists of pools are functions on positions.                              *)
LEMMA PoolsFacts ==
  ASSUME NEW pools
  PROVE  pools \in Pools <=>
           /\ DOMAIN pools \subseteq Positions
           /\ pools \in [DOMAIN pools -> Pool]
BY DEF Pools

(* The empty list is a list.                                               *)
LEMMA NoListOK == NoList \in List /\ None(NoList.pools) /\ None(NoList.all)
<1>1. <<>> \in [{} -> Pool]
  OBVIOUS
<1>2. <<>> \in Pools
  BY <1>1 DEF Pools
<1> QED
  BY <1>2 DEF NoList, List, None

(* dedup_by_dex returns some of the pools, ...                             *)
LEMMA FirstPerDexOK ==
  ASSUME NEW pools \in Pools
  PROVE  /\ FirstPerDex(pools) \in Pools
         /\ \A i \in DOMAIN FirstPerDex(pools) :
              i \in DOMAIN pools /\ FirstPerDex(pools)[i] = pools[i]
<1> DEFINE first == {i \in DOMAIN pools :
                       \A j \in DOMAIN pools : j < i => pools[j].dex # pools[i].dex}
<1>1. FirstPerDex(pools) = [i \in first |-> pools[i]]
  BY DEF FirstPerDex, Restrict
<1>2. first \subseteq DOMAIN pools
  OBVIOUS
<1> HIDE DEF first
<1>3. FirstPerDex(pools) \in [first -> Pool] /\ first \subseteq Positions
  BY <1>1, <1>2, PoolsFacts
<1> QED
  BY <1>1, <1>2, <1>3 DEF Pools

(* ... one of every DEX, and no pool of the same DEX precedes it.          *)
LEMMA FirstPerDexBest ==
  ASSUME NEW pools \in Pools
  PROVE  /\ \A i, j \in DOMAIN FirstPerDex(pools) :
              FirstPerDex(pools)[i].dex = FirstPerDex(pools)[j].dex => i = j
         /\ \A i \in DOMAIN pools : \E j \in DOMAIN FirstPerDex(pools) :
              j <= i /\ FirstPerDex(pools)[j].dex = pools[i].dex
<1> DEFINE first == {i \in DOMAIN pools :
                       \A j \in DOMAIN pools : j < i => pools[j].dex # pools[i].dex}
<1>1. FirstPerDex(pools) = [i \in first |-> pools[i]]
  BY DEF FirstPerDex, Restrict
<1>2. DOMAIN pools \subseteq Nat
  BY PoolsFacts, PositionsNat
<1>3. ASSUME NEW i \in first, NEW j \in first, pools[i].dex = pools[j].dex PROVE i = j
  BY <1>2, <1>3
<1>4. ASSUME NEW i \in DOMAIN pools
      PROVE  \E j \in first : j <= i /\ pools[j].dex = pools[i].dex
  <2> DEFINE T == {j \in DOMAIN pools : pools[j].dex = pools[i].dex}
  <2>1. T \subseteq Nat /\ T # {} /\ i \in T
    BY <1>2
  <2>2. PICK j \in T : \A k \in T : j <= k
    <3> HIDE DEF T
    <3> QED
      BY <2>1, Least
  <2>3. j \in first
    <3>1. ASSUME NEW k \in DOMAIN pools, k < j PROVE pools[k].dex # pools[j].dex
      BY <1>2, <2>2, <3>1
    <3> QED
      BY <3>1
  <2> QED
    BY <2>1, <2>2, <2>3
<1> HIDE DEF first
<1> QED
  BY <1>1, <1>3, <1>4

(* A list of some of the pools of a discovery, with the best of each DEX:  *)
(* reduced, it is what a scan should get.                                  *)
Representative(l) == OfDiscovery(l) /\ BestOfEveryDex(l)

(* Reduced, a list is a list.                                              *)
LEMMA DedupOK ==
  ASSUME NEW l \in List
  PROVE  /\ Dedup(l) \in List
         /\ Dedup(l).pools = FirstPerDex(l.pools)
         /\ Dedup(l).all = l.all /\ Dedup(l).missed = l.missed
<1>1. l.pools \in Pools
  BY DEF List
<1>2. FirstPerDex(l.pools) \in Pools
  BY <1>1, FirstPerDexOK
<1> QED
  BY <1>2 DEF Dedup, List

(* Reduced, it has one pool of every DEX, the first.                       *)
LEMMA DedupRepresents ==
  ASSUME NEW l \in List, Representative(l)
  PROVE  Representative(Dedup(l)) /\ OnePerDex(Dedup(l))
<1>1. l.pools \in Pools /\ l.all \in Pools
  BY DEF List
<1>2. DOMAIN l.pools \subseteq Nat /\ DOMAIN l.all \subseteq Nat
  BY <1>1, PoolsFacts, PositionsNat
<1>3. DOMAIN FirstPerDex(l.pools) \subseteq DOMAIN l.pools
  BY <1>1, FirstPerDexOK
<1>4. OfDiscovery(Dedup(l))
  BY <1>1, DedupOK, FirstPerDexOK DEF Representative, OfDiscovery
<1>5. OnePerDex(Dedup(l))
  BY <1>1, DedupOK, FirstPerDexBest DEF OnePerDex
<1>6. BestOfEveryDex(Dedup(l))
  <2> SUFFICES ASSUME NEW i \in DOMAIN l.all
               PROVE  \E j \in DOMAIN FirstPerDex(l.pools) :
                        j <= i /\ FirstPerDex(l.pools)[j].dex = l.all[i].dex
    BY DedupOK DEF BestOfEveryDex
  <2>1. PICK j \in DOMAIN l.pools : j <= i /\ l.pools[j].dex = l.all[i].dex
    BY DEF Representative, BestOfEveryDex
  <2>2. PICK k \in DOMAIN FirstPerDex(l.pools) :
          k <= j /\ FirstPerDex(l.pools)[k].dex = l.pools[j].dex
    BY <1>1, FirstPerDexBest
  <2>3. k <= i
    BY <1>2, <1>3, <2>1, <2>2
  <2> QED
    BY <2>1, <2>2, <2>3
<1> QED
  BY <1>4, <1>5, <1>6 DEF Representative

(* What a discovery returns represents itself.                             *)
LEMMA DiscoveredOK ==
  ASSUME NEW c \in Callers, list[c] \in List
  PROVE  /\ Discovered(c) \in List /\ Representative(Discovered(c))
         /\ Discovered(c).pools = list[c].pools /\ Discovered(c).missed = list[c].missed
<1>1. Discovered(c) \in List /\ Discovered(c).pools = list[c].pools
      /\ Discovered(c).all = list[c].pools /\ Discovered(c).missed = list[c].missed
  BY DEF Discovered, List
<1>2. DOMAIN list[c].pools \subseteq Nat
  BY PoolsFacts, PositionsNat DEF List
<1> QED
  BY <1>1, <1>2 DEF Representative, OfDiscovery, BestOfEveryDex

-----------------------------------------------------------------------------
(* A discovery.  What DexScreener lists has no vaults yet and is no CLMM   *)
(* pool; a CLMM pool is one whose vaults have been read.                   *)
ClmmResolved(l) == \A i \in DOMAIN l.pools : l.pools[i].dex = "RaydiumClmm" => l.pools[i].vaults
SettledFor(l, dex) ==
  \A i \in DOMAIN l.pools : l.pools[i].dex = dex /\ ~l.pools[i].vaults => dex \in l.missed

(* The quotable pairs of a listing make a list without CLMM pools.         *)
LEMMA PoolsOfOK ==
  ASSUME NEW listing \in Listings
  PROVE  /\ PoolsOf(listing) \in Pools
         /\ \A i \in DOMAIN PoolsOf(listing) : PoolsOf(listing)[i].dex # "RaydiumClmm"
<1> DEFINE kept == {j \in DOMAIN listing : Quotable(listing[j])}
           Pair == [addr : Addresses, dex : (Supported \union Unsupported) \ {"RaydiumClmm"},
                    liquid : BOOLEAN]
<1>1. \A j \in DOMAIN listing : listing[j] \in Pair
  <2>1. listing \in Seq(Pair)
    BY RegistryAssumption
  <2> HIDE DEF Pair
  <2> QED
    BY <2>1
<1>2. PoolsOf(listing) = [i \in kept |-> Listed(listing[i])]
  BY DEF PoolsOf
<1>3. kept \subseteq Positions
  BY DEF Positions
<1>4. ASSUME NEW i \in kept
      PROVE  Listed(listing[i]) \in Pool /\ Listed(listing[i]).dex # "RaydiumClmm"
  <2>1. listing[i].addr \in Addresses /\ listing[i].dex # "RaydiumClmm"
    <3>1. listing[i] \in Pair
      <4> HIDE DEF Pair
      <4> QED
        BY <1>1
    <3> QED
      BY <3>1
  <2>2. listing[i].dex \in Supported
    BY DEF Quotable
  <2> QED
    BY <2>1, <2>2 DEF Listed, Pool
<1> HIDE DEF kept
<1>5. PoolsOf(listing) \in [kept -> Pool]
  BY <1>2, <1>4
<1> QED
  BY <1>2, <1>3, <1>4, <1>5 DEF Pools

(* Reading its account resolves a pool or leaves it as it is.              *)
LEMMA WithVaultsOK ==
  ASSUME NEW p \in Pool, NEW got
  PROVE  /\ WithVaults(p, got) \in Pool
         /\ WithVaults(p, got) = p \/ WithVaults(p, got).vaults
<1> DEFINE q == WithVaults(p, got)
<1>1. \/ q = p
      \/ q = [p EXCEPT !.vaults = TRUE]
      \/ q = [p EXCEPT !.dex = "RaydiumClmm", !.vaults = TRUE]
  BY DEF WithVaults
<1> HIDE DEF q
<1>2. q \in Pool /\ (q = p \/ q.vaults)
  BY <1>1 DEF Pool, Supported
<1> QED
  BY <1>2 DEF q

(* After a resolution a pool without vaults was in the list before, and if *)
(* it is of a DEX that was looked at, the call failed.                     *)
LEMMA ResolveOK ==
  ASSUME TypeOK, NEW c \in Callers, NEW dexes \in SUBSET Supported, Resolve(c, dexes),
         ClmmResolved(list[c])
  PROVE  /\ list' \in [Callers -> List] /\ \A d \in Callers \ {c} : list'[d] = list[d]
         /\ ClmmResolved(list'[c])
         /\ list[c].missed \subseteq list'[c].missed
         /\ \A i \in DOMAIN list'[c].pools : ~list'[c].pools[i].vaults =>
              /\ i \in DOMAIN list[c].pools /\ list'[c].pools[i] = list[c].pools[i]
              /\ list'[c].pools[i].dex \in dexes => list'[c].pools[i].dex \in list'[c].missed
<1> DEFINE pools == list[c].pools
           open  == {i \in DOMAIN pools : pools[i].dex \in dexes /\ ~pools[i].vaults}
<1>1. list \in [Callers -> List] /\ list[c] \in List /\ pools \in Pools
      /\ list[c].missed \subseteq Supported
  BY DEF TypeOK, List
<1>2. DOMAIN pools \subseteq Positions /\ \A i \in DOMAIN pools : pools[i] \in Pool
  BY <1>1, PoolsFacts
<1>3. CASE open = {}
  <2>1. list' = list
    BY <1>3 DEF Resolve
  <2> QED
    BY <1>1, <1>3, <2>1
<1>4. CASE list' = [list EXCEPT ![c].missed = @ \union dexes]
  <2>1. list'[c].pools = pools /\ list'[c].missed = list[c].missed \union dexes
    BY <1>1, <1>4 DEF List
  <2>2. list' \in [Callers -> List] /\ \A d \in Callers \ {c} : list'[d] = list[d]
    <3>1. [list[c] EXCEPT !.missed = @ \union dexes] \in List
      BY <1>1 DEF List
    <3> QED
      BY <1>1, <1>4, <3>1
  <2> QED
    BY <2>1, <2>2 DEF ClmmResolved
<1>5. CASE \E got \in SUBSET {pools[i].addr : i \in open} :
             LET resolved == [i \in DOMAIN pools |-> WithVaults(pools[i], got)]
                 keep(p) == Retained(p, dexes)
             IN  list' = [list EXCEPT ![c].pools = RestrictValues(resolved, keep)]
  <2>1. PICK got \in SUBSET {pools[i].addr : i \in open} :
          LET resolved == [i \in DOMAIN pools |-> WithVaults(pools[i], got)]
          IN  list' = [list EXCEPT ![c].pools =
                         [i \in {j \in DOMAIN resolved : Retained(resolved[j], dexes)}
                            |-> resolved[i]]]
    BY <1>5 DEF RestrictValues, Restrict
  <2> DEFINE resolved == [i \in DOMAIN pools |-> WithVaults(pools[i], got)]
             left == {i \in DOMAIN pools : Retained(resolved[i], dexes)}
             rest == [i \in left |-> resolved[i]]
  <2>2. list' = [list EXCEPT ![c].pools = rest]
    BY <2>1
  <2>3. ASSUME NEW i \in left
        PROVE  /\ resolved[i] \in Pool /\ Retained(resolved[i], dexes)
               /\ resolved[i] = pools[i] \/ resolved[i].vaults
    BY <1>2, WithVaultsOK
  <2>4. left \subseteq DOMAIN pools /\ left \subseteq Positions
    BY <1>2
  <2> HIDE DEF resolved, left
  <2>5. rest \in [left -> Pool]
    BY <2>3
  <2>6. DOMAIN rest = left /\ \A i \in left : rest[i] = resolved[i]
    OBVIOUS
  <2> HIDE DEF rest
  <2>7. rest \in Pools
    BY <2>4, <2>5 DEF Pools
  <2>8. list'[c].pools = rest /\ list'[c].missed = list[c].missed
    BY <1>1, <2>2 DEF List
  <2>9. list' \in [Callers -> List] /\ \A d \in Callers \ {c} : list'[d] = list[d]
    <3>1. [list[c] EXCEPT !.pools = rest] \in List
      BY <1>1, <2>7 DEF List
    <3> QED
      BY <1>1, <2>2, <3>1
  <2>10. \A i \in left : ~rest[i].vaults =>
            i \in DOMAIN pools /\ rest[i] = pools[i] /\ rest[i].dex \notin dexes
    BY <2>3, <2>4, <2>6 DEF Retained
  <2>11. \A i \in left : rest[i].dex = "RaydiumClmm" => rest[i].vaults
    BY <2>10 DEF ClmmResolved
  <2>12. ClmmResolved(list'[c])
    BY <2>6, <2>8, <2>11 DEF ClmmResolved
  <2> QED
    BY <2>6, <2>8, <2>9, <2>10, <2>12
<1> QED
  BY <1>3, <1>4, <1>5 DEF Resolve

-----------------------------------------------------------------------------
(* Type correctness: every list is of supported pools at listed positions. *)
LEMMA InitTypeOK == Init => TypeOK
BY NoListOK DEF Init, TypeOK

(* An answer makes a list, and no CLMM pool of it lacks vaults.            *)
LEMMA ClmmQueried ==
  ASSUME TypeOK, NEW c \in Callers, QueryAnswers(c)
  PROVE  /\ list' \in [Callers -> List] /\ \A d \in Callers \ {c} : list'[d] = list[d]
         /\ ClmmResolved(list'[c])
<1>1. PICK listing \in Listings :
        list' = [list EXCEPT ![c] = [NoList EXCEPT !.pools = PoolsOf(listing)]]
  BY DEF QueryAnswers
<1>2. [NoList EXCEPT !.pools = PoolsOf(listing)] \in List
  BY NoListOK, PoolsOfOK DEF List
<1>3. [NoList EXCEPT !.pools = PoolsOf(listing)].pools = PoolsOf(listing)
  BY DEF NoList
<1> QED
  BY <1>1, <1>2, <1>3, PoolsOfOK DEF TypeOK, ClmmResolved

(* The stages of a caller's list, from the empty one to what is returned.  *)
StageInv(c) ==
  /\ step[c] \in {"lookup", "query"} => list[c] = NoList
  /\ step[c] \in {"raydium", "pumpswap", "save"} => ClmmResolved(list[c])
  /\ step[c] \in {"pumpswap", "save"} => SettledFor(list[c], "Raydium")
  /\ step[c] = "save" => SettledFor(list[c], "PumpSwap")
  /\ step[c] = "idle" => Representative(list[c]) /\ OnePerDex(list[c]) /\ Excused(list[c])

(* Whoever has registered pools looks them up or has done so.              *)
RescanInv(c) == purpose[c] = "rescan" => ~None(entry.pools) /\ step[c] \in {"idle", "lookup"}

RegistryInv ==
  /\ TypeOK
  /\ Representative(entry) /\ Excused(entry)
  /\ \A c \in Callers : StageInv(c) /\ RescanInv(c)

(* The empty list has every property of a returned one.                    *)
LEMMA NoListInv == Representative(NoList) /\ OnePerDex(NoList) /\ Excused(NoList)
BY NoListOK DEF Representative, OfDiscovery, BestOfEveryDex, OnePerDex, Excused, None

(* Nothing is registered at first.                                         *)
LEMMA InitRegistryInv == Init => RegistryInv
BY InitTypeOK, NoListInv DEF Init, RegistryInv, StageInv, RescanInv

(* Whether a pool has its excuse does not depend on the pools around it.   *)
LEMMA DedupExcused ==
  ASSUME NEW l \in List, Excused(l)
  PROVE  Excused(Dedup(l))
<1>1. l.pools \in Pools
  BY DEF List
<1> QED
  BY <1>1, DedupOK, FirstPerDexOK DEF Excused

(* A list is reduced to nothing only if it was empty.                      *)
LEMMA DedupNone ==
  ASSUME NEW l \in List
  PROVE  None(Dedup(l).pools) <=> None(l.pools)
<1>1. l.pools \in Pools
  BY DEF List
<1>2. DOMAIN FirstPerDex(l.pools) \subseteq DOMAIN l.pools
  BY <1>1, FirstPerDexOK
<1>3. \A i \in DOMAIN l.pools : DOMAIN FirstPerDex(l.pools) # {}
  BY <1>1, FirstPerDexBest
<1> QED
  BY <1>2, <1>3, DedupOK DEF None

(* At the end of a discovery every pool without vaults has its excuse.     *)
LEMMA SavedExcused ==
  ASSUME RegistryInv, NEW c \in Callers, step[c] = "save"
  PROVE  /\ list[c] \in List
         /\ Discovered(c) \in List /\ Representative(Discovered(c)) /\ Excused(Discovered(c))
         /\ Discovered(c).pools = list[c].pools
<1>1. list[c] \in List
  BY DEF RegistryInv, TypeOK
<1>2. ClmmResolved(list[c]) /\ SettledFor(list[c], "Raydium") /\ SettledFor(list[c], "PumpSwap")
  BY DEF RegistryInv, StageInv
<1>3. \A i \in DOMAIN list[c].pools : list[c].pools[i].dex \in Supported
  <2>1. \A i \in DOMAIN list[c].pools : list[c].pools[i] \in Pool
    BY <1>1, PoolsFacts DEF List
  <2> QED
    BY <2>1 DEF Pool
<1>4. Excused(list[c])
  BY <1>2, <1>3 DEF ClmmResolved, SettledFor, Excused, Supported
<1> QED
  BY <1>1, <1>4, DiscoveredOK DEF Excused

(* An insert replaces the entry, or keeps it for an empty list.            *)
LEMMA InsertOK ==
  ASSUME RegistryInv, NEW l \in List, Representative(l), Excused(l), Insert(l)
  PROVE  /\ entry' \in List /\ Representative(entry') /\ Excused(entry')
         /\ ~None(entry.pools) \/ ~None(l.pools) => ~None(entry'.pools)
BY DEF RegistryInv, TypeOK, Insert

-----------------------------------------------------------------------------
(* A step of one caller leaves the stage of the others alone.              *)
LEMMA OthersKeep ==
  ASSUME RegistryInv, TypeOK', NEW c \in Callers,
         Representative(entry'), Excused(entry'),
         ~None(entry.pools) => ~None(entry'.pools),
         \A d \in Callers \ {c} :
           list'[d] = list[d] /\ step'[d] = step[d] /\ purpose'[d] = purpose[d],
         StageInv(c)', RescanInv(c)'
  PROVE  RegistryInv'
<1>1. ASSUME NEW d \in Callers, d # c PROVE StageInv(d)' /\ RescanInv(d)'
  <2>1. StageInv(d) /\ RescanInv(d) /\ list'[d] = list[d] /\ step'[d] = step[d]
        /\ purpose'[d] = purpose[d]
    BY <1>1 DEF RegistryInv
  <2> QED
    BY <2>1 DEF StageInv, RescanInv
<1> QED
  BY <1>1 DEF RegistryInv

(* A caller begins with the empty list.                                    *)
LEMMA BeginInv == ASSUME RegistryInv, NEW c \in Callers, Begin(c) PROVE RegistryInv'
<1>1. TypeOK'
  BY NoListOK DEF Begin, RegistryInv, TypeOK
<1>2. /\ step'[c] \in {"lookup", "query"} /\ list'[c] = NoList /\ entry' = entry
      /\ purpose'[c] # "rescan"
  BY DEF Begin, RegistryInv, TypeOK
<1>3. StageInv(c)' /\ RescanInv(c)'
  BY <1>2 DEF StageInv, RescanInv
<1>4. \A d \in Callers \ {c} :
         list'[d] = list[d] /\ step'[d] = step[d] /\ purpose'[d] = purpose[d]
  BY DEF Begin, RegistryInv, TypeOK
<1> QED
  BY <1>1, <1>2, <1>3, <1>4, OthersKeep DEF RegistryInv

(* A list of the registry is returned reduced.                             *)
LEMMA LookupInv == ASSUME RegistryInv, NEW c \in Callers, Lookup(c) PROVE RegistryInv'
<1>1. Dedup(entry) \in List /\ Representative(Dedup(entry)) /\ OnePerDex(Dedup(entry))
      /\ Excused(Dedup(entry))
  BY DedupOK, DedupRepresents, DedupExcused DEF RegistryInv, TypeOK
<1>2. TypeOK'
  BY <1>1 DEF Lookup, OfCached, RegistryInv, TypeOK
<1>3. CASE ~None(entry.pools)
  <2>1. step'[c] = "idle" /\ list'[c] = Dedup(entry) /\ UNCHANGED <<entry, purpose>>
    BY <1>3 DEF Lookup, OfCached, RegistryInv, TypeOK
  <2>2. StageInv(c)' /\ RescanInv(c)'
    BY <1>1, <1>3, <2>1 DEF StageInv, RescanInv
  <2>3. \A d \in Callers \ {c} :
           list'[d] = list[d] /\ step'[d] = step[d] /\ purpose'[d] = purpose[d]
    BY DEF Lookup, RegistryInv, TypeOK
  <2> QED
    BY <1>2, <2>1, <2>2, <2>3, OthersKeep DEF RegistryInv
<1>4. CASE None(entry.pools)
  <2>1. step[c] = "lookup" /\ step'[c] = "query" /\ UNCHANGED <<entry, purpose, list>>
    BY <1>4 DEF Lookup, RegistryInv, TypeOK
  <2>2. StageInv(c)' /\ RescanInv(c)'
    BY <1>4, <2>1 DEF StageInv, RescanInv, RegistryInv
  <2>3. \A d \in Callers \ {c} :
           list'[d] = list[d] /\ step'[d] = step[d] /\ purpose'[d] = purpose[d]
    BY <2>1 DEF Lookup, RegistryInv, TypeOK
  <2> QED
    BY <1>2, <2>1, <2>2, <2>3, OthersKeep DEF RegistryInv
<1> QED
  BY <1>3, <1>4

(* An answer of DexScreener, or none.                                      *)
LEMMA QueryInv ==
  ASSUME RegistryInv, NEW c \in Callers, QueryFails(c) \/ QueryAnswers(c)
  PROVE  RegistryInv'
<1>1. step[c] = "query" /\ list[c] = NoList /\ entry' = entry /\ purpose[c] # "rescan"
  BY DEF QueryFails, QueryAnswers, RegistryInv, StageInv, RescanInv
<1>2. CASE QueryFails(c)
  <2>1. TypeOK' /\ list' = list
    BY <1>2 DEF QueryFails, RegistryInv, TypeOK
  <2>2. step'[c] \in {"lookup", "idle"} /\ purpose'[c] # "rescan"
    BY <1>1, <1>2 DEF QueryFails, RegistryInv, TypeOK
  <2>3. StageInv(c)' /\ RescanInv(c)'
    BY <1>1, <2>1, <2>2, NoListInv DEF StageInv, RescanInv
  <2>4. \A d \in Callers \ {c} :
           list'[d] = list[d] /\ step'[d] = step[d] /\ purpose'[d] = purpose[d]
    BY <1>2 DEF QueryFails, RegistryInv, TypeOK
  <2> QED
    BY <1>1, <2>1, <2>3, <2>4, OthersKeep DEF RegistryInv
<1>3. CASE QueryAnswers(c)
  <2>1. /\ list' \in [Callers -> List] /\ \A d \in Callers \ {c} : list'[d] = list[d]
        /\ ClmmResolved(list'[c])
    BY <1>3, ClmmQueried DEF RegistryInv
  <2>2. TypeOK' /\ step'[c] = "raydium" /\ purpose' = purpose
    BY <1>3, <2>1 DEF QueryAnswers, RegistryInv, TypeOK
  <2>3. StageInv(c)' /\ RescanInv(c)'
    BY <1>1, <2>1, <2>2 DEF StageInv, RescanInv
  <2>4. \A d \in Callers \ {c} :
           list'[d] = list[d] /\ step'[d] = step[d] /\ purpose'[d] = purpose[d]
    BY <1>3, <2>1 DEF QueryAnswers, RegistryInv, TypeOK
  <2> QED
    BY <1>1, <2>2, <2>3, <2>4, OthersKeep DEF RegistryInv
<1> QED
  BY <1>2, <1>3

(* The vaults of a DEX are resolved, or its accounts were missed.          *)
LEMMA ResolveInv ==
  ASSUME RegistryInv, NEW c \in Callers, ResolveRaydium(c) \/ ResolvePumpSwap(c)
  PROVE  RegistryInv'
<1>1. /\ TypeOK /\ ClmmResolved(list[c]) /\ purpose[c] # "rescan"
      /\ UNCHANGED <<entry, purpose>>
  BY DEF ResolveRaydium, ResolvePumpSwap, RegistryInv, StageInv, RescanInv
<1>2. CASE ResolveRaydium(c)
  <2> DEFINE dexes == {"Raydium", "RaydiumClmm"}
  <2>1. Resolve(c, dexes) /\ dexes \in SUBSET Supported
    BY <1>2 DEF ResolveRaydium, Supported
  <2>2. "Raydium" \in dexes
    OBVIOUS
  <2> HIDE DEF dexes
  <2>3. /\ list' \in [Callers -> List] /\ \A d \in Callers \ {c} : list'[d] = list[d]
        /\ ClmmResolved(list'[c])
        /\ \A i \in DOMAIN list'[c].pools : ~list'[c].pools[i].vaults /\ list'[c].pools[i].dex \in dexes =>
              list'[c].pools[i].dex \in list'[c].missed
    BY <1>1, <2>1, ResolveOK
  <2>4. SettledFor(list'[c], "Raydium")
    BY <2>2, <2>3 DEF SettledFor
  <2>5. TypeOK' /\ step'[c] = "pumpswap"
    BY <1>2, <2>3 DEF ResolveRaydium, RegistryInv, TypeOK
  <2>6. StageInv(c)' /\ RescanInv(c)'
    BY <1>1, <2>3, <2>4, <2>5 DEF StageInv, RescanInv
  <2>7. \A d \in Callers \ {c} :
           list'[d] = list[d] /\ step'[d] = step[d] /\ purpose'[d] = purpose[d]
    BY <1>1, <1>2, <2>3 DEF ResolveRaydium, TypeOK
  <2> QED
    BY <1>1, <2>5, <2>6, <2>7, OthersKeep DEF RegistryInv
<1>3. CASE ResolvePumpSwap(c)
  <2> DEFINE dexes == {"PumpSwap"}
  <2>1. Resolve(c, dexes) /\ dexes \in SUBSET Supported
    BY <1>3 DEF ResolvePumpSwap, Supported
  <2>2. "PumpSwap" \in dexes
    OBVIOUS
  <2> HIDE DEF dexes
  <2>3. /\ list' \in [Callers -> List] /\ \A d \in Callers \ {c} : list'[d] = list[d]
        /\ ClmmResolved(list'[c])
        /\ list[c].missed \subseteq list'[c].missed
        /\ \A i \in DOMAIN list'[c].pools : ~list'[c].pools[i].vaults =>
              /\ i \in DOMAIN list[c].pools /\ list'[c].pools[i] = list[c].pools[i]
              /\ list'[c].pools[i].dex \in dexes => list'[c].pools[i].dex \in list'[c].missed
    BY <1>1, <2>1, ResolveOK
  <2>4. SettledFor(list[c], "Raydium")
    BY <1>3 DEF ResolvePumpSwap, RegistryInv, StageInv
  <2>5. SettledFor(list'[c], "Raydium") /\ SettledFor(list'[c], "PumpSwap")
    BY <2>2, <2>3, <2>4 DEF SettledFor
  <2>6. TypeOK' /\ step'[c] = "save"
    BY <1>3, <2>3 DEF ResolvePumpSwap, RegistryInv, TypeOK
  <2>7. StageInv(c)' /\ RescanInv(c)'
    BY <1>1, <2>3, <2>5, <2>6 DEF StageInv, RescanInv
  <2>8. \A d \in Callers \ {c} :
           list'[d] = list[d] /\ step'[d] = step[d] /\ purpose'[d] = purpose[d]
    BY <1>1, <1>3, <2>3 DEF ResolvePumpSwap, TypeOK
  <2> QED
    BY <1>1, <2>6, <2>7, <2>8, OthersKeep DEF RegistryInv
<1> QED
  BY <1>2, <1>3

(* A scan stores and returns what it has reduced.                          *)
LEMMA SaveInv == ASSUME RegistryInv, NEW c \in Callers, SaveScanned(c) PROVE RegistryInv'
<1> DEFINE found == Dedup(Discovered(c))
<1>1. step[c] = "save"
  BY DEF SaveScanned
<1>2. found \in List /\ Representative(found) /\ OnePerDex(found) /\ Excused(found)
  BY <1>1, SavedExcused, DedupOK, DedupRepresents, DedupExcused
<1>3. Insert(found)
  BY DEF SaveScanned
<1> HIDE DEF found
<1>4. /\ entry' \in List /\ Representative(entry') /\ Excused(entry')
      /\ ~None(entry.pools) => ~None(entry'.pools)
  BY <1>2, <1>3, InsertOK
<1>5. list' = [list EXCEPT ![c] = found] /\ step' = [step EXCEPT ![c] = "idle"]
      /\ purpose' = purpose
  BY DEF SaveScanned, found
<1>6. TypeOK'
  BY <1>2, <1>4, <1>5 DEF RegistryInv, TypeOK
<1>7. list'[c] = found /\ step'[c] = "idle" /\ purpose[c] # "rescan"
  BY <1>1, <1>5 DEF RegistryInv, TypeOK, RescanInv
<1>8. StageInv(c)' /\ RescanInv(c)'
  BY <1>2, <1>5, <1>7 DEF StageInv, RescanInv
<1>9. \A d \in Callers \ {c} :
         list'[d] = list[d] /\ step'[d] = step[d] /\ purpose'[d] = purpose[d]
  BY <1>5 DEF RegistryInv, TypeOK
<1> QED
  BY <1>4, <1>6, <1>8, <1>9, OthersKeep

(* A registration stores all pools.                                        *)
LEMMA RegisterInv == ASSUME RegistryInv, NEW c \in Callers, Register(c) PROVE RegistryInv'
<1> DEFINE found == Discovered(c)
<1>1. step[c] = "save"
  BY DEF Register
<1>2. found \in List /\ Representative(found) /\ Excused(found) /\ found.pools = list[c].pools
  BY <1>1, SavedExcused
<1>3. Insert(found)
  BY DEF Register
<1> HIDE DEF found
<1>4. /\ entry' \in List /\ Representative(entry') /\ Excused(entry')
      /\ ~None(entry.pools) \/ ~None(found.pools) => ~None(entry'.pools)
  BY <1>2, <1>3, InsertOK
<1>5. /\ list' = [list EXCEPT ![c] = NoList]
      /\ purpose' = [purpose EXCEPT ![c] = IF None(list[c].pools) THEN "scan" ELSE "rescan"]
      /\ \E s \in {"lookup", "idle"} : step' = [step EXCEPT ![c] = s]
  BY DEF Register
<1>6. TypeOK'
  BY <1>4, <1>5, NoListOK DEF RegistryInv, TypeOK
<1>7. /\ list'[c] = NoList /\ step'[c] \in {"lookup", "idle"}
      /\ purpose'[c] = "rescan" => ~None(found.pools)
  BY <1>2, <1>5 DEF RegistryInv, TypeOK
<1>8. StageInv(c)' /\ RescanInv(c)'
  BY <1>4, <1>7, NoListInv DEF StageInv, RescanInv
<1>9. \A d \in Callers \ {c} :
         list'[d] = list[d] /\ step'[d] = step[d] /\ purpose'[d] = purpose[d]
  BY <1>5 DEF RegistryInv, TypeOK
<1> QED
  BY <1>4, <1>6, <1>8, <1>9, OthersKeep

(* Every step keeps the registry and the lists.                            *)
LEMMA NextRegistryInv == RegistryInv /\ [Next]_vars => RegistryInv'
<1>1. RegistryInv /\ UNCHANGED vars => RegistryInv'
  BY DEF RegistryInv, TypeOK, StageInv, RescanInv, vars
<1> QED
  BY <1>1, BeginInv, LookupInv, QueryInv, ResolveInv, SaveInv, RegisterInv DEF Next

-----------------------------------------------------------------------------
(* The entry and every caller's list keep their types.                     *)
THEOREM TypeCorrect == Spec => []TypeOK
<1>1. RegistryInv => TypeOK
  BY DEF RegistryInv
<1> QED
  BY <1>1, InitRegistryInv, NextRegistryInv, PTL DEF Spec

(* Whichever way a scan got its list, it has one pool of every DEX found   *)
(* by one discovery, none listed before it, and no other                   *)
(* (local_scanner.rs:490-536).                                             *)
THEOREM ScansGetBest == Spec => []ScansBestPerDex
<1>1. RegistryInv => ScansBestPerDex
  BY DEF RegistryInv, StageInv, ScansBestPerDex, Returned, Representative
<1> QED
  BY <1>1, InitRegistryInv, NextRegistryInv, PTL DEF Spec

(* A pool that no scan can quote is there only because the account fetch   *)
(* for its DEX failed (local_scanner.rs:629-680, 734).                     *)
THEOREM UnresolvedHasExcuse == Spec => []UnresolvedOnlyIfMissed
<1>1. RegistryInv => UnresolvedOnlyIfMissed
  BY DEF RegistryInv, StageInv, UnresolvedOnlyIfMissed, Returned
<1> QED
  BY <1>1, InitRegistryInv, NextRegistryInv, PTL DEF Spec

(* A caller that has registered pools is served by the registry, whatever  *)
(* overlapping discoveries answer (local_scanner.rs:506, 529).             *)
THEOREM RegistryServes == Spec => []RegistrationServes
<1>1. RegistryInv => RegistrationServes
  BY DEF RegistryInv, RescanInv, RegistrationServes
<1> QED
  BY <1>1, InitRegistryInv, NextRegistryInv, PTL DEF Spec
=============================================================================

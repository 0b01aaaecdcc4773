------------------------ MODULE DiscoveryLoopProofs ------------------------
(***************************************************************************)
(* Machine-checked proofs about DiscoveryLoop, for any tokens, any watched *)
(* ones and any caps: a token is put on the list once, never on a mint     *)
(* account that shows an authority, and only with pools.                   *)
(***************************************************************************)
EXTENDS DiscoveryLoop, TLAPS

(* Facts about sequences of tokens.                                        *)
LEMMA TailTokens ==
  ASSUME NEW s \in Seq(Tokens), s # <<>>
  PROVE  /\ Tail(s) \in Seq(Tokens) /\ Len(Tail(s)) = Len(s) - 1
         /\ Head(s) = s[1] /\ Head(s) \in Tokens /\ 1 \in DOMAIN s
         /\ \A i \in DOMAIN Tail(s) : i + 1 \in DOMAIN s /\ Tail(s)[i] = s[i + 1]
         /\ \A i \in DOMAIN s : i # 1 => i - 1 \in DOMAIN Tail(s) /\ Tail(s)[i - 1] = s[i]
OBVIOUS

(* A token appended to a list.                                             *)
LEMMA AppendToken ==
  ASSUME NEW s \in Seq(Tokens), NEW t \in Tokens
  PROVE  /\ Append(s, t) \in Seq(Tokens) /\ Len(Append(s, t)) = Len(s) + 1
         /\ Append(s, t)[Len(s) + 1] = t /\ Len(s) + 1 \in DOMAIN Append(s, t)
         /\ \A i \in DOMAIN s : i \in DOMAIN Append(s, t) /\ Append(s, t)[i] = s[i]
         /\ \A i \in DOMAIN Append(s, t) : i # Len(s) + 1 => i \in DOMAIN s
OBVIOUS

(* Positions of a list are natural numbers.                                *)
LEMMA DomainNat ==
  ASSUME NEW s \in Seq(Tokens)
  PROVE  Len(s) \in Nat /\ \A i \in DOMAIN s : i \in 1..Len(s) /\ s[i] \in Tokens
OBVIOUS

(* The tokens a list names.                                                *)
LEMMA NamedTokens ==
  ASSUME NEW s \in Seq(Tokens)
  PROVE  Named(s) \subseteq Tokens
BY DEF Named, ToSet

(* What is left of an answer is short and has only tokens not known.       *)
LEMMA AnswersOK ==
  ASSUME NEW answer \in Answers
  PROVE  /\ answer \in Seq(Tokens) /\ Len(answer) <= BatchCap
         /\ \A i \in DOMAIN answer : answer[i] \notin known
<1>1. PICK m \in 0..BatchCap : answer \in [1..m -> NewTokens]
  BY DEF Answers, BoundedSeq, SeqOf
<1>2. NewTokens \subseteq Tokens /\ \A t \in NewTokens : t \notin known
  BY DEF NewTokens, New
<1>3. answer \in Seq(NewTokens) /\ Len(answer) = m
  BY <1>1
<1> QED
  BY <1>1, <1>2, <1>3, DiscoveryAssumption

(* The set of tokens on a list that one is appended to or taken from.      *)
LEMMA NamedAppend ==
  ASSUME NEW s \in Seq(Tokens), NEW t \in Tokens
  PROVE  Named(Append(s, t)) = Named(s) \union {t}
BY AppendToken DEF Named, ToSet

(* The tokens of a tail are among those of the list.                       *)
LEMMA NamedTail ==
  ASSUME NEW s \in Seq(Tokens), s # <<>>
  PROVE  Named(Tail(s)) \subseteq Named(s)
BY TailTokens DEF Named, ToSet

-----------------------------------------------------------------------------
(* The list after one token is pushed.                                     *)
Pushed(t) == IF Len(Append(discovered, t)) > ListCap
             THEN Tail(Append(discovered, t)) ELSE Append(discovered, t)

(* It keeps every token but possibly the oldest, which gets nearer to the  *)
(* end; the distance of a token from the end grows by one.                 *)
LEMMA PushedOK ==
  ASSUME TypeOK, NEW t \in Tokens
  PROVE  /\ Pushed(t) \in Seq(Tokens)
         /\ Len(Pushed(t)) = IF Len(discovered) + 1 > ListCap
                             THEN Len(discovered) ELSE Len(discovered) + 1
         /\ Named(Pushed(t)) \subseteq Named(discovered) \union {t}
         /\ \A p \in DOMAIN discovered :
              p > 1 \/ Len(discovered) < ListCap =>
                \E q \in DOMAIN Pushed(t) :
                  /\ Pushed(t)[q] = discovered[p]
                  /\ Len(Pushed(t)) - q = Len(discovered) - p + 1
         /\ ListCap > 0 \/ Len(discovered) > 0 =>
              \E q \in DOMAIN Pushed(t) : Pushed(t)[q] = t /\ q = Len(Pushed(t))
<1> DEFINE longer == Append(discovered, t)
<1>1. discovered \in Seq(Tokens) /\ ListCap \in Nat /\ Len(discovered) \in Nat
  BY DiscoveryAssumption DEF TypeOK
<1>2. /\ longer \in Seq(Tokens) /\ Len(longer) = Len(discovered) + 1
      /\ longer[Len(discovered) + 1] = t /\ Len(discovered) + 1 \in DOMAIN longer
      /\ \A i \in DOMAIN discovered : i \in DOMAIN longer /\ longer[i] = discovered[i]
      /\ Named(longer) = Named(discovered) \union {t} /\ longer # <<>>
  BY <1>1, AppendToken, NamedAppend
<1>3. \A i \in DOMAIN discovered : i \in 1..Len(discovered)
  BY <1>1, DomainNat
<1> HIDE DEF longer
<1>4. CASE Len(longer) > ListCap
  <2>1. Pushed(t) = Tail(longer)
    BY <1>4 DEF Pushed, longer
  <2>2. /\ Tail(longer) \in Seq(Tokens) /\ Len(Tail(longer)) = Len(discovered)
        /\ Named(Tail(longer)) \subseteq Named(longer)
        /\ \A i \in DOMAIN longer : i # 1 => i - 1 \in DOMAIN Tail(longer)
                                            /\ Tail(longer)[i - 1] = longer[i]
    BY <1>1, <1>2, TailTokens, NamedTail
  <2>3. ASSUME NEW p \in DOMAIN discovered, p > 1 \/ Len(discovered) < ListCap
        PROVE  \E q \in DOMAIN Tail(longer) :
                 /\ Tail(longer)[q] = discovered[p]
                 /\ Len(Tail(longer)) - q = Len(discovered) - p + 1
    <3>1. p > 1
      BY <1>1, <1>2, <1>4, <2>3
    <3>2. p - 1 \in DOMAIN Tail(longer) /\ Tail(longer)[p - 1] = discovered[p]
      BY <1>2, <1>3, <2>2, <3>1
    <3>3. Len(Tail(longer)) - (p - 1) = Len(discovered) - p + 1
      BY <1>1, <1>3, <2>2
    <3> QED
      BY <3>2, <3>3
  <2>4. ASSUME ListCap > 0 \/ Len(discovered) > 0
        PROVE  \E q \in DOMAIN Tail(longer) : Tail(longer)[q] = t /\ q = Len(Tail(longer))
    <3>1. Len(discovered) > 0
      BY <1>1, <1>2, <1>4, <2>4
    <3>2. Len(discovered) \in DOMAIN Tail(longer) /\ Tail(longer)[Len(discovered)] = t
      BY <1>1, <1>2, <2>2, <3>1
    <3> QED
      BY <2>2, <3>2
  <2> QED
    BY <1>1, <1>2, <1>4, <2>1, <2>2, <2>3, <2>4
<1>5. CASE ~(Len(longer) > ListCap)
  <2>1. Pushed(t) = longer
    BY <1>5 DEF Pushed, longer
  <2>2. ASSUME NEW p \in DOMAIN discovered
        PROVE  \E q \in DOMAIN longer :
                 longer[q] = discovered[p] /\ Len(longer) - q = Len(discovered) - p + 1
    <3>1. Len(longer) - p = Len(discovered) - p + 1
      BY <1>1, <1>2, <1>3
    <3> QED
      BY <1>2, <3>1
  <2> QED
    BY <1>1, <1>2, <1>5, <2>1, <2>2
<1> QED
  BY <1>4, <1>5

-----------------------------------------------------------------------------
(* Type correctness.  A batch is collected from candidates: together they  *)
(* are at most one answer, and outside these stages there are none.        *)
StagesOK ==
  /\ at # "checks" => candidates = <<>>
  /\ Len(candidates) + Len(batch) <= BatchCap
  /\ at = "answer" => batch = <<>>
  /\ at \in {"lock", "scan"} => batch # <<>>
TypeInv == TypeOK /\ StagesOK

(* Admission writes down a ground once and keeps it.                       *)
LEMMA GroundsOK ==
  ASSUME TypeOK, NEW admitted, NEW ground \in Grounds
  PROVE  /\ GroundsWith(admitted, ground) \in [Tokens -> Grounds \union {Nothing}]
         /\ \A t \in Tokens \intersect admitted : GroundsWith(admitted, ground)[t] # Nothing
         /\ \A t \in Tokens : \/ GroundsWith(admitted, ground)[t] = grounds[t]
                              \/ /\ t \in admitted /\ grounds[t] = Nothing
                                 /\ GroundsWith(admitted, ground)[t] = ground
BY DEF TypeOK, GroundsWith, Grounds, Nothing

(* The initial state is well typed.                                        *)
LEMMA InitTypeInv == Init => TypeInv
<1> SUFFICES ASSUME Init PROVE TypeInv
  OBVIOUS
<1>1. Watched \in Seq(Tokens) /\ Named(Watched) \subseteq Tokens /\ BatchCap \in Nat
  BY DiscoveryAssumption, NamedTokens
<1>7. Len(Watched) <= ListLimit /\ 0 <= ListLimit
  BY <1>1, DiscoveryAssumption DEF ListLimit
<1>2. <<>> \in Seq(Tokens) /\ Len(<<>>) = 0
  OBVIOUS
<1>3. StagesOK
  BY <1>1, <1>2 DEF Init, StagesOK
<1>4. grounds \in [Tokens -> Grounds \union {Nothing}] /\ listings \in [Tokens -> Nat]
  BY DEF Init
<1>5. /\ candidates \in Seq(Tokens) /\ Len(candidates) <= BatchCap
      /\ batch \in Seq(Tokens) /\ Len(batch) <= BatchCap
      /\ cycle \in Seq(Tokens) /\ Len(cycle) <= ListLimit
  BY <1>1, <1>2, <1>7 DEF Init
<1>6. /\ known \subseteq Tokens /\ discovered \in Seq(Tokens) /\ registered \subseteq Tokens
      /\ Len(discovered) <= ListLimit
      /\ source \in {"profiles", "boosts"} /\ hung \in BOOLEAN
      /\ at \in {"answer", "checks", "pools", "lock", "scan"}
  BY <1>1, <1>7 DEF Init
<1> QED
  BY <1>3, <1>4, <1>5, <1>6 DEF TypeInv, TypeOK

(* Every step keeps types and stages.                                      *)
LEMMA NextTypeInv == TypeInv /\ [Next]_vars => TypeInv'
<1> SUFFICES ASSUME TypeInv, [Next]_vars PROVE TypeInv'
  OBVIOUS
<1> USE DEF TypeInv
<1>1. /\ candidates \in Seq(Tokens) /\ batch \in Seq(Tokens) /\ discovered \in Seq(Tokens)
      /\ cycle \in Seq(Tokens) /\ BatchCap \in Nat
      /\ Len(candidates) \in Nat /\ Len(batch) \in Nat
  BY DiscoveryAssumption DEF TypeOK
<1>2. CASE AskProfiles
  <2>1. candidates' \in Seq(Tokens) /\ Len(candidates') <= BatchCap /\ batch = <<>>
    BY <1>2, AnswersOK DEF AskProfiles, StagesOK
  <2> QED
    BY <1>1, <1>2, <2>1 DEF AskProfiles, TypeOK, StagesOK, scannerVars, history
<1>3. CASE Check
  <2>1. candidates' \in Seq(Tokens) /\ Len(candidates') = Len(candidates) - 1
        /\ Head(candidates) \in Tokens
    BY <1>1, <1>3, TailTokens DEF Check
  <2>2. /\ batch' \in Seq(Tokens) /\ Len(batch') <= Len(batch) + 1
        /\ grounds' \in [Tokens -> Grounds \union {Nothing}]
    <3>1. CASE Drop
      BY <1>1, <3>1 DEF Drop, TypeOK
    <3>2. ASSUME NEW mintRead \in BOOLEAN, NEW report \in {"good", "bad", "none"},
                 Admit(Head(candidates), mintRead, report)
          PROVE  /\ batch' \in Seq(Tokens) /\ Len(batch') <= Len(batch) + 1
                 /\ grounds' \in [Tokens -> Grounds \union {Nothing}]
      <4>1. Ground(mintRead, report) \in Grounds
        BY DEF Ground, Grounds
      <4> QED
        BY <1>1, <2>1, <3>2, <4>1, AppendToken, GroundsOK DEF Admit
    <3> QED
      BY <1>3, <3>1, <3>2 DEF Check
  <2>3. Len(batch') \in Nat /\ Len(candidates') + Len(batch') <= BatchCap
    BY <1>1, <2>1, <2>2 DEF StagesOK
  <2> QED
    BY <1>1, <1>3, <2>1, <2>2, <2>3 DEF Check, TypeOK, StagesOK, scannerVars
<1>4. CASE Checked
  BY <1>4 DEF Checked, TypeOK, StagesOK, scannerVars, history
<1>5. CASE AskBoosts
  <2>1. batch' \in Seq(Tokens) /\ Len(batch') <= BatchCap /\ candidates = <<>>
    BY <1>5, AnswersOK DEF AskBoosts, StagesOK
  <2>2. grounds' \in [Tokens -> Grounds \union {Nothing}]
    BY <1>5, GroundsOK DEF AskBoosts, Grounds
  <2> QED
    BY <1>1, <1>5, <2>1, <2>2 DEF AskBoosts, TypeOK, StagesOK, scannerVars
<1>6. CASE FindPools
  <2>1. Head(batch) \in Tokens /\ Tail(batch) \in Seq(Tokens) /\ Len(Tail(batch)) = Len(batch) - 1
    BY <1>1, <1>6, TailTokens DEF FindPools
  <2> QED
    BY <1>1, <1>6, <2>1
       DEF FindPools, RegisterPools, TypeOK, StagesOK, scannerVars, history
<1>7. CASE PutOnList
  <2>1. Head(batch) \in Tokens
    BY <1>1, <1>7, TailTokens DEF PutOnList, StagesOK
  <2>2. /\ discovered' \in Seq(Tokens) /\ Len(discovered') <= ListLimit
        /\ listings' \in [Tokens -> Nat]
    <3>1. CASE UNCHANGED <<discovered, listings>>
      BY <3>1 DEF TypeOK
    <3>2. CASE discovered' = Pushed(Head(batch))
               /\ listings' = [listings EXCEPT ![Head(batch)] = @ + 1]
      <4>1. listings \in [Tokens -> Nat]
        BY DEF TypeOK
      <4>2. listings[Head(batch)] + 1 \in Nat
        BY <2>1, <4>1
      <4>3. listings' \in [Tokens -> Nat]
        BY <3>2, <4>1, <4>2, Zenon
      <4>4. Len(discovered') = IF Len(discovered) + 1 > ListCap
                               THEN Len(discovered) ELSE Len(discovered) + 1
        BY <2>1, <3>2, PushedOK
      <4>5. /\ Len(discovered) <= ListLimit /\ Len(discovered) \in Nat
            /\ Len(Watched) \in Nat /\ ListCap \in Nat
        BY <1>1, DiscoveryAssumption DEF TypeOK
      <4>6. Len(discovered') <= ListLimit
        BY <4>4, <4>5 DEF ListLimit
      <4> QED
        BY <2>1, <3>2, <4>3, <4>6, PushedOK
    <3> QED
      BY <1>7, <3>1, <3>2 DEF PutOnList, Pushed
  <2> QED
    BY <1>7, <2>2 DEF PutOnList, TypeOK, StagesOK, scannerVars
<1>8. CASE FirstScanReturns
  <2>1. Tail(batch) \in Seq(Tokens) /\ Len(Tail(batch)) = Len(batch) - 1
    BY <1>1, <1>8, TailTokens DEF FirstScanReturns, StagesOK
  <2> QED
    BY <1>1, <1>8, <2>1 DEF FirstScanReturns, TypeOK, StagesOK, scannerVars, history
<1>9. CASE NextSource
  BY <1>9 DEF NextSource, TypeOK, StagesOK, scannerVars, history
<1>10. CASE StartCycle
  BY <1>10 DEF StartCycle, CopyList, TypeOK, StagesOK, loopVars, history
<1>11. CASE ScanReturns
  <2>1. Head(cycle) \in Tokens /\ Tail(cycle) \in Seq(Tokens)
        /\ Len(Tail(cycle)) = Len(cycle) - 1
    BY <1>1, <1>11, TailTokens DEF ScanReturns
  <2>2. Len(Tail(cycle)) <= ListLimit
    BY <1>1, <2>1, DiscoveryAssumption DEF TypeOK, ListLimit
  <2> QED
    BY <1>11, <2>1, <2>2 DEF ScanReturns, RegisterPools, TypeOK, StagesOK, loopVars, history
<1>12. CASE ScanHangs
  BY <1>12 DEF ScanHangs, TypeOK, StagesOK, loopVars, history
<1>13. CASE UNCHANGED vars
  BY <1>13 DEF vars, TypeOK, StagesOK, loopVars, scannerVars, history
<1> QED
  BY <1>2, <1>3, <1>4, <1>5, <1>6, <1>7, <1>8, <1>9, <1>10, <1>11, <1>12, <1>13 DEF Next

(* The loop's stages, the shared list and the registry keep their types,   *)
(* and the list and its copy stay within the limit of the list             *)
(* (main.rs:538-545).                                                      *)
THEOREM TypeCorrect == Spec => []TypeOK
<1>1. TypeInv => TypeOK
  BY DEF TypeInv
<1> QED
  BY <1>1, InitTypeInv, NextTypeInv, PTL DEF Spec

-----------------------------------------------------------------------------
(* Listing.  A token the loop still has to deal with, in an answer that    *)
(* names it twice, may be on the list already; it is then so near the end  *)
(* that the tokens before it in the batch cannot push it off, since an     *)
(* answer is no longer than the list (BatchCap <= ListCap).  A token that  *)
(* is being scanned has been put on the list, but not left the batch.      *)
Pending == {i \in DOMAIN batch : at = "scan" => i # 1}
Allowed == IF at = "scan" THEN BatchCap + 1 ELSE BatchCap
NearEnd ==
  \A i \in Pending :
    listings[batch[i]] > 0 =>
      \E p \in DOMAIN discovered :
        discovered[p] = batch[i] /\ Len(discovered) - p + Len(batch) <= Allowed
NoneWatched == \A i \in DOMAIN batch : batch[i] \notin Named(Watched)
Collected ==
  /\ \A i \in DOMAIN candidates : candidates[i] \notin known
  /\ at = "checks" => \A i \in DOMAIN batch : batch[i] \notin known
KnownOK ==
  /\ Named(Watched) \subseteq known
  /\ \A t \in Tokens : listings[t] > 0 => t \in known
  /\ at \in {"lock", "scan"} => batch[1] \in known
ListingInv == TypeInv /\ NearEnd /\ NoneWatched /\ Collected /\ KnownOK /\ ListedOnce

(* Nothing is listed but what the user named.                              *)
LEMMA InitListingInv == Init => ListingInv
<1> SUFFICES ASSUME Init PROVE ListingInv
  OBVIOUS
<1>1. TypeInv /\ DOMAIN batch = {} /\ DOMAIN candidates = {}
  BY InitTypeInv DEF Init
<1>2. \A t \in Tokens : listings[t] = 0
  BY DEF Init
<1> QED
  BY <1>1, <1>2
     DEF Init, ListingInv, NearEnd, Pending, NoneWatched, Collected, KnownOK, ListedOnce

(* What the loop took off its batch, or did not change, stays near the end.*)
LEMMA TailNearEnd ==
  ASSUME ListingInv, batch # <<>>, batch' = Tail(batch), at' = "pools",
         UNCHANGED <<discovered, listings>>,
         at \in {"pools", "scan"}
  PROVE  NearEnd' /\ NoneWatched'
<1>1. /\ batch \in Seq(Tokens) /\ discovered \in Seq(Tokens) /\ BatchCap \in Nat
      /\ Len(batch) \in Nat /\ Len(discovered) \in Nat
  BY DiscoveryAssumption DEF ListingInv, TypeInv, TypeOK
<1>2. /\ Len(batch') = Len(batch) - 1
      /\ \A i \in DOMAIN batch' : i + 1 \in DOMAIN batch /\ batch'[i] = batch[i + 1]
                                  /\ i + 1 # 1
  BY <1>1, TailTokens
<1>3. NoneWatched'
  BY <1>2 DEF ListingInv, NoneWatched
<1>4. NearEnd'
  <2> SUFFICES ASSUME NEW i \in DOMAIN batch', listings[batch'[i]] > 0
               PROVE  \E p \in DOMAIN discovered :
                        /\ discovered[p] = batch'[i]
                        /\ Len(discovered) - p + Len(batch') <= BatchCap
    BY DEF NearEnd, Pending, Allowed
  <2>1. i + 1 \in Pending
    BY <1>2 DEF Pending
  <2>2. PICK p \in DOMAIN discovered :
          discovered[p] = batch[i + 1] /\ Len(discovered) - p + Len(batch) <= Allowed
    BY <1>2, <2>1 DEF ListingInv, NearEnd
  <2>3. p \in 1..Len(discovered)
    BY <1>1, DomainNat
  <2>4. Len(discovered) - p + Len(batch') <= BatchCap
    BY <1>1, <1>2, <2>2, <2>3 DEF Allowed
  <2> QED
    BY <1>2, <2>2, <2>4
<1> QED
  BY <1>3, <1>4

(* Discovering pools takes no token off the list; one without pools        *)
(* leaves the batch.                                                       *)
LEMMA FindPoolsListing == ListingInv /\ FindPools => ListingInv'
<1> SUFFICES ASSUME ListingInv, FindPools PROVE ListingInv'
  OBVIOUS
<1>1. TypeInv /\ TypeInv'
  BY NextTypeInv DEF ListingInv, Next
<1>2. /\ at = "pools" /\ batch # <<>> /\ known' = known \union {Head(batch)}
      /\ UNCHANGED <<candidates, discovered, listings>>
  BY DEF FindPools, history
<1>3. batch \in Seq(Tokens) /\ Head(batch) = batch[1] /\ candidates = <<>>
  BY <1>1, <1>2, TailTokens DEF TypeInv, TypeOK, StagesOK
<1>4. Collected' /\ ListedOnce' /\ Named(Watched) \subseteq known'
      /\ \A t \in Tokens : listings'[t] > 0 => t \in known'
  <2>1. at' # "checks"
    BY DEF FindPools
  <2> QED
    BY <1>2, <1>3, <2>1 DEF ListingInv, Collected, ListedOnce, KnownOK
<1>5. CASE at' = "pools" /\ batch' = Tail(batch)
  BY <1>1, <1>2, <1>4, <1>5, TailNearEnd DEF ListingInv, KnownOK
<1>6. CASE at' = "lock" /\ batch' = batch
  BY <1>1, <1>2, <1>3, <1>4, <1>6
     DEF ListingInv, KnownOK, NearEnd, NoneWatched, Pending, Allowed
<1> QED
  BY <1>5, <1>6 DEF FindPools

(* Taking a place on the full list pushes off one token, the oldest.       *)
LEMMA PutOnListListing == ListingInv /\ PutOnList => ListingInv'
<1> SUFFICES ASSUME ListingInv, PutOnList PROVE ListingInv'
  OBVIOUS
<1> DEFINE h == Head(batch)
<1>1. TypeInv /\ TypeInv'
  BY NextTypeInv DEF ListingInv, Next
<1>2. /\ at = "lock" /\ at' = "scan" /\ UNCHANGED <<batch, candidates, known>>
  BY DEF PutOnList
<1>3. /\ batch \in Seq(Tokens) /\ discovered \in Seq(Tokens) /\ listings \in [Tokens -> Nat]
      /\ BatchCap \in 1..ListCap /\ ListCap \in Nat
      /\ Len(batch) \in Nat /\ Len(discovered) \in Nat /\ Len(batch) <= BatchCap
  BY <1>1, DiscoveryAssumption DEF TypeInv, TypeOK
<1>4. batch # <<>> /\ h = batch[1] /\ h \in Tokens /\ 1 \in DOMAIN batch
  BY <1>1, <1>2, <1>3, TailTokens DEF TypeInv, StagesOK
<1>5. \A i \in DOMAIN batch : i \in 1..Len(batch) /\ batch[i] \in Tokens
  BY <1>3, DomainNat
<1> HIDE DEF h
<1>6. Collected' /\ NoneWatched'
  BY <1>2 DEF ListingInv, Collected, NoneWatched
<1>7. CASE UNCHANGED <<discovered, listings>>
  <2>1. NearEnd'
    <3> SUFFICES ASSUME NEW i \in DOMAIN batch, i # 1, listings[batch[i]] > 0
                 PROVE  \E p \in DOMAIN discovered :
                          /\ discovered[p] = batch[i]
                          /\ Len(discovered) - p + Len(batch) <= BatchCap + 1
      BY <1>2, <1>7 DEF NearEnd, Pending, Allowed
    <3>1. PICK p \in DOMAIN discovered :
            discovered[p] = batch[i] /\ Len(discovered) - p + Len(batch) <= BatchCap
      BY <1>2 DEF ListingInv, NearEnd, Pending, Allowed
    <3>2. p \in 1..Len(discovered)
      BY <1>3, DomainNat
    <3> QED
      BY <1>3, <3>1, <3>2
  <2> QED
    BY <1>1, <1>2, <1>6, <1>7, <2>1 DEF ListingInv, KnownOK, ListedOnce
<1>8. CASE h \notin Named(discovered) /\ discovered' = Pushed(h)
           /\ listings' = [listings EXCEPT ![h] = @ + 1]
  <2>1. listings[h] = 0
    <3>1. SUFFICES ASSUME listings[h] > 0 PROVE FALSE
      BY <1>3, <1>4
    <3>2. PICK p \in DOMAIN discovered : discovered[p] = h
      BY <1>2, <1>4, <3>1 DEF ListingInv, NearEnd, Pending
    <3> QED
      BY <1>8, <3>2 DEF Named, ToSet
  <2>2. h \notin Named(Watched) /\ h \in known
    BY <1>2, <1>4 DEF ListingInv, NoneWatched, KnownOK
  <2>3. listings'[h] = 1 /\ \A t \in Tokens \ {h} : listings'[t] = listings[t]
    BY <1>3, <1>4, <1>8, <2>1
  <2>4. NearEnd'
    <3> SUFFICES ASSUME NEW i \in DOMAIN batch, i # 1, listings'[batch[i]] > 0
                 PROVE  \E q \in DOMAIN discovered' :
                          /\ discovered'[q] = batch[i]
                          /\ Len(discovered') - q + Len(batch) <= BatchCap + 1
      BY <1>2 DEF NearEnd, Pending, Allowed
    <3>1. CASE batch[i] = h
      <4>1. PICK q \in DOMAIN discovered' : discovered'[q] = h /\ q = Len(discovered')
        BY <1>1, <1>3, <1>4, <1>8, PushedOK DEF TypeInv
      <4>2. Len(discovered') - q + Len(batch) <= BatchCap + 1
        BY <1>1, <1>3, <4>1 DEF TypeInv, TypeOK
      <4> QED
        BY <3>1, <4>1, <4>2
    <3>2. CASE batch[i] # h
      <4>1. listings[batch[i]] > 0
        BY <1>5, <2>3, <3>2
      <4>2. PICK p \in DOMAIN discovered :
              discovered[p] = batch[i] /\ Len(discovered) - p + Len(batch) <= BatchCap
        BY <1>2, <4>1 DEF ListingInv, NearEnd, Pending, Allowed
      <4>3. p \in 1..Len(discovered) /\ Len(batch) >= 2
        BY <1>3, <1>5, DomainNat
      <4>4. p > 1 \/ Len(discovered) < ListCap
        BY <1>3, <4>2, <4>3
      <4>5. PICK q \in DOMAIN discovered' :
              /\ discovered'[q] = discovered[p]
              /\ Len(discovered') - q = Len(discovered) - p + 1
        BY <1>1, <1>4, <1>8, <4>4, PushedOK DEF TypeInv
      <4>6. Len(discovered') - q + Len(batch) <= BatchCap + 1
        BY <1>3, <4>2, <4>3, <4>5
      <4> QED
        BY <4>2, <4>5, <4>6
    <3> QED
      BY <3>1, <3>2
  <2>5. ListedOnce'
    <3> SUFFICES ASSUME NEW t \in Tokens
                 PROVE  listings'[t] <= IF t \in Named(Watched) THEN 0 ELSE 1
      BY DEF ListedOnce
    <3>1. CASE t = h
      BY <2>2, <2>3, <3>1
    <3>2. CASE t # h
      BY <2>3, <3>2 DEF ListingInv, ListedOnce
    <3> QED
      BY <3>1, <3>2
  <2>6. KnownOK'
    BY <1>2, <1>4, <2>2, <2>3 DEF ListingInv, KnownOK
  <2> QED
    BY <1>1, <1>6, <2>4, <2>5, <2>6 DEF ListingInv
<1> QED
  BY <1>7, <1>8 DEF PutOnList, Pushed, Absent, h

(* The other steps put nothing on the list.                                *)
LEMMA OthersListing ==
  ASSUME ListingInv, UNCHANGED <<known, discovered, listings>>,
         \/ AskProfiles \/ Check \/ Checked \/ AskBoosts \/ FirstScanReturns \/ NextSource
         \/ StartCycle \/ ScanReturns \/ ScanHangs \/ UNCHANGED vars
  PROVE  ListingInv'
<1>1. TypeInv /\ TypeInv'
  BY NextTypeInv DEF ListingInv, Next
<1>2. batch \in Seq(Tokens) /\ candidates \in Seq(Tokens) /\ listings \in [Tokens -> Nat]
      /\ batch' \in Seq(Tokens)
  BY <1>1 DEF TypeInv, TypeOK
<1>3. ListedOnce' /\ Named(Watched) \subseteq known'
      /\ \A t \in Tokens : listings'[t] > 0 => t \in known'
  BY DEF ListingInv, ListedOnce, KnownOK
<1>4. ASSUME NEW t \in Tokens, t \notin known PROVE ~(listings[t] > 0) /\ t \notin Named(Watched)
  BY <1>4 DEF ListingInv, KnownOK
<1>5. ASSUME \A i \in DOMAIN batch' : batch'[i] \notin known
      PROVE  NearEnd' /\ NoneWatched'
  <2>1. \A i \in DOMAIN batch' : batch'[i] \in Tokens
    BY <1>2, DomainNat
  <2> QED
    BY <1>4, <1>5, <2>1 DEF NearEnd, NoneWatched, Pending
<1>6. CASE AskProfiles
  <2>1. batch' = <<>> /\ at' = "checks" /\ candidates' \in Answers
    BY <1>1, <1>6 DEF AskProfiles, TypeInv, StagesOK
  <2>2. Collected' /\ \A i \in DOMAIN batch' : batch'[i] \notin known
    BY <2>1, AnswersOK DEF Collected
  <2> QED
    BY <1>1, <1>3, <1>5, <2>1, <2>2 DEF ListingInv, KnownOK
<1>7. CASE Check
  <2>1. /\ candidates # <<>> /\ candidates' = Tail(candidates) /\ at = "checks" /\ at' = "checks"
        /\ batch' = batch \/ batch' = Append(batch, Head(candidates))
    BY <1>7 DEF Check, Admit, Drop
  <2>2. /\ \A i \in DOMAIN candidates' : candidates'[i] \notin known
        /\ Head(candidates) \notin known /\ Head(candidates) \in Tokens
    BY <1>2, <2>1, TailTokens DEF ListingInv, Collected
  <2>3. \A i \in DOMAIN batch' : batch'[i] \notin known
    <3>1. \A i \in DOMAIN batch : batch[i] \notin known
      BY <2>1 DEF ListingInv, Collected
    <3>2. CASE batch' = batch
      BY <3>1, <3>2
    <3>3. CASE batch' = Append(batch, Head(candidates))
      BY <1>2, <2>2, <3>1, <3>3, AppendToken
    <3> QED
      BY <2>1, <3>2, <3>3
  <2> QED
    BY <1>1, <1>3, <1>5, <2>1, <2>2, <2>3 DEF ListingInv, Collected, KnownOK
<1>8. CASE Checked
  <2>1. at = "checks" /\ at' = "pools" /\ UNCHANGED <<batch, candidates>>
    BY <1>8 DEF Checked
  <2>2. \A i \in DOMAIN batch' : batch'[i] \notin known
    BY <2>1 DEF ListingInv, Collected
  <2> QED
    BY <1>1, <1>3, <1>5, <2>1, <2>2 DEF ListingInv, Collected, KnownOK
<1>9. CASE AskBoosts
  <2>1. at' = "pools" /\ UNCHANGED candidates /\ batch' \in Answers
    BY <1>9 DEF AskBoosts
  <2>2. \A i \in DOMAIN batch' : batch'[i] \notin known
    BY <2>1, AnswersOK
  <2> QED
    BY <1>1, <1>3, <1>5, <2>1, <2>2 DEF ListingInv, Collected, KnownOK
<1>10. CASE FirstScanReturns
  <2>1. /\ at = "scan" /\ at' = "pools" /\ batch' = Tail(batch) /\ batch # <<>>
        /\ UNCHANGED candidates
    BY <1>1, <1>10 DEF FirstScanReturns, TypeInv, StagesOK
  <2>2. NearEnd' /\ NoneWatched'
    BY <2>1, TailNearEnd
  <2> QED
    BY <1>1, <1>3, <2>1, <2>2 DEF ListingInv, Collected, KnownOK
<1>11. CASE NextSource
  <2>1. at' = "answer" /\ batch = <<>> /\ UNCHANGED <<batch, candidates>>
    BY <1>11 DEF NextSource
  <2>2. \A i \in DOMAIN batch' : batch'[i] \notin known
    BY <2>1
  <2> QED
    BY <1>1, <1>3, <1>5, <2>1, <2>2 DEF ListingInv, Collected, KnownOK
<1>12. CASE StartCycle \/ ScanReturns \/ ScanHangs \/ UNCHANGED vars
  <2>1. UNCHANGED <<at, batch, candidates>>
    BY <1>12 DEF StartCycle, ScanReturns, ScanHangs, vars, loopVars
  <2> QED
    BY <1>1, <1>3, <2>1
       DEF ListingInv, Collected, KnownOK, NearEnd, NoneWatched, Pending, Allowed
<1> QED
  BY <1>6, <1>7, <1>8, <1>9, <1>10, <1>11, <1>12

(* Every step keeps pending tokens near the end of the list.               *)
LEMMA NextListingInv == ListingInv /\ [Next]_vars => ListingInv'
<1>1. \/ AskProfiles \/ Check \/ Checked \/ AskBoosts \/ FirstScanReturns \/ NextSource
      \/ StartCycle \/ ScanReturns \/ ScanHangs \/ UNCHANGED vars
      => UNCHANGED <<known, discovered, listings>>
  BY DEF AskProfiles, Check, Checked, AskBoosts, FirstScanReturns, NextSource, StartCycle,
         ScanReturns, ScanHangs, vars, loopVars, history
<1> QED
  BY <1>1, FindPoolsListing, PutOnListListing, OthersListing DEF Next

(* No token is put on the list twice: neither one that DexScreener names   *)
(* twice in an answer nor one that the cap pushed off (discovery.rs:53;    *)
(* main.rs:538-545).                                                       *)
THEOREM ListsOnce == Spec => []ListedOnce
<1>1. ListingInv => ListedOnce
  BY DEF ListingInv
<1> QED
  BY <1>1, InitListingInv, NextListingInv, PTL DEF Spec
-----------------------------------------------------------------------------
(* Admission.  Whatever is in a batch was admitted, by its mint account    *)
(* only without an authority; what is on the list was in a batch.          *)
AdmissionInv ==
  /\ TypeInv
  /\ \A t \in Tokens : grounds[t] = "mint account" => t \notin Authorities
  /\ \A t \in Named(batch) \union (Named(discovered) \ Named(Watched)) : grounds[t] # Nothing

(* Nothing has been admitted yet.                                          *)
LEMMA InitAdmissionInv == Init => AdmissionInv
<1> SUFFICES ASSUME Init PROVE AdmissionInv
  OBVIOUS
<1>1. TypeInv /\ Named(batch) = {} /\ Named(discovered) = Named(Watched)
  BY InitTypeInv DEF Init, Named, ToSet
<1>2. \A t \in Tokens : grounds[t] # "mint account"
  BY DEF Init, Nothing
<1> QED
  BY <1>1, <1>2 DEF AdmissionInv

(* Grounds are given once; the mint account is one only without authority. *)
LEMMA AdmittedStay ==
  ASSUME AdmissionInv, NEW admitted, NEW ground \in Grounds,
         grounds' = GroundsWith(admitted, ground),
         ground = "mint account" => admitted \intersect Authorities = {}
  PROVE  /\ \A t \in Tokens : grounds'[t] = "mint account" => t \notin Authorities
         /\ \A t \in Tokens : grounds[t] # Nothing \/ t \in admitted => grounds'[t] # Nothing
<1>1. TypeOK /\ Nothing \notin Grounds
  BY DEF AdmissionInv, TypeInv, Grounds, Nothing
<1> DEFINE new == GroundsWith(admitted, ground)
<1>2. /\ \A t \in Tokens \intersect admitted : new[t] # Nothing
      /\ \A t \in Tokens : \/ new[t] = grounds[t]
                           \/ t \in admitted /\ grounds[t] = Nothing /\ new[t] = ground
  BY <1>1, GroundsOK
<1>3. grounds' = new
  OBVIOUS
<1> HIDE DEF new
<1> QED
  BY <1>1, <1>2, <1>3 DEF AdmissionInv

(* Every step keeps batch and list to what was admitted.                   *)
LEMMA NextAdmissionInv == AdmissionInv /\ [Next]_vars => AdmissionInv'
<1> SUFFICES ASSUME AdmissionInv, [Next]_vars PROVE AdmissionInv'
  OBVIOUS
<1>1. TypeInv /\ TypeInv'
  BY NextTypeInv DEF AdmissionInv
<1>2. /\ candidates \in Seq(Tokens) /\ batch \in Seq(Tokens) /\ discovered \in Seq(Tokens)
      /\ Named(batch) \subseteq Tokens /\ Named(discovered) \subseteq Tokens
      /\ batch' \in Seq(Tokens) /\ Named(batch') \subseteq Tokens
  BY <1>1, NamedTokens DEF TypeInv, TypeOK
<1>3. CASE Check
  <2>1. UNCHANGED discovered /\ Head(candidates) \in Tokens
    BY <1>2, <1>3, TailTokens DEF Check
  <2>2. ASSUME Drop PROVE AdmissionInv'
    BY <1>1, <2>1, <2>2 DEF Drop, AdmissionInv
  <2>3. ASSUME NEW mintRead \in BOOLEAN, NEW report \in {"good", "bad", "none"},
               Admit(Head(candidates), mintRead, report)
        PROVE  AdmissionInv'
    <3> DEFINE h == Head(candidates)
    <3>1. /\ Ground(mintRead, report) \in Grounds
          /\ Ground(mintRead, report) = "mint account" => {h} \intersect Authorities = {}
      BY <2>3 DEF Ground, Grounds, Admit, Safe
    <3>2. grounds' = GroundsWith({h}, Ground(mintRead, report)) /\ batch' = Append(batch, h)
      BY <2>3 DEF Admit
    <3>3. /\ \A t \in Tokens : grounds'[t] = "mint account" => t \notin Authorities
          /\ \A t \in Tokens : grounds[t] # Nothing \/ t \in {h} => grounds'[t] # Nothing
      BY <3>1, <3>2, AdmittedStay
    <3>4. Named(batch') = Named(batch) \union {h}
      BY <1>2, <2>1, <3>2, NamedAppend
    <3> HIDE DEF h
    <3> QED
      BY <1>1, <1>2, <2>1, <3>3, <3>4 DEF AdmissionInv
  <2> QED
    BY <1>3, <2>2, <2>3 DEF Check
<1>4. CASE AskBoosts
  <2>1. UNCHANGED discovered /\ grounds' = GroundsWith(Named(batch'), "boost")
    BY <1>4 DEF AskBoosts
  <2>2. /\ \A t \in Tokens : grounds'[t] = "mint account" => t \notin Authorities
        /\ \A t \in Tokens : grounds[t] # Nothing \/ t \in Named(batch') => grounds'[t] # Nothing
    BY <2>1, AdmittedStay DEF Grounds
  <2> QED
    BY <1>1, <1>2, <2>1, <2>2 DEF AdmissionInv
<1>5. CASE PutOnList
  <2>1. UNCHANGED <<batch, grounds>> /\ batch # <<>>
    BY <1>1, <1>5 DEF PutOnList, TypeInv, StagesOK
  <2>2. Head(batch) \in Tokens /\ Head(batch) \in Named(batch)
    BY <1>2, <2>1, TailTokens DEF Named, ToSet
  <2>3. Named(discovered') \subseteq Named(discovered) \union {Head(batch)}
    <3>1. discovered' = discovered \/ discovered' = Pushed(Head(batch))
      BY <1>5 DEF PutOnList, Pushed
    <3> QED
      BY <1>1, <2>2, <3>1, PushedOK DEF TypeInv
  <2> QED
    BY <1>1, <2>1, <2>2, <2>3 DEF AdmissionInv
<1>6. CASE /\ UNCHANGED <<discovered, grounds>>
           /\ batch' = batch \/ (batch # <<>> /\ batch' = Tail(batch))
  <2>1. Named(batch') \subseteq Named(batch)
    BY <1>2, <1>6, NamedTail
  <2> QED
    BY <1>1, <1>6, <2>1 DEF AdmissionInv
<1>7. \/ AskProfiles \/ Checked \/ FindPools \/ FirstScanReturns \/ NextSource
      \/ StartCycle \/ ScanReturns \/ ScanHangs \/ UNCHANGED vars
      => /\ UNCHANGED <<discovered, grounds>>
         /\ batch' = batch \/ (batch # <<>> /\ batch' = Tail(batch))
  BY <1>1 DEF AskProfiles, Checked, FindPools, FirstScanReturns, NextSource, StartCycle,
     ScanReturns, ScanHangs, vars, loopVars, history, TypeInv, StagesOK
<1> QED
  BY <1>3, <1>4, <1>5, <1>6, <1>7 DEF Next

(* A listed token the user did not name was admitted, and never on a mint  *)
(* account that shows an authority (discovery.rs:92-130).                  *)
THEOREM KeepsAuthoritiesOut == Spec => []AuthoritiesKeptOut
<1>1. AdmissionInv => AuthoritiesKeptOut
  <2> SUFFICES ASSUME AdmissionInv PROVE AuthoritiesKeptOut
    OBVIOUS
  <2>1. Named(discovered) \subseteq Tokens
    BY NamedTokens DEF AdmissionInv, TypeInv, TypeOK
  <2> QED
    BY <2>1 DEF AdmissionInv, AuthoritiesKeptOut
<1> QED
  BY <1>1, InitAdmissionInv, NextAdmissionInv, PTL DEF Spec

-----------------------------------------------------------------------------
(* Pools.  The token that awaits the list's lock has an entry, and the     *)
(* tokens on the list have theirs: no step takes an entry away.            *)
PoolsInv ==
  /\ TypeInv
  /\ at = "lock" => Head(batch) \in registered
  /\ ListedHasPools

(* The list names what the user named.                                     *)
LEMMA InitPoolsInv == Init => PoolsInv
BY InitTypeInv DEF Init, PoolsInv, ListedHasPools

(* Every step lists only what is registered.                               *)
LEMMA NextPoolsInv == PoolsInv /\ [Next]_vars => PoolsInv'
<1> SUFFICES ASSUME PoolsInv, [Next]_vars PROVE PoolsInv'
  OBVIOUS
<1>1. TypeInv /\ TypeInv'
  BY NextTypeInv DEF PoolsInv
<1>2. registered \subseteq registered'
  BY DEF Next, AskProfiles, Check, Checked, AskBoosts, FindPools, PutOnList, FirstScanReturns,
     NextSource, StartCycle, ScanReturns, ScanHangs, RegisterPools, vars, loopVars
<1>3. CASE FindPools
  <2>1. UNCHANGED discovered /\ (at' = "lock" => batch' = batch /\ Head(batch) \in registered')
    BY <1>3 DEF FindPools, RegisterPools, PoolCounts
  <2> QED
    BY <1>1, <1>2, <2>1 DEF PoolsInv, ListedHasPools
<1>4. CASE PutOnList
  <2>1. at = "lock" /\ at' = "scan" /\ UNCHANGED registered /\ Head(batch) \in Tokens
    BY <1>1, <1>4, TailTokens DEF PutOnList, TypeInv, TypeOK, StagesOK
  <2>2. Named(discovered') \subseteq Named(discovered) \union {Head(batch)}
    <3>1. discovered' = discovered \/ discovered' = Pushed(Head(batch))
      BY <1>4 DEF PutOnList, Pushed
    <3> QED
      BY <1>1, <2>1, <3>1, PushedOK DEF TypeInv
  <2> QED
    BY <1>1, <2>1, <2>2 DEF PoolsInv, ListedHasPools
<1>5. CASE UNCHANGED discovered /\ (at' = "lock" => at = "lock" /\ batch' = batch)
  BY <1>1, <1>2, <1>5 DEF PoolsInv, ListedHasPools
<1>6. \/ AskProfiles \/ Check \/ Checked \/ AskBoosts \/ FirstScanReturns \/ NextSource
      \/ StartCycle \/ ScanReturns \/ ScanHangs \/ UNCHANGED vars
      => UNCHANGED discovered /\ (at' = "lock" => at = "lock" /\ batch' = batch)
  BY DEF AskProfiles, Check, Checked, AskBoosts, FirstScanReturns, NextSource, StartCycle,
     ScanReturns, ScanHangs, vars, loopVars
<1> QED
  BY <1>3, <1>4, <1>5, <1>6 DEF Next

(* A token is listed only with its pools registered, and they stay         *)
(* (main.rs:513, 538; local_scanner.rs:506, 517-521).                      *)
THEOREM ListsWithPools == Spec => []ListedHasPools
<1>1. PoolsInv => ListedHasPools
  BY DEF PoolsInv
<1> QED
  BY <1>1, InitPoolsInv, NextPoolsInv, PTL DEF Spec
=============================================================================

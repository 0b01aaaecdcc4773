---------------------------- MODULE VolumeTracker ----------------------------
(***************************************************************************)
(* The volume tracker (arb-detect/src/volume_tracker.rs) at its place in   *)
(* the main loop: every signal taken from the feed is recorded, and every  *)
(* CleanupEvery-th cleans up.  A token whose recent swaps outnumber its    *)
(* average is flagged hot; the flag is logged.  The times recorded are     *)
(* those at which the loop takes a signal, not those of the swaps, so a    *)
(* backlog in the channel shows as a burst.                                *)
(*                                                                         *)
(* Instants are ages in seconds, as in ForgeFeed.                          *)
(***************************************************************************)
EXTENDS ForgeFeed

CONSTANTS
  Window,        \* WINDOW_SECS (300)
  SpikeWindow,   \* SPIKE_WINDOW_SECS (60)
  Multiplier,    \* SPIKE_MULTIPLIER (3)
  MinHistory,    \* swaps below which nothing is flagged (5)
  HotFor,        \* HOT_DURATION_SECS (300)
  CleanupEvery   \* signals between two clean-ups (1000)

ASSUME TrackerAssumption ==
  /\ Window \in Nat \ {0} /\ SpikeWindow \in Nat \ {0} /\ HotFor \in Nat \ {0}
  /\ SpikeWindow <= Window
  /\ Multiplier \in Nat \ {0} /\ MinHistory \in Nat \ {0} /\ CleanupEvery \in Nat \ {0}

VARIABLES
  swaps,      \* per token: ages of the swaps in its deque, oldest first
  hot,        \* per token: age of its entry in hot_tokens, or Absent
  heard,      \* per token: ages of the swaps recorded in the window (history)
  sinceFlag   \* per token: age of its last flag, capped at HotFor (history)

trackerVars == <<swaps, hot, heard, sinceFlag>>
feedTrackerVars == <<vars, trackerVars>>

-----------------------------------------------------------------------------
(* A deque without its first n swaps; what is older than the window is     *)
(* popped from the front.  Faulty variant: the bound itself is popped.     *)
Drop(ages, n) == SubSeq(ages, n + 1, Len(ages))
FrontOver(ages, limit) ==
  Cardinality({n \in DOMAIN ages : \A i \in 1..n : ages[i] > limit})
PruneEarly(ages) == Drop(ages, FrontOver(ages, Window - 1))
Prune(ages) == Drop(ages, FrontOver(ages, Window))

Recent(ages) == Cardinality({i \in DOMAIN ages : ages[i] < SpikeWindow})

(* recent > Multiplier * average per SpikeWindow, the average being taken  *)
(* over the time since the oldest swap kept, at least a second.            *)
(* Faulty variant: it is the average of the swaps before the recent ones.  *)
Duration(ages) == IF ages[1] < 1 THEN 1 ELSE ages[1]
SpikeOverOlder(ages) ==
  Recent(ages) * Duration(ages) > Multiplier * (Len(ages) - Recent(ages)) * SpikeWindow
Spike(ages) ==
  Recent(ages) * Duration(ages) > Multiplier * Len(ages) * SpikeWindow

IsHot(t) == hot[t] # Absent /\ hot[t] < HotFor

(* record_swap: is token t, with the deque ages, flagged by this swap?     *)
Flagged(t, ages) == Len(ages) >= MinHistory /\ Spike(ages) /\ ~IsHot(t)

TrackerInit ==
  /\ Init
  /\ swaps = [t \in Tokens |-> <<>>]
  /\ hot = [t \in Tokens |-> Absent]
  /\ heard = [t \in Tokens |-> <<>>]
  /\ sinceFlag = [t \in Tokens |-> HotFor]

(* cleanup drops expired flags and swaps.                                  *)
CleanFlags(flags) == [t \in Tokens |-> IF flags[t] < HotFor THEN flags[t] ELSE Absent]
CleanSwaps(all) == [t \in Tokens |-> Prune(all[t])]

(* The main loop takes a signal and records it.                            *)
Record ==
  LET t     == Head(chan).token
      ages  == Prune(Append(swaps[t], 0))
      all   == [swaps EXCEPT ![t] = ages]
      flags == IF Flagged(t, ages) THEN [hot EXCEPT ![t] = 0] ELSE hot
      due   == (taken + 1) % CleanupEvery = 0
  IN  /\ Receive
      /\ swaps' = IF due THEN CleanSwaps(all) ELSE all
      /\ hot' = IF due THEN CleanFlags(flags) ELSE flags
      /\ heard' = [heard EXCEPT ![t] = Append(@, 0)]
      /\ sinceFlag' = [sinceFlag EXCEPT ![t] = IF Flagged(t, ages) THEN 0 ELSE @]
      /\ UNCHANGED feedVars

(* A second passes for the feed and the tracker alike; what has become     *)
(* older than the window is no longer among the swaps heard.               *)
OlderAll(seq) == [i \in DOMAIN seq |-> Older(seq[i], Window + 1)]
StillHeard(ages) == Drop(ages, Cardinality({i \in DOMAIN ages : ages[i] > Window}))
Second ==
  /\ Tick
  /\ swaps' = [t \in Tokens |-> OlderAll(swaps[t])]
  /\ heard' = [t \in Tokens |-> StillHeard(OlderAll(heard[t]))]
  /\ hot' = [t \in Tokens |-> Older(hot[t], HotFor)]
  /\ sinceFlag' = [t \in Tokens |-> Older(sinceFlag[t], HotFor)]
  /\ UNCHANGED taken

FeedOnly ==
  /\ \/ ConnectOk
     \/ SessionEnds
     \/ Restart
     \/ \E s \in Swaps : ReadSwap(s)
     \/ SendSignal
  /\ UNCHANGED <<taken, trackerVars>>

TrackerNext == FeedOnly \/ Second \/ Record

TrackerFairness ==
  /\ WF_feedTrackerVars(Second)
  /\ WF_feedTrackerVars(Restart /\ UNCHANGED <<taken, trackerVars>>)
  /\ WF_feedTrackerVars(SendSignal /\ UNCHANGED <<taken, trackerVars>>)
  /\ WF_feedTrackerVars(Record)

TrackerSpec == TrackerInit /\ [][TrackerNext]_feedTrackerVars /\ TrackerFairness

-----------------------------------------------------------------------------
TrackerTypeOK ==
  /\ TypeOK
  /\ swaps \in [Tokens -> Seq(0..(Window + 1))]
  /\ hot \in [Tokens -> Absent..HotFor]
  /\ heard \in [Tokens -> Seq(0..Window)]
  /\ sinceFlag \in [Tokens -> 0..HotFor]

(* The alert a reader of the log relies on: the swap just taken flags its  *)
(* token exactly when, over the swaps recorded for the token in the last   *)
(* Window seconds, the recent ones outnumber the average so often and the  *)
(* token has not been flagged for HotFor seconds.  Pruning and the clean-up of   *)
(* deques and flags, at whatever signal they fall, change no verdict       *)
(* (volume_tracker.rs:37-77, 101-115; main.rs:781-786).                    *)
Deserves(t) ==
  LET ages == heard'[t]
      span == IF ages[1] < 1 THEN 1 ELSE ages[1]
  IN  /\ Len(ages) >= MinHistory
      /\ Recent(ages) * span > Multiplier * Len(ages) * SpikeWindow
      /\ sinceFlag[t] >= HotFor
AlertsExact ==
  [][taken' # taken =>
       LET t == Head(chan).token
       IN  (hot'[t] = 0 /\ hot[t] # 0) <=> Deserves(t)]_feedTrackerVars

(* What the module's head calls a spike: the count of the recent swaps     *)
(* exceeds Multiplier times the average over the whole window (volume_     *)
(* tracker.rs:2, 9-11), whatever the age of the oldest swap.               *)
DocumentedSpike(ages) ==
  Recent(ages) * Window > Multiplier * Len(ages) * SpikeWindow

(* No false alert: the code averages over the time since the oldest swap,  *)
(* which can be shorter than the window, and prunes and cleans up lazily;  *)
(* still, every token it flags has a spike by the documented measure over  *)
(* the swaps heard in the window (volume_tracker.rs:37-79).                *)
FlagsAreSpikes ==
  [][\A t \in Tokens : sinceFlag'[t] = 0 /\ sinceFlag[t] # 0 =>
       DocumentedSpike(heard'[t])]_feedTrackerVars

(* No missed alert: "When a token's 1-minute swap count exceeds 3x its     *)
(* 5-minute average, it's flagged" (volume_tracker.rs:2), once there is    *)
(* some history (:46) and unless it is hot already (:69).                  *)
SpikesAreFlagged ==
  [][taken' # taken =>
       LET t == Head(chan).token
       IN  DocumentedSpike(heard'[t]) /\ Len(heard'[t]) >= MinHistory
             /\ sinceFlag[t] >= HotFor
           => sinceFlag'[t] = 0]_feedTrackerVars

(* The debounce bounds what the tracker can hear: in a spike window, at    *)
(* most one signal per debounce window, one for the window that was open   *)
(* before, and what the channel and the blocked send held back, however    *)
(* long the main loop was busy (forge_feed.rs:174-198, main.rs:682, 748).  *)
BurstBounded ==
  \A t \in Tokens :
    Recent(swaps[t]) <= (SpikeWindow - 1) \div Debounce + 1 + ChannelCap + 1
=============================================================================

---------------------------- MODULE FirstSeenCache ----------------------------
(***************************************************************************)
(* FirstSeenAttestationSource of pkg/beaconapi/firstseen.go: per-epoch     *)
(* attestation data behind an LRU cache with single-flight loading.  The   *)
(* first request that misses creates a flight and loads the epoch without  *)
(* the lock; requests that miss meanwhile wait on the flight's done        *)
(* channel and take its outcome; the flight is removed, and its channel    *)
(* closed, under the lock.                                                 *)
(*                                                                         *)
(* A flight is its number; the data of an epoch is the epoch itself.  What *)
(* loadEpoch makes of the rows of a parquet file is left out: it is a      *)
(* function of the file.  So is the copy of the file that localParquetPath *)
(* keeps: it spares a later load the download, and no load's outcome       *)
(* depends on it.                                                          *)
(***************************************************************************)
EXTENDS Integers, Sequences

CONSTANTS Requests,   \* HTTP handler goroutines
          Epochs,     \* epochs they ask for
          CacheSize,  \* EpochCacheSize of the LRU
          MaxCalls,   \* bound on calls of epoch()
          None        \* no flight, no epoch

ASSUME FirstSeenAssumption ==
  /\ CacheSize \in Nat \ {0}
  /\ MaxCalls \in Nat
  /\ Epochs # {}
  /\ None \notin Nat \cup Epochs

VARIABLES cache,     \* the LRU: cached epochs, most recently used first
          inflight,  \* inflight[e]: the flight loading epoch e, or None
          flight,    \* the flights so far, each [epoch, state]
          pc,        \* where each request is
          ask,       \* the epoch a request asks for
          joined,    \* the flight a request leads or waits for
          result,    \* what epoch() returned
          before,    \* the flights that had ended when the request called epoch()
          calls      \* calls of epoch() so far

vars == <<cache, inflight, flight, pc, ask, joined, result, before, calls>>

Flights == 1 .. Len(flight)

Ended == {f \in Flights : flight[f].state # "open"}

Ok(e) == [ok |-> TRUE, epoch |-> e]
Err == [ok |-> FALSE, epoch |-> None]

TypeOK ==
  /\ cache \in Seq(Epochs) /\ Len(cache) <= CacheSize
  /\ \A i, j \in 1 .. Len(cache) : cache[i] = cache[j] => i = j
  /\ inflight \in [Epochs -> Flights \cup {None}]
  /\ flight \in Seq([epoch : Epochs, state : {"open", "ok", "err"}])
  /\ pc \in [Requests -> {"idle", "call", "leading", "waiting", "done"}]
  /\ ask \in [Requests -> Epochs]
  /\ joined \in [Requests -> Flights \cup {None}]
  /\ result \in [Requests -> {Ok(e) : e \in Epochs} \cup {Err}]
  /\ before \in [Requests -> SUBSET Flights]
  /\ calls \in 0 .. MaxCalls
-------------------------------------------------------------------------------
(* The LRU of hashicorp/golang-lru: Get and Add move an entry to the front, *)
(* Add evicts the last one when the cache is full.                          *)
Without(s, e) ==
  IF \E i \in 1 .. Len(s) : s[i] = e
  THEN LET k == CHOOSE i \in 1 .. Len(s) : s[i] = e
       IN  SubSeq(s, 1, k - 1) \o SubSeq(s, k + 1, Len(s))
  ELSE s

Get(s, e) == <<e>> \o Without(s, e)

Add(s, e) ==
  LET t == <<e>> \o Without(s, e)
  IN  IF Len(t) > CacheSize THEN SubSeq(t, 1, CacheSize) ELSE t

IsCached(e) == \E i \in 1 .. Len(cache) : cache[i] = e
-------------------------------------------------------------------------------
Init ==
  /\ cache = <<>>
  /\ inflight = [e \in Epochs |-> None]
  /\ flight = <<>>
  /\ pc = [r \in Requests |-> "idle"]
  /\ ask = [r \in Requests |-> CHOOSE e \in Epochs : TRUE]
  /\ joined = [r \in Requests |-> None]
  /\ result = [r \in Requests |-> Err]
  /\ before = [r \in Requests |-> {}]
  /\ calls = 0

(* A slot request reaches AttestationsForSlot and calls epoch(e). *)
Call(r, e) ==
  /\ pc[r] \in {"idle", "done"}
  /\ calls < MaxCalls
  /\ calls' = calls + 1
  /\ pc' = [pc EXCEPT ![r] = "call"]
  /\ ask' = [ask EXCEPT ![r] = e]
  /\ joined' = [joined EXCEPT ![r] = None]
  /\ result' = [result EXCEPT ![r] = Err]
  /\ before' = [before EXCEPT ![r] = Ended]
  /\ UNCHANGED <<cache, inflight, flight>>

(* Under the lock: the epoch is cached. *)
Hit(r) ==
  /\ pc[r] = "call"
  /\ IsCached(ask[r])
  /\ cache' = Get(cache, ask[r])
  /\ result' = [result EXCEPT ![r] = Ok(ask[r])]
  /\ pc' = [pc EXCEPT ![r] = "done"]
  /\ UNCHANGED <<inflight, flight, ask, joined, before, calls>>

(* Under the lock: somebody is loading the epoch; wait for that flight. *)
Join(r) ==
  /\ pc[r] = "call"
  /\ ~ IsCached(ask[r])
  /\ inflight[ask[r]] # None
  /\ joined' = [joined EXCEPT ![r] = inflight[ask[r]]]
  /\ pc' = [pc EXCEPT ![r] = "waiting"]
  /\ UNCHANGED <<cache, inflight, flight, ask, result, before, calls>>

(* Bug: the inflight map is not consulted. *)
LeadAlways(r) ==
  /\ pc[r] = "call"
  /\ ~ IsCached(ask[r])
  /\ flight' = Append(flight, [epoch |-> ask[r], state |-> "open"])
  /\ inflight' = [inflight EXCEPT ![ask[r]] = Len(flight) + 1]
  /\ joined' = [joined EXCEPT ![r] = Len(flight) + 1]
  /\ pc' = [pc EXCEPT ![r] = "leading"]
  /\ UNCHANGED <<cache, ask, result, before, calls>>

(* Under the lock: nobody is; start a flight. *)
Lead(r) ==
  /\ pc[r] = "call"
  /\ ~ IsCached(ask[r])
  /\ inflight[ask[r]] = None
  /\ flight' = Append(flight, [epoch |-> ask[r], state |-> "open"])
  /\ inflight' = [inflight EXCEPT ![ask[r]] = Len(flight) + 1]
  /\ joined' = [joined EXCEPT ![r] = Len(flight) + 1]
  /\ pc' = [pc EXCEPT ![r] = "leading"]
  /\ UNCHANGED <<cache, ask, result, before, calls>>

(* loadEpoch succeeded (localParquetPath has or downloads the file); under  *)
(* the lock: cache it, end the flight, return it.                           *)
LoadOk(r) ==
  /\ pc[r] = "leading"
  /\ cache' = Add(cache, ask[r])
  /\ flight' = [flight EXCEPT ![joined[r]].state = "ok"]
  /\ inflight' = [inflight EXCEPT ![ask[r]] = None]
  /\ result' = [result EXCEPT ![r] = Ok(ask[r])]
  /\ pc' = [pc EXCEPT ![r] = "done"]
  /\ UNCHANGED <<ask, joined, before, calls>>

(* Bug: a failed flight stays in the inflight map. *)
LoadErrKeepsFlight(r) ==
  /\ pc[r] = "leading"
  /\ flight' = [flight EXCEPT ![joined[r]].state = "err"]
  /\ result' = [result EXCEPT ![r] = Err]
  /\ pc' = [pc EXCEPT ![r] = "done"]
  /\ UNCHANGED <<cache, inflight, ask, joined, before, calls>>

(* Bug: an error returns without closing the done channel. *)
LoadErrLeavesOpen(r) ==
  /\ pc[r] = "leading"
  /\ UNCHANGED flight
  /\ inflight' = [inflight EXCEPT ![ask[r]] = None]
  /\ result' = [result EXCEPT ![r] = Err]
  /\ pc' = [pc EXCEPT ![r] = "done"]
  /\ UNCHANGED <<cache, ask, joined, before, calls>>

(* loadEpoch failed, before or after the download; under the lock: end the  *)
(* flight with the error, cache nothing.                                    *)
LoadErr(r) ==
  /\ pc[r] = "leading"
  /\ flight' = [flight EXCEPT ![joined[r]].state = "err"]
  /\ inflight' = [inflight EXCEPT ![ask[r]] = None]
  /\ result' = [result EXCEPT ![r] = Err]
  /\ pc' = [pc EXCEPT ![r] = "done"]
  /\ UNCHANGED <<cache, ask, joined, before, calls>>

(* <-in.done returned: take the flight's outcome, without the lock. *)
Wake(r) ==
  /\ pc[r] = "waiting"
  /\ flight[joined[r]].state # "open"
  /\ result' = [result EXCEPT ![r] =
                  IF flight[joined[r]].state = "ok" THEN Ok(flight[joined[r]].epoch) ELSE Err]
  /\ pc' = [pc EXCEPT ![r] = "done"]
  /\ UNCHANGED <<cache, inflight, flight, ask, joined, before, calls>>

Step(r) == Hit(r) \/ Join(r) \/ Lead(r) \/ LoadOk(r) \/ LoadErr(r) \/ Wake(r)

Next == \E r \in Requests :
          \/ \E e \in Epochs : Call(r, e)
          \/ Hit(r)
          \/ Join(r)
          \/ Lead(r)
          \/ LoadOk(r)
          \/ LoadErr(r)
          \/ Wake(r)

(* Goroutines are scheduled, and every load returns or fails. *)
Spec == Init /\ [][Next]_vars /\ \A r \in Requests : WF_vars(Step(r))
-------------------------------------------------------------------------------
(* At most one goroutine loads an epoch at a time, it is the one the        *)
(* inflight map names, and an epoch that is cached is not being loaded.     *)
SingleFlight ==
  /\ \A r, q \in Requests :
       pc[r] = "leading" /\ pc[q] = "leading" /\ ask[r] = ask[q] => r = q
  /\ \A r \in Requests : pc[r] = "leading" =>
       inflight[ask[r]] = joined[r] /\ ~ IsCached(ask[r])
  /\ \A e \in Epochs : inflight[e] # None =>
       \E r \in Requests : pc[r] = "leading" /\ joined[r] = inflight[e]

(* A request gets the epoch it asked for, from a load that succeeded,       *)
(* whatever was evicted or reloaded while it waited; or the error of a load *)
(* that was still under way when it called: a failed load is retried by the *)
(* next caller, neither remembered nor cached.                              *)
FreshOutcome ==
  \A r \in Requests : pc[r] = "done" =>
    \/ /\ result[r] = Ok(ask[r])
       /\ \E f \in Flights : flight[f] = [epoch |-> ask[r], state |-> "ok"]
    \/ /\ result[r] = Err
       /\ joined[r] \in Flights \ before[r]
       /\ flight[joined[r]] = [epoch |-> ask[r], state |-> "err"]

(* Every call of epoch() returns: no waiter is left on an open channel. *)
EveryCallReturns ==
  \A r \in Requests : pc[r] = "call" ~> pc[r] = "done"

=============================================================================

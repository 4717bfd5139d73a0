------------------------ MODULE FirstSeenCacheProofs ------------------------
(***************************************************************************)
(* FirstSeenCache for any number of requests, epochs and calls and any     *)
(* cache size.  SingleFlight and FreshOutcome are not inductive: what a    *)
(* request will return depends on the flight it leads or waits for         *)
(* (Leads, Waits), on what it saw when it called (SawEnded), and on where  *)
(* the cached epochs came from (CacheLoaded).                              *)
(***************************************************************************)
EXTENDS FirstSeenCache, SequenceTheorems, TLAPS

(* Elems: the epochs in a cache list. *)
Elems(s) == {s[i] : i \in 1 .. Len(s)}

(* Distinct: an LRU list names an epoch once. *)
Distinct(s) == \A i, j \in 1 .. Len(s) : s[i] = s[j] => i = j

(* WithoutFacts: taking an entry out of a list of distinct entries leaves   *)
(* the others, and no longer list.                                          *)
LEMMA WithoutFacts ==
  ASSUME NEW s \in Seq(Epochs), NEW e \in Epochs, Distinct(s)
  PROVE  /\ Without(s, e) \in Seq(Epochs)
         /\ Distinct(Without(s, e))
         /\ Elems(Without(s, e)) = Elems(s) \ {e}
         /\ Len(Without(s, e)) <= Len(s)
         /\ e \in Elems(s) => Len(Without(s, e)) = Len(s) - 1
<1>1. CASE \E i \in 1 .. Len(s) : s[i] = e
  <2>1. PICK k \in 1 .. Len(s) :
               /\ s[k] = e
               /\ Without(s, e) = SubSeq(s, 1, k - 1) \o SubSeq(s, k + 1, Len(s))
    BY <1>1 DEF Without
  <2> DEFINE a == SubSeq(s, 1, k - 1)
             b == SubSeq(s, k + 1, Len(s))
             w == a \o b
  <2>2. /\ a \in Seq(Epochs) /\ Len(a) = k - 1
        /\ \A i \in 1 .. k - 1 : a[i] = s[i]
    BY SubSeqProperties
  <2>3. /\ b \in Seq(Epochs) /\ Len(b) = Len(s) - k
        /\ \A i \in 1 .. Len(s) - k : b[i] = s[k + i]
    BY SubSeqProperties
  <2> HIDE DEF a, b
  <2>4. w \in Seq(Epochs) /\ Len(w) = Len(s) - 1
    <3>1. w \in Seq(Epochs) /\ Len(w) = Len(a) + Len(b)
      BY <2>2, <2>3, ConcatProperties
    <3> HIDE DEF w
    <3> QED BY <2>2, <2>3, <3>1
  <2>5. ASSUME NEW i \in 1 .. Len(w) PROVE w[i] = IF i < k THEN s[i] ELSE s[i + 1]
    <3>1. CASE i < k
      BY <2>2, <2>3, <2>4, <3>1, ConcatProperties
    <3>2. CASE ~(i < k)
      <4>1. w[i] = b[i - (k - 1)]
        BY <2>2, <2>3, <2>4, <3>2, ConcatProperties
      <4>2. i - (k - 1) \in 1 .. Len(s) - k /\ k + (i - (k - 1)) = i + 1
        BY <2>4, <3>2
      <4> QED BY <2>3, <3>2, <4>1, <4>2
    <3> QED BY <3>1, <3>2
  <2>6. Without(s, e) = w
    BY <2>1 DEF a, b
  <2> HIDE DEF w
  <2>7. Distinct(w)
    BY <2>1, <2>4, <2>5 DEF Distinct
  <2>8. \A x \in Elems(w) : x \in Elems(s) /\ x # e
    BY <2>1, <2>4, <2>5 DEF Elems, Distinct
  <2>9. \A x \in Elems(s) : x # e => x \in Elems(w)
    <3> SUFFICES ASSUME NEW i \in 1 .. Len(s), s[i] # e
                 PROVE  \E j \in 1 .. Len(w) : w[j] = s[i]
      BY DEF Elems
    <3>1. CASE i < k
      BY <3>1, <2>4, <2>5
    <3>2. CASE i > k
      <4>1. i - 1 \in 1 .. Len(w) /\ ~(i - 1 < k) /\ (i - 1) + 1 = i
        BY <3>2, <2>4
      <4> QED BY <4>1, <2>5
    <3> QED BY <3>1, <3>2, <2>1
  <2> QED BY <2>4, <2>6, <2>7, <2>8, <2>9
<1>2. CASE ~ \E i \in 1 .. Len(s) : s[i] = e
  BY <1>2 DEF Without, Elems
<1> QED BY <1>1, <1>2

(* FrontFacts: an entry put in front of a list that does not hold it. *)
LEMMA FrontFacts ==
  ASSUME NEW w \in Seq(Epochs), NEW e \in Epochs, Distinct(w), e \notin Elems(w)
  PROVE  /\ <<e>> \o w \in Seq(Epochs)
         /\ Distinct(<<e>> \o w)
         /\ Elems(<<e>> \o w) = Elems(w) \cup {e}
         /\ Len(<<e>> \o w) = Len(w) + 1
<1> DEFINE g == <<e>> \o w
<1>1. g \in Seq(Epochs) /\ Len(g) = Len(w) + 1
  BY ConcatProperties
<1>2. \A i \in 1 .. Len(w) : g[i + 1] = w[i]
  BY ConcatProperties
<1>3. g[1] = e
  BY ConcatProperties
<1> HIDE DEF g
<1>4. ASSUME NEW i \in 1 .. Len(g), i # 1
      PROVE  i - 1 \in 1 .. Len(w) /\ g[i] = w[i - 1] /\ g[i] # e
  <2>1. i - 1 \in 1 .. Len(w) /\ (i - 1) + 1 = i
    BY <1>1, <1>4
  <2> QED BY <1>2, <2>1 DEF Elems
<1>5. Distinct(g)
  <2> SUFFICES ASSUME NEW i \in 1 .. Len(g), NEW j \in 1 .. Len(g), g[i] = g[j]
               PROVE  i = j
    BY DEF Distinct
  <2>1. CASE i # 1 /\ j # 1
    <3>1. /\ i - 1 \in 1 .. Len(w) /\ g[i] = w[i - 1]
          /\ j - 1 \in 1 .. Len(w) /\ g[j] = w[j - 1]
      BY <2>1, <1>4
    <3>2. i - 1 = j - 1
      BY <3>1 DEF Distinct
    <3> QED BY <3>2
  <2> QED BY <1>3, <1>4, <2>1
<1>6. \A x \in Elems(g) : x = e \/ x \in Elems(w)
  <2> SUFFICES ASSUME NEW i \in 1 .. Len(g) PROVE g[i] = e \/ g[i] \in Elems(w)
    BY DEF Elems
  <2> QED BY <1>3, <1>4 DEF Elems
<1>7. \A x \in Elems(w) : x \in Elems(g)
  <2> SUFFICES ASSUME NEW i \in 1 .. Len(w) PROVE \E j \in 1 .. Len(g) : g[j] = w[i]
    BY DEF Elems
  <2>1. i + 1 \in 1 .. Len(g)
    BY <1>1
  <2> QED BY <1>2, <2>1
<1>8. e \in Elems(g)
  BY <1>1, <1>3 DEF Elems
<1> QED
  BY <1>1, <1>5, <1>6, <1>7, <1>8 DEF g

(* GetFacts: a cache hit reorders the list and changes nothing else. *)
LEMMA GetFacts ==
  ASSUME NEW s \in Seq(Epochs), NEW e \in Elems(s), Distinct(s)
  PROVE  /\ Get(s, e) \in Seq(Epochs)
         /\ Distinct(Get(s, e))
         /\ Elems(Get(s, e)) = Elems(s)
         /\ Len(Get(s, e)) = Len(s)
<1> DEFINE w == Without(s, e)
<1>0. e \in Epochs
  BY DEF Elems
<1>1. /\ w \in Seq(Epochs) /\ Distinct(w) /\ Elems(w) = Elems(s) \ {e}
      /\ Len(w) = Len(s) - 1
  BY <1>0, WithoutFacts
<1>2. Get(s, e) = <<e>> \o w
  BY DEF Get
<1> HIDE DEF w
<1>3. /\ Get(s, e) \in Seq(Epochs) /\ Distinct(Get(s, e))
      /\ Elems(Get(s, e)) = Elems(w) \cup {e}
      /\ Len(Get(s, e)) = Len(w) + 1
  BY <1>0, <1>1, <1>2, FrontFacts
<1> QED
  BY <1>1, <1>3

(* AddFacts: adding an entry caches it, keeps the list within its size and  *)
(* caches nothing that was not cached.                                      *)
LEMMA AddFacts ==
  ASSUME NEW s \in Seq(Epochs), NEW e \in Epochs, Distinct(s)
  PROVE  /\ Add(s, e) \in Seq(Epochs)
         /\ Distinct(Add(s, e))
         /\ Elems(Add(s, e)) \subseteq Elems(s) \cup {e}
         /\ Len(Add(s, e)) <= CacheSize
<1> USE FirstSeenAssumption
<1> DEFINE w == Without(s, e)
           t == <<e>> \o w
<1>1. w \in Seq(Epochs) /\ Distinct(w) /\ Elems(w) = Elems(s) \ {e}
  BY WithoutFacts
<1> HIDE DEF w
<1>2. t \in Seq(Epochs) /\ Distinct(t) /\ Elems(t) = Elems(w) \cup {e}
  BY <1>1, FrontFacts
<1>3. Add(s, e) = IF Len(t) > CacheSize THEN SubSeq(t, 1, CacheSize) ELSE t
  BY DEF Add, w
<1> HIDE DEF t
<1>4. CASE Len(t) > CacheSize
  <2> DEFINE u == SubSeq(t, 1, CacheSize)
  <2>1. /\ u \in Seq(Epochs) /\ Len(u) = CacheSize
        /\ \A i \in 1 .. CacheSize : u[i] = t[i]
    BY <1>2, <1>4, SubSeqProperties
  <2> HIDE DEF u
  <2>2. Distinct(u)
    BY <1>2, <1>4, <2>1 DEF Distinct
  <2>3. \A x \in Elems(u) : x \in Elems(t)
    BY <1>2, <1>4, <2>1 DEF Elems
  <2> QED BY <1>1, <1>2, <1>3, <1>4, <2>1, <2>2, <2>3 DEF u
<1>5. CASE ~(Len(t) > CacheSize)
  BY <1>1, <1>2, <1>3, <1>5
<1> QED BY <1>4, <1>5
-------------------------------------------------------------------------------
(* Leads: a leader's flight is open, for the epoch it asks for, and it is   *)
(* the one in the inflight map; the epoch is not cached.                    *)
Leads ==
  \A r \in Requests : pc[r] = "leading" =>
    /\ joined[r] \in Flights
    /\ flight[joined[r]] = [epoch |-> ask[r], state |-> "open"]
    /\ inflight[ask[r]] = joined[r]
    /\ ~ IsCached(ask[r])

(* OneLeader: an epoch has one leader. *)
OneLeader ==
  \A r, q \in Requests :
    pc[r] = "leading" /\ pc[q] = "leading" /\ ask[r] = ask[q] => r = q

(* Led: every flight in the inflight map has its leader. *)
Led ==
  \A e \in Epochs : inflight[e] # None =>
    \E r \in Requests : pc[r] = "leading" /\ ask[r] = e /\ joined[r] = inflight[e]

(* Waits: a waiter waits for a flight of its epoch that had not ended when  *)
(* it called.                                                               *)
Waits ==
  \A r \in Requests : pc[r] = "waiting" =>
    /\ joined[r] \in Flights /\ joined[r] \notin before[r]
    /\ flight[joined[r]].epoch = ask[r]

(* SawEnded: a flight that had ended stays ended. *)
SawEnded == \A r \in Requests : before[r] \subseteq Ended

(* CacheLoaded: a cached epoch was loaded. *)
CacheLoaded ==
  \A e \in Elems(cache) :
    \E f \in Flights : flight[f] = [epoch |-> e, state |-> "ok"]

IInv == /\ TypeOK /\ Leads /\ OneLeader /\ Led /\ Waits /\ SawEnded /\ CacheLoaded
        /\ FreshOutcome

(* CachedIsElem: IsCached asks whether the list holds the epoch. *)
LEMMA CachedIsElem == \A e : IsCached(e) <=> e \in Elems(cache)
BY DEF IsCached, Elems

(* LeadFlight: starting a flight leaves the others as they are. *)
LEMMA LeadFlight ==
  ASSUME TypeOK, NEW r \in Requests, Lead(r)
  PROVE  /\ flight' \in Seq([epoch : Epochs, state : {"open", "ok", "err"}])
         /\ Len(flight') = Len(flight) + 1
         /\ \A f \in Flights : flight'[f] = flight[f]
         /\ flight'[Len(flight) + 1] = [epoch |-> ask[r], state |-> "open"]
<1>1. [epoch |-> ask[r], state |-> "open"] \in [epoch : Epochs, state : {"open", "ok", "err"}]
  BY DEF TypeOK
<1> QED
  BY <1>1 DEF TypeOK, Lead, Flights

(* EndFlight: ending a flight leaves the others as they are. *)
LEMMA EndFlight ==
  ASSUME TypeOK, Leads, NEW r \in Requests, pc[r] = "leading", NEW st \in {"ok", "err"},
         flight' = [flight EXCEPT ![joined[r]].state = st]
  PROVE  /\ flight' \in Seq([epoch : Epochs, state : {"open", "ok", "err"}])
         /\ Len(flight') = Len(flight)
         /\ \A f \in Flights : f # joined[r] => flight'[f] = flight[f]
         /\ flight'[joined[r]] = [epoch |-> ask[r], state |-> st]
<1>1. /\ flight \in Seq([epoch : Epochs, state : {"open", "ok", "err"}])
      /\ joined[r] \in 1 .. Len(flight)
      /\ flight[joined[r]] = [epoch |-> ask[r], state |-> "open"]
      /\ ask[r] \in Epochs
  BY DEF TypeOK, Leads, Flights
<1>2. [flight[joined[r]] EXCEPT !.state = st] = [epoch |-> ask[r], state |-> st]
  BY <1>1
<1>3. flight' = [flight EXCEPT ![joined[r]] = [epoch |-> ask[r], state |-> st]]
  BY <1>1, <1>2
<1>4. [epoch |-> ask[r], state |-> st] \in [epoch : Epochs, state : {"open", "ok", "err"}]
  BY <1>1
<1> QED
  BY <1>1, <1>3, <1>4 DEF Flights

(* TypeStep: every step preserves the types; the LRU list stays within its  *)
(* size and never names an epoch twice.                                     *)
LEMMA TypeStep == ASSUME TypeOK, Leads, Waits, [Next]_vars PROVE TypeOK'
<1> USE FirstSeenAssumption
<1>d. Distinct(cache)
  BY DEF TypeOK, Distinct
<1>1. CASE UNCHANGED vars
  BY <1>1 DEF vars, TypeOK, Flights
<1>2. ASSUME NEW r \in Requests, NEW e \in Epochs, Call(r, e) PROVE TypeOK'
  <2>1. calls' \in 0 .. MaxCalls
    BY <1>2 DEF Call, TypeOK
  <2> QED BY <1>2, <2>1 DEF Call, TypeOK, Flights, Ended
<1>3. ASSUME NEW r \in Requests, Hit(r) PROVE TypeOK'
  <2>1. ask[r] \in Elems(cache)
    BY <1>3, CachedIsElem DEF Hit
  <2>2. cache' \in Seq(Epochs) /\ Distinct(cache') /\ Len(cache') = Len(cache)
    BY <1>3, <1>d, <2>1, GetFacts DEF Hit, TypeOK
  <2> QED BY <1>3, <2>2 DEF Hit, TypeOK, Flights, Distinct
<1>4. ASSUME NEW r \in Requests, Join(r) PROVE TypeOK'
  BY <1>4 DEF Join, TypeOK, Flights
<1>5. ASSUME NEW r \in Requests, Lead(r) PROVE TypeOK'
  <2>1. /\ flight' \in Seq([epoch : Epochs, state : {"open", "ok", "err"}])
        /\ Len(flight') = Len(flight) + 1
    BY <1>5, LeadFlight
  <2>2. Flights \subseteq Flights' /\ Len(flight) + 1 \in Flights'
    BY <2>1 DEF TypeOK, Flights
  <2>3. inflight' \in [Epochs -> Flights' \cup {None}]
    BY <1>5, <2>2 DEF Lead, TypeOK
  <2>4. joined' \in [Requests -> Flights' \cup {None}]
    BY <1>5, <2>2 DEF Lead, TypeOK
  <2>5. before' \in [Requests -> SUBSET Flights']
    BY <1>5, <2>2 DEF Lead, TypeOK
  <2> QED BY <1>5, <2>1, <2>3, <2>4, <2>5 DEF Lead, TypeOK
<1>6. ASSUME NEW r \in Requests, LoadOk(r) PROVE TypeOK'
  <2>1. /\ flight' \in Seq([epoch : Epochs, state : {"open", "ok", "err"}])
        /\ Len(flight') = Len(flight)
    BY <1>6, EndFlight DEF LoadOk
  <2>2. cache' \in Seq(Epochs) /\ Distinct(cache') /\ Len(cache') <= CacheSize
    BY <1>6, <1>d, AddFacts DEF LoadOk, TypeOK
  <2> QED BY <1>6, <2>1, <2>2 DEF LoadOk, TypeOK, Flights, Distinct
<1>7. ASSUME NEW r \in Requests, LoadErr(r) PROVE TypeOK'
  <2>1. /\ flight' \in Seq([epoch : Epochs, state : {"open", "ok", "err"}])
        /\ Len(flight') = Len(flight)
    BY <1>7, EndFlight DEF LoadErr
  <2> QED BY <1>7, <2>1 DEF LoadErr, TypeOK, Flights
<1>8. ASSUME NEW r \in Requests, Wake(r) PROVE TypeOK'
  <2>1. flight[joined[r]].epoch \in Epochs
    BY <1>8 DEF Wake, Waits, TypeOK
  <2> QED BY <1>8, <2>1 DEF Wake, TypeOK, Flights
<1> QED
  BY <1>1, <1>2, <1>3, <1>4, <1>5, <1>6, <1>7, <1>8 DEF Next

(* InvStep: every step preserves the inductive invariant. *)
LEMMA InvStep == ASSUME IInv, [Next]_vars PROVE IInv'
<1> USE FirstSeenAssumption
<1>0. TypeOK /\ TypeOK'
  BY TypeStep DEF IInv
<1>c. (\A e : IsCached(e) <=> e \in Elems(cache)) /\ (\A e : IsCached(e) <=> e \in Elems(cache))'
  BY CachedIsElem DEF IsCached, Elems
<1>d. Distinct(cache)
  BY <1>0 DEF TypeOK, Distinct
<1>1. CASE UNCHANGED vars
  BY <1>0, <1>1 DEF vars, IInv, Leads, OneLeader, Led, Waits, SawEnded, CacheLoaded,
     FreshOutcome, Flights, Ended, Elems, IsCached
<1>2. ASSUME NEW r \in Requests, NEW e \in Epochs, Call(r, e) PROVE IInv'
  <2>1. Leads' /\ OneLeader' /\ Led'
    <3>1. Leads'
      BY <1>0, <1>2 DEF Call, TypeOK, IInv, Leads, Flights, IsCached
    <3>2. OneLeader'
      BY <1>0, <1>2 DEF Call, TypeOK, IInv, OneLeader, Flights
    <3>3. Led'
      BY <1>0, <1>2 DEF Call, TypeOK, IInv, Led, Flights
    <3> QED BY <3>1, <3>2, <3>3
  <2>2. Waits' /\ CacheLoaded'
    BY <1>0, <1>2 DEF Call, TypeOK, IInv, Waits, CacheLoaded, Flights, Elems
  <2>3. SawEnded'
    BY <1>0, <1>2 DEF Call, TypeOK, IInv, SawEnded, Flights, Ended
  <2>4. FreshOutcome'
    BY <1>0, <1>2 DEF Call, TypeOK, IInv, FreshOutcome, Flights
  <2> QED BY <1>0, <2>1, <2>2, <2>3, <2>4 DEF IInv
<1>3. ASSUME NEW r \in Requests, Hit(r) PROVE IInv'
  <2>1. ask[r] \in Elems(cache)
    BY <1>3, <1>c DEF Hit
  <2>2. Elems(cache') = Elems(cache)
    BY <1>0, <1>3, <1>d, <2>1, GetFacts DEF Hit, TypeOK
  <2>3. Leads' /\ OneLeader' /\ Led'
    BY <1>0, <1>3, <1>c, <2>2 DEF Hit, TypeOK, IInv, Leads, OneLeader, Led, Flights
  <2>4. Waits' /\ SawEnded' /\ CacheLoaded'
    BY <1>0, <1>3, <2>2 DEF Hit, TypeOK, IInv, Waits, SawEnded, CacheLoaded, Flights, Ended
  <2>5. FreshOutcome'
    BY <1>0, <1>3, <2>1 DEF Hit, TypeOK, IInv, CacheLoaded, FreshOutcome, Flights
  <2> QED BY <1>0, <2>3, <2>4, <2>5 DEF IInv
<1>4. ASSUME NEW r \in Requests, Join(r) PROVE IInv'
  <2>1. /\ inflight[ask[r]] \in Flights
        /\ flight[inflight[ask[r]]] = [epoch |-> ask[r], state |-> "open"]
    BY <1>0, <1>4 DEF Join, TypeOK, IInv, Led, Leads
  <2>2. inflight[ask[r]] \notin before[r]
    BY <1>4, <2>1 DEF IInv, SawEnded, Ended
  <2>3. Leads' /\ OneLeader' /\ Led'
    BY <1>0, <1>4 DEF Join, TypeOK, IInv, Leads, OneLeader, Led, Flights, IsCached
  <2>4. Waits'
    BY <1>0, <1>4, <2>1, <2>2 DEF Join, TypeOK, IInv, Waits, Flights
  <2>5. SawEnded' /\ CacheLoaded'
    BY <1>0, <1>4 DEF Join, TypeOK, IInv, SawEnded, CacheLoaded, Flights, Ended, Elems
  <2>6. FreshOutcome'
    BY <1>0, <1>4 DEF Join, TypeOK, IInv, FreshOutcome, Flights
  <2> QED BY <1>0, <2>3, <2>4, <2>5, <2>6 DEF IInv
<1>5. ASSUME NEW r \in Requests, Lead(r) PROVE IInv'
  <2> DEFINE n == Len(flight) + 1
  <2>1. /\ \A f \in Flights : flight'[f] = flight[f]
        /\ flight'[n] = [epoch |-> ask[r], state |-> "open"]
        /\ Flights' = Flights \cup {n} /\ n \notin Flights /\ n # None
    BY <1>0, <1>5, LeadFlight DEF TypeOK, Flights
  <2>2. /\ pc' = [pc EXCEPT ![r] = "leading"] /\ joined' = [joined EXCEPT ![r] = n]
        /\ inflight' = [inflight EXCEPT ![ask[r]] = n] /\ inflight[ask[r]] = None
        /\ UNCHANGED <<cache, ask, result, before, calls>>
        /\ pc[r] = "call" /\ ~ IsCached(ask[r])
    BY <1>5 DEF Lead
  <2>t. /\ pc \in [Requests -> {"idle", "call", "leading", "waiting", "done"}]
        /\ ask \in [Requests -> Epochs] /\ joined \in [Requests -> Flights \cup {None}]
        /\ inflight \in [Epochs -> Flights \cup {None}]
        /\ before \in [Requests -> SUBSET Flights]
        /\ result \in [Requests -> {Ok(e) : e \in Epochs} \cup {Err}]
        /\ None \notin Flights
    BY <1>0 DEF TypeOK, Flights
  <2> HIDE DEF n
  <2>3. \A q \in Requests : pc[q] = "leading" => ask[q] # ask[r]
    BY <2>2, <2>t DEF IInv, Leads
  <2>4. Leads'
    BY <1>c, <2>1, <2>2, <2>3, <2>t DEF IInv, Leads
  <2>5. OneLeader'
    BY <2>2, <2>3, <2>t DEF IInv, OneLeader
  <2>6. Led'
    BY <2>1, <2>2, <2>3, <2>t DEF IInv, Led
  <2>7. Waits'
    BY <2>1, <2>2, <2>t DEF IInv, Waits
  <2>8. SawEnded' /\ CacheLoaded'
    BY <2>1, <2>2, <2>t DEF IInv, SawEnded, CacheLoaded, Ended
  <2>9. FreshOutcome'
    BY <2>1, <2>2, <2>t DEF IInv, FreshOutcome
  <2> QED BY <1>0, <2>4, <2>5, <2>6, <2>7, <2>8, <2>9 DEF IInv
<1>6. ASSUME NEW r \in Requests, NEW st \in {"ok", "err"}, pc[r] = "leading",
             flight' = [flight EXCEPT ![joined[r]].state = st],
             inflight' = [inflight EXCEPT ![ask[r]] = None],
             result' = [result EXCEPT ![r] = IF st = "ok" THEN Ok(ask[r]) ELSE Err],
             pc' = [pc EXCEPT ![r] = "done"],
             Elems(cache') \subseteq Elems(cache) \cup IF st = "ok" THEN {ask[r]} ELSE {},
             UNCHANGED <<ask, joined, before, calls>>
      PROVE  IInv'
  <2>t. /\ pc \in [Requests -> {"idle", "call", "leading", "waiting", "done"}]
        /\ ask \in [Requests -> Epochs] /\ joined \in [Requests -> Flights \cup {None}]
        /\ inflight \in [Epochs -> Flights \cup {None}]
        /\ before \in [Requests -> SUBSET Flights]
        /\ result \in [Requests -> {Ok(e) : e \in Epochs} \cup {Err}]
        /\ None \notin Flights
    BY <1>0 DEF TypeOK, Flights
  <2>1. /\ \A f \in Flights : f # joined[r] => flight'[f] = flight[f]
        /\ flight'[joined[r]] = [epoch |-> ask[r], state |-> st]
        /\ Flights' = Flights
    BY <1>0, <1>6, EndFlight DEF Flights, IInv
  <2>2. /\ joined[r] \in Flights /\ flight[joined[r]] = [epoch |-> ask[r], state |-> "open"]
        /\ joined[r] \notin before[r]
    BY <1>6 DEF IInv, Leads, SawEnded, Ended
  <2>3. \A q \in Requests : q # r /\ pc[q] = "leading" => ask[q] # ask[r] /\ joined[q] # joined[r]
    <3>1. ASSUME NEW q \in Requests, q # r, pc[q] = "leading" PROVE ask[q] # ask[r]
      BY <1>6, <3>1 DEF IInv, OneLeader
    <3>2. ASSUME NEW q \in Requests, q # r, pc[q] = "leading" PROVE joined[q] # joined[r]
      <4>1. flight[joined[q]] = [epoch |-> ask[q], state |-> "open"]
        BY <3>2 DEF IInv, Leads
      <4> QED BY <2>2, <3>1, <3>2, <4>1
    <3> QED BY <3>1, <3>2
  <2>4. Leads'
    <3> SUFFICES ASSUME NEW q \in Requests, pc'[q] = "leading"
                 PROVE  /\ joined[q] \in Flights
                        /\ flight'[joined[q]] = [epoch |-> ask[q], state |-> "open"]
                        /\ inflight'[ask[q]] = joined[q]
                        /\ ask[q] \notin Elems(cache')
      BY <1>6, <1>c, <2>1 DEF Leads
    <3>1. q # r /\ pc[q] = "leading"
      BY <1>6, <2>t
    <3>2. /\ joined[q] \in Flights
          /\ flight[joined[q]] = [epoch |-> ask[q], state |-> "open"]
          /\ inflight[ask[q]] = joined[q]
          /\ ask[q] \notin Elems(cache)
      BY <1>c, <3>1 DEF IInv, Leads
    <3>3. ask[q] # ask[r] /\ joined[q] # joined[r]
      BY <2>3, <3>1
    <3> QED BY <1>6, <2>1, <2>t, <3>2, <3>3
  <2>5. OneLeader'
    BY <1>6, <2>t DEF IInv, OneLeader
  <2>6. Led'
    BY <1>6, <2>3, <2>t DEF IInv, Led
  <2>7. Waits'
    BY <1>6, <2>1, <2>2, <2>t DEF IInv, Waits
  <2>8. SawEnded'
    <3>1. Ended \subseteq Ended'
      BY <2>1, <2>2 DEF Ended
    <3> QED BY <1>6, <3>1 DEF IInv, SawEnded
  <2>9. CacheLoaded'
    BY <1>6, <2>1, <2>2 DEF IInv, CacheLoaded
  <2>10. FreshOutcome'
    <3> SUFFICES ASSUME NEW q \in Requests, pc'[q] = "done"
                 PROVE  \/ /\ result'[q] = Ok(ask[q])
                           /\ \E f \in Flights : flight'[f] = [epoch |-> ask[q], state |-> "ok"]
                        \/ /\ result'[q] = Err
                           /\ joined[q] \in Flights \ before[q]
                           /\ flight'[joined[q]] = [epoch |-> ask[q], state |-> "err"]
      <4>1. ask' = ask /\ joined' = joined /\ before' = before /\ Flights' = Flights
        BY <1>6, <2>1
      <4> QED BY <4>1 DEF FreshOutcome
    <3>1. CASE q = r
      BY <1>6, <2>1, <2>2, <2>t, <3>1
    <3>2. CASE q # r
      <4>1. pc[q] = "done" /\ result'[q] = result[q]
        BY <1>6, <2>t, <3>2
      <4>2. \A f \in Flights, x \in Epochs, y \in {"ok", "err"} :
               flight[f] = [epoch |-> x, state |-> y] => flight'[f] = flight[f]
        BY <2>1, <2>2
      <4> QED BY <2>t, <4>1, <4>2 DEF IInv, FreshOutcome
    <3> QED BY <3>1, <3>2
  <2> QED BY <1>0, <2>4, <2>5, <2>6, <2>7, <2>8, <2>9, <2>10 DEF IInv
<1>7. ASSUME NEW r \in Requests, LoadOk(r) PROVE IInv'
  <2>1. Elems(cache') \subseteq Elems(cache) \cup {ask[r]}
    BY <1>0, <1>7, <1>d, AddFacts DEF LoadOk, TypeOK
  <2> QED BY <1>6, <1>7, <2>1 DEF LoadOk
<1>8. ASSUME NEW r \in Requests, LoadErr(r) PROVE IInv'
  <2>1. Elems(cache') = Elems(cache)
    BY <1>8 DEF LoadErr
  <2> QED BY <1>6, <1>8, <2>1 DEF LoadErr
<1>9. ASSUME NEW r \in Requests, Wake(r) PROVE IInv'
  <2> DEFINE f == flight[joined[r]]
  <2>1. joined[r] \in Flights \ before[r] /\ f.epoch = ask[r] /\ f.state # "open"
    BY <1>9 DEF Wake, IInv, Waits
  <2>2. f \in [epoch : Epochs, state : {"open", "ok", "err"}]
    <3>1. /\ flight \in Seq([epoch : Epochs, state : {"open", "ok", "err"}])
          /\ joined[r] \in 1 .. Len(flight)
      BY <1>0, <2>1 DEF TypeOK, Flights
    <3> QED BY <3>1, ElementOfSeq DEF f
  <2> HIDE DEF f
  <2>3. f = [epoch |-> ask[r], state |-> "ok"] \/ f = [epoch |-> ask[r], state |-> "err"]
    BY <2>1, <2>2
  <2>4. Leads' /\ OneLeader' /\ Led'
    BY <1>0, <1>9 DEF Wake, TypeOK, IInv, Leads, OneLeader, Led, Flights, IsCached
  <2>5. Waits'
    BY <1>0, <1>9 DEF Wake, TypeOK, IInv, Waits, Flights
  <2>6. SawEnded'
    BY <1>0, <1>9 DEF Wake, TypeOK, IInv, SawEnded, Flights, Ended
  <2>7. CacheLoaded'
    BY <1>0, <1>9 DEF Wake, TypeOK, IInv, CacheLoaded, Flights, Elems
  <2>8. FreshOutcome'
    BY <1>0, <1>9, <2>1, <2>3 DEF Wake, TypeOK, IInv, FreshOutcome, Flights, f
  <2> QED BY <1>0, <2>4, <2>5, <2>6, <2>7, <2>8 DEF IInv
<1> QED
  BY <1>1, <1>2, <1>3, <1>4, <1>5, <1>7, <1>8, <1>9 DEF Next

(* Inductive: IInv holds in every state of the specification. *)
THEOREM Inductive == Spec => []IInv
<1>1. Init => IInv
  BY FirstSeenAssumption
  DEF Init, IInv, TypeOK, Leads, OneLeader, Led, Waits, SawEnded, CacheLoaded, FreshOutcome,
      Flights, Ended, Elems
<1>2. IInv /\ [Next]_vars => IInv'
  BY InvStep
<1> QED
  BY <1>1, <1>2, PTL DEF Spec

(* TypesHold: in particular the LRU never holds more than EpochCacheSize    *)
(* epochs, and none of them twice.                                          *)
THEOREM TypesHold == Spec => []TypeOK
BY Inductive, PTL DEF IInv

(* OneLoadPerEpoch: epoch() never loads an epoch twice at a time, nor one   *)
(* that is cached, and its inflight map names exactly the loads under way.  *)
THEOREM OneLoadPerEpoch == Spec => []SingleFlight
<1>1. IInv => SingleFlight
  BY DEF IInv, OneLeader, Leads, Led, SingleFlight
<1> QED BY <1>1, Inductive, PTL

(* OutcomeFresh: what epoch() returns is the epoch that was asked for, or   *)
(* the error of a load that had not ended when it was called.               *)
THEOREM OutcomeFresh == Spec => []FreshOutcome
BY Inductive, PTL DEF IInv
=============================================================================

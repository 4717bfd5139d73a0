-------------------------- MODULE TieredFetchProofs --------------------------
(***************************************************************************)
(* TieredFetch for any number of processes, parts, attempts and kills, and *)
(* however many operations fail.  The invariants are not inductive by      *)
(* themselves: Held says what a process holds on its way through a call,   *)
(* which makes a rename or an upload store the whole item, and             *)
(* SleepsBeforeLast is what bounds the count of attempts.                  *)
(***************************************************************************)
EXTENDS TieredFetch, TLAPS

(* Held: a process that writes or uploads holds the whole item, and one     *)
(* that uploads has an S3 store and the item in its directory.              *)
Held ==
  \A p \in Procs :
    /\ pc[p] \in {"write", "upload"} => got[p] = Parts
    /\ pc[p] = "upload" => kind = "s3" /\ local = Parts
    /\ pc[p] = "write" /\ source[p] # "origin" => s3 = Parts \/ kind # "s3"

(* SleepsBeforeLast: a call sleeps only if it has an attempt left. *)
SleepsBeforeLast ==
  \A p \in Procs :
    pc[p] \in {"lookupAgain", "fetchAgain"} => attempt[p] < MaxAttempts

IInv == /\ TypeOK
        /\ SleepsBeforeLast
        /\ WholeOrAbsent
        /\ Held
        /\ ReturnedIsStored
        /\ NotFoundIsReal

(* TypeStep: every step preserves the type invariant; a retry never passes  *)
(* the last attempt and a temporary file never outgrows the item.           *)
LEMMA TypeStep == ASSUME TypeOK, SleepsBeforeLast, [Next]_vars PROVE TypeOK'
<1> USE TieredFetchAssumption DEF TypeOK, Busy, Absent
<1>1. CASE UNCHANGED vars
  BY <1>1 DEF vars
<1>2. ASSUME NEW p \in Procs, Call(p) PROVE TypeOK'
  BY <1>2 DEF Call, Goto
<1>3. ASSUME NEW p \in Procs, S3Hit(p) PROVE TypeOK'
  <2>1. s3 \in 0 .. Parts
    BY <1>3 DEF S3Hit
  <2> QED BY <1>3, <2>1 DEF S3Hit, Obtain, Goto
<1>4. ASSUME NEW p \in Procs, S3Miss(p) PROVE TypeOK'
  BY <1>4 DEF S3Miss, Goto
<1>5. ASSUME NEW p \in Procs, LocalHit(p) PROVE TypeOK'
  <2>1. local \in 0 .. Parts
    BY <1>5 DEF LocalHit
  <2>2. CASE kind = "s3"
    BY <1>5, <2>1, <2>2 DEF LocalHit, Obtain, Goto
  <2>3. CASE kind # "s3"
    BY <1>5, <2>3 DEF LocalHit, Return, Goto
  <2> QED BY <2>2, <2>3
<1>6. ASSUME NEW p \in Procs, LocalMiss(p) PROVE TypeOK'
  BY <1>6 DEF LocalMiss, Goto
<1>7. ASSUME NEW p \in Procs, LookupOk(p) PROVE TypeOK'
  BY <1>7 DEF LookupOk, Goto
<1>8. ASSUME NEW p \in Procs, FetchOk(p) PROVE TypeOK'
  BY <1>8 DEF FetchOk, Obtain, Goto
<1>9. ASSUME NEW p \in Procs, NotFound(p) PROVE TypeOK'
  BY <1>9 DEF NotFound, Return, Goto
<1>10. ASSUME NEW p \in Procs, Transient(p) PROVE TypeOK'
  <2>1. CASE attempt[p] < MaxAttempts
    BY <1>10, <2>1 DEF Transient, Goto, Asleep, Requests
  <2>2. CASE ~(attempt[p] < MaxAttempts)
    BY <1>10, <2>2 DEF Transient, Return, Goto
  <2> QED BY <2>1, <2>2
<1>11. ASSUME NEW p \in Procs, Fails(p) PROVE TypeOK'
  BY <1>11 DEF Fails, Return, Goto
<1>12. ASSUME NEW p \in Procs, WriteTemp(p) PROVE TypeOK'
  BY <1>12 DEF WriteTemp
<1>13. ASSUME NEW p \in Procs, Rename(p) PROVE TypeOK'
  <2>1. CASE kind = "s3" /\ source[p] = "origin"
    BY <1>13, <2>1 DEF Rename, Goto
  <2>2. CASE ~(kind = "s3" /\ source[p] = "origin")
    BY <1>13, <2>2 DEF Rename, Return, Goto
  <2> QED BY <2>1, <2>2
<1>14. ASSUME NEW p \in Procs, Upload(p) PROVE TypeOK'
  BY <1>14 DEF Upload, Return, Goto
<1>15. ASSUME NEW p \in Procs, Crash(p) PROVE TypeOK'
  BY <1>15 DEF Crash, Return, Goto
<1>16. ASSUME NEW p \in Procs, Wake(p) PROVE TypeOK'
  <2>1. attempt[p] + 1 \in 1 .. MaxAttempts
    BY <1>16 DEF Wake, SleepsBeforeLast, Asleep, Requests
  <2> QED BY <1>16, <2>1 DEF Wake, Goto, Asleep, Requests
<1> QED
  BY <1>1, <1>2, <1>3, <1>4, <1>5, <1>6, <1>7, <1>8, <1>9, <1>10, <1>11, <1>12,
     <1>13, <1>14, <1>15, <1>16 DEF Next, Step

(* InvStep: every step preserves the inductive invariant. *)
LEMMA InvStep == ASSUME IInv, [Next]_vars PROVE IInv'
<1> USE TieredFetchAssumption DEF IInv, SleepsBeforeLast, WholeOrAbsent, Held, ReturnedIsStored,
        NotFoundIsReal, Busy, Absent
<1>0. TypeOK'
  BY TypeStep
<1>1. CASE UNCHANGED vars
  BY <1>0, <1>1 DEF vars
<1>2. ASSUME NEW p \in Procs, Call(p) PROVE IInv'
  BY <1>0, <1>2 DEF Call, Goto, TypeOK
<1>3. ASSUME NEW p \in Procs, S3Hit(p) PROVE IInv'
  BY <1>0, <1>3 DEF S3Hit, Obtain, Goto, TypeOK
<1>4. ASSUME NEW p \in Procs, S3Miss(p) PROVE IInv'
  BY <1>0, <1>4 DEF S3Miss, Goto, TypeOK
<1>5. ASSUME NEW p \in Procs, LocalHit(p) PROVE IInv'
  <2>1. CASE kind = "s3"
    BY <1>0, <1>5, <2>1 DEF LocalHit, Obtain, Goto, TypeOK
  <2>2. CASE kind # "s3"
    BY <1>0, <1>5, <2>2 DEF LocalHit, Return, Goto, TypeOK
  <2> QED BY <2>1, <2>2
<1>6. ASSUME NEW p \in Procs, LocalMiss(p) PROVE IInv'
  BY <1>0, <1>6 DEF LocalMiss, Goto, TypeOK
<1>7. ASSUME NEW p \in Procs, LookupOk(p) PROVE IInv'
  BY <1>0, <1>7 DEF LookupOk, Goto, TypeOK
<1>8. ASSUME NEW p \in Procs, FetchOk(p) PROVE IInv'
  BY <1>0, <1>8 DEF FetchOk, Obtain, Goto, TypeOK
<1>9. ASSUME NEW p \in Procs, NotFound(p) PROVE IInv'
  BY <1>0, <1>9 DEF NotFound, Return, Goto, TypeOK
<1>10. ASSUME NEW p \in Procs, Transient(p) PROVE IInv'
  <2>1. CASE attempt[p] < MaxAttempts
    BY <1>0, <1>10, <2>1 DEF Transient, Goto, Asleep, Requests, TypeOK
  <2>2. CASE ~(attempt[p] < MaxAttempts)
    BY <1>0, <1>10, <2>2 DEF Transient, Return, Goto, TypeOK
  <2> QED BY <2>1, <2>2
<1>11. ASSUME NEW p \in Procs, Fails(p) PROVE IInv'
  BY <1>0, <1>11 DEF Fails, Return, Goto, TypeOK
<1>12. ASSUME NEW p \in Procs, WriteTemp(p) PROVE IInv'
  BY <1>0, <1>12 DEF WriteTemp, TypeOK
<1>13. ASSUME NEW p \in Procs, Rename(p) PROVE IInv'
  <2>1. got[p] = Parts /\ local' = Parts
    BY <1>13 DEF Rename, TypeOK
  <2>2. CASE kind = "s3" /\ source[p] = "origin"
    BY <1>0, <1>13, <2>1, <2>2 DEF Rename, Goto, TypeOK
  <2>3. CASE ~(kind = "s3" /\ source[p] = "origin")
    BY <1>0, <1>13, <2>1, <2>3 DEF Rename, Return, Goto, TypeOK
  <2> QED BY <2>2, <2>3
<1>14. ASSUME NEW p \in Procs, Upload(p) PROVE IInv'
  BY <1>0, <1>14 DEF Upload, Return, Goto, TypeOK
<1>15. ASSUME NEW p \in Procs, Crash(p) PROVE IInv'
  BY <1>0, <1>15 DEF Crash, Return, Goto, TypeOK
<1>16. ASSUME NEW p \in Procs, Wake(p) PROVE IInv'
  BY <1>0, <1>16 DEF Wake, Goto, Asleep, Requests, TypeOK
<1> QED
  BY <1>1, <1>2, <1>3, <1>4, <1>5, <1>6, <1>7, <1>8, <1>9, <1>10, <1>11, <1>12,
     <1>13, <1>14, <1>15, <1>16 DEF Next, Step

(* Inductive: IInv holds in every state of the specification. *)
THEOREM Inductive == Spec => []IInv
<1>1. Init => IInv
  BY TieredFetchAssumption
  DEF Init, IInv, SleepsBeforeLast, TypeOK, WholeOrAbsent, Held, ReturnedIsStored, NotFoundIsReal,
      Busy, Absent
<1>2. IInv /\ [Next]_vars => IInv'
  BY InvStep
<1> QED
  BY <1>1, <1>2, PTL DEF Spec

(* TypesHold: in particular no request is tried more than MaxAttempts       *)
(* times, by fetch, lookupSlot or downloadBlock.                            *)
THEOREM TypesHold == Spec => []TypeOK
BY Inductive, PTL DEF IInv

(* NeverPartial: neither cachedOrFetch, cachedOrS3OrFetch nor writeCached   *)
(* ever shows part of an item at the cache path or in the bucket.           *)
THEOREM NeverPartial == Spec => []WholeOrAbsent
BY Inductive, PTL DEF IInv

(* StoredWhenReturned: bytes that a call has returned are in every tier.    *)
THEOREM StoredWhenReturned == Spec => []ReturnedIsStored
BY Inductive, PTL DEF IInv

(* NotFoundOnlyFromOrigin: an outage, a full disk or a kill is never        *)
(* reported as ErrNotFound.                                                 *)
THEOREM NotFoundOnlyFromOrigin == Spec => []NotFoundIsReal
BY Inductive, PTL DEF IInv
===============================================================================

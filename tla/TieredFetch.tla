----------------------------- MODULE TieredFetch -----------------------------
(***************************************************************************)
(* One item fetched through its cache tiers by several processes that      *)
(* share a cache directory and an S3 bucket, any of which may be killed.   *)
(* Three clients have this shape:                                          *)
(*   "s3"       beaconfetch.Fetcher with an S3 store: S3, then the         *)
(*              directory, then the beacon node (cachedOrS3OrFetch);       *)
(*   "dir"      beaconfetch.Fetcher without one (cachedOrFetch);           *)
(*   "archive"  blockarchive.Client: the directory, then the archive's     *)
(*              index and then its block (FetchBlockSSZByRootWithStats).   *)
(*                                                                         *)
(* A file or object is the number of its parts written so far, or Absent.  *)
(* S3 puts are atomic.  Any operation may fail any number of times: that a *)
(* call ends is up to its count of attempts.  Left out: how long it sleeps *)
(* between attempts, and the decoding of what was fetched.                 *)
(***************************************************************************)
EXTENDS Integers

CONSTANTS Procs, Kinds,
          Parts,        \* parts of the item's bytes
          MaxAttempts,  \* beaconFetchMaxAttempts, fetchMaxAttempts
          MaxCrashes    \* bound on killed processes

ASSUME TieredFetchAssumption ==
  /\ Kinds \subseteq {"s3", "dir", "archive"}
  /\ Parts \in Nat \ {0} /\ MaxAttempts \in Nat \ {0}
  /\ MaxCrashes \in Nat

Absent == -1

VARIABLES kind,     \* which of the three clients this is
          origin,   \* "none", "indexed" (listed, block gone) or "has"
          local,    \* the file at the cache path
          s3,       \* the object
          pc,       \* where each process is
          attempt,  \* the attempt of its current request
          got,      \* the bytes it holds
          temp,     \* the parts of its temporary file
          source,   \* the tier its bytes came from
          answer,   \* what its last call returned
          refused,  \* whether the origin answered 404 in its last call (history)
          crashes

vars == <<kind, origin, local, s3, pc, attempt, got, temp, source, answer,
          refused, crashes>>

Requests == {"lookup", "fetch"}

(* The sleep before a request is made again. *)
Asleep(request) == IF request = "lookup" THEN "lookupAgain" ELSE "fetchAgain"

Busy == {"s3", "local", "lookup", "lookupAgain", "fetch", "fetchAgain",
         "write", "upload"}

TypeOK ==
  /\ kind \in Kinds
  /\ origin \in {"none", "indexed", "has"}
  /\ local \in {Absent} \cup 0 .. Parts
  /\ s3 \in {Absent} \cup 0 .. Parts
  /\ pc \in [Procs -> Busy \cup {"idle"}]
  /\ attempt \in [Procs -> 1 .. MaxAttempts]
  /\ got \in [Procs -> 0 .. Parts]
  /\ temp \in [Procs -> 0 .. Parts]
  /\ source \in [Procs -> {"none", "s3", "local", "origin"}]
  /\ answer \in [Procs -> {"none", "ok", "notfound", "error"}]
  /\ refused \in [Procs -> BOOLEAN]
  /\ crashes \in 0 .. MaxCrashes

Init ==
  /\ kind \in Kinds
  /\ origin \in IF kind = "archive" THEN {"none", "indexed", "has"} ELSE {"none", "has"}
  /\ local = Absent
  /\ s3 = Absent
  /\ pc = [p \in Procs |-> "idle"]
  /\ attempt = [p \in Procs |-> 1]
  /\ got = [p \in Procs |-> 0]
  /\ temp = [p \in Procs |-> 0]
  /\ source = [p \in Procs |-> "none"]
  /\ answer = [p \in Procs |-> "none"]
  /\ refused = [p \in Procs |-> FALSE]
  /\ crashes = 0
-------------------------------------------------------------------------------
Goto(p, label) == pc' = [pc EXCEPT ![p] = label]

(* The call ends with this answer. *)
Return(p, result) ==
  /\ Goto(p, "idle")
  /\ answer' = [answer EXCEPT ![p] = result]
  /\ got' = [got EXCEPT ![p] = 0]
  /\ temp' = [temp EXCEPT ![p] = 0]
  /\ source' = [source EXCEPT ![p] = "none"]
  /\ attempt' = [attempt EXCEPT ![p] = 1]

(* The call holds the bytes of a tier and goes on. *)
Obtain(p, tier, bytes, label) ==
  /\ Goto(p, label)
  /\ got' = [got EXCEPT ![p] = bytes]
  /\ source' = [source EXCEPT ![p] = tier]
  /\ attempt' = [attempt EXCEPT ![p] = 1]
  /\ UNCHANGED <<temp, answer>>

Call(p) ==
  /\ pc[p] = "idle"
  /\ Goto(p, IF kind = "s3" THEN "s3" ELSE "local")
  /\ answer' = [answer EXCEPT ![p] = "none"]
  /\ refused' = [refused EXCEPT ![p] = FALSE]
  /\ UNCHANGED <<kind, origin, local, s3, attempt, got, temp, source, crashes>>

(* Client.Download: ObjectExists, then the whole object. *)
S3Hit(p) ==
  /\ pc[p] = "s3"
  /\ s3 # Absent
  /\ Obtain(p, "s3", s3, "write")
  /\ UNCHANGED <<kind, origin, local, s3, refused, crashes>>

S3Miss(p) ==
  /\ pc[p] = "s3"
  /\ s3 = Absent
  /\ Goto(p, "local")
  /\ UNCHANGED <<kind, origin, local, s3, attempt, got, temp, source, answer, refused, crashes>>

(* Bug: a file found in the directory is not uploaded. *)
LocalHitReturns(p) ==
  /\ pc[p] = "local"
  /\ local # Absent
  /\ Return(p, "ok")
  /\ UNCHANGED <<kind, origin, local, s3, refused, crashes>>

(* os.ReadFile of the cache path.  With an S3 store the bytes found there   *)
(* are uploaded before the call returns.                                    *)
LocalHit(p) ==
  /\ pc[p] = "local"
  /\ local # Absent
  /\ IF kind = "s3" THEN Obtain(p, "local", local, "upload") ELSE Return(p, "ok")
  /\ UNCHANGED <<kind, origin, local, s3, refused, crashes>>

LocalMiss(p) ==
  /\ pc[p] = "local"
  /\ local = Absent
  /\ Goto(p, IF kind = "archive" THEN "lookup" ELSE "fetch")
  /\ UNCHANGED <<kind, origin, local, s3, attempt, got, temp, source, answer, refused, crashes>>

(* lookupSlotOnce finds the root in the archive's index. *)
LookupOk(p) ==
  /\ pc[p] = "lookup"
  /\ origin # "none"
  /\ Goto(p, "fetch")
  /\ attempt' = [attempt EXCEPT ![p] = 1]
  /\ UNCHANGED <<kind, origin, local, s3, got, temp, source, answer, refused, crashes>>

FetchOk(p) ==
  /\ pc[p] = "fetch"
  /\ origin = "has"
  /\ Obtain(p, "origin", Parts, "write")
  /\ UNCHANGED <<kind, origin, local, s3, refused, crashes>>

(* A 404, or an index answer without the root: not retried. *)
NotFound(p) ==
  /\ \/ pc[p] = "lookup" /\ origin = "none"
     \/ pc[p] = "fetch" /\ origin # "has"
  /\ Return(p, "notfound")
  /\ refused' = [refused EXCEPT ![p] = TRUE]
  /\ UNCHANGED <<kind, origin, local, s3, crashes>>

(* Bug: one attempt too many. *)
RetryOnceMore(p) ==
  /\ pc[p] \in Requests
  /\ IF attempt[p] <= MaxAttempts
     THEN Goto(p, Asleep(pc[p])) /\ UNCHANGED <<attempt, got, temp, source, answer>>
     ELSE Return(p, "error")
  /\ UNCHANGED <<kind, origin, local, s3, refused, crashes>>

(* Bug: giving up looks like a 404. *)
ExhaustedIsNotFound(p) ==
  /\ pc[p] \in Requests
  /\ IF attempt[p] < MaxAttempts
     THEN Goto(p, Asleep(pc[p])) /\ UNCHANGED <<attempt, got, temp, source, answer>>
     ELSE Return(p, "notfound")
  /\ UNCHANGED <<kind, origin, local, s3, refused, crashes>>

(* A failed transport, a body cut short, or a status worth a retry: the     *)
(* call sleeps before it tries again, or gives up after the last attempt.   *)
Transient(p) ==
  /\ pc[p] \in Requests
  /\ IF attempt[p] < MaxAttempts
     THEN Goto(p, Asleep(pc[p])) /\ UNCHANGED <<attempt, got, temp, source, answer>>
     ELSE Return(p, "error")
  /\ UNCHANGED <<kind, origin, local, s3, refused, crashes>>

(* Bug: the attempt is not counted. *)
WakeUncounted(p) ==
  /\ \E request \in Requests : pc[p] = Asleep(request) /\ Goto(p, request)
  /\ UNCHANGED <<kind, origin, local, s3, attempt, got, temp, source, answer, refused, crashes>>

(* beaconFetchRetrySleep, sleepBeforeRetry: the sleep is over; the loop     *)
(* counts the attempt and makes the request again.                          *)
Wake(p) ==
  /\ \E request \in Requests : pc[p] = Asleep(request) /\ Goto(p, request)
  /\ attempt' = [attempt EXCEPT ![p] = @ + 1]
  /\ UNCHANGED <<kind, origin, local, s3, got, temp, source, answer, refused, crashes>>

(* Any other failure ends the call: an S3 or file error, or a status that   *)
(* is not retried.  writeFileAtomic removes its temporary file.             *)
Fails(p) ==
  /\ pc[p] \in Busy \ {Asleep(request) : request \in Requests}
  /\ Return(p, "error")
  /\ UNCHANGED <<kind, origin, local, s3, refused, crashes>>

(* Bug: the cache path is written in place. *)
WriteInPlace(p) ==
  /\ pc[p] = "write"
  /\ temp[p] < got[p]
  /\ temp' = [temp EXCEPT ![p] = @ + 1]
  /\ local' = temp[p] + 1
  /\ UNCHANGED <<kind, origin, s3, pc, attempt, got, source, answer, refused, crashes>>

(* writeFileAtomic, writeCached: parts go to a temporary file that is then  *)
(* renamed to the cache path.                                               *)
WriteTemp(p) ==
  /\ pc[p] = "write"
  /\ temp[p] < got[p]
  /\ temp' = [temp EXCEPT ![p] = @ + 1]
  /\ UNCHANGED <<kind, origin, local, s3, pc, attempt, got, source, answer, refused, crashes>>

Rename(p) ==
  /\ pc[p] = "write"
  /\ temp[p] = got[p]
  /\ local' = temp[p]
  /\ IF kind = "s3" /\ source[p] = "origin"
     THEN Goto(p, "upload") /\ UNCHANGED <<attempt, got, temp, source, answer>>
     ELSE Return(p, "ok")
  /\ UNCHANGED <<kind, origin, s3, refused, crashes>>

Upload(p) ==
  /\ pc[p] = "upload"
  /\ s3' = got[p]
  /\ Return(p, "ok")
  /\ UNCHANGED <<kind, origin, local, refused, crashes>>

(* The process is killed and started again; its temporary file stays behind *)
(* under a name nothing reads.                                              *)
Crash(p) ==
  /\ pc[p] \in Busy
  /\ crashes < MaxCrashes
  /\ crashes' = crashes + 1
  /\ Return(p, "none")
  /\ UNCHANGED <<kind, origin, local, s3, refused>>

Step(p) ==
  \/ S3Hit(p) \/ S3Miss(p)
  \/ LocalHit(p) \/ LocalMiss(p)
  \/ LookupOk(p) \/ FetchOk(p) \/ NotFound(p)
  \/ Transient(p) \/ Wake(p) \/ Fails(p)
  \/ WriteTemp(p) \/ Rename(p) \/ Upload(p)

Next == \E p \in Procs : Call(p) \/ Step(p) \/ Crash(p)

(* A call that has begun goes on: every HTTP request has a timeout, a sleep *)
(* ends, and nothing in a call waits for another process.  No request is    *)
(* assumed to succeed.                                                      *)
Spec == Init /\ [][Next]_vars /\ \A p \in Procs : WF_vars(Step(p))
-------------------------------------------------------------------------------
(* WholeOrAbsent: whatever two writers and a kill do, neither the cache     *)
(* path nor the bucket ever shows part of an item; there is no later check  *)
(* of length or hash that would notice one.                                 *)
WholeOrAbsent == {local, s3} \subseteq {Absent, Parts}

(* ReturnedIsStored: when a call has returned bytes, every tier that the    *)
(* client has holds them, so that the next process on another machine does  *)
(* not need the origin, also when the bytes were left behind by a process   *)
(* killed between its write and its upload.                                 *)
ReturnedIsStored ==
  \A p \in Procs : answer[p] = "ok" =>
    /\ local = Parts
    /\ kind = "s3" => s3 = Parts

(* NotFoundIsReal: a call answers ErrNotFound only when the origin said so. *)
(* The callers read it as a missed slot or a block nobody has, and go on    *)
(* without the item, so an outage must never look like it.                  *)
NotFoundIsReal ==
  \A p \in Procs : answer[p] = "notfound" => refused[p] /\ origin # "has"

(* CallReturns: every call ends, with an answer or with the process, even   *)
(* if each request it makes times out: the loops of fetch, lookupSlot and   *)
(* downloadBlock count what they retry.                                     *)
CallReturns == \A p \in Procs : pc[p] \in Busy ~> pc[p] = "idle"
===============================================================================

--------------------------- MODULE EraMirrorProofs ---------------------------
(***************************************************************************)
(* Safety of the ERA cache beside the mirror, for any number of processes, *)
(* directories, eras, workers and crashes, however often calls fail.       *)
(*                                                                         *)
(* The argument is by rely and guarantee.  A step of a downloader writes   *)
(* only into its own directory and removes neither file nor object (Kept); *)
(* that is all the other downloaders (OthersKeep) and the mirror           *)
(* (MirrorKeeps) rely on.  A step of the mirror leaves the downloaders and *)
(* their directories alone (Apart, DownloadersKeep).  Each action then has *)
(* one lemma about the state of its own actor.                             *)
(***************************************************************************)
EXTENDS EraMirror, FiniteSetTheorems, WellFoundedInduction, TLAPS

(* MinOf: Min names the smallest element of a non-empty set of eras. *)
LEMMA MinOf ==
  ASSUME NEW S, S \subseteq Eras, S # {}
  PROVE  Min(S) \in S /\ \A y \in S : Min(S) <= y
<1> DEFINE R == {ss \in Nat \X Nat : ss[1] < ss[2]}
<1>0. S \subseteq Nat
  BY EraCacheAssumption
<1>1. IsWellFoundedOn(R, Nat)
  BY NatLessThanWellFounded DEF OpToRel
<1> HIDE DEF R
<1>2. PICK x \in S : \A y \in S : ~ (<<y, x>> \in R)
  BY <1>0, <1>1, WFMin
<1>3. ASSUME NEW y \in S PROVE x <= y
  <2>1. ~ (y < x)
    BY <1>0, <1>2 DEF R
  <2> QED BY <1>0, <2>1
<1> QED BY <1>3 DEF Min

(* Ranges: the eras a process asks for are eras. *)
LEMMA Ranges == \A p \in Procs : RangeOf[p] \subseteq Eras
BY EraCacheAssumption

(* EraRange: the eras of a mirror are a range. *)
LEMMA EraRange ==
  /\ Eras = Min(Eras) .. Max(Eras) /\ Min(Eras) \in Eras /\ Max(Eras) \in Eras
  /\ Min(Eras) \in Nat /\ Max(Eras) \in Nat /\ Min(Eras) <= Max(Eras)
  /\ Cardinality(Eras) = Max(Eras) - Min(Eras) + 1
<1>1. PICK a \in Nat, b \in Nat : a <= b /\ Eras = a .. b
  BY EraMirrorAssumption, EraCacheAssumption
<1>2. Min(Eras) = a
  <2>1. Min(Eras) \in Eras /\ \A y \in Eras : Min(Eras) <= y
    BY <1>1, MinOf
  <2>2. Min(Eras) <= a /\ Min(Eras) \in Nat /\ Min(Eras) >= a
    BY <1>1, <2>1
  <2> QED BY <1>1, <2>2
<1>3. Max(Eras) = b
  <2>1. b \in Eras /\ \A y \in Eras : b >= y
    BY <1>1
  <2>2. Max(Eras) \in Eras /\ \A y \in Eras : Max(Eras) >= y
    BY <2>1 DEF Max
  <2>3. Max(Eras) >= b /\ Max(Eras) \in Nat /\ Max(Eras) <= b
    BY <1>1, <2>1, <2>2
  <2> QED BY <1>1, <2>3
<1>4. Cardinality(a .. b) = b - a + 1
  BY <1>1, FS_Interval
<1> QED BY <1>1, <1>2, <1>3, <1>4

(* FullFile: the parts of a whole file. *)
LEMMA FullFile ==
  /\ Full # Absent /\ {} # Absent /\ Full \subseteq Parts /\ Full = 0 .. 2 * Records
  /\ 2 * Records \in Nat
  /\ \A S : S \subseteq Parts => S # Absent
BY EraCacheAssumption DEF Full, Absent, Parts

(* FullIndex: the index of a whole file names every block. *)
LEMMA FullIndex == buildEraIndex(Full) = {Blocks}
<1>1. Full = 0 .. 2 * Records /\ 2 * Records \in Nat /\ Records \in Nat
  BY FullFile, EraCacheAssumption
<1>2. Max(Full) = 2 * Records
  <2>1. 2 * Records \in Full /\ \A y \in Full : 2 * Records >= y
    BY <1>1
  <2>2. Max(Full) \in Full /\ \A y \in Full : Max(Full) >= y
    BY <2>1 DEF Max
  <2>3. Max(Full) \in Nat /\ Max(Full) >= 2 * Records /\ Max(Full) <= 2 * Records
    BY <1>1, <2>1, <2>2
  <2> QED BY <1>1, <2>3
<1>3. (2 * Records) % 2 # 1
  BY <1>1
<1>4. \A i \in Blocks : {2 * i - 1, 2 * i} \subseteq Full
  BY <1>1 DEF Blocks
<1>5. 0 \in Full
  BY <1>1
<1> QED BY <1>1, <1>2, <1>3, <1>4, <1>5 DEF buildEraIndex
-------------------------------------------------------------------------------
(* Untouched: a process's directory is not shared, and no write into it or    *)
(* into the mirror's was cut short.                                         *)
Untouched(p) == NoSharedDirectory /\ DirOf[p] \notin interrupted /\ MirrorDir \notin interrupted

(* Local: what a downloader has in its directory, wherever it is.  A file   *)
(* it writes is the prefix it has written, one it uploads is whole.         *)
Local(p) ==
  /\ pc[p] \in {"http", "writing", "upload"} => need[p] # {}
  /\ pc[p] \in {"next", "http", "writing", "upload", "ready"} => todo[p] = {}
  /\ pc[p] = "ready" => need[p] = {}
  /\ pc[p] \notin {"idle", "failed"} =>
       \A e \in RangeOf[p] \ (todo[p] \cup need[p]) : File(p, e) # Absent
  /\ pc[p] \in {"writing", "upload"} => File(p, Min(need[p])) # Absent
  /\ NoSharedDirectory /\ pc[p] = "writing" => File(p, Min(need[p])) = 0 .. pos[p] - 1
  /\ NoSharedDirectory /\ pc[p] = "upload" => File(p, Min(need[p])) = Full
  /\ Untouched(p) => \A e \in Eras :
       /\ File(p, e) \in {Absent, Full} \/ (pc[p] = "writing" /\ e = Min(need[p]))
       /\ index[p][e] \in {Absent, Blocks}

(* MirrorFiles: without a write cut short the mirror's files are whole. *)
MirrorFiles ==
  MirrorDir \notin interrupted => \A e \in Eras : disk[MirrorDir][e] \in {Absent, Full}

Busy == {"exists", "http", "upload", "remove"}

(* Jobs: each era is with one worker at most. *)
Jobs ==
  /\ \A m \in Workers : wpc[m] \in Busy <=> job[m] \in Eras
  /\ \A m, n \in Workers : job[m] \in Eras /\ job[m] = job[n] => m = n
  /\ producer = "sending" => \A m \in Workers : job[m] \in Eras => job[m] < nextEra
  /\ producer \in {"off", "err", "ok"} => \A m \in Workers : wpc[m] = "returned"
  /\ \A m \in Workers : wpc[m] = "upload" => MirrorFile(m) # Absent

(* Fresh: a run starts from nothing. *)
Fresh ==
  producer \in {"off", "err"} => /\ nextEra = Min(Eras) /\ stats = NoStats
                                 /\ ~ firstErr /\ ~ cancelled

(* Pending: the workers whose era is not yet in the bucket. *)
Pending == {m \in Workers : wpc[m] \in {"exists", "http", "upload"}}

Uploading == {m \in Workers : wpc[m] = "upload"}

Sent(e) == (producer = "sending" /\ e < nextEra) \/ producer \in {"closed", "ok"}

(* Covered: an era that was sent is in the bucket or with a worker. *)
Covered ==
  ~ firstErr => \A e \in Eras : Sent(e) =>
    s3[e] # Absent \/ \E m \in Pending : job[m] = e

(* Counted: the statistics count what was sent, and what became of it. *)
Counted ==
  /\ producer = "sending" => stats["scanned"] = nextEra - Min(Eras)
  /\ producer \in {"closed", "ok"} => stats["scanned"] = Cardinality(Eras)
  /\ producer = "ok" => ~ firstErr
  /\ ~ firstErr =>
       stats["scanned"] = stats["skipped"] + stats["uploaded"] + Cardinality(Pending)
  /\ ~ firstErr => stats["downloaded"] <= stats["uploaded"] + Cardinality(Uploading)

DownloaderInv == \A p \in Procs : Local(p)

MirrorInv == MirrorFiles /\ Jobs /\ Fresh /\ Covered /\ Counted

IInv == MirrorTypeOK /\ DownloaderInv /\ MirrorInv /\ S3Whole
-------------------------------------------------------------------------------
(* Wrote: the step gives file e of directory d the content v and leaves     *)
(* every other file alone.                                                  *)
Wrote(d, e, v) ==
  /\ disk' \in [Dirs -> [Eras -> (SUBSET Parts) \cup {Absent}]]
  /\ disk'[d][e] = v
  /\ \A c \in Dirs, f \in Eras : c # d \/ f # e => disk'[c][f] = disk[c][f]

(* SetFile: writing one file of one directory. *)
LEMMA SetFile ==
  ASSUME TypeOK, NEW d \in Dirs, NEW e \in Eras, NEW v \in (SUBSET Parts) \cup {Absent},
         disk' = [disk EXCEPT ![d][e] = v]
  PROVE  Wrote(d, e, v)
<1> DEFINE T == (SUBSET Parts) \cup {Absent}
<1>1. disk \in [Dirs -> [Eras -> T]] /\ v \in T
  BY DEF TypeOK
<1> HIDE DEF T
<1>2. /\ disk' \in [Dirs -> [Eras -> T]]
      /\ disk'[d][e] = v
      /\ \A c \in Dirs, f \in Eras : c # d \/ f # e => disk'[c][f] = disk[c][f]
  BY <1>1
<1> QED BY <1>2 DEF T, Wrote

(* Kept: what a step of process p leaves as it is.  It writes into its own  *)
(* directory only, and no step of a downloader removes a file or an object. *)
Kept(p) ==
  /\ \A q \in Procs \ {p} : /\ pc'[q] = pc[q] /\ todo'[q] = todo[q] /\ need'[q] = need[q]
                            /\ pos'[q] = pos[q] /\ index'[q] = index[q]
  /\ \A d \in Dirs, e \in Eras : /\ d # DirOf[p] => disk'[d][e] = disk[d][e]
                                 /\ disk[d][e] # Absent => disk'[d][e] # Absent
  /\ \A e \in Eras : s3[e] # Absent => s3'[e] # Absent
  /\ interrupted \subseteq interrupted' /\ interrupted' \subseteq interrupted \cup {DirOf[p]}

(* OthersKeep: a step of one process leaves the others what they have, in a *)
(* directory of their own as well as in a shared one.                       *)
LEMMA OthersKeep ==
  ASSUME TypeOK, NEW p \in Procs, Kept(p), NEW q \in Procs \ {p}, Local(q)
  PROVE  Local(q)'
<1>1. /\ pc'[q] = pc[q] /\ todo'[q] = todo[q] /\ need'[q] = need[q]
      /\ pos'[q] = pos[q] /\ index'[q] = index[q]
  BY DEF Kept
<1>2. \A e \in Eras : File(q, e) # Absent => File(q, e)' # Absent
  BY EraCacheAssumption DEF Kept, File
<1>3. NoSharedDirectory => \A e \in Eras : File(q, e)' = File(q, e)
  BY EraCacheAssumption DEF Kept, File, NoSharedDirectory
<1>4. Untouched(q)' => Untouched(q)
  BY DEF Kept, Untouched, NoSharedDirectory
<1>5. pc[q] \in {"writing", "upload"} => Min(need[q]) \in Eras
  BY MinOf DEF TypeOK, Local
<1>6. NoSharedDirectory' = NoSharedDirectory
  BY DEF NoSharedDirectory
<1>7. Untouched(q) => NoSharedDirectory
  BY DEF Untouched
<1> HIDE DEF File, Untouched, NoSharedDirectory
<1>8. Min(need[q])' = Min(need[q])
  BY <1>1
<1> QED BY <1>1, <1>2, <1>3, <1>4, <1>5, <1>6, <1>7, <1>8, Ranges DEF Local

(* MirrorKeeps: a step of a downloader leaves the mirror what it has. *)
LEMMA MirrorKeeps ==
  ASSUME MirrorTypeOK, MirrorInv, NEW p \in Procs, Kept(p), UNCHANGED mirrorVars
  PROVE  MirrorInv'
<1>1. \A e \in Eras : disk'[MirrorDir][e] = disk[MirrorDir][e]
  BY EraMirrorAssumption DEF Kept
<1>2. MirrorDir \in interrupted' <=> MirrorDir \in interrupted
  BY EraMirrorAssumption DEF Kept
<1>3. \A e \in Eras : s3[e] # Absent => s3'[e] # Absent
  BY DEF Kept
<1>4. MirrorFiles'
  BY <1>1, <1>2 DEF MirrorInv, MirrorFiles
<1>5. Pending' = Pending /\ Uploading' = Uploading
  BY DEF Pending, Uploading, mirrorVars
<1>6. Jobs'
  BY <1>1 DEF MirrorInv, Jobs, mirrorVars, MirrorFile, Busy
<1>7. Fresh'
  BY DEF MirrorInv, Fresh, mirrorVars, NoStats
<1>8. Covered'
  BY <1>3, <1>5 DEF MirrorInv, Covered, mirrorVars, Sent
<1>9. Counted'
  BY <1>5 DEF MirrorInv, Counted, mirrorVars
<1> QED BY <1>4, <1>6, <1>7, <1>8, <1>9 DEF MirrorInv

(* ObjectsKept: as long as the bucket is not written, its objects stay      *)
(* whole.                                                                   *)
LEMMA ObjectsKept ==
  ASSUME S3Whole, s3' = s3, interrupted \subseteq interrupted'
  PROVE  S3Whole'
BY DEF S3Whole, NoSharedDirectory
-------------------------------------------------------------------------------
(* The steps of a downloader. *)
(* StartStep: a started process has every era to look up. *)
LEMMA StartStep ==
  ASSUME TypeOK, NEW p \in Procs, Local(p), S3Whole, Start(p)
  PROVE  TypeOK' /\ Kept(p) /\ Local(p)' /\ S3Whole'
<1>1. TypeOK'
  BY Ranges DEF TypeOK, Start, PCs
<1>2. Kept(p) /\ s3' = s3 /\ interrupted' = interrupted /\ disk' = disk
  BY DEF TypeOK, Start, Kept
<1>3. Local(p)'
  BY DEF TypeOK, Start, Local, File, Untouched, NoSharedDirectory
<1> QED BY <1>1, <1>2, <1>3, ObjectsKept

(* ScanDoneStep: the eras that are not missing have a file. *)
LEMMA ScanDoneStep ==
  ASSUME TypeOK, NEW p \in Procs, Local(p), S3Whole, ScanDone(p)
  PROVE  TypeOK' /\ Kept(p) /\ Local(p)' /\ S3Whole'
<1>1. TypeOK'
  BY DEF TypeOK, ScanDone, PCs
<1>2. Kept(p) /\ s3' = s3 /\ interrupted' = interrupted /\ disk' = disk
  BY DEF TypeOK, ScanDone, Kept
<1>3. Local(p)'
  BY DEF TypeOK, ScanDone, Local, File, Untouched, NoSharedDirectory
<1> QED BY <1>1, <1>2, <1>3, ObjectsKept

(* ReadyStep: with nothing missing every era has a file. *)
LEMMA ReadyStep ==
  ASSUME TypeOK, NEW p \in Procs, Local(p), S3Whole, Ready(p)
  PROVE  TypeOK' /\ Kept(p) /\ Local(p)' /\ S3Whole'
<1>1. TypeOK'
  BY DEF TypeOK, Ready, PCs
<1>2. Kept(p) /\ s3' = s3 /\ interrupted' = interrupted /\ disk' = disk
  BY DEF TypeOK, Ready, Kept
<1>3. Local(p)'
  BY DEF TypeOK, Ready, Local, File, Untouched, NoSharedDirectory
<1> QED BY <1>1, <1>2, <1>3, ObjectsKept

(* NotInS3Step: an attempt begins for a missing era. *)
LEMMA NotInS3Step ==
  ASSUME TypeOK, NEW p \in Procs, Local(p), S3Whole, NotInS3(p)
  PROVE  TypeOK' /\ Kept(p) /\ Local(p)' /\ S3Whole'
<1>1. TypeOK'
  BY EraCacheAssumption DEF TypeOK, NotInS3, PCs
<1>2. Kept(p) /\ s3' = s3 /\ interrupted' = interrupted /\ disk' = disk
  BY DEF TypeOK, NotInS3, Kept
<1>3. Local(p)'
  BY DEF TypeOK, NotInS3, Local, File, Untouched, NoSharedDirectory
<1> QED BY <1>1, <1>2, <1>3, ObjectsKept

(* LookupErrStep: a failed process promises nothing. *)
LEMMA LookupErrStep ==
  ASSUME TypeOK, NEW p \in Procs, Local(p), S3Whole, LookupErr(p)
  PROVE  TypeOK' /\ Kept(p) /\ Local(p)' /\ S3Whole'
<1>1. TypeOK'
  BY EraCacheAssumption DEF TypeOK, LookupErr, PCs
<1>2. Kept(p) /\ s3' = s3 /\ interrupted' = interrupted /\ disk' = disk
  BY DEF TypeOK, LookupErr, Kept
<1>3. Local(p)'
  BY DEF TypeOK, LookupErr, Local, File, Untouched, NoSharedDirectory
<1> QED BY <1>1, <1>2, <1>3, ObjectsKept

(* RetryFacts: a failed attempt is tried again or fails the process. *)
LEMMA RetryFacts ==
  ASSUME TypeOK, NEW p \in Procs, Retry(p)
  PROVE  /\ pc' \in [Procs -> PCs] /\ attempt' \in [Procs -> 1 .. MaxRetries]
         /\ pc'[p] \in {"http", "failed"}
         /\ \A q \in Procs \ {p} : pc'[q] = pc[q]
<1>1. attempt[p] < MaxRetries => attempt[p] + 1 \in 1 .. MaxRetries
  BY EraCacheAssumption DEF TypeOK
<1>2. 1 \in 1 .. MaxRetries
  BY EraCacheAssumption
<1>3. attempt' \in [Procs -> 1 .. MaxRetries]
  BY <1>1, <1>2 DEF TypeOK, Retry
<1> QED BY <1>3 DEF TypeOK, Retry, PCs

(* RetryKeeps: after a failed attempt the era is still missing. *)
LEMMA RetryKeeps ==
  ASSUME NEW p \in Procs, Local(p), disk' = disk, interrupted' = interrupted,
         pc[p] \in {"http", "upload"}, pc'[p] \in {"http", "failed"},
         todo'[p] = todo[p], need'[p] = need[p], index'[p] = index[p]
  PROVE  Local(p)'
<1>1. \A e \in Eras : File(p, e)' = File(p, e)
  BY DEF File
<1>2. Untouched(p)' = Untouched(p)
  BY DEF Untouched, NoSharedDirectory
<1> QED BY <1>1, <1>2, Ranges DEF Local

(* HTTPErrStep: a file of a failed attempt is still missing or as it was. *)
LEMMA HTTPErrStep ==
  ASSUME TypeOK, NEW p \in Procs, Local(p), S3Whole, HTTPErr(p)
  PROVE  TypeOK' /\ Kept(p) /\ Local(p)' /\ S3Whole'
<1>1. TypeOK'
  BY RetryFacts DEF TypeOK, HTTPErr
<1>2. Kept(p) /\ s3' = s3 /\ interrupted' = interrupted /\ disk' = disk
  BY RetryFacts DEF TypeOK, HTTPErr, Kept
<1>3. /\ pc[p] \in {"http", "upload"} /\ pc'[p] \in {"http", "failed"}
      /\ todo'[p] = todo[p] /\ need'[p] = need[p] /\ index'[p] = index[p]
  BY RetryFacts DEF TypeOK, HTTPErr
<1>4. Local(p)'
  BY <1>2, <1>3, RetryKeeps
<1> QED BY <1>1, <1>2, <1>4, ObjectsKept

(* UploadErrStep: a file that could not be uploaded stays, and stays whole. *)
LEMMA UploadErrStep ==
  ASSUME TypeOK, NEW p \in Procs, Local(p), S3Whole, UploadErr(p)
  PROVE  TypeOK' /\ Kept(p) /\ Local(p)' /\ S3Whole'
<1>1. TypeOK'
  BY RetryFacts DEF TypeOK, UploadErr
<1>2. Kept(p) /\ s3' = s3 /\ interrupted' = interrupted /\ disk' = disk
  BY RetryFacts DEF TypeOK, UploadErr, Kept
<1>3. /\ pc[p] \in {"http", "upload"} /\ pc'[p] \in {"http", "failed"}
      /\ todo'[p] = todo[p] /\ need'[p] = need[p] /\ index'[p] = index[p]
  BY RetryFacts DEF TypeOK, UploadErr
<1>4. Local(p)'
  BY <1>2, <1>3, RetryKeeps
<1> QED BY <1>1, <1>2, <1>4, ObjectsKept

(* ScanStep: an era that is looked up has a file or is missing. *)
LEMMA ScanStep ==
  ASSUME TypeOK, NEW p \in Procs, Local(p), S3Whole, Scan(p)
  PROVE  TypeOK' /\ Kept(p) /\ Local(p)' /\ S3Whole'
<1> DEFINE e == Min(todo[p])
<1>1. e \in todo[p] /\ e \in Eras
  BY MinOf DEF TypeOK, Scan
<1>2. /\ todo' = [todo EXCEPT ![p] = todo[p] \ {e}]
      /\ need' = [need EXCEPT ![p] = IF File(p, e) = Absent THEN need[p] \cup {e} ELSE need[p]]
  BY DEF Scan, TypeOK
<1> HIDE DEF e
<1>3. TypeOK'
  BY <1>1, <1>2 DEF TypeOK, Scan
<1>4. Kept(p) /\ s3' = s3 /\ interrupted' = interrupted /\ disk' = disk
  BY <1>2 DEF TypeOK, Scan, Kept
<1>5. Local(p)'
  BY <1>1, <1>2 DEF TypeOK, Scan, Local, File, Untouched, NoSharedDirectory
<1> QED BY <1>3, <1>4, <1>5, ObjectsKept

(* WrittenStep: a file of which every part is written is whole. *)
LEMMA WrittenStep ==
  ASSUME TypeOK, NEW p \in Procs, Local(p), S3Whole, Written(p)
  PROVE  TypeOK' /\ Kept(p) /\ Local(p)' /\ S3Whole'
<1>1. TypeOK'
  <2>1. /\ pos' = [pos EXCEPT ![p] = 0] /\ pc' = [pc EXCEPT ![p] = "upload"]
        /\ UNCHANGED <<need, attempt, disk, s3, todo, index, interrupted, crashes>>
    BY EraMirrorAssumption DEF Written
  <2>2. 0 \in 0 .. 2 * Records + 1
    BY EraCacheAssumption
  <2> QED BY <2>1, <2>2 DEF TypeOK, PCs
<1>2. Kept(p) /\ s3' = s3 /\ interrupted' = interrupted /\ disk' = disk
  BY DEF TypeOK, Written, Kept
<1>3. Min(need[p]) \in need[p] /\ need[p] \subseteq Eras
  BY MinOf DEF TypeOK, Written, Local
<1>4. pos[p] - 1 = 2 * Records
  <2>1. pos[p] \in 0 .. 2 * Records + 1 /\ pos[p] \notin 0 .. 2 * Records
    BY DEF TypeOK, Written, Parts
  <2>2. 2 * Records \in Nat
    BY FullFile
  <2> QED BY <2>1, <2>2
<1>5. NoSharedDirectory => File(p, Min(need[p])) = Full
  BY <1>4, FullFile DEF Written, Local
<1>6. /\ pc'[p] = "upload" /\ todo'[p] = todo[p] /\ need'[p] = need[p] /\ index' = index
      /\ \A e \in Eras : File(p, e)' = File(p, e)
  BY EraMirrorAssumption, <1>2 DEF TypeOK, Written, File
<1>7. Untouched(p)' = Untouched(p) /\ NoSharedDirectory' = NoSharedDirectory
      /\ (Untouched(p) => NoSharedDirectory)
  BY <1>2 DEF Untouched, NoSharedDirectory
<1> HIDE DEF File, Untouched, NoSharedDirectory
<1>8. Min(need[p])' = Min(need[p])
  BY <1>6
<1>9. Local(p)'
  BY <1>3, <1>5, <1>6, <1>7, <1>8, Ranges DEF Local, Written
<1> QED BY <1>1, <1>2, <1>9, ObjectsKept

(* BuildIndexStep: the index of a whole file is whole. *)
LEMMA BuildIndexStep ==
  ASSUME TypeOK, NEW p \in Procs, Local(p), S3Whole, NEW e \in Eras, BuildIndex(p, e)
  PROVE  TypeOK' /\ Kept(p) /\ Local(p)' /\ S3Whole'
<1>1. PICK built \in buildEraIndex(File(p, e)) : index' = [index EXCEPT ![p][e] = built]
  BY DEF BuildIndex
<1>2. built \in (SUBSET Blocks) \cup {Absent}
  BY <1>1 DEF buildEraIndex
<1>3. TypeOK'
  BY <1>1, <1>2 DEF TypeOK, BuildIndex
<1>4. Kept(p) /\ s3' = s3 /\ interrupted' = interrupted /\ disk' = disk
  BY <1>1 DEF TypeOK, BuildIndex, Kept
<1>5. Untouched(p) => built = Blocks
  BY <1>1, FullIndex DEF Local, BuildIndex
<1>6. \A f \in Eras : index'[p][f] = IF f = e THEN built ELSE index[p][f]
  BY <1>1 DEF TypeOK
<1>7. Local(p)'
  BY <1>4, <1>5, <1>6 DEF Local, BuildIndex, File, Untouched, NoSharedDirectory
<1> QED BY <1>3, <1>4, <1>7, ObjectsKept

(* DownloadFromS3Step: an object becomes a file, whole if the object is. *)
LEMMA DownloadFromS3Step ==
  ASSUME TypeOK, NEW p \in Procs, Local(p), S3Whole, DownloadFromS3(p)
  PROVE  TypeOK' /\ Kept(p) /\ Local(p)' /\ S3Whole'
<1> DEFINE e == Min(need[p])
           d == DirOf[p]
<1>1. e \in need[p] /\ e \in Eras /\ need[p] \subseteq Eras
  BY MinOf DEF TypeOK, DownloadFromS3
<1>2. d \in Dirs
  BY EraCacheAssumption
<1>3. s3[e] # Absent /\ disk' = [disk EXCEPT ![d][e] = s3[e]]
      /\ need' = [need EXCEPT ![p] = need[p] \ {e}]
  BY DEF DownloadFromS3, TypeOK
<1>4. s3[e] \in (SUBSET Parts) \cup {Absent}
  BY <1>1 DEF TypeOK
<1> HIDE DEF e, d
<1>5. /\ disk' \in [Dirs -> [Eras -> (SUBSET Parts) \cup {Absent}]]
      /\ disk'[d][e] = s3[e]
      /\ \A c \in Dirs, f \in Eras : c # d \/ f # e => disk'[c][f] = disk[c][f]
  <2>1. Wrote(d, e, s3[e])
    BY <1>1, <1>2, <1>3, <1>4, SetFile
  <2> QED BY <2>1 DEF Wrote
<1>6. TypeOK'
  BY <1>3, <1>5 DEF TypeOK, DownloadFromS3
<1>7. Kept(p) /\ s3' = s3 /\ interrupted' = interrupted
  <2>1. \A c \in Dirs, f \in Eras : /\ c # d => disk'[c][f] = disk[c][f]
                                    /\ disk[c][f] # Absent => disk'[c][f] # Absent
    BY <1>3, <1>5
  <2> QED BY <1>3, <2>1 DEF TypeOK, DownloadFromS3, Kept, d
<1>8. Untouched(p) => s3[e] = Full
  BY <1>1, <1>3 DEF S3Whole, Untouched
<1>9. \A f \in Eras : File(p, f)' = IF f = e THEN s3[e] ELSE File(p, f)
  BY <1>2, <1>5 DEF File, d
<1>10. Untouched(p)' = Untouched(p)
  BY <1>7 DEF Untouched, NoSharedDirectory
<1>11. pc[p] = "next" /\ pc'[p] = "next" /\ need'[p] = need[p] \ {e} /\ todo' = todo /\ index' = index
  BY <1>3 DEF DownloadFromS3, TypeOK
<1> HIDE DEF File, Untouched
<1>12. Local(p)'
  BY <1>3, <1>8, <1>9, <1>10, <1>11, Ranges DEF Local
<1> QED BY <1>6, <1>7, <1>12, ObjectsKept

(* OpenTruncStep: a truncated file is the empty prefix. *)
LEMMA OpenTruncStep ==
  ASSUME TypeOK, NEW p \in Procs, Local(p), S3Whole, OpenTrunc(p)
  PROVE  TypeOK' /\ Kept(p) /\ Local(p)' /\ S3Whole'
<1> DEFINE e == Min(need[p])
           d == DirOf[p]
           v == {}
<1>1. e \in need[p] /\ e \in Eras /\ need[p] \subseteq Eras
  BY MinOf DEF TypeOK, OpenTrunc, Local
<1>2. d \in Dirs
  BY EraCacheAssumption
<1>3. disk' = [disk EXCEPT ![d][e] = v]
  BY DEF OpenTrunc
<1>4. v \in (SUBSET Parts) \cup {Absent}
  OBVIOUS
<1> HIDE DEF e, d, v
<1>5. /\ disk' \in [Dirs -> [Eras -> (SUBSET Parts) \cup {Absent}]]
      /\ disk'[d][e] = v
      /\ \A c \in Dirs, f \in Eras : c # d \/ f # e => disk'[c][f] = disk[c][f]
  <2>1. Wrote(d, e, v)
    BY <1>1, <1>2, <1>3, <1>4, SetFile
  <2> QED BY <2>1 DEF Wrote
<1>6. TypeOK'
  <2>1. 0 \in 0 .. 2 * Records + 1
    BY FullFile
  <2> QED BY <1>5, <2>1 DEF TypeOK, OpenTrunc, PCs
<1>7. Kept(p) /\ s3' = s3 /\ interrupted' = interrupted
  <2>1. \A c \in Dirs, f \in Eras : /\ c # d => disk'[c][f] = disk[c][f]
                                    /\ disk[c][f] # Absent => disk'[c][f] # Absent
    BY <1>5, FullFile DEF v
  <2> QED BY <2>1 DEF TypeOK, OpenTrunc, Kept, d
<1>9. \A f \in Eras : File(p, f)' = IF f = e THEN {} ELSE File(p, f)
  BY <1>2, <1>5 DEF File, d, v
<1>10. Untouched(p)' = Untouched(p)
  BY <1>7 DEF Untouched, NoSharedDirectory
<1>11. /\ pc[p] = "http" /\ pc'[p] = "writing" /\ pos'[p] = 0
       /\ need'[p] = need[p] /\ todo' = todo /\ index' = index
  BY DEF OpenTrunc, TypeOK
<1>12. Min(need[p])' = e
  BY <1>11 DEF e
<1>13. 0 .. (0 - 1) = {} /\ {} # Absent
  BY FullFile
<1> HIDE DEF File, Untouched
<1>14. Local(p)'
  BY <1>1, <1>9, <1>10, <1>11, <1>12, <1>13, Ranges DEF Local
<1> QED BY <1>6, <1>7, <1>14, ObjectsKept

(* WritePartStep: the next part makes the next prefix. *)
LEMMA WritePartStep ==
  ASSUME TypeOK, NEW p \in Procs, Local(p), S3Whole, WritePart(p)
  PROVE  TypeOK' /\ Kept(p) /\ Local(p)' /\ S3Whole'
<1> DEFINE e == Min(need[p])
           d == DirOf[p]
           v == disk[d][e] \cup {pos[p]}
<1>1. e \in need[p] /\ e \in Eras /\ need[p] \subseteq Eras
  BY MinOf DEF TypeOK, WritePart, Local
<1>2. d \in Dirs
  BY EraCacheAssumption
<1>3. disk' = [disk EXCEPT ![d][e] = v]
  BY DEF WritePart
<1>4. v \in (SUBSET Parts) \cup {Absent} /\ v # Absent
  <2>1. disk[d][e] \in SUBSET Parts
    BY <1>1, <1>2 DEF TypeOK, Local, WritePart, File
  <2> QED BY <2>1, FullFile DEF WritePart
<1>8. NoSharedDirectory => v = 0 .. pos[p]
  <2>1. NoSharedDirectory => disk[d][e] = 0 .. pos[p] - 1
    BY DEF Local, WritePart, File
  <2>2. pos[p] \in Nat
    BY FullFile DEF TypeOK
  <2> QED BY <2>1, <2>2
<1> HIDE DEF e, d, v
<1>5. /\ disk' \in [Dirs -> [Eras -> (SUBSET Parts) \cup {Absent}]]
      /\ disk'[d][e] = v
      /\ \A c \in Dirs, f \in Eras : c # d \/ f # e => disk'[c][f] = disk[c][f]
  <2>1. Wrote(d, e, v)
    BY <1>1, <1>2, <1>3, <1>4, SetFile
  <2> QED BY <2>1 DEF Wrote
<1>6. TypeOK'
  <2>1. pos[p] + 1 \in 0 .. 2 * Records + 1
    BY FullFile DEF Parts, WritePart
  <2> QED BY <1>5, <2>1 DEF TypeOK, WritePart
<1>7. Kept(p) /\ s3' = s3 /\ interrupted' = interrupted
  <2>1. \A c \in Dirs, f \in Eras : /\ c # d => disk'[c][f] = disk[c][f]
                                    /\ disk[c][f] # Absent => disk'[c][f] # Absent
    BY <1>4, <1>5
  <2> QED BY <2>1 DEF TypeOK, WritePart, Kept, d
<1>9. \A f \in Eras : File(p, f)' = IF f = e THEN v ELSE File(p, f)
  BY <1>2, <1>5 DEF File, d
<1>10. Untouched(p)' = Untouched(p) /\ NoSharedDirectory' = NoSharedDirectory
  BY <1>7 DEF Untouched, NoSharedDirectory
<1>11. /\ pc[p] = "writing" /\ pc'[p] = "writing" /\ pos'[p] - 1 = pos[p]
       /\ need'[p] = need[p] /\ todo' = todo /\ index' = index
  BY FullFile DEF WritePart, TypeOK
<1>12. Min(need[p])' = e /\ Min(need[p]) = e
  BY <1>11 DEF e
<1> HIDE DEF File, Untouched, NoSharedDirectory
<1>14. Local(p)'
  BY <1>1, <1>4, <1>8, <1>9, <1>10, <1>11, <1>12, Ranges DEF Local
<1> QED BY <1>6, <1>7, <1>14, ObjectsKept

(* WriteErrStep: a write that is cut short is on record. *)
LEMMA WriteErrStep ==
  ASSUME TypeOK, NEW p \in Procs, Local(p), S3Whole, WriteErr(p)
  PROVE  TypeOK' /\ Kept(p) /\ Local(p)' /\ S3Whole'
<1>1. 0 \in 0 .. 2 * Records + 1
  BY EraCacheAssumption
<1>2. TypeOK'
  BY <1>1, RetryFacts, EraCacheAssumption DEF TypeOK, WriteErr
<1>3. Kept(p) /\ s3' = s3 /\ disk' = disk /\ interrupted' = interrupted \cup {DirOf[p]}
  BY RetryFacts DEF TypeOK, WriteErr, Kept
<1>4. /\ pc[p] = "writing" /\ pc'[p] \in {"http", "failed"}
      /\ todo'[p] = todo[p] /\ need'[p] = need[p]
  BY RetryFacts DEF TypeOK, WriteErr
<1>5. ~ Untouched(p)'
  BY <1>3 DEF Untouched
<1>6. \A f \in Eras : File(p, f)' = File(p, f)
  BY <1>3 DEF File
<1> HIDE DEF File, Untouched
<1>7. Local(p)'
  BY <1>4, <1>5, <1>6, Ranges DEF Local
<1> QED BY <1>2, <1>3, <1>7, ObjectsKept

(* UploadStep: what is uploaded from a directory of one's own is whole. *)
LEMMA UploadStep ==
  ASSUME TypeOK, NEW p \in Procs, Local(p), S3Whole, Upload(p)
  PROVE  TypeOK' /\ Kept(p) /\ Local(p)' /\ S3Whole'
<1> DEFINE e == Min(need[p])
           v == File(p, e)
<1>1. e \in need[p] /\ e \in Eras /\ need[p] \subseteq Eras
  BY MinOf DEF TypeOK, Upload, Local
<1>2. v # Absent /\ v \in (SUBSET Parts) \cup {Absent} /\ (NoSharedDirectory => v = Full)
  <2>1. DirOf[p] \in Dirs
    BY EraCacheAssumption
  <2>2. v \in (SUBSET Parts) \cup {Absent}
    BY <1>1, <2>1 DEF TypeOK, File
  <2>3. v # Absent /\ (NoSharedDirectory => v = Full)
    BY DEF Upload, Local
  <2> QED BY <2>2, <2>3
<1>3. s3' = [s3 EXCEPT ![e] = v] /\ need' = [need EXCEPT ![p] = need[p] \ {e}]
  BY DEF Upload, TypeOK
<1> HIDE DEF e, v
<1>4. TypeOK'
  <2>1. 1 \in 1 .. MaxRetries
    BY EraCacheAssumption
  <2>2. s3' \in [Eras -> (SUBSET Parts) \cup {Absent}]
    BY <1>1, <1>2, <1>3 DEF TypeOK
  <2> QED BY <1>1, <1>3, <2>1, <2>2 DEF TypeOK, Upload, PCs
<1>5. \A f \in Eras : s3'[f] = IF f = e THEN v ELSE s3[f]
  BY <1>1, <1>3 DEF TypeOK
<1>6. Kept(p)
  BY <1>2, <1>3, <1>5 DEF TypeOK, Upload, Kept
<1>7. S3Whole'
  <2>1. interrupted' = interrupted /\ NoSharedDirectory' = NoSharedDirectory
    BY DEF Upload, NoSharedDirectory
  <2> HIDE DEF NoSharedDirectory
  <2> QED BY <1>2, <1>5, <2>1 DEF S3Whole
<1>8. /\ pc[p] = "upload" /\ pc'[p] = "next" /\ need'[p] = need[p] \ {e} /\ todo' = todo
      /\ index' = index /\ \A f \in Eras : File(p, f)' = File(p, f)
  BY <1>3 DEF Upload, TypeOK, File
<1>9. Untouched(p)' = Untouched(p)
  BY DEF Upload, Untouched, NoSharedDirectory
<1> HIDE DEF File, Untouched
<1>10. Local(p)'
  BY <1>1, <1>2, <1>8, <1>9, Ranges DEF Local, v
<1> QED BY <1>4, <1>6, <1>7, <1>10

(* CrashStep: a killed process promises nothing; a write it leaves behind   *)
(* is on record.                                                            *)
LEMMA CrashStep ==
  ASSUME TypeOK, NEW p \in Procs, Local(p), S3Whole, Crash(p)
  PROVE  TypeOK' /\ Kept(p) /\ Local(p)' /\ S3Whole'
<1>1. crashes' \in 0 .. MaxCrashes /\ 0 \in 0 .. 2 * Records + 1 /\ 1 \in 1 .. MaxRetries
  BY EraCacheAssumption DEF TypeOK, Crash
<1>2. index' \in [Procs -> [Eras -> (SUBSET Blocks) \cup {Absent}]]
      /\ index'[p] = [e \in Eras |-> Absent]
  BY DEF TypeOK, Crash
<1>3. interrupted' \subseteq Dirs
  BY EraCacheAssumption DEF TypeOK, Crash
<1>4. TypeOK'
  BY <1>1, <1>2, <1>3 DEF TypeOK, Crash, PCs
<1>5. Kept(p) /\ s3' = s3 /\ disk' = disk
  BY DEF TypeOK, Crash, Kept
<1>6. pc'[p] = "idle" /\ \A f \in Eras : File(p, f)' = File(p, f)
  BY <1>5 DEF TypeOK, Crash, File
<1>7. Untouched(p)' => Untouched(p) /\ pc[p] # "writing"
  BY DEF Crash, Untouched, NoSharedDirectory
<1> HIDE DEF File, Untouched
<1>8. Local(p)'
  BY <1>2, <1>6, <1>7 DEF Local
<1> QED BY <1>4, <1>5, <1>8, ObjectsKept DEF Kept

(* ProcStep: every step of a downloader keeps the invariant. *)
LEMMA ProcStep ==
  ASSUME IInv, Next, UNCHANGED mirrorVars
  PROVE  IInv'
<1>1. MirrorTypeOK /\ TypeOK /\ DownloaderInv /\ MirrorInv /\ S3Whole
  BY DEF IInv, MirrorTypeOK
<1>2. PICK p \in Procs :
        \/ Start(p) \/ Scan(p) \/ ScanDone(p) \/ Ready(p) \/ DownloadFromS3(p) \/ NotInS3(p)
        \/ LookupErr(p) \/ HTTPErr(p) \/ OpenTrunc(p) \/ WritePart(p) \/ WriteErr(p)
        \/ Written(p) \/ Upload(p) \/ UploadErr(p) \/ Crash(p)
        \/ \E e \in Eras : BuildIndex(p, e)
  BY DEF Next
<1>3. Local(p)
  BY <1>1 DEF DownloaderInv
<1>4. TypeOK' /\ Kept(p) /\ Local(p)' /\ S3Whole'
  BY <1>1, <1>2, <1>3, StartStep, ScanStep, ScanDoneStep, ReadyStep, DownloadFromS3Step,
     NotInS3Step, LookupErrStep, HTTPErrStep, OpenTruncStep, WritePartStep, WriteErrStep,
     WrittenStep, UploadStep, UploadErrStep, CrashStep, BuildIndexStep
<1>5. DownloaderInv'
  BY <1>1, <1>4, OthersKeep DEF DownloaderInv
<1>6. MirrorInv'
  BY <1>1, <1>4, MirrorKeeps
<1>7. MirrorTypeOK'
  BY <1>1, <1>4 DEF MirrorTypeOK, mirrorVars
<1> QED BY <1>4, <1>5, <1>6, <1>7 DEF IInv

-------------------------------------------------------------------------------
(* Apart: what a step of the mirror leaves to the downloaders. *)
Apart ==
  /\ UNCHANGED downloaders
  /\ \A d \in Dirs \ {MirrorDir}, e \in Eras : disk'[d][e] = disk[d][e]
  /\ interrupted \subseteq interrupted'

(* DownloadersKeep: a step of the mirror leaves the downloaders what they   *)
(* have.                                                                    *)
LEMMA DownloadersKeep ==
  ASSUME TypeOK, DownloaderInv, Apart
  PROVE  DownloaderInv'
<1> SUFFICES ASSUME NEW p \in Procs PROVE Local(p)'
  BY DEF DownloaderInv
<1>1. /\ pc' = pc /\ todo' = todo /\ need' = need /\ pos' = pos /\ index' = index
      /\ Local(p)
  BY DEF Apart, downloaders, DownloaderInv
<1>2. DirOf[p] \in Dirs \ {MirrorDir}
  BY EraCacheAssumption, EraMirrorAssumption
<1>3. \A e \in Eras : File(p, e)' = File(p, e)
  BY <1>2 DEF Apart, File
<1>4. Untouched(p)' => Untouched(p)
  BY DEF Apart, Untouched, NoSharedDirectory
<1>5. NoSharedDirectory' = NoSharedDirectory /\ Min(need[p])' = Min(need[p])
  BY <1>1 DEF NoSharedDirectory
<1>6. pc[p] \in {"writing", "upload"} => File(p, Min(need[p]))' = File(p, Min(need[p]))
  <2> SUFFICES ASSUME pc[p] \in {"writing", "upload"}
               PROVE  disk'[DirOf[p]][Min(need[p])] = disk[DirOf[p]][Min(need[p])]
    BY <1>5 DEF File
  <2>1. Min(need[p]) \in Eras
    BY <1>1, MinOf DEF TypeOK, Local
  <2> QED BY <1>2, <2>1 DEF Apart
<1> HIDE DEF File, Untouched, NoSharedDirectory
<1> QED BY <1>1, <1>3, <1>4, <1>5, <1>6, Ranges DEF Local

(* Sizes: what the counters are compared with. *)
LEMMA Sizes ==
  /\ IsFiniteSet(Pending) /\ Cardinality(Pending) \in Nat
  /\ IsFiniteSet(Uploading) /\ Cardinality(Uploading) \in Nat
BY EraMirrorAssumption, FS_Subset, FS_CardinalityType DEF Pending, Uploading

(* NoJob: no era is the number that stands for no job. *)
LEMMA NoJob == NoEra \notin Eras
BY EraCacheAssumption DEF NoEra

(* GrowsBy, ShrinksBy: the size of a finite set with one element more or    *)
(* less.                                                                    *)
LEMMA GrowsBy ==
  ASSUME NEW S, IsFiniteSet(S), NEW m, m \notin S
  PROVE  Cardinality(S \cup {m}) = Cardinality(S) + 1
BY FS_AddElement

LEMMA ShrinksBy ==
  ASSUME NEW S, IsFiniteSet(S), NEW m \in S
  PROVE  Cardinality(S \ {m}) = Cardinality(S) - 1
BY FS_RemoveElement

(* CutShortFacts: a write that is cut short leaves a prefix and is on       *)
(* record; the files of the other workers stay.                             *)
LEMMA CutShortFacts ==
  ASSUME MirrorTypeOK, MirrorFiles, NEW ms \in SUBSET Workers, CutShort(ms)
  PROVE  /\ disk' \in [Dirs -> [Eras -> (SUBSET Parts) \cup {Absent}]]
         /\ interrupted' \subseteq Dirs /\ interrupted \subseteq interrupted'
         /\ \A d \in Dirs \ {MirrorDir}, e \in Eras : disk'[d][e] = disk[d][e]
         /\ \A e \in Eras : (\A m \in ms : job[m] # e) => disk'[MirrorDir][e] = disk[MirrorDir][e]
         /\ MirrorFiles'
<1> DEFINE T == (SUBSET Parts) \cup {Absent}
           with(e) == CHOOSE m \in ms : job[m] = e
<1>1. PICK left \in [ms -> {Absent} \cup Prefixes] :
        /\ disk' = [disk EXCEPT ![MirrorDir] = [e \in Eras |->
                      IF \E m \in ms : job[m] = e THEN left[with(e)] ELSE disk[MirrorDir][e]]]
        /\ interrupted' = IF \E m \in ms : left[m] # Absent
                          THEN interrupted \cup {MirrorDir} ELSE interrupted
  BY DEF CutShort
<1>2. \A S \in {Absent} \cup Prefixes : S \in T
  BY EraCacheAssumption DEF Prefixes, Parts
<1>3. \A e \in Eras : (\E m \in ms : job[m] = e) => with(e) \in ms
  OBVIOUS
<1>4. MirrorDir \in Dirs /\ disk \in [Dirs -> [Eras -> T]]
  BY EraMirrorAssumption DEF MirrorTypeOK, TypeOK
<1> HIDE DEF T, with
<1>5. \A e \in Eras : disk'[MirrorDir][e] =
        IF \E m \in ms : job[m] = e THEN left[with(e)] ELSE disk[MirrorDir][e]
  BY <1>1, <1>4
<1>6. \A e \in Eras : disk'[MirrorDir][e] \in T
  BY <1>2, <1>3, <1>4, <1>5
<1>7. disk' \in [Dirs -> [Eras -> T]]
  <2>1. [e \in Eras |-> IF \E m \in ms : job[m] = e THEN left[with(e)] ELSE disk[MirrorDir][e]]
          \in [Eras -> T]
    BY <1>2, <1>3, <1>4
  <2> QED BY <1>1, <1>4, <2>1
<1>8. \A d \in Dirs \ {MirrorDir}, e \in Eras : disk'[d][e] = disk[d][e]
  BY <1>1, <1>4
<1>9. interrupted' \subseteq Dirs /\ interrupted \subseteq interrupted'
  BY <1>1, <1>4 DEF MirrorTypeOK, TypeOK
<1>10. MirrorFiles'
  <2> SUFFICES ASSUME MirrorDir \notin interrupted', NEW e \in Eras
               PROVE  disk'[MirrorDir][e] \in {Absent, Full}
    BY DEF MirrorFiles
  <2>1. \A m \in ms : left[m] = Absent
    BY <1>1
  <2>2. disk[MirrorDir][e] \in {Absent, Full}
    BY <1>9 DEF MirrorFiles
  <2> QED BY <1>3, <1>5, <2>1, <2>2
<1> QED BY <1>5, <1>7, <1>8, <1>9, <1>10 DEF T
-------------------------------------------------------------------------------
(* Start of a run: nothing is sent, nothing is counted. *)
LEMMA MirrorStartStep ==
  ASSUME MirrorTypeOK, MirrorInv, S3Whole, MirrorStart
  PROVE  MirrorTypeOK' /\ MirrorInv' /\ S3Whole' /\ Apart
<1>1. MirrorTypeOK' /\ S3Whole' /\ Apart
  BY DEF MirrorTypeOK, TypeOK, S3Whole, Apart, MirrorStart, vars, downloaders, WorkerPCs, NoSharedDirectory
<1>2. /\ \A m \in Workers : wpc'[m] = "select" /\ wpc[m] = "returned" /\ job'[m] = job[m]
      /\ producer' = "sending" /\ nextEra' = Min(Eras) /\ stats' = NoStats /\ ~ firstErr'
  BY DEF MirrorStart, MirrorInv, Jobs, Fresh
<1>3. Pending' = {} /\ Uploading' = {}
  BY <1>2 DEF Pending, Uploading
<1>4. Cardinality(Pending') = 0 /\ Cardinality(Uploading') = 0
  BY <1>3, FS_EmptySet
<1>5. MirrorFiles'
  BY DEF MirrorInv, MirrorFiles, MirrorStart, vars
<1>6. Jobs'
  BY <1>2, EraRange DEF MirrorInv, Jobs, Busy
<1>7. Fresh'
  BY <1>2 DEF Fresh
<1>8. Covered'
  <2>1. \A e \in Eras : ~ Sent(e)'
    BY <1>2, EraRange DEF Sent
  <2> QED BY <2>1 DEF Covered
<1>9. Counted'
  BY <1>2, <1>4, EraRange DEF Counted, NoStats
<1> QED BY <1>1, <1>5, <1>6, <1>7, <1>8, <1>9 DEF MirrorInv

(* A send: the era is with the worker that received it. *)
LEMMA SendStep ==
  ASSUME MirrorTypeOK, MirrorInv, S3Whole, NEW m \in Workers, Send(m)
  PROVE  MirrorTypeOK' /\ MirrorInv' /\ S3Whole' /\ Apart
<1>r. /\ Eras = Min(Eras) .. Max(Eras) /\ Min(Eras) \in Eras /\ Max(Eras) \in Eras
      /\ Min(Eras) \in Nat /\ Max(Eras) \in Nat /\ Min(Eras) <= Max(Eras)
      /\ Cardinality(Eras) = Max(Eras) - Min(Eras) + 1
  BY EraRange
<1>n. nextEra \in Eras /\ nextEra \in Nat
  BY EraCacheAssumption DEF MirrorTypeOK
<1>1. /\ wpc' = [wpc EXCEPT ![m] = "exists"] /\ job' = [job EXCEPT ![m] = nextEra]
      /\ stats' = [stats EXCEPT !["scanned"] = stats["scanned"] + 1]
      /\ firstErr' = firstErr /\ cancelled' = cancelled /\ UNCHANGED vars
      /\ producer = "sending" /\ wpc[m] = "select"
  BY DEF Send
<1>2. \/ nextEra = Max(Eras) /\ producer' = "closed" /\ nextEra' = Min(Eras)
      \/ nextEra # Max(Eras) /\ producer' = "sending" /\ nextEra' = nextEra + 1
  BY DEF Send
<1>3. MirrorTypeOK' /\ S3Whole' /\ Apart
  <2>1. nextEra' \in Eras /\ producer' \in {"sending", "closed"}
    BY <1>r, <1>n, <1>2
  <2>2. stats' \in [{"scanned", "skipped", "downloaded", "uploaded"} -> Nat]
    BY <1>1 DEF MirrorTypeOK
  <2>3. wpc' \in [Workers -> WorkerPCs] /\ job' \in [Workers -> Eras \cup {NoEra}]
    BY <1>1, <1>n DEF MirrorTypeOK, WorkerPCs
  <2>4. TypeOK'
    BY <1>1 DEF MirrorTypeOK, TypeOK, vars
  <2>5. S3Whole' /\ Apart
    BY <1>1 DEF S3Whole, Apart, vars, downloaders, NoSharedDirectory
  <2> QED BY <1>1, <2>1, <2>2, <2>3, <2>4, <2>5 DEF MirrorTypeOK
<1>4. /\ wpc'[m] = "exists" /\ job'[m] = nextEra
      /\ \A n \in Workers \ {m} : wpc'[n] = wpc[n] /\ job'[n] = job[n]
  BY <1>1 DEF MirrorTypeOK
<1>5. Pending' = Pending \cup {m} /\ m \notin Pending /\ Uploading' = Uploading
  BY <1>1, <1>4 DEF Pending, Uploading
<1>6. Cardinality(Pending') = Cardinality(Pending) + 1
  BY <1>5, Sizes, GrowsBy
<1>7. MirrorFiles'
  BY <1>1 DEF MirrorInv, MirrorFiles, vars
<1>8. Jobs'
  <2>1. \A n \in Workers : job[n] \in Eras => job[n] < nextEra /\ job[n] \in Nat
    BY <1>1, EraCacheAssumption DEF MirrorInv, Jobs
  <2>2. \A n \in Workers : wpc'[n] \in Busy <=> job'[n] \in Eras
    BY <1>n, <1>4 DEF MirrorInv, Jobs, Busy
  <2>3. \A a, b \in Workers : job'[a] \in Eras /\ job'[a] = job'[b] => a = b
    BY <1>n, <1>4, <2>1 DEF MirrorInv, Jobs
  <2>4. producer' = "sending" => \A n \in Workers : job'[n] \in Eras => job'[n] < nextEra'
    BY <1>n, <1>2, <1>4, <2>1
  <2>5. \A n \in Workers : wpc'[n] = "upload" => MirrorFile(n)' # Absent
    BY <1>1, <1>4 DEF MirrorInv, Jobs, MirrorFile, vars
  <2> QED BY <1>2, <2>2, <2>3, <2>4, <2>5 DEF Jobs
<1>9. Fresh'
  BY <1>2 DEF Fresh
<1>10. Covered'
  <2> SUFFICES ASSUME ~ firstErr, NEW e \in Eras, e # nextEra, Sent(e)'
               PROVE  s3'[e] # Absent \/ \E n \in Pending' : job'[n] = e
    BY <1>1, <1>4, <1>5 DEF Covered
  <2>1. Sent(e)
    BY <1>r, <1>n, <1>1, <1>2 DEF Sent
  <2>2. s3[e] # Absent \/ \E n \in Pending : job[n] = e
    BY <2>1 DEF MirrorInv, Covered
  <2> QED BY <1>1, <1>4, <1>5, <2>2 DEF vars, Pending
<1>11. Counted'
  <2>1. /\ stats'["scanned"] = stats["scanned"] + 1 /\ stats'["skipped"] = stats["skipped"]
        /\ stats'["uploaded"] = stats["uploaded"] /\ stats'["downloaded"] = stats["downloaded"]
        /\ stats["scanned"] \in Nat /\ stats["skipped"] \in Nat /\ stats["uploaded"] \in Nat
    BY <1>1 DEF MirrorTypeOK
  <2>2. stats["scanned"] = nextEra - Min(Eras)
    BY <1>1 DEF MirrorInv, Counted
  <2>3. ~ firstErr => stats["scanned"] = stats["skipped"] + stats["uploaded"] + Cardinality(Pending)
    BY DEF MirrorInv, Counted
  <2>4. ~ firstErr => stats["downloaded"] <= stats["uploaded"] + Cardinality(Uploading)
    BY DEF MirrorInv, Counted
  <2>5. ~ firstErr' => stats'["scanned"] = stats'["skipped"] + stats'["uploaded"] + Cardinality(Pending')
    BY <1>1, <1>6, <2>1, <2>3, Sizes
  <2>6. ~ firstErr' => stats'["downloaded"] <= stats'["uploaded"] + Cardinality(Uploading')
    BY <1>1, <1>5, <2>1, <2>4
  <2>7. producer' = "sending" => stats'["scanned"] = nextEra' - Min(Eras)
    BY <1>r, <1>n, <1>2, <2>1, <2>2
  <2>8. producer' = "closed" => stats'["scanned"] = Cardinality(Eras)
    BY <1>r, <1>n, <1>2, <2>1, <2>2
  <2> QED BY <1>2, <2>5, <2>6, <2>7, <2>8 DEF Counted
<1> QED BY <1>3, <1>7, <1>8, <1>9, <1>10, <1>11 DEF MirrorInv

(* The producer gives up: what was sent is no longer claimed complete. *)
LEMMA GiveUpStep ==
  ASSUME MirrorTypeOK, MirrorInv, S3Whole, GiveUp
  PROVE  MirrorTypeOK' /\ MirrorInv' /\ S3Whole' /\ Apart
<1>1. MirrorTypeOK' /\ S3Whole' /\ Apart
  BY EraRange DEF MirrorTypeOK, TypeOK, S3Whole, Apart, GiveUp, vars, downloaders, NoSharedDirectory
<1>2. Pending' = Pending /\ Uploading' = Uploading
  BY DEF GiveUp, Pending, Uploading
<1>3. MirrorFiles' /\ Fresh' /\ Covered'
  BY DEF MirrorInv, MirrorFiles, Fresh, Covered, Sent, GiveUp, vars
<1>4. Jobs'
  BY DEF MirrorInv, Jobs, MirrorFile, GiveUp, vars
<1>5. Counted'
  BY <1>2 DEF MirrorInv, Counted, GiveUp
<1> QED BY <1>1, <1>3, <1>4, <1>5 DEF MirrorInv

(* A worker without an era returns. *)
LEMMA WorkerReturnStep ==
  ASSUME MirrorTypeOK, MirrorInv, S3Whole, NEW m \in Workers, WorkerReturn(m)
  PROVE  MirrorTypeOK' /\ MirrorInv' /\ S3Whole' /\ Apart
<1>1. MirrorTypeOK' /\ S3Whole' /\ Apart
  BY DEF MirrorTypeOK, TypeOK, S3Whole, Apart, WorkerReturn, vars, downloaders, WorkerPCs,
         NoSharedDirectory
<1>2. /\ wpc[m] = "select" /\ wpc'[m] = "returned"
      /\ \A n \in Workers \ {m} : wpc'[n] = wpc[n]
  BY DEF WorkerReturn, MirrorTypeOK
<1>3. Pending' = Pending /\ Uploading' = Uploading
  BY <1>2 DEF Pending, Uploading
<1>4. MirrorFiles' /\ Fresh'
  BY DEF MirrorInv, MirrorFiles, Fresh, NoStats, WorkerReturn, vars
<1>5. Covered'
  BY <1>3 DEF MirrorInv, Covered, Sent, WorkerReturn, vars
<1>6. Jobs'
  BY <1>2 DEF MirrorInv, Jobs, Busy, MirrorFile, WorkerReturn, vars
<1>7. Counted'
  BY <1>3 DEF MirrorInv, Counted, WorkerReturn
<1> QED BY <1>1, <1>4, <1>5, <1>6, <1>7 DEF MirrorInv

(* An era that is in the bucket is skipped and counted so. *)
LEMMA SkipStep ==
  ASSUME MirrorTypeOK, MirrorInv, S3Whole, NEW m \in Workers, ObjectExists(m), s3[job[m]] # Absent
  PROVE  MirrorTypeOK' /\ MirrorInv' /\ S3Whole' /\ Apart
<1>1. /\ wpc[m] = "exists" /\ wpc' = [wpc EXCEPT ![m] = "select"] /\ job' = [job EXCEPT ![m] = NoEra]
      /\ stats' = [stats EXCEPT !["skipped"] = stats["skipped"] + 1]
      /\ UNCHANGED <<vars, producer, nextEra, firstErr, cancelled>>
  BY DEF ObjectExists, Done
<1>2. MirrorTypeOK' /\ S3Whole' /\ Apart
  <2>1. stats' \in [{"scanned", "skipped", "downloaded", "uploaded"} -> Nat]
    BY <1>1 DEF MirrorTypeOK
  <2>2. wpc' \in [Workers -> WorkerPCs] /\ job' \in [Workers -> Eras \cup {NoEra}]
    BY <1>1 DEF MirrorTypeOK, WorkerPCs
  <2>3. TypeOK' /\ S3Whole' /\ Apart
    BY <1>1 DEF MirrorTypeOK, TypeOK, vars, S3Whole, Apart, downloaders, NoSharedDirectory
  <2> QED BY <1>1, <2>1, <2>2, <2>3 DEF MirrorTypeOK
<1>3. /\ wpc'[m] = "select" /\ job'[m] = NoEra
      /\ \A n \in Workers \ {m} : wpc'[n] = wpc[n] /\ job'[n] = job[n]
  BY <1>1 DEF MirrorTypeOK
<1>4. Pending' = Pending \ {m} /\ m \in Pending /\ Uploading' = Uploading
  BY <1>1, <1>3 DEF Pending, Uploading
<1>5. Cardinality(Pending') = Cardinality(Pending) - 1
  BY <1>4, Sizes, ShrinksBy
<1>6. MirrorFiles'
  BY <1>1 DEF MirrorInv, MirrorFiles, vars
<1>7. Jobs'
  BY <1>1, <1>3, NoJob DEF MirrorInv, Jobs, Busy, MirrorFile, vars
<1>8. Fresh'
  BY <1>1 DEF MirrorInv, Jobs, Fresh
<1>9. Covered'
  <2> SUFFICES ASSUME ~ firstErr, NEW e \in Eras, Sent(e)
               PROVE  s3[e] # Absent \/ \E n \in Pending' : job'[n] = e
    BY <1>1 DEF Covered, Sent, vars
  <2>1. s3[e] # Absent \/ \E n \in Pending : job[n] = e
    BY DEF MirrorInv, Covered
  <2> QED BY <1>3, <1>4, <2>1 DEF Pending
<1>10. Counted'
  <2>1. /\ stats'["scanned"] = stats["scanned"] /\ stats'["skipped"] = stats["skipped"] + 1
        /\ stats'["uploaded"] = stats["uploaded"] /\ stats'["downloaded"] = stats["downloaded"]
        /\ stats["scanned"] \in Nat /\ stats["skipped"] \in Nat /\ stats["uploaded"] \in Nat
    BY <1>1 DEF MirrorTypeOK
  <2>2. ~ firstErr => stats["scanned"] = stats["skipped"] + stats["uploaded"] + Cardinality(Pending)
    BY DEF MirrorInv, Counted
  <2>3. ~ firstErr' => stats'["scanned"] = stats'["skipped"] + stats'["uploaded"] + Cardinality(Pending')
    BY <1>1, <1>5, <2>1, <2>2, Sizes
  <2> QED BY <1>1, <1>4, <2>1, <2>3 DEF MirrorInv, Counted
<1> QED BY <1>2, <1>6, <1>7, <1>8, <1>9, <1>10 DEF MirrorInv

(* An era that is not: its file is uploaded if there is one. *)
LEMMA MissStep ==
  ASSUME MirrorTypeOK, MirrorInv, S3Whole, NEW m \in Workers, ObjectExists(m), s3[job[m]] = Absent
  PROVE  MirrorTypeOK' /\ MirrorInv' /\ S3Whole' /\ Apart
<1>1. /\ wpc[m] = "exists"
      /\ wpc' = [wpc EXCEPT ![m] = IF MirrorFile(m) = Absent THEN "http" ELSE "upload"]
      /\ UNCHANGED <<vars, job, stats, producer, nextEra, firstErr, cancelled>>
  BY DEF ObjectExists
<1>2. MirrorTypeOK' /\ S3Whole' /\ Apart
  BY <1>1 DEF MirrorTypeOK, TypeOK, vars, S3Whole, Apart, downloaders, NoSharedDirectory, WorkerPCs
<1>3. /\ wpc'[m] \in {"http", "upload"} /\ (wpc'[m] = "upload" => MirrorFile(m) # Absent)
      /\ \A n \in Workers \ {m} : wpc'[n] = wpc[n]
  BY <1>1 DEF MirrorTypeOK
<1>4. Pending' = Pending
  BY <1>1, <1>3 DEF Pending
<1>5. Cardinality(Uploading) <= Cardinality(Uploading')
  <2>1. CASE wpc'[m] = "http"
    <3>1. Uploading' = Uploading
      BY <1>1, <1>3, <2>1 DEF Uploading
    <3> QED BY <3>1, Sizes
  <2>2. CASE wpc'[m] = "upload"
    <3>1. Uploading' = Uploading \cup {m} /\ m \notin Uploading
      BY <1>1, <1>3, <2>2 DEF Uploading
    <3> QED BY <3>1, Sizes, GrowsBy
  <2> QED BY <1>3, <2>1, <2>2
<1>6. MirrorFiles'
  BY <1>1 DEF MirrorInv, MirrorFiles, vars
<1>7. Jobs'
  BY <1>1, <1>3 DEF MirrorInv, Jobs, Busy, MirrorFile, vars
<1>8. Fresh'
  BY <1>1 DEF MirrorInv, Jobs, Fresh
<1>9. Covered'
  BY <1>1, <1>4 DEF MirrorInv, Covered, Sent, vars
<1>10. Counted'
  <2>1. stats["downloaded"] \in Nat /\ stats["uploaded"] \in Nat /\ Cardinality(Uploading') \in Nat
    BY <1>2, Sizes, EraMirrorAssumption, FS_Subset, FS_CardinalityType DEF MirrorTypeOK, Uploading
  <2>2. ~ firstErr => stats["downloaded"] <= stats["uploaded"] + Cardinality(Uploading')
    BY <1>5, <2>1, Sizes DEF MirrorInv, Counted
  <2> QED BY <1>1, <1>4, <2>2 DEF MirrorInv, Counted
<1> QED BY <1>2, <1>6, <1>7, <1>8, <1>9, <1>10 DEF MirrorInv

(* JobFacts: a busy worker's era, and nobody else's. *)
LEMMA JobFacts ==
  ASSUME MirrorInv, NEW m \in Workers, wpc[m] \in Busy
  PROVE  /\ job[m] \in Eras
         /\ \A n \in Workers \ {m} : wpc[n] \in Busy => job[n] # job[m]
         /\ producer \notin {"off", "err", "ok"}
BY DEF MirrorInv, Jobs, Busy

(* A download of the mirror is whole. *)
LEMMA tryDownloadHTTPStep ==
  ASSUME MirrorTypeOK, MirrorInv, S3Whole, NEW m \in Workers, tryDownloadHTTP(m)
  PROVE  MirrorTypeOK' /\ MirrorInv' /\ S3Whole' /\ Apart
<1> DEFINE e == job[m]
           d == MirrorDir
<1>1. /\ wpc[m] = "http" /\ wpc' = [wpc EXCEPT ![m] = "upload"]
      /\ disk' = [disk EXCEPT ![d][e] = Full]
      /\ stats' = [stats EXCEPT !["downloaded"] = stats["downloaded"] + 1]
      /\ UNCHANGED <<downloaders, s3, interrupted, crashes,
                     producer, nextEra, job, firstErr, cancelled>>
  BY DEF tryDownloadHTTP
<1>2. /\ e \in Eras /\ d \in Dirs /\ producer \notin {"off", "err", "ok"}
      /\ \A n \in Workers \ {m} : wpc[n] \in Busy => job[n] # e
  BY <1>1, JobFacts, EraMirrorAssumption DEF Busy
<1> HIDE DEF e, d
<1>3. /\ disk' \in [Dirs -> [Eras -> (SUBSET Parts) \cup {Absent}]]
      /\ disk'[d][e] = Full
      /\ \A c \in Dirs, f \in Eras : c # d \/ f # e => disk'[c][f] = disk[c][f]
  <2>1. TypeOK /\ Full \in (SUBSET Parts) \cup {Absent}
    BY FullFile DEF MirrorTypeOK
  <2>2. Wrote(d, e, Full)
    BY <1>1, <1>2, <2>1, SetFile
  <2> QED BY <2>2 DEF Wrote
<1>4. MirrorTypeOK' /\ S3Whole' /\ Apart
  <2>1. stats' \in [{"scanned", "skipped", "downloaded", "uploaded"} -> Nat]
    BY <1>1 DEF MirrorTypeOK
  <2>2. wpc' \in [Workers -> WorkerPCs]
    BY <1>1 DEF MirrorTypeOK, WorkerPCs
  <2>3. TypeOK'
    BY <1>1, <1>3 DEF MirrorTypeOK, TypeOK, downloaders
  <2>4. S3Whole' /\ Apart
    BY <1>1, <1>2, <1>3 DEF S3Whole, Apart, NoSharedDirectory, d
  <2> QED BY <1>1, <2>1, <2>2, <2>3, <2>4 DEF MirrorTypeOK
<1>5. wpc'[m] = "upload" /\ \A n \in Workers \ {m} : wpc'[n] = wpc[n]
  BY <1>1 DEF MirrorTypeOK
<1>6. Pending' = Pending /\ Uploading' = Uploading \cup {m} /\ m \notin Uploading
  BY <1>1, <1>5 DEF Pending, Uploading
<1>7. Cardinality(Uploading') = Cardinality(Uploading) + 1
  BY <1>6, Sizes, GrowsBy
<1>8. MirrorFiles'
  BY <1>1, <1>2, <1>3 DEF MirrorInv, MirrorFiles, d
<1>9. Jobs'
  <2>1. \A n \in Workers : wpc'[n] = "upload" => MirrorFile(n)' # Absent
    <3> SUFFICES ASSUME NEW n \in Workers, wpc'[n] = "upload"
                 PROVE  disk'[d][job[n]] # Absent
      BY <1>1 DEF MirrorFile, d
    <3>1. CASE n = m
      BY <1>3, <3>1, FullFile DEF e
    <3>2. CASE n # m
      <4>1. wpc[n] = "upload" /\ disk[d][job[n]] # Absent /\ job[n] \in Eras
        BY <1>5, <3>2 DEF MirrorInv, Jobs, MirrorFile, Busy, d
      <4> QED BY <1>2, <1>3, <3>2, <4>1 DEF Busy
    <3> QED BY <3>1, <3>2
  <2> QED BY <1>1, <1>2, <1>5, <2>1 DEF MirrorInv, Jobs, Busy
<1>10. Fresh'
  BY <1>1, <1>2 DEF Fresh
<1>11. Covered'
  BY <1>1, <1>6 DEF MirrorInv, Covered, Sent
<1>12. Counted'
  <2>1. /\ stats'["scanned"] = stats["scanned"] /\ stats'["skipped"] = stats["skipped"]
        /\ stats'["uploaded"] = stats["uploaded"] /\ stats'["downloaded"] = stats["downloaded"] + 1
        /\ stats["downloaded"] \in Nat /\ stats["uploaded"] \in Nat
    BY <1>1 DEF MirrorTypeOK
  <2>2. ~ firstErr => stats["downloaded"] <= stats["uploaded"] + Cardinality(Uploading)
    BY DEF MirrorInv, Counted
  <2>3. ~ firstErr' => stats'["downloaded"] <= stats'["uploaded"] + Cardinality(Uploading')
    BY <1>1, <1>7, <2>1, <2>2, Sizes
  <2> QED BY <1>1, <1>6, <2>1, <2>3 DEF MirrorInv, Counted
<1> QED BY <1>4, <1>8, <1>9, <1>10, <1>11, <1>12 DEF MirrorInv

(* What the mirror uploads is whole, unless a write was cut short. *)
LEMMA MirrorUploadStep ==
  ASSUME MirrorTypeOK, MirrorInv, S3Whole, NEW m \in Workers, MirrorUpload(m)
  PROVE  MirrorTypeOK' /\ MirrorInv' /\ S3Whole' /\ Apart
<1> DEFINE e == job[m]
           v == MirrorFile(m)
<1>1. /\ wpc[m] = "upload" /\ wpc' = [wpc EXCEPT ![m] = "remove"]
      /\ s3' = [s3 EXCEPT ![e] = v]
      /\ stats' = [stats EXCEPT !["uploaded"] = stats["uploaded"] + 1]
      /\ UNCHANGED <<downloaders, disk, interrupted, crashes,
                     producer, nextEra, job, firstErr, cancelled>>
  BY DEF MirrorUpload
<1>2. e \in Eras /\ producer \notin {"off", "err", "ok"}
  BY <1>1, JobFacts DEF Busy
<1>3. /\ v # Absent /\ (MirrorDir \notin interrupted => v = Full)
      /\ v \in (SUBSET Parts) \cup {Absent}
  <2>1. v # Absent
    BY <1>1 DEF MirrorInv, Jobs
  <2>2. v \in (SUBSET Parts) \cup {Absent}
    BY <1>2, EraMirrorAssumption DEF MirrorTypeOK, TypeOK, MirrorFile
  <2> QED BY <1>2, <2>1, <2>2 DEF MirrorInv, MirrorFiles, MirrorFile
<1> HIDE DEF e, v
<1>4. \A f \in Eras : s3'[f] = IF f = e THEN v ELSE s3[f]
  BY <1>1, <1>2 DEF MirrorTypeOK, TypeOK
<1>5. MirrorTypeOK' /\ S3Whole' /\ Apart
  <2>1. stats' \in [{"scanned", "skipped", "downloaded", "uploaded"} -> Nat]
    BY <1>1 DEF MirrorTypeOK
  <2>2. wpc' \in [Workers -> WorkerPCs]
    BY <1>1 DEF MirrorTypeOK, WorkerPCs
  <2>3. s3' \in [Eras -> (SUBSET Parts) \cup {Absent}]
    BY <1>1, <1>2, <1>3 DEF MirrorTypeOK, TypeOK
  <2>4. TypeOK'
    BY <1>1, <2>3 DEF MirrorTypeOK, TypeOK, downloaders
  <2>5. Apart
    BY <1>1 DEF Apart
  <2>6. S3Whole'
    <3>1. NoSharedDirectory' = NoSharedDirectory
      BY DEF NoSharedDirectory
    <3> HIDE DEF NoSharedDirectory
    <3> QED BY <1>1, <1>3, <1>4, <3>1 DEF S3Whole
  <2> QED BY <1>1, <2>1, <2>2, <2>4, <2>5, <2>6 DEF MirrorTypeOK
<1>6. wpc'[m] = "remove" /\ \A n \in Workers \ {m} : wpc'[n] = wpc[n]
  BY <1>1 DEF MirrorTypeOK
<1>7. /\ Pending' = Pending \ {m} /\ m \in Pending
      /\ Uploading' = Uploading \ {m} /\ m \in Uploading
  BY <1>1, <1>6 DEF Pending, Uploading
<1>8. /\ Cardinality(Pending') = Cardinality(Pending) - 1
      /\ Cardinality(Uploading') = Cardinality(Uploading) - 1
  BY <1>7, Sizes, ShrinksBy
<1>9. MirrorFiles'
  BY <1>1 DEF MirrorInv, MirrorFiles
<1>10. Jobs'
  BY <1>1, <1>6 DEF MirrorInv, Jobs, Busy, MirrorFile
<1>11. Fresh'
  BY <1>1, <1>2 DEF Fresh
<1>12. Covered'
  <2> SUFFICES ASSUME ~ firstErr, NEW f \in Eras, Sent(f), f # e
               PROVE  s3'[f] # Absent \/ \E n \in Pending' : job[n] = f
    BY <1>1, <1>3, <1>4 DEF Covered, Sent
  <2>1. s3[f] # Absent \/ \E n \in Pending : job[n] = f
    BY DEF MirrorInv, Covered
  <2> QED BY <1>4, <1>7, <2>1 DEF e
<1>13. Counted'
  <2>1. /\ stats'["scanned"] = stats["scanned"] /\ stats'["skipped"] = stats["skipped"]
        /\ stats'["uploaded"] = stats["uploaded"] + 1 /\ stats'["downloaded"] = stats["downloaded"]
        /\ stats["scanned"] \in Nat /\ stats["skipped"] \in Nat
        /\ stats["downloaded"] \in Nat /\ stats["uploaded"] \in Nat
    BY <1>1 DEF MirrorTypeOK
  <2>2. ~ firstErr =>
          /\ stats["downloaded"] <= stats["uploaded"] + Cardinality(Uploading)
          /\ stats["scanned"] = stats["skipped"] + stats["uploaded"] + Cardinality(Pending)
    BY DEF MirrorInv, Counted
  <2>3. ~ firstErr' =>
          /\ stats'["downloaded"] <= stats'["uploaded"] + Cardinality(Uploading')
          /\ stats'["scanned"] = stats'["skipped"] + stats'["uploaded"] + Cardinality(Pending')
    BY <1>1, <1>8, <2>1, <2>2, Sizes
  <2> QED BY <1>1, <2>1, <2>3 DEF MirrorInv, Counted
<1> QED BY <1>5, <1>9, <1>10, <1>11, <1>12, <1>13 DEF MirrorInv

(* A file is removed after its era is in the bucket. *)
LEMMA RemoveMirroredStep ==
  ASSUME MirrorTypeOK, MirrorInv, S3Whole, NEW m \in Workers, RemoveMirrored(m)
  PROVE  MirrorTypeOK' /\ MirrorInv' /\ S3Whole' /\ Apart
<1> DEFINE e == job[m]
           d == MirrorDir
<1>1. /\ wpc[m] = "remove" /\ wpc' = [wpc EXCEPT ![m] = "select"]
      /\ job' = [job EXCEPT ![m] = NoEra] /\ disk' = [disk EXCEPT ![d][e] = Absent]
      /\ UNCHANGED <<downloaders, s3, interrupted, crashes,
                     producer, nextEra, stats, firstErr, cancelled>>
  BY DEF RemoveMirrored, Done
<1>2. /\ e \in Eras /\ d \in Dirs /\ producer \notin {"off", "err", "ok"}
      /\ \A n \in Workers \ {m} : wpc[n] \in Busy => job[n] # e
  BY <1>1, JobFacts, EraMirrorAssumption DEF Busy
<1> HIDE DEF e, d
<1>3. /\ disk' \in [Dirs -> [Eras -> (SUBSET Parts) \cup {Absent}]]
      /\ disk'[d][e] = Absent
      /\ \A c \in Dirs, f \in Eras : c # d \/ f # e => disk'[c][f] = disk[c][f]
  <2>1. TypeOK /\ Absent \in (SUBSET Parts) \cup {Absent}
    BY DEF MirrorTypeOK
  <2>2. Wrote(d, e, Absent)
    BY <1>1, <1>2, <2>1, SetFile
  <2> QED BY <2>2 DEF Wrote
<1>4. MirrorTypeOK' /\ S3Whole' /\ Apart
  <2>2. wpc' \in [Workers -> WorkerPCs] /\ job' \in [Workers -> Eras \cup {NoEra}]
    BY <1>1 DEF MirrorTypeOK, WorkerPCs
  <2>3. TypeOK'
    BY <1>1, <1>3 DEF MirrorTypeOK, TypeOK, downloaders
  <2>4. S3Whole' /\ Apart
    BY <1>1, <1>2, <1>3 DEF S3Whole, Apart, NoSharedDirectory, d
  <2> QED BY <1>1, <2>2, <2>3, <2>4 DEF MirrorTypeOK
<1>5. /\ wpc'[m] = "select" /\ job'[m] = NoEra
      /\ \A n \in Workers \ {m} : wpc'[n] = wpc[n] /\ job'[n] = job[n]
  BY <1>1 DEF MirrorTypeOK
<1>6. Pending' = Pending /\ Uploading' = Uploading /\ m \notin Pending
  BY <1>1, <1>5 DEF Pending, Uploading
<1>7. MirrorFiles'
  BY <1>1, <1>2, <1>3 DEF MirrorInv, MirrorFiles, d
<1>8. Jobs'
  <2>1. \A n \in Workers : wpc'[n] = "upload" => MirrorFile(n)' # Absent
    <3> SUFFICES ASSUME NEW n \in Workers, wpc'[n] = "upload"
                 PROVE  disk'[d][job'[n]] # Absent
      BY DEF MirrorFile, d
    <3>1. n # m /\ wpc[n] = "upload" /\ disk[d][job[n]] # Absent /\ job[n] \in Eras
      BY <1>5 DEF MirrorInv, Jobs, MirrorFile, Busy, d
    <3> QED BY <1>2, <1>3, <1>5, <3>1 DEF Busy
  <2> QED BY <1>1, <1>2, <1>5, <2>1, NoJob DEF MirrorInv, Jobs, Busy
<1>9. Fresh'
  BY <1>1, <1>2 DEF Fresh
<1>10. Covered'
  BY <1>1, <1>5, <1>6 DEF MirrorInv, Covered, Sent, Pending
<1>11. Counted'
  BY <1>1, <1>6 DEF MirrorInv, Counted
<1> QED BY <1>4, <1>7, <1>8, <1>9, <1>10, <1>11 DEF MirrorInv

(* The first error is kept: the run will not be reported complete. *)
LEMMA MirrorErrStep ==
  ASSUME MirrorTypeOK, MirrorInv, S3Whole, NEW m \in Workers, MirrorErr(m)
  PROVE  MirrorTypeOK' /\ MirrorInv' /\ S3Whole' /\ Apart
<1>1. /\ wpc[m] \in Busy /\ wpc' = [wpc EXCEPT ![m] = "returned"]
      /\ job' = [job EXCEPT ![m] = NoEra] /\ firstErr' = TRUE /\ cancelled' = TRUE
      /\ UNCHANGED <<downloaders, s3, crashes, producer, nextEra, stats>>
  BY DEF MirrorErr, Done, setErr, WorkerPCs, Busy
<1>2. /\ job[m] \in Eras /\ producer \notin {"off", "err", "ok"}
      /\ \A n \in Workers \ {m} : wpc[n] \in Busy => job[n] # job[m]
  BY <1>1, JobFacts
<1>3. /\ disk' \in [Dirs -> [Eras -> (SUBSET Parts) \cup {Absent}]]
      /\ interrupted' \subseteq Dirs /\ interrupted \subseteq interrupted'
      /\ \A d \in Dirs \ {MirrorDir}, e \in Eras : disk'[d][e] = disk[d][e]
      /\ \A e \in Eras : e # job[m] => disk'[MirrorDir][e] = disk[MirrorDir][e]
      /\ MirrorFiles'
  <2> DEFINE ms == IF wpc[m] = "http" THEN {m} ELSE {}
  <2>1. ms \in SUBSET Workers /\ ms \subseteq {m} /\ CutShort(ms)
    BY DEF MirrorErr
  <2> HIDE DEF ms
  <2>2. MirrorFiles
    BY DEF MirrorInv
  <2>3. /\ disk' \in [Dirs -> [Eras -> (SUBSET Parts) \cup {Absent}]]
        /\ interrupted' \subseteq Dirs /\ interrupted \subseteq interrupted'
        /\ \A d \in Dirs \ {MirrorDir}, e \in Eras : disk'[d][e] = disk[d][e]
        /\ \A e \in Eras : (\A n \in ms : job[n] # e) => disk'[MirrorDir][e] = disk[MirrorDir][e]
        /\ MirrorFiles'
    BY <2>1, <2>2, CutShortFacts
  <2> QED BY <2>1, <2>3
<1>4. MirrorTypeOK' /\ S3Whole' /\ Apart
  <2>1. wpc' \in [Workers -> WorkerPCs] /\ job' \in [Workers -> Eras \cup {NoEra}]
    BY <1>1 DEF MirrorTypeOK, WorkerPCs
  <2>2. TypeOK'
    BY <1>1, <1>3 DEF MirrorTypeOK, TypeOK, downloaders
  <2>3. S3Whole' /\ Apart
    BY <1>1, <1>3, ObjectsKept DEF Apart
  <2> QED BY <1>1, <2>1, <2>2, <2>3 DEF MirrorTypeOK
<1>5. /\ wpc'[m] = "returned" /\ job'[m] = NoEra
      /\ \A n \in Workers \ {m} : wpc'[n] = wpc[n] /\ job'[n] = job[n]
  BY <1>1 DEF MirrorTypeOK
<1>6. Jobs'
  <2>1. \A n \in Workers : wpc'[n] = "upload" => MirrorFile(n)' # Absent
    <3> SUFFICES ASSUME NEW n \in Workers, wpc'[n] = "upload"
                 PROVE  disk'[MirrorDir][job'[n]] # Absent
      BY DEF MirrorFile
    <3>1. /\ n # m /\ wpc[n] = "upload" /\ disk[MirrorDir][job[n]] # Absent
          /\ job[n] \in Eras
      BY <1>5 DEF MirrorInv, Jobs, MirrorFile, Busy
    <3> QED BY <1>2, <1>3, <1>5, <3>1 DEF Busy
  <2> QED BY <1>1, <1>2, <1>5, <2>1, NoJob DEF MirrorInv, Jobs, Busy
<1>7. Fresh' /\ Covered'
  BY <1>1, <1>2 DEF Fresh, Covered
<1>8. Counted'
  BY <1>1, <1>2 DEF MirrorInv, Counted
<1> QED BY <1>3, <1>4, <1>6, <1>7, <1>8 DEF MirrorInv

(* Idle: with every worker returned, nothing is pending. *)
LEMMA Idle ==
  ASSUME \A m \in Workers : wpc[m] = "returned"
  PROVE  Pending = {} /\ Uploading = {} /\ Cardinality(Pending) = 0 /\ Cardinality(Uploading) = 0
BY FS_EmptySet DEF Pending, Uploading

(* MirrorToS3 returns. *)
LEMMA MirrorReturnStep ==
  ASSUME MirrorTypeOK, MirrorInv, S3Whole, MirrorReturn
  PROVE  MirrorTypeOK' /\ MirrorInv' /\ S3Whole' /\ Apart
<1>1. /\ producer \in {"closed", "gaveup"} /\ \A m \in Workers : wpc[m] = "returned"
      /\ UNCHANGED <<vars, wpc, job>>
      /\ \/ producer' = "err" /\ nextEra' = Min(Eras) /\ stats' = NoStats
            /\ firstErr' = FALSE /\ cancelled' = FALSE
         \/ ~ firstErr /\ producer = "closed" /\ producer' = "ok"
            /\ UNCHANGED <<nextEra, stats, firstErr, cancelled>>
  BY DEF MirrorReturn, Forget
<1>2. MirrorTypeOK' /\ S3Whole' /\ Apart
  <2>1. TypeOK' /\ S3Whole' /\ Apart
    BY <1>1 DEF MirrorTypeOK, TypeOK, vars, S3Whole, Apart, downloaders, NoSharedDirectory
  <2>2. NoStats \in [{"scanned", "skipped", "downloaded", "uploaded"} -> Nat]
    BY DEF NoStats
  <2> QED BY <1>1, <2>1, <2>2, EraRange DEF MirrorTypeOK
<1>3. /\ Pending' = Pending /\ Uploading' = Uploading /\ Pending = {}
      /\ Cardinality(Pending) = 0 /\ Cardinality(Uploading) = 0
  BY <1>1, Idle DEF Pending, Uploading
<1>4. MirrorFiles'
  BY <1>1 DEF MirrorInv, MirrorFiles, vars
<1>5. Jobs'
  BY <1>1 DEF MirrorInv, Jobs, Busy, MirrorFile, vars
<1>6. Fresh'
  BY <1>1 DEF Fresh, NoStats
<1>7. Covered'
  BY <1>1, <1>3 DEF MirrorInv, Covered, Sent, vars
<1>8. Counted'
  <2>1. CASE producer' = "ok"
    BY <1>1, <1>3, <2>1 DEF MirrorInv, Counted
  <2>2. CASE producer' = "err" /\ stats' = NoStats
    BY <1>1, <1>3, <2>2 DEF Counted, NoStats
  <2> QED BY <1>1, <2>1, <2>2
<1> QED BY <1>2, <1>4, <1>5, <1>6, <1>7, <1>8 DEF MirrorInv

(* A signal cancels the context and changes nothing else. *)
LEMMA InterruptStep ==
  ASSUME MirrorTypeOK, MirrorInv, S3Whole, Interrupt
  PROVE  MirrorTypeOK' /\ MirrorInv' /\ S3Whole' /\ Apart
<1>1. /\ producer \in {"sending", "closed"} /\ cancelled' = TRUE
      /\ UNCHANGED <<downloaders, disk, s3, interrupted,
                     producer, nextEra, wpc, job, stats, firstErr>>
      /\ crashes < MaxCrashes /\ crashes' = crashes + 1
  BY DEF Interrupt
<1>2. MirrorTypeOK' /\ S3Whole' /\ Apart
  <2>1. crashes' \in 0 .. MaxCrashes
    BY <1>1, EraCacheAssumption DEF MirrorTypeOK, TypeOK
  <2>2. TypeOK'
    BY <1>1, <2>1 DEF MirrorTypeOK, TypeOK, downloaders
  <2>3. S3Whole' /\ Apart
    BY <1>1 DEF S3Whole, Apart, NoSharedDirectory
  <2> QED BY <1>1, <2>2, <2>3 DEF MirrorTypeOK
<1>3. Pending' = Pending /\ Uploading' = Uploading
  BY <1>1 DEF Pending, Uploading
<1>4. MirrorFiles' /\ Fresh'
  BY <1>1 DEF MirrorInv, MirrorFiles, Fresh
<1>5. Jobs'
  BY <1>1 DEF MirrorInv, Jobs, Busy, MirrorFile
<1>6. Covered' /\ Counted'
  BY <1>1, <1>3 DEF MirrorInv, Covered, Sent, Counted
<1> QED BY <1>2, <1>4, <1>5, <1>6 DEF MirrorInv

(* The mirror is killed: its memory is gone, its files and prefixes stay. *)
LEMMA MirrorCrashStep ==
  ASSUME MirrorTypeOK, MirrorInv, S3Whole, MirrorCrash
  PROVE  MirrorTypeOK' /\ MirrorInv' /\ S3Whole' /\ Apart
<1>1. /\ producer' = "off" /\ nextEra' = Min(Eras) /\ stats' = NoStats
      /\ firstErr' = FALSE /\ cancelled' = FALSE
      /\ wpc' = [m \in Workers |-> "returned"] /\ job' = [m \in Workers |-> NoEra]
      /\ UNCHANGED <<downloaders, s3>>
      /\ crashes < MaxCrashes /\ crashes' = crashes + 1
  BY DEF MirrorCrash, Forget
<1>2. /\ disk' \in [Dirs -> [Eras -> (SUBSET Parts) \cup {Absent}]]
      /\ interrupted' \subseteq Dirs /\ interrupted \subseteq interrupted'
      /\ \A d \in Dirs \ {MirrorDir}, e \in Eras : disk'[d][e] = disk[d][e]
      /\ MirrorFiles'
  <2> DEFINE ms == {m \in Workers : wpc[m] = "http"}
  <2>1. ms \in SUBSET Workers /\ CutShort(ms) /\ MirrorFiles
    BY DEF MirrorCrash, MirrorInv
  <2> HIDE DEF ms
  <2> QED BY <2>1, CutShortFacts
<1>3. MirrorTypeOK' /\ S3Whole' /\ Apart
  <2>1. crashes' \in 0 .. MaxCrashes
    BY <1>1, EraCacheAssumption DEF MirrorTypeOK, TypeOK
  <2>2. TypeOK'
    BY <1>1, <1>2, <2>1 DEF MirrorTypeOK, TypeOK, downloaders
  <2>3. S3Whole' /\ Apart
    BY <1>1, <1>2, ObjectsKept DEF Apart
  <2>4. /\ wpc' \in [Workers -> WorkerPCs] /\ job' \in [Workers -> Eras \cup {NoEra}]
        /\ stats' \in [{"scanned", "skipped", "downloaded", "uploaded"} -> Nat]
    BY <1>1 DEF WorkerPCs, NoStats
  <2> QED BY <1>1, <2>2, <2>3, <2>4, EraRange DEF MirrorTypeOK
<1>4. \A m \in Workers : wpc'[m] = "returned" /\ job'[m] = NoEra
  BY <1>1
<1>5. Pending' = {} /\ Uploading' = {}
  BY <1>4 DEF Pending, Uploading
<1>6. Cardinality(Pending') = 0 /\ Cardinality(Uploading') = 0
  BY <1>5, FS_EmptySet
<1>7. Jobs'
  BY <1>1, <1>4, NoJob DEF Jobs, Busy
<1>8. Fresh' /\ Covered'
  BY <1>1 DEF Fresh, Covered, Sent, NoStats
<1>9. Counted'
  BY <1>1, <1>6 DEF Counted, NoStats
<1> QED BY <1>2, <1>3, <1>7, <1>8, <1>9 DEF MirrorInv
-------------------------------------------------------------------------------
(* InitHolds: no file, no object, no process, no mirror. *)
LEMMA InitHolds ==
  ASSUME MirrorInit
  PROVE  IInv
<1>1. TypeOK
  <2>1. 0 \in 0 .. 2 * Records + 1 /\ 1 \in 1 .. MaxRetries /\ 0 \in 0 .. MaxCrashes
    BY EraCacheAssumption
  <2> QED BY <2>1 DEF MirrorInit, Init, TypeOK, PCs
<1>2. MirrorTypeOK
  <2>1. NoStats \in [{"scanned", "skipped", "downloaded", "uploaded"} -> Nat]
    BY DEF NoStats
  <2> QED BY <1>1, <2>1, EraRange DEF MirrorInit, MirrorTypeOK, WorkerPCs
<1>3. /\ \A p \in Procs : pc[p] = "idle" /\ \A e \in Eras : index[p][e] = Absent
      /\ \A d \in Dirs, e \in Eras : disk[d][e] = Absent
      /\ \A e \in Eras : s3[e] = Absent
  BY DEF MirrorInit, Init
<1>4. DownloaderInv
  <2> SUFFICES ASSUME NEW p \in Procs PROVE Local(p)
    BY DEF DownloaderInv
  <2>1. \A e \in Eras : File(p, e) = Absent
    BY <1>3, EraCacheAssumption DEF File
  <2> QED BY <1>3, <2>1 DEF Local
<1>5. S3Whole /\ MirrorFiles
  BY <1>3, EraMirrorAssumption DEF S3Whole, MirrorFiles
<1>6. /\ producer = "off" /\ nextEra = Min(Eras) /\ stats = NoStats /\ ~ firstErr /\ ~ cancelled
      /\ \A m \in Workers : wpc[m] = "returned" /\ job[m] = NoEra
  BY DEF MirrorInit
<1>7. Jobs /\ Fresh /\ Covered
  BY <1>6, NoJob DEF Jobs, Busy, Fresh, Covered, Sent
<1>8. Counted
  BY <1>6, Idle DEF Counted, NoStats
<1> QED BY <1>2, <1>4, <1>5, <1>7, <1>8 DEF IInv, MirrorInv

(* MirrorKeepsInv: every step of the mirror keeps the invariant. *)
LEMMA MirrorKeepsInv ==
  ASSUME IInv, MirrorStart \/ MirrorStep \/ Interrupt \/ MirrorCrash
  PROVE  IInv' /\ Apart
<1>1. MirrorTypeOK /\ TypeOK /\ DownloaderInv /\ MirrorInv /\ S3Whole
  BY DEF IInv, MirrorTypeOK
<1>2. \A m \in Workers : ObjectExists(m) => MirrorTypeOK' /\ MirrorInv' /\ S3Whole' /\ Apart
  BY <1>1, SkipStep, MissStep
<1>3. MirrorTypeOK' /\ MirrorInv' /\ S3Whole' /\ Apart
  BY <1>1, <1>2, MirrorStartStep, SendStep, GiveUpStep, WorkerReturnStep, tryDownloadHTTPStep,
     MirrorUploadStep, RemoveMirroredStep, MirrorErrStep, MirrorReturnStep, InterruptStep,
     MirrorCrashStep DEF MirrorStep
<1>4. DownloaderInv'
  BY <1>1, <1>3, DownloadersKeep
<1> QED BY <1>3, <1>4 DEF IInv

(* Inductive: IInv is an invariant of downloaders and mirror together. *)
THEOREM Inductive == MirrorSafeSpec => []IInv
<1>1. MirrorInit => IInv
  BY InitHolds
<1>2. IInv /\ [MirrorNext]_<<vars, mirrorVars>> => IInv'
  <2> SUFFICES ASSUME IInv, [MirrorNext]_<<vars, mirrorVars>> PROVE IInv'
    OBVIOUS
  <2>1. CASE Next /\ UNCHANGED mirrorVars
    BY <2>1, ProcStep
  <2>2. CASE MirrorStart \/ MirrorStep \/ Interrupt \/ MirrorCrash
    BY <2>2, MirrorKeepsInv
  <2>3. CASE UNCHANGED <<vars, mirrorVars>>
    <3>1. MirrorTypeOK'
      BY <2>3 DEF IInv, MirrorTypeOK, TypeOK, vars, mirrorVars
    <3>2. DownloaderInv'
      <4>1. MirrorTypeOK /\ TypeOK /\ DownloaderInv
        BY DEF IInv, MirrorTypeOK
      <4>2. Apart
        BY <2>3 DEF Apart, vars, downloaders
      <4> QED BY <4>1, <4>2, DownloadersKeep
    <3>3. MirrorFiles' /\ Jobs' /\ Fresh'
      BY <2>3 DEF IInv, MirrorInv, MirrorFiles, Jobs, Fresh, NoStats, MirrorFile, Busy, vars, mirrorVars
    <3>4. Pending' = Pending /\ Uploading' = Uploading
      BY <2>3 DEF Pending, Uploading, mirrorVars
    <3>5. Covered' /\ Counted'
      BY <2>3, <3>4 DEF IInv, MirrorInv, Covered, Sent, Counted, vars, mirrorVars
    <3>6. S3Whole'
      BY <2>3 DEF IInv, S3Whole, NoSharedDirectory, vars
    <3> QED BY <3>1, <3>2, <3>3, <3>5, <3>6 DEF IInv, MirrorInv
  <2> QED BY <2>1, <2>2, <2>3 DEF MirrorNext
<1> QED BY <1>1, <1>2, PTL DEF MirrorSafeSpec

(* TypesHold: every variable keeps its type; in particular the producer     *)
(* never sends an era past the end of the range (MirrorToS3), and nobody    *)
(* writes a part that an ERA file does not have.                            *)
THEOREM TypesHold == MirrorSafeSpec => []MirrorTypeOK
<1>1. IInv => MirrorTypeOK
  BY DEF IInv
<1> QED BY <1>1, Inductive, PTL

(* FilesPresent: when preDownloadSlotRangeContext has returned nil, every   *)
(* era of the range has a file in the directory of the process, with any    *)
(* number of processes, shared directories, crashes and failing calls.      *)
THEOREM FilesPresent == MirrorSafeSpec => []ReadyHasFiles
<1>1. IInv => ReadyHasFiles
  BY DEF IInv, DownloaderInv, Local, ReadyHasFiles
<1> QED BY <1>1, Inductive, PTL

(* BucketWhole: with a directory for each process, and no write of the      *)
(* mirror cut short, every object in the bucket is a whole ERA file         *)
(* (UploadFile after downloadEraFromHTTPWithRetries and mirrorEraToS3).     *)
THEOREM BucketWhole == MirrorSafeSpec => []S3Whole
<1>1. IInv => S3Whole
  BY DEF IInv
<1> QED BY <1>1, Inductive, PTL

(* MissedOnlyAfterInterruption: RawBlockSSZ reports a slot with a block as  *)
(* missed to a process with a directory of its own only after a write into  *)
(* that directory or the mirror's was cut short.                            *)
THEOREM MissedOnlyAfterInterruption == MirrorSafeSpec => []TruncationNeedsInterruption
<1>1. IInv => TruncationNeedsInterruption
  <2> SUFFICES ASSUME IInv, NoSharedDirectory, NEW p \in Procs, NEW e \in Eras, NEW i \in Blocks,
                      RawBlockSSZ(p, e, i) = "missed",
                      DirOf[p] \notin interrupted, MirrorDir \notin interrupted
               PROVE  FALSE
    BY DEF TruncationNeedsInterruption
  <2>1. index[p][e] \in {Absent, Blocks}
    BY DEF IInv, DownloaderInv, Local, Untouched
  <2>2. CASE index[p][e] = Absent
    BY <2>2 DEF RawBlockSSZ
  <2>3. CASE index[p][e] # Absent /\ i \in index[p][e]
    BY <2>3 DEF RawBlockSSZ
  <2> QED BY <2>1, <2>2, <2>3
<1> QED BY <1>1, Inductive, PTL

(* NilMeansMirrored: when MirrorToS3 returns nil every era of the range is  *)
(* in the bucket, and MirrorStats accounts for each of them exactly once,   *)
(* for any number of workers and however errors, signals and the uploads of *)
(* other processes interleave with them.                                    *)
THEOREM NilMeansMirrored == MirrorSafeSpec => []MirrorComplete
<1>1. IInv => MirrorComplete
  <2> SUFFICES ASSUME IInv, producer = "ok"
               PROVE  /\ \A e \in Eras : s3[e] # Absent
                      /\ stats["scanned"] = Cardinality(Eras)
                      /\ stats["skipped"] + stats["uploaded"] = Cardinality(Eras)
                      /\ stats["downloaded"] <= stats["uploaded"]
    BY DEF MirrorComplete
  <2>1. \A m \in Workers : wpc[m] = "returned"
    BY DEF IInv, MirrorInv, Jobs
  <2>2. Pending = {} /\ Cardinality(Pending) = 0 /\ Cardinality(Uploading) = 0
    BY <2>1, Idle
  <2>3. ~ firstErr /\ stats["scanned"] = Cardinality(Eras)
    BY DEF IInv, MirrorInv, Counted
  <2>4. \A e \in Eras : s3[e] # Absent
    BY <2>2, <2>3 DEF IInv, MirrorInv, Covered, Sent
  <2>5. stats["skipped"] \in Nat /\ stats["uploaded"] \in Nat /\ stats["downloaded"] \in Nat
    BY DEF IInv, MirrorTypeOK
  <2>6. /\ stats["scanned"] = stats["skipped"] + stats["uploaded"] + 0
        /\ stats["downloaded"] <= stats["uploaded"] + 0
    BY <2>2, <2>3 DEF IInv, MirrorInv, Counted
  <2> QED BY <2>3, <2>4, <2>5, <2>6
<1> QED BY <1>1, Inductive, PTL

-------------------------------------------------------------------------------
(* CountStarts: attempts are counted from 1 for each era. *)
CountStarts ==
  \A p \in Procs : pc[p] \notin {"http", "writing", "upload"} => attempt[p] = 1

(* Alone: the step is one of the control of process q only. *)
Alone(q) ==
  \A p \in Procs \ {q} :
    /\ pc'[p] = pc[p] /\ todo'[p] = todo[p] /\ need'[p] = need[p]
    /\ pos'[p] = pos[p] /\ attempt'[p] = attempt[p]

(* Retried: a failed attempt is followed by the next one or by the end. *)
LEMMA Retried ==
  ASSUME TypeOK, NEW q \in Procs, Retry(q)
  PROVE  /\ \/ pc'[q] = "http" /\ attempt'[q] = attempt[q] + 1
            \/ pc'[q] = "failed" /\ attempt'[q] = 1
         /\ \A p \in Procs \ {q} : pc'[p] = pc[p] /\ attempt'[p] = attempt[p]
  BY DEF TypeOK, Retry

(* ControlStep: what each action of a downloader does to its control. *)
LEMMA ControlStep ==
  ASSUME TypeOK, CountStarts, NEW q \in Procs, Local(q),
         \/ Start(q) \/ Scan(q) \/ ScanDone(q) \/ Ready(q) \/ DownloadFromS3(q) \/ NotInS3(q)
         \/ LookupErr(q) \/ HTTPErr(q) \/ OpenTrunc(q) \/ WritePart(q) \/ WriteErr(q)
         \/ Written(q) \/ Upload(q) \/ UploadErr(q) \/ Crash(q)
         \/ \E e \in Eras : BuildIndex(q, e)
  PROVE  Alone(q) /\ CountStarts' /\ Advances(q)
<1>1. CASE Start(q)
  BY <1>1 DEF Start, TypeOK, Alone, CountStarts, Advances
<1>2. CASE Scan(q)
  <2>1. Min(todo[q]) \in todo[q]
    BY <1>2, MinOf DEF Scan, TypeOK
  <2> QED BY <1>2, <2>1 DEF Scan, TypeOK, Alone, CountStarts, Advances, Closer
<1>3. CASE ScanDone(q)
  <2>1. Stage(q) = 0 /\ Stage(q)' = 1
    BY <1>3 DEF ScanDone, TypeOK, Stage
  <2> QED BY <1>3, <2>1 DEF ScanDone, TypeOK, Alone, CountStarts, Advances, Closer
<1>4. CASE Ready(q)
  BY <1>4 DEF Ready, TypeOK, Alone, CountStarts, Advances
<1>5. CASE DownloadFromS3(q)
  <2>1. Min(need[q]) \in need[q]
    BY <1>5, MinOf DEF DownloadFromS3, TypeOK
  <2> QED BY <1>5, <2>1 DEF DownloadFromS3, TypeOK, Alone, CountStarts, Advances, Closer
<1>6. CASE NotInS3(q)
  <2>1. Stage(q) = 1 /\ Stage(q)' = 2
    BY <1>6 DEF NotInS3, TypeOK, Stage
  <2> QED BY <1>6, <2>1 DEF NotInS3, TypeOK, Alone, CountStarts, Advances, Closer
<1>7. CASE LookupErr(q)
  BY <1>7 DEF LookupErr, TypeOK, Alone, CountStarts, Advances
<1>8. CASE HTTPErr(q)
  <2>1. Retry(q) /\ UNCHANGED <<todo, need, pos>>
    BY <1>8 DEF HTTPErr
  <2> QED BY <2>1, Retried DEF TypeOK, Alone, CountStarts, Advances, Closer
<1>9. CASE OpenTrunc(q)
  <2>1. Stage(q) = 2 /\ Stage(q)' = 3
    BY <1>9 DEF OpenTrunc, TypeOK, Stage
  <2> QED BY <1>9, <2>1 DEF OpenTrunc, TypeOK, Alone, CountStarts, Advances, Closer
<1>10. CASE WritePart(q)
  <2>1. Stage(q) = 3 + pos[q] /\ Stage(q)' = 4 + pos[q] /\ pos[q] \in Nat
    BY <1>10 DEF WritePart, TypeOK, Stage
  <2> QED BY <1>10, <2>1 DEF WritePart, TypeOK, Alone, CountStarts, Advances, Closer
<1>11. CASE WriteErr(q)
  <2>1. Retry(q) /\ UNCHANGED <<todo, need>> /\ pos' = [pos EXCEPT ![q] = 0]
    BY <1>11 DEF WriteErr
  <2> QED BY <2>1, Retried DEF TypeOK, Alone, CountStarts, Advances, Closer
<1>12. CASE Written(q)
  <2>1. /\ pos' = [pos EXCEPT ![q] = 0] /\ pc' = [pc EXCEPT ![q] = "upload"]
        /\ UNCHANGED <<todo, need, attempt>> /\ pc[q] = "writing"
    BY <1>12, EraMirrorAssumption DEF Written
  <2>2. pos[q] \in Nat /\ pos[q] <= 2 * Records + 1 /\ Records \in Nat
    BY EraCacheAssumption DEF TypeOK
  <2>3. Stage(q) = 3 + pos[q] /\ Stage(q)' = 5 + 2 * Records
    BY <2>1 DEF TypeOK, Stage
  <2>4. Stage(q)' > Stage(q)
    BY <2>2, <2>3
  <2> QED BY <2>1, <2>4 DEF TypeOK, Alone, CountStarts, Advances, Closer
<1>13. CASE Upload(q)
  <2>1. Min(need[q]) \in need[q]
    BY <1>13, MinOf DEF Upload, Local, TypeOK
  <2> QED BY <1>13, <2>1 DEF Upload, TypeOK, Alone, CountStarts, Advances, Closer
<1>14. CASE UploadErr(q)
  <2>1. Retry(q) /\ UNCHANGED <<todo, need, pos>>
    BY <1>14 DEF UploadErr
  <2> QED BY <2>1, Retried DEF TypeOK, Alone, CountStarts, Advances, Closer
<1>15. CASE Crash(q)
  BY <1>15 DEF Crash, TypeOK, Alone, CountStarts, Advances
<1>16. CASE \E e \in Eras : BuildIndex(q, e)
  BY <1>16 DEF BuildIndex, TypeOK, Alone, CountStarts, Advances
<1> QED BY <1>1, <1>2, <1>3, <1>4, <1>5, <1>6, <1>7, <1>8, <1>9, <1>10, <1>11, <1>12, <1>13,
           <1>14, <1>15, <1>16

(* StepAdvances: and so the steps of everyone. *)
LEMMA StepAdvances ==
  ASSUME IInv, CountStarts, [MirrorNext]_<<vars, mirrorVars>>
  PROVE  CountStarts' /\ \A p \in Procs : Advances(p)
<1>1. TypeOK
  BY DEF IInv, MirrorTypeOK
<1>2. CASE Next /\ UNCHANGED mirrorVars
  <2>1. PICK q \in Procs :
          \/ Start(q) \/ Scan(q) \/ ScanDone(q) \/ Ready(q) \/ DownloadFromS3(q) \/ NotInS3(q)
          \/ LookupErr(q) \/ HTTPErr(q) \/ OpenTrunc(q) \/ WritePart(q) \/ WriteErr(q)
          \/ Written(q) \/ Upload(q) \/ UploadErr(q) \/ Crash(q)
          \/ \E e \in Eras : BuildIndex(q, e)
    BY <1>2 DEF Next
  <2>2. Alone(q) /\ CountStarts' /\ Advances(q)
    <3>1. Local(q)
      BY DEF IInv, DownloaderInv
    <3> QED BY <1>1, <2>1, <3>1, ControlStep
  <2>3. \A p \in Procs \ {q} : Advances(p)
    BY <2>2 DEF Alone, Advances
  <2> QED BY <2>2, <2>3
<1>3. CASE MirrorStart \/ MirrorStep \/ Interrupt \/ MirrorCrash
  <2>1. Apart
    BY <1>3, MirrorKeepsInv
  <2> QED BY <2>1 DEF Apart, downloaders, CountStarts, Advances
<1>4. CASE UNCHANGED <<vars, mirrorVars>>
  BY <1>4 DEF vars, CountStarts, Advances
<1> QED BY <1>2, <1>3, <1>4 DEF MirrorNext

(* DownloadsEnd: whatever a pre-download does and whatever fails, it comes  *)
(* closer to its end in an order that has no infinite descent, for any      *)
(* processes, ranges, directories and number of attempts; so the loops of   *)
(* preDownloadSlotRangeContext and downloadEraFromHTTPWithRetries end.      *)
THEOREM DownloadsEnd == MirrorSafeSpec => DownloadAdvances
<1>1. MirrorInit => CountStarts
  BY DEF MirrorInit, Init, CountStarts
<1>2. IInv /\ CountStarts /\ [MirrorNext]_<<vars, mirrorVars>>
        => CountStarts' /\ [\A p \in Procs : Advances(p)]_vars
  BY StepAdvances
<1> QED BY <1>1, <1>2, Inductive, PTL DEF MirrorSafeSpec, DownloadAdvances
=============================================================================

------------------------------- MODULE EraCache -------------------------------
(***************************************************************************)
(* The ERA file cache: Downloader (pkg/era/downloader.go) fills a          *)
(* directory from the S3 cache or from the public archive, Reader          *)
(* (pkg/era/reader.go) indexes the files of that directory and serves      *)
(* blocks.  Several orchestrator processes run at once; they share the S3  *)
(* bucket and may share the directory (scripts/cross-client/_run-1hr.sh).  *)
(*                                                                         *)
(* An ERA file is a version record and Records block records.  Its bytes   *)
(* are the set of parts written so far: part 0 is the version record, part *)
(* 2i-1 the header and part 2i the data of block record i.  os.WriteFile   *)
(* truncates the file and then writes its parts in order, so others see    *)
(* every prefix, and after a crash a prefix stays.  Two writers of one     *)
(* file write the same bytes, each at its own offset.                      *)
(*                                                                         *)
(* Any S3, HTTP or file operation may fail, any number of times.  Left     *)
(* out: the sleep between attempts, the LRU of decompressed blocks (copies *)
(* of immutable bytes) and the cached listing of the archive (a failed     *)
(* listing ends the process that made it).                                 *)
(***************************************************************************)
EXTENDS Integers, FiniteSetsExt

CONSTANTS Procs,       \* orchestrator processes
          Dirs,        \* ERA directories
          DirOf,       \* DirOf[p]: the directory process p uses
          Eras,        \* era numbers
          RangeOf,     \* the eras of the slot range of each process
          Records,     \* block records of an ERA file
          UseS3,       \* whether an S3 cache is configured
          MaxRetries,  \* defaultMaxRetries
          MaxCrashes   \* bound on killed processes

Parts == 0 .. 2 * Records

Full == Parts

Absent == {-1}    \* no file, no object, no index

ASSUME EraCacheAssumption ==
  /\ DirOf \in [Procs -> Dirs]
  /\ Eras \subseteq Nat /\ IsFiniteSet(Eras)
  /\ RangeOf \in [Procs -> SUBSET Eras]
  /\ Records \in Nat \ {0}
  /\ UseS3 \in BOOLEAN
  /\ MaxRetries \in Nat \ {0}
  /\ MaxCrashes \in Nat

VARIABLES disk,        \* disk[d][e]: the parts of the file of era e in directory d
          s3,          \* s3[e]: the parts of the object of era e
          pc,          \* where each process is
          todo,        \* eras a process has still to look up in its directory
          need,        \* eras it found missing and has still to download
          pos,         \* the next part it writes
          attempt,     \* the HTTP attempt it is in
          index,       \* index[p][e]: the block records its reader found in era e
          interrupted, \* directories in which a write was cut short (history)
          crashes

vars == <<disk, s3, pc, todo, need, pos, attempt, index, interrupted, crashes>>

PCs == {"idle", "scan", "next", "http", "writing", "upload", "ready", "failed"}

Blocks == 1 .. Records

TypeOK ==
  /\ disk \in [Dirs -> [Eras -> (SUBSET Parts) \cup {Absent}]]
  /\ s3 \in [Eras -> (SUBSET Parts) \cup {Absent}]
  /\ pc \in [Procs -> PCs]
  /\ todo \in [Procs -> SUBSET Eras]
  /\ need \in [Procs -> SUBSET Eras]
  /\ pos \in [Procs -> 0 .. 2 * Records + 1]
  /\ attempt \in [Procs -> 1 .. MaxRetries]
  /\ index \in [Procs -> [Eras -> (SUBSET Blocks) \cup {Absent}]]
  /\ interrupted \subseteq Dirs
  /\ crashes \in 0 .. MaxCrashes

File(p, e) == disk[DirOf[p]][e]
-------------------------------------------------------------------------------
Init ==
  /\ disk = [d \in Dirs |-> [e \in Eras |-> Absent]]
  /\ s3 = [e \in Eras |-> Absent]
  /\ pc = [p \in Procs |-> "idle"]
  /\ todo = [p \in Procs |-> {}]
  /\ need = [p \in Procs |-> {}]
  /\ pos = [p \in Procs |-> 0]
  /\ attempt = [p \in Procs |-> 1]
  /\ index = [p \in Procs |-> [e \in Eras |-> Absent]]
  /\ interrupted = {}
  /\ crashes = 0

(* A process starts, or is started again after it failed or was killed, and *)
(* calls preDownloadSlotRangeContext.                                       *)
Start(p) ==
  /\ pc[p] \in {"idle", "failed"}
  /\ pc' = [pc EXCEPT ![p] = "scan"]
  /\ todo' = [todo EXCEPT ![p] = RangeOf[p]]
  /\ need' = [need EXCEPT ![p] = {}]
  /\ UNCHANGED <<disk, s3, pos, attempt, index, interrupted, crashes>>

(* findCachedFile: any file with the era's prefix counts as cached. *)
Scan(p) ==
  /\ pc[p] = "scan"
  /\ todo[p] # {}
  /\ LET e == Min(todo[p]) IN
       /\ todo' = [todo EXCEPT ![p] = @ \ {e}]
       /\ need' = [need EXCEPT ![p] = IF File(p, e) = Absent THEN @ \cup {e} ELSE @]
  /\ UNCHANGED <<disk, s3, pc, pos, attempt, index, interrupted, crashes>>

ScanDone(p) ==
  /\ pc[p] = "scan"
  /\ todo[p] = {}
  /\ pc' = [pc EXCEPT ![p] = "next"]
  /\ UNCHANGED <<disk, s3, todo, need, pos, attempt, index, interrupted, crashes>>

(* Every needed file is downloaded: the reader is created over the directory. *)
Ready(p) ==
  /\ pc[p] = "next"
  /\ need[p] = {}
  /\ pc' = [pc EXCEPT ![p] = "ready"]
  /\ index' = [index EXCEPT ![p] = [e \in Eras |-> Absent]]
  /\ UNCHANGED <<disk, s3, todo, need, pos, attempt, interrupted, crashes>>

(* tryDownloadEraFromS3 finds the object; DownloadFile writes a temporary   *)
(* file and renames it, so the whole object appears at once.                *)
DownloadFromS3(p) ==
  /\ pc[p] = "next"
  /\ need[p] # {}
  /\ LET e == Min(need[p]) IN
       /\ UseS3
       /\ s3[e] # Absent
       /\ disk' = [disk EXCEPT ![DirOf[p]][e] = s3[e]]
       /\ need' = [need EXCEPT ![p] = @ \ {e}]
  /\ UNCHANGED <<s3, pc, todo, pos, attempt, index, interrupted, crashes>>

(* No S3 cache, or no object in it: the HTTP attempts begin. *)
NotInS3(p) ==
  /\ pc[p] = "next"
  /\ need[p] # {}
  /\ UseS3 => s3[Min(need[p])] = Absent
  /\ pc' = [pc EXCEPT ![p] = "http"]
  /\ attempt' = [attempt EXCEPT ![p] = 1]
  /\ UNCHANGED <<disk, s3, todo, need, pos, index, interrupted, crashes>>

(* Bug: an era whose lookup fails is skipped. *)
LookupErrSkips(p) ==
  /\ pc[p] = "next"
  /\ need[p] # {}
  /\ need' = [need EXCEPT ![p] = @ \ {Min(@)}]
  /\ UNCHANGED <<disk, s3, pc, todo, pos, attempt, index, interrupted, crashes>>

(* Listing or reading S3, or listing the archive, fails: the error is       *)
(* returned without a retry.                                                *)
LookupErr(p) ==
  /\ pc[p] = "next"
  /\ need[p] # {}
  /\ pc' = [pc EXCEPT ![p] = "failed"]
  /\ UNCHANGED <<disk, s3, todo, need, pos, attempt, index, interrupted, crashes>>

(* Bug: a failed attempt is not counted. *)
RetryUncounted(p) ==
  /\ pc' = [pc EXCEPT ![p] = "http"]
  /\ UNCHANGED attempt

(* What downloadEraFromHTTPWithRetries does when an attempt fails. *)
Retry(p) ==
  IF attempt[p] < MaxRetries
    THEN /\ pc' = [pc EXCEPT ![p] = "http"]
         /\ attempt' = [attempt EXCEPT ![p] = @ + 1]
    ELSE /\ pc' = [pc EXCEPT ![p] = "failed"]
         /\ attempt' = [attempt EXCEPT ![p] = 1]

(* A transport error, a status other than 2xx, or a body cut short. *)
HTTPErr(p) ==
  /\ pc[p] = "http"
  /\ Retry(p)
  /\ UNCHANGED <<disk, s3, todo, need, pos, index, interrupted, crashes>>

(* The whole body has arrived; os.WriteFile opens the file with O_TRUNC. *)
OpenTrunc(p) ==
  /\ pc[p] = "http"
  /\ disk' = [disk EXCEPT ![DirOf[p]][Min(need[p])] = {}]
  /\ pos' = [pos EXCEPT ![p] = 0]
  /\ pc' = [pc EXCEPT ![p] = "writing"]
  /\ UNCHANGED <<s3, todo, need, attempt, index, interrupted, crashes>>

WritePart(p) ==
  /\ pc[p] = "writing"
  /\ pos[p] \in Parts
  /\ disk' = [disk EXCEPT ![DirOf[p]][Min(need[p])] = @ \cup {pos[p]}]
  /\ pos' = [pos EXCEPT ![p] = @ + 1]
  /\ UNCHANGED <<s3, pc, todo, need, attempt, index, interrupted, crashes>>

(* Bug: a failed write is taken for a finished download. *)
WriteErrIgnored(p) ==
  /\ pc[p] = "writing"
  /\ pos[p] \in Parts
  /\ pc' = [pc EXCEPT ![p] = "upload"]
  /\ pos' = [pos EXCEPT ![p] = 0]
  /\ interrupted' = interrupted \cup {DirOf[p]}
  /\ UNCHANGED <<disk, s3, todo, need, attempt, index, crashes>>

(* The disk is full: what was written stays; the attempt failed. *)
WriteErr(p) ==
  /\ pc[p] = "writing"
  /\ pos[p] \in Parts
  /\ Retry(p)
  /\ pos' = [pos EXCEPT ![p] = 0]
  /\ interrupted' = interrupted \cup {DirOf[p]}
  /\ UNCHANGED <<disk, s3, todo, need, index, crashes>>

(* The file is written. *)
Written(p) ==
  /\ pc[p] = "writing"
  /\ pos[p] \notin Parts
  /\ pos' = [pos EXCEPT ![p] = 0]
  /\ IF UseS3
       THEN /\ pc' = [pc EXCEPT ![p] = "upload"]
            /\ UNCHANGED <<need, attempt>>
       ELSE /\ pc' = [pc EXCEPT ![p] = "next"]
            /\ need' = [need EXCEPT ![p] = @ \ {Min(@)}]
            /\ attempt' = [attempt EXCEPT ![p] = 1]
  /\ UNCHANGED <<disk, s3, todo, index, interrupted, crashes>>

(* UploadFile sends the file as it is on disk now. *)
Upload(p) ==
  /\ pc[p] = "upload"
  /\ s3' = [s3 EXCEPT ![Min(need[p])] = File(p, Min(need[p]))]
  /\ pc' = [pc EXCEPT ![p] = "next"]
  /\ need' = [need EXCEPT ![p] = @ \ {Min(@)}]
  /\ attempt' = [attempt EXCEPT ![p] = 1]
  /\ UNCHANGED <<disk, todo, pos, index, interrupted, crashes>>

(* A failed upload fails the attempt: the file is downloaded again. *)
UploadErr(p) ==
  /\ pc[p] = "upload"
  /\ Retry(p)
  /\ UNCHANGED <<disk, s3, todo, need, pos, index, interrupted, crashes>>

(* The process is killed; files and objects stay. *)
Crash(p) ==
  /\ pc[p] # "idle"
  /\ crashes < MaxCrashes
  /\ crashes' = crashes + 1
  /\ pc' = [pc EXCEPT ![p] = "idle"]
  /\ todo' = [todo EXCEPT ![p] = {}]
  /\ need' = [need EXCEPT ![p] = {}]
  /\ pos' = [pos EXCEPT ![p] = 0]
  /\ attempt' = [attempt EXCEPT ![p] = 1]
  /\ index' = [index EXCEPT ![p] = [e \in Eras |-> Absent]]
  /\ interrupted' = IF pc[p] = "writing" THEN interrupted \cup {DirOf[p]} ELSE interrupted
  /\ UNCHANGED <<disk, s3>>
-------------------------------------------------------------------------------
(* Bug: a record enters the index only when the next header is read. *)
IndexDropsLast(file) ==
  IF 0 \notin file THEN {Absent}
  ELSE {{i \in Blocks : {2 * i - 1, 2 * i, 2 * i + 1} \subseteq file}}

(* What buildEraIndex can make of a file: Absent stands for an error.  No   *)
(* version record is an error, and so is a record whose data is cut short;  *)
(* at a missing record header the file has ended.  Over a hole left by two  *)
(* writers (zero bytes read as empty records) the walk either loses its     *)
(* place and fails or finds the records behind it.                          *)
buildEraIndex(file) ==
  LET whole == {i \in Blocks : {2 * i - 1, 2 * i} \subseteq file}
  IN  IF 0 \notin file THEN {Absent}
      ELSE IF file # 0 .. Max(file) THEN {Absent, whole}
      ELSE IF Max(file) % 2 = 1 THEN {Absent}
      ELSE {whole}

(* The first read of a slot of era e builds the index, under the lock; it   *)
(* is kept, unless building it fails.                                       *)
BuildIndex(p, e) ==
  /\ pc[p] = "ready"
  /\ index[p][e] = Absent
  /\ File(p, e) # Absent
  /\ \E built \in buildEraIndex(File(p, e)) : index' = [index EXCEPT ![p][e] = built]
  /\ UNCHANGED <<disk, s3, pc, todo, need, pos, attempt, interrupted, crashes>>

(* What RawBlockSSZ (and BlockExists) answers for the slot of block record  *)
(* i once era e has an index: a slot that is not in the index is reported   *)
(* as missed; otherwise the record is read, unlocked, from the file as it   *)
(* is then.                                                                 *)
RawBlockSSZ(p, e, i) ==
  CASE index[p][e] = Absent -> "error"
    [] index[p][e] # Absent /\ i \notin index[p][e] -> "missed"
    [] index[p][e] # Absent /\ i \in index[p][e] ->
         IF {2 * i - 1, 2 * i} \subseteq File(p, e) THEN "block" ELSE "error"

Next == \E p \in Procs :
          \/ Start(p)
          \/ Scan(p)
          \/ ScanDone(p)
          \/ Ready(p)
          \/ DownloadFromS3(p)
          \/ NotInS3(p)
          \/ LookupErr(p)
          \/ HTTPErr(p)
          \/ OpenTrunc(p)
          \/ WritePart(p)
          \/ WriteErr(p)
          \/ Written(p)
          \/ Upload(p)
          \/ UploadErr(p)
          \/ Crash(p)
          \/ \E e \in Eras : BuildIndex(p, e)

SafeSpec == Init /\ [][Next]_vars
-------------------------------------------------------------------------------
(* When preDownloadSlotRangeContext has returned nil, every era of the      *)
(* range has a file in the directory, whichever process put it there.       *)
ReadyHasFiles ==
  \A p \in Procs : pc[p] = "ready" => \A e \in RangeOf[p] : File(p, e) # Absent

(* A slot reported as missed is a slot without a block in the archive       *)
(* (reader.go: "returns (nil, false, nil) if the slot is missed, and (nil,  *)
(* false, err) on I/O or parse errors").  Here every slot has a block.      *)
MissedIsMissed ==
  \A p \in Procs, e \in Eras, i \in Blocks : RawBlockSSZ(p, e, i) # "missed"

(* How far a download has come within an attempt. *)
Stage(p) ==
  CASE pc[p] = "scan" -> 0
    [] pc[p] = "next" -> 1
    [] pc[p] = "http" -> 2
    [] pc[p] = "writing" -> 3 + pos[p]
    [] OTHER -> 5 + 2 * Records

(* The step brings the download of p nearer to its end: fewer eras to look  *)
(* up, or else fewer to download, or else fewer attempts left for the first *)
(* of them, or else less to do in this attempt.  No step can do so for ever, *)
(* because attempts are at most MaxRetries (TypeOK).                        *)
Closer(p) ==
  \/ todo[p] # todo'[p] /\ todo'[p] \subseteq todo[p]
  \/ /\ todo'[p] = todo[p]
     /\ \/ need[p] # need'[p] /\ need'[p] \subseteq need[p]
        \/ /\ need'[p] = need[p]
           /\ \/ attempt'[p] > attempt[p]
              \/ attempt'[p] = attempt[p] /\ Stage(p)' > Stage(p)

(* The step leaves p alone, ends its pre-download (in a reader, an error or *)
(* a kill), or brings it closer to the end.                                 *)
Advances(p) ==
  \/ pc[p] \in {"idle", "ready", "failed"}
  \/ pc'[p] \in {"idle", "ready", "failed"}
  \/ UNCHANGED <<pc[p], todo[p], need[p], pos[p], attempt[p]>>
  \/ Closer(p)

(* A pre-download that is under way comes closer to its end with whatever   *)
(* it does, however many of its lookups, downloads, writes and uploads      *)
(* fail: the retries of downloadEraFromHTTPWithRetries, which begin again   *)
(* with the download, cannot go on for ever.                                *)
DownloadAdvances == [][\A p \in Procs : Advances(p)]_vars

=============================================================================

------------------------------ MODULE EraMirror ------------------------------
(***************************************************************************)
(* The era-mirror command beside running orchestrators: MirrorToS3 and     *)
(* mirrorEraToS3 (pkg/era/downloader.go) copy a range of ERA files into    *)
(* the bucket from which the processes of EraCache fill their directories. *)
(*                                                                         *)
(* One goroutine, the producer, hands the eras one by one to a pool of     *)
(* workers over an unbuffered channel: a send is a step of the producer    *)
(* and of the worker that receives.  Both sides select between that and    *)
(* ctx.Done(), and Go picks any ready case.  The first error is kept and   *)
(* cancels the context; an interrupt of the user cancels it too.           *)
(*                                                                         *)
(* The statistics are written by workers under a lock and read after all   *)
(* of them have returned, so that each update is part of the step it       *)
(* counts.  Nobody else looks at the mirror's directory: a file is written *)
(* in one step, and a write cut short leaves one of its prefixes.          *)
(***************************************************************************)
EXTENDS EraCache

CONSTANTS Workers,     \* the goroutines of the pool
          MirrorDir    \* the directory the mirror downloads into

ASSUME EraMirrorAssumption ==
  /\ Workers # {} /\ IsFiniteSet(Workers)
  /\ MirrorDir \in Dirs /\ \A p \in Procs : DirOf[p] # MirrorDir
  /\ UseS3               \* runEraMirrorCommand ends when there is no bucket
  /\ \E startEra, endEra \in Eras : startEra <= endEra /\ Eras = startEra .. endEra

VARIABLES producer,  \* where MirrorToS3 itself is, or what it returned
          nextEra,   \* the era it sends next
          wpc,       \* where each worker is
          job,       \* the era each worker has received
          stats,     \* MirrorStats
          firstErr,  \* an error has been kept
          cancelled  \* ctx is done

mirrorVars == <<producer, nextEra, wpc, job, stats, firstErr, cancelled>>

downloaders == <<pc, todo, need, pos, attempt, index>>

NoEra == -1    \* no job

WorkerPCs == {"select", "exists", "http", "upload", "remove", "returned"}

(* Types of the mirror's state, and of the state it shares. *)
MirrorTypeOK ==
  /\ TypeOK
  /\ producer \in {"off", "sending", "closed", "gaveup", "ok", "err"}
  /\ nextEra \in Eras
  /\ wpc \in [Workers -> WorkerPCs]
  /\ job \in [Workers -> Eras \cup {NoEra}]
  /\ stats \in [{"scanned", "skipped", "downloaded", "uploaded"} -> Nat]
  /\ firstErr \in BOOLEAN
  /\ cancelled \in BOOLEAN

MirrorFile(m) == disk[MirrorDir][job[m]]

NoStats == [c \in {"scanned", "skipped", "downloaded", "uploaded"} |-> 0]

MirrorInit ==
  /\ Init
  /\ producer = "off"
  /\ nextEra = Min(Eras)
  /\ wpc = [m \in Workers |-> "returned"]
  /\ job = [m \in Workers |-> NoEra]
  /\ stats = NoStats
  /\ firstErr = FALSE
  /\ cancelled = FALSE
-------------------------------------------------------------------------------
(* The command starts, or is started again after an error or a kill. *)
MirrorStart ==
  /\ producer \in {"off", "err"}
  /\ producer' = "sending"
  /\ wpc' = [m \in Workers |-> "select"]
  /\ UNCHANGED <<vars, nextEra, job, stats, firstErr, cancelled>>

(* Bug: the loop goes on after the last era. *)
SendPastEnd(m) ==
  /\ producer = "sending"
  /\ wpc[m] = "select"
  /\ wpc' = [wpc EXCEPT ![m] = "exists"]
  /\ job' = [job EXCEPT ![m] = nextEra]
  /\ stats' = [stats EXCEPT !["scanned"] = @ + 1]
  /\ nextEra' = nextEra + 1
  /\ UNCHANGED <<vars, producer, firstErr, cancelled>>

(* jobs <- eraNumber meets a worker's receive; after the last era the       *)
(* channel is closed.                                                       *)
Send(m) ==
  /\ producer = "sending"
  /\ wpc[m] = "select"
  /\ wpc' = [wpc EXCEPT ![m] = "exists"]
  /\ job' = [job EXCEPT ![m] = nextEra]
  /\ stats' = [stats EXCEPT !["scanned"] = @ + 1]
  /\ IF nextEra = Max(Eras)
       THEN producer' = "closed" /\ nextEra' = Min(Eras)
       ELSE producer' = "sending" /\ nextEra' = nextEra + 1
  /\ UNCHANGED <<vars, firstErr, cancelled>>

(* Bug: the producer does not look at the context. *)
GiveUpNever == FALSE /\ UNCHANGED <<vars, mirrorVars>>

(* The producer's select takes ctx.Done(): the rest is not sent. *)
GiveUp ==
  /\ producer = "sending"
  /\ cancelled
  /\ producer' = "gaveup"
  /\ nextEra' = Min(Eras)
  /\ UNCHANGED <<vars, wpc, job, stats, firstErr, cancelled>>

(* A worker's select takes ctx.Done() or finds the channel closed. *)
WorkerReturn(m) ==
  /\ wpc[m] = "select"
  /\ cancelled \/ producer = "closed"
  /\ wpc' = [wpc EXCEPT ![m] = "returned"]
  /\ UNCHANGED <<vars, producer, nextEra, job, stats, firstErr, cancelled>>

(* Worker m is through with its era. *)
Done(m, next) ==
  /\ wpc' = [wpc EXCEPT ![m] = next]
  /\ job' = [job EXCEPT ![m] = NoEra]

(* An era that is in the bucket is skipped.  Otherwise a file that is       *)
(* already in the directory is uploaded as it is, and downloaded only if    *)
(* there is none; no one else touches that file.                            *)
ObjectExists(m) ==
  /\ wpc[m] = "exists"
  /\ IF s3[job[m]] # Absent
       THEN /\ stats' = [stats EXCEPT !["skipped"] = @ + 1]
            /\ Done(m, "select")
       ELSE /\ wpc' = [wpc EXCEPT ![m] = IF MirrorFile(m) = Absent THEN "http" ELSE "upload"]
            /\ UNCHANGED <<job, stats>>
  /\ UNCHANGED <<vars, producer, nextEra, firstErr, cancelled>>

(* tryDownloadHTTP, once and without upload: the body has arrived and is    *)
(* written in place.                                                        *)
tryDownloadHTTP(m) ==
  /\ wpc[m] = "http"
  /\ disk' = [disk EXCEPT ![MirrorDir][job[m]] = Full]
  /\ stats' = [stats EXCEPT !["downloaded"] = @ + 1]
  /\ wpc' = [wpc EXCEPT ![m] = "upload"]
  /\ UNCHANGED <<downloaders, s3, interrupted, crashes,
                 producer, nextEra, job, firstErr, cancelled>>

(* UploadFile sends the file as it is on disk now. *)
MirrorUpload(m) ==
  /\ wpc[m] = "upload"
  /\ s3' = [s3 EXCEPT ![job[m]] = MirrorFile(m)]
  /\ stats' = [stats EXCEPT !["uploaded"] = @ + 1]
  /\ wpc' = [wpc EXCEPT ![m] = "remove"]
  /\ UNCHANGED <<downloaders, disk, interrupted, crashes,
                 producer, nextEra, job, firstErr, cancelled>>

(* The mirrored file is removed; the worker turns to the next era. *)
RemoveMirrored(m) ==
  /\ wpc[m] = "remove"
  /\ disk' = [disk EXCEPT ![MirrorDir][job[m]] = Absent]
  /\ Done(m, "select")
  /\ UNCHANGED <<downloaders, s3, interrupted, crashes,
                 producer, nextEra, stats, firstErr, cancelled>>

(* setErr: the first error is kept and cancels the context. *)
setErr ==
  /\ firstErr' = TRUE
  /\ cancelled' = TRUE

(* What the mirror's directory can look like when the downloads of some     *)
(* workers are cut short: each of their files is still absent, or a prefix. *)
Prefixes == {0 .. k : k \in -1 .. 2 * Records - 1}

CutShort(ms) ==
  \E left \in [ms -> {Absent} \cup Prefixes] :
    /\ disk' = [disk EXCEPT ![MirrorDir] = [e \in Eras |->
                  IF \E m \in ms : job[m] = e THEN left[CHOOSE m \in ms : job[m] = e] ELSE @[e]]]
    /\ interrupted' = IF \E m \in ms : left[m] # Absent
                      THEN interrupted \cup {MirrorDir} ELSE interrupted

(* A call of mirrorEraToS3 fails: the archive's listing, S3, HTTP or the    *)
(* disk, by itself or because the context it takes is cancelled.            *)
(* The worker reports the error and returns; what it wrote stays.           *)
MirrorErr(m) ==
  /\ wpc[m] \in WorkerPCs \ {"select", "returned"}
  /\ CutShort(IF wpc[m] = "http" THEN {m} ELSE {})
  /\ setErr
  /\ Done(m, "returned")
  /\ UNCHANGED <<downloaders, s3, crashes, producer, nextEra, stats>>

(* The memory of the process is gone. *)
Forget ==
  /\ nextEra' = Min(Eras)
  /\ stats' = NoStats
  /\ firstErr' = FALSE
  /\ cancelled' = FALSE

(* Bug: MirrorToS3 returns firstErr only; a cancelled range looks complete. *)
MirrorReturnForgets ==
  /\ producer \in {"closed", "gaveup"}
  /\ \A m \in Workers : wpc[m] = "returned"
  /\ IF firstErr
       THEN producer' = "err" /\ Forget
       ELSE producer' = "ok" /\ UNCHANGED <<nextEra, stats, firstErr, cancelled>>
  /\ UNCHANGED <<vars, wpc, job>>

(* wg.Wait returned: the error kept, or ctx.Err() after giving up, or nil. *)
MirrorReturn ==
  /\ producer \in {"closed", "gaveup"}
  /\ \A m \in Workers : wpc[m] = "returned"
  /\ IF firstErr \/ producer = "gaveup"
       THEN producer' = "err" /\ Forget
       ELSE producer' = "ok" /\ UNCHANGED <<nextEra, stats, firstErr, cancelled>>
  /\ UNCHANGED <<vars, wpc, job>>

(* SIGINT or SIGTERM cancels the command's context. *)
Interrupt ==
  /\ producer \in {"sending", "closed"}
  /\ ~ cancelled
  /\ crashes < MaxCrashes
  /\ crashes' = crashes + 1
  /\ cancelled' = TRUE
  /\ UNCHANGED <<downloaders, disk, s3, interrupted,
                 producer, nextEra, wpc, job, stats, firstErr>>

(* The process is killed. *)
MirrorCrash ==
  /\ producer \in {"sending", "closed", "gaveup"}
  /\ crashes < MaxCrashes
  /\ crashes' = crashes + 1
  /\ producer' = "off"
  /\ CutShort({m \in Workers : wpc[m] = "http"})
  /\ wpc' = [m \in Workers |-> "returned"]
  /\ job' = [m \in Workers |-> NoEra]
  /\ Forget
  /\ UNCHANGED <<downloaders, s3>>

MirrorStep ==
  \/ GiveUp
  \/ MirrorReturn
  \/ \E m \in Workers :
       \/ Send(m)
       \/ WorkerReturn(m)
       \/ ObjectExists(m)
       \/ tryDownloadHTTP(m)
       \/ MirrorUpload(m)
       \/ RemoveMirrored(m)
       \/ MirrorErr(m)

MirrorNext ==
  \/ Next /\ UNCHANGED mirrorVars
  \/ MirrorStart
  \/ MirrorStep
  \/ Interrupt
  \/ MirrorCrash

MirrorSafeSpec == MirrorInit /\ [][MirrorNext]_<<vars, mirrorVars>>

(* Goroutines that can go on do, and calls return, well or badly: the       *)
(* mirror takes steps as long as it has any.                                *)
MirrorSpec == MirrorSafeSpec /\ WF_<<vars, mirrorVars>>(MirrorStep)
-------------------------------------------------------------------------------
(* When MirrorToS3 returns nil, every era of the range is in the bucket and *)
(* the statistics the command prints account for each of them once,         *)
(* whatever was cancelled, failed or was uploaded by others meanwhile.      *)
MirrorComplete ==
  producer = "ok" =>
    /\ \A e \in Eras : s3[e] # Absent
    /\ stats["scanned"] = Cardinality(Eras)
    /\ stats["skipped"] + stats["uploaded"] = Cardinality(Eras)
    /\ stats["downloaded"] <= stats["uploaded"]

NoSharedDirectory == \A p, q \in Procs : DirOf[p] = DirOf[q] => p = q

(* Every object in the bucket is a whole ERA file as long as no directory   *)
(* is shared, crashes, failed writes and retries notwithstanding, unless a  *)
(* write of the mirror was cut short: its next run takes the prefix it      *)
(* finds for the file and uploads it.  The downloaders never do.            *)
S3Whole ==
  NoSharedDirectory /\ MirrorDir \notin interrupted =>
    \A e \in Eras : s3[e] # Absent => s3[e] = Full

(* A process with a directory of its own is told that a slot with a block   *)
(* was missed only if some write was cut short: in its own directory, or in *)
(* the mirror's, whose prefix came to it through the bucket.                *)
TruncationNeedsInterruption ==
  NoSharedDirectory =>
    \A p \in Procs, e \in Eras, i \in Blocks :
      RawBlockSSZ(p, e, i) = "missed" => {DirOf[p], MirrorDir} \cap interrupted # {}

(* A started mirror returns, also when its workers end one by one on errors *)
(* while the producer still has eras to hand out.                           *)
MirrorEnds == producer = "sending" ~> producer \in {"ok", "err", "off"}
=============================================================================

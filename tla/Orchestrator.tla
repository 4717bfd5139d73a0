----------------------------- MODULE Orchestrator -----------------------------
(***************************************************************************)
(* One fcr-orchestrator process (execute of cmd/fcr-orchestrator/main.go)  *)
(* with its engine workers and the merge of their output (pkg/merge).  It  *)
(* is given a range of epochs and an output name; ERA files are fetched,   *)
(* each worker gets a checkpoint, the engines run in parallel and write    *)
(* one record per slot, and the records are validated, merged and written  *)
(* as JSONL, CSV and manifest, each by a rename.  Any step may fail; the   *)
(* process may be killed between any two.                                  *)
(*                                                                         *)
(* Records are slots.  What a file holds is a set of slots and the numbers *)
(* of the orchestrator runs that produced them, so that a stale record can *)
(* be told from a fresh one, and a hash is the number of the run whose     *)
(* file was hashed.                                                        *)
(***************************************************************************)
EXTENDS ChunkSplit

CONSTANTS StartEpoch, EndEpoch, \* the epochs to simulate
          ChunkSize,            \* epochs per orchestrator run
          Parallel,             \* engine workers per run
          WarmupEpochs,
          LookaheadCap,
          MissedSlots,          \* slots for which the beacon node has no header
          FallbackEpochs,       \* checkpointFallbackEpochs
          SlotsPerEra,
          PreDownloadLookaheadSlots,
          MaxFaults,            \* bound on failing steps
          MaxKills              \* bound on killed processes

TotalChunks == (EndEpoch - StartEpoch + ChunkSize - 1) \div ChunkSize

Chunks == 1 .. TotalChunks

Workers == 1 .. Parallel

ASSUME OrchestratorAssumption ==
  /\ SlotsPerEpoch \in Nat \ {0} /\ MaxSlot \in Nat
  /\ StartEpoch \in Nat /\ EndEpoch \in Nat /\ StartEpoch < EndEpoch
  /\ EndEpoch * SlotsPerEpoch < MaxSlot
  /\ ChunkSize \in Nat \ {0} /\ Parallel \in Nat \ {0}
  /\ WarmupEpochs \in Nat /\ LookaheadCap \in Nat
  /\ FallbackEpochs \in Nat /\ SlotsPerEra \in Nat \ {0}
  /\ PreDownloadLookaheadSlots \in Nat
  /\ MaxFaults \in Nat /\ MaxKills \in Nat

VARIABLES phase,     \* where the process is
          chunk,     \* the chunk it works on
          prepOnly,  \* --prep-only
          exit,      \* its exit code, Running while it runs
          run,       \* its number
          at,        \* the worker prepareWorkers looks at
          eras,      \* ERA files in the cache directory
          warmup,    \* ActualWarmupStartSlot of each worker
          worker,    \* what each worker's engine process does
          pos,       \* the slot each engine is at
          wfile,     \* workers/worker-N.jsonl
          jsonl, csv, manifest,  \* the output files of each chunk
          faults, kills

procVars == <<phase, chunk, prepOnly, exit, run, at>>
workVars == <<warmup, worker, pos, wfile>>
outVars == <<jsonl, csv, manifest>>
orchVars == <<procVars, eras, workVars, outVars, faults, kills>>

Running == -1

Files == [slots : SUBSET Int, runs : SUBSET Nat, torn : BOOLEAN]

NoFile == [slots |-> {-1}, runs |-> {}, torn |-> FALSE]

Exists(f) == f # NoFile

NoManifest == [jsonl |-> 0, csv |-> 0]

(* The epochs run.sh gives the orchestrator for chunk c. *)
ChunkStart(c) == StartEpoch + (c - 1) * ChunkSize
ChunkEnd(c) == Min({StartEpoch + c * ChunkSize, EndEpoch})

ChunkSlots(c) == epochToSlot(ChunkStart(c)) .. epochToSlot(ChunkEnd(c)) - 1

PlanOf == [c \in Chunks |-> Split(ChunkStart(c), ChunkEnd(c), WarmupEpochs, Parallel)]

ActiveOf == [c \in Chunks |-> filterActiveChunks(PlanOf[c])]

ExpectedOf == [c \in Chunks |-> UNION {expectedSlots(k) : k \in ActiveOf[c]}]

minWarmupSlotOf == [c \in Chunks |-> Min({k.WarmupStartSlot : k \in ActiveOf[c]})]

maxEndSlotOf == [c \in Chunks |-> Max({k.EndSlot : k \in ActiveOf[c]})]

Plan == PlanOf[chunk]
minWarmupSlot == minWarmupSlotOf[chunk]
maxEndSlot == maxEndSlotOf[chunk]
-------------------------------------------------------------------------------
(* The ERA files of a range of slots. *)
EraNumberForSlot(slot) == slot \div SlotsPerEra + 1

erasFor(from, to) == EraNumberForSlot(from) .. EraNumberForSlot(to)

(* What the first download covers: the planned warmups to the last slot and *)
(* a fixed look-ahead.                                                      *)
InitialEnvelope ==
  [StartSlot |-> minWarmupSlot,
   EndSlot |-> Min({maxEndSlot + PreDownloadLookaheadSlots, MaxSlot})]

(* Bug: the catch-up download starts at the planned warmup slot. *)
plannedWarmupEnvelope ==
  [StartSlot |-> minWarmupSlot,
   EndSlot |-> Min({maxEndSlot + LookaheadCap, MaxSlot})]

(* What the archive warm-up and the server need: one era before the actual  *)
(* warmup slots, which the checkpoint search may have moved back, to the    *)
(* last slot and the look-ahead of the attestation planner.                 *)
warmArchiveEraDownloadEnvelope ==
  LET first == Min({warmup[i] : i \in {j \in Workers : IsActive(Plan[j])}})
  IN  [StartSlot |-> IF first <= SlotsPerEra THEN 0 ELSE first - SlotsPerEra,
       EndSlot |-> Min({maxEndSlot + LookaheadCap, MaxSlot})]

slotEnvelopeExtendsBeyond(candidate, covered) ==
  candidate.StartSlot < covered.StartSlot \/ candidate.EndSlot > covered.EndSlot

(* FetchCheckpointAtWarmupSlot tries the warmup slot and then whole epochs  *)
(* before it; a slot without a header is skipped.                           *)
CheckpointSlots(slot) ==
  {s \in {slot - k * SlotsPerEpoch : k \in 0 .. FallbackEpochs} : s >= 0 /\ s \notin MissedSlots}
-------------------------------------------------------------------------------
OrchInit ==
  /\ phase = "off"
  /\ chunk = 1
  /\ prepOnly = FALSE
  /\ exit = 0
  /\ run = 0
  /\ at = 1
  /\ eras = {}
  /\ warmup = [i \in Workers |-> 0]
  /\ worker = [i \in Workers |-> "idle"]
  /\ pos = [i \in Workers |-> 0]
  /\ wfile = [i \in Workers |-> NoFile]
  /\ jsonl = [c \in Chunks |-> NoFile]
  /\ csv = [c \in Chunks |-> NoFile]
  /\ manifest = [c \in Chunks |-> NoManifest]
  /\ faults = 0
  /\ kills = 0

(* The process is started for chunk c. *)
Launch(c, prep) ==
  /\ phase = "off"
  /\ phase' = "predownload"
  /\ chunk' = c
  /\ prepOnly' = prep
  /\ exit' = Running
  /\ run' = run + 1
  /\ at' = 1
  /\ UNCHANGED <<eras, workVars, outVars, faults, kills>>

ExitWith(code) ==
  /\ phase' = "off"
  /\ exit' = code
  /\ UNCHANGED <<chunk, prepOnly, run, at>>

GoTo(p) == phase' = p /\ UNCHANGED <<chunk, prepOnly, exit, run, at>>

Fault == faults < MaxFaults /\ faults' = faults + 1

(* Any step before the engines start, and the writing of the outputs, may   *)
(* fail: execute returns the error.                                         *)
StepErr ==
  /\ phase \in {"predownload", "prepare", "catchup", "warm", "serve", "merge", "csv", "manifest"}
  /\ Fault
  /\ ExitWith(1)
  /\ UNCHANGED <<eras, workVars, outVars, kills>>

(* PreDownloadContext. *)
PreDownload ==
  /\ phase = "predownload"
  /\ eras' = eras \cup erasFor(InitialEnvelope.StartSlot, InitialEnvelope.EndSlot)
  /\ GoTo("prepare")
  /\ UNCHANGED <<workVars, outVars, faults, kills>>

(* Bug: the output of an earlier run is left in place. *)
PrepareKeepsStale(i) ==
  /\ phase = "prepare"
  /\ at = i
  /\ UNCHANGED wfile
  /\ IF CheckpointSlots(Plan[i].WarmupStartSlot) # {}
       THEN /\ warmup' = [warmup EXCEPT ![i] = Max(CheckpointSlots(Plan[i].WarmupStartSlot))]
            /\ at' = at + 1
            /\ phase' = IF i = Parallel THEN "catchup" ELSE phase
            /\ UNCHANGED <<chunk, prepOnly, exit, run>>
       ELSE /\ ExitWith(1)
            /\ UNCHANGED warmup
  /\ UNCHANGED <<eras, worker, pos, outVars, faults, kills>>

(* One round of prepareWorkers: the output of an earlier run is removed; an *)
(* empty chunk gets an empty file, any other one a checkpoint, or the run   *)
(* fails because the beacon node has none.                                  *)
PrepareWorker(i) ==
  /\ phase = "prepare"
  /\ at = i
  /\ LET empty == ~ IsActive(Plan[i])
         found == CheckpointSlots(Plan[i].WarmupStartSlot)
     IN  /\ wfile' = [wfile EXCEPT ![i] =
                        IF empty THEN [slots |-> {}, runs |-> {}, torn |-> FALSE] ELSE NoFile]
         /\ IF empty \/ found # {}
              THEN /\ warmup' = [warmup EXCEPT ![i] = IF empty THEN 0 ELSE Max(found)]
                   /\ at' = at + 1
                   /\ phase' = IF i = Parallel THEN "catchup" ELSE phase
                   /\ UNCHANGED <<chunk, prepOnly, exit, run>>
              ELSE /\ ExitWith(1)
                   /\ UNCHANGED warmup
  /\ UNCHANGED <<eras, worker, pos, outVars, faults, kills>>

(* preDownloadWarmArchiveCatchUpEras. *)
CatchUp ==
  /\ phase = "catchup"
  /\ LET e == warmArchiveEraDownloadEnvelope
     IN  eras' = IF slotEnvelopeExtendsBeyond(e, InitialEnvelope)
                   THEN eras \cup erasFor(e.StartSlot, e.EndSlot) ELSE eras
  /\ GoTo("warm")
  /\ UNCHANGED <<workVars, outVars, faults, kills>>

(* The genesis state and the archive warm-up; a prep-only run ends here. *)
Warm ==
  /\ phase = "warm"
  /\ IF prepOnly THEN ExitWith(0) ELSE GoTo("serve")
  /\ UNCHANGED <<eras, workVars, outVars, faults, kills>>

(* The API server listens; runEngineWorkers starts an engine per chunk that *)
(* is not empty.                                                            *)
Serve ==
  /\ phase = "serve"
  /\ GoTo("run")
  /\ worker' = [i \in Workers |-> IF IsActive(Plan[i]) THEN "starting" ELSE "ok"]
  /\ pos' = [i \in Workers |-> warmup[i] + 1]
  /\ UNCHANGED <<eras, warmup, wfile, outVars, faults, kills>>
-------------------------------------------------------------------------------
(* The engine creates its output file. *)
EngineOpen(i) ==
  /\ worker[i] = "starting"
  /\ worker' = [worker EXCEPT ![i] = "looping"]
  /\ wfile' = [wfile EXCEPT ![i] = [slots |-> {}, runs |-> {run}, torn |-> FALSE]]
  /\ UNCHANGED <<procVars, eras, warmup, pos, outVars, faults, kills>>

(* One round of the slot loop: simulate the slot, record it unless it is a  *)
(* warmup slot.                                                             *)
EngineSlot(i) ==
  /\ worker[i] = "looping"
  /\ pos[i] < Plan[i].EndSlot
  /\ wfile' = [wfile EXCEPT ![i].slots =
                 IF pos[i] >= Plan[i].StartSlot THEN @ \cup {pos[i]} ELSE @]
  /\ pos' = [pos EXCEPT ![i] = @ + 1]
  /\ UNCHANGED <<procVars, eras, warmup, worker, outVars, faults, kills>>

EngineExit(i) ==
  /\ worker[i] = "looping"
  /\ pos[i] >= Plan[i].EndSlot
  /\ worker' = [worker EXCEPT ![i] = "ok"]
  /\ UNCHANGED <<procVars, eras, warmup, pos, wfile, outVars, faults, kills>>

(* The engine exits 0 with fewer records than it should have written. *)
EngineTruncates(i) ==
  /\ worker[i] \in {"starting", "looping"}
  /\ Fault
  /\ worker' = [worker EXCEPT ![i] = "ok"]
  /\ UNCHANGED <<procVars, eras, warmup, pos, wfile, outVars, kills>>

(* The engine fails or is killed, perhaps half-way through a record. *)
EngineFail(i) ==
  /\ worker[i] \in {"starting", "looping"}
  /\ Fault
  /\ worker' = [worker EXCEPT ![i] = "failed"]
  /\ \/ UNCHANGED wfile
     \/ worker[i] = "looping" /\ wfile' = [wfile EXCEPT ![i].torn = TRUE]
  /\ UNCHANGED <<procVars, eras, warmup, pos, outVars, kills>>
-------------------------------------------------------------------------------
(* Bug: a failed worker never calls wg.Done. *)
JoinedOnlyOk == phase = "run" /\ \A i \in Workers : worker[i] = "ok"

(* wg.Wait returned: every worker has ended. *)
Joined == phase = "run" /\ \A i \in Workers : worker[i] \in {"ok", "failed"}

(* collectMergePaths: a worker that succeeded has left a file. *)
Collect ==
  /\ Joined
  /\ IF \E i \in Workers : worker[i] = "ok" /\ ~ Exists(wfile[i])
       THEN ExitWith(1) ELSE GoTo("merge")
  /\ UNCHANGED <<eras, workVars, outVars, faults, kills>>

MergeFiles == {i \in Workers : Exists(wfile[i])}

Merged == UNION {wfile[i].slots : i \in MergeFiles}

(* Bug: only duplicates are refused, not gaps. *)
MergeIgnoresGaps ==
  /\ \A i \in MergeFiles : ~ wfile[i].torn
  /\ \A i, j \in MergeFiles : i # j => wfile[i].slots \cap wfile[j].slots = {}

(* MergeAndWriteWithCanonical: every record parses, no slot occurs twice,   *)
(* and every expected slot is there.                                        *)
MergeValid ==
  /\ \A i \in MergeFiles : ~ wfile[i].torn
  /\ \A i, j \in MergeFiles : i # j => wfile[i].slots \cap wfile[j].slots = {}
  /\ ExpectedOf[chunk] \subseteq Merged

MergedFile == [slots |-> Merged,
               runs |-> UNION {wfile[i].runs : i \in MergeFiles},
               torn |-> FALSE]

Merge ==
  /\ phase = "merge"
  /\ IF MergeValid
       THEN /\ jsonl' = [jsonl EXCEPT ![chunk] = MergedFile]
            /\ GoTo("csv")
       ELSE /\ ExitWith(1)
            /\ UNCHANGED jsonl
  /\ UNCHANGED <<eras, workVars, csv, manifest, faults, kills>>

(* Bug: the CSV is truncated and written in place. *)
WriteCSVInPlace ==
  /\ phase = "csv"
  /\ IF csv[chunk].slots # {}
       THEN /\ csv' = [csv EXCEPT ![chunk] = [slots |-> {}, runs |-> {run}, torn |-> TRUE]]
            /\ GoTo("csv")
       ELSE /\ csv' = [csv EXCEPT ![chunk] = MergedFile]
            /\ GoTo("manifest")
  /\ UNCHANGED <<eras, workVars, jsonl, manifest, faults, kills>>

WriteCSV ==
  /\ phase = "csv"
  /\ csv' = [csv EXCEPT ![chunk] = MergedFile]
  /\ GoTo("manifest")
  /\ UNCHANGED <<eras, workVars, jsonl, manifest, faults, kills>>

(* writeRunManifest; the process exits 1 if a worker failed, and leaves the *)
(* workers' files as they are.                                              *)
WriteManifest ==
  /\ phase = "manifest"
  /\ manifest' = [manifest EXCEPT ![chunk] = [jsonl |-> run, csv |-> run]]
  /\ IF \E i \in Workers : worker[i] = "failed" THEN ExitWith(1) ELSE GoTo("cleanup")
  /\ UNCHANGED <<eras, workVars, jsonl, csv, faults, kills>>

(* cleanupWorkerCache removes the workers' files; with --keep-cache, or if  *)
(* that fails, some or all of them stay.  The process exits 0 either way.   *)
Cleanup ==
  /\ phase = "cleanup"
  /\ \E removed \in SUBSET Workers :
       wfile' = [i \in Workers |-> IF i \in removed THEN NoFile ELSE wfile[i]]
  /\ ExitWith(0)
  /\ UNCHANGED <<eras, warmup, worker, pos, outVars, faults, kills>>

(* The process is killed; its engines lose their API server and end. *)
KillProcess ==
  /\ phase # "off"
  /\ kills < MaxKills
  /\ kills' = kills + 1
  /\ ExitWith(137)
  /\ worker' = [i \in Workers |-> "idle"]
  /\ UNCHANGED <<eras, warmup, pos, wfile, outVars, faults>>

Engine(i) == EngineOpen(i) \/ EngineSlot(i) \/ EngineExit(i)

Process == \/ PreDownload \/ (\E i \in Workers : PrepareWorker(i)) \/ CatchUp \/ Warm \/ Serve
           \/ Collect \/ Merge \/ WriteCSV \/ WriteManifest \/ Cleanup

OrchNext == \/ StepErr
            \/ PreDownload
            \/ \E i \in Workers : \/ PrepareWorker(i)
                                  \/ EngineOpen(i)
                                  \/ EngineSlot(i)
                                  \/ EngineExit(i)
                                  \/ EngineTruncates(i)
                                  \/ EngineFail(i)
            \/ CatchUp
            \/ Warm
            \/ Serve
            \/ Collect
            \/ Merge
            \/ WriteCSV
            \/ WriteManifest
            \/ Cleanup
            \/ KillProcess

=============================================================================

-------------------------------- MODULE Runner --------------------------------
(***************************************************************************)
(* run.sh: the epochs are cut into chunks and the orchestrator is run on   *)
(* each, first for all of them with --prep-only, then for real, with       *)
(* retries; a chunk whose output is complete is skipped, so the script can *)
(* be killed and started again.  After every chunk all chunk CSVs are      *)
(* concatenated into merged.csv.                                           *)
(***************************************************************************)
EXTENDS Orchestrator

CONSTANTS CHUNK_RETRIES,
          MaxInvocations   \* bound on how often run.sh is started

ASSUME RunnerAssumption == CHUNK_RETRIES \in Nat \ {0} /\ MaxInvocations \in Nat

VARIABLES rpc,          \* where the script is
          cursor,       \* the chunk it works on
          attempt,
          prepFailed,   \* PREP_FAILED > 0
          failedFile,   \* failed_chunks.txt
          merged,       \* merged.csv: the rows of each chunk in it
          invocations

runnerVars == <<rpc, cursor, attempt, prepFailed, failedFile, merged, invocations>>

vars == <<orchVars, runnerVars>>

TypeOK ==
  /\ phase \in {"off", "predownload", "prepare", "catchup", "warm", "serve", "run",
                "merge", "csv", "manifest", "cleanup"}
  /\ chunk \in Chunks
  /\ prepOnly \in BOOLEAN
  /\ exit \in {Running, 0, 1, 137}
  /\ exit = Running <=> phase # "off"
  /\ run \in Nat
  /\ at \in 1 .. Parallel + 1
  /\ warmup \in [Workers -> 0 .. MaxSlot]
  /\ worker \in [Workers -> {"idle", "starting", "looping", "ok", "failed"}]
  /\ pos \in [Workers -> 0 .. MaxSlot + 1]
  /\ eras \subseteq Int
  /\ wfile \in [Workers -> Files]
  /\ jsonl \in [Chunks -> Files] /\ csv \in [Chunks -> Files]
  /\ manifest \in [Chunks -> [jsonl : Nat, csv : Nat]]
  /\ rpc \in {"off", "prep", "preptry", "prepping", "run", "try", "running", "exit0", "exit1"}
  /\ cursor \in 1 .. TotalChunks + 1
  /\ attempt \in 1 .. CHUNK_RETRIES
  /\ prepFailed \in BOOLEAN
  /\ failedFile \subseteq {"prep", "run"} \X Chunks
  /\ merged \in [Chunks -> Files]
  /\ invocations \in 0 .. MaxInvocations
  /\ faults \in 0 .. MaxFaults /\ kills \in 0 .. MaxKills
-------------------------------------------------------------------------------
(* chunk_complete: the CSV and its manifest exist, and the CSV has as many  *)
(* rows as the chunk has slots.                                             *)
chunk_complete(c) ==
  /\ Exists(csv[c])
  /\ manifest[c] # NoManifest
  /\ Cardinality(csv[c].slots) = (ChunkEnd(c) - ChunkStart(c)) * SlotsPerEpoch

(* merge_chunks writes merged.csv.tmp from every chunk CSV and renames it. *)
merge_chunks == merged' = IF \E c \in Chunks : Exists(csv[c]) THEN csv ELSE merged

Init ==
  /\ OrchInit
  /\ rpc = "off"
  /\ cursor = 1
  /\ attempt = 1
  /\ prepFailed = FALSE
  /\ failedFile = {}
  /\ merged = [c \in Chunks |-> NoFile]
  /\ invocations = 0

(* The script is started, for the first time or again. *)
Invoke ==
  /\ rpc \in {"off", "exit1"}
  /\ invocations < MaxInvocations
  /\ invocations' = invocations + 1
  /\ rpc' = "prep"
  /\ cursor' = 1
  /\ attempt' = 1
  /\ prepFailed' = FALSE
  /\ failedFile' = {}
  /\ UNCHANGED <<orchVars, merged>>

(* Head of the prep loop. *)
PrepHead ==
  /\ rpc = "prep"
  /\ cursor <= TotalChunks
  /\ IF chunk_complete(cursor)
       THEN cursor' = cursor + 1 /\ UNCHANGED rpc
       ELSE rpc' = "preptry" /\ UNCHANGED cursor
  /\ attempt' = 1
  /\ UNCHANGED <<orchVars, prepFailed, failedFile, merged, invocations>>

PrepLaunch ==
  /\ rpc = "preptry"
  /\ Launch(cursor, TRUE)
  /\ rpc' = "prepping"
  /\ UNCHANGED <<cursor, attempt, prepFailed, failedFile, merged, invocations>>

PrepResult ==
  /\ rpc = "prepping"
  /\ phase = "off"
  /\ IF exit # 0 /\ attempt < CHUNK_RETRIES
       THEN /\ rpc' = "preptry"
            /\ attempt' = attempt + 1
            /\ UNCHANGED <<cursor, prepFailed, failedFile>>
       ELSE /\ rpc' = "prep"
            /\ cursor' = cursor + 1
            /\ prepFailed' = (prepFailed \/ exit # 0)
            /\ failedFile' = IF exit = 0 THEN failedFile
                             ELSE failedFile \cup {<<"prep", cursor>>}
            /\ UNCHANGED attempt
  /\ UNCHANGED <<orchVars, merged, invocations>>

(* All chunks are prepared, or the script gives up before it runs any. *)
PrepEnd ==
  /\ rpc = "prep"
  /\ cursor > TotalChunks
  /\ IF prepFailed
       THEN rpc' = "exit1" /\ UNCHANGED cursor
       ELSE rpc' = "run" /\ cursor' = 1
  /\ UNCHANGED <<orchVars, attempt, prepFailed, failedFile, merged, invocations>>

(* Head of the run loop. *)
RunHead ==
  /\ rpc = "run"
  /\ cursor <= TotalChunks
  /\ IF chunk_complete(cursor)
       THEN cursor' = cursor + 1 /\ UNCHANGED rpc
       ELSE rpc' = "try" /\ UNCHANGED cursor
  /\ attempt' = 1
  /\ UNCHANGED <<orchVars, prepFailed, failedFile, merged, invocations>>

RunLaunch ==
  /\ rpc = "try"
  /\ Launch(cursor, FALSE)
  /\ rpc' = "running"
  /\ UNCHANGED <<cursor, attempt, prepFailed, failedFile, merged, invocations>>

(* An attempt counts if the orchestrator exits 0 AND the output is          *)
(* complete; after the last one the chunk is done or recorded as failed,    *)
(* and merge_chunks runs either way.                                        *)
RunResult ==
  /\ rpc = "running"
  /\ phase = "off"
  /\ LET ok == exit = 0 /\ chunk_complete(cursor)
     IN  IF ~ ok /\ attempt < CHUNK_RETRIES
           THEN /\ rpc' = "try"
                /\ attempt' = attempt + 1
                /\ UNCHANGED <<cursor, failedFile, merged>>
           ELSE /\ rpc' = "run"
                /\ cursor' = cursor + 1
                /\ failedFile' = IF ok THEN failedFile
                                 ELSE failedFile \cup {<<"run", cursor>>}
                /\ merge_chunks
                /\ UNCHANGED attempt
  /\ UNCHANGED <<orchVars, prepFailed, invocations>>

(* Bug: the last merge_chunks is left out. *)
RunEndNoMerge ==
  /\ rpc = "run"
  /\ cursor > TotalChunks
  /\ rpc' = IF failedFile = {} THEN "exit0" ELSE "exit1"
  /\ UNCHANGED <<orchVars, cursor, attempt, prepFailed, failedFile, merged, invocations>>

RunEnd ==
  /\ rpc = "run"
  /\ cursor > TotalChunks
  /\ merge_chunks
  /\ rpc' = IF failedFile = {} THEN "exit0" ELSE "exit1"
  /\ UNCHANGED <<orchVars, cursor, attempt, prepFailed, failedFile, invocations>>

(* The machine goes down: script, orchestrator and engines end. *)
KillAll ==
  /\ rpc \notin {"off", "exit0", "exit1"}
  /\ kills < MaxKills
  /\ kills' = kills + 1
  /\ rpc' = "off"
  /\ phase' = "off"
  /\ exit' = 137
  /\ worker' = [i \in Workers |-> "idle"]
  /\ UNCHANGED <<chunk, prepOnly, run, at, eras, warmup, pos, wfile, outVars, faults>>
  /\ UNCHANGED <<cursor, attempt, prepFailed, failedFile, merged, invocations>>

Script == \/ PrepHead \/ PrepLaunch \/ PrepResult \/ PrepEnd
          \/ RunHead \/ RunLaunch \/ RunResult \/ RunEnd

Next == \/ Invoke
        \/ PrepHead
        \/ PrepLaunch
        \/ PrepResult
        \/ PrepEnd
        \/ RunHead
        \/ RunLaunch
        \/ RunResult
        \/ RunEnd
        \/ KillAll
        \/ OrchNext /\ UNCHANGED runnerVars

SafeSpec == Init /\ [][Next]_vars

(* Some part of the system that can go on does: the script, the process it  *)
(* started, or one of the engines.  No fairness between them is needed,     *)
(* because none of them can go on forever.                                  *)
Progress == Script \/ ((Process \/ \E i \in Workers : Engine(i)) /\ UNCHANGED runnerVars)

Spec == SafeSpec /\ WF_vars(Progress)
-------------------------------------------------------------------------------
(* Whenever an output file exists it holds each slot of its chunk exactly   *)
(* once and no other slot, whatever failed or was killed when: the merge    *)
(* refuses gaps and duplicates and replaces files by renaming.              *)
OutputExact ==
  \A c \in Chunks : \A f \in {jsonl[c], csv[c]} :
    Exists(f) => f.slots = ChunkSlots(c) /\ ~ f.torn

(* The records of an output file were all produced by one orchestrator run: *)
(* what an earlier attempt left in workers/ is never merged.                *)
OutputFresh ==
  \A c \in Chunks : Cardinality(jsonl[c].runs) <= 1 /\ Cardinality(csv[c].runs) <= 1

(* "Sanity: count of data rows should equal (end - start) * 32 slots"       *)
(* (run.sh): an orchestrator run that exits 0 has left a complete chunk.    *)
ExitZeroComplete ==
  rpc = "running" /\ phase = "off" /\ exit = 0 => chunk_complete(cursor)

(* When run.sh exits 0, merged.csv holds every slot of the range once, also *)
(* the chunks that an earlier, killed invocation finished.                  *)
SuccessIsWhole ==
  rpc = "exit0" => \A c \in Chunks : merged[c].slots = ChunkSlots(c)

(* Every slot the archive warm-up, the planner and the merge may read lies  *)
(* in a downloaded ERA file, also when a checkpoint had to be moved back.   *)
EraCovered ==
  phase \in {"warm", "serve", "run", "merge"} =>
    \A i \in Workers : IsActive(Plan[i]) =>
      erasFor(Min({warmup[i] + 1, minWarmupSlot}), Plan[i].EndSlot + LookaheadCap) \subseteq eras

(* "Completed chunk outputs persist on disk" (run.sh): a complete chunk     *)
(* stays complete through later attempts, failures and crashes.             *)
CompletePersists ==
  [][\A c \in Chunks : chunk_complete(c) => chunk_complete(c)']_vars

(* "A sidecar <output>.manifest.json captures ... output hashes"            *)
(* (README.md): once run.sh has accepted every chunk, each manifest holds   *)
(* the hashes of the files beside it.                                       *)
ManifestMatches ==
  rpc = "exit0" => \A c \in Chunks :
    jsonl[c].runs = {manifest[c].jsonl} /\ csv[c].runs = {manifest[c].csv}

(* Every invocation of run.sh ends, unless it is killed. *)
RunnerEnds == rpc = "prep" ~> rpc \in {"off", "exit0", "exit1"}

=============================================================================

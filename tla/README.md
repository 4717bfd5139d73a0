# A TLA+ verification of fcr-simulator

fcr-simulator replays Ethereum mainnet history through consensus clients with
the fast confirmation rule enabled and records, slot by slot, what each client
confirmed.  `run.sh` cuts a range of epochs into chunks; for each chunk it runs
`fcr-orchestrator`, which downloads ERA files and checkpoint states, warms a
cache of orphaned blocks, serves a local beacon API, starts one engine process
per worker and merges what they write.  A wrong result here is silent: a block
taken for missed, an orphan left out or a stale record changes the simulated
fork choice and the output still looks fine.  This project is about the places
where that could happen.

## 1. Inventory

| Component | Source | State | Operations | Talks to |
|---|---|---|---|---|
| chunk runner | `run.sh` | chunk files, `failed_chunks.txt`, `merged.csv`, cursor, attempt | prep pass, run pass, `chunk_complete`, `merge_chunks` | starts the orchestrator, reads its exit code and files |
| orchestrator | `cmd/fcr-orchestrator/main.go` | worker infos, ERA directory, `workers/`, outputs | `execute`: pre-download, `prepareWorkers`, catch-up, warm, serve, `runEngineWorkers`, merge, manifest | everything below |
| chunk split | `pkg/chunk` | none | `Split` | called by the orchestrator |
| ERA cache | `pkg/era` | files in a directory, objects in S3, per-file index, LRU | `PreDownload*`, `RawBlockSSZ`, `BlockExists`, `MirrorToS3` | S3, public ERA archive |
| fetchers | `pkg/beaconfetch`, `pkg/blockarchive`, `pkg/s3cache` | cache files, objects | tiered lookup, retries, atomic writes, upload | beacon node, block archive, S3 |
| backend | `pkg/beaconapi/realbackend.go` | `canonicalBlockIndex` (shared by all handlers), list of orphan roots | `BuildSlot`, `BuildPlan`, `WarmBlockArchiveCache` | ERA reader, archive cache, first-seen source |
| first-seen source | `pkg/beaconapi/firstseen.go` | LRU of epochs, in-flight loads | `AttestationsForSlot` | parquet files, S3 |
| beacon API server | `pkg/beaconapi/server.go` | none | HTTP routes | the backend; called by engines |
| ERA mirror | `cmd/fcr-orchestrator` (`era-mirror`), `pkg/era` | pool of workers, first error, statistics | `MirrorToS3` | fills the bucket that downloaders read |
| engines | `engines/*` | fork choice, head state, state caches, output file | slot loop, import, prune, record | beacon API |
| merge, manifest, schema | `pkg/merge`, `pkg/manifest`, `pkg/schema` | output files | validate, sort, write by rename | worker files |
| attplan | `pkg/attplan` | none | `Plan` | its own tests only |

What is hard here, with the lines in `PROJECT.json` under `hazards`:

* *interleavings*: HTTP handlers of all engines share the canonical index and
  the first-seen cache, both of which load without their lock;
* *crashes*: every file is written by processes that are killed and started
  again; what counts as done is decided later from file names and row counts;
* *partial failure*: a worker, an S3 call, an upload or one of several loads
  fails while the others go on;
* *stale state*: worker files of earlier attempts, ERA envelopes computed
  before the checkpoint moved, a serving cache that was warmed from a guess of
  what will be asked, post-states looked up after fork choice has pruned;
* *cancellation*: the mirror's producer and workers each select between work
  and a cancelled context;
* *boundaries*: uint64 at its maximum, warmup 0, uneven splits, a slot with
  more orphans than a list may hold.

What makes each component correct:

* canonical index: callers get exactly the archive's blocks, read once;
  waiters are woken;
* first-seen source: one load per epoch, errors not remembered, all calls end;
* ERA cache: "missed" means missed, the bucket holds whole files;
* fetchers: no partial items, returned means stored, 404 only from the origin;
* ERA mirror: success means everything is in the bucket; it always returns;
* planner: every attachable fork reaches the engine, parents first; the plan of
  a range and the answers for its slots agree;
* server and engine: a failure is never taken for a missing block; every block
  is processed on its parent's state;
* orchestrator and runner: outputs hold each slot once from one run; exit 0
  means complete; complete stays complete; the script ends.

## 2. Modules

    CanonicalReads                what the index promises its callers
      ^ refined by
    CanonicalIndex                canonicalBlockIndex, ranges as sets
      ^ extended by               CanonicalIndexProofs (TLAPS)
    CanonicalSlices               ... and the slices that represent them
                                  CanonicalSlicesProofs (TLAPS)
    FirstSeenCache                FirstSeenAttestationSource
                                  FirstSeenCacheProofs (TLAPS)
    EraCache -> EraMirror         pkg/era Downloader + Reader; with the mirror
                                  EraMirrorProofs (TLAPS)
    TieredFetch                   the three clients with cache tiers
                                  TieredFetchProofs (TLAPS)
    SlotPlan -> RangePlan         warm-up, BuildSlot, the engine's imports;
                                  BuildPlan
                                  SlotPlanProofs (TLAPS)
    BeaconServer -> LodestarEngine
                                  the HTTP handlers; the slot loop against them
                                  LodestarEngineProofs (TLAPS)
    ChunkSplit -> Orchestrator -> Runner
                                  pkg/chunk, execute + engines + merge, run.sh
                                  RunnerProofs (TLAPS)

Modules named `MC...` only give values to constants.  In all modules, an
operator whose comment begins with `Bug:` is a deliberately wrong variant of
the definition that follows; no specification uses it.  It stands there to
show that a property notices that mistake.

**CanonicalIndex.** `loaded`, `loading`, `bySlot` are the fields of
`canonicalBlockIndex`; `pc`, `want`, `gap`, `snap` are the locals of each
handler.  One action is one critical section of `mu`: `EnsureDone`,
`EnsureWait` (`cond.Wait`), `EnsureClaim`, then `LoadOk` or `LoadErr`, which
join the unlocked read with the section that publishes it.  `nextGapLocked` is
given as a predicate (`IsNextGap`), which is what the proofs use.
`CanonicalSlices` adds the sorted slices and the code's own scan over them
(`rangeContainingSlot`, `addSlotRange`, `insertSlotRange`, `removeSlotRange`,
`nextGapLocked`, with uint64 wrap-around) and shows that they agree with the sets.

**FirstSeenCache.** `epoch()`: `Hit`, `Join`, `Lead` under the lock, `LoadOk`
and `LoadErr` after the unlocked load, `Wake` after `<-in.done`.  `before` is a
history variable.  The LRU is golang-lru's, modelled from its use.  The copy of a
parquet file on disk is left out: it saves a download and decides nothing.

**EraCache.** A file is the set of its parts written so far.  `OpenTrunc`,
`WritePart`, `WriteErr`, `Written` are `os.WriteFile` seen from outside;
`DownloadFromS3` is atomic because `DownloadFile` renames.  `BuildIndex` builds
the reader's index on first use and keeps it; `RawBlockSSZ` is what a read then
answers.  A kill can come between any two actions.  `RangeOf` gives each process
the eras of its slot range.

**EraMirror.** `MirrorToS3` beside the processes of `EraCache`, on their bucket.
`producer` is where the loop over the eras stands, `wpc` and `job` where each
worker does; `Send` is the rendezvous on the unbuffered channel, `GiveUp` and
`WorkerReturn` the other branch of the two selects.  `MirrorErr` is any failing
call of `mirrorEraToS3`, or one that notices the cancelled context; `setErr`
keeps the first error and cancels.  `Interrupt` is a signal, `MirrorCrash` a
kill; both can be followed by a new `MirrorStart`.

**TieredFetch.** One item, the tiers of `beaconfetch` with and without S3 and
of `blockarchive`, several processes.  `Transient` ends an attempt in the sleep
before the next one or gives up, `Wake` counts the attempt and tries again.
`WriteTemp`/`Rename` are `writeFileAtomic` and `writeCached`.

**SlotPlan.** A state holds a block tree with orphans, who carries which vote,
and what the archive has; all of them are enumerated.  `Warm` is
`warmArchiveCache` for a worker's range; `RunSlot` is a turn of the engine's
loop: `BuildSlot` from the cache alone, then `importPlannedBlocks`.
`ListIndexBySlotRange` pages through the archive's listing as the client does.

**RangePlan.** `BuildPlan` as a fold over the slots of a range, carrying the
fields of `planBuildState`: canonical block, listed orphans, what earlier slots
left for this one, what this slot's sources vote for.  It is a function of the
same state as `BuildSlot`, and compared with it where serving begins.

**BeaconServer, LodestarEngine.** `BeaconServer` gives, for each request and
each result of the backend, the status code, handler by handler.
`LodestarEngine` is one engine: `bootstrapEngine`, then per slot
`fetchSlotInstruction`, `importCanonical` or `importOrphan` for each planned
block (fetched through `serveHTTP`), `buildRecord` and `pruneSlot`.
`importedState`, `stateByRoot` and `checkpoints` are the maps of `StateCache`.
A state is named by the block it results from, so that processing a block on a
wrong state is visible as `Corrupt`.  Fork choice is external: it may finalize
any known canonical block between two steps, and its `prune` may drop any blocks
that do not descend from the final one.  Instructions are those `SlotPlan`
allows (`Nameable`), an ancestor possibly being named again, in the planner's
order (`Orders`).  `Ancestry` is the smallest set closed under `Parent`, which
needs no recursion.

**ChunkSplit, Orchestrator, Runner.** `Orchestrator` has an action for each
stage of `execute`, one per round of `prepareWorkers`, three per engine, a
failing variant of each (`StepErr`, `EngineFail`, `EngineTruncates`) and a kill.
`WriteManifest` and `Cleanup` are separate, so that a kill can come between the
manifest and the removal of the workers' files.  A kill of the process ends its
engines with it; the real ones go on until their next request to the server that
is gone, and what they still write meanwhile is not modelled.
Files carry the number of the run that wrote them, which is how stale data is
told apart.  `Runner` is the script around it.  `run.sh` numbers its chunks by
a cursor over epochs; the model numbers them.

## 3. Runs

| Run | Checks | Result |
|---|---|---|
| `canonical_index` | 8 properties of the index and its slices, liveness through `ImplementsReads` | pass, 61 thousand states |
| `firstseen` | single flight, fresh outcomes, every call returns | pass, 168 thousand |
| `era_mirror` | download beside mirror: whole files in S3, "missed" only after an interrupted write, a file per era, bounded retries, the mirror's success, the mirror returns | pass, 1.8 million |
| `era_truncated` | `MissedIsMissed` | **violated**: finding 1 |
| `runner` | exact and fresh outputs, exit 0, persistence, ERA coverage | pass, 1.7 million |
| `runner_ends` | run.sh ends | pass, 32 thousand |
| `warmup_zero` | `ExitZeroComplete` with `--warmup-epochs 0` | **violated**: finding 2 |
| `manifest_stale` | `ManifestMatches` | **violated**: finding 3 |
| `slot_plan` | forks reach the engine, canonical blocks attach, warm-up covers, plan and slots agree | pass, 1.2 million |
| `warm_gap` | `WarmCoversImports` in next-non-missed mode | **violated**: finding 4 |
| `tiered_fetch` | whole or absent, stored when returned, honest 404, every call returns | pass, 4 thousand |
| `engine` | blocks on their parents' states, caches follow fork choice, nothing lost, no needless failure | pass, 291 thousand |

Findings (quoted with lines in `PROJECT.json`):

1. An ERA file is written in place; a kill leaves a prefix that later runs take
   for the file, and slots behind a record boundary are reported as missed
   instead of as an error.
2. With warmup 0 (or at epoch 0) the first slot of a worker is neither expected
   nor recorded; `run.sh` then never accepts the chunk.
3. `chunk_complete` does not tie the manifest to the outputs: after a failed
   attempt and a killed retry a chunk is accepted with a manifest that holds the
   hashes of other files.
4. Outside greedy mode the warm phase does not read the votes carried by the
   orphans it lists, but `BuildSlot` does; the comment of
   `WarmBlockArchiveCache` promises every orphan the hot loop could request.
   In the trace an orphan at slot 2, child of the checkpoint block, is named only
   by a vote that an orphan at slot 3 carries; slot 2 is evaluated without it.
   `WarmCoversImports` asks only for orphans of the slot being built that the
   worker can attach, so what the trace loses would have been imported.

## 4. Bounds and why they are enough

* `canonical_index`: 3 requests, 5 slots, chunks of 2, one failing read.  Three
  are needed for a loader, a waiter and a third that claims beside them; the
  last slot plays MaxUint64, and windows touch, overlap and end there.
* `firstseen`: 3 requests, 2 epochs, a cache of 1, so that eviction happens
  while others wait; 4 calls, so that somebody comes back after a failure.
* `era_mirror`: one orchestrator and a mirror with two workers, each with a
  directory, on one bucket; 2 eras, 1 block record, 2 attempts, one interrupt or
  kill.  The orchestrator's range is the second of the mirror's eras, so that the
  bucket can hold an era that only one of them touches; ranges of any size are left
  to the proofs.  Failures are not bounded: any request, write or upload may fail
  whenever it is made, and what ends a download is the attempt counter alone.  One
  worker can fail while the producer still has an era to send and the other worker
  ends before taking it.  Two orchestrators on one bucket meet there in the same
  way and are not instantiated again.
* `era_truncated`: one process, no bucket, 2 records, so that a prefix can also
  end between two block records.
* `runner`: 4 epochs of 2 slots in 2 chunks of which the second is shorter (and
  gives one of two workers an empty chunk), one missed slot that moves a
  checkpoint back, two faults, two kills, three invocations, two attempts.
* `slot_plan`: 6 slots, 2 orphans, 2 workers whose ranges overlap, a list limit
  of 1 so that crowded slots occur, a walk limit of 2.  With two orphans no
  branch is longer than a walk, so the truncated walk is not exercised; the
  proofs (section 6) cover it.
  Listings are paged one by one, so that every listing takes several pages.
* `engine`: 4 slots after the checkpoint (2 of them recorded), epochs of 2 slots,
  2 orphans anywhere, a recent-state cache of 1 slot and checkpoints of 1 epoch,
  so that eviction, finality and pruning all happen before the last import; 2
  failing requests or invalid orphans.
* `tiered_fetch`: 2 processes, 2 parts, 3 attempts, 2 kills.  Failures are not
  bounded; a counter that is not advanced would retry for ever.

Not in any model: power loss that undoes a rename (the code never calls fsync),
clock time, and the sizes of pools and queues of the Go runtime.

## 5. Fairness

* `CanonicalIndex`, `FirstSeenCache`: weak fairness of each goroutine; the Go
  scheduler runs what is runnable, and file reads return.
* `TieredFetch`: weak fairness of each call: the operation under way returns, well
  or badly.  None is assumed to succeed, so that `CallReturns` rests on the bounded
  attempts of the code and on nothing else.  HTTP requests have timeouts.  S3 calls
  are made with `context.Background()`, so for them this rests on the timeouts of
  the minio client.
* `EraCache`: none.  That a pre-download ends is stated without fairness, as
  `DownloadAdvances`: every step it takes ends it or makes a well-founded measure
  smaller, so that it takes finitely many, however many of them fail.
* `EraMirror`: weak fairness of the mirror as a whole.
  `GiveUp` and `WorkerReturn` compete with `Send` for the same select; that the
  mirror ends does not depend on which of them Go picks, because there are
  finitely many eras.  Starting the mirror again is left to the operator and is
  not fair.
* `LodestarEngine`, `SlotPlan`: safety only.
* `Runner`: weak fairness of "some part that can go on does"; nothing is
  assumed between script, process and engines, because each of them only has
  finitely much to do.  That an engine does not hang is assumed: the
  orchestrator has no timeout for it.

## 6. Proofs

`CanonicalIndexProofs` proves, for every set of requests and windows, every
archive, slot bound, chunk size and number of failures
(`CanonicalIndexAssumption`), that `TypeOK`, `NoDoubleLoad`, `LoadedSeparated`,
`SnapshotExact` and `WaiterHasLoader` are invariants, and that the index refines
the safety part of `CanonicalReads`.  The invariants are proved together, as
`IInv`, because none is inductive alone: that a snapshot is exact needs that a
window reported as loaded stays loaded (`ReadyCovered`) and that the index holds
exactly the blocks of the loaded ranges (`IndexExact`); both need that
publishing a gap neither loses nor invents slots, which are the lemmas on
`addSlotRange` (`AddCovers`, `AddSeparates`); that waiters have loaders needs
that `loading` is exactly what loaders have claimed (`LoadingExact`), and that
nobody else's claim contains a slot being published (`NoDoubleLoad`).
`GapIsFree` is the heart of it: the gap `nextGapLocked` returns meets no loaded
and no loading range.

`TieredFetchProofs` proves `TypeOK`, `WholeOrAbsent`, `ReturnedIsStored` and
`NotFoundIsReal` for any processes, parts, attempts, failures and kills
(`TieredFetchAssumption`).  The strengthening is `Held`: a process about to
rename or upload holds the whole item, and one about to upload has already
renamed it; that the attempt counter stays within its bound needs that a call
sleeps only before its last attempt (`SleepsBeforeLast`).

`FirstSeenCacheProofs` proves `TypeOK`, `SingleFlight` and `FreshOutcome` for any
requests, epochs, calls and cache size (`FirstSeenAssumption`).  What a request
will return is not visible in its own state: it depends on the flight it leads or
waits for (`Leads`, `OneLeader`, `Led`, `Waits`), on the flights that had ended
when it called (`SawEnded`), and on every cached epoch having come from a load
that succeeded (`CacheLoaded`).  The LRU is a sequence; `WithoutFacts` says what
taking an entry out of it does.

`EraMirrorProofs` proves `MirrorTypeOK`, `ReadyHasFiles`, `S3Whole`,
`TruncationNeedsInterruption` and `MirrorComplete` for any processes, directories,
workers, failures and kills and every range of eras (`EraCacheAssumption`,
`EraMirrorAssumption`: the mirror's eras are the numbers from a first to a last
one, as its two flags give them, and its workers are finitely many).  The argument
is by rely and guarantee: a step of a downloader writes only into its own directory
and removes nothing (`Kept`), which is all that the others rely on; a step of the
mirror leaves the downloaders and their directories alone (`Apart`).  `Local` says
what a downloader has in its directory at each point: a file being written is the
prefix written so far, a file about to be uploaded is whole.  For the mirror, `Jobs`
says that no two workers hold one era, `Covered` that every era behind the producer
is in the bucket, with a worker, or given up with an error, and `Counted` ties the
statistics to the eras that are done.

The same module proves `DownloadAdvances`: each step of a pre-download ends it or
makes progress in the lexicographic order of the eras still to look up, the eras
still to download, the attempts left for the first of them and the work left in the
attempt.  It needs that an attempt counter beyond 1 is only ever seen within the
attempts (`CountStarts`), so that entering them does not set it back.

`LodestarEngineProofs` proves `StatesExact`, `CacheMatchesForkChoice`, `NothingLost`
and `FailsOnlyOnFaults` for every block tree, chunk and cache size and any number of
faults (`LodestarEngineAssumption`: the warm-up begins before the chunk's first slot.
`main.ts` 121 also allows the two to be equal, which is the case of finding 2 and is
excluded: the first slot is then not recorded).  The first half is about the tree: `Ancestry`
unfolds along `Parent`, slots decrease along it, the canonical blocks form one chain.
The second is the invariant.  That a canonical block finds its parent's state rests
on the head being the last canonical block (`HeadLatest`) and on pruning never
reaching the blocks from the final one to the head (`FinalKept`); that an orphan
does rests on parents standing before children in the queue and in earlier
instructions (`QueueOrder`, `PlannedWhole`); `Accounted` then says where every
planned orphan is, `Recorded` which slots are written, and `Blamed` that a failed
engine has met a fault.

`SlotPlanProofs` proves every invariant of `slot_plan` for any number of workers and
slots, every finite set of orphans, every block tree and archive, all four modes and
every limit on walks, pages, lists and look-ahead.  It assumes `SlotPlanAssumption`
and, for `WarmCoversByRange` and the two properties of plans, `RangesInOrder`: the
ranges of later workers do not begin earlier.  Chunks ascend, and a checkpoint that
falls back from a missed slot takes the nearest earlier one, so the code never breaks it.

* *What the operators compute.*  The library's induction theorems cannot be applied, so
  each recursive function and fold is handled as in `SplitCuts` below: a function that
  satisfies the defining equation exists (`Recursion`, `FoldIter`), hence the
  definition names one, and no least index has a value outside what is claimed
  (`CountUp`).  From this come what listings, sorts and flattenings hold, that a
  branch is the line of ancestors of its tip (`BranchLine`), and that a walk follows
  that line up to the first block that stops it or to its limit (`ResolveWalk`).
* *Forks reach engines* (`PlanInv`).  An engine holds the canonical chain from its
  checkpoint on (`ChainHeld`) and every attachable orphan of a passed slot whose
  branch is listed (`ListedHeld`); the lists hold the branches of what is cached, what
  is voted for and, in greedy mode, what the archive has in the range (`CacheListed`,
  `VotesListed`, `RangesListed`).  None is inductive without the others: an orphan
  attaches only if its parent was listed for an earlier slot, which is a fact about
  the warm phase.  `ForksImported`, `OnlyDetachedSkipped`, `CanonicalAttaches` and
  `TypeOK` follow.
* *The warm phase covers what is served* (`CoverInv`).  The walks from the roots of a
  warm range are cached (`RootsCached`); the votes carried by an archived orphan of
  the range have been followed unless the slot's list was full (`RangesRead`), so
  those of every listed orphan have (`ListRead`); here `RangesInOrder` is needed,
  since one worker's list serves the others.
* *Plans* (`Laid`, `Carries`).  Along the slots of `BuildPlan` a block is named once,
  after the canonical blocks of its slot and earlier ones and after the listed orphans
  of earlier slots; a block that was scheduled is imported or waits at its own slot.
  The answers of `BuildSlot`, put one after the other, have the same shape
  (`Follows`), and whatever has it makes an engine hold the same blocks (`FollowHolds`).
  `PlanOrdered` and `PlanMatchesSlots` follow.

Two properties were too strong and were corrected when their proofs failed and TLC
showed why on larger trees.  `OnlyDetachedSkipped`: a walk from a branch that is too
long can list an orphan and stop before its parent, so the orphan's own branch being
short is not enough.  `PlanOrdered`: a parent in a slot with more orphans than a list
holds may be named after its child, when a vote for it is met.

`CanonicalSlicesProofs` proves `SlicesRepresentSets` and `ScanAgrees` for every archive,
slot bound and set of requests: `addSlotRange` and `removeSlotRange`, run on a sorted
slice of separated ranges, return one that represents the set operation, and the code's
scan for a gap returns a gap `IsNextGap` allows, at the largest slot too.

`RunnerProofs` composes `ChunkSplit`, `Orchestrator` and `Runner` and proves, for every
range, chunk size, number of workers, warm-up, missed slots, era size, retries,
faults, kills and invocations (`OrchestratorAssumption`, `RunnerAssumption`), `TypeOK` and
`OutputFresh`, and under a hypothesis each:

* `OutputExact`, `ExitZeroComplete`, `SuccessIsWhole` and the action property
  `CompletePersists` under `Warmed` (`--warmup-epochs` is not 0 and the range does not
  start at epoch 0).  Finding 2 is what happens without it, so it cannot be dropped;
* `EraCovered` under `LookaheadFits` (the look-ahead after the last slot does not reach
  MaxUint64).  Beyond it the envelope saturates while the reads named by the property
  do not.

The invariant follows a record from engine to `merged.csv`: the plan partitions the
chunk's slots (`Partition`), so that the merge expects exactly these (`Expected`); a
prepared worker's file holds slots of that worker and records of this run only
(`FreshFiles`); what passes the merge is the chunk, whole (`MergedWhole`, `Outputs`);
the script goes past a chunk only if it is complete or recorded as failed
(`Accepted`, with `CleanupComplete`: what is left to clean up belongs to a complete
chunk); the downloads cover the planned range and then the checkpoints that
were found (`Downloaded`); and `Control` says which process runs when.

It also proves `SplitCuts`: for every range, warm-up and number of workers, `Split`
cuts the range into that many pieces, each starting where the one before ends.
`Split` accumulates its boundaries in a recursive function; the proof shows that the
closed form satisfies the defining equation, so that the definition names a function
that does, and that no least index exists at which the two differ (`Least`).

Each inductive invariant was checked by TLC on the instance of its run before it was
proved, `RunnerProofs`' also with four workers and with warm-up 0, `EraMirrorProofs`' also
with two downloaders.

Only model-checked: all liveness (`ImplementsReads` beyond its safety part,
`EveryCallReturns`, `MirrorEnds`, `RunnerEnds`, `CallReturns`),
which is out of the prover's reach.  Every other property of a passing run is proved,
under the hypotheses given above.

## 7. Not modelled

* `schema`, flag parsing, engine builds, scripts: no state, or formatting.
* `blockinfo.go`, JSON bodies and the ERA byte format beyond record boundaries:
  parsing.
* The engines' fork choice and state transition: other projects' code.  Of the
  engines only Lodestar's driver is modelled; the others repeat its loop over
  fork choices and stores of their own.
* Lodestar's injection of votes (`main.ts` 1239-1430): it sets fork choice's
  clock and calls it; what it leaves behind is fork choice's state.
* The checkpoint states fork choice asks the cache for.  The cache is seeded
  under the anchor's epoch, while `initializeForkChoiceFromAnchor` makes the
  justified checkpoint one epoch later, so the first lookups by checkpoint miss
  and return null, which the comment in `stateGetter` says is tolerated.
* `attplan.Plan`: called by its own tests only.
* `PreloadEras`: the same index built ahead of time.
* Two processes, or a process and the mirror, on one ERA directory: the code
  promises nothing there (hazard at `downloader.go:123`).
* In `SlotPlan`, votes cast later than at the slot of the block they name, and
  separate target roots: a root is a root to the planner, but the slot filter of
  greedy mode sees the vote's slot.
* In `merge`, the check of confirmed roots against the canonical chain: its
  window starts at the planned warm-up slot, so roots confirmed before it are
  left unchecked rather than reported.

## 8. Plan

Done: the canonical index with its refinement and proofs; first-seen source; ERA
cache and mirror; tiered clients with proofs; orchestrator, merge and runner;
slot planner, warm-up and whole-range plans; beacon API server and the Lodestar
engine with its state caches.

Proved: the safety invariants of the canonical index, the tiered clients, the
first-seen source, the ERA cache and mirror, the Lodestar engine, the slot planner with
whole-range plans, the index's slices, and the runner with the orchestrator; see
section 6.

Next, in this order:

1. The `Warmed` case split further: which slots are missing when it does not hold.
2. Votes with a slot of their own in `SlotPlan`.

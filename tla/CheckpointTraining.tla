-------------------------- MODULE CheckpointTraining --------------------------
(***************************************************************************)
(* A Megatron-Bridge training job and its checkpoint directory: the loop   *)
(* of train() (train.py), save_checkpoint and its finalization, the        *)
(* clean-up of old checkpoints and the choice of the checkpoint to load    *)
(* (checkpointing.py), across crashes, exits and in-process restarts.      *)
(*                                                                         *)
(* The ranks are one actor: how they agree on a save and its completion is *)
(* modelled in PersistentAsync.  The files of a checkpoint directory are   *)
(* the data (all shards and common.pt), the metadata files, train_state.pt *)
(* and run_config.yaml; beside the directories of its kind are the tracker *)
(* latest_train_state.pt and the one of Megatron-LM, a text file.          *)
(* A write that truncates a file takes two steps, so that a crash may fall *)
(* between them.                                                           *)
(***************************************************************************)
EXTENDS Integers, Sequences, FiniteSets

CONSTANTS
  TrainIters,  \* train_iters
  Setups       \* the configurations of the job with bounds on its failures

SetupType ==
  [ async    : BOOLEAN,        \* async_save
    save     : Nat \ {0},      \* save_interval
    np       : Nat,            \* non_persistent_save_interval, 0 if there is none
    keep     : Nat \cup {-1},  \* most_recent_k, -1 to keep all checkpoints
    ramp     : SUBSET Nat,     \* the steps at which the number of microbatches grows
    crashes  : Nat,            \* bound: crashes of the whole job
    restarts : Nat,            \* bound: in-process restarts
    stops    : Nat,            \* bound: exits on a signal, a duration or a straggler
    reruns   : Nat ]           \* bound: exits asked by the rerun state machine

Steps == 0 .. TrainIters
Kinds == {"main", "np"}   \* save, and its subdirectory non_persistent
Dirs == Kinds \X Steps    \* iter_<step>

None == -1
Torn == -2

ASSUME TrainItersAssumption == TrainIters \in Nat \ {0}
ASSUME SetupsAssumption == Setups \subseteq SetupType

VARIABLES
  setup,         \* the configuration, which never changes
  pc,            \* where the job is
  step,          \* train_state.step
  weights,       \* the number of steps the weights have been trained
  start,         \* the step at which train() began
  saving,        \* the directory of the save in progress
  ret,           \* where to go on after the save
  fin,           \* the directory being finalized
  finRet,        \* where to go on after the finalization
  pending,       \* the async requests in order, with the stage of each
  doomed,        \* the directories chosen for removal
  trackerCache,  \* read_train_state's lru_cache, for the trackers
  stateCache,    \* read_train_state's lru_cache, for the train_state.pt files
  alias,         \* the directory whose cached TrainState is train_state itself
  warm,          \* history: a restart in place found something in the caches
  data,          \* disk: data[d], "absent", "torn" or "full"
  meta,          \* disk: the directories with .metadata and metadata.json
  state,         \* disk: state[d], the step in train_state.pt
  config,        \* disk: the directories with run_config.yaml
  tracker,       \* disk: tracker[k], the step in latest_train_state.pt
  legacy,        \* disk: legacy[k], latest_checkpointed_iteration.txt
  counts         \* the crashes, restarts, stops and reruns so far

saveVars == <<saving, ret>>
finVars == <<fin, finRet>>
cacheVars == <<trackerCache, stateCache, alias, warm>>
modelVars == <<step, weights, start>>
diskVars == <<data, meta, state, config, tracker, legacy>>
vars == <<setup, pc, modelVars, saveVars, finVars, pending, doomed, cacheVars, diskVars, counts>>

AsyncSave == setup.async
SaveInterval == setup.save
NonPersistentInterval == setup.np
MostRecentK == setup.keep

Stages == {"queued", "writing", "written", "failed"}
Files == {None, Torn} \cup Steps
NoDir == <<"main", 0>>

TypeOK ==
  /\ setup \in Setups
  /\ pc \in {"load", "top", "poll", "ramp", "train", "decide", "preclean", "preremove",
             "begin", "data", "metadata", "state", "copy", "tracker", "legacy", "config",
             "postclean", "postremove", "exit", "end", "final", "finish",
             "exited", "failed", "stuck", "done"}
  /\ step \in Steps /\ weights \in Steps /\ start \in Steps
  /\ saving \in Dirs /\ fin \in Dirs
  /\ pending \in Seq([dir : Dirs, stage : Stages])
  /\ doomed \subseteq Dirs
  /\ trackerCache \in [Kinds -> {None} \cup Steps]
  /\ stateCache \in [Dirs -> {None} \cup Steps]
  /\ alias \in Dirs \cup {<<>>} /\ warm \in BOOLEAN
  /\ data \in [Dirs -> {"absent", "torn", "full"}]
  /\ meta \subseteq Dirs /\ config \subseteq Dirs
  /\ state \in [Dirs -> Files]
  /\ tracker \in [Kinds -> Files] /\ legacy \in [Kinds -> Files]
  /\ counts \in [crashes : 0 .. setup.crashes, restarts : 0 .. setup.restarts,
                 stops : 0 .. setup.stops, reruns : 0 .. setup.reruns]

ColdCaches ==
  /\ \A k \in Kinds : trackerCache[k] = None
  /\ \A d \in Dirs : stateCache[d] = None

FreshCaches ==
  /\ trackerCache' = [k \in Kinds |-> None]
  /\ stateCache' = [d \in Dirs |-> None]

Init ==
  /\ setup \in Setups
  /\ pc = "load"
  /\ step = 0 /\ weights = 0 /\ start = 0
  /\ saving = NoDir /\ ret = "top" /\ fin = NoDir /\ finRet = "top"
  /\ pending = <<>> /\ doomed = {}
  /\ trackerCache = [k \in Kinds |-> None]
  /\ stateCache = [d \in Dirs |-> None]
  /\ alias = <<>> /\ warm = FALSE
  /\ data = [d \in Dirs |-> "absent"]
  /\ meta = {} /\ config = {}
  /\ state = [d \in Dirs |-> None]
  /\ tracker = [k \in Kinds |-> None] /\ legacy = [k \in Kinds |-> None]
  /\ counts = [crashes |-> 0, restarts |-> 0, stops |-> 0, reruns |-> 0]

At(label) == pc = label
Goto(label) == pc' = label
Count(what) == counts' = [counts EXCEPT ![what] = @ + 1]
------------------------------------------------------------------------------
(***************************************************************************)
(* Loading (setup, load_checkpoint).  read_train_state remembers what it   *)
(* read, and the object it returns for a checkpoint becomes train_state.   *)
(***************************************************************************)
CheckpointExists == tracker["main"] # None \/ legacy["main"] # None

ReadTracker(k) ==
  IF tracker[k] # None /\ trackerCache[k] # None THEN trackerCache[k] ELSE tracker[k]
ReadState(d) == IF stateCache[d] # None THEN stateCache[d] ELSE state[d]

NonPersistentIteration ==
  IF NonPersistentInterval = 0 THEN None ELSE ReadTracker("np")

LegacyTrackerFirst ==  \* mutated form of the next definition
  IF legacy["main"] # None THEN legacy["main"] ELSE ReadTracker("main")
Iteration == IF tracker["main"] # None THEN ReadTracker("main") ELSE legacy["main"]

\* The newer of the two kinds; a non-persistent checkpoint wins a tie.
Newer(np, main) == IF np # None /\ np >= main THEN <<"np", np>> ELSE <<"main", main>>
ChosenCheckpoint == Newer(NonPersistentIteration, Iteration)

TrackersReadable == NonPersistentIteration # Torn /\ Iteration # Torn

Loadable(d) ==
  /\ data[d] = "full"
  /\ d \in meta
  /\ d \in config
  /\ state[d] \notin {None, Torn}

LoadNothing ==
  /\ At("load")
  /\ ~CheckpointExists
  /\ step' = 0 /\ weights' = 0 /\ start' = 0 /\ alias' = <<>>
  /\ Goto("top")
  /\ UNCHANGED <<saveVars, finVars, pending, doomed, trackerCache, stateCache, warm, diskVars,
                 counts>>

LoadCheckpoint ==
  /\ At("load")
  /\ CheckpointExists /\ TrackersReadable /\ Loadable(ChosenCheckpoint)
  /\ LET d == ChosenCheckpoint IN
     /\ step' = ReadState(d) /\ start' = ReadState(d)
     /\ weights' = d[2]
     /\ stateCache' = [stateCache EXCEPT ![d] = ReadState(d)]
     /\ alias' = d
  /\ trackerCache' = [k \in Kinds |-> IF k = "main" \/ NonPersistentInterval # 0
                                        THEN ReadTracker(k) ELSE trackerCache[k]]
  /\ Goto("top")
  /\ UNCHANGED <<saveVars, finVars, pending, doomed, warm, diskVars, counts>>

\* The tracker or the checkpoint it names cannot be read: every restart fails.
LoadFails ==
  /\ At("load")
  /\ CheckpointExists
  /\ ~(TrackersReadable /\ Loadable(ChosenCheckpoint))
  /\ Goto("stuck")
  /\ UNCHANGED <<modelVars, saveVars, finVars, pending, doomed, cacheVars, diskVars, counts>>
------------------------------------------------------------------------------
(***************************************************************************)
(* The training loop.                                                      *)
(***************************************************************************)
StartSave(kind, label) ==
  /\ saving' = <<kind, step>>
  /\ ret' = label
  /\ Goto(IF kind = "np" THEN "preclean" ELSE "begin")
  /\ UNCHANGED <<modelVars, finVars, pending, doomed, cacheVars, diskVars>>

LoopUnchanged == UNCHANGED <<modelVars, saveVars, finVars, pending, doomed, cacheVars,
                             diskVars, counts>>

IterationsLeft == step < TrainIters

LoopTest ==
  /\ At("top")
  /\ Goto(IF IterationsLeft THEN "poll" ELSE "end")
  /\ LoopUnchanged

\* maybe_finalize_async_save(blocking=False) has finalized what was written.
PollDone ==
  /\ At("poll")
  /\ ~(pending # <<>> /\ Head(pending).stage \in {"written", "failed"})
  /\ Goto("ramp")
  /\ LoopUnchanged

\* A change of the number of microbatches is preceded by a save.
Ramp ==
  /\ At("ramp")
  /\ IF step \in setup.ramp /\ step # 0 /\ step # start
       THEN StartSave("main", "train") /\ UNCHANGED counts
       ELSE Goto("train") /\ LoopUnchanged

TrainStep ==
  /\ At("train")
  /\ step' = step + 1
  /\ weights' = weights + 1
  /\ stateCache' = IF alias = <<>> THEN stateCache ELSE [stateCache EXCEPT ![alias] = step + 1]
  /\ Goto("decide")
  /\ UNCHANGED <<start, saveVars, finVars, pending, doomed, trackerCache, alias, warm, diskVars,
                 counts>>

\* should_checkpoint and should_exit of train_step: the optimizer is not run.
RerunExit ==
  /\ At("train")
  /\ counts.reruns < setup.reruns
  /\ Count("reruns")
  /\ StartSave("main", "exit")

PersistentDue == step % SaveInterval = 0
NonPersistentDue == NonPersistentInterval # 0 /\ step % NonPersistentInterval = 0
DueKind == IF PersistentDue THEN "main" ELSE "np"

\* checkpoint_and_decide_exit: a signal saves and exits, at once.
SignalExit ==
  /\ At("decide")
  /\ counts.stops < setup.stops
  /\ Count("stops")
  /\ StartSave("main", "exit")

RegularSave ==
  /\ At("decide")
  /\ PersistentDue \/ NonPersistentDue
  /\ StartSave(DueKind, "top")
  /\ UNCHANGED counts

\* An exit by duration or straggler follows the regular save, or saves itself.
DurationExit ==
  /\ At("decide")
  /\ counts.stops < setup.stops
  /\ Count("stops")
  /\ StartSave(IF PersistentDue \/ NonPersistentDue THEN DueKind ELSE "main", "exit")

NoSave ==
  /\ At("decide")
  /\ ~PersistentDue /\ ~NonPersistentDue
  /\ Goto("top")
  /\ LoopUnchanged

\* After the loop: drained, then pretrain() saves once more.
FinalSave ==
  /\ At("final")
  /\ IF step # 0 THEN StartSave("main", "finish") /\ UNCHANGED counts
                 ELSE Goto("finish") /\ LoopUnchanged
------------------------------------------------------------------------------
(***************************************************************************)
(* save_checkpoint, cleanup_old_non_persistent_checkpoint.                 *)
(***************************************************************************)
\* rglob("iter_*"): the main directory contains the non-persistent one.
Candidates(kind) ==
  {d \in Dirs : data[d] # "absent" /\ (kind = "main" \/ d[1] = "np")}

KeepOldest(kind, n, rm) ==  \* mutated form of the next definition
  IF n = 0 THEN rm = {}
  ELSE /\ rm \subseteq Candidates(kind)
       /\ Cardinality(Candidates(kind) \ rm) =
            IF Cardinality(Candidates(kind)) < n THEN Cardinality(Candidates(kind)) ELSE n
       /\ \A d \in rm, e \in Candidates(kind) \ rm : d[2] >= e[2]

\* rm is [:-n] of the candidates sorted by step: nothing for n = 0.
Removed(kind, n, rm) ==
  IF n = 0 THEN rm = {}
  ELSE /\ rm \subseteq Candidates(kind)
       /\ Cardinality(Candidates(kind) \ rm) =
            IF Cardinality(Candidates(kind)) < n THEN Cardinality(Candidates(kind)) ELSE n
       /\ \A d \in rm, e \in Candidates(kind) \ rm : d[2] =< e[2]

Clean(kind, n, label) ==
  /\ \E rm \in SUBSET Dirs : Removed(kind, n, rm) /\ doomed' = doomed \cup rm
  /\ Goto(label)
  /\ UNCHANGED <<modelVars, saveVars, finVars, pending, cacheVars, diskVars, counts>>

\* Before a non-persistent save, all but one are removed.
CleanBefore == At("preclean") /\ Clean("np", 1, "preremove")

\* keep only last k checkpoints
CleanAfter == At("postclean") /\ MostRecentK > -1 /\ Clean(saving[1], MostRecentK, "postremove")
KeepAll == At("postclean") /\ MostRecentK = -1 /\ Goto(ret) /\ LoopUnchanged

\* Synchronous clean-up is over when all is removed, asynchronous at once.
CleanedBefore ==
  At("preremove") /\ (AsyncSave \/ doomed = {}) /\ Goto("begin") /\ LoopUnchanged
CleanedAfter ==
  At("postremove") /\ (AsyncSave \/ doomed = {}) /\ Goto(ret) /\ LoopUnchanged

\* shutil.rmtree, one directory after the other; background threads in any order.
RemoveOrder(d) == AsyncSave \/ \A e \in doomed : d[2] =< e[2]

BeginRemove(d) ==
  /\ d \in doomed /\ RemoveOrder(d)
  /\ data[d] = "full"
  /\ data' = [data EXCEPT ![d] = "torn"]
  /\ UNCHANGED <<pc, modelVars, saveVars, finVars, pending, doomed, cacheVars, meta, state,
                 config, tracker, legacy, counts>>

EndRemove(d) ==
  /\ d \in doomed /\ RemoveOrder(d)
  /\ data[d] # "full"
  /\ doomed' = doomed \ {d}
  /\ data' = [data EXCEPT ![d] = "absent"]
  /\ meta' = meta \ {d}
  /\ state' = [state EXCEPT ![d] = None]
  /\ config' = config \ {d}
  /\ UNCHANGED <<pc, modelVars, saveVars, finVars, pending, cacheVars, tracker, legacy, counts>>

\* The directory and common.pt; the shards are written here or by the worker.
BeginSyncSave ==
  /\ At("begin") /\ ~AsyncSave
  /\ data' = [data EXCEPT ![saving] = "torn"]
  /\ Goto("data")
  /\ UNCHANGED <<modelVars, saveVars, finVars, pending, doomed, cacheVars, meta, state, config,
                 tracker, legacy, counts>>

EndSyncSave ==
  /\ At("data")
  /\ data' = [data EXCEPT ![saving] = "full"]
  /\ fin' = saving /\ finRet' = "postclean"
  /\ Goto("metadata")
  /\ UNCHANGED <<modelVars, saveVars, pending, doomed, cacheVars, meta, state, config,
                 tracker, legacy, counts>>

ScheduleAsyncSave ==
  /\ At("begin") /\ AsyncSave
  /\ data' = [data EXCEPT ![saving] = IF @ = "absent" THEN "torn" ELSE @]
  /\ pending' = Append(pending, [dir |-> saving, stage |-> "queued"])
  /\ Goto("postclean")
  /\ UNCHANGED <<modelVars, saveVars, finVars, doomed, cacheVars, meta, state, config,
                 tracker, legacy, counts>>
------------------------------------------------------------------------------
(***************************************************************************)
(* The worker writes the requests in order.                                *)
(***************************************************************************)
NextRequest(i) ==
  /\ i \in 1 .. Len(pending)
  /\ pending[i].stage \in {"queued", "writing"}
  /\ \A j \in 1 .. i - 1 : pending[j].stage \notin {"queued", "writing"}

Stage(i, stage) == pending' = [pending EXCEPT ![i].stage = stage]

WorkerBegin(i) ==
  /\ NextRequest(i) /\ pending[i].stage = "queued"
  /\ IF data[pending[i].dir] = "absent"  \* removed meanwhile: open() raises
       THEN Stage(i, "failed") /\ UNCHANGED data
       ELSE Stage(i, "writing") /\ data' = [data EXCEPT ![pending[i].dir] = "torn"]
  /\ UNCHANGED <<pc, modelVars, saveVars, finVars, doomed, cacheVars, meta, state, config,
                 tracker, legacy, counts>>

WorkerEnd(i) ==
  /\ NextRequest(i) /\ pending[i].stage = "writing"
  /\ Stage(i, "written")
  /\ data' = [data EXCEPT ![pending[i].dir] = IF @ = "absent" THEN @ ELSE "full"]
  /\ UNCHANGED <<pc, modelVars, saveVars, finVars, doomed, cacheVars, meta, state, config,
                 tracker, legacy, counts>>

Polling == pc \in {"poll", "exit", "end", "finish"}
Polled(request) == request.stage # "queued"  \* mutated form of the next definition
Completed(request) == request.stage = "written"

\* The head of the queue is complete on all ranks: finalize it.
FinalizeHead ==
  /\ Polling /\ pending # <<>>
  /\ Completed(Head(pending))
  /\ pending' = Tail(pending)
  /\ fin' = Head(pending).dir /\ finRet' = pc
  /\ Goto("metadata")
  /\ UNCHANGED <<modelVars, saveVars, doomed, cacheVars, diskVars, counts>>

\* CheckpointException on all ranks.
HeadFailed ==
  /\ Polling /\ pending # <<>>
  /\ Head(pending).stage = "failed"
  /\ Goto("failed")
  /\ LoopUnchanged

\* maybe_finalize_async_save(blocking=True, terminate=True) is over.
Drained ==
  /\ pc \in {"exit", "end", "finish"}
  /\ pending = <<>>
  /\ Goto(CASE pc = "exit" -> "exited" [] pc = "end" -> "final" [] pc = "finish" -> "done")
  /\ LoopUnchanged
------------------------------------------------------------------------------
(***************************************************************************)
(* The finalize functions, in the order of their registration.             *)
(***************************************************************************)
Finalizing(label) == At(label) /\ data[fin] # "absent"
FinUnchanged == UNCHANGED <<modelVars, saveVars, finVars, pending, doomed, cacheVars, data, counts>>

WriteMetadata ==
  /\ Finalizing("metadata")
  /\ meta' = meta \cup {fin}
  /\ Goto("state")
  /\ FinUnchanged /\ UNCHANGED <<state, config, tracker, legacy>>

\* torch.save of the TrainState captured by save_checkpoint
OpenTrainState ==
  /\ Finalizing("state")
  /\ state' = [state EXCEPT ![fin] = Torn]
  /\ Goto("copy")
  /\ FinUnchanged /\ UNCHANGED <<meta, config, tracker, legacy>>

CopyLiveTrainState ==  \* mutated form of the next definition
  /\ Finalizing("copy")
  /\ state' = [state EXCEPT ![fin] = step]
  /\ tracker' = [tracker EXCEPT ![fin[1]] = Torn]
  /\ Goto("tracker")
  /\ FinUnchanged /\ UNCHANGED <<meta, config, legacy>>

\* ... complete; shutil.copy truncates latest_train_state.pt
CopyTrainState ==
  /\ Finalizing("copy")
  /\ state' = [state EXCEPT ![fin] = fin[2]]
  /\ tracker' = [tracker EXCEPT ![fin[1]] = Torn]
  /\ Goto("tracker")
  /\ FinUnchanged /\ UNCHANGED <<meta, config, legacy>>

CompleteTracker ==
  /\ At("tracker")
  /\ tracker' = [tracker EXCEPT ![fin[1]] = fin[2]]
  /\ Goto("legacy")
  /\ FinUnchanged /\ UNCHANGED <<meta, state, config, legacy>>

\* The text file takes the step train_state has now.
WriteLegacyTracker ==
  /\ At("legacy")
  /\ legacy' = [legacy EXCEPT ![fin[1]] = step]
  /\ Goto("config")
  /\ FinUnchanged /\ UNCHANGED <<meta, state, config, tracker>>

WriteRunConfig ==
  /\ Finalizing("config")
  /\ config' = config \cup {fin}
  /\ Goto(finRet)
  /\ FinUnchanged /\ UNCHANGED <<meta, state, tracker, legacy>>

\* The directory is gone: open() raises in the finalize function.
FinalizeRaises ==
  /\ pc \in {"metadata", "state", "copy", "config"}
  /\ data[fin] = "absent"
  /\ Goto("failed")
  /\ LoopUnchanged
------------------------------------------------------------------------------
(***************************************************************************)
(* The end of a process and the next one.                                  *)
(***************************************************************************)
Running == pc \notin {"load", "exited", "failed", "stuck", "done"}

Relaunched ==
  /\ Goto("load")
  /\ pending' = <<>> /\ doomed' = {}
  /\ UNCHANGED <<modelVars, saveVars, finVars, diskVars>>

Crash ==
  /\ Running
  /\ counts.crashes < setup.crashes
  /\ Count("crashes")
  /\ Relaunched /\ FreshCaches /\ alias' = <<>> /\ UNCHANGED warm

\* reset_for_restart and destroy_global_state: the caches outlive the restart.
InProcessRestart ==
  /\ Running /\ ~AsyncSave
  /\ counts.restarts < setup.restarts
  /\ Count("restarts")
  /\ Relaunched /\ alias' = <<>> /\ UNCHANGED <<trackerCache, stateCache>>
  /\ warm' = (warm \/ ~ColdCaches)

\* The launcher starts the job again after an exit or an exception.
Relaunch ==
  /\ pc \in {"exited", "failed"}
  /\ Relaunched /\ FreshCaches /\ alias' = <<>> /\ UNCHANGED <<warm, counts>>

Terminating == pc \in {"stuck", "done"} /\ UNCHANGED vars

Job ==
  \/ LoadNothing \/ LoadCheckpoint \/ LoadFails
  \/ LoopTest \/ PollDone \/ Ramp \/ TrainStep
  \/ RegularSave \/ NoSave \/ FinalSave
  \/ CleanBefore \/ CleanAfter \/ KeepAll \/ CleanedBefore \/ CleanedAfter
  \/ BeginSyncSave \/ EndSyncSave \/ ScheduleAsyncSave
  \/ FinalizeHead \/ HeadFailed \/ Drained
  \/ WriteMetadata \/ OpenTrainState \/ CopyTrainState \/ CompleteTracker
  \/ WriteLegacyTracker \/ WriteRunConfig \/ FinalizeRaises
  \/ Relaunch

Worker == \E i \in 1 .. Len(pending) : WorkerBegin(i) \/ WorkerEnd(i)
Remover == \E d \in Dirs : BeginRemove(d) \/ EndRemove(d)

Next ==
  /\ \/ Job \/ Worker \/ Remover
     \/ RerunExit \/ SignalExit \/ DurationExit
     \/ Crash \/ InProcessRestart
     \/ Terminating
  /\ UNCHANGED setup

Spec == Init /\ [][Next]_vars

\* The trainer, its worker and its clean-up threads keep running.
Fairness ==
  /\ WF_vars(Job /\ UNCHANGED setup)
  /\ WF_vars(Worker /\ UNCHANGED setup)
  /\ WF_vars(Remover /\ UNCHANGED setup)

FairSpec == Spec /\ Fairness
------------------------------------------------------------------------------
(***************************************************************************)
(* Properties.                                                             *)
(***************************************************************************)
Complete(d) == data[d] = "full" /\ d \in meta /\ state[d] = d[2]

\* The checkpoint a new process would load: what is on disk, without a cache.
ResumePoint ==
  IF Torn \in {tracker["main"], tracker["np"]} THEN <<>>
  ELSE Newer(IF NonPersistentInterval = 0 THEN None ELSE tracker["np"],
             IF tracker["main"] # None THEN tracker["main"] ELSE legacy["main"])

\* A save into directory d is under way.
Rewriting(d) ==
  \/ pc = "data" /\ saving = d
  \/ pc \in {"metadata", "state", "copy"} /\ fin = d
  \/ \E i \in 1 .. Len(pending) : pending[i].dir = d

\* The checkpoint a restart would load is complete from the moment it is
\* published (finalize functions of save_checkpoint), and nothing makes it
\* incomplete again, whatever clean-ups, crashes and later saves run, except a
\* save of the same step into the same directory.
ResumePointStaysComplete ==
  [][ \/ ResumePoint' \notin Dirs
      \/ Complete(ResumePoint)'
      \/ Rewriting(ResumePoint)'
      \/ ResumePoint = ResumePoint' /\ ~Complete(ResumePoint) ]_vars

\* "keep only last k checkpoints" (save_checkpoint): the clean-up never chooses
\* the checkpoint to restart from.
RestartPointKept == ResumePoint \notin doomed

\* A job never resumes with counters that disagree with its weights, whatever
\* crashes, exits and partial checkpoints came before, and after a restart in place
\* of a process that had loaded no checkpoint yet.  A process that had loaded one
\* keeps what read_train_state cached, and RestartsLoadTheLatest fails.
CountersMatchWeights == pc # "load" /\ ~warm => step = weights

\* "By default, Megatron Bridge loads the latest checkpoint available in the
\* specified directory by reading from the tracker file" (docs/training/checkpointing.md),
\* its weights and its counters, also in a process that is restarted in place
\* (load_checkpoint).  The code does not do that for the second of two restarts in
\* place (TwiceRestartedJob): read_train_state returns what it has cached.
RestartsLoadTheLatest ==
  [][ pc = "load" /\ pc' = "top" /\ CheckpointExists =>
        weights' = ResumePoint[2] /\ step' = ResumePoint[2] ]_vars

\* A job that exits on purpose, or ends, has made its last step durable: the
\* next one loads it and loses no work (checkpoint_and_decide_exit, pretrain).
ExitIsDurable ==
  pc \in {"exited", "done"} =>
    CheckpointExists /\ ResumePoint = <<ResumePoint[1], step>> /\ Loadable(ResumePoint)

\* Training comes to its end, whatever exits interrupt it, unless the job crashes
\* or is restarted.
TrainingEnds == <>(pc = "done" \/ counts.crashes > 0 \/ counts.restarts > 0)

\* A restart finds a checkpoint it can load, or none at all: the framework "loads
\* the latest checkpoint available" (docs/training/checkpointing.md).
ResumeNeverFails == pc # "stuck"

\* The step the job would resume from.  From the moment a tracker is being
\* replaced it is the new one.
Published ==
  LET Of(k) == IF tracker[k] = Torn THEN fin[2] ELSE tracker[k]
      np == IF NonPersistentInterval = 0 THEN None ELSE Of("np")
  IN  CHOOSE m \in {0, np, Of("main")} : \A n \in {0, np, Of("main")} : m >= n

Promise == INSTANCE DurableTraining WITH
  current <- IF Running THEN step ELSE Published,
  durable <- Published

\* The loop, the saves, the finalizations and the restarts together keep the
\* promise of DurableTraining: no published step is given up, and a restarted
\* job goes on exactly from the last one.
ImplementsDurableTraining == Promise!Spec
=============================================================================

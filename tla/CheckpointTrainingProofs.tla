----------------------- MODULE CheckpointTrainingProofs -----------------------
(***************************************************************************)
(* What CheckpointTraining guarantees for every number of iterations and   *)
(* every set of configurations: the counters that a job resumes with, what *)
(* is on disk when it stops, and the promise of DurableTraining.           *)
(***************************************************************************)
EXTENDS CheckpointTraining, FiniteSetTheorems, TLAPS

SavePcs == {"preclean", "preremove", "begin", "data", "postclean", "postremove"}
FinPcs  == {"metadata", "state", "copy", "tracker", "legacy", "config"}

\* Where the loop goes on when the save and the finalization in progress are over.
After ==
    IF pc \in FinPcs /\ finRet # "postclean" THEN finRet
    ELSE IF pc \in SavePcs \cup FinPcs THEN ret ELSE pc

\* The loop is left when all iterations are done.
InLoop ==
    /\ ret \in {"top", "train", "exit", "finish"}
    /\ finRet \in {"top", "postclean", "poll", "exit", "end", "finish"}
    /\ After \in {"poll", "ramp", "train"} => step < TrainIters
    /\ After \in {"end", "final", "finish", "done"} => step = TrainIters

\* What files and caches say of the step of a checkpoint.  The cached TrainState
\* of the checkpoint that was loaded counts on with the training.
Counters ==
    /\ \A d \in Dirs : state[d] \in {None, Torn, d[2]}
    /\ \A d \in Dirs : stateCache[d] # None => d[2] <= stateCache[d]
    /\ alias # <<>> => stateCache[alias] = step
    /\ weights <= step
    /\ counts.restarts = 0 => ~warm
    /\ ~warm =>
          /\ weights = step
          /\ pc = "load" => \A d \in Dirs : stateCache[d] = None
          /\ pc = "load" => \A k \in Kinds : trackerCache[k] = None

Basic == TypeOK /\ InLoop /\ Counters

USE DEF At, Goto, LoopUnchanged, FinUnchanged, modelVars, saveVars, finVars, cacheVars, diskVars

LEMMA StepsType == ASSUME NEW s PROVE s \in Steps <=> s \in Nat /\ s <= TrainIters
BY TrainItersAssumption DEF Steps

LEMMA DirsType == ASSUME NEW d \in Dirs PROVE d[1] \in Kinds /\ d[2] \in Steps /\ d = <<d[1], d[2]>>
BY DEF Dirs

\* The counters of failures that a Counts record holds.
LEMMA CountType ==
    ASSUME TypeOK, setup' = setup, NEW what \in {"crashes", "restarts", "stops", "reruns"},
           Count(what), counts[what] < setup[what]
    PROVE  /\ counts' \in [crashes : 0 .. setup'.crashes, restarts : 0 .. setup'.restarts,
                           stops : 0 .. setup'.stops, reruns : 0 .. setup'.reruns]
           /\ what # "restarts" => counts'.restarts = counts.restarts
           /\ what = "restarts" => counts'.restarts # 0
           /\ what = "crashes" => counts'.crashes = counts.crashes + 1 /\ counts'.crashes > 0
           /\ what # "crashes" => counts'.crashes = counts.crashes
<1>1. setup \in SetupType
    BY SetupsAssumption DEF TypeOK
<1>2. /\ counts \in [crashes : 0 .. setup.crashes, restarts : 0 .. setup.restarts,
                     stops : 0 .. setup.stops, reruns : 0 .. setup.reruns]
      /\ setup.crashes \in Nat /\ setup.restarts \in Nat /\ setup.stops \in Nat
      /\ setup.reruns \in Nat
    BY <1>1 DEF TypeOK, SetupType
<1>. DEFINE n == counts[what] + 1
<1>3. counts' = [counts EXCEPT ![what] = n] /\ n \in 0 .. setup[what] /\ n # 0 /\ n > 0
    BY <1>2 DEF Count
<1>. HIDE DEF n
<1>4. CASE what = "crashes"
  <2>1. n = counts.crashes + 1
    BY <1>4 DEF n
  <2>. QED  BY <1>2, <1>3, <1>4, <2>1
<1>5. CASE what = "restarts"
    BY <1>2, <1>3, <1>5
<1>6. CASE what = "stops"
    BY <1>2, <1>3, <1>6
<1>7. CASE what = "reruns"
    BY <1>2, <1>3, <1>7
<1>. QED  BY <1>4, <1>5, <1>6, <1>7

\* The request at the head and the others.
LEMMA HeadType ==
    ASSUME TypeOK, pending # <<>>
    PROVE  /\ Head(pending) \in [dir : Dirs, stage : Stages]
           /\ Tail(pending) \in Seq([dir : Dirs, stage : Stages])
           /\ Len(Tail(pending)) = Len(pending) - 1
           /\ \A i \in 1 .. Len(pending) - 1 : Tail(pending)[i] = pending[i + 1]
           /\ Head(pending) = pending[1] /\ 1 \in 1 .. Len(pending)
<1>. DEFINE R == [dir : Dirs, stage : Stages]
<1>1. pending \in Seq(R)
    BY DEF TypeOK
<1>. HIDE DEF R
<1>2. /\ Head(pending) \in R /\ Tail(pending) \in Seq(R)
      /\ Len(Tail(pending)) = Len(pending) - 1
      /\ \A i \in 1 .. Len(pending) - 1 : Tail(pending)[i] = pending[i + 1]
      /\ Head(pending) = pending[1] /\ 1 \in 1 .. Len(pending)
    BY <1>1
<1>. QED  BY <1>2 DEF R

\* The checkpoint that is chosen exists, and read_train_state returns its step.
LEMMA ChosenType ==
    ASSUME TypeOK, CheckpointExists, TrackersReadable, Loadable(ChosenCheckpoint)
    PROVE  /\ ChosenCheckpoint \in Dirs
           /\ ReadState(ChosenCheckpoint) \in Steps
           /\ \A k \in Kinds : k = "main" \/ NonPersistentInterval # 0 =>
                 ReadTracker(k) \in {None} \cup Steps
<1>1. /\ \A k \in Kinds : tracker[k] \in Files /\ trackerCache[k] \in {None} \cup Steps
      /\ \A k \in Kinds : legacy[k] \in Files
      /\ "main" \in Kinds /\ "np" \in Kinds
    BY DEF TypeOK, Kinds
<1>2. \A k \in Kinds : /\ ReadTracker(k) \in Files
                       /\ tracker[k] # None => ReadTracker(k) # None
    BY <1>1 DEF ReadTracker, Files
<1>3. Iteration \in Steps /\ NonPersistentIteration \in {None} \cup Steps
    BY <1>1, <1>2 DEF Iteration, NonPersistentIteration, CheckpointExists, TrackersReadable, Files
<1>4. ChosenCheckpoint \in Dirs
    BY <1>1, <1>3 DEF ChosenCheckpoint, Newer, Dirs
<1>5. ReadState(ChosenCheckpoint) \in Steps
    BY <1>4 DEF ReadState, Loadable, TypeOK, Files
<1>6. ASSUME NEW k \in Kinds, k = "main" \/ NonPersistentInterval # 0
      PROVE  ReadTracker(k) \in {None} \cup Steps
    BY <1>2, <1>6, <1>1 DEF Iteration, NonPersistentIteration, TrackersReadable, Files, Kinds,
                       ReadTracker
<1>. QED  BY <1>4, <1>5, <1>6

\* The async requests keep their type when one of them gets on.
LEMMA StageType ==
    ASSUME TypeOK, NEW i \in 1 .. Len(pending), NEW stage \in Stages, Stage(i, stage)
    PROVE  /\ pending' \in Seq([dir : Dirs, stage : Stages]) /\ Len(pending') = Len(pending)
           /\ pending[i] \in [dir : Dirs, stage : Stages]
           /\ \A j \in 1 .. Len(pending) : pending'[j].dir = pending[j].dir
           /\ pending'[i].stage = stage
           /\ \A j \in 1 .. Len(pending) \ {i} : pending'[j] = pending[j]
<1>. DEFINE R == [dir : Dirs, stage : Stages]
            x == [pending[i] EXCEPT !.stage = stage]
<1>. HIDE DEF R
<1>1. pending \in Seq(R) /\ pending[i] \in R
  <2>1. pending \in Seq(R)
    BY DEF TypeOK, R
  <2>. QED  BY <2>1
<1>2. pending' = [pending EXCEPT ![i] = x]
    BY <1>1 DEF Stage
<1>3. x \in R /\ x.dir = pending[i].dir /\ x.stage = stage
    BY <1>1 DEF R
<1>. HIDE DEF x
<1>4. pending' \in Seq(R) /\ Len(pending') = Len(pending)
    BY <1>1, <1>2, <1>3
<1>5. pending'[i] = x /\ \A j \in 1 .. Len(pending) \ {i} : pending'[j] = pending[j]
    BY <1>1, <1>2
<1>. QED  BY <1>1, <1>3, <1>4, <1>5 DEF R
LEMMA BasicInit == Init => Basic
<1>. SUFFICES ASSUME Init PROVE Basic
    OBVIOUS
<1>1. NoDir \in Dirs /\ 0 \in Steps /\ setup \in SetupType
    BY TrainItersAssumption, SetupsAssumption DEF Init, NoDir, Dirs, Kinds, Steps
<1>2. counts \in [crashes : 0 .. setup.crashes, restarts : 0 .. setup.restarts,
                  stops : 0 .. setup.stops, reruns : 0 .. setup.reruns]
    BY <1>1 DEF Init, SetupType
<1>3. TypeOK
  <2>1. warm \in BOOLEAN
    BY Zenon DEF Init
  <2>. QED  BY <1>1, <1>2, <2>1 DEF Init, TypeOK, Files
<1>4. InLoop
    BY DEF Init, InLoop, After, SavePcs, FinPcs
<1>5. Counters
  <2>1. ~warm
    BY Zenon DEF Init
  <2>. QED  BY <2>1 DEF Init, Counters
<1>. QED  BY <1>3, <1>4, <1>5 DEF Basic

LEMMA TypeNext ==
    ASSUME TypeOK, InLoop, Counters, Next PROVE TypeOK'
<1>. setup' = setup
    BY DEF Next
<1>1. CASE LoadNothing
    <2>1. 0 \in Steps
        BY TrainItersAssumption DEF Steps
    <2>. QED  BY <1>1, <2>1 DEF LoadNothing, TypeOK
<1>2. CASE LoadCheckpoint
    <2>. DEFINE d == ChosenCheckpoint
    <2>1. d \in Dirs /\ ReadState(d) \in Steps /\ d[2] \in Steps
        BY <1>2, ChosenType, DirsType DEF LoadCheckpoint
    <2>2. /\ step' = ReadState(d) /\ start' = ReadState(d) /\ weights' = d[2]
          /\ stateCache' = [stateCache EXCEPT ![d] = ReadState(d)] /\ alias' = d
          /\ pc' = "top"
        BY <1>2 DEF LoadCheckpoint
    <2>. HIDE DEF d
    <2>3. trackerCache' \in [Kinds -> {None} \cup Steps]
        BY <1>2, ChosenType DEF LoadCheckpoint, TypeOK
    <2>. QED  BY <1>2, <2>1, <2>2, <2>3 DEF LoadCheckpoint, TypeOK
<1>3. CASE LoadFails
    BY <1>3
       DEF LoadFails, TypeOK, Dirs, Kinds, Files, Stages
<1>4. CASE LoopTest
    BY <1>4
       DEF LoopTest, TypeOK, Dirs, Kinds, Files, Stages
<1>5. CASE PollDone
    BY <1>5
       DEF PollDone, TypeOK, Dirs, Kinds, Files, Stages
<1>6. CASE Ramp
    BY <1>6
       DEF Ramp, StartSave, TypeOK, Dirs, Kinds, Files, Stages
<1>7. CASE TrainStep
    <2>1. step + 1 \in Steps /\ weights + 1 \in Steps
      <3>1. step < TrainIters /\ step \in Steps /\ weights \in Steps /\ weights <= step
        BY <1>7 DEF TrainStep, TypeOK, InLoop, After, SavePcs, FinPcs, Counters
      <3>. QED  BY <3>1, TrainItersAssumption DEF Steps
    <2>2. alias # <<>> => alias \in Dirs
        BY DEF TypeOK
    <2>. QED  BY <1>7, <2>1, <2>2 DEF TrainStep, TypeOK
<1>8. CASE RegularSave
    BY <1>8
       DEF RegularSave, StartSave, DueKind, TypeOK, Dirs, Kinds, Files, Stages
<1>9. CASE NoSave
    BY <1>9
       DEF NoSave, TypeOK, Dirs, Kinds, Files, Stages
<1>10. CASE FinalSave
    BY <1>10
       DEF FinalSave, StartSave, TypeOK, Dirs, Kinds, Files, Stages
<1>11. CASE CleanBefore
    BY <1>11
       DEF CleanBefore, Clean, TypeOK, Dirs, Kinds, Files, Stages
<1>12. CASE CleanAfter
    BY <1>12
       DEF CleanAfter, Clean, TypeOK, Dirs, Kinds, Files, Stages
<1>13. CASE KeepAll
    BY <1>13
       DEF KeepAll, TypeOK, Dirs, Kinds, Files, Stages, InLoop
<1>14. CASE CleanedBefore
    BY <1>14
       DEF CleanedBefore, TypeOK, Dirs, Kinds, Files, Stages
<1>15. CASE CleanedAfter
    BY <1>15
       DEF CleanedAfter, TypeOK, Dirs, Kinds, Files, Stages, InLoop
<1>16. CASE BeginSyncSave
    BY <1>16
       DEF BeginSyncSave, TypeOK, Dirs, Kinds, Files, Stages
<1>17. CASE EndSyncSave
    BY <1>17
       DEF EndSyncSave, TypeOK, Dirs, Kinds, Files, Stages
<1>18. CASE ScheduleAsyncSave
    BY <1>18
       DEF ScheduleAsyncSave, TypeOK, Dirs, Kinds, Files, Stages
<1>19. CASE FinalizeHead
    BY <1>19, HeadType
       DEF FinalizeHead, TypeOK, Dirs, Kinds, Files, Stages
<1>20. CASE HeadFailed
    BY <1>20
       DEF HeadFailed, TypeOK, Dirs, Kinds, Files, Stages
<1>21. CASE Drained
    BY <1>21
       DEF Drained, TypeOK, Dirs, Kinds, Files, Stages
<1>22. CASE WriteMetadata
    BY <1>22
       DEF WriteMetadata, Finalizing, TypeOK, Dirs, Kinds, Files, Stages
<1>23. CASE OpenTrainState
    BY <1>23
       DEF OpenTrainState, Finalizing, TypeOK, Dirs, Kinds, Files, Stages
<1>24. CASE CopyTrainState
    BY <1>24
       DEF CopyTrainState, Finalizing, TypeOK, Dirs, Kinds, Files, Stages
<1>25. CASE CompleteTracker
    BY <1>25
       DEF CompleteTracker, TypeOK, Dirs, Kinds, Files, Stages
<1>26. CASE WriteLegacyTracker
    BY <1>26
       DEF WriteLegacyTracker, TypeOK, Dirs, Kinds, Files, Stages
<1>27. CASE WriteRunConfig
    BY <1>27
       DEF WriteRunConfig, Finalizing, TypeOK, Dirs, Kinds, Files, Stages, InLoop
<1>28. CASE FinalizeRaises
    BY <1>28
       DEF FinalizeRaises, TypeOK, Dirs, Kinds, Files, Stages
<1>29. CASE Relaunch
    BY <1>29
       DEF Relaunch, Relaunched, FreshCaches, TypeOK, Dirs, Kinds, Files, Stages
<1>30. ASSUME NEW i \in 1 .. Len(pending), WorkerBegin(i) PROVE TypeOK'
    BY <1>30, StageType
       DEF WorkerBegin, TypeOK, Dirs, Kinds, Files, Stages
<1>31. ASSUME NEW i \in 1 .. Len(pending), WorkerEnd(i) PROVE TypeOK'
    BY <1>31, StageType
       DEF WorkerEnd, TypeOK, Dirs, Kinds, Files, Stages
<1>32. ASSUME NEW d \in Dirs, BeginRemove(d) PROVE TypeOK'
    BY <1>32
       DEF BeginRemove, TypeOK, Dirs, Kinds, Files, Stages
<1>33. ASSUME NEW d \in Dirs, EndRemove(d) PROVE TypeOK'
    BY <1>33
       DEF EndRemove, TypeOK, Dirs, Kinds, Files, Stages
<1>34. CASE RerunExit
    BY <1>34, CountType
       DEF RerunExit, StartSave, TypeOK, Dirs, Kinds, Files, Stages
<1>35. CASE SignalExit
    BY <1>35, CountType
       DEF SignalExit, StartSave, TypeOK, Dirs, Kinds, Files, Stages
<1>36. CASE DurationExit
    BY <1>36, CountType
       DEF DurationExit, StartSave, DueKind, TypeOK, Dirs, Kinds, Files, Stages
<1>37. CASE Crash
    BY <1>37, CountType
       DEF Crash, Relaunched, FreshCaches, TypeOK, Dirs, Kinds, Files, Stages
<1>38. CASE InProcessRestart
    BY <1>38, CountType
       DEF InProcessRestart, Relaunched, TypeOK, Dirs, Kinds, Files, Stages
<1>39. CASE Terminating
    BY <1>39
       DEF Terminating, vars, TypeOK, Dirs, Kinds, Files, Stages
<1>. QED
    BY <1>1, <1>2, <1>3, <1>4, <1>5, <1>6, <1>7, <1>8, <1>9, <1>10, <1>11, <1>12, <1>13, <1>14, <1>15, <1>16, <1>17, <1>18, <1>19, <1>20, <1>21, <1>22, <1>23, <1>24, <1>25, <1>26, <1>27, <1>28, <1>29, <1>30, <1>31, <1>32, <1>33, <1>34, <1>35, <1>36, <1>37, <1>38, <1>39
       DEF Next, Job, Worker, Remover

LEMMA LoopNext ==
    ASSUME TypeOK, InLoop, Next PROVE InLoop'
<1>1. CASE LoadNothing
    BY <1>1
       DEF LoadNothing, InLoop, After, SavePcs, FinPcs, TypeOK
<1>2. CASE LoadCheckpoint
    BY <1>2
       DEF LoadCheckpoint, InLoop, After, SavePcs, FinPcs, TypeOK
<1>3. CASE LoadFails
    BY <1>3
       DEF LoadFails, InLoop, After, SavePcs, FinPcs, TypeOK
<1>4. CASE LoopTest
    <2>1. ~IterationsLeft => step = TrainIters
        BY TrainItersAssumption DEF IterationsLeft, Steps, TypeOK
    <2>2. CASE IterationsLeft
        BY <1>4, <2>2 DEF LoopTest, InLoop, After, SavePcs, FinPcs, IterationsLeft
    <2>3. CASE ~IterationsLeft
        BY <1>4, <2>1, <2>3 DEF LoopTest, InLoop, After, SavePcs, FinPcs
    <2>. QED  BY <2>2, <2>3
<1>5. CASE PollDone
    BY <1>5
       DEF PollDone, InLoop, After, SavePcs, FinPcs, TypeOK
<1>6. CASE Ramp
    BY <1>6
       DEF Ramp, StartSave, InLoop, After, SavePcs, FinPcs, TypeOK
<1>7. CASE TrainStep
    BY <1>7, StepsType
       DEF TrainStep, InLoop, After, SavePcs, FinPcs, TypeOK
<1>8. CASE RegularSave
    BY <1>8
       DEF RegularSave, StartSave, DueKind, InLoop, After, SavePcs, FinPcs, TypeOK
<1>9. CASE NoSave
    BY <1>9
       DEF NoSave, InLoop, After, SavePcs, FinPcs, TypeOK
<1>10. CASE FinalSave
    BY <1>10
       DEF FinalSave, StartSave, InLoop, After, SavePcs, FinPcs, TypeOK
<1>11. CASE CleanBefore
    BY <1>11
       DEF CleanBefore, Clean, InLoop, After, SavePcs, FinPcs, TypeOK
<1>12. CASE CleanAfter
    BY <1>12
       DEF CleanAfter, Clean, InLoop, After, SavePcs, FinPcs, TypeOK
<1>13. CASE KeepAll
    BY <1>13
       DEF KeepAll, InLoop, After, SavePcs, FinPcs, TypeOK
<1>14. CASE CleanedBefore
    BY <1>14
       DEF CleanedBefore, InLoop, After, SavePcs, FinPcs, TypeOK
<1>15. CASE CleanedAfter
    BY <1>15
       DEF CleanedAfter, InLoop, After, SavePcs, FinPcs, TypeOK
<1>16. CASE BeginSyncSave
    BY <1>16
       DEF BeginSyncSave, InLoop, After, SavePcs, FinPcs, TypeOK
<1>17. CASE EndSyncSave
    BY <1>17
       DEF EndSyncSave, InLoop, After, SavePcs, FinPcs, TypeOK
<1>18. CASE ScheduleAsyncSave
    BY <1>18
       DEF ScheduleAsyncSave, InLoop, After, SavePcs, FinPcs, TypeOK
<1>19. CASE FinalizeHead
    BY <1>19, HeadType
       DEF FinalizeHead, InLoop, After, SavePcs, FinPcs, TypeOK, Polling
<1>20. CASE HeadFailed
    BY <1>20
       DEF HeadFailed, InLoop, After, SavePcs, FinPcs, TypeOK
<1>21. CASE Drained
    BY <1>21
       DEF Drained, InLoop, After, SavePcs, FinPcs, TypeOK
<1>22. CASE WriteMetadata
    BY <1>22
       DEF WriteMetadata, Finalizing, InLoop, After, SavePcs, FinPcs, TypeOK
<1>23. CASE OpenTrainState
    BY <1>23
       DEF OpenTrainState, Finalizing, InLoop, After, SavePcs, FinPcs, TypeOK
<1>24. CASE CopyTrainState
    BY <1>24
       DEF CopyTrainState, Finalizing, InLoop, After, SavePcs, FinPcs, TypeOK
<1>25. CASE CompleteTracker
    BY <1>25
       DEF CompleteTracker, InLoop, After, SavePcs, FinPcs, TypeOK
<1>26. CASE WriteLegacyTracker
    BY <1>26
       DEF WriteLegacyTracker, InLoop, After, SavePcs, FinPcs, TypeOK
<1>27. CASE WriteRunConfig
    BY <1>27
       DEF WriteRunConfig, Finalizing, InLoop, After, SavePcs, FinPcs, TypeOK
<1>28. CASE FinalizeRaises
    BY <1>28
       DEF FinalizeRaises, InLoop, After, SavePcs, FinPcs, TypeOK
<1>29. CASE Relaunch
    BY <1>29
       DEF Relaunch, Relaunched, FreshCaches, InLoop, After, SavePcs, FinPcs, TypeOK
<1>30. ASSUME NEW i \in 1 .. Len(pending), WorkerBegin(i) PROVE InLoop'
    BY <1>30
       DEF WorkerBegin, InLoop, After, SavePcs, FinPcs, TypeOK
<1>31. ASSUME NEW i \in 1 .. Len(pending), WorkerEnd(i) PROVE InLoop'
    BY <1>31
       DEF WorkerEnd, InLoop, After, SavePcs, FinPcs, TypeOK
<1>32. ASSUME NEW d \in Dirs, BeginRemove(d) PROVE InLoop'
    BY <1>32
       DEF BeginRemove, InLoop, After, SavePcs, FinPcs, TypeOK
<1>33. ASSUME NEW d \in Dirs, EndRemove(d) PROVE InLoop'
    BY <1>33
       DEF EndRemove, InLoop, After, SavePcs, FinPcs, TypeOK
<1>34. CASE RerunExit
    BY <1>34
       DEF RerunExit, StartSave, InLoop, After, SavePcs, FinPcs, TypeOK
<1>35. CASE SignalExit
    BY <1>35
       DEF SignalExit, StartSave, InLoop, After, SavePcs, FinPcs, TypeOK
<1>36. CASE DurationExit
    BY <1>36
       DEF DurationExit, StartSave, DueKind, InLoop, After, SavePcs, FinPcs, TypeOK
<1>37. CASE Crash
    BY <1>37
       DEF Crash, Relaunched, FreshCaches, InLoop, After, SavePcs, FinPcs, TypeOK
<1>38. CASE InProcessRestart
    BY <1>38
       DEF InProcessRestart, Relaunched, InLoop, After, SavePcs, FinPcs, TypeOK
<1>39. CASE Terminating
    BY <1>39
       DEF Terminating, vars, InLoop, After, SavePcs, FinPcs, TypeOK
<1>. QED
    BY <1>1, <1>2, <1>3, <1>4, <1>5, <1>6, <1>7, <1>8, <1>9, <1>10, <1>11, <1>12, <1>13, <1>14, <1>15, <1>16, <1>17, <1>18, <1>19, <1>20, <1>21, <1>22, <1>23, <1>24, <1>25, <1>26, <1>27, <1>28, <1>29, <1>30, <1>31, <1>32, <1>33, <1>34, <1>35, <1>36, <1>37, <1>38, <1>39
       DEF Next, Job, Worker, Remover

LEMMA CountersNext ==
    ASSUME TypeOK, InLoop, Counters, Next PROVE Counters'
<1>. setup' = setup
    BY DEF Next
<1>1. CASE LoadNothing
    BY <1>1
       DEF LoadNothing, Counters, TypeOK, InLoop
<1>2. CASE LoadCheckpoint
    <2>. DEFINE d == ChosenCheckpoint
    <2>1. d \in Dirs /\ ReadState(d) \in Steps /\ d[2] \in Steps /\ state[d] \notin {None, Torn}
        BY <1>2, ChosenType, DirsType DEF LoadCheckpoint, Loadable
    <2>2. /\ step' = ReadState(d) /\ weights' = d[2]
          /\ stateCache' = [stateCache EXCEPT ![d] = ReadState(d)] /\ alias' = d
          /\ pc = "load" /\ pc' = "top" /\ state' = state /\ counts' = counts
          /\ warm' = warm
        BY <1>2 DEF LoadCheckpoint
    <2>. HIDE DEF d
    <2>3. d[2] <= ReadState(d) /\ (~warm => ReadState(d) = d[2])
        BY <2>1, <2>2, StepsType DEF Counters, ReadState
    <2>. QED  BY <2>1, <2>2, <2>3 DEF Counters, TypeOK
<1>3. CASE LoadFails
    BY <1>3
       DEF LoadFails, Counters, TypeOK, InLoop
<1>4. CASE LoopTest
    BY <1>4
       DEF LoopTest, Counters, TypeOK, InLoop
<1>5. CASE PollDone
    BY <1>5
       DEF PollDone, Counters, TypeOK, InLoop
<1>6. CASE Ramp
    BY <1>6
       DEF Ramp, StartSave, Counters, TypeOK, InLoop
<1>7. CASE TrainStep
    <2>1. /\ step' = step + 1 /\ weights' = weights + 1 /\ alias' = alias
          /\ stateCache' = IF alias = <<>> THEN stateCache ELSE [stateCache EXCEPT ![alias] = step + 1]
          /\ pc' = "decide" /\ state' = state /\ counts' = counts /\ warm' = warm
        BY <1>7 DEF TrainStep
    <2>2. /\ alias # <<>> => alias \in Dirs /\ alias[2] \in Nat /\ alias[2] <= step
          /\ step \in Nat /\ weights \in Nat
      <3>1. step \in Nat /\ weights \in Nat
        BY DEF TypeOK, Steps
      <3>2. ASSUME alias # <<>> PROVE alias \in Dirs /\ alias[2] \in Nat
        BY <3>2, DirsType, StepsType DEF TypeOK
      <3>3. ASSUME alias # <<>> PROVE alias[2] <= step
        BY <3>1, <3>2, <3>3 DEF Counters, None
      <3>. QED  BY <3>1, <3>2, <3>3
    <2>3. \A d \in Dirs : stateCache'[d] # None => d[2] <= stateCache'[d]
        BY <2>1, <2>2 DEF TypeOK, Counters
    <2>4. alias' # <<>> => stateCache'[alias'] = step'
        BY <2>1, <2>2 DEF TypeOK
    <2>. QED  BY <2>1, <2>2, <2>3, <2>4 DEF Counters
<1>8. CASE RegularSave
    BY <1>8
       DEF RegularSave, StartSave, DueKind, Counters, TypeOK, InLoop
<1>9. CASE NoSave
    BY <1>9
       DEF NoSave, Counters, TypeOK, InLoop
<1>10. CASE FinalSave
    BY <1>10
       DEF FinalSave, StartSave, Counters, TypeOK, InLoop
<1>11. CASE CleanBefore
    BY <1>11
       DEF CleanBefore, Clean, Counters, TypeOK, InLoop
<1>12. CASE CleanAfter
    BY <1>12
       DEF CleanAfter, Clean, Counters, TypeOK, InLoop
<1>13. CASE KeepAll
    BY <1>13
       DEF KeepAll, Counters, TypeOK, InLoop
<1>14. CASE CleanedBefore
    BY <1>14
       DEF CleanedBefore, Counters, TypeOK, InLoop
<1>15. CASE CleanedAfter
    BY <1>15
       DEF CleanedAfter, Counters, TypeOK, InLoop
<1>16. CASE BeginSyncSave
    BY <1>16
       DEF BeginSyncSave, Counters, TypeOK, InLoop
<1>17. CASE EndSyncSave
    BY <1>17
       DEF EndSyncSave, Counters, TypeOK, InLoop
<1>18. CASE ScheduleAsyncSave
    BY <1>18
       DEF ScheduleAsyncSave, Counters, TypeOK, InLoop
<1>19. CASE FinalizeHead
    BY <1>19
       DEF FinalizeHead, Counters, TypeOK, InLoop
<1>20. CASE HeadFailed
    BY <1>20
       DEF HeadFailed, Counters, TypeOK, InLoop
<1>21. CASE Drained
    BY <1>21
       DEF Drained, Counters, TypeOK, InLoop
<1>22. CASE WriteMetadata
    BY <1>22
       DEF WriteMetadata, Finalizing, Counters, TypeOK, InLoop
<1>23. CASE OpenTrainState
    BY <1>23
       DEF OpenTrainState, Finalizing, Counters, TypeOK, InLoop
<1>24. CASE CopyTrainState
    BY <1>24
       DEF CopyTrainState, Finalizing, Counters, TypeOK, InLoop
<1>25. CASE CompleteTracker
    BY <1>25
       DEF CompleteTracker, Counters, TypeOK, InLoop
<1>26. CASE WriteLegacyTracker
    BY <1>26
       DEF WriteLegacyTracker, Counters, TypeOK, InLoop
<1>27. CASE WriteRunConfig
    BY <1>27
       DEF WriteRunConfig, Finalizing, Counters, TypeOK, InLoop
<1>28. CASE FinalizeRaises
    BY <1>28
       DEF FinalizeRaises, Counters, TypeOK, InLoop
<1>29. CASE Relaunch
    BY <1>29
       DEF Relaunch, Relaunched, FreshCaches, Counters, TypeOK, InLoop
<1>30. ASSUME NEW i \in 1 .. Len(pending), WorkerBegin(i) PROVE Counters'
    BY <1>30
       DEF WorkerBegin, Counters, TypeOK, InLoop
<1>31. ASSUME NEW i \in 1 .. Len(pending), WorkerEnd(i) PROVE Counters'
    BY <1>31
       DEF WorkerEnd, Counters, TypeOK, InLoop
<1>32. ASSUME NEW d \in Dirs, BeginRemove(d) PROVE Counters'
    BY <1>32
       DEF BeginRemove, Counters, TypeOK, InLoop
<1>33. ASSUME NEW d \in Dirs, EndRemove(d) PROVE Counters'
    BY <1>33
       DEF EndRemove, Counters, TypeOK, InLoop
<1>34. CASE RerunExit
    BY <1>34, CountType
       DEF RerunExit, StartSave, Counters, TypeOK, InLoop
<1>35. CASE SignalExit
    BY <1>35, CountType
       DEF SignalExit, StartSave, Counters, TypeOK, InLoop
<1>36. CASE DurationExit
    BY <1>36, CountType
       DEF DurationExit, StartSave, DueKind, Counters, TypeOK, InLoop
<1>37. CASE Crash
    BY <1>37, CountType
       DEF Crash, Relaunched, FreshCaches, Counters, TypeOK, InLoop
<1>38. CASE InProcessRestart
  <2>1. ~warm' => ~warm /\ ColdCaches
    BY <1>38, Zenon DEF InProcessRestart
  <2>2. /\ counts'.restarts # 0 /\ alias' = <<>> /\ weights' = weights /\ step' = step
        /\ stateCache' = stateCache /\ trackerCache' = trackerCache /\ state' = state
    BY <1>38, CountType DEF InProcessRestart, Relaunched
  <2>. QED  BY <2>1, <2>2 DEF Counters, ColdCaches
<1>39. CASE Terminating
    BY <1>39
       DEF Terminating, vars, Counters, TypeOK, InLoop
<1>. QED
    BY <1>1, <1>2, <1>3, <1>4, <1>5, <1>6, <1>7, <1>8, <1>9, <1>10, <1>11, <1>12, <1>13, <1>14, <1>15, <1>16, <1>17, <1>18, <1>19, <1>20, <1>21, <1>22, <1>23, <1>24, <1>25, <1>26, <1>27, <1>28, <1>29, <1>30, <1>31, <1>32, <1>33, <1>34, <1>35, <1>36, <1>37, <1>38, <1>39
       DEF Next, Job, Worker, Remover

LEMMA BasicInvariant == Spec => []Basic
<1>1. ASSUME Basic, [Next]_vars PROVE Basic'
  <2>1. CASE Next
    BY <1>1, <2>1, TypeNext, LoopNext, CountersNext DEF Basic
  <2>2. CASE UNCHANGED vars
    BY <1>1, <2>2 DEF Basic, TypeOK, InLoop, After, Counters, vars
  <2>. QED  BY <1>1, <2>1, <2>2
<1>. QED  BY <1>1, BasicInit, PTL DEF Spec

\* Type correctness.  In particular the loop never passes train_iters.
THEOREM TypeCorrect == Spec => []TypeOK
BY BasicInvariant, PTL DEF Basic

\* A job never resumes with counters that disagree with its weights, until a
\* process that had loaded a checkpoint is restarted in place: then the cached
\* TrainState of that checkpoint may be that of a later step.  A restart in place
\* of a process that loaded nothing is harmless.
THEOREM CountersResumed == Spec => []CountersMatchWeights
<1>1. Basic => CountersMatchWeights
    BY DEF Basic, Counters, CountersMatchWeights
<1>. QED  BY <1>1, BasicInvariant, PTL
-----------------------------------------------------------------------------
(* The order of the saves, of jobs without non-persistent checkpoints and *)
(* without restarts inside the process.                                   *)

Plain(s) == s.np = 0 /\ s.restarts = 0

\* The step of the last checkpoint in the main directory.
Latest ==
    IF tracker["main"] = Torn THEN fin[2]
    ELSE IF tracker["main"] = None THEN 0 ELSE tracker["main"]

\* All checkpoints are in the main directory.
OneKind ==
    /\ saving[1] = "main" /\ fin[1] = "main"
    /\ \A i \in 1 .. Len(pending) : pending[i].dir[1] = "main"
    /\ tracker["np"] = None
    /\ pc \notin {"preclean", "preremove"}
    /\ legacy["main"] # None => tracker["main"] # None

\* The tracker follows the finalization.
Tracked ==
    /\ tracker["main"] = Torn => pc \in {"tracker", "load", "stuck"}
    /\ pc = "tracker" => tracker["main"] = Torn
    /\ pc \in {"legacy", "config"} => tracker["main"] = fin[2]
    /\ pc \in {"load", "stuck", "exited", "done"} => pending = <<>>
    /\ pc = "load" => counts.crashes > 0 \/ tracker["main"] # Torn

\* The saves under way are those of the step of the loop.
Current ==
    /\ pc \in SavePcs => saving[2] = step
    /\ pc \in FinPcs /\ finRet = "postclean" => saving[2] = step /\ fin = saving
    /\ AsyncSave => finRet # "postclean" /\ pc # "data"
    /\ ~AsyncSave => pending = <<>> /\ (pc \in FinPcs => finRet = "postclean")

\* Saves are published in the order of their steps.
InSequence ==
    /\ Running => Latest <= step
    /\ pc \in FinPcs => Latest <= fin[2] /\ fin[2] <= step
    /\ \A i \in 1 .. Len(pending) :
          /\ Latest <= pending[i].dir[2] /\ pending[i].dir[2] <= step
          /\ pc \in FinPcs => fin[2] <= pending[i].dir[2]
          /\ \A j \in i .. Len(pending) : pending[i].dir[2] <= pending[j].dir[2]

Ordered == OneKind /\ Tracked /\ Current /\ InSequence

LEMMA PlainJob ==
    ASSUME TypeOK, Plain(setup)
    PROVE  /\ ~NonPersistentDue
           /\ PersistentDue => DueKind = "main"
           /\ counts.restarts = 0 /\ setup.restarts = 0
           /\ ~InProcessRestart
           /\ NonPersistentInterval = 0
           /\ NonPersistentIteration = None
<1>1. setup.np = 0 /\ setup.restarts = 0 /\ counts.restarts \in 0 .. setup.restarts
    BY DEF TypeOK, Plain
<1>. QED  BY <1>1 DEF NonPersistentDue, NonPersistentInterval, DueKind, InProcessRestart,
                     NonPersistentIteration

\* The main directory, its tracker and the steps that are compared.
LEMMA MainType ==
    ASSUME TypeOK, OneKind
    PROVE  /\ "main" \in Kinds /\ "np" \in Kinds
           /\ fin[1] = "main" /\ saving[1] = "main"
           /\ tracker \in [Kinds -> Files] /\ legacy \in [Kinds -> Files]
           /\ step \in Nat /\ fin[2] \in Nat /\ saving[2] \in Nat /\ Latest \in Nat
           /\ \A i \in 1 .. Len(pending) : /\ pending[i].dir \in Dirs /\ pending[i].dir[2] \in Nat
                                            /\ pending[i].stage \in Stages
           /\ Len(pending) \in Nat
           /\ None \notin Nat /\ Torn \notin Nat /\ None # Torn
<1>1. "main" \in Kinds /\ "np" \in Kinds /\ None \notin Nat /\ Torn \notin Nat /\ None # Torn
    BY DEF Kinds, None, Torn
<1>2. /\ fin \in Dirs /\ saving \in Dirs /\ step \in Nat /\ Len(pending) \in Nat
      /\ tracker \in [Kinds -> Files] /\ legacy \in [Kinds -> Files]
    BY DEF TypeOK, Steps
<1>3. \A i \in 1 .. Len(pending) : pending[i].dir \in Dirs /\ pending[i].stage \in Stages
  <2>. DEFINE R == [dir : Dirs, stage : Stages]
  <2>1. \A r \in R : r.dir \in Dirs /\ r.stage \in Stages
    OBVIOUS
  <2>2. pending \in Seq(R)
    BY DEF TypeOK
  <2>. HIDE DEF R
  <2>. QED  BY <2>1, <2>2
<1>4. \A d \in Dirs : d[2] \in Nat
    BY DirsType DEF Steps
<1>5. Latest \in Nat
    BY <1>1, <1>2, <1>4 DEF Latest, Files, Steps
<1>. QED  BY <1>1, <1>2, <1>3, <1>4, <1>5 DEF OneKind

LEMMA OneKindNext ==
    ASSUME TypeOK, InLoop, Counters, Plain(setup), Ordered, Next
    PROVE  OneKind'
<1>. setup' = setup
    BY DEF Next
<1>1. CASE LoadNothing
    BY <1>1, PlainJob, MainType
       DEF LoadNothing, Ordered, OneKind, InLoop
<1>2. CASE LoadCheckpoint
    BY <1>2, PlainJob, MainType
       DEF LoadCheckpoint, Ordered, OneKind, InLoop
<1>3. CASE LoadFails
    BY <1>3, PlainJob, MainType
       DEF LoadFails, Ordered, OneKind, InLoop
<1>4. CASE LoopTest
    BY <1>4, PlainJob, MainType
       DEF LoopTest, Ordered, OneKind, InLoop
<1>5. CASE PollDone
    BY <1>5, PlainJob, MainType
       DEF PollDone, Ordered, OneKind, InLoop
<1>6. CASE Ramp
    BY <1>6, PlainJob, MainType
       DEF Ramp, StartSave, Ordered, OneKind, InLoop
<1>7. CASE TrainStep
    BY <1>7, PlainJob, MainType
       DEF TrainStep, Ordered, OneKind, InLoop
<1>8. CASE RegularSave
    BY <1>8, PlainJob, MainType
       DEF RegularSave, StartSave, DueKind, Ordered, OneKind, InLoop
<1>9. CASE NoSave
    BY <1>9, PlainJob, MainType
       DEF NoSave, Ordered, OneKind, InLoop
<1>10. CASE FinalSave
    BY <1>10, PlainJob, MainType
       DEF FinalSave, StartSave, Ordered, OneKind, InLoop
<1>11. CASE CleanBefore
    BY <1>11, PlainJob, MainType
       DEF CleanBefore, Clean, Ordered, OneKind, InLoop
<1>12. CASE CleanAfter
    BY <1>12, PlainJob, MainType
       DEF CleanAfter, Clean, Ordered, OneKind, InLoop
<1>13. CASE KeepAll
    BY <1>13, PlainJob, MainType
       DEF KeepAll, Ordered, OneKind, InLoop
<1>14. CASE CleanedBefore
    BY <1>14, PlainJob, MainType
       DEF CleanedBefore, Ordered, OneKind, InLoop
<1>15. CASE CleanedAfter
    BY <1>15, PlainJob, MainType
       DEF CleanedAfter, Ordered, OneKind, InLoop
<1>16. CASE BeginSyncSave
    BY <1>16, PlainJob, MainType
       DEF BeginSyncSave, Ordered, OneKind, InLoop
<1>17. CASE EndSyncSave
    BY <1>17, PlainJob, MainType
       DEF EndSyncSave, Ordered, OneKind, InLoop
<1>18. CASE ScheduleAsyncSave
    BY <1>18, PlainJob, MainType
       DEF ScheduleAsyncSave, Ordered, OneKind, InLoop
<1>19. CASE FinalizeHead
    BY <1>19, PlainJob, MainType, HeadType
       DEF FinalizeHead, Ordered, OneKind, InLoop
<1>20. CASE HeadFailed
    BY <1>20, PlainJob, MainType
       DEF HeadFailed, Ordered, OneKind, InLoop
<1>21. CASE Drained
    BY <1>21, PlainJob, MainType
       DEF Drained, Ordered, OneKind, InLoop
<1>22. CASE WriteMetadata
    BY <1>22, PlainJob, MainType
       DEF WriteMetadata, Finalizing, Ordered, OneKind, InLoop
<1>23. CASE OpenTrainState
    BY <1>23, PlainJob, MainType
       DEF OpenTrainState, Finalizing, Ordered, OneKind, InLoop
<1>24. CASE CopyTrainState
    BY <1>24, PlainJob, MainType
       DEF CopyTrainState, Finalizing, Ordered, OneKind, InLoop
<1>25. CASE CompleteTracker
    <2>1. /\ tracker'["main"] = fin[2] /\ tracker'["np"] = tracker["np"] /\ fin[2] # None
          /\ pc' = "legacy" /\ UNCHANGED <<saving, fin, pending, legacy>>
        BY <1>25, MainType DEF CompleteTracker, Ordered, None
    <2>. QED  BY <2>1 DEF Ordered, OneKind
<1>26. CASE WriteLegacyTracker
    <2>1. legacy'["main"] = step /\ tracker["main"] = fin[2] /\ fin[2] # None
        BY <1>26, MainType DEF WriteLegacyTracker, Ordered, Tracked, None
    <2>. QED  BY <1>26, <2>1 DEF WriteLegacyTracker, Ordered, OneKind
<1>27. CASE WriteRunConfig
    BY <1>27, PlainJob, MainType
       DEF WriteRunConfig, Finalizing, Ordered, OneKind, InLoop
<1>28. CASE FinalizeRaises
    BY <1>28, PlainJob, MainType
       DEF FinalizeRaises, Ordered, OneKind, InLoop
<1>29. CASE Relaunch
    BY <1>29, PlainJob, MainType
       DEF Relaunch, Relaunched, FreshCaches, Ordered, OneKind, InLoop
<1>30. ASSUME NEW i \in 1 .. Len(pending), WorkerBegin(i) PROVE OneKind'
    BY <1>30, PlainJob, MainType, StageType
       DEF WorkerBegin, Ordered, OneKind, InLoop, Stages, NextRequest
<1>31. ASSUME NEW i \in 1 .. Len(pending), WorkerEnd(i) PROVE OneKind'
    BY <1>31, PlainJob, MainType, StageType
       DEF WorkerEnd, Ordered, OneKind, InLoop, Stages, NextRequest
<1>32. ASSUME NEW d \in Dirs, BeginRemove(d) PROVE OneKind'
    BY <1>32, PlainJob, MainType
       DEF BeginRemove, Ordered, OneKind, InLoop
<1>33. ASSUME NEW d \in Dirs, EndRemove(d) PROVE OneKind'
    BY <1>33, PlainJob, MainType
       DEF EndRemove, Ordered, OneKind, InLoop
<1>34. CASE RerunExit
    BY <1>34, PlainJob, MainType
       DEF RerunExit, StartSave, Ordered, OneKind, InLoop
<1>35. CASE SignalExit
    BY <1>35, PlainJob, MainType
       DEF SignalExit, StartSave, Ordered, OneKind, InLoop
<1>36. CASE DurationExit
    BY <1>36, PlainJob, MainType
       DEF DurationExit, StartSave, DueKind, Ordered, OneKind, InLoop
<1>37. CASE Crash
    BY <1>37, PlainJob, MainType
       DEF Crash, Relaunched, FreshCaches, Ordered, OneKind, InLoop
<1>38. CASE InProcessRestart
    BY <1>38, PlainJob, MainType
       DEF InProcessRestart, Relaunched, Ordered, OneKind, InLoop
<1>39. CASE Terminating
    BY <1>39, PlainJob, MainType
       DEF Terminating, vars, Ordered, OneKind, InLoop
<1>. QED
    BY <1>1, <1>2, <1>3, <1>4, <1>5, <1>6, <1>7, <1>8, <1>9, <1>10, <1>11, <1>12, <1>13, <1>14, <1>15, <1>16, <1>17, <1>18, <1>19, <1>20, <1>21, <1>22, <1>23, <1>24, <1>25, <1>26, <1>27, <1>28, <1>29, <1>30, <1>31, <1>32, <1>33, <1>34, <1>35, <1>36, <1>37, <1>38, <1>39
       DEF Next, Job, Worker, Remover

LEMMA TrackedNext ==
    ASSUME TypeOK, InLoop, Counters, Plain(setup), Ordered, Next
    PROVE  Tracked'
<1>. setup' = setup
    BY DEF Next
<1>1. CASE LoadNothing
    BY <1>1, PlainJob, MainType
       DEF LoadNothing, Ordered, Tracked, Running, InLoop, CheckpointExists
<1>2. CASE LoadCheckpoint
    BY <1>2, PlainJob, MainType
       DEF LoadCheckpoint, Ordered, Tracked, Running, InLoop, TrackersReadable, Iteration, ReadTracker, Counters
<1>3. CASE LoadFails
    BY <1>3, PlainJob, MainType
       DEF LoadFails, Ordered, Tracked, Running, InLoop
<1>4. CASE LoopTest
    BY <1>4, PlainJob, MainType
       DEF LoopTest, Ordered, Tracked, Running, InLoop
<1>5. CASE PollDone
    BY <1>5, PlainJob, MainType
       DEF PollDone, Ordered, Tracked, Running, InLoop
<1>6. CASE Ramp
    BY <1>6, PlainJob, MainType
       DEF Ramp, StartSave, Ordered, Tracked, Running, InLoop
<1>7. CASE TrainStep
    BY <1>7, PlainJob, MainType
       DEF TrainStep, Ordered, Tracked, Running, InLoop
<1>8. CASE RegularSave
    BY <1>8, PlainJob, MainType
       DEF RegularSave, StartSave, DueKind, Ordered, Tracked, Running, InLoop
<1>9. CASE NoSave
    BY <1>9, PlainJob, MainType
       DEF NoSave, Ordered, Tracked, Running, InLoop
<1>10. CASE FinalSave
    BY <1>10, PlainJob, MainType
       DEF FinalSave, StartSave, Ordered, Tracked, Running, InLoop
<1>11. CASE CleanBefore
    BY <1>11, PlainJob, MainType
       DEF CleanBefore, Clean, Ordered, Tracked, Running, InLoop
<1>12. CASE CleanAfter
    BY <1>12, PlainJob, MainType
       DEF CleanAfter, Clean, Ordered, Tracked, Running, InLoop
<1>13. CASE KeepAll
    BY <1>13, PlainJob, MainType
       DEF KeepAll, Ordered, Tracked, Running, InLoop
<1>14. CASE CleanedBefore
    BY <1>14, PlainJob, MainType
       DEF CleanedBefore, Ordered, Tracked, Running, InLoop
<1>15. CASE CleanedAfter
    BY <1>15, PlainJob, MainType
       DEF CleanedAfter, Ordered, Tracked, Running, InLoop
<1>16. CASE BeginSyncSave
    BY <1>16, PlainJob, MainType
       DEF BeginSyncSave, Ordered, Tracked, Running, InLoop
<1>17. CASE EndSyncSave
    BY <1>17, PlainJob, MainType
       DEF EndSyncSave, Ordered, Tracked, Running, InLoop
<1>18. CASE ScheduleAsyncSave
    BY <1>18, PlainJob, MainType
       DEF ScheduleAsyncSave, Ordered, Tracked, Running, InLoop
<1>19. CASE FinalizeHead
    BY <1>19, PlainJob, MainType, HeadType
       DEF FinalizeHead, Ordered, Tracked, Running, InLoop, Polling
<1>20. CASE HeadFailed
    BY <1>20, PlainJob, MainType
       DEF HeadFailed, Ordered, Tracked, Running, InLoop, Polling
<1>21. CASE Drained
    BY <1>21, PlainJob, MainType
       DEF Drained, Ordered, Tracked, Running, InLoop
<1>22. CASE WriteMetadata
    BY <1>22, PlainJob, MainType
       DEF WriteMetadata, Finalizing, Ordered, Tracked, Running, InLoop
<1>23. CASE OpenTrainState
    BY <1>23, PlainJob, MainType
       DEF OpenTrainState, Finalizing, Ordered, Tracked, Running, InLoop
<1>24. CASE CopyTrainState
    BY <1>24, PlainJob, MainType
       DEF CopyTrainState, Finalizing, Ordered, Tracked, Running, InLoop
<1>25. CASE CompleteTracker
    <2>1. /\ tracker'["main"] = fin[2] /\ fin[2] # Torn /\ fin' = fin
          /\ pc' = "legacy" /\ UNCHANGED <<pending, counts>>
        BY <1>25, MainType DEF CompleteTracker, Ordered, Torn
    <2>. QED  BY <2>1 DEF Ordered, Tracked
<1>26. CASE WriteLegacyTracker
    BY <1>26, PlainJob, MainType
       DEF WriteLegacyTracker, Ordered, Tracked, Running, InLoop
<1>27. CASE WriteRunConfig
    BY <1>27, PlainJob, MainType
       DEF WriteRunConfig, Finalizing, Ordered, Tracked, Running, InLoop
<1>28. CASE FinalizeRaises
    BY <1>28, PlainJob, MainType
       DEF FinalizeRaises, Ordered, Tracked, Running, InLoop
<1>29. CASE Relaunch
    BY <1>29, PlainJob, MainType
       DEF Relaunch, Relaunched, FreshCaches, Ordered, Tracked, Running, InLoop
<1>30. ASSUME NEW i \in 1 .. Len(pending), WorkerBegin(i) PROVE Tracked'
    BY <1>30, PlainJob, MainType, StageType
       DEF WorkerBegin, Ordered, Tracked, Running, InLoop, Stages, NextRequest
<1>31. ASSUME NEW i \in 1 .. Len(pending), WorkerEnd(i) PROVE Tracked'
    BY <1>31, PlainJob, MainType, StageType
       DEF WorkerEnd, Ordered, Tracked, Running, InLoop, Stages, NextRequest
<1>32. ASSUME NEW d \in Dirs, BeginRemove(d) PROVE Tracked'
    BY <1>32, PlainJob, MainType
       DEF BeginRemove, Ordered, Tracked, Running, InLoop
<1>33. ASSUME NEW d \in Dirs, EndRemove(d) PROVE Tracked'
    BY <1>33, PlainJob, MainType
       DEF EndRemove, Ordered, Tracked, Running, InLoop
<1>34. CASE RerunExit
    BY <1>34, PlainJob, MainType
       DEF RerunExit, StartSave, Ordered, Tracked, Running, InLoop
<1>35. CASE SignalExit
    BY <1>35, PlainJob, MainType
       DEF SignalExit, StartSave, Ordered, Tracked, Running, InLoop
<1>36. CASE DurationExit
    BY <1>36, PlainJob, MainType
       DEF DurationExit, StartSave, DueKind, Ordered, Tracked, Running, InLoop
<1>37. CASE Crash
    BY <1>37, PlainJob, MainType, CountType
       DEF Crash, Relaunched, FreshCaches, Ordered, Tracked, Running, InLoop
<1>38. CASE InProcessRestart
    BY <1>38, PlainJob, MainType
       DEF InProcessRestart, Relaunched, Ordered, Tracked, Running, InLoop
<1>39. CASE Terminating
    BY <1>39, PlainJob, MainType
       DEF Terminating, vars, Ordered, Tracked, Running, InLoop
<1>. QED
    BY <1>1, <1>2, <1>3, <1>4, <1>5, <1>6, <1>7, <1>8, <1>9, <1>10, <1>11, <1>12, <1>13, <1>14, <1>15, <1>16, <1>17, <1>18, <1>19, <1>20, <1>21, <1>22, <1>23, <1>24, <1>25, <1>26, <1>27, <1>28, <1>29, <1>30, <1>31, <1>32, <1>33, <1>34, <1>35, <1>36, <1>37, <1>38, <1>39
       DEF Next, Job, Worker, Remover

LEMMA CurrentNext ==
    ASSUME TypeOK, InLoop, Counters, Plain(setup), Ordered, Next
    PROVE  Current'
<1>. setup' = setup
    BY DEF Next
<1>1. CASE LoadNothing
    BY <1>1, PlainJob
       DEF LoadNothing, Ordered, Current, SavePcs, FinPcs, AsyncSave, InLoop
<1>2. CASE LoadCheckpoint
    BY <1>2, PlainJob
       DEF LoadCheckpoint, Ordered, Current, SavePcs, FinPcs, AsyncSave, InLoop
<1>3. CASE LoadFails
    BY <1>3, PlainJob
       DEF LoadFails, Ordered, Current, SavePcs, FinPcs, AsyncSave, InLoop
<1>4. CASE LoopTest
    BY <1>4, PlainJob
       DEF LoopTest, Ordered, Current, SavePcs, FinPcs, AsyncSave, InLoop
<1>5. CASE PollDone
    BY <1>5, PlainJob
       DEF PollDone, Ordered, Current, SavePcs, FinPcs, AsyncSave, InLoop
<1>6. CASE Ramp
    BY <1>6, PlainJob
       DEF Ramp, StartSave, Ordered, Current, SavePcs, FinPcs, AsyncSave, InLoop
<1>7. CASE TrainStep
    BY <1>7, PlainJob
       DEF TrainStep, Ordered, Current, SavePcs, FinPcs, AsyncSave, InLoop
<1>8. CASE RegularSave
    BY <1>8, PlainJob
       DEF RegularSave, StartSave, DueKind, Ordered, Current, SavePcs, FinPcs, AsyncSave, InLoop
<1>9. CASE NoSave
    BY <1>9, PlainJob
       DEF NoSave, Ordered, Current, SavePcs, FinPcs, AsyncSave, InLoop
<1>10. CASE FinalSave
    BY <1>10, PlainJob
       DEF FinalSave, StartSave, Ordered, Current, SavePcs, FinPcs, AsyncSave, InLoop
<1>11. CASE CleanBefore
    BY <1>11, PlainJob
       DEF CleanBefore, Clean, Ordered, Current, SavePcs, FinPcs, AsyncSave, InLoop
<1>12. CASE CleanAfter
    BY <1>12, PlainJob
       DEF CleanAfter, Clean, Ordered, Current, SavePcs, FinPcs, AsyncSave, InLoop
<1>13. CASE KeepAll
    BY <1>13, PlainJob
       DEF KeepAll, Ordered, Current, SavePcs, FinPcs, AsyncSave, InLoop
<1>14. CASE CleanedBefore
    BY <1>14, PlainJob
       DEF CleanedBefore, Ordered, Current, SavePcs, FinPcs, AsyncSave, InLoop
<1>15. CASE CleanedAfter
    BY <1>15, PlainJob
       DEF CleanedAfter, Ordered, Current, SavePcs, FinPcs, AsyncSave, InLoop
<1>16. CASE BeginSyncSave
    BY <1>16, PlainJob
       DEF BeginSyncSave, Ordered, Current, SavePcs, FinPcs, AsyncSave, InLoop
<1>17. CASE EndSyncSave
    BY <1>17, PlainJob
       DEF EndSyncSave, Ordered, Current, SavePcs, FinPcs, AsyncSave, InLoop
<1>18. CASE ScheduleAsyncSave
    BY <1>18, PlainJob
       DEF ScheduleAsyncSave, Ordered, Current, SavePcs, FinPcs, AsyncSave, InLoop
<1>19. CASE FinalizeHead
    BY <1>19, PlainJob, HeadType
       DEF FinalizeHead, Ordered, Current, SavePcs, FinPcs, AsyncSave, InLoop, Polling
<1>20. CASE HeadFailed
    BY <1>20, PlainJob
       DEF HeadFailed, Ordered, Current, SavePcs, FinPcs, AsyncSave, InLoop
<1>21. CASE Drained
    BY <1>21, PlainJob
       DEF Drained, Ordered, Current, SavePcs, FinPcs, AsyncSave, InLoop
<1>22. CASE WriteMetadata
    BY <1>22, PlainJob
       DEF WriteMetadata, Finalizing, Ordered, Current, SavePcs, FinPcs, AsyncSave, InLoop
<1>23. CASE OpenTrainState
    BY <1>23, PlainJob
       DEF OpenTrainState, Finalizing, Ordered, Current, SavePcs, FinPcs, AsyncSave, InLoop
<1>24. CASE CopyTrainState
    BY <1>24, PlainJob
       DEF CopyTrainState, Finalizing, Ordered, Current, SavePcs, FinPcs, AsyncSave, InLoop
<1>25. CASE CompleteTracker
    BY <1>25, PlainJob
       DEF CompleteTracker, Ordered, Current, SavePcs, FinPcs, AsyncSave, InLoop
<1>26. CASE WriteLegacyTracker
    BY <1>26, PlainJob
       DEF WriteLegacyTracker, Ordered, Current, SavePcs, FinPcs, AsyncSave, InLoop
<1>27. CASE WriteRunConfig
    BY <1>27, PlainJob
       DEF WriteRunConfig, Finalizing, Ordered, Current, SavePcs, FinPcs, AsyncSave, InLoop
<1>28. CASE FinalizeRaises
    BY <1>28, PlainJob
       DEF FinalizeRaises, Ordered, Current, SavePcs, FinPcs, AsyncSave, InLoop
<1>29. CASE Relaunch
    BY <1>29, PlainJob
       DEF Relaunch, Relaunched, FreshCaches, Ordered, Current, SavePcs, FinPcs, AsyncSave, InLoop
<1>30. ASSUME NEW i \in 1 .. Len(pending), WorkerBegin(i) PROVE Current'
    BY <1>30, PlainJob, StageType
       DEF WorkerBegin, Ordered, Current, SavePcs, FinPcs, AsyncSave, InLoop, Stages, NextRequest
<1>31. ASSUME NEW i \in 1 .. Len(pending), WorkerEnd(i) PROVE Current'
    BY <1>31, PlainJob, StageType
       DEF WorkerEnd, Ordered, Current, SavePcs, FinPcs, AsyncSave, InLoop, Stages, NextRequest
<1>32. ASSUME NEW d \in Dirs, BeginRemove(d) PROVE Current'
    BY <1>32, PlainJob
       DEF BeginRemove, Ordered, Current, SavePcs, FinPcs, AsyncSave, InLoop
<1>33. ASSUME NEW d \in Dirs, EndRemove(d) PROVE Current'
    BY <1>33, PlainJob
       DEF EndRemove, Ordered, Current, SavePcs, FinPcs, AsyncSave, InLoop
<1>34. CASE RerunExit
    BY <1>34, PlainJob
       DEF RerunExit, StartSave, Ordered, Current, SavePcs, FinPcs, AsyncSave, InLoop
<1>35. CASE SignalExit
    BY <1>35, PlainJob
       DEF SignalExit, StartSave, Ordered, Current, SavePcs, FinPcs, AsyncSave, InLoop
<1>36. CASE DurationExit
    BY <1>36, PlainJob
       DEF DurationExit, StartSave, DueKind, Ordered, Current, SavePcs, FinPcs, AsyncSave, InLoop
<1>37. CASE Crash
    BY <1>37, PlainJob
       DEF Crash, Relaunched, FreshCaches, Ordered, Current, SavePcs, FinPcs, AsyncSave, InLoop
<1>38. CASE InProcessRestart
    BY <1>38, PlainJob
       DEF InProcessRestart, Relaunched, Ordered, Current, SavePcs, FinPcs, AsyncSave, InLoop
<1>39. CASE Terminating
    BY <1>39, PlainJob
       DEF Terminating, vars, Ordered, Current, SavePcs, FinPcs, AsyncSave, InLoop
<1>. QED
    BY <1>1, <1>2, <1>3, <1>4, <1>5, <1>6, <1>7, <1>8, <1>9, <1>10, <1>11, <1>12, <1>13, <1>14, <1>15, <1>16, <1>17, <1>18, <1>19, <1>20, <1>21, <1>22, <1>23, <1>24, <1>25, <1>26, <1>27, <1>28, <1>29, <1>30, <1>31, <1>32, <1>33, <1>34, <1>35, <1>36, <1>37, <1>38, <1>39
       DEF Next, Job, Worker, Remover

\* A job that starts, or starts again, is at the step of the last checkpoint.
LEMMA LoadedStep ==
    ASSUME TypeOK, Counters, Plain(setup), Ordered, LoadNothing \/ LoadCheckpoint
    PROVE  /\ step' = Latest /\ Latest' = Latest /\ pc' = "top" /\ pending' = <<>>
           /\ LoadCheckpoint => ChosenCheckpoint = <<"main", tracker["main"]>>
<1>1. CASE LoadNothing
  <2>1. tracker["main"] = None /\ pending = <<>>
    BY <1>1 DEF LoadNothing, CheckpointExists, Ordered, Tracked
  <2>. QED  BY <1>1, <2>1 DEF LoadNothing, LoadCheckpoint, Latest, None, Torn
<1>2. CASE LoadCheckpoint
  <2>1. tracker["main"] # Torn /\ pending = <<>> /\ ReadTracker("main") = tracker["main"]
    BY <1>2, PlainJob, MainType
       DEF LoadCheckpoint, Ordered, Tracked, TrackersReadable, Iteration, ReadTracker, Counters,
           CheckpointExists, OneKind
  <2>2. ChosenCheckpoint = <<"main", tracker["main"]>> /\ tracker["main"] # None
    BY <1>2, <2>1, PlainJob
       DEF LoadCheckpoint, ChosenCheckpoint, Newer, CheckpointExists, Iteration, Ordered, OneKind
  <2>3. ReadState(ChosenCheckpoint) = tracker["main"]
    BY <1>2, <2>2, ChosenType, PlainJob DEF LoadCheckpoint, Loadable, ReadState, Counters
  <2>4. /\ step' = tracker["main"] /\ pc' = "top" /\ tracker' = tracker /\ pending' = pending
        /\ fin' = fin
    BY <1>2, <2>3 DEF LoadCheckpoint
  <2>. QED  BY <2>1, <2>2, <2>4 DEF Latest
<1>. QED  BY <1>1, <1>2

LEMMA InSequenceNext ==
    ASSUME TypeOK, InLoop, Counters, Plain(setup), Ordered, Next
    PROVE  InSequence'
<1>. setup' = setup
    BY DEF Next
<1>1. CASE LoadNothing
    BY <1>1, PlainJob, MainType
       DEF LoadNothing, Ordered, InSequence, FinPcs, Running, Latest, InLoop, CheckpointExists, Tracked, TypeOK
<1>2. CASE LoadCheckpoint
    BY <1>2, PlainJob, MainType, LoadedStep
       DEF LoadCheckpoint, Ordered, InSequence, FinPcs, Running, Latest, InLoop
<1>3. CASE LoadFails
    BY <1>3, PlainJob, MainType
       DEF LoadFails, Ordered, InSequence, FinPcs, Running, Latest, InLoop
<1>4. CASE LoopTest
    BY <1>4, PlainJob, MainType
       DEF LoopTest, Ordered, InSequence, FinPcs, Running, Latest, InLoop
<1>5. CASE PollDone
    BY <1>5, PlainJob, MainType
       DEF PollDone, Ordered, InSequence, FinPcs, Running, Latest, InLoop
<1>6. CASE Ramp
    BY <1>6, PlainJob, MainType
       DEF Ramp, StartSave, Ordered, InSequence, FinPcs, Running, Latest, InLoop
<1>7. CASE TrainStep
    BY <1>7, PlainJob, MainType
       DEF TrainStep, Ordered, InSequence, FinPcs, Running, Latest, InLoop
<1>8. CASE RegularSave
    BY <1>8, PlainJob, MainType
       DEF RegularSave, StartSave, DueKind, Ordered, InSequence, FinPcs, Running, Latest, InLoop
<1>9. CASE NoSave
    BY <1>9, PlainJob, MainType
       DEF NoSave, Ordered, InSequence, FinPcs, Running, Latest, InLoop
<1>10. CASE FinalSave
    BY <1>10, PlainJob, MainType
       DEF FinalSave, StartSave, Ordered, InSequence, FinPcs, Running, Latest, InLoop
<1>11. CASE CleanBefore
    BY <1>11, PlainJob, MainType
       DEF CleanBefore, Clean, Ordered, InSequence, FinPcs, Running, Latest, InLoop
<1>12. CASE CleanAfter
    BY <1>12, PlainJob, MainType
       DEF CleanAfter, Clean, Ordered, InSequence, FinPcs, Running, Latest, InLoop
<1>13. CASE KeepAll
    BY <1>13, PlainJob, MainType
       DEF KeepAll, Ordered, InSequence, FinPcs, Running, Latest, InLoop
<1>14. CASE CleanedBefore
    BY <1>14, PlainJob, MainType
       DEF CleanedBefore, Ordered, InSequence, FinPcs, Running, Latest, InLoop
<1>15. CASE CleanedAfter
    BY <1>15, PlainJob, MainType
       DEF CleanedAfter, Ordered, InSequence, FinPcs, Running, Latest, InLoop
<1>16. CASE BeginSyncSave
    BY <1>16, PlainJob, MainType
       DEF BeginSyncSave, Ordered, InSequence, FinPcs, Running, Latest, InLoop
<1>17. CASE EndSyncSave
    <2>1. tracker["main"] # Torn /\ pending = <<>> /\ saving[2] = step
        BY <1>17 DEF EndSyncSave, Ordered, Tracked, Current, SavePcs
    <2>2. /\ fin' = saving /\ step' = step /\ pc' = "metadata" /\ tracker' = tracker
          /\ pending' = pending
        BY <1>17 DEF EndSyncSave
    <2>3. Latest' = Latest /\ Latest <= step /\ 1 .. Len(pending') = {}
        BY <1>17, <2>1, <2>2 DEF Latest, InSequence, Ordered, Running, EndSyncSave
    <2>. QED  BY <2>1, <2>2, <2>3, MainType DEF InSequence, Ordered
<1>18. CASE ScheduleAsyncSave
    <2>. DEFINE x == [dir |-> saving, stage |-> "queued"]
    <2>1. /\ step' = step /\ pc' = "postclean" /\ pc = "begin" /\ Latest' = Latest
          /\ pending' = Append(pending, x) /\ saving[2] = step /\ Latest <= step
        BY <1>18 DEF ScheduleAsyncSave, Latest, Ordered, Current, SavePcs, InSequence, Running
    <2>. DEFINE n == Len(pending)
    <2>2. /\ n \in Nat /\ Len(pending') = n + 1 /\ pending'[n + 1].dir[2] = step
          /\ \A i \in 1 .. n : pending'[i] = pending[i]
        BY <2>1 DEF TypeOK
    <2>. HIDE DEF n, x
    <2>3. \A i \in 1 .. n : Latest <= pending[i].dir[2] /\ pending[i].dir[2] <= step
        BY DEF Ordered, InSequence, n
    <2>4. \A i \in 1 .. n : \A j \in i .. n : pending[i].dir[2] <= pending[j].dir[2]
        BY DEF Ordered, InSequence, n
    <2>5. \A i \in 1 .. n + 1 : i \in 1 .. n \/ i = n + 1
        BY <2>2
    <2>6. \A i \in 1 .. n + 1 : Latest <= pending'[i].dir[2] /\ pending'[i].dir[2] <= step
        BY <2>1, <2>2, <2>3, <2>5, MainType DEF Ordered
    <2>7. \A i \in 1 .. n + 1 : \A j \in i .. n + 1 : pending'[i].dir[2] <= pending'[j].dir[2]
        BY <2>2, <2>4, <2>6
    <2>. QED  BY <2>1, <2>2, <2>6, <2>7 DEF InSequence, FinPcs
<1>19. CASE FinalizeHead
    BY <1>19, PlainJob, MainType, HeadType
       DEF FinalizeHead, Ordered, InSequence, FinPcs, Running, Latest, InLoop, Polling
<1>20. CASE HeadFailed
    BY <1>20, PlainJob, MainType
       DEF HeadFailed, Ordered, InSequence, FinPcs, Running, Latest, InLoop
<1>21. CASE Drained
    BY <1>21, PlainJob, MainType
       DEF Drained, Ordered, InSequence, FinPcs, Running, Latest, InLoop
<1>22. CASE WriteMetadata
    BY <1>22, PlainJob, MainType
       DEF WriteMetadata, Finalizing, Ordered, InSequence, FinPcs, Running, Latest, InLoop
<1>23. CASE OpenTrainState
    BY <1>23, PlainJob, MainType
       DEF OpenTrainState, Finalizing, Ordered, InSequence, FinPcs, Running, Latest, InLoop
<1>24. CASE CopyTrainState
    BY <1>24, PlainJob, MainType
       DEF CopyTrainState, Finalizing, Ordered, InSequence, FinPcs, Running, Latest, InLoop
<1>25. CASE CompleteTracker
    BY <1>25, PlainJob, MainType
       DEF CompleteTracker, Ordered, InSequence, FinPcs, Running, Latest, InLoop
<1>26. CASE WriteLegacyTracker
    BY <1>26, PlainJob, MainType
       DEF WriteLegacyTracker, Ordered, InSequence, FinPcs, Running, Latest, InLoop
<1>27. CASE WriteRunConfig
    BY <1>27, PlainJob, MainType
       DEF WriteRunConfig, Finalizing, Ordered, InSequence, FinPcs, Running, Latest, InLoop
<1>28. CASE FinalizeRaises
    BY <1>28, PlainJob, MainType
       DEF FinalizeRaises, Ordered, InSequence, FinPcs, Running, Latest, InLoop
<1>29. CASE Relaunch
    BY <1>29, PlainJob, MainType
       DEF Relaunch, Relaunched, FreshCaches, Ordered, InSequence, FinPcs, Running, Latest, InLoop
<1>30. ASSUME NEW i \in 1 .. Len(pending), WorkerBegin(i) PROVE InSequence'
    BY <1>30, PlainJob, MainType, StageType, SMTT(30)
       DEF WorkerBegin, Ordered, InSequence, FinPcs, Running, Latest, InLoop, Stages, NextRequest
<1>31. ASSUME NEW i \in 1 .. Len(pending), WorkerEnd(i) PROVE InSequence'
    <2>1. /\ Len(pending') = Len(pending)
          /\ \A j \in 1 .. Len(pending) : pending'[j].dir = pending[j].dir
        BY <1>31, StageType DEF WorkerEnd, Stages
    <2>2. UNCHANGED <<pc, step, tracker, fin>>
        BY <1>31 DEF WorkerEnd
    <2>3. Latest' = Latest /\ Len(pending) \in Nat
        BY <2>2, MainType DEF Latest, Ordered
    <2>4. \A k \in 1 .. Len(pending) : \A j \in k .. Len(pending) : j \in 1 .. Len(pending)
        BY <2>3
    <2>. QED  BY <2>1, <2>2, <2>3, <2>4 DEF Ordered, InSequence, FinPcs, Running
<1>32. ASSUME NEW d \in Dirs, BeginRemove(d) PROVE InSequence'
    BY <1>32, PlainJob, MainType
       DEF BeginRemove, Ordered, InSequence, FinPcs, Running, Latest, InLoop
<1>33. ASSUME NEW d \in Dirs, EndRemove(d) PROVE InSequence'
    BY <1>33, PlainJob, MainType
       DEF EndRemove, Ordered, InSequence, FinPcs, Running, Latest, InLoop
<1>34. CASE RerunExit
    BY <1>34, PlainJob, MainType
       DEF RerunExit, StartSave, Ordered, InSequence, FinPcs, Running, Latest, InLoop
<1>35. CASE SignalExit
    BY <1>35, PlainJob, MainType
       DEF SignalExit, StartSave, Ordered, InSequence, FinPcs, Running, Latest, InLoop
<1>36. CASE DurationExit
    BY <1>36, PlainJob, MainType
       DEF DurationExit, StartSave, DueKind, Ordered, InSequence, FinPcs, Running, Latest, InLoop
<1>37. CASE Crash
    BY <1>37, PlainJob, MainType
       DEF Crash, Relaunched, FreshCaches, Ordered, InSequence, FinPcs, Running, Latest, InLoop
<1>38. CASE InProcessRestart
    BY <1>38, PlainJob, MainType
       DEF InProcessRestart, Relaunched, Ordered, InSequence, FinPcs, Running, Latest, InLoop
<1>39. CASE Terminating
    BY <1>39, PlainJob, MainType
       DEF Terminating, vars, Ordered, InSequence, FinPcs, Running, Latest, InLoop
<1>. QED
    BY <1>1, <1>2, <1>3, <1>4, <1>5, <1>6, <1>7, <1>8, <1>9, <1>10, <1>11, <1>12, <1>13, <1>14, <1>15, <1>16, <1>17, <1>18, <1>19, <1>20, <1>21, <1>22, <1>23, <1>24, <1>25, <1>26, <1>27, <1>28, <1>29, <1>30, <1>31, <1>32, <1>33, <1>34, <1>35, <1>36, <1>37, <1>38, <1>39
       DEF Next, Job, Worker, Remover

LEMMA OrderedInvariant ==
    (\A s \in Setups : Plain(s)) => (Spec => [](Basic /\ Plain(setup) /\ Ordered))
<1>. SUFFICES ASSUME \A s \in Setups : Plain(s)
             PROVE  Spec => [](Basic /\ Plain(setup) /\ Ordered)
    OBVIOUS
<1>1. TypeOK => Plain(setup)
    BY DEF TypeOK
<1>2. ASSUME Init PROVE Ordered
  <2>1. OneKind /\ Tracked /\ Current
    BY <1>2 DEF Init, OneKind, Tracked, Current, SavePcs, FinPcs, NoDir, None, Torn, Kinds
  <2>2. Latest = 0 /\ 1 .. Len(pending) = {}
    BY <1>2 DEF Init, Latest, None, Torn, Kinds
  <2>3. InSequence
    BY <1>2, <2>2 DEF Init, InSequence, Running, FinPcs
  <2>. QED  BY <2>1, <2>3 DEF Ordered
<1>3. ASSUME Basic, Ordered, [Next]_vars PROVE Ordered'
  <2>1. CASE Next
    BY <1>1, <1>3, <2>1, OneKindNext, TrackedNext, CurrentNext, InSequenceNext DEF Basic, Ordered
  <2>2. CASE UNCHANGED vars
    <3>1. Latest' = Latest
        BY <2>2 DEF vars, Latest
    <3>. QED  BY <1>3, <2>2, <3>1
                DEF vars, Ordered, OneKind, Tracked, Current, InSequence, Running, AsyncSave
  <2>. QED  BY <1>3, <2>1, <2>2
<1>. QED  BY <1>1, <1>2, <1>3, BasicInvariant, PTL DEF Spec, Basic
-----------------------------------------------------------------------------
(* The refinement of DurableTraining. *)

\* Published is the step of the last checkpoint.
LEMMA PublishedIsLatest ==
    ASSUME TypeOK, Plain(setup), OneKind
    PROVE  Published = Latest
<1>. DEFINE Of == IF tracker["main"] = Torn THEN fin[2] ELSE tracker["main"]
<1>1. Of \in {None} \cup Nat /\ Latest \in Nat
    BY MainType DEF Files, Steps
<1>2. Latest = IF Of = None THEN 0 ELSE Of
    BY MainType, <1>1 DEF Latest, None, Torn
<1>3. Published = CHOOSE m \in {0, None, Of} : \A n \in {0, None, Of} : m >= n
    BY PlainJob DEF Published
<1>. HIDE DEF Of
<1>4. /\ Latest \in {0, None, Of} /\ \A n \in {0, None, Of} : Latest >= n
      /\ \A m \in {0, None, Of} : (\A n \in {0, None, Of} : m >= n) => m = Latest
    BY <1>1, <1>2 DEF None
<1>. QED  BY <1>3, <1>4

Reached == IF Running THEN step ELSE Latest

\* A step gives up nothing that is published, publishes at most what the job has
\* reached, and takes the job on by one step or back to what is published.
LEMMA StepsDurable ==
    ASSUME TypeOK, InLoop, Counters, Plain(setup), Ordered, Next
    PROVE  \/ Latest' = Latest /\ Reached' \in {Reached, Reached + 1, Latest}
           \/ Latest' \in Latest .. Reached /\ Reached' = Reached
<1>. setup' = setup
    BY DEF Next
<1>. DEFINE Durable == \/ Latest' = Latest /\ Reached' \in {Reached, Reached + 1, Latest}
                       \/ Latest' \in Latest .. Reached /\ Reached' = Reached
<1>1. CASE LoadNothing
    BY <1>1, PlainJob, MainType, LoadedStep
       DEF LoadNothing, Ordered, Tracked, InSequence, Reached, Running, Latest, FinPcs, InLoop
<1>2. CASE LoadCheckpoint
    BY <1>2, PlainJob, MainType, LoadedStep
       DEF LoadCheckpoint, Ordered, Tracked, InSequence, Reached, Running, Latest, FinPcs, InLoop
<1>3. CASE LoadFails
    BY <1>3, PlainJob, MainType
       DEF LoadFails, Ordered, Tracked, InSequence, Reached, Running, Latest, FinPcs, InLoop
<1>4. CASE LoopTest
    BY <1>4, PlainJob, MainType
       DEF LoopTest, Ordered, Tracked, InSequence, Reached, Running, Latest, FinPcs, InLoop
<1>5. CASE PollDone
    BY <1>5, PlainJob, MainType
       DEF PollDone, Ordered, Tracked, InSequence, Reached, Running, Latest, FinPcs, InLoop
<1>6. CASE Ramp
    BY <1>6, PlainJob, MainType
       DEF Ramp, StartSave, Ordered, Tracked, InSequence, Reached, Running, Latest, FinPcs, InLoop
<1>7. CASE TrainStep
    BY <1>7, PlainJob, MainType
       DEF TrainStep, Ordered, Tracked, InSequence, Reached, Running, Latest, FinPcs, InLoop
<1>8. CASE RegularSave
    BY <1>8, PlainJob, MainType
       DEF RegularSave, StartSave, DueKind, Ordered, Tracked, InSequence, Reached, Running, Latest, FinPcs, InLoop
<1>9. CASE NoSave
    BY <1>9, PlainJob, MainType
       DEF NoSave, Ordered, Tracked, InSequence, Reached, Running, Latest, FinPcs, InLoop
<1>10. CASE FinalSave
    BY <1>10, PlainJob, MainType
       DEF FinalSave, StartSave, Ordered, Tracked, InSequence, Reached, Running, Latest, FinPcs, InLoop
<1>11. CASE CleanBefore
    BY <1>11, PlainJob, MainType
       DEF CleanBefore, Clean, Ordered, Tracked, InSequence, Reached, Running, Latest, FinPcs, InLoop
<1>12. CASE CleanAfter
    BY <1>12, PlainJob, MainType
       DEF CleanAfter, Clean, Ordered, Tracked, InSequence, Reached, Running, Latest, FinPcs, InLoop
<1>13. CASE KeepAll
    BY <1>13, PlainJob, MainType
       DEF KeepAll, Ordered, Tracked, InSequence, Reached, Running, Latest, FinPcs, InLoop
<1>14. CASE CleanedBefore
    BY <1>14, PlainJob, MainType
       DEF CleanedBefore, Ordered, Tracked, InSequence, Reached, Running, Latest, FinPcs, InLoop
<1>15. CASE CleanedAfter
    BY <1>15, PlainJob, MainType
       DEF CleanedAfter, Ordered, Tracked, InSequence, Reached, Running, Latest, FinPcs, InLoop
<1>16. CASE BeginSyncSave
    BY <1>16, PlainJob, MainType
       DEF BeginSyncSave, Ordered, Tracked, InSequence, Reached, Running, Latest, FinPcs, InLoop
<1>17. CASE EndSyncSave
    BY <1>17, PlainJob, MainType
       DEF EndSyncSave, Ordered, Tracked, InSequence, Reached, Running, Latest, FinPcs, InLoop
<1>18. CASE ScheduleAsyncSave
    BY <1>18, PlainJob, MainType
       DEF ScheduleAsyncSave, Ordered, Tracked, InSequence, Reached, Running, Latest, FinPcs, InLoop
<1>19. CASE FinalizeHead
    BY <1>19, PlainJob, MainType
       DEF FinalizeHead, Ordered, Tracked, InSequence, Reached, Running, Latest, FinPcs, InLoop, Polling
<1>20. CASE HeadFailed
    BY <1>20, PlainJob, MainType
       DEF HeadFailed, Ordered, Tracked, InSequence, Reached, Running, Latest, FinPcs, InLoop
<1>21. CASE Drained
    BY <1>21, PlainJob, MainType
       DEF Drained, Ordered, Tracked, InSequence, Reached, Running, Latest, FinPcs, InLoop
<1>22. CASE WriteMetadata
    BY <1>22, PlainJob, MainType
       DEF WriteMetadata, Finalizing, Ordered, Tracked, InSequence, Reached, Running, Latest, FinPcs, InLoop
<1>23. CASE OpenTrainState
    BY <1>23, PlainJob, MainType
       DEF OpenTrainState, Finalizing, Ordered, Tracked, InSequence, Reached, Running, Latest, FinPcs, InLoop
<1>24. CASE CopyTrainState
    BY <1>24, PlainJob, MainType
       DEF CopyTrainState, Finalizing, Ordered, Tracked, InSequence, Reached, Running, Latest, FinPcs, InLoop
<1>25. CASE CompleteTracker
    BY <1>25, PlainJob, MainType
       DEF CompleteTracker, Ordered, Tracked, InSequence, Reached, Running, Latest, FinPcs, InLoop
<1>26. CASE WriteLegacyTracker
    BY <1>26, PlainJob, MainType
       DEF WriteLegacyTracker, Ordered, Tracked, InSequence, Reached, Running, Latest, FinPcs, InLoop
<1>27. CASE WriteRunConfig
    BY <1>27, PlainJob, MainType
       DEF WriteRunConfig, Finalizing, Ordered, Tracked, InSequence, Reached, Running, Latest, FinPcs, InLoop
<1>28. CASE FinalizeRaises
    BY <1>28, PlainJob, MainType
       DEF FinalizeRaises, Ordered, Tracked, InSequence, Reached, Running, Latest, FinPcs, InLoop
<1>29. CASE Relaunch
    BY <1>29, PlainJob, MainType
       DEF Relaunch, Relaunched, FreshCaches, Ordered, Tracked, InSequence, Reached, Running, Latest, FinPcs, InLoop
<1>30. ASSUME NEW i \in 1 .. Len(pending), WorkerBegin(i) PROVE Durable
    BY <1>30, PlainJob, MainType
       DEF WorkerBegin, Ordered, Tracked, InSequence, Reached, Running, Latest, FinPcs, InLoop
<1>31. ASSUME NEW i \in 1 .. Len(pending), WorkerEnd(i) PROVE Durable
    BY <1>31, PlainJob, MainType
       DEF WorkerEnd, Ordered, Tracked, InSequence, Reached, Running, Latest, FinPcs, InLoop
<1>32. ASSUME NEW d \in Dirs, BeginRemove(d) PROVE Durable
    BY <1>32, PlainJob, MainType
       DEF BeginRemove, Ordered, Tracked, InSequence, Reached, Running, Latest, FinPcs, InLoop
<1>33. ASSUME NEW d \in Dirs, EndRemove(d) PROVE Durable
    BY <1>33, PlainJob, MainType
       DEF EndRemove, Ordered, Tracked, InSequence, Reached, Running, Latest, FinPcs, InLoop
<1>34. CASE RerunExit
    BY <1>34, PlainJob, MainType
       DEF RerunExit, StartSave, Ordered, Tracked, InSequence, Reached, Running, Latest, FinPcs, InLoop
<1>35. CASE SignalExit
    BY <1>35, PlainJob, MainType
       DEF SignalExit, StartSave, Ordered, Tracked, InSequence, Reached, Running, Latest, FinPcs, InLoop
<1>36. CASE DurationExit
    BY <1>36, PlainJob, MainType
       DEF DurationExit, StartSave, DueKind, Ordered, Tracked, InSequence, Reached, Running, Latest, FinPcs, InLoop
<1>37. CASE Crash
    BY <1>37, PlainJob, MainType
       DEF Crash, Relaunched, FreshCaches, Ordered, Tracked, InSequence, Reached, Running, Latest, FinPcs, InLoop
<1>38. CASE InProcessRestart
    BY <1>38, PlainJob, MainType
       DEF InProcessRestart, Relaunched, Ordered, Tracked, InSequence, Reached, Running, Latest, FinPcs, InLoop
<1>39. CASE Terminating
    BY <1>39, PlainJob, MainType
       DEF Terminating, vars, Ordered, Tracked, InSequence, Reached, Running, Latest, FinPcs, InLoop
<1>. QED
    BY <1>1, <1>2, <1>3, <1>4, <1>5, <1>6, <1>7, <1>8, <1>9, <1>10, <1>11, <1>12, <1>13, <1>14, <1>15, <1>16, <1>17, <1>18, <1>19, <1>20, <1>21, <1>22, <1>23, <1>24, <1>25, <1>26, <1>27, <1>28, <1>29, <1>30, <1>31, <1>32, <1>33, <1>34, <1>35, <1>36, <1>37, <1>38, <1>39
       DEF Next, Job, Worker, Remover
LEMMA ReachedSteps == ASSUME TypeOK, OneKind PROVE Reached \in Nat /\ Latest \in Nat
BY MainType DEF Reached

\* No published step is ever given up, and a job that starts again goes on
\* exactly from the last one.  Not so with checkpoints of both kinds, of which
\* the first may be overlooked (CheckpointExists), nor with a restart inside the
\* process, which reads old trackers from read_train_state's cache.
THEOREM Implementation ==
    (\A s \in Setups : Plain(s)) => (Spec => ImplementsDurableTraining)
<1>. SUFFICES ASSUME \A s \in Setups : Plain(s) PROVE Spec => ImplementsDurableTraining
    OBVIOUS
<1>. DEFINE Inv == Basic /\ Plain(setup) /\ Ordered
            current == IF Running THEN step ELSE Published
<1>1. Inv => Published = Latest
    BY PublishedIsLatest DEF Basic, Ordered
<1>2. ASSUME Init, Inv PROVE Promise!Init
  <2>1. Latest = 0 /\ ~Running
    BY <1>2 DEF Init, Latest, Running, None, Torn, Kinds
  <2>. QED  BY <1>1, <1>2, <2>1 DEF Promise!Init
<1>3. ASSUME Inv, Inv', [Next]_vars PROVE [Promise!Next]_(Promise!vars)
  <2>1. CASE Next
    <3>1. /\ Latest \in Nat /\ Reached \in Nat
          /\ \/ Latest' = Latest /\ Reached' \in {Reached, Reached + 1, Latest}
             \/ Latest' \in Latest .. Reached /\ Reached' = Reached
        BY <1>3, <2>1, StepsDurable, ReachedSteps DEF Basic, Ordered
    <3>2. Published = Latest /\ current = Reached
        BY <1>1, <1>3 DEF Reached
    <3>3. (Published = Latest)'
        BY <1>1, <1>3, PTL
    <3>4. current' = Reached'
        BY <3>3 DEF Reached
    <3>. QED
        BY <3>1, <3>2, <3>3, <3>4
           DEF Promise!Next, Promise!vars, Promise!Advance, Promise!Publish, Promise!Stop
  <2>2. CASE UNCHANGED vars
    BY <2>2 DEF vars, Published, Running, NonPersistentInterval, Promise!vars
  <2>. QED  BY <1>3, <2>1, <2>2
<1>. QED
    BY <1>2, <1>3, OrderedInvariant, PTL DEF Spec, ImplementsDurableTraining, Promise!Spec
-----------------------------------------------------------------------------
(* The data of the checkpoints, of jobs whose clean-up is safe: none, or *)
(* synchronous with more checkpoints to keep than there are crashes.     *)

Safe(s) == Plain(s) /\ (s.keep \in {-1, 0} \/ (~s.async /\ s.keep > s.crashes))

\* The directories newer than the last checkpoint: those that crashes have left,
\* and the one of the save under way.
Beyond == {d \in Dirs : data[d] # "absent" /\ d[2] > Latest}
UnderWay == IF pc \in {"data", "metadata", "state", "copy"} THEN {saving} ELSE {}
Leftover == Beyond \ UnderWay

\* What is removed is not the last checkpoint, and each crash leaves at most one
\* directory that is newer.
Removals ==
    /\ \A d \in Dirs : data[d] # "absent" => d[1] = "main"
    /\ doomed # {} => ~AsyncSave /\ pc = "postremove"
    /\ \A d \in doomed : tracker["main"] # d[2]
    /\ ~AsyncSave => Cardinality(Leftover) <= counts.crashes

Queued(d) == \E i \in 1 .. Len(pending) : pending[i].dir = d

\* The requests, which are served in their order, and their data.
Requests ==
    /\ pc # "failed"
    /\ \A i \in 1 .. Len(pending) :
          /\ pending[i].stage # "failed"
          /\ data[pending[i].dir] # "absent"
          /\ pending[i].stage = "written" =>
                \/ data[pending[i].dir] = "full"
                \/ \E j \in i + 1 .. Len(pending) : pending[j].dir = pending[i].dir
          /\ pending[i].stage # "queued" =>
                \A j \in 1 .. i - 1 : pending[j].stage = "written"

\* The checkpoint being finalized, and the last one.
Finalized ==
    /\ pc \in FinPcs => data[fin] # "absent" /\ (data[fin] = "full" \/ Queued(fin))
    /\ pc = "data" => data[saving] # "absent"
    /\ pc \in FinPcs \ {"metadata"} => fin \in meta
    /\ pc \in {"tracker", "legacy", "config"} => state[fin] = fin[2]
    /\ pc \notin {"load", "stuck"} =>
          \A d \in Dirs : d[1] = "main" /\ tracker["main"] = d[2] => Complete(d) \/ Rewriting(d)

Kept == Removals /\ Requests /\ Finalized

LEMMA LeftoverNext ==
    ASSUME TypeOK, InLoop, Counters, Safe(setup), Ordered, Kept, Next
    PROVE  ~AsyncSave =>
             \/ Leftover' \subseteq Leftover /\ counts'.crashes = counts.crashes
             \/ Leftover' \subseteq Leftover \cup {saving} /\ counts'.crashes = counts.crashes + 1
<1>. SUFFICES ASSUME ~AsyncSave
             PROVE  \/ Leftover' \subseteq Leftover /\ counts'.crashes = counts.crashes
                    \/ /\ Leftover' \subseteq Leftover \cup {saving}
                       /\ counts'.crashes = counts.crashes + 1
    OBVIOUS
<1>. DEFINE Few == \/ Leftover' \subseteq Leftover /\ counts'.crashes = counts.crashes
                   \/ Leftover' \subseteq Leftover \cup {saving} /\ counts'.crashes = counts.crashes + 1
<1>. setup' = setup
    BY DEF Next
<1>. Plain(setup) /\ OneKind
    BY DEF Safe, Ordered
<1>. /\ data \in [Dirs -> {"absent", "torn", "full"}] /\ saving \in Dirs /\ fin \in Dirs
     /\ state \in [Dirs -> Files] /\ meta \subseteq Dirs
    BY DEF TypeOK
<1>. \A d \in Dirs : d[2] \in Nat
    BY DirsType DEF Steps
<1>1. CASE LoadNothing
    BY <1>1, PlainJob, MainType, LoadedStep
       DEF LoadNothing, Ordered, Tracked, Current, InSequence, Kept, Finalized, Leftover, Beyond, UnderWay, Latest, AsyncSave, TypeOK, FinPcs, InLoop
<1>2. CASE LoadCheckpoint
    BY <1>2, PlainJob, MainType, LoadedStep
       DEF LoadCheckpoint, Ordered, Tracked, Current, InSequence, Kept, Finalized, Leftover, Beyond, UnderWay, Latest, AsyncSave, TypeOK, FinPcs, InLoop
<1>3. CASE LoadFails
    BY <1>3, PlainJob, MainType
       DEF LoadFails, Ordered, Tracked, Current, InSequence, Kept, Finalized, Leftover, Beyond, UnderWay, Latest, AsyncSave, TypeOK, FinPcs, InLoop
<1>4. CASE LoopTest
    BY <1>4, PlainJob, MainType
       DEF LoopTest, Ordered, Tracked, Current, InSequence, Kept, Finalized, Leftover, Beyond, UnderWay, Latest, AsyncSave, TypeOK, FinPcs, InLoop
<1>5. CASE PollDone
    BY <1>5, PlainJob, MainType
       DEF PollDone, Ordered, Tracked, Current, InSequence, Kept, Finalized, Leftover, Beyond, UnderWay, Latest, AsyncSave, TypeOK, FinPcs, InLoop
<1>6. CASE Ramp
    BY <1>6, PlainJob, MainType
       DEF Ramp, StartSave, Ordered, Tracked, Current, InSequence, Kept, Finalized, Leftover, Beyond, UnderWay, Latest, AsyncSave, TypeOK, FinPcs, InLoop
<1>7. CASE TrainStep
    BY <1>7, PlainJob, MainType
       DEF TrainStep, Ordered, Tracked, Current, InSequence, Kept, Finalized, Leftover, Beyond, UnderWay, Latest, AsyncSave, TypeOK, FinPcs, InLoop
<1>8. CASE RegularSave
    BY <1>8, PlainJob, MainType
       DEF RegularSave, StartSave, DueKind, Ordered, Tracked, Current, InSequence, Kept, Finalized, Leftover, Beyond, UnderWay, Latest, AsyncSave, TypeOK, FinPcs, InLoop
<1>9. CASE NoSave
    BY <1>9, PlainJob, MainType
       DEF NoSave, Ordered, Tracked, Current, InSequence, Kept, Finalized, Leftover, Beyond, UnderWay, Latest, AsyncSave, TypeOK, FinPcs, InLoop
<1>10. CASE FinalSave
    BY <1>10, PlainJob, MainType
       DEF FinalSave, StartSave, Ordered, Tracked, Current, InSequence, Kept, Finalized, Leftover, Beyond, UnderWay, Latest, AsyncSave, TypeOK, FinPcs, InLoop
<1>11. CASE CleanBefore
    BY <1>11, PlainJob, MainType
       DEF CleanBefore, Clean, Ordered, Tracked, Current, InSequence, Kept, Finalized, Leftover, Beyond, UnderWay, Latest, AsyncSave, TypeOK, FinPcs, InLoop
<1>12. CASE CleanAfter
    BY <1>12, PlainJob, MainType
       DEF CleanAfter, Clean, Ordered, Tracked, Current, InSequence, Kept, Finalized, Leftover, Beyond, UnderWay, Latest, AsyncSave, TypeOK, FinPcs, InLoop
<1>13. CASE KeepAll
    BY <1>13, PlainJob, MainType
       DEF KeepAll, Ordered, Tracked, Current, InSequence, Kept, Finalized, Leftover, Beyond, UnderWay, Latest, AsyncSave, TypeOK, FinPcs, InLoop
<1>14. CASE CleanedBefore
    BY <1>14, PlainJob, MainType
       DEF CleanedBefore, Ordered, Tracked, Current, InSequence, Kept, Finalized, Leftover, Beyond, UnderWay, Latest, AsyncSave, TypeOK, FinPcs, InLoop
<1>15. CASE CleanedAfter
    BY <1>15, PlainJob, MainType
       DEF CleanedAfter, Ordered, Tracked, Current, InSequence, Kept, Finalized, Leftover, Beyond, UnderWay, Latest, AsyncSave, TypeOK, FinPcs, InLoop
<1>16. CASE BeginSyncSave
    BY <1>16, PlainJob, MainType
       DEF BeginSyncSave, Ordered, Tracked, Current, InSequence, Kept, Finalized, Leftover, Beyond, UnderWay, Latest, AsyncSave, TypeOK, FinPcs, InLoop
<1>17. CASE EndSyncSave
    BY <1>17, PlainJob, MainType
       DEF EndSyncSave, Ordered, Tracked, Current, InSequence, Kept, Finalized, Leftover, Beyond, UnderWay, Latest, AsyncSave, TypeOK, FinPcs, InLoop
<1>18. CASE ScheduleAsyncSave
    BY <1>18, PlainJob, MainType
       DEF ScheduleAsyncSave, Ordered, Tracked, Current, InSequence, Kept, Finalized, Leftover, Beyond, UnderWay, Latest, AsyncSave, TypeOK, FinPcs, InLoop
<1>19. CASE FinalizeHead
    BY <1>19, PlainJob, MainType
       DEF FinalizeHead, Ordered, Tracked, Current, InSequence, Kept, Finalized, Leftover, Beyond, UnderWay, Latest, AsyncSave, TypeOK, FinPcs, InLoop, Polling
<1>20. CASE HeadFailed
    BY <1>20, PlainJob, MainType
       DEF HeadFailed, Ordered, Tracked, Current, InSequence, Kept, Finalized, Leftover, Beyond, UnderWay, Latest, AsyncSave, TypeOK, FinPcs, InLoop
<1>21. CASE Drained
    BY <1>21, PlainJob, MainType
       DEF Drained, Ordered, Tracked, Current, InSequence, Kept, Finalized, Leftover, Beyond, UnderWay, Latest, AsyncSave, TypeOK, FinPcs, InLoop
<1>22. CASE WriteMetadata
    BY <1>22, PlainJob, MainType
       DEF WriteMetadata, Finalizing, Ordered, Tracked, Current, InSequence, Kept, Finalized, Leftover, Beyond, UnderWay, Latest, AsyncSave, TypeOK, FinPcs, InLoop
<1>23. CASE OpenTrainState
    BY <1>23, PlainJob, MainType
       DEF OpenTrainState, Finalizing, Ordered, Tracked, Current, InSequence, Kept, Finalized, Leftover, Beyond, UnderWay, Latest, AsyncSave, TypeOK, FinPcs, InLoop
<1>24. CASE CopyTrainState
    <2>1. fin = saving /\ fin' = fin /\ Latest' = fin[2] /\ Latest <= fin[2] /\ pc = "copy"
        BY <1>24, MainType
           DEF CopyTrainState, Finalizing, Ordered, Current, AsyncSave, FinPcs, InSequence, Latest
    <2>2. data' = data /\ counts' = counts /\ pc' = "tracker"
        BY <1>24 DEF CopyTrainState
    <2>. QED  BY <2>1, <2>2, MainType DEF Leftover, Beyond, UnderWay
<1>25. CASE CompleteTracker
    BY <1>25, PlainJob, MainType
       DEF CompleteTracker, Ordered, Tracked, Current, InSequence, Kept, Finalized, Leftover, Beyond, UnderWay, Latest, AsyncSave, TypeOK, FinPcs, InLoop
<1>26. CASE WriteLegacyTracker
    BY <1>26, PlainJob, MainType
       DEF WriteLegacyTracker, Ordered, Tracked, Current, InSequence, Kept, Finalized, Leftover, Beyond, UnderWay, Latest, AsyncSave, TypeOK, FinPcs, InLoop
<1>27. CASE WriteRunConfig
    BY <1>27, PlainJob, MainType
       DEF WriteRunConfig, Finalizing, Ordered, Tracked, Current, InSequence, Kept, Finalized, Leftover, Beyond, UnderWay, Latest, AsyncSave, TypeOK, FinPcs, InLoop
<1>28. CASE FinalizeRaises
    BY <1>28, PlainJob, MainType
       DEF FinalizeRaises, Ordered, Tracked, Current, InSequence, Kept, Finalized, Leftover, Beyond, UnderWay, Latest, AsyncSave, TypeOK, FinPcs, InLoop
<1>29. CASE Relaunch
    BY <1>29, PlainJob, MainType
       DEF Relaunch, Relaunched, FreshCaches, Ordered, Tracked, Current, InSequence, Kept, Finalized, Leftover, Beyond, UnderWay, Latest, AsyncSave, TypeOK, FinPcs, InLoop
<1>30. ASSUME NEW i \in 1 .. Len(pending), WorkerBegin(i) PROVE Few
    BY <1>30, PlainJob, MainType
       DEF WorkerBegin, Ordered, Tracked, Current, InSequence, Kept, Finalized, Leftover, Beyond, UnderWay, Latest, AsyncSave, TypeOK, FinPcs, InLoop
<1>31. ASSUME NEW i \in 1 .. Len(pending), WorkerEnd(i) PROVE Few
    BY <1>31, PlainJob, MainType
       DEF WorkerEnd, Ordered, Tracked, Current, InSequence, Kept, Finalized, Leftover, Beyond, UnderWay, Latest, AsyncSave, TypeOK, FinPcs, InLoop
<1>32. ASSUME NEW d \in Dirs, BeginRemove(d) PROVE Few
    BY <1>32, PlainJob, MainType
       DEF BeginRemove, Ordered, Tracked, Current, InSequence, Kept, Finalized, Leftover, Beyond, UnderWay, Latest, AsyncSave, TypeOK, FinPcs, InLoop
<1>33. ASSUME NEW d \in Dirs, EndRemove(d) PROVE Few
    BY <1>33, PlainJob, MainType
       DEF EndRemove, Ordered, Tracked, Current, InSequence, Kept, Finalized, Leftover, Beyond, UnderWay, Latest, AsyncSave, TypeOK, FinPcs, InLoop
<1>34. CASE RerunExit
    BY <1>34, PlainJob, MainType, CountType
       DEF RerunExit, StartSave, Ordered, Tracked, Current, InSequence, Kept, Finalized, Leftover, Beyond, UnderWay, Latest, AsyncSave, TypeOK, FinPcs, InLoop
<1>35. CASE SignalExit
    BY <1>35, PlainJob, MainType, CountType
       DEF SignalExit, StartSave, Ordered, Tracked, Current, InSequence, Kept, Finalized, Leftover, Beyond, UnderWay, Latest, AsyncSave, TypeOK, FinPcs, InLoop
<1>36. CASE DurationExit
    BY <1>36, PlainJob, MainType, CountType
       DEF DurationExit, StartSave, DueKind, Ordered, Tracked, Current, InSequence, Kept, Finalized, Leftover, Beyond, UnderWay, Latest, AsyncSave, TypeOK, FinPcs, InLoop
<1>37. CASE Crash
    BY <1>37, PlainJob, MainType, CountType
       DEF Crash, Relaunched, FreshCaches, Ordered, Tracked, Current, InSequence, Kept, Finalized, Leftover, Beyond, UnderWay, Latest, AsyncSave, TypeOK, FinPcs, InLoop
<1>38. CASE InProcessRestart
    BY <1>38, PlainJob, MainType
       DEF InProcessRestart, Relaunched, Ordered, Tracked, Current, InSequence, Kept, Finalized, Leftover, Beyond, UnderWay, Latest, AsyncSave, TypeOK, FinPcs, InLoop
<1>39. CASE Terminating
    BY <1>39, PlainJob, MainType
       DEF Terminating, vars, Ordered, Tracked, Current, InSequence, Kept, Finalized, Leftover, Beyond, UnderWay, Latest, AsyncSave, TypeOK, FinPcs, InLoop
<1>. QED
    BY <1>1, <1>2, <1>3, <1>4, <1>5, <1>6, <1>7, <1>8, <1>9, <1>10, <1>11, <1>12, <1>13, <1>14, <1>15, <1>16, <1>17, <1>18, <1>19, <1>20, <1>21, <1>22, <1>23, <1>24, <1>25, <1>26, <1>27, <1>28, <1>29, <1>30, <1>31, <1>32, <1>33, <1>34, <1>35, <1>36, <1>37, <1>38, <1>39
       DEF Next, Job, Worker, Remover

LEMMA RequestsNext ==
    ASSUME TypeOK, InLoop, Counters, Safe(setup), Ordered, Kept, Next
    PROVE  Requests'
<1>. setup' = setup
    BY DEF Next
<1>. Plain(setup) /\ OneKind
    BY DEF Safe, Ordered
<1>. /\ data \in [Dirs -> {"absent", "torn", "full"}] /\ saving \in Dirs /\ fin \in Dirs
     /\ state \in [Dirs -> Files] /\ meta \subseteq Dirs
    BY DEF TypeOK
<1>. \A d \in Dirs : d[2] \in Nat
    BY DirsType DEF Steps
<1>1. CASE LoadNothing
    BY <1>1, PlainJob, MainType
       DEF LoadNothing, Ordered, Current, Kept, Removals, Requests, AsyncSave, InLoop
<1>2. CASE LoadCheckpoint
    BY <1>2, PlainJob, MainType
       DEF LoadCheckpoint, Ordered, Current, Kept, Removals, Requests, AsyncSave, InLoop
<1>3. CASE LoadFails
    BY <1>3, PlainJob, MainType
       DEF LoadFails, Ordered, Current, Kept, Removals, Requests, AsyncSave, InLoop
<1>4. CASE LoopTest
    BY <1>4, PlainJob, MainType
       DEF LoopTest, Ordered, Current, Kept, Removals, Requests, AsyncSave, InLoop
<1>5. CASE PollDone
    BY <1>5, PlainJob, MainType
       DEF PollDone, Ordered, Current, Kept, Removals, Requests, AsyncSave, InLoop
<1>6. CASE Ramp
    BY <1>6, PlainJob, MainType, SMTT(30)
       DEF Ramp, StartSave, Ordered, Current, Kept, Removals, Requests, AsyncSave, InLoop
<1>7. CASE TrainStep
    BY <1>7, PlainJob, MainType
       DEF TrainStep, Ordered, Current, Kept, Removals, Requests, AsyncSave, InLoop
<1>8. CASE RegularSave
    BY <1>8, PlainJob, MainType
       DEF RegularSave, StartSave, DueKind, Ordered, Current, Kept, Removals, Requests, AsyncSave, InLoop
<1>9. CASE NoSave
    BY <1>9, PlainJob, MainType
       DEF NoSave, Ordered, Current, Kept, Removals, Requests, AsyncSave, InLoop
<1>10. CASE FinalSave
    BY <1>10, PlainJob, MainType, SMTT(30)
       DEF FinalSave, StartSave, Ordered, Current, Kept, Removals, Requests, AsyncSave, InLoop
<1>11. CASE CleanBefore
    BY <1>11, PlainJob, MainType
       DEF CleanBefore, Clean, Ordered, Current, Kept, Removals, Requests, AsyncSave, InLoop
<1>12. CASE CleanAfter
    BY <1>12, PlainJob, MainType
       DEF CleanAfter, Clean, Ordered, Current, Kept, Removals, Requests, AsyncSave, InLoop
<1>13. CASE KeepAll
    BY <1>13, PlainJob, MainType
       DEF KeepAll, Ordered, Current, Kept, Removals, Requests, AsyncSave, InLoop
<1>14. CASE CleanedBefore
    BY <1>14, PlainJob, MainType
       DEF CleanedBefore, Ordered, Current, Kept, Removals, Requests, AsyncSave, InLoop
<1>15. CASE CleanedAfter
    BY <1>15, PlainJob, MainType
       DEF CleanedAfter, Ordered, Current, Kept, Removals, Requests, AsyncSave, InLoop
<1>16. CASE BeginSyncSave
    BY <1>16, PlainJob, MainType
       DEF BeginSyncSave, Ordered, Current, Kept, Removals, Requests, AsyncSave, InLoop
<1>17. CASE EndSyncSave
    BY <1>17, PlainJob, MainType
       DEF EndSyncSave, Ordered, Current, Kept, Removals, Requests, AsyncSave, InLoop
<1>18. CASE ScheduleAsyncSave
    <2>. DEFINE x == [dir |-> saving, stage |-> "queued"]
                n == Len(pending)
    <2>1. /\ pending' = Append(pending, x) /\ pc' = "postclean"
          /\ \A d \in Dirs : data'[d] = IF d = saving /\ data[d] = "absent" THEN "torn" ELSE data[d]
        BY <1>18 DEF ScheduleAsyncSave
    <2>2. /\ n \in Nat /\ Len(pending') = n + 1 /\ pending'[n + 1] = x
          /\ \A i \in 1 .. n : pending'[i] = pending[i]
        BY <2>1 DEF TypeOK
    <2>3. x.dir = saving /\ x.stage = "queued"
        OBVIOUS
    <2>4. \A i \in 1 .. n : pending[i].dir \in Dirs
        BY MainType
    <2>5. \A i \in 1 .. n :
            /\ pending[i].stage # "failed" /\ data[pending[i].dir] # "absent"
            /\ pending[i].stage = "written" =>
                  data[pending[i].dir] = "full" \/ \E j \in i + 1 .. n : pending[j].dir = pending[i].dir
            /\ pending[i].stage # "queued" => \A j \in 1 .. i - 1 : pending[j].stage = "written"
        BY DEF Kept, Requests
    <2>. HIDE DEF n, x
    <2>6. ASSUME NEW i \in 1 .. n + 1
          PROVE  /\ pending'[i].stage # "failed" /\ data'[pending'[i].dir] # "absent"
                 /\ pending'[i].stage = "written" =>
                      \/ data'[pending'[i].dir] = "full"
                      \/ \E j \in i + 1 .. n + 1 : pending'[j].dir = pending'[i].dir
                 /\ pending'[i].stage # "queued" =>
                      \A j \in 1 .. i - 1 : pending'[j].stage = "written"
      <3>1. CASE i = n + 1
        BY <2>1, <2>2, <2>3, <3>1
      <3>2. CASE i \in 1 .. n
        <4>1. pending'[i] = pending[i] /\ data'[pending[i].dir] = data[pending[i].dir]
            BY <2>1, <2>2, <2>4, <2>5, <3>2
        <4>2. \A j \in i + 1 .. n : j \in i + 1 .. n + 1 /\ pending'[j] = pending[j]
            BY <2>2, <3>2
        <4>3. \A j \in 1 .. i - 1 : pending'[j] = pending[j]
            BY <2>2, <3>2
        <4>. QED  BY <2>5, <3>2, <4>1, <4>2, <4>3
      <3>. QED  BY <2>2, <3>1, <3>2
    <2>. QED  BY <2>1, <2>2, <2>6 DEF Requests
<1>19. CASE FinalizeHead
    <2>. DEFINE n == Len(pending)
    <2>1. /\ pending' = Tail(pending) /\ pc' = "metadata" /\ data' = data /\ n \in Nat
          /\ pending # <<>>
        BY <1>19, MainType DEF FinalizeHead
    <2>2. Len(pending') = n - 1 /\ \A i \in 1 .. n - 1 : pending'[i] = pending[i + 1]
        BY <2>1, HeadType
    <2>3. ASSUME NEW k \in 1 .. n - 1
          PROVE  /\ pending'[k].stage # "failed" /\ data'[pending'[k].dir] # "absent"
                 /\ pending'[k].stage = "written" =>
                      \/ data'[pending'[k].dir] = "full"
                      \/ \E j \in k + 1 .. n - 1 : pending'[j].dir = pending'[k].dir
                 /\ pending'[k].stage # "queued" =>
                      \A j \in 1 .. k - 1 : pending'[j].stage = "written"
      <3>1. k + 1 \in 1 .. n /\ pending'[k] = pending[k + 1]
        BY <2>1, <2>2
      <3>2. pending[k + 1].stage # "failed" /\ data[pending[k + 1].dir] # "absent"
        BY <3>1 DEF Kept, Requests
      <3>3. ASSUME pending[k + 1].stage = "written", data[pending[k + 1].dir] # "full"
            PROVE  \E j \in k + 1 .. n - 1 : pending'[j].dir = pending'[k].dir
        <4>1. PICK j \in (k + 1) + 1 .. n : pending[j].dir = pending[k + 1].dir
            BY <3>1, <3>3 DEF Kept, Requests
        <4>2. j - 1 \in k + 1 .. n - 1 /\ pending'[j - 1] = pending[j]
          <5>1. j - 1 \in k + 1 .. n - 1 /\ j - 1 \in 1 .. n - 1 /\ (j - 1) + 1 = j
            BY <2>1
          <5>. QED  BY <2>2, <5>1
        <4>. QED  BY <3>1, <4>1, <4>2
      <3>4. ASSUME pending[k + 1].stage # "queued", NEW j \in 1 .. k - 1
            PROVE  pending'[j].stage = "written"
        <4>1. j \in 1 .. n - 1 /\ j + 1 \in 1 .. (k + 1) - 1
            BY <2>1
        <4>. QED  BY <2>2, <3>1, <3>4, <4>1 DEF Kept, Requests
      <3>. QED  BY <2>1, <3>1, <3>2, <3>3, <3>4
    <2>. QED  BY <2>1, <2>2, <2>3 DEF Requests
<1>20. CASE HeadFailed
    BY <1>20, PlainJob, MainType
       DEF HeadFailed, Ordered, Current, Kept, Removals, Requests, AsyncSave, InLoop
<1>21. CASE Drained
    BY <1>21, PlainJob, MainType
       DEF Drained, Ordered, Current, Kept, Removals, Requests, AsyncSave, InLoop
<1>22. CASE WriteMetadata
    BY <1>22, PlainJob, MainType
       DEF WriteMetadata, Finalizing, Ordered, Current, Kept, Removals, Requests, AsyncSave, InLoop
<1>23. CASE OpenTrainState
    BY <1>23, PlainJob, MainType
       DEF OpenTrainState, Finalizing, Ordered, Current, Kept, Removals, Requests, AsyncSave, InLoop
<1>24. CASE CopyTrainState
    BY <1>24, PlainJob, MainType
       DEF CopyTrainState, Finalizing, Ordered, Current, Kept, Removals, Requests, AsyncSave, InLoop
<1>25. CASE CompleteTracker
    BY <1>25, PlainJob, MainType
       DEF CompleteTracker, Ordered, Current, Kept, Removals, Requests, AsyncSave, InLoop
<1>26. CASE WriteLegacyTracker
    BY <1>26, PlainJob, MainType
       DEF WriteLegacyTracker, Ordered, Current, Kept, Removals, Requests, AsyncSave, InLoop
<1>27. CASE WriteRunConfig
    BY <1>27, PlainJob, MainType
       DEF WriteRunConfig, Finalizing, Ordered, Current, Kept, Removals, Requests, AsyncSave, InLoop
<1>28. CASE FinalizeRaises
    BY <1>28, PlainJob, MainType
       DEF FinalizeRaises, Ordered, Current, Kept, Removals, Requests, AsyncSave, InLoop, Finalized, FinPcs
<1>29. CASE Relaunch
    BY <1>29, PlainJob, MainType
       DEF Relaunch, Relaunched, FreshCaches, Ordered, Current, Kept, Removals, Requests, AsyncSave, InLoop
<1>30. ASSUME NEW i \in 1 .. Len(pending), WorkerBegin(i) PROVE Requests'
    <2>. DEFINE n == Len(pending)
    <2>1. /\ pending[i].stage = "queued" /\ pc' = pc
          /\ \A j \in 1 .. i - 1 : pending[j].stage = "written"
        BY <1>30, MainType DEF WorkerBegin, NextRequest, Stages, Kept, Requests
    <2>2. Stage(i, "writing") /\ data' = [data EXCEPT ![pending[i].dir] = "torn"]
        BY <1>30 DEF WorkerBegin, Kept, Requests
    <2>3. /\ Len(pending') = n /\ n \in Nat /\ pending'[i].stage = "writing"
          /\ \A j \in 1 .. n : pending'[j].dir = pending[j].dir /\ pending[j].dir \in Dirs
          /\ \A j \in 1 .. n \ {i} : pending'[j] = pending[j]
        BY <2>2, StageType, MainType DEF Stages
    <2>4. ASSUME NEW k \in 1 .. n, k # i
          PROVE  /\ pending[k].stage # "queued" => k < i /\ k \in 1 .. i - 1
                 /\ pending[k].stage = "written" \/ pending[k].stage = "queued"
        BY <2>1, <2>4, <2>3 DEF Kept, Requests
    <2>5. ASSUME NEW k \in 1 .. n
          PROVE  /\ pending'[k].stage # "failed" /\ data'[pending'[k].dir] # "absent"
                 /\ pending'[k].stage = "written" =>
                      \/ data'[pending'[k].dir] = "full"
                      \/ \E j \in k + 1 .. n : pending'[j].dir = pending'[k].dir
                 /\ pending'[k].stage # "queued" =>
                      \A j \in 1 .. k - 1 : pending'[j].stage = "written"
      <3>1. CASE k = i
        BY <2>1, <2>2, <2>3, <3>1
      <3>2. CASE k # i
        <4>1. pending'[k] = pending[k] /\ pending[k].stage # "failed"
            BY <2>3, <3>2 DEF Kept, Requests
        <4>2. data'[pending[k].dir] # "absent"
            BY <2>2, <2>3 DEF Kept, Requests
        <4>3. ASSUME pending[k].stage = "written"
              PROVE  \/ data'[pending[k].dir] = "full"
                     \/ \E j \in k + 1 .. n : pending'[j].dir = pending[k].dir
          <5>1. CASE pending[k].dir = pending[i].dir
            BY <2>3, <2>4, <3>2, <4>3, <5>1
          <5>2. CASE pending[k].dir # pending[i].dir
            <6>1. data'[pending[k].dir] = data[pending[k].dir]
                BY <2>2, <2>3, <5>2
            <6>2. \/ data[pending[k].dir] = "full"
                  \/ \E j \in k + 1 .. n : pending[j].dir = pending[k].dir
                BY <4>3 DEF Kept, Requests
            <6>3. \A j \in k + 1 .. n : j \in 1 .. n
                BY <2>3
            <6>. QED  BY <2>3, <6>1, <6>2, <6>3
          <5>. QED  BY <5>1, <5>2
        <4>4. pending[k].stage # "queued" => \A j \in 1 .. k - 1 : pending'[j].stage = "written"
            BY <2>1, <2>3, <2>4, <3>2
        <4>. QED  BY <4>1, <4>2, <4>3, <4>4
      <3>. QED  BY <3>1, <3>2
    <2>. QED  BY <2>1, <2>3, <2>5 DEF Kept, Requests
<1>31. ASSUME NEW i \in 1 .. Len(pending), WorkerEnd(i) PROVE Requests'
    <2>. DEFINE n == Len(pending)
    <2>1. /\ pending[i].stage = "writing" /\ pc' = pc
          /\ \A j \in 1 .. i - 1 : pending[j].stage = "written"
        BY <1>31 DEF WorkerEnd, Kept, Requests
    <2>2. Stage(i, "written") /\ data' = [data EXCEPT ![pending[i].dir] = "full"]
        BY <1>31, MainType DEF WorkerEnd, Kept, Requests
    <2>3. /\ Len(pending') = n /\ n \in Nat /\ pending'[i].stage = "written"
          /\ \A j \in 1 .. n : pending'[j].dir = pending[j].dir /\ pending[j].dir \in Dirs
          /\ \A j \in 1 .. n \ {i} : pending'[j] = pending[j]
        BY <2>2, StageType, MainType DEF Stages
    <2>4. ASSUME NEW k \in 1 .. n
          PROVE  /\ pending'[k].stage # "failed" /\ data'[pending'[k].dir] # "absent"
                 /\ pending'[k].stage = "written" =>
                      \/ data'[pending'[k].dir] = "full"
                      \/ \E j \in k + 1 .. n : pending'[j].dir = pending'[k].dir
                 /\ pending'[k].stage # "queued" =>
                      \A j \in 1 .. k - 1 : pending'[j].stage = "written"
      <3>1. CASE k = i
        BY <2>1, <2>2, <2>3, <3>1
      <3>2. CASE k # i
        <4>1. pending'[k] = pending[k] /\ pending[k].stage # "failed"
            BY <2>3, <3>2 DEF Kept, Requests
        <4>2. /\ data'[pending[k].dir] # "absent"
              /\ data[pending[k].dir] = "full" => data'[pending[k].dir] = "full"
            BY <2>2, <2>3 DEF Kept, Requests
        <4>3. \A j \in k + 1 .. n : j \in 1 .. n /\ pending'[j].dir = pending[j].dir
            BY <2>3
        <4>4. pending[k].stage = "written" =>
                     \/ data'[pending[k].dir] = "full"
                     \/ \E j \in k + 1 .. n : pending'[j].dir = pending[k].dir
            BY <4>2, <4>3 DEF Kept, Requests
        <4>5. ASSUME pending[k].stage # "queued", NEW j \in 1 .. k - 1
              PROVE  pending'[j].stage = "written"
            BY <2>1, <2>3, <4>5 DEF Kept, Requests
        <4>. QED  BY <4>1, <4>2, <4>4, <4>5
      <3>. QED  BY <3>1, <3>2
    <2>. QED  BY <2>1, <2>3, <2>4 DEF Kept, Requests
<1>32. ASSUME NEW d \in Dirs, BeginRemove(d) PROVE Requests'
    BY <1>32, PlainJob, MainType
       DEF BeginRemove, Ordered, Current, Kept, Removals, Requests, AsyncSave, InLoop
<1>33. ASSUME NEW d \in Dirs, EndRemove(d) PROVE Requests'
    BY <1>33, PlainJob, MainType
       DEF EndRemove, Ordered, Current, Kept, Removals, Requests, AsyncSave, InLoop
<1>34. CASE RerunExit
    BY <1>34, PlainJob, MainType
       DEF RerunExit, StartSave, Ordered, Current, Kept, Removals, Requests, AsyncSave, InLoop
<1>35. CASE SignalExit
    BY <1>35, PlainJob, MainType
       DEF SignalExit, StartSave, Ordered, Current, Kept, Removals, Requests, AsyncSave, InLoop
<1>36. CASE DurationExit
    BY <1>36, PlainJob, MainType
       DEF DurationExit, StartSave, DueKind, Ordered, Current, Kept, Removals, Requests, AsyncSave, InLoop
<1>37. CASE Crash
    BY <1>37, PlainJob, MainType
       DEF Crash, Relaunched, FreshCaches, Ordered, Current, Kept, Removals, Requests, AsyncSave, InLoop
<1>38. CASE InProcessRestart
    BY <1>38, PlainJob, MainType
       DEF InProcessRestart, Relaunched, Ordered, Current, Kept, Removals, Requests, AsyncSave, InLoop
<1>39. CASE Terminating
    BY <1>39, PlainJob, MainType
       DEF Terminating, vars, Ordered, Current, Kept, Removals, Requests, AsyncSave, InLoop
<1>. QED
    BY <1>1, <1>2, <1>3, <1>4, <1>5, <1>6, <1>7, <1>8, <1>9, <1>10, <1>11, <1>12, <1>13, <1>14, <1>15, <1>16, <1>17, <1>18, <1>19, <1>20, <1>21, <1>22, <1>23, <1>24, <1>25, <1>26, <1>27, <1>28, <1>29, <1>30, <1>31, <1>32, <1>33, <1>34, <1>35, <1>36, <1>37, <1>38, <1>39
       DEF Next, Job, Worker, Remover

LEMMA FinalizedNext ==
    ASSUME TypeOK, InLoop, Counters, Safe(setup), Ordered, Kept, Next
    PROVE  Finalized'
<1>. setup' = setup
    BY DEF Next
<1>. Plain(setup) /\ OneKind
    BY DEF Safe, Ordered
<1>. /\ data \in [Dirs -> {"absent", "torn", "full"}] /\ saving \in Dirs /\ fin \in Dirs
     /\ state \in [Dirs -> Files] /\ meta \subseteq Dirs
    BY DEF TypeOK
<1>. \A d \in Dirs : d[2] \in Nat
    BY DirsType DEF Steps
<1>1. CASE LoadNothing
    <2>1. tracker["main"] = None /\ tracker' = tracker /\ pc' = "top"
        BY <1>1 DEF LoadNothing, CheckpointExists
    <2>. QED  BY <2>1, MainType DEF Finalized, FinPcs
<1>2. CASE LoadCheckpoint
    <2>1. /\ ChosenCheckpoint = <<"main", tracker["main"]>> /\ Loadable(ChosenCheckpoint)
          /\ ChosenCheckpoint \in Dirs
        BY <1>2, LoadedStep, ChosenType DEF LoadCheckpoint
    <2>2. UNCHANGED <<data, meta, state, tracker>> /\ pc' = "top"
        BY <1>2 DEF LoadCheckpoint
    <2>3. ASSUME NEW d \in Dirs, d[1] = "main", tracker["main"] = d[2] PROVE Complete(d)
        <3>1. d = ChosenCheckpoint
            BY <2>1, <2>3, DirsType
        <3>. QED  BY <2>1, <3>1 DEF Loadable, Complete, Counters
    <2>. QED  BY <2>2, <2>3 DEF Finalized, FinPcs, Complete
<1>3. CASE LoadFails
    BY <1>3, PlainJob, MainType
       DEF LoadFails, Ordered, Tracked, Current, Kept, Removals, Requests, Finalized, Queued, Complete, Rewriting, AsyncSave, FinPcs, InLoop
<1>4. CASE LoopTest
    BY <1>4, PlainJob, MainType
       DEF LoopTest, Ordered, Tracked, Current, Kept, Removals, Requests, Finalized, Queued, Complete, Rewriting, AsyncSave, FinPcs, InLoop
<1>5. CASE PollDone
    BY <1>5, PlainJob, MainType
       DEF PollDone, Ordered, Tracked, Current, Kept, Removals, Requests, Finalized, Queued, Complete, Rewriting, AsyncSave, FinPcs, InLoop
<1>6. CASE Ramp
    BY <1>6, PlainJob, MainType
       DEF Ramp, StartSave, Ordered, Tracked, Current, Kept, Removals, Requests, Finalized, Queued, Complete, Rewriting, AsyncSave, FinPcs, InLoop
<1>7. CASE TrainStep
    BY <1>7, PlainJob, MainType
       DEF TrainStep, Ordered, Tracked, Current, Kept, Removals, Requests, Finalized, Queued, Complete, Rewriting, AsyncSave, FinPcs, InLoop
<1>8. CASE RegularSave
    BY <1>8, PlainJob, MainType
       DEF RegularSave, StartSave, DueKind, Ordered, Tracked, Current, Kept, Removals, Requests, Finalized, Queued, Complete, Rewriting, AsyncSave, FinPcs, InLoop
<1>9. CASE NoSave
    BY <1>9, PlainJob, MainType
       DEF NoSave, Ordered, Tracked, Current, Kept, Removals, Requests, Finalized, Queued, Complete, Rewriting, AsyncSave, FinPcs, InLoop
<1>10. CASE FinalSave
    BY <1>10, PlainJob, MainType, SMTT(30)
       DEF FinalSave, StartSave, Ordered, Tracked, Current, Kept, Removals, Requests, Finalized, Queued, Complete, Rewriting, AsyncSave, FinPcs, InLoop
<1>11. CASE CleanBefore
    BY <1>11, PlainJob, MainType
       DEF CleanBefore, Clean, Ordered, Tracked, Current, Kept, Removals, Requests, Finalized, Queued, Complete, Rewriting, AsyncSave, FinPcs, InLoop
<1>12. CASE CleanAfter
    BY <1>12, PlainJob, MainType
       DEF CleanAfter, Clean, Ordered, Tracked, Current, Kept, Removals, Requests, Finalized, Queued, Complete, Rewriting, AsyncSave, FinPcs, InLoop
<1>13. CASE KeepAll
    BY <1>13, PlainJob, MainType
       DEF KeepAll, Ordered, Tracked, Current, Kept, Removals, Requests, Finalized, Queued, Complete, Rewriting, AsyncSave, FinPcs, InLoop
<1>14. CASE CleanedBefore
    BY <1>14, PlainJob, MainType
       DEF CleanedBefore, Ordered, Tracked, Current, Kept, Removals, Requests, Finalized, Queued, Complete, Rewriting, AsyncSave, FinPcs, InLoop
<1>15. CASE CleanedAfter
    BY <1>15, PlainJob, MainType
       DEF CleanedAfter, Ordered, Tracked, Current, Kept, Removals, Requests, Finalized, Queued, Complete, Rewriting, AsyncSave, FinPcs, InLoop
<1>16. CASE BeginSyncSave
    <2>1. /\ data' = [data EXCEPT ![saving] = "torn"] /\ pc = "begin" /\ pc' = "data"
          /\ UNCHANGED <<meta, state, tracker, saving, fin, pending>>
        BY <1>16 DEF BeginSyncSave
    <2>2. ASSUME NEW d \in Dirs, d # saving PROVE data'[d] = data[d]
        BY <2>1, <2>2
    <2>. QED  BY <2>1, <2>2 DEF Kept, Finalized, Complete, Rewriting, FinPcs
<1>17. CASE EndSyncSave
    <2>1. /\ data' = [data EXCEPT ![saving] = "full"] /\ pc = "data" /\ pc' = "metadata"
          /\ UNCHANGED <<meta, state, tracker, saving, pending>> /\ fin' = saving
        BY <1>17 DEF EndSyncSave
    <2>2. ASSUME NEW d \in Dirs, d # saving PROVE data'[d] = data[d]
        BY <2>1, <2>2
    <2>. QED  BY <2>1, <2>2 DEF Kept, Finalized, Complete, Rewriting, FinPcs
<1>18. CASE ScheduleAsyncSave
    BY <1>18, PlainJob, MainType
       DEF ScheduleAsyncSave, Ordered, Tracked, Current, Kept, Removals, Requests, Finalized, Queued, Complete, Rewriting, AsyncSave, FinPcs, InLoop
<1>19. CASE FinalizeHead
    <2>. DEFINE n == Len(pending)
                d0 == pending[1].dir
    <2>1. /\ pending' = Tail(pending) /\ pc' = "metadata" /\ data' = data /\ n \in Nat
          /\ pending # <<>> /\ fin' = d0 /\ UNCHANGED <<meta, state, tracker>>
          /\ pending[1].stage = "written" /\ pc \notin {"load", "stuck"} /\ pc \notin FinPcs
          /\ pc # "data" /\ 1 \in 1 .. n
        BY <1>19, MainType, HeadType DEF FinalizeHead, Completed, Polling, FinPcs
    <2>2. Len(pending') = n - 1 /\ \A i \in 1 .. n - 1 : pending'[i] = pending[i + 1]
        BY <2>1, HeadType
    <2>3. ASSUME NEW d \in Dirs, NEW j \in 1 .. n, pending[j].dir = d
          PROVE  d = d0 \/ \E k \in 1 .. n - 1 : pending'[k].dir = d
      <3>1. CASE j = 1
        BY <2>3, <3>1
      <3>2. CASE j # 1
        <4>1. j - 1 \in 1 .. n - 1 /\ (j - 1) + 1 = j
            BY <2>1, <3>2
        <4>. QED  BY <2>2, <2>3, <4>1
      <3>. QED  BY <3>1, <3>2
    <2>4. data[d0] # "absent" /\ (data[d0] = "full" \/ \E k \in 1 .. n - 1 : pending'[k].dir = d0)
      <3>1. CASE data[d0] = "full"
        BY <3>1
      <3>2. CASE data[d0] # "full"
        <4>1. data[d0] # "absent" /\ \E j \in 1 + 1 .. n : pending[j].dir = d0
            BY <2>1, <3>2 DEF Kept, Requests
        <4>2. PICK j \in 2 .. n : pending[j].dir = d0
            BY <4>1
        <4>3. j - 1 \in 1 .. n - 1 /\ (j - 1) + 1 = j
            BY <2>1
        <4>. QED  BY <2>2, <4>1, <4>2, <4>3
      <3>. QED  BY <3>1, <3>2
    <2>5. ASSUME NEW d \in Dirs, d[1] = "main", tracker["main"] = d[2], ~Complete(d)
          PROVE  d = d0 \/ \E k \in 1 .. n - 1 : pending'[k].dir = d
        BY <2>1, <2>3, <2>5 DEF Kept, Finalized, Rewriting, FinPcs
    <2>. HIDE DEF n, d0
    <2>. QED  BY <2>1, <2>2, <2>4, <2>5 DEF Finalized, Queued, Complete, Rewriting, FinPcs
<1>20. CASE HeadFailed
    BY <1>20, PlainJob, MainType
       DEF HeadFailed, Ordered, Tracked, Current, Kept, Removals, Requests, Finalized, Queued, Complete, Rewriting, AsyncSave, FinPcs, InLoop
<1>21. CASE Drained
    BY <1>21, PlainJob, MainType
       DEF Drained, Ordered, Tracked, Current, Kept, Removals, Requests, Finalized, Queued, Complete, Rewriting, AsyncSave, FinPcs, InLoop
<1>22. CASE WriteMetadata
    BY <1>22, PlainJob, MainType
       DEF WriteMetadata, Finalizing, Ordered, Tracked, Current, Kept, Removals, Requests, Finalized, Queued, Complete, Rewriting, AsyncSave, FinPcs, InLoop
<1>23. CASE OpenTrainState
    BY <1>23, PlainJob, MainType
       DEF OpenTrainState, Finalizing, Ordered, Tracked, Current, Kept, Removals, Requests, Finalized, Queued, Complete, Rewriting, AsyncSave, FinPcs, InLoop
<1>24. CASE CopyTrainState
    <2>1. /\ state' = [state EXCEPT ![fin] = fin[2]] /\ pc = "copy" /\ pc' = "tracker"
          /\ tracker'["main"] = Torn /\ UNCHANGED <<data, meta, fin, pending>>
        BY <1>24, MainType DEF CopyTrainState, Finalizing
    <2>. QED  BY <2>1, MainType DEF Kept, Finalized, Queued, FinPcs
<1>25. CASE CompleteTracker
    <2>1. /\ tracker'["main"] = fin[2] /\ pc = "tracker" /\ pc' = "legacy"
          /\ UNCHANGED <<data, meta, state, fin, pending>>
        BY <1>25, MainType DEF CompleteTracker
    <2>2. ASSUME NEW d \in Dirs, d[1] = "main", d[2] = fin[2] PROVE d = fin
        BY <2>2, DirsType, MainType
    <2>3. fin \in meta /\ state[fin] = fin[2] /\ (data[fin] = "full" \/ Queued(fin)) /\ data[fin] # "absent"
        BY <2>1 DEF Kept, Finalized, FinPcs
    <2>. QED  BY <2>1, <2>2, <2>3 DEF Finalized, Queued, Complete, Rewriting, FinPcs
<1>26. CASE WriteLegacyTracker
    BY <1>26, PlainJob, MainType
       DEF WriteLegacyTracker, Ordered, Tracked, Current, Kept, Removals, Requests, Finalized, Queued, Complete, Rewriting, AsyncSave, FinPcs, InLoop
<1>27. CASE WriteRunConfig
    BY <1>27, PlainJob, MainType
       DEF WriteRunConfig, Finalizing, Ordered, Tracked, Current, Kept, Removals, Requests, Finalized, Queued, Complete, Rewriting, AsyncSave, FinPcs, InLoop
<1>28. CASE FinalizeRaises
    BY <1>28, PlainJob, MainType
       DEF FinalizeRaises, Ordered, Tracked, Current, Kept, Removals, Requests, Finalized, Queued, Complete, Rewriting, AsyncSave, FinPcs, InLoop
<1>29. CASE Relaunch
    BY <1>29, PlainJob, MainType
       DEF Relaunch, Relaunched, FreshCaches, Ordered, Tracked, Current, Kept, Removals, Requests, Finalized, Queued, Complete, Rewriting, AsyncSave, FinPcs, InLoop
<1>30. ASSUME NEW i \in 1 .. Len(pending), WorkerBegin(i) PROVE Finalized'
    <2>1. Stage(i, "writing") /\ data' = [data EXCEPT ![pending[i].dir] = "torn"]
        BY <1>30 DEF WorkerBegin, Kept, Requests
    <2>2. /\ Len(pending') = Len(pending)
          /\ \A j \in 1 .. Len(pending) : pending'[j].dir = pending[j].dir /\ pending[j].dir \in Dirs
        BY <2>1, StageType, MainType DEF Stages
    <2>3. UNCHANGED <<pc, meta, state, tracker, fin, saving>>
        BY <1>30 DEF WorkerBegin
    <2>4. \A d \in Dirs : Queued(d)' <=> Queued(d)
        BY <2>2 DEF Queued
    <2>5. Queued(pending[i].dir) /\ \A d \in Dirs : d # pending[i].dir => data'[d] = data[d]
        BY <2>1, <2>2 DEF Queued
    <2>6. data'[pending[i].dir] = "torn"
        BY <2>1, <2>2
    <2>. QED  BY <2>3, <2>4, <2>5, <2>6 DEF Kept, Finalized, Complete, Rewriting, Queued, FinPcs
<1>31. ASSUME NEW i \in 1 .. Len(pending), WorkerEnd(i) PROVE Finalized'
    <2>1. Stage(i, "written") /\ data' = [data EXCEPT ![pending[i].dir] = "full"]
        BY <1>31, MainType DEF WorkerEnd, Kept, Requests
    <2>2. /\ Len(pending') = Len(pending)
          /\ \A j \in 1 .. Len(pending) : pending'[j].dir = pending[j].dir /\ pending[j].dir \in Dirs
        BY <2>1, StageType, MainType DEF Stages
    <2>3. UNCHANGED <<pc, meta, state, tracker, fin, saving>>
        BY <1>31 DEF WorkerEnd
    <2>4. \A d \in Dirs : Queued(d)' <=> Queued(d)
        BY <2>2 DEF Queued
    <2>5. Queued(pending[i].dir) /\ \A d \in Dirs : d # pending[i].dir => data'[d] = data[d]
        BY <2>1, <2>2 DEF Queued
    <2>6. data'[pending[i].dir] = "full"
        BY <2>1, <2>2
    <2>. QED  BY <2>3, <2>4, <2>5, <2>6 DEF Kept, Finalized, Complete, Rewriting, Queued, FinPcs
<1>32. ASSUME NEW d \in Dirs, BeginRemove(d) PROVE Finalized'
    BY <1>32, PlainJob, MainType
       DEF BeginRemove, Ordered, Tracked, Current, Kept, Removals, Requests, Finalized, Queued, Complete, Rewriting, AsyncSave, FinPcs, InLoop
<1>33. ASSUME NEW d \in Dirs, EndRemove(d) PROVE Finalized'
    BY <1>33, PlainJob, MainType
       DEF EndRemove, Ordered, Tracked, Current, Kept, Removals, Requests, Finalized, Queued, Complete, Rewriting, AsyncSave, FinPcs, InLoop
<1>34. CASE RerunExit
    BY <1>34, PlainJob, MainType
       DEF RerunExit, StartSave, Ordered, Tracked, Current, Kept, Removals, Requests, Finalized, Queued, Complete, Rewriting, AsyncSave, FinPcs, InLoop
<1>35. CASE SignalExit
    BY <1>35, PlainJob, MainType
       DEF SignalExit, StartSave, Ordered, Tracked, Current, Kept, Removals, Requests, Finalized, Queued, Complete, Rewriting, AsyncSave, FinPcs, InLoop
<1>36. CASE DurationExit
    BY <1>36, PlainJob, MainType
       DEF DurationExit, StartSave, DueKind, Ordered, Tracked, Current, Kept, Removals, Requests, Finalized, Queued, Complete, Rewriting, AsyncSave, FinPcs, InLoop
<1>37. CASE Crash
    BY <1>37, PlainJob, MainType
       DEF Crash, Relaunched, FreshCaches, Ordered, Tracked, Current, Kept, Removals, Requests, Finalized, Queued, Complete, Rewriting, AsyncSave, FinPcs, InLoop
<1>38. CASE InProcessRestart
    BY <1>38, PlainJob, MainType
       DEF InProcessRestart, Relaunched, Ordered, Tracked, Current, Kept, Removals, Requests, Finalized, Queued, Complete, Rewriting, AsyncSave, FinPcs, InLoop
<1>39. CASE Terminating
    BY <1>39, PlainJob, MainType
       DEF Terminating, vars, Ordered, Tracked, Current, Kept, Removals, Requests, Finalized, Queued, Complete, Rewriting, AsyncSave, FinPcs, InLoop
<1>. QED
    BY <1>1, <1>2, <1>3, <1>4, <1>5, <1>6, <1>7, <1>8, <1>9, <1>10, <1>11, <1>12, <1>13, <1>14, <1>15, <1>16, <1>17, <1>18, <1>19, <1>20, <1>21, <1>22, <1>23, <1>24, <1>25, <1>26, <1>27, <1>28, <1>29, <1>30, <1>31, <1>32, <1>33, <1>34, <1>35, <1>36, <1>37, <1>38, <1>39
       DEF Next, Job, Worker, Remover

LEMMA DirsFinite == IsFiniteSet(Dirs)
<1>1. IsFiniteSet(Steps)
    BY FS_Interval, TrainItersAssumption DEF Steps
<1>2. IsFiniteSet({} \cup {"main"}) /\ IsFiniteSet(({} \cup {"main"}) \cup {"np"})
    BY FS_EmptySet, FS_AddElement
<1>3. Kinds = ({} \cup {"main"}) \cup {"np"}
    BY DEF Kinds
<1>4. IsFiniteSet(Kinds)
    BY <1>2, <1>3
<1>. QED  BY <1>1, <1>4, FS_Product DEF Dirs

LEMMA SmallerSubset ==
    ASSUME NEW S \in SUBSET Dirs, NEW T \in SUBSET S
    PROVE  /\ IsFiniteSet(S) /\ IsFiniteSet(T)
           /\ Cardinality(S) \in Nat /\ Cardinality(T) \in Nat
           /\ Cardinality(T) <= Cardinality(S)
           /\ Cardinality(T) = Cardinality(S) => T = S
<1>1. IsFiniteSet(S)
    BY DirsFinite, FS_Subset
<1>. QED  BY <1>1, FS_Subset, FS_CardinalityType

LEMMA OneMore ==
    ASSUME NEW S \in SUBSET Dirs, NEW d \in Dirs
    PROVE  Cardinality(S \cup {d}) <= Cardinality(S) + 1 /\ Cardinality(S) \in Nat
<1>1. IsFiniteSet(S) /\ Cardinality(S) \in Nat
    BY SmallerSubset
<1>2. Cardinality(S \cup {d}) = IF d \in S THEN Cardinality(S) ELSE Cardinality(S) + 1
    BY <1>1, FS_AddElement
<1>. QED  BY <1>1, <1>2

\* The clean-up keeps more directories than crashes have left, so one that is not
\* newer than the last checkpoint, and all it removes are older than that.
LEMMA CleanKeeps ==
    ASSUME TypeOK, Safe(setup), Ordered, Kept, At("postclean"), MostRecentK > -1,
           NEW rm \in SUBSET Dirs, Removed(saving[1], MostRecentK, rm)
    PROVE  (AsyncSave => rm = {}) /\ \A d \in rm : tracker["main"] # d[2]
<1>. DEFINE C == Candidates("main")
            kept == C \ rm
            n == MostRecentK
<1>1. /\ setup \in SetupType /\ n \in Nat /\ (n = 0 \/ (~AsyncSave /\ n > setup.crashes))
      /\ setup.crashes \in Nat /\ counts.crashes \in 0 .. setup.crashes
  <2>1. setup \in SetupType
    BY SetupsAssumption DEF TypeOK
  <2>2. /\ setup.keep \in Nat \cup {-1} /\ setup.crashes \in Nat
        /\ setup.keep \in {-1, 0} \/ (~setup.async /\ setup.keep > setup.crashes)
    BY <2>1 DEF SetupType, Safe
  <2>3. counts.crashes \in 0 .. setup.crashes
    BY DEF TypeOK
  <2>4. n = setup.keep /\ n > -1
    BY DEF MostRecentK
  <2>. HIDE DEF n
  <2>5. n \in Nat
    BY <2>2, <2>4
  <2>6. n = 0 \/ (~AsyncSave /\ n > setup.crashes)
    BY <2>2, <2>4, <2>5 DEF AsyncSave
  <2>. QED  BY <2>1, <2>2, <2>3, <2>5, <2>6
<1>2. n = 0 => rm = {}
    BY DEF Removed
<1>3. ASSUME n # 0, NEW d \in rm, tracker["main"] = d[2] PROVE FALSE
  <2>1. /\ rm \subseteq C /\ \A x \in rm, e \in kept : x[2] <= e[2]
        /\ Cardinality(kept) = IF Cardinality(C) < n THEN Cardinality(C) ELSE n
    BY <1>3 DEF Removed, Ordered, OneKind
  <2>2. d[2] \in Nat /\ Latest = d[2]
    BY <1>3, DirsType, MainType DEF Latest, Ordered, Steps
  <2>3. \A e \in C : data[e] # "absent" /\ e[1] = "main" /\ e \in Dirs /\ e[2] \in Nat
    BY DirsType DEF Candidates, Kept, Removals, Steps
  <2>4. kept \subseteq Leftover
    <3>. SUFFICES ASSUME NEW e \in kept PROVE e \in Leftover
        OBVIOUS
    <3>1. e # d /\ d[2] <= e[2] /\ d[1] = "main" /\ e[1] = "main" /\ e \in Dirs /\ d \in Dirs
        BY <1>3, <2>1, <2>3
    <3>2. e[2] # d[2]
        BY <3>1, DirsType
    <3>. QED  BY <2>2, <2>3, <3>1, <3>2 DEF Leftover, Beyond, UnderWay
  <2>5. Leftover \in SUBSET Dirs /\ C \in SUBSET Dirs
    BY DEF Leftover, Beyond, Candidates
  <2>. HIDE DEF kept, C, n
  <2>6. Cardinality(kept) <= Cardinality(Leftover) /\ Cardinality(Leftover) <= counts.crashes
        /\ Cardinality(kept) \in Nat /\ Cardinality(Leftover) \in Nat
    BY <1>1, <1>3, <2>4, <2>5, SmallerSubset DEF Kept, Removals
  <2>7. Cardinality(kept) < n
    BY <1>1, <1>3, <2>6
  <2>8. Cardinality(kept) = Cardinality(C)
    <3>1. Cardinality(kept) = Cardinality(C) \/ Cardinality(kept) = n
        BY <2>1
    <3>. QED  BY <1>1, <2>6, <2>7, <3>1
  <2>9. kept = C
    BY <2>5, <2>8, SmallerSubset DEF kept
  <2>. QED  BY <1>3, <2>1, <2>9 DEF kept
<1>. QED  BY <1>1, <1>2, <1>3

LEMMA DoomedNext ==
    ASSUME TypeOK, InLoop, Counters, Safe(setup), Ordered, Kept, Next
    PROVE  /\ \A d \in Dirs : data'[d] # "absent" => d[1] = "main"
           /\ doomed' # {} => ~AsyncSave /\ pc' = "postremove"
           /\ \A d \in doomed' : tracker'["main"] # d[2]
<1>. DEFINE Doomed == /\ \A d \in Dirs : data'[d] # "absent" => d[1] = "main"
                      /\ doomed' # {} => ~AsyncSave /\ pc' = "postremove"
                      /\ \A d \in doomed' : tracker'["main"] # d[2]
<1>. setup' = setup
    BY DEF Next
<1>. Plain(setup) /\ OneKind
    BY DEF Safe, Ordered
<1>. /\ data \in [Dirs -> {"absent", "torn", "full"}] /\ saving \in Dirs /\ fin \in Dirs
     /\ state \in [Dirs -> Files] /\ meta \subseteq Dirs
    BY DEF TypeOK
<1>. \A d \in Dirs : d[2] \in Nat
    BY DirsType DEF Steps
<1>1. CASE LoadNothing
    BY <1>1, PlainJob, MainType
       DEF LoadNothing, Ordered, OneKind, Tracked, Kept, Removals, Requests, AsyncSave
<1>2. CASE LoadCheckpoint
    BY <1>2, PlainJob, MainType
       DEF LoadCheckpoint, Ordered, OneKind, Tracked, Kept, Removals, Requests, AsyncSave
<1>3. CASE LoadFails
    BY <1>3, PlainJob, MainType
       DEF LoadFails, Ordered, OneKind, Tracked, Kept, Removals, Requests, AsyncSave
<1>4. CASE LoopTest
    BY <1>4, PlainJob, MainType
       DEF LoopTest, Ordered, OneKind, Tracked, Kept, Removals, Requests, AsyncSave
<1>5. CASE PollDone
    BY <1>5, PlainJob, MainType
       DEF PollDone, Ordered, OneKind, Tracked, Kept, Removals, Requests, AsyncSave
<1>6. CASE Ramp
    BY <1>6, PlainJob, MainType
       DEF Ramp, StartSave, Ordered, OneKind, Tracked, Kept, Removals, Requests, AsyncSave
<1>7. CASE TrainStep
    BY <1>7, PlainJob, MainType
       DEF TrainStep, Ordered, OneKind, Tracked, Kept, Removals, Requests, AsyncSave
<1>8. CASE RegularSave
    BY <1>8, PlainJob, MainType
       DEF RegularSave, StartSave, DueKind, Ordered, OneKind, Tracked, Kept, Removals, Requests, AsyncSave
<1>9. CASE NoSave
    BY <1>9, PlainJob, MainType
       DEF NoSave, Ordered, OneKind, Tracked, Kept, Removals, Requests, AsyncSave
<1>10. CASE FinalSave
    BY <1>10, PlainJob, MainType
       DEF FinalSave, StartSave, Ordered, OneKind, Tracked, Kept, Removals, Requests, AsyncSave
<1>11. CASE CleanBefore
    BY <1>11, PlainJob, MainType
       DEF CleanBefore, Clean, Ordered, OneKind, Tracked, Kept, Removals, Requests, AsyncSave
<1>12. CASE CleanAfter
    <2>1. PICK rm \in SUBSET Dirs :
            Removed(saving[1], MostRecentK, rm) /\ doomed' = doomed \cup rm
        BY <1>12 DEF CleanAfter, Clean
    <2>2. (AsyncSave => rm = {}) /\ \A d \in rm : tracker["main"] # d[2]
        BY <1>12, <2>1, CleanKeeps DEF CleanAfter
    <2>3. pc = "postclean" /\ pc' = "postremove" /\ UNCHANGED <<data, tracker>> /\ doomed = {}
        BY <1>12 DEF CleanAfter, Clean, Kept, Removals
    <2>. QED  BY <2>1, <2>2, <2>3 DEF Kept, Removals
<1>13. CASE KeepAll
    BY <1>13, PlainJob, MainType
       DEF KeepAll, Ordered, OneKind, Tracked, Kept, Removals, Requests, AsyncSave
<1>14. CASE CleanedBefore
    BY <1>14, PlainJob, MainType
       DEF CleanedBefore, Ordered, OneKind, Tracked, Kept, Removals, Requests, AsyncSave
<1>15. CASE CleanedAfter
    BY <1>15, PlainJob, MainType
       DEF CleanedAfter, Ordered, OneKind, Tracked, Kept, Removals, Requests, AsyncSave
<1>16. CASE BeginSyncSave
    BY <1>16, PlainJob, MainType
       DEF BeginSyncSave, Ordered, OneKind, Tracked, Kept, Removals, Requests, AsyncSave
<1>17. CASE EndSyncSave
    BY <1>17, PlainJob, MainType
       DEF EndSyncSave, Ordered, OneKind, Tracked, Kept, Removals, Requests, AsyncSave
<1>18. CASE ScheduleAsyncSave
    BY <1>18, PlainJob, MainType
       DEF ScheduleAsyncSave, Ordered, OneKind, Tracked, Kept, Removals, Requests, AsyncSave
<1>19. CASE FinalizeHead
    BY <1>19, PlainJob, MainType
       DEF FinalizeHead, Ordered, OneKind, Tracked, Kept, Removals, Requests, AsyncSave, Polling
<1>20. CASE HeadFailed
    BY <1>20, PlainJob, MainType
       DEF HeadFailed, Ordered, OneKind, Tracked, Kept, Removals, Requests, AsyncSave
<1>21. CASE Drained
    BY <1>21, PlainJob, MainType
       DEF Drained, Ordered, OneKind, Tracked, Kept, Removals, Requests, AsyncSave
<1>22. CASE WriteMetadata
    BY <1>22, PlainJob, MainType
       DEF WriteMetadata, Finalizing, Ordered, OneKind, Tracked, Kept, Removals, Requests, AsyncSave
<1>23. CASE OpenTrainState
    BY <1>23, PlainJob, MainType
       DEF OpenTrainState, Finalizing, Ordered, OneKind, Tracked, Kept, Removals, Requests, AsyncSave
<1>24. CASE CopyTrainState
    BY <1>24, PlainJob, MainType
       DEF CopyTrainState, Finalizing, Ordered, OneKind, Tracked, Kept, Removals, Requests, AsyncSave
<1>25. CASE CompleteTracker
    BY <1>25, PlainJob, MainType
       DEF CompleteTracker, Ordered, OneKind, Tracked, Kept, Removals, Requests, AsyncSave
<1>26. CASE WriteLegacyTracker
    BY <1>26, PlainJob, MainType
       DEF WriteLegacyTracker, Ordered, OneKind, Tracked, Kept, Removals, Requests, AsyncSave
<1>27. CASE WriteRunConfig
    BY <1>27, PlainJob, MainType
       DEF WriteRunConfig, Finalizing, Ordered, OneKind, Tracked, Kept, Removals, Requests, AsyncSave
<1>28. CASE FinalizeRaises
    BY <1>28, PlainJob, MainType
       DEF FinalizeRaises, Ordered, OneKind, Tracked, Kept, Removals, Requests, AsyncSave
<1>29. CASE Relaunch
    BY <1>29, PlainJob, MainType
       DEF Relaunch, Relaunched, FreshCaches, Ordered, OneKind, Tracked, Kept, Removals, Requests, AsyncSave
<1>30. ASSUME NEW i \in 1 .. Len(pending), WorkerBegin(i) PROVE Doomed
    BY <1>30, PlainJob, MainType
       DEF WorkerBegin, Ordered, OneKind, Tracked, Kept, Removals, Requests, AsyncSave
<1>31. ASSUME NEW i \in 1 .. Len(pending), WorkerEnd(i) PROVE Doomed
    BY <1>31, PlainJob, MainType
       DEF WorkerEnd, Ordered, OneKind, Tracked, Kept, Removals, Requests, AsyncSave
<1>32. ASSUME NEW d \in Dirs, BeginRemove(d) PROVE Doomed
    BY <1>32, PlainJob, MainType
       DEF BeginRemove, Ordered, OneKind, Tracked, Kept, Removals, Requests, AsyncSave
<1>33. ASSUME NEW d \in Dirs, EndRemove(d) PROVE Doomed
    BY <1>33, PlainJob, MainType
       DEF EndRemove, Ordered, OneKind, Tracked, Kept, Removals, Requests, AsyncSave
<1>34. CASE RerunExit
    BY <1>34, PlainJob, MainType
       DEF RerunExit, StartSave, Ordered, OneKind, Tracked, Kept, Removals, Requests, AsyncSave
<1>35. CASE SignalExit
    BY <1>35, PlainJob, MainType
       DEF SignalExit, StartSave, Ordered, OneKind, Tracked, Kept, Removals, Requests, AsyncSave
<1>36. CASE DurationExit
    BY <1>36, PlainJob, MainType
       DEF DurationExit, StartSave, DueKind, Ordered, OneKind, Tracked, Kept, Removals, Requests, AsyncSave
<1>37. CASE Crash
    BY <1>37, PlainJob, MainType
       DEF Crash, Relaunched, FreshCaches, Ordered, OneKind, Tracked, Kept, Removals, Requests, AsyncSave
<1>38. CASE InProcessRestart
    BY <1>38, PlainJob, MainType
       DEF InProcessRestart, Relaunched, Ordered, OneKind, Tracked, Kept, Removals, Requests, AsyncSave
<1>39. CASE Terminating
    BY <1>39, PlainJob, MainType
       DEF Terminating, vars, Ordered, OneKind, Tracked, Kept, Removals, Requests, AsyncSave
<1>. QED
    BY <1>1, <1>2, <1>3, <1>4, <1>5, <1>6, <1>7, <1>8, <1>9, <1>10, <1>11, <1>12, <1>13, <1>14, <1>15, <1>16, <1>17, <1>18, <1>19, <1>20, <1>21, <1>22, <1>23, <1>24, <1>25, <1>26, <1>27, <1>28, <1>29, <1>30, <1>31, <1>32, <1>33, <1>34, <1>35, <1>36, <1>37, <1>38, <1>39
       DEF Next, Job, Worker, Remover

LEMMA RemovalsNext ==
    ASSUME TypeOK, InLoop, Counters, Safe(setup), Ordered, Kept, Next
    PROVE  Removals'
<1>1. setup' = setup
    BY DEF Next
<1>2. ASSUME ~AsyncSave PROVE Cardinality(Leftover') <= counts'.crashes
  <2>1. /\ Leftover \in SUBSET Dirs /\ saving \in Dirs /\ counts.crashes \in Nat
        /\ Cardinality(Leftover) <= counts.crashes
    BY <1>2, SetupsAssumption DEF TypeOK, SetupType, Leftover, Beyond, Kept, Removals
  <2>2. CASE Leftover' \subseteq Leftover /\ counts'.crashes = counts.crashes
    <3>1. Cardinality(Leftover') <= Cardinality(Leftover)
          /\ Cardinality(Leftover') \in Nat /\ Cardinality(Leftover) \in Nat
        BY <2>1, <2>2, SmallerSubset
    <3>. QED  BY <2>1, <2>2, <3>1
  <2>3. CASE Leftover' \subseteq Leftover \cup {saving} /\ counts'.crashes = counts.crashes + 1
    <3>. DEFINE S == Leftover \cup {saving}
    <3>1. Cardinality(S) <= Cardinality(Leftover) + 1 /\ Cardinality(Leftover) \in Nat
        BY <2>1, OneMore
    <3>2. S \in SUBSET Dirs /\ Leftover' \in SUBSET S
        BY <2>1, <2>3
    <3>. HIDE DEF S
    <3>3. Cardinality(Leftover') <= Cardinality(S)
          /\ Cardinality(Leftover') \in Nat /\ Cardinality(S) \in Nat
        BY <3>2, SmallerSubset
    <3>. QED  BY <2>1, <2>3, <3>1, <3>3
  <2>. QED  BY <1>2, <2>2, <2>3, LeftoverNext
<1>. QED  BY <1>1, <1>2, DoomedNext DEF Removals, AsyncSave

LEMMA KeptInvariant ==
    (\A s \in Setups : Safe(s)) => (Spec => [](Basic /\ Safe(setup) /\ Ordered /\ Kept))
<1>. SUFFICES ASSUME \A s \in Setups : Safe(s)
             PROVE  Spec => [](Basic /\ Safe(setup) /\ Ordered /\ Kept)
    OBVIOUS
<1>1. TypeOK => Safe(setup)
    BY DEF TypeOK
<1>2. ASSUME Init PROVE Kept
  <2>1. \A d \in Dirs : data[d] = "absent"
    BY <1>2 DEF Init
  <2>2. Leftover = {} /\ 1 .. Len(pending) = {}
    BY <1>2, <2>1 DEF Init, Leftover, Beyond
  <2>3. Removals
    BY <1>2, <2>1, <2>2, FS_EmptySet DEF Init, Removals
  <2>4. Requests /\ Finalized
    BY <1>2, <2>2 DEF Init, Requests, Finalized, FinPcs
  <2>. QED  BY <2>3, <2>4 DEF Kept
<1>3. ASSUME Basic, Safe(setup), Ordered, Kept, [Next]_vars PROVE Kept'
  <2>1. CASE Next
    BY <1>3, <2>1, RemovalsNext, RequestsNext, FinalizedNext DEF Basic, Kept
  <2>2. CASE UNCHANGED vars
    <3>1. Leftover' = Leftover
        BY <2>2 DEF vars, Leftover, Beyond, UnderWay, Latest
    <3>. QED  BY <1>3, <2>2, <3>1
                DEF vars, Kept, Removals, Requests, Finalized, Queued, Complete, Rewriting, AsyncSave
  <2>. QED  BY <1>3, <2>1, <2>2
<1>4. (\A s \in Setups : Plain(s))
    BY DEF Safe
<1>. QED  BY <1>1, <1>2, <1>3, <1>4, OrderedInvariant, PTL DEF Spec, Basic

\* A job that stops leaves the directory as it is.
LEMMA StaysOnDisk ==
    ASSUME TypeOK, InLoop, Safe(setup), Ordered, Kept, Next, pc' \in {"load", "stuck"}
    PROVE  UNCHANGED <<setup, data, meta, state, tracker, legacy>>
<1>. setup' = setup
    BY DEF Next
<1>. DEFINE Stays == UNCHANGED <<setup, data, meta, state, tracker, legacy>>
<1>1. CASE LoadNothing
    BY <1>1
       DEF LoadNothing, InLoop, Ordered, Tracked, Kept, Removals
<1>2. CASE LoadCheckpoint
    BY <1>2
       DEF LoadCheckpoint, InLoop, Ordered, Tracked, Kept, Removals
<1>3. CASE LoadFails
    BY <1>3
       DEF LoadFails, InLoop, Ordered, Tracked, Kept, Removals
<1>4. CASE LoopTest
    BY <1>4
       DEF LoopTest, InLoop, Ordered, Tracked, Kept, Removals
<1>5. CASE PollDone
    BY <1>5
       DEF PollDone, InLoop, Ordered, Tracked, Kept, Removals
<1>6. CASE Ramp
    BY <1>6
       DEF Ramp, StartSave, InLoop, Ordered, Tracked, Kept, Removals
<1>7. CASE TrainStep
    BY <1>7
       DEF TrainStep, InLoop, Ordered, Tracked, Kept, Removals
<1>8. CASE RegularSave
    BY <1>8
       DEF RegularSave, StartSave, DueKind, InLoop, Ordered, Tracked, Kept, Removals
<1>9. CASE NoSave
    BY <1>9
       DEF NoSave, InLoop, Ordered, Tracked, Kept, Removals
<1>10. CASE FinalSave
    BY <1>10
       DEF FinalSave, StartSave, InLoop, Ordered, Tracked, Kept, Removals
<1>11. CASE CleanBefore
    BY <1>11
       DEF CleanBefore, Clean, InLoop, Ordered, Tracked, Kept, Removals
<1>12. CASE CleanAfter
    BY <1>12
       DEF CleanAfter, Clean, InLoop, Ordered, Tracked, Kept, Removals
<1>13. CASE KeepAll
    BY <1>13
       DEF KeepAll, InLoop, Ordered, Tracked, Kept, Removals
<1>14. CASE CleanedBefore
    BY <1>14
       DEF CleanedBefore, InLoop, Ordered, Tracked, Kept, Removals
<1>15. CASE CleanedAfter
    BY <1>15
       DEF CleanedAfter, InLoop, Ordered, Tracked, Kept, Removals
<1>16. CASE BeginSyncSave
    BY <1>16
       DEF BeginSyncSave, InLoop, Ordered, Tracked, Kept, Removals
<1>17. CASE EndSyncSave
    BY <1>17
       DEF EndSyncSave, InLoop, Ordered, Tracked, Kept, Removals
<1>18. CASE ScheduleAsyncSave
    BY <1>18
       DEF ScheduleAsyncSave, InLoop, Ordered, Tracked, Kept, Removals
<1>19. CASE FinalizeHead
    BY <1>19
       DEF FinalizeHead, InLoop, Ordered, Tracked, Kept, Removals
<1>20. CASE HeadFailed
    BY <1>20
       DEF HeadFailed, InLoop, Ordered, Tracked, Kept, Removals
<1>21. CASE Drained
    BY <1>21
       DEF Drained, InLoop, Ordered, Tracked, Kept, Removals
<1>22. CASE WriteMetadata
    BY <1>22
       DEF WriteMetadata, Finalizing, InLoop, Ordered, Tracked, Kept, Removals
<1>23. CASE OpenTrainState
    BY <1>23
       DEF OpenTrainState, Finalizing, InLoop, Ordered, Tracked, Kept, Removals
<1>24. CASE CopyTrainState
    BY <1>24
       DEF CopyTrainState, Finalizing, InLoop, Ordered, Tracked, Kept, Removals
<1>25. CASE CompleteTracker
    BY <1>25
       DEF CompleteTracker, InLoop, Ordered, Tracked, Kept, Removals
<1>26. CASE WriteLegacyTracker
    BY <1>26
       DEF WriteLegacyTracker, InLoop, Ordered, Tracked, Kept, Removals
<1>27. CASE WriteRunConfig
    BY <1>27
       DEF WriteRunConfig, Finalizing, InLoop, Ordered, Tracked, Kept, Removals
<1>28. CASE FinalizeRaises
    BY <1>28
       DEF FinalizeRaises, InLoop, Ordered, Tracked, Kept, Removals
<1>29. CASE Relaunch
    BY <1>29
       DEF Relaunch, Relaunched, FreshCaches, InLoop, Ordered, Tracked, Kept, Removals
<1>30. ASSUME NEW i \in 1 .. Len(pending), WorkerBegin(i) PROVE Stays
    BY <1>30
       DEF WorkerBegin, InLoop, Ordered, Tracked, Kept, Removals
<1>31. ASSUME NEW i \in 1 .. Len(pending), WorkerEnd(i) PROVE Stays
    BY <1>31
       DEF WorkerEnd, InLoop, Ordered, Tracked, Kept, Removals
<1>32. ASSUME NEW d \in Dirs, BeginRemove(d) PROVE Stays
    BY <1>32
       DEF BeginRemove, InLoop, Ordered, Tracked, Kept, Removals
<1>33. ASSUME NEW d \in Dirs, EndRemove(d) PROVE Stays
    BY <1>33
       DEF EndRemove, InLoop, Ordered, Tracked, Kept, Removals
<1>34. CASE RerunExit
    BY <1>34
       DEF RerunExit, StartSave, InLoop, Ordered, Tracked, Kept, Removals
<1>35. CASE SignalExit
    BY <1>35
       DEF SignalExit, StartSave, InLoop, Ordered, Tracked, Kept, Removals
<1>36. CASE DurationExit
    BY <1>36
       DEF DurationExit, StartSave, DueKind, InLoop, Ordered, Tracked, Kept, Removals
<1>37. CASE Crash
    BY <1>37
       DEF Crash, Relaunched, FreshCaches, InLoop, Ordered, Tracked, Kept, Removals
<1>38. CASE InProcessRestart
    BY <1>38
       DEF InProcessRestart, Relaunched, InLoop, Ordered, Tracked, Kept, Removals
<1>39. CASE Terminating
    BY <1>39
       DEF Terminating, vars, InLoop, Ordered, Tracked, Kept, Removals
<1>. QED
    BY <1>1, <1>2, <1>3, <1>4, <1>5, <1>6, <1>7, <1>8, <1>9, <1>10, <1>11, <1>12, <1>13, <1>14, <1>15, <1>16, <1>17, <1>18, <1>19, <1>20, <1>21, <1>22, <1>23, <1>24, <1>25, <1>26, <1>27, <1>28, <1>29, <1>30, <1>31, <1>32, <1>33, <1>34, <1>35, <1>36, <1>37, <1>38, <1>39
       DEF Next, Job, Worker, Remover

LEMMA ResumeIsLatest ==
    ASSUME TypeOK, Plain(setup), OneKind
    PROVE  /\ ResumePoint = IF tracker["main"] = Torn THEN <<>> ELSE <<"main", tracker["main"]>>
           /\ ResumePoint \in Dirs => ResumePoint = <<"main", tracker["main"]>>
<1>1. ResumePoint = IF tracker["main"] = Torn THEN <<>> ELSE <<"main", tracker["main"]>>
    BY PlainJob DEF ResumePoint, Newer, OneKind, None, Torn
<1>2. <<>> \notin Dirs
    BY DEF Dirs
<1>. QED  BY <1>1, <1>2

\* The clean-up never chooses the checkpoint to restart from, if it is safe.
THEOREM RestartPointIsKept ==
    (\A s \in Setups : Safe(s)) => (Spec => []RestartPointKept)
<1>. SUFFICES ASSUME \A s \in Setups : Safe(s) PROVE Spec => []RestartPointKept
    OBVIOUS
<1>1. ASSUME Basic, Safe(setup), Ordered, Kept PROVE RestartPointKept
  <2>1. doomed \subseteq Dirs
    BY <1>1 DEF Basic, TypeOK
  <2>. QED  BY <1>1, <2>1, ResumeIsLatest
            DEF RestartPointKept, Basic, Safe, Ordered, Kept, Removals
<1>. QED  BY <1>1, KeptInvariant, PTL

\* The checkpoint that a restart would load is complete from the moment it is
\* published, if the clean-up is safe.
THEOREM ResumePointComplete ==
    (\A s \in Setups : Safe(s)) => (Spec => ResumePointStaysComplete)
<1>. SUFFICES ASSUME \A s \in Setups : Safe(s) PROVE Spec => ResumePointStaysComplete
    OBVIOUS
<1>. DEFINE Inv == Basic /\ Safe(setup) /\ Ordered /\ Kept
<1>1. Inv => (ResumePoint \in Dirs => ResumePoint = <<"main", tracker["main"]>>)
    BY ResumeIsLatest DEF Basic, Safe, Ordered
<1>2. Inv => (ResumePoint \in Dirs /\ pc \notin {"load", "stuck"} =>
                 Complete(ResumePoint) \/ Rewriting(ResumePoint))
    BY <1>1 DEF Kept, Finalized
<1>3. ASSUME Inv, Inv', Next
      PROVE  \/ ResumePoint' \notin Dirs
             \/ Complete(ResumePoint)'
             \/ Rewriting(ResumePoint)'
             \/ ResumePoint = ResumePoint' /\ ~Complete(ResumePoint)
  <2>1. CASE pc' \notin {"load", "stuck"}
    <3>1. (ResumePoint \in Dirs /\ pc \notin {"load", "stuck"} =>
                 Complete(ResumePoint) \/ Rewriting(ResumePoint))'
        BY <1>2, <1>3, PTL
    <3>. QED  BY <2>1, <3>1
  <2>2. CASE pc' \in {"load", "stuck"}
    <3>1. UNCHANGED <<setup, data, meta, state, tracker, legacy>>
        BY <1>3, <2>2, StaysOnDisk DEF Basic
    <3>2. ResumePoint' = ResumePoint
        BY <3>1 DEF ResumePoint, NonPersistentInterval
    <3>. QED  BY <3>1, <3>2 DEF Complete
  <2>. QED  BY <2>1, <2>2
<1>. QED  BY <1>3, KeptInvariant, PTL DEF Spec, ResumePointStaysComplete

-----------------------------------------------------------------------------
(* The exits. *)

Stored == tracker["main"] = step /\ Loadable(<<"main", step>>)
LastRequest == Len(pending) # 0 /\ pending[Len(pending)].dir = <<"main", step>>

\* The save before an exit is requested, or under way, or stored, and without a
\* crash there is nothing else to load.
Leaving ==
    /\ pc \in {"postclean", "postremove"} /\ AsyncSave => LastRequest
    /\ pc \in {"postclean", "postremove"} /\ ~AsyncSave => Stored
    /\ pc \in {"exit", "finish"} => LastRequest \/ (pending = <<>> /\ Stored)
    /\ pc \in FinPcs /\ finRet \in {"exit", "finish"} =>
          LastRequest \/ (pending = <<>> /\ fin = <<"main", step>>)
    /\ pc \in {"exited", "done"} => Stored
    /\ pc = "load" /\ counts.crashes = 0 =>
          \/ tracker["main"] = None
          \/ tracker["main"] \in Steps /\ Loadable(<<"main", tracker["main"]>>)
    /\ pc = "stuck" => counts.crashes > 0

LEMMA LeavingNext ==
    ASSUME TypeOK, InLoop, Counters, Safe(setup), Ordered, Kept, Leaving, Next
    PROVE  Leaving'
<1>. setup' = setup
    BY DEF Next
<1>. Plain(setup) /\ OneKind
    BY DEF Safe, Ordered
<1>. /\ data \in [Dirs -> {"absent", "torn", "full"}] /\ saving \in Dirs /\ fin \in Dirs
     /\ state \in [Dirs -> Files] /\ meta \subseteq Dirs
    BY DEF TypeOK
<1>. \A d \in Dirs : d[2] \in Nat
    BY DirsType DEF Steps
<1>1. CASE LoadNothing
    BY <1>1, PlainJob, MainType
       DEF LoadNothing, Ordered, Tracked, Current, Kept, Removals, Leaving, Stored, LastRequest, Loadable, AsyncSave, FinPcs, InLoop
<1>2. CASE LoadCheckpoint
    BY <1>2, PlainJob, MainType
       DEF LoadCheckpoint, Ordered, Tracked, Current, Kept, Removals, Leaving, Stored, LastRequest, Loadable, AsyncSave, FinPcs, InLoop
<1>3. CASE LoadFails
    <2>1. counts.crashes \in Nat /\ pc = "load" /\ CheckpointExists
        BY <1>3, SetupsAssumption DEF LoadFails, TypeOK, SetupType
    <2>2. ASSUME counts.crashes = 0 PROVE FALSE
      <3>1. tracker["main"] # None
        BY <2>1 DEF CheckpointExists, Ordered, OneKind
      <3>2. tracker["main"] \in Steps /\ Loadable(<<"main", tracker["main"]>>)
        BY <2>1, <2>2, <3>1 DEF Leaving
      <3>3. Iteration = tracker["main"]
        BY <2>1, <3>1, MainType, PlainJob DEF Iteration, ReadTracker, Counters
      <3>4. TrackersReadable /\ ChosenCheckpoint = <<"main", tracker["main"]>>
        BY <3>2, <3>3, MainType, PlainJob DEF TrackersReadable, ChosenCheckpoint, Newer, Steps
      <3>. QED  BY <1>3, <3>2, <3>4 DEF LoadFails
    <2>3. pc' = "stuck" /\ counts' = counts
        BY <1>3 DEF LoadFails
    <2>. QED  BY <2>1, <2>2, <2>3 DEF Leaving, FinPcs
<1>4. CASE LoopTest
    BY <1>4, PlainJob, MainType
       DEF LoopTest, Ordered, Tracked, Current, Kept, Removals, Leaving, Stored, LastRequest, Loadable, AsyncSave, FinPcs, InLoop
<1>5. CASE PollDone
    BY <1>5, PlainJob, MainType
       DEF PollDone, Ordered, Tracked, Current, Kept, Removals, Leaving, Stored, LastRequest, Loadable, AsyncSave, FinPcs, InLoop
<1>6. CASE Ramp
    BY <1>6, PlainJob, MainType
       DEF Ramp, StartSave, Ordered, Tracked, Current, Kept, Removals, Leaving, Stored, LastRequest, Loadable, AsyncSave, FinPcs, InLoop
<1>7. CASE TrainStep
    BY <1>7, PlainJob, MainType
       DEF TrainStep, Ordered, Tracked, Current, Kept, Removals, Leaving, Stored, LastRequest, Loadable, AsyncSave, FinPcs, InLoop
<1>8. CASE RegularSave
    BY <1>8, PlainJob, MainType
       DEF RegularSave, StartSave, DueKind, Ordered, Tracked, Current, Kept, Removals, Leaving, Stored, LastRequest, Loadable, AsyncSave, FinPcs, InLoop
<1>9. CASE NoSave
    BY <1>9, PlainJob, MainType
       DEF NoSave, Ordered, Tracked, Current, Kept, Removals, Leaving, Stored, LastRequest, Loadable, AsyncSave, FinPcs, InLoop
<1>10. CASE FinalSave
    <2>1. step # 0
        BY <1>10, TrainItersAssumption DEF FinalSave, InLoop, After, SavePcs, FinPcs
    <2>. QED  BY <1>10, <2>1 DEF FinalSave, StartSave, Leaving, FinPcs
<1>11. CASE CleanBefore
    BY <1>11, PlainJob, MainType
       DEF CleanBefore, Clean, Ordered, Tracked, Current, Kept, Removals, Leaving, Stored, LastRequest, Loadable, AsyncSave, FinPcs, InLoop
<1>12. CASE CleanAfter
    BY <1>12, PlainJob, MainType
       DEF CleanAfter, Clean, Ordered, Tracked, Current, Kept, Removals, Leaving, Stored, LastRequest, Loadable, AsyncSave, FinPcs, InLoop
<1>13. CASE KeepAll
    BY <1>13, PlainJob, MainType
       DEF KeepAll, Ordered, Tracked, Current, Kept, Removals, Leaving, Stored, LastRequest, Loadable, AsyncSave, FinPcs, InLoop
<1>14. CASE CleanedBefore
    BY <1>14, PlainJob, MainType
       DEF CleanedBefore, Ordered, Tracked, Current, Kept, Removals, Leaving, Stored, LastRequest, Loadable, AsyncSave, FinPcs, InLoop
<1>15. CASE CleanedAfter
    BY <1>15, PlainJob, MainType
       DEF CleanedAfter, Ordered, Tracked, Current, Kept, Removals, Leaving, Stored, LastRequest, Loadable, AsyncSave, FinPcs, InLoop
<1>16. CASE BeginSyncSave
    BY <1>16, PlainJob, MainType
       DEF BeginSyncSave, Ordered, Tracked, Current, Kept, Removals, Leaving, Stored, LastRequest, Loadable, AsyncSave, FinPcs, InLoop
<1>17. CASE EndSyncSave
    BY <1>17, PlainJob, MainType
       DEF EndSyncSave, Ordered, Tracked, Current, Kept, Removals, Leaving, Stored, LastRequest, Loadable, AsyncSave, FinPcs, InLoop
<1>18. CASE ScheduleAsyncSave
    <2>. DEFINE x == [dir |-> saving, stage |-> "queued"]
    <2>1. /\ pending' = Append(pending, x) /\ pc = "begin" /\ pc' = "postclean" /\ step' = step
          /\ AsyncSave
        BY <1>18 DEF ScheduleAsyncSave
    <2>2. saving = <<"main", step>>
        BY <2>1, DirsType, MainType DEF Ordered, Current, SavePcs
    <2>3. Len(pending') = Len(pending) + 1 /\ pending'[Len(pending) + 1] = x
        BY <2>1 DEF TypeOK
    <2>4. LastRequest'
        BY <2>1, <2>2, <2>3, MainType DEF LastRequest
    <2>. QED  BY <2>1, <2>4 DEF Leaving, FinPcs, AsyncSave
<1>19. CASE FinalizeHead
    BY <1>19, PlainJob, MainType, HeadType, SMTT(30)
       DEF FinalizeHead, Ordered, Tracked, Current, Kept, Removals, Leaving, Stored, LastRequest, Loadable, AsyncSave, FinPcs, InLoop, Polling
<1>20. CASE HeadFailed
    BY <1>20, PlainJob, MainType
       DEF HeadFailed, Ordered, Tracked, Current, Kept, Removals, Leaving, Stored, LastRequest, Loadable, AsyncSave, FinPcs, InLoop, Requests
<1>21. CASE Drained
    BY <1>21, PlainJob, MainType
       DEF Drained, Ordered, Tracked, Current, Kept, Removals, Leaving, Stored, LastRequest, Loadable, AsyncSave, FinPcs, InLoop
<1>22. CASE WriteMetadata
    BY <1>22, PlainJob, MainType
       DEF WriteMetadata, Finalizing, Ordered, Tracked, Current, Kept, Removals, Leaving, Stored, LastRequest, Loadable, AsyncSave, FinPcs, InLoop
<1>23. CASE OpenTrainState
    BY <1>23, PlainJob, MainType
       DEF OpenTrainState, Finalizing, Ordered, Tracked, Current, Kept, Removals, Leaving, Stored, LastRequest, Loadable, AsyncSave, FinPcs, InLoop
<1>24. CASE CopyTrainState
    BY <1>24, PlainJob, MainType
       DEF CopyTrainState, Finalizing, Ordered, Tracked, Current, Kept, Removals, Leaving, Stored, LastRequest, Loadable, AsyncSave, FinPcs, InLoop
<1>25. CASE CompleteTracker
    BY <1>25, PlainJob, MainType
       DEF CompleteTracker, Ordered, Tracked, Current, Kept, Removals, Leaving, Stored, LastRequest, Loadable, AsyncSave, FinPcs, InLoop
<1>26. CASE WriteLegacyTracker
    BY <1>26, PlainJob, MainType
       DEF WriteLegacyTracker, Ordered, Tracked, Current, Kept, Removals, Leaving, Stored, LastRequest, Loadable, AsyncSave, FinPcs, InLoop
<1>27. CASE WriteRunConfig
    <2>1. /\ pc = "config" /\ pc' = finRet /\ config' = config \cup {fin} /\ data[fin] # "absent"
          /\ UNCHANGED <<step, tracker, data, meta, state, pending, fin, finRet>>
        BY <1>27 DEF WriteRunConfig, Finalizing
    <2>2. /\ finRet \in {"top", "postclean", "poll", "exit", "end", "finish"}
          /\ tracker["main"] = fin[2] /\ fin \in meta /\ state[fin] = fin[2]
          /\ data[fin] = "full" \/ Queued(fin)
        BY <2>1 DEF InLoop, Ordered, Tracked, Kept, Finalized, FinPcs
    <2>3. ASSUME pending = <<>>, fin = <<"main", step>> PROVE Stored'
      <3>1. data[fin] = "full"
        BY <2>2, <2>3 DEF Queued
      <3>2. fin[2] \notin {None, Torn} /\ tracker["main"] = step
        BY <2>2, <2>3, MainType
      <3>. QED  BY <2>1, <2>2, <2>3, <3>1, <3>2 DEF Stored, Loadable
    <2>4. CASE finRet = "postclean"
      <3>1. ~AsyncSave /\ pending = <<>> /\ fin = <<"main", step>>
        BY <2>1, <2>4, DirsType, MainType DEF Ordered, Current, FinPcs
      <3>. QED  BY <2>1, <2>3, <2>4, <3>1 DEF Leaving, AsyncSave, FinPcs
    <2>5. CASE finRet \in {"exit", "finish"}
      <3>1. LastRequest \/ (pending = <<>> /\ fin = <<"main", step>>)
        BY <2>1, <2>5 DEF Leaving, FinPcs
      <3>2. LastRequest' <=> LastRequest
        BY <2>1 DEF LastRequest
      <3>. QED  BY <2>1, <2>3, <2>5, <3>1, <3>2 DEF Leaving, FinPcs
    <2>6. CASE finRet \in {"top", "poll", "end"}
        BY <2>1, <2>6 DEF Leaving, FinPcs
    <2>. QED  BY <2>2, <2>4, <2>5, <2>6
<1>28. CASE FinalizeRaises
    BY <1>28, PlainJob, MainType
       DEF FinalizeRaises, Ordered, Tracked, Current, Kept, Removals, Leaving, Stored, LastRequest, Loadable, AsyncSave, FinPcs, InLoop, Requests, Finalized
<1>29. CASE Relaunch
    <2>1. pc = "exited" /\ Stored
        BY <1>29 DEF Relaunch, Kept, Requests, Leaving
    <2>2. /\ pc' = "load" /\ UNCHANGED <<step, tracker, data, meta, config, state>>
          /\ step \in Steps
        BY <1>29 DEF Relaunch, Relaunched, TypeOK
    <2>. QED  BY <2>1, <2>2 DEF Leaving, Stored, Loadable, FinPcs
<1>30. ASSUME NEW i \in 1 .. Len(pending), WorkerBegin(i) PROVE Leaving'
    BY <1>30, PlainJob, MainType, StageType
       DEF WorkerBegin, Ordered, Tracked, Current, Kept, Removals, Leaving, Stored, LastRequest, Loadable, AsyncSave, FinPcs, InLoop, Stages
<1>31. ASSUME NEW i \in 1 .. Len(pending), WorkerEnd(i) PROVE Leaving'
    BY <1>31, PlainJob, MainType, StageType
       DEF WorkerEnd, Ordered, Tracked, Current, Kept, Removals, Leaving, Stored, LastRequest, Loadable, AsyncSave, FinPcs, InLoop, Stages
<1>32. ASSUME NEW d \in Dirs, BeginRemove(d) PROVE Leaving'
    BY <1>32, PlainJob, MainType
       DEF BeginRemove, Ordered, Tracked, Current, Kept, Removals, Leaving, Stored, LastRequest, Loadable, AsyncSave, FinPcs, InLoop
<1>33. ASSUME NEW d \in Dirs, EndRemove(d) PROVE Leaving'
    BY <1>33, PlainJob, MainType
       DEF EndRemove, Ordered, Tracked, Current, Kept, Removals, Leaving, Stored, LastRequest, Loadable, AsyncSave, FinPcs, InLoop
<1>34. CASE RerunExit
    BY <1>34, PlainJob, MainType, CountType
       DEF RerunExit, StartSave, Ordered, Tracked, Current, Kept, Removals, Leaving, Stored, LastRequest, Loadable, AsyncSave, FinPcs, InLoop
<1>35. CASE SignalExit
    BY <1>35, PlainJob, MainType, CountType
       DEF SignalExit, StartSave, Ordered, Tracked, Current, Kept, Removals, Leaving, Stored, LastRequest, Loadable, AsyncSave, FinPcs, InLoop
<1>36. CASE DurationExit
    BY <1>36, PlainJob, MainType, CountType
       DEF DurationExit, StartSave, DueKind, Ordered, Tracked, Current, Kept, Removals, Leaving, Stored, LastRequest, Loadable, AsyncSave, FinPcs, InLoop
<1>37. CASE Crash
    BY <1>37, PlainJob, MainType, CountType
       DEF Crash, Relaunched, FreshCaches, Ordered, Tracked, Current, Kept, Removals, Leaving, Stored, LastRequest, Loadable, AsyncSave, FinPcs, InLoop
<1>38. CASE InProcessRestart
    BY <1>38, PlainJob, MainType
       DEF InProcessRestart, Relaunched, Ordered, Tracked, Current, Kept, Removals, Leaving, Stored, LastRequest, Loadable, AsyncSave, FinPcs, InLoop
<1>39. CASE Terminating
    BY <1>39, PlainJob, MainType
       DEF Terminating, vars, Ordered, Tracked, Current, Kept, Removals, Leaving, Stored, LastRequest, Loadable, AsyncSave, FinPcs, InLoop
<1>. QED
    BY <1>1, <1>2, <1>3, <1>4, <1>5, <1>6, <1>7, <1>8, <1>9, <1>10, <1>11, <1>12, <1>13, <1>14, <1>15, <1>16, <1>17, <1>18, <1>19, <1>20, <1>21, <1>22, <1>23, <1>24, <1>25, <1>26, <1>27, <1>28, <1>29, <1>30, <1>31, <1>32, <1>33, <1>34, <1>35, <1>36, <1>37, <1>38, <1>39
       DEF Next, Job, Worker, Remover

LEMMA LeavingInvariant ==
    (\A s \in Setups : Safe(s)) =>
        (Spec => [](Basic /\ Safe(setup) /\ Ordered /\ Kept /\ Leaving))
<1>. SUFFICES ASSUME \A s \in Setups : Safe(s)
             PROVE  Spec => [](Basic /\ Safe(setup) /\ Ordered /\ Kept /\ Leaving)
    OBVIOUS
<1>1. Init => Leaving
    BY DEF Init, Leaving, FinPcs, Kinds
<1>2. ASSUME Basic, Safe(setup), Ordered, Kept, Leaving, [Next]_vars PROVE Leaving'
  <2>1. CASE Next
    BY <1>2, <2>1, LeavingNext DEF Basic
  <2>2. CASE UNCHANGED vars
    BY <1>2, <2>2 DEF vars, Leaving, Stored, LastRequest, Loadable, AsyncSave
  <2>. QED  BY <1>2, <2>1, <2>2
<1>. QED  BY <1>1, <1>2, KeptInvariant, PTL DEF Spec

\* A job that exits on purpose, or ends, has made its last step durable, if the
\* clean-up is safe.
THEOREM ExitsAreDurable ==
    (\A s \in Setups : Safe(s)) => (Spec => []ExitIsDurable)
<1>. SUFFICES ASSUME \A s \in Setups : Safe(s) PROVE Spec => []ExitIsDurable
    OBVIOUS
<1>1. ASSUME Basic, Safe(setup), Ordered, Leaving PROVE ExitIsDurable
  <2>1. SUFFICES ASSUME pc \in {"exited", "done"}
                 PROVE  /\ CheckpointExists /\ ResumePoint = <<ResumePoint[1], step>>
                        /\ Loadable(ResumePoint)
    BY DEF ExitIsDurable
  <2>2. Stored /\ step # None /\ step # Torn
    BY <1>1, <2>1, MainType DEF Leaving, Basic, Ordered
  <2>3. ResumePoint = <<"main", step>>
    BY <1>1, <2>2, ResumeIsLatest DEF Stored, Basic, Safe, Ordered
  <2>. QED  BY <2>2, <2>3 DEF Stored, CheckpointExists
<1>. QED  BY <1>1, LeavingInvariant, PTL

\* A save never fails, and only a crash leaves a directory that no restart can
\* load, if the clean-up is safe.
THEOREM OnlyCrashesStick ==
    (\A s \in Setups : Safe(s)) =>
        (Spec => [](pc # "failed" /\ (ResumeNeverFails \/ counts.crashes > 0)))
<1>. SUFFICES ASSUME \A s \in Setups : Safe(s)
             PROVE  Spec => [](pc # "failed" /\ (ResumeNeverFails \/ counts.crashes > 0))
    OBVIOUS
<1>1. Kept /\ Leaving => pc # "failed" /\ (ResumeNeverFails \/ counts.crashes > 0)
    BY DEF Kept, Requests, Leaving, ResumeNeverFails
<1>. QED  BY <1>1, LeavingInvariant, PTL
=============================================================================

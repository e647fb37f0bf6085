------------------------- MODULE RerunStateMachine -------------------------
(***************************************************************************)
(* megatron/core/rerun_state_machine.py as train_step of Megatron-Bridge   *)
(* drives it.  When a result of an iteration is rejected, the iteration is *)
(* run again in place and then, in a second job, on another device, to     *)
(* tell a transient from a persistent fault and from a result that is      *)
(* right but unwelcome.  The ranks agree by all-reducing flags.            *)
(*                                                                         *)
(* What the machine decides can be judged because the model knows how a    *)
(* result came about: a result is determined by its batch, the position of *)
(* the random number generator, and whether the device computed it well.   *)
(***************************************************************************)
EXTENDS Naturals, Sequences, FiniteSets

CONSTANTS
    None,           \* no value yet
    Ranks,          \* all ranks of the job
    Devices,        \* devices a rank may be scheduled on
    Microbatches,   \* microbatches per iteration
    Iterations,     \* train_iters
    Modes,          \* rerun modes to explore
    CheckSets,      \* enabled checks to explore: "nan" is fatal, "spiky" is not
    MaxOdd,         \* bound: inputs whose right result is rejected
    MaxFaults,      \* bound: devices that compute wrongly for good, and transient faults
    MaxUnlucky      \* bound: relaunches that put a rank on its suspicious device

Batches == 1 .. Iterations * Microbatches

ASSUME RerunAssumption ==
    /\ Ranks # {} /\ IsFiniteSet(Ranks)
    /\ IsFiniteSet(Devices)
    /\ \E d \in [Ranks -> Devices] : \A r, q \in Ranks : d[r] = d[q] => r = q
    /\ Microbatches \in Nat \ {0} /\ Iterations \in Nat \ {0}
    /\ Modes \subseteq {"disabled", "validate_results", "report_determinism_stats"}
    /\ CheckSets \subseteq SUBSET {"nan", "spiky"}
    /\ MaxOdd \in Nat /\ MaxFaults \in Nat /\ MaxUnlucky \in Nat
    /\ {"well", "glitch"} \cap Devices = {}
    /\ None \notin Nat \X {"nan", "spiky"}   \* None is not a call

VARIABLES
    config,     \* mode, checks, the faults of the hardware and of the data; never changes
    machine,    \* the RerunStateMachine of each rank
    iterator,   \* the RerunDataIterator of each rank
    source,     \* microbatches each rank has drawn from its data loader
    rng,        \* position of the random number generators of each rank
    device,     \* where each rank runs
    pc,         \* where each rank is in train_step
    micro,      \* microbatches each rank has done in this forward-backward pass
    step,       \* train_state.step: optimizer steps done
    job,        \* "running", an exit code, "error" or "finished"
    checkpoint, \* the last checkpoint saved on exit
    glitches,   \* transient faults so far
    unlucky,    \* relaunches on a suspicious device so far
    initialRun, \* history: inputs of the initial run of this iteration, per rank
    thisRun,    \* history: inputs of the current run, per rank
    rejected,   \* history: the rejections of initial runs
    diagnoses   \* history: what comparisons were made, and what was concluded

perRank == <<machine, iterator, source, rng, pc, micro>>
faults  == <<glitches, unlucky>>
history == <<initialRun, thisRun, rejected, diagnoses>>
vars == <<config, perRank, device, step, job, checkpoint, faults, history>>

---------------------------------------------------------------------------
(* Results                                                                 *)

\* A loss: where it comes from, how it was computed, and whether it is NaN.
Result(r, b, g, made) ==
    LET odd == made # "well" \/ <<r, b>> \in config.odd
    IN  [batch |-> b, rng |-> g, made |-> made,
         seen |-> IF odd THEN config.symptom[r] ELSE "fine"]

\* _compare_floats: two NaNs match, otherwise only equal numbers do.
Match(a, b) == a = b \/ (a.seen = "nan" /\ b.seen = "nan")

\* The rejection functions of masked_next_token_loss.
Rejects(check, res) == res.seen = check

Fatal(check) == check = "nan"

\* How the device of rank r may compute now.
Ways(r) ==
    IF device[r] \in config.broken THEN {device[r]}
    ELSE {"well"} \cup (IF glitches + Cardinality(config.broken) < MaxFaults THEN {"glitch"} ELSE {})

---------------------------------------------------------------------------
(* The machine of one rank                                                 *)

NewMachine ==
    [state                    |-> "NOT_RUNNING_YET",
     first_iteration_complete |-> FALSE,
     rerun_requested          |-> FALSE,
     checkpoint_requested     |-> FALSE,
     restart_again_requested  |-> FALSE,
     continue_requested       |-> FALSE,
     failed_validation_call   |-> None,
     initial_result           |-> None,
     suspicious_device        |-> None,
     saved_state              |-> None,
     saved_results            |-> {}]

\* A new process that loads state_dict: what is not in the checkpoint is new.
LoadStateDict(m) ==
    [m EXCEPT !.first_iteration_complete = FALSE, !.saved_state = None, !.saved_results = {}]

\* validate_result, one operator per branch that changes the machine.
FirstRejection(m, call, res) ==
    /\ m.state = "INITIAL_RUN" /\ ~m.rerun_requested
    /\ m.first_iteration_complete
    /\ Rejects(call[2], res)

Compares(m, call) ==
    /\ m.state \in {"RERUNNING_IN_PLACE", "RERUNNING_FROM_CHECKPOINT"}
    /\ call = m.failed_validation_call

Reject(m, call, res) ==
    [m EXCEPT !.failed_validation_call = call, !.initial_result = res, !.rerun_requested = TRUE]

CompareInPlaceGoesOn(m, call, res, where) ==  \* mutated form of the next definition
    IF ~Match(m.initial_result, res)
    THEN [m EXCEPT !.continue_requested = TRUE]
    ELSE [m EXCEPT !.checkpoint_requested = @ \/ Fatal(call[2]),
                   !.continue_requested = @ \/ ~Fatal(call[2]),
                   !.suspicious_device = where]

CompareInPlace(m, call, res, where) ==
    IF ~Match(m.initial_result, res)
    THEN [m EXCEPT !.continue_requested = @ \/ ~Fatal(call[2])]
    ELSE [m EXCEPT !.checkpoint_requested = @ \/ Fatal(call[2]),
                   !.continue_requested = @ \/ ~Fatal(call[2]),
                   !.suspicious_device = where]

CompareOnSameDevice(m, call, where) ==  \* mutated form of the next definition
    IF where # m.suspicious_device
    THEN [m EXCEPT !.restart_again_requested = TRUE]
    ELSE [m EXCEPT !.continue_requested = @ \/ ~Fatal(call[2])]

CompareElsewhere(m, call, where) ==
    IF where = m.suspicious_device
    THEN [m EXCEPT !.restart_again_requested = TRUE]
    ELSE [m EXCEPT !.continue_requested = @ \/ ~Fatal(call[2])]

\* The branch of report_determinism_stats.
Collect(m, call, res) ==
    IF m.state = "INITIAL_RUN"
    THEN [m EXCEPT !.rerun_requested = TRUE,
                   !.saved_results = @ \cup {[call |-> call, result |-> res]}]
    ELSE m

ValidateResult(m, call, res, where) ==
    CASE config.mode = "disabled" -> m
      [] config.mode = "report_determinism_stats" -> Collect(m, call, res)
      [] config.mode = "validate_results" /\ FirstRejection(m, call, res) -> Reject(m, call, res)
      [] config.mode = "validate_results" /\ Compares(m, call) ->
            IF m.state = "RERUNNING_IN_PLACE"
            THEN CompareInPlace(m, call, res, where)
            ELSE CompareElsewhere(m, call, where)
      [] OTHER -> m

\* The checks of masked_next_token_loss on one microbatch, in their order.
CheckLoss(m, i, res, where) ==
    LET afterNan == IF "nan" \in config.checks
                    THEN ValidateResult(m, <<i, "nan">>, res, where) ELSE m
    IN  IF "spiky" \in config.checks
        THEN ValidateResult(afterNan, <<i, "spiky">>, res, where) ELSE afterNan

DiagnosisOnAnyDevice(m, call, res, where) ==  \* mutated form of the next definition
    CASE config.mode = "validate_results" /\ Compares(m, call) ->
            IF m.state = "RERUNNING_IN_PLACE"
            THEN IF Match(m.initial_result, res) THEN {"FIRST_RERUN_REPRODUCIBLE"}
                                                 ELSE {"FIRST_RERUN_NOT_REPRODUCIBLE"}
            ELSE IF Match(m.initial_result, res) THEN {"SECOND_RERUN_REPRODUCIBLE"}
                                                 ELSE {"SECOND_RERUN_NOT_REPRODUCIBLE"}
      [] config.mode = "report_determinism_stats" /\ m.state = "RERUNNING_IN_PLACE" -> {"STATS"}
      [] OTHER -> {}

\* What the machine logs about the comparison it makes for a call, if any.
Diagnosis(m, call, res, where) ==
    CASE config.mode = "validate_results" /\ Compares(m, call) ->
            IF m.state = "RERUNNING_IN_PLACE"
            THEN IF Match(m.initial_result, res) THEN {"FIRST_RERUN_REPRODUCIBLE"}
                                                 ELSE {"FIRST_RERUN_NOT_REPRODUCIBLE"}
            ELSE IF where = m.suspicious_device THEN {}
            ELSE IF Match(m.initial_result, res) THEN {"SECOND_RERUN_REPRODUCIBLE"}
                                                 ELSE {"SECOND_RERUN_NOT_REPRODUCIBLE"}
      [] config.mode = "report_determinism_stats" /\ m.state = "RERUNNING_IN_PLACE" -> {"STATS"}
      [] OTHER -> {}

InitialResult(m, call) ==
    IF config.mode = "report_determinism_stats"
    THEN (CHOOSE s \in m.saved_results : s.call = call).result
    ELSE m.initial_result

Diagnoses(r, i, res) ==
    UNION {{[rank |-> r, step |-> step, status |-> s,
             initial |-> InitialResult(machine[r], <<i, c>>), result |-> res] :
                s \in Diagnosis(machine[r], <<i, c>>, res, device[r])} : c \in config.checks}

Rejections(r, i, res) ==
    {[rank |-> r, step |-> step, fatal |-> Fatal(c)] :
        c \in {d \in config.checks :
                 /\ config.mode = "validate_results"
                 /\ FirstRejection(machine[r], <<i, d>>, res)}}

---------------------------------------------------------------------------
(* The data iterator of one rank                                           *)

NewIterator == [saved_microbatches |-> <<>>, replaying |-> FALSE, replay_pos |-> 0]

AdvanceKeepsBatches(it) ==  \* mutated form of the next definition
    [it EXCEPT !.replaying = FALSE]

Advance(it) == [it EXCEPT !.replaying = FALSE, !.saved_microbatches = <<>>]

Rewind(it) == [it EXCEPT !.replaying = TRUE, !.replay_pos = 0]

\* __next__: a saved microbatch while replaying, a new one otherwise.
NextBatch(r) ==
    IF iterator[r].replaying
    THEN iterator[r].saved_microbatches[iterator[r].replay_pos + 1]
    ELSE source[r] + 1

DrawBatch(r) ==
    IF iterator[r].replaying
    THEN /\ iterator' = [iterator EXCEPT ![r].replay_pos = @ + 1]
         /\ UNCHANGED source
    ELSE /\ source' = [source EXCEPT ![r] = @ + 1]
         /\ iterator' = IF config.mode = "disabled" THEN iterator
                        ELSE [iterator EXCEPT ![r].saved_microbatches = Append(@, source[r] + 1)]
---------------------------------------------------------------------------

\* Where the launcher may put the ranks.
Placements == {d \in [Ranks -> Devices] : \A r, q \in Ranks : d[r] = d[q] => r = q}

Init ==
    /\ config \in [mode : Modes, checks : CheckSets,
                   broken : {d \in SUBSET Devices : Cardinality(d) <= MaxFaults},
                   odd : {o \in SUBSET (Ranks \X Batches) : Cardinality(o) <= MaxOdd},
                   symptom : [Ranks -> {"nan", "spiky"}]]
    /\ machine = [r \in Ranks |-> NewMachine]
    /\ iterator = [r \in Ranks |-> NewIterator]
    /\ source = [r \in Ranks |-> 0]
    /\ rng = [r \in Ranks |-> 0]
    /\ device = CHOOSE d \in Placements : TRUE   \* devices differ by name only
    /\ pc = [r \in Ranks |-> "loop"]
    /\ micro = [r \in Ranks |-> 0]
    /\ step = 0
    /\ job = "running"
    /\ checkpoint = [step |-> 0, machine |-> machine, rng |-> rng]
    /\ glitches = 0
    /\ unlucky = 0
    /\ initialRun = [r \in Ranks |-> <<>>]
    /\ thisRun = [r \in Ranks |-> <<>>]
    /\ rejected = {}
    /\ diagnoses = {}

Running == job = "running"

\* A forward-backward pass begins on rank r.
EnterPass(r) ==
    /\ pc' = [pc EXCEPT ![r] = "forward"]
    /\ micro' = [micro EXCEPT ![r] = 0]
    /\ thisRun' = [thisRun EXCEPT ![r] = <<>>]

\* should_run_forward_backward in NOT_RUNNING_YET: the state of the iteration
\* is saved and the microbatches of the last one are dropped.  Loading
\* data_iterator_checkpoints just before that leaves no trace.
BeginInitialRun(r) ==
    /\ Running /\ pc[r] = "loop"
    /\ machine[r].state = "NOT_RUNNING_YET"
    /\ IF config.mode = "disabled"
       THEN /\ machine' = [machine EXCEPT ![r].state = "INITIAL_RUN"]
            /\ UNCHANGED iterator
       ELSE /\ machine' = [machine EXCEPT ![r].state = "INITIAL_RUN",
                                          ![r].saved_state = rng[r],
                                          ![r].rerun_requested = FALSE,
                                          ![r].checkpoint_requested = FALSE,
                                          ![r].restart_again_requested = FALSE,
                                          ![r].continue_requested = FALSE]
            /\ iterator' = [iterator EXCEPT ![r] = Advance(@)]
    /\ EnterPass(r)
    /\ initialRun' = [initialRun EXCEPT ![r] = <<>>]
    /\ UNCHANGED <<config, source, rng, device, step, job, checkpoint, faults, rejected, diagnoses>>

\* The same in WILL_RERUN_FROM_CHECKPOINT: the second job starts the rerun.
BeginRerunFromCheckpoint(r) ==
    /\ Running /\ pc[r] = "loop"
    /\ machine[r].state = "WILL_RERUN_FROM_CHECKPOINT"
    /\ machine' = [machine EXCEPT ![r].state = "RERUNNING_FROM_CHECKPOINT"]
    /\ EnterPass(r)
    /\ UNCHANGED <<config, iterator, source, rng, device, step, job, checkpoint, faults,
                   initialRun, rejected, diagnoses>>

\* One microbatch: next(data_iterator), the model, and the checks of the loss.
\* With reruns disabled a fatal rejection raises RuntimeError.
Forward(r) ==
    /\ Running /\ pc[r] = "forward"
    /\ \E made \in Ways(r) :
         LET b   == NextBatch(r)
             i   == micro[r] + 1
             res == Result(r, b, rng[r], made)
             input == <<b, rng[r]>>
         IN  /\ glitches' = IF made = "glitch" THEN glitches + 1 ELSE glitches
             /\ machine' = [machine EXCEPT ![r] = CheckLoss(@, i, res, device[r])]
             /\ job' = IF config.mode = "disabled" /\ "nan" \in config.checks /\ Rejects("nan", res)
                       THEN "error" ELSE job
             /\ thisRun' = [thisRun EXCEPT ![r] = Append(@, input)]
             /\ initialRun' = IF machine[r].state = "INITIAL_RUN"
                              THEN [initialRun EXCEPT ![r] = Append(@, input)] ELSE initialRun
             /\ rejected' = rejected \cup Rejections(r, i, res)
             /\ diagnoses' = diagnoses \cup Diagnoses(r, i, res)
             /\ micro' = [micro EXCEPT ![r] = i]
             /\ pc' = [pc EXCEPT ![r] = IF i = Microbatches THEN "loop" ELSE "forward"]
    /\ DrawBatch(r)
    /\ rng' = [rng EXCEPT ![r] = @ + 1]
    /\ UNCHANGED <<config, device, step, checkpoint, unlucky>>

\* should_run_forward_backward after the only pass, reruns disabled.
EndPassDisabled(r) ==
    /\ Running /\ pc[r] = "loop" /\ config.mode = "disabled"
    /\ machine[r].state = "INITIAL_RUN"
    /\ machine' = [machine EXCEPT ![r].state = "NOT_RUNNING_YET"]
    /\ pc' = [pc EXCEPT ![r] = "left"]
    /\ UNCHANGED <<config, iterator, source, rng, micro, device, step, job, checkpoint,
                   faults, history>>

\* _reduce_any is entered by every rank before any of them leaves it.
AllAt(state) ==
    /\ Running /\ config.mode # "disabled"
    /\ \A r \in Ranks : pc[r] = "loop" /\ machine[r].state = state

Any(flag) == \E r \in Ranks : machine[r][flag]

\* All ranks leave the while loop in the given state.
LeaveLoop(state) ==
    /\ machine' = [r \in Ranks |-> [machine[r] EXCEPT !.state = state]]
    /\ pc' = [r \in Ranks |-> "left"]

\* _restore_state and the rewind of the data iterators, on every rank.
RestoreAndRewind ==
    /\ rng' = [r \in Ranks |-> machine[r].saved_state]
    /\ iterator' = [r \in Ranks |-> Rewind(iterator[r])]

\* should_run_forward_backward after the initial run.
AcceptInitialRun ==
    /\ AllAt("INITIAL_RUN") /\ ~Any("rerun_requested")
    /\ LeaveLoop("NOT_RUNNING_YET")
    /\ UNCHANGED <<config, iterator, source, rng, micro, device, step, job, checkpoint,
                   faults, history>>

RerunInPlace ==
    /\ AllAt("INITIAL_RUN") /\ Any("rerun_requested")
    /\ machine' = [r \in Ranks |-> [machine[r] EXCEPT !.state = "RERUNNING_IN_PLACE"]]
    /\ RestoreAndRewind
    /\ pc' = [r \in Ranks |-> "forward"]
    /\ micro' = [r \in Ranks |-> 0]
    /\ thisRun' = [r \in Ranks |-> <<>>]
    /\ UNCHANGED <<config, source, device, step, job, checkpoint, faults,
                   initialRun, rejected, diagnoses>>

\* should_run_forward_backward after the rerun in place.
ReportStats ==
    /\ AllAt("RERUNNING_IN_PLACE") /\ config.mode = "report_determinism_stats"
    /\ machine' = [r \in Ranks |-> [machine[r] EXCEPT !.state = "NOT_RUNNING_YET",
                                                      !.saved_results = {}]]
    /\ pc' = [r \in Ranks |-> "left"]
    /\ UNCHANGED <<config, iterator, source, rng, micro, device, step, job, checkpoint,
                   faults, history>>

ContinueInPlaceAlone ==  \* mutated form of the next definition
    /\ AllAt("RERUNNING_IN_PLACE") /\ config.mode = "validate_results"
    /\ Any("continue_requested")
    /\ machine' = [r \in Ranks |-> IF machine[r].continue_requested
                                   THEN [machine[r] EXCEPT !.state = "NOT_RUNNING_YET"]
                                   ELSE machine[r]]
    /\ pc' = [r \in Ranks |-> "left"]
    /\ UNCHANGED <<config, iterator, source, rng, micro, device, step, job, checkpoint,
                   faults, history>>

ContinueInPlace ==
    /\ AllAt("RERUNNING_IN_PLACE") /\ config.mode = "validate_results"
    /\ Any("continue_requested")
    /\ LeaveLoop("NOT_RUNNING_YET")
    /\ UNCHANGED <<config, iterator, source, rng, micro, device, step, job, checkpoint,
                   faults, history>>

StopInPlace ==
    /\ AllAt("RERUNNING_IN_PLACE") /\ config.mode = "validate_results"
    /\ ~Any("continue_requested")
    /\ LeaveLoop(IF Any("checkpoint_requested") THEN "WILL_RERUN_FROM_CHECKPOINT"
                                                ELSE "RERUNNING_IN_PLACE")
    /\ RestoreAndRewind
    /\ UNCHANGED <<config, source, micro, device, step, job, checkpoint, faults, history>>

\* should_run_forward_backward after the rerun from a checkpoint.
EndRerunFromCheckpoint ==
    /\ AllAt("RERUNNING_FROM_CHECKPOINT")
    /\ LeaveLoop(CASE Any("restart_again_requested") -> "RERUNNING_AGAIN_FROM_CHECKPOINT"
                   [] ~Any("restart_again_requested") /\ Any("continue_requested") ->
                        "NOT_RUNNING_YET"
                   [] OTHER -> "RERUNNING_FROM_CHECKPOINT")
    /\ UNCHANGED <<config, iterator, source, rng, micro, device, step, job, checkpoint,
                   faults, history>>

\* should_checkpoint_and_exit: whether to save, and the exit code (0: go on).
Verdict(state) ==
    CASE config.mode # "validate_results"              -> [save |-> FALSE, code |-> 0]
      [] config.mode = "validate_results" /\ state = "RERUNNING_IN_PLACE" ->
            [save |-> TRUE, code |-> 17]
      [] config.mode = "validate_results" /\ state = "WILL_RERUN_FROM_CHECKPOINT" ->
            [save |-> TRUE, code |-> 16]
      [] config.mode = "validate_results" /\ state = "RERUNNING_FROM_CHECKPOINT" ->
            [save |-> FALSE, code |-> 17]
      [] config.mode = "validate_results" /\ state = "RERUNNING_AGAIN_FROM_CHECKPOINT" ->
            [save |-> FALSE, code |-> 16]
      [] OTHER                                         -> [save |-> FALSE, code |-> 0]

Decide(r) ==
    /\ Running /\ pc[r] = "left"
    /\ machine' = [machine EXCEPT ![r].first_iteration_complete = TRUE]
    /\ pc' = [pc EXCEPT ![r] = IF Verdict(machine[r].state).code = 0 THEN "step" ELSE "exit"]
    /\ UNCHANGED <<config, iterator, source, rng, micro, device, step, job, checkpoint,
                   faults, history>>

\* optimizer.step and the end of train_step.
OptimizerStep ==
    /\ Running /\ \A r \in Ranks : pc[r] = "step"
    /\ step' = step + 1
    /\ pc' = [r \in Ranks |-> "loop"]
    /\ job' = IF step' = Iterations THEN "finished" ELSE job
    /\ UNCHANGED <<config, machine, iterator, source, rng, micro, device, checkpoint,
                   faults, history>>

\* train saves the checkpoint if told so, and the process exits.  The ranks
\* save together, so all of them must have come to the same verdict.
Exit ==
    /\ Running
    /\ \E v \in {Verdict(machine[r].state) : r \in Ranks} :
         /\ \A r \in Ranks : pc[r] = "exit" /\ Verdict(machine[r].state) = v
         /\ job' = IF v.code = 16 THEN "exit 16" ELSE "exit 17"
         /\ checkpoint' = IF v.save
                          THEN [step |-> step, machine |-> machine, rng |-> rng] ELSE checkpoint
    /\ UNCHANGED <<config, perRank, device, step, faults, history>>

\* The job is launched again after exit code 16 and loads the checkpoint; the
\* data loader starts at consumed_train_samples.
Relaunch ==
    /\ job = "exit 16"
    /\ \E d \in Placements :
         /\ device' = d
         /\ LET again == \E r \in Ranks : d[r] = checkpoint.machine[r].suspicious_device
            IN  /\ again => unlucky < MaxUnlucky
                /\ unlucky' = IF again THEN unlucky + 1 ELSE unlucky
    /\ machine' = [r \in Ranks |-> LoadStateDict(checkpoint.machine[r])]
    /\ iterator' = [r \in Ranks |-> NewIterator]
    /\ source' = [r \in Ranks |-> checkpoint.step * Microbatches]
    /\ rng' = checkpoint.rng
    /\ pc' = [r \in Ranks |-> "loop"]
    /\ micro' = [r \in Ranks |-> 0]
    /\ step' = checkpoint.step
    /\ job' = "running"
    /\ thisRun' = [r \in Ranks |-> <<>>]
    /\ UNCHANGED <<config, checkpoint, glitches, initialRun, rejected, diagnoses>>

\* Nothing follows exit code 17, an exception or the last iteration.
Stopped ==
    /\ job \in {"exit 17", "error", "finished"}
    /\ UNCHANGED vars

RankStep(r) ==
    BeginInitialRun(r) \/ BeginRerunFromCheckpoint(r) \/ Forward(r)
        \/ EndPassDisabled(r) \/ Decide(r)

Collective ==
    \/ AcceptInitialRun \/ RerunInPlace
    \/ ReportStats \/ ContinueInPlace \/ StopInPlace
    \/ EndRerunFromCheckpoint
    \/ OptimizerStep \/ Exit

Next == (\E r \in Ranks : RankStep(r)) \/ Collective \/ Relaunch \/ Stopped

Spec == Init /\ [][Next]_vars

\* Ranks and collectives make progress, and a job that asks for it is launched
\* again.  Nothing makes a fault happen.
FairSpec ==
    /\ Spec
    /\ \A r \in Ranks : WF_vars(RankStep(r))
    /\ WF_vars(Collective) /\ WF_vars(Relaunch)

---------------------------------------------------------------------------
(* Properties                                                              *)

States == {"NOT_RUNNING_YET", "INITIAL_RUN", "RERUNNING_IN_PLACE", "WILL_RERUN_FROM_CHECKPOINT",
           "RERUNNING_FROM_CHECKPOINT", "RERUNNING_AGAIN_FROM_CHECKPOINT"}

Results == [batch : Nat, rng : Nat, made : {"well", "glitch"} \cup Devices,
            seen : {"fine", "nan", "spiky"}]

CallSet == Nat \X {"nan", "spiky"}

Machines ==
    [state : States, first_iteration_complete : BOOLEAN, rerun_requested : BOOLEAN,
     checkpoint_requested : BOOLEAN, restart_again_requested : BOOLEAN,
     continue_requested : BOOLEAN,
     failed_validation_call : CallSet \cup {None}, initial_result : Results \cup {None},
     suspicious_device : Devices \cup {None}, saved_state : Nat \cup {None},
     saved_results : SUBSET [call : CallSet, result : Results]]

Iterators == [saved_microbatches : Seq(Nat), replaying : BOOLEAN, replay_pos : Nat]

\* Types of the variables; the history is left to the properties that read it.
TypeOK ==
    /\ machine \in [Ranks -> Machines]
    /\ iterator \in [Ranks -> Iterators]
    /\ source \in [Ranks -> Nat] /\ rng \in [Ranks -> Nat] /\ micro \in [Ranks -> Nat]
    /\ pc \in [Ranks -> {"loop", "forward", "left", "step", "exit"}]
    /\ step \in Nat
    /\ job \in {"running", "exit 16", "exit 17", "error", "finished"}


\* No rank updates its weights while another saves a checkpoint or exits: the
\* flags are all-reduced, so that every rank leaves should_run_forward_backward
\* in the same state, also the ranks that rejected nothing themselves.
SameVerdict ==
    \A r, q \in Ranks :
        /\ ~(pc[r] = "step" /\ pc[q] = "exit")
        /\ pc[r] = "exit" /\ pc[q] = "exit" =>
              Verdict(machine[r].state) = Verdict(machine[q].state)

\* A rerun, in place or in the next job, computes from the inputs of the
\* initial run, batch by batch and with the same random numbers; otherwise the
\* comparison of the results would mean nothing (RerunDataIterator, _save_state,
\* _restore_state, and the checkpoint written on exit).
ReplayIsExact ==
    \A r \in Ranks :
        machine[r].state # "NOT_RUNNING_YET" =>
            \A i \in DOMAIN thisRun[r] :
                i \in DOMAIN initialRun[r] /\ thisRun[r][i] = initialRun[r][i]

\* What the machine concludes of a result of the iteration at hand is true: a
\* result that does not come again in place, or on another device, was touched
\* by a fault in one of the runs, and "Correct result" is only said of a result
\* that is rejected however well it is computed.  Statistics differ only where
\* a device erred.
DiagnosisIsTrue ==
    \A d \in diagnoses :
        LET faulty == d.initial.made # "well" \/ d.result.made # "well"
            mine   == d.initial.batch > d.step * Microbatches
        IN  mine => CASE d.status = "FIRST_RERUN_NOT_REPRODUCIBLE" ->
                            d.initial.made = "glitch" \/ d.result.made = "glitch"
                      [] d.status = "SECOND_RERUN_NOT_REPRODUCIBLE" -> faulty
                      [] d.status = "SECOND_RERUN_REPRODUCIBLE" ->
                            <<d.rank, d.initial.batch>> \in config.odd
                      [] d.status = "STATS" -> Match(d.initial, d.result) \/ faulty
                      [] OTHER -> TRUE

\* validate_result: "fatal: whether to abort the job when fault attribution is
\* complete".  An iteration in which a fatal check rejected a result never
\* reaches the optimizer.
FatalFailureStops == \A x \in rejected : x.fatal => step <= x.step

\* The same for the checks that Bridge enables by default: no result is
\* rejected by a check that is not fatal.
DefaultChecksStop == config.checks = {"nan"} => FatalFailureStops

\* A rejected result is resolved: the ranks go on with the next iteration or
\* the job ends for good, however many processes it takes.
SuspicionResolved ==
    (\E r \in Ranks : machine[r].rerun_requested /\ machine[r].state = "INITIAL_RUN")
        ~> (job \in {"exit 17", "finished"}
              \/ \A r \in Ranks : machine[r].state = "NOT_RUNNING_YET")

=============================================================================

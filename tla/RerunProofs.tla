----------------------------- MODULE RerunProofs -----------------------------
(***************************************************************************)
(* What RerunStateMachine guarantees for every number of ranks, devices,   *)
(* microbatches and iterations and every placement of faults.  The         *)
(* inductive invariant says, for each state of the machine and each place  *)
(* of train_step, which batches and random numbers the rank has used and   *)
(* will use next, and that the ranks leave the loop in step.  The second   *)
(* part, from Seen on, is about what the machine concludes.                *)
(***************************************************************************)
EXTENDS RerunStateMachine, FiniteSetTheorems, TLAPS

AllModes == {"disabled", "validate_results", "report_determinism_stats"}

Base == step * Microbatches     \* batches consumed before this iteration

\* s holds the inputs of n microbatches that follow batch b and position g.
Runs(s, b, g, n) ==
    /\ s \in Seq(Nat \X Nat) /\ Len(s) = n
    /\ \A i \in 1 .. n : s[i] = <<b + i, g + i - 1>>

\* s holds the n batches that follow batch b.
Drawn(s, b, n) ==
    /\ s \in Seq(Nat) /\ Len(s) = n
    /\ \A i \in 1 .. n : s[i] = b + i

ConfigType ==
    /\ config.mode \in AllModes
    /\ config.broken \subseteq Devices
    /\ config.symptom \in [Ranks -> {"nan", "spiky"}]

TypeInv ==
    /\ TypeOK /\ ConfigType
    /\ device \in [Ranks -> Devices]
    /\ checkpoint.step \in Nat
    /\ checkpoint.machine \in [Ranks -> Machines]
    /\ checkpoint.rng \in [Ranks -> Nat]
    /\ initialRun \in [Ranks -> Seq(Nat \X Nat)]
    /\ thisRun \in [Ranks -> Seq(Nat \X Nat)]

\* How far a forward-backward pass is.
InPass(r) ==
    /\ micro[r] <= Microbatches
    /\ pc[r] = "forward" => micro[r] < Microbatches
    /\ pc[r] = "loop" => micro[r] = Microbatches

\* The checkpoint holds this iteration of rank r, to be run again.
Saved(r) ==
    /\ checkpoint.step = step
    /\ checkpoint.machine[r].state = "WILL_RERUN_FROM_CHECKPOINT"
    /\ Runs(initialRun[r], Base, checkpoint.rng[r], Microbatches)

\* Between two iterations, or done with this one.
Resting(r) ==
    /\ pc[r] \in {"loop", "left", "step"}
    /\ source[r] = IF pc[r] = "loop" THEN Base ELSE Base + Microbatches

\* The initial run saves the batches it draws and knows where its generators began.
InitialRun(r) ==
    /\ pc[r] \in {"forward", "loop"} /\ InPass(r)
    /\ ~iterator[r].replaying
    /\ Drawn(iterator[r].saved_microbatches, Base, micro[r])
    /\ source[r] = Base + micro[r]
    /\ machine[r].saved_state \in Nat
    /\ rng[r] = machine[r].saved_state + micro[r]
    /\ Runs(initialRun[r], Base, machine[r].saved_state, micro[r])
    /\ thisRun[r] = initialRun[r]

\* The rerun in place replays those batches from the restored generators.
InPlace(r) ==
    /\ machine[r].saved_state \in Nat
    /\ Runs(initialRun[r], Base, machine[r].saved_state, Microbatches)
    /\ pc[r] \in {"forward", "loop", "left", "exit"}
    /\ pc[r] \in {"forward", "loop"} =>
          /\ InPass(r)
          /\ iterator[r].replaying /\ iterator[r].replay_pos = micro[r]
          /\ Drawn(iterator[r].saved_microbatches, Base, Microbatches)
          /\ source[r] = Base + Microbatches
          /\ rng[r] = machine[r].saved_state + micro[r]
          /\ Runs(thisRun[r], Base, machine[r].saved_state, micro[r])
    /\ pc[r] \in {"left", "exit"} =>
          /\ config.mode = "validate_results"
          /\ thisRun[r] = initialRun[r]

\* Before and after the relaunch, the iteration can be run from its beginning.
WillRerun(r) ==
    /\ config.mode = "validate_results"
    /\ pc[r] \in {"left", "exit", "loop"}
    /\ pc[r] \in {"left", "exit"} =>
          /\ Runs(initialRun[r], Base, rng[r], Microbatches)
          /\ thisRun[r] = initialRun[r]
    /\ pc[r] = "loop" =>
          /\ Saved(r) /\ ~iterator[r].replaying
          /\ source[r] = Base /\ rng[r] = checkpoint.rng[r]
          /\ thisRun[r] = <<>>

\* The rerun of the next job draws the same batches anew.
FromCheckpoint(r) ==
    /\ config.mode = "validate_results" /\ Saved(r)
    /\ pc[r] \in {"forward", "loop", "left", "exit"}
    /\ pc[r] \in {"forward", "loop"} =>
          /\ InPass(r) /\ ~iterator[r].replaying
          /\ rng[r] = checkpoint.rng[r] + micro[r]
          /\ Runs(thisRun[r], Base, checkpoint.rng[r], micro[r])
    /\ source[r] = Base + (IF pc[r] \in {"forward", "loop"} THEN micro[r] ELSE Microbatches)
    /\ pc[r] \in {"left", "exit"} => Runs(thisRun[r], Base, checkpoint.rng[r], Microbatches)

\* The next job ran on the suspicious device and gives way to another one.
Again(r) ==
    /\ config.mode = "validate_results" /\ Saved(r)
    /\ pc[r] \in {"left", "exit"}
    /\ Runs(thisRun[r], Base, checkpoint.rng[r], Microbatches)

WithReruns(r) ==
    /\ machine[r].state = "NOT_RUNNING_YET" => Resting(r)
    /\ machine[r].state = "INITIAL_RUN" => InitialRun(r)
    /\ machine[r].state = "RERUNNING_IN_PLACE" => InPlace(r)
    /\ machine[r].state = "WILL_RERUN_FROM_CHECKPOINT" => WillRerun(r)
    /\ machine[r].state = "RERUNNING_FROM_CHECKPOINT" => FromCheckpoint(r)
    /\ machine[r].state = "RERUNNING_AGAIN_FROM_CHECKPOINT" => Again(r)

WithoutReruns(r) ==
    /\ machine[r].state \in {"NOT_RUNNING_YET", "INITIAL_RUN"}
    /\ ~iterator[r].replaying
    /\ machine[r].state = "NOT_RUNNING_YET" => pc[r] \in {"loop", "left", "step"}
    /\ machine[r].state = "INITIAL_RUN" =>
          pc[r] \in {"forward", "loop"} /\ thisRun[r] = initialRun[r]

Phase(r) ==
    /\ config.mode = "disabled" => WithoutReruns(r)
    /\ config.mode # "disabled" => WithReruns(r)

\* The ranks are all in the loop, or have all left it in the same state.
Together ==
    config.mode # "disabled" =>
        \/ \A r \in Ranks : pc[r] \in {"loop", "forward"}
        \/ \E s \in States : \A r \in Ranks :
              /\ machine[r].state = s /\ pc[r] \in {"left", "step", "exit"}
              /\ pc[r] = "step" => Verdict(s).code = 0
              /\ pc[r] = "exit" => Verdict(s).code # 0

\* Who asks to be launched again has left a checkpoint of the iteration.
Exited == job = "exit 16" => config.mode = "validate_results" /\ \A r \in Ranks : Saved(r)

\* The inductive invariant: ReplayIsExact says nothing of the batches still to be
\* drawn, nor of the checkpoint that a relaunch starts from, on which the next
\* steps depend.
Inv == TypeInv /\ (\A r \in Ranks : Phase(r)) /\ Together /\ Exited

\* With fatal checks only, nothing lets an iteration go on once it is rejected.
Rejected ==
    config.checks = {"nan"} =>
        /\ \A r \in Ranks : ~machine[r].continue_requested
        /\ \A r \in Ranks : ~checkpoint.machine[r].continue_requested
        /\ rejected # {} => config.mode = "validate_results"
        /\ \A x \in rejected :
              /\ x.rank \in Ranks /\ x.step = step
              /\ machine[x.rank].state # "NOT_RUNNING_YET"
              /\ machine[x.rank].state = "INITIAL_RUN" => machine[x.rank].rerun_requested
-----------------------------------------------------------------------------
(***************************************************************************)
(* The inputs of a run grow by one microbatch at a time.                   *)
(***************************************************************************)
\* Sequences are equal when their elements are.
LEMMA SeqEqual ==
    ASSUME NEW S, NEW s \in Seq(S), NEW t \in Seq(S), Len(s) = Len(t),
           \A i \in 1 .. Len(s) : s[i] = t[i]
    PROVE  s = t
OBVIOUS

\* No microbatch is run yet.
LEMMA RunsNone == ASSUME NEW b, NEW g PROVE Runs(<<>>, b, g, 0)
BY DEF Runs

\* One microbatch more is run.
LEMMA RunsAppend ==
    ASSUME NEW s, NEW b \in Nat, NEW g \in Nat, NEW n \in Nat, Runs(s, b, g, n)
    PROVE  Runs(Append(s, <<b + n + 1, g + n>>), b, g, n + 1)
<1>. DEFINE e == <<b + n + 1, g + n>>
            t == Append(s, e)
<1>1. e \in Nat \X Nat
    OBVIOUS
<1>2. s \in Seq(Nat \X Nat) /\ Len(s) = n
    BY DEF Runs
<1>. HIDE DEF e
<1>3. t \in Seq(Nat \X Nat) /\ Len(t) = n + 1
    BY <1>1, <1>2
<1>4. \A i \in 1 .. n : t[i] = s[i]
    BY <1>1, <1>2
<1>5. t[n + 1] = e
    BY <1>1, <1>2
<1>6. e = <<b + (n + 1), g + (n + 1) - 1>>
    BY DEF e
<1>7. ASSUME NEW i \in 1 .. n + 1 PROVE t[i] = <<b + i, g + i - 1>>
    <2>1. CASE i \in 1 .. n
        BY <1>4, <2>1 DEF Runs
    <2>2. CASE i = n + 1
        <3>1. t[i] = <<b + (n + 1), g + (n + 1) - 1>>
            BY <1>5, <1>6, <2>2
        <3>. QED  BY <2>2, <3>1
    <2>3. i \in 1 .. n \/ i = n + 1
        OBVIOUS
    <2>. QED  BY <2>1, <2>2, <2>3
<1>. QED  BY <1>3, <1>7 DEF Runs, e

\* Two runs of the same length with the same start are the same.
LEMMA RunsSame ==
    ASSUME NEW s, NEW t, NEW b, NEW g, NEW n \in Nat, Runs(s, b, g, n), Runs(t, b, g, n)
    PROVE  s = t
<1>1. s \in Seq(Nat \X Nat) /\ t \in Seq(Nat \X Nat) /\ Len(s) = Len(t) /\ Len(s) = n
    BY DEF Runs
<1>2. \A i \in 1 .. Len(s) : s[i] = t[i]
    BY <1>1 DEF Runs
<1>. QED  BY <1>1, <1>2, SeqEqual

\* No batch is drawn yet.
LEMMA DrawnNone == ASSUME NEW b PROVE Drawn(<<>>, b, 0)
BY DEF Drawn

\* One batch more is drawn.
LEMMA DrawnAppend ==
    ASSUME NEW s, NEW b \in Nat, NEW n \in Nat, Drawn(s, b, n)
    PROVE  Drawn(Append(s, b + n + 1), b, n + 1)
<1>1. s \in Seq(Nat) /\ Len(s) = n /\ b + n + 1 \in Nat
    BY DEF Drawn
<1>2. Append(s, b + n + 1) \in Seq(Nat) /\ Len(Append(s, b + n + 1)) = n + 1
    BY <1>1
<1>3. ASSUME NEW i \in 1 .. n + 1 PROVE Append(s, b + n + 1)[i] = b + i
    BY <1>1 DEF Drawn
<1>. QED  BY <1>2, <1>3 DEF Drawn

\* A result has the type of the machine's initial_result.
LEMMA ResultType ==
    ASSUME ConfigType, NEW r \in Ranks, NEW b \in Nat, NEW g \in Nat,
           NEW made \in {"well", "glitch"} \cup Devices
    PROVE  Result(r, b, g, made) \in Results
<1>1. config.symptom[r] \in {"nan", "spiky"}
    BY DEF ConfigType
<1>. QED  BY <1>1 DEF Result, Results

\* How a device computes is one of the ways a result records.
LEMMA WaysType ==
    ASSUME TypeInv, NEW r \in Ranks, NEW made \in Ways(r)
    PROVE  made \in {"well", "glitch"} \cup Devices
BY DEF TypeInv, Ways
-----------------------------------------------------------------------------
(***************************************************************************)
(* validate_result changes neither the state of the machine nor the saved  *)
(* generator state.                                                        *)
(***************************************************************************)
Keeps(m, n) == n \in Machines /\ n.state = m.state /\ n.saved_state = m.saved_state

\* The first rejection.
LEMMA RejectKeeps ==
    ASSUME NEW m \in Machines, NEW call \in CallSet, NEW res \in Results
    PROVE  Keeps(m, Reject(m, call, res))
BY DEF Keeps, Reject, Machines

\* The comparison in place.
LEMMA InPlaceKeeps ==
    ASSUME NEW m \in Machines, NEW call \in CallSet, NEW res \in Results, NEW where \in Devices
    PROVE  Keeps(m, CompareInPlace(m, call, res, where))
<1>. DEFINE go   == m.continue_requested \/ ~Fatal(call[2])
            save == m.checkpoint_requested \/ Fatal(call[2])
<1>1. go \in BOOLEAN /\ save \in BOOLEAN
    BY DEF Fatal, Machines
<1>. HIDE DEF go, save
<1>2. Keeps(m, [m EXCEPT !.continue_requested = go])
    BY <1>1 DEF Keeps, Machines
<1>3. Keeps(m, [m EXCEPT !.checkpoint_requested = save, !.continue_requested = go,
                         !.suspicious_device = where])
    BY <1>1 DEF Keeps, Machines
<1>. QED  BY <1>2, <1>3 DEF CompareInPlace, go, save

\* The comparison by the next job.
LEMMA ElsewhereKeeps ==
    ASSUME NEW m \in Machines, NEW call \in CallSet, NEW where
    PROVE  Keeps(m, CompareElsewhere(m, call, where))
<1>. DEFINE go == m.continue_requested \/ ~Fatal(call[2])
<1>1. go \in BOOLEAN
    BY DEF Fatal, Machines
<1>. HIDE DEF go
<1>2. Keeps(m, [m EXCEPT !.continue_requested = go])
    BY <1>1 DEF Keeps, Machines
<1>3. Keeps(m, [m EXCEPT !.restart_again_requested = TRUE])
    BY DEF Keeps, Machines
<1>. QED  BY <1>2, <1>3 DEF CompareElsewhere, go

\* The statistics of report_determinism_stats.
LEMMA CollectKeeps ==
    ASSUME NEW m \in Machines, NEW call \in CallSet, NEW res \in Results
    PROVE  Keeps(m, Collect(m, call, res))
<1>. DEFINE all == m.saved_results \cup {[call |-> call, result |-> res]}
<1>1. all \in SUBSET [call : CallSet, result : Results]
    BY DEF Machines
<1>. HIDE DEF all
<1>2. Keeps(m, [m EXCEPT !.rerun_requested = TRUE, !.saved_results = all])
    BY <1>1 DEF Keeps, Machines
<1>3. Keeps(m, m)
    BY DEF Keeps
<1>. QED  BY <1>2, <1>3 DEF Collect, all

\* Every branch of validate_result.
LEMMA ValidateKeeps ==
    ASSUME ConfigType, NEW m \in Machines, NEW call \in CallSet, NEW res \in Results,
           NEW where \in Devices
    PROVE  Keeps(m, ValidateResult(m, call, res, where))
<1>1. CASE config.mode = "disabled"
    BY <1>1 DEF ValidateResult, Keeps
<1>2. CASE config.mode = "report_determinism_stats"
    BY <1>2, CollectKeeps DEF ValidateResult
<1>3. CASE config.mode = "validate_results"
    <2>1. CASE FirstRejection(m, call, res)
        BY <1>3, <2>1, RejectKeeps DEF ValidateResult, FirstRejection, Compares
    <2>2. CASE ~FirstRejection(m, call, res) /\ Compares(m, call)
        BY <1>3, <2>2, InPlaceKeeps, ElsewhereKeeps DEF ValidateResult
    <2>3. CASE ~FirstRejection(m, call, res) /\ ~Compares(m, call)
        BY <1>3, <2>3 DEF ValidateResult, Keeps
    <2>. QED  BY <2>1, <2>2, <2>3
<1>. QED  BY <1>1, <1>2, <1>3 DEF ConfigType, AllModes

\* All the checks of one loss.
LEMMA CheckLossKeeps ==
    ASSUME ConfigType, NEW m \in Machines, NEW i \in Nat, NEW res \in Results,
           NEW where \in Devices
    PROVE  Keeps(m, CheckLoss(m, i, res, where))
<1>. DEFINE nan   == ValidateResult(m, <<i, "nan">>, res, where)
            after == IF "nan" \in config.checks THEN nan ELSE m
            spiky == ValidateResult(after, <<i, "spiky">>, res, where)
<1>1. <<i, "nan">> \in CallSet /\ <<i, "spiky">> \in CallSet
    BY DEF CallSet
<1>2. Keeps(m, nan)
    BY <1>1, ValidateKeeps
<1>. HIDE DEF nan
<1>3. Keeps(m, after)
    BY <1>2 DEF Keeps
<1>. HIDE DEF after
<1>4. Keeps(after, spiky)
    BY <1>1, <1>3, ValidateKeeps DEF Keeps
<1>. HIDE DEF spiky
<1>5. CheckLoss(m, i, res, where) = IF "spiky" \in config.checks THEN spiky ELSE after
    BY DEF CheckLoss, nan, after, spiky
<1>. QED  BY <1>3, <1>4, <1>5 DEF Keeps
-----------------------------------------------------------------------------
(***************************************************************************)
(* Steps of one rank.                                                      *)
(***************************************************************************)
\* What the phase of a rank depends on is not changed.
Unmoved(q) ==
    /\ machine'[q] = machine[q] /\ iterator'[q] = iterator[q]
    /\ source'[q] = source[q] /\ rng'[q] = rng[q]
    /\ pc'[q] = pc[q] /\ micro'[q] = micro[q]
    /\ initialRun'[q] = initialRun[q] /\ thisRun'[q] = thisRun[q]

\* A product of naturals is a natural.
LEMMA ProductType == ASSUME NEW a \in Nat, NEW b \in Nat PROVE a * b \in Nat
OBVIOUS

\* Batches are counted by naturals.
LEMMA BaseType == ASSUME TypeInv PROVE Base \in Nat
<1>1. step \in Nat /\ Microbatches \in Nat
    BY RerunAssumption DEF TypeInv, TypeOK
<1>. QED  BY <1>1, ProductType DEF Base

\* A rank that a step does not touch stays in its phase.
LEMMA PhaseElsewhere ==
    ASSUME NEW q \in Ranks, Phase(q), Unmoved(q), UNCHANGED <<config, step, checkpoint>>
    PROVE  Phase(q)'
<1>1. Base' = Base
    BY DEF Base
<1>2. Saved(q) => Saved(q)'
    BY <1>1 DEF Saved, Unmoved, Runs
<1>3. InPass(q) => InPass(q)'
    BY DEF InPass, Unmoved
<1>4. WithoutReruns(q) => WithoutReruns(q)'
    BY DEF WithoutReruns, Unmoved
<1>5. Resting(q) => Resting(q)'
    BY <1>1 DEF Resting, Unmoved
<1>6. InitialRun(q) => InitialRun(q)'
    BY <1>1, <1>3 DEF InitialRun, Unmoved, Runs, Drawn
<1>7. InPlace(q) => InPlace(q)'
    BY <1>1, <1>3 DEF InPlace, Unmoved, Runs, Drawn
<1>8. WillRerun(q) => WillRerun(q)'
    BY <1>1, <1>2 DEF WillRerun, Unmoved, Runs
<1>9. FromCheckpoint(q) => FromCheckpoint(q)'
    BY <1>1, <1>2, <1>3 DEF FromCheckpoint, Unmoved, Runs
<1>10. Again(q) => Again(q)'
    BY <1>1, <1>2 DEF Again, Unmoved, Runs
<1>11. WithReruns(q) => WithReruns(q)'
    BY <1>5, <1>6, <1>7, <1>8, <1>9, <1>10 DEF WithReruns, Unmoved
<1>. QED  BY <1>4, <1>11 DEF Phase

\* A step of one rank keeps the invariant if it keeps the phase of that rank.
LEMMA OneRank ==
    ASSUME Inv, NEW r \in Ranks, TypeInv', Phase(r)', Together', job' # "exit 16",
           \A q \in Ranks \ {r} : Unmoved(q), UNCHANGED <<config, step, checkpoint>>
    PROVE  Inv'
<1>1. \A q \in Ranks : Phase(q)'
    BY PhaseElsewhere DEF Inv
<1>. QED  BY <1>1 DEF Inv, Exited

\* advance drops the saved microbatches.
LEMMA AdvanceType ==
    ASSUME NEW it \in Iterators
    PROVE  /\ Advance(it) \in Iterators
           /\ Advance(it).saved_microbatches = <<>> /\ Advance(it).replaying = FALSE
<1>1. <<>> \in Seq(Nat)
    OBVIOUS
<1>. QED  BY <1>1 DEF Advance, Iterators

\* The initial run starts from what the machine saves of the generators.
LEMMA BeginInitialRunInv ==
    ASSUME Inv, NEW r \in Ranks, BeginInitialRun(r)
    PROVE  Inv'
<1>1. /\ job = "running" /\ pc[r] = "loop" /\ machine[r].state = "NOT_RUNNING_YET"
      /\ UNCHANGED <<config, source, rng, device, step, job, checkpoint>>
    BY DEF BeginInitialRun, Running
<1>2. /\ pc' = [pc EXCEPT ![r] = "forward"] /\ micro' = [micro EXCEPT ![r] = 0]
      /\ thisRun' = [thisRun EXCEPT ![r] = <<>>] /\ initialRun' = [initialRun EXCEPT ![r] = <<>>]
    BY DEF BeginInitialRun, EnterPass
<1>3. TypeInv /\ Phase(r) /\ Together
    BY DEF Inv
<1>4. machine[r] \in Machines /\ iterator[r] \in Iterators /\ rng[r] \in Nat
    BY <1>3 DEF TypeInv, TypeOK
<1>5. /\ pc'[r] = "forward" /\ micro'[r] = 0 /\ thisRun'[r] = <<>> /\ initialRun'[r] = <<>>
    BY <1>2, <1>3 DEF TypeInv, TypeOK
<1>6. /\ machine' = [machine EXCEPT ![r] = machine'[r]]
      /\ iterator' = [iterator EXCEPT ![r] = iterator'[r]]
      /\ machine'[r] \in Machines /\ machine'[r].state = "INITIAL_RUN"
      /\ iterator'[r] \in Iterators
      /\ config.mode = "disabled" => iterator'[r] = iterator[r]
      /\ config.mode # "disabled" =>
            /\ machine'[r].saved_state = rng[r]
            /\ iterator'[r].saved_microbatches = <<>> /\ ~iterator'[r].replaying
    <2>1. CASE config.mode = "disabled"
        <3>1. /\ machine' = [machine EXCEPT ![r] = [@ EXCEPT !.state = "INITIAL_RUN"]]
              /\ iterator' = iterator
            BY <2>1 DEF BeginInitialRun
        <3>2. /\ [machine[r] EXCEPT !.state = "INITIAL_RUN"] \in Machines
              /\ [machine[r] EXCEPT !.state = "INITIAL_RUN"].state = "INITIAL_RUN"
            BY <1>4 DEF Machines, States
        <3>. QED  BY <1>3, <1>4, <2>1, <3>1, <3>2 DEF TypeInv, TypeOK
    <2>2. CASE config.mode # "disabled"
        <3>. DEFINE m == [machine[r] EXCEPT !.state = "INITIAL_RUN",
                                            !.saved_state = rng[r],
                                            !.rerun_requested = FALSE,
                                            !.checkpoint_requested = FALSE,
                                            !.restart_again_requested = FALSE,
                                            !.continue_requested = FALSE]
        <3>1. machine' = [machine EXCEPT ![r] = m] /\ iterator' = [iterator EXCEPT ![r] = Advance(@)]
            BY <2>2 DEF BeginInitialRun
        <3>2. m \in Machines /\ m.state = "INITIAL_RUN" /\ m.saved_state = rng[r]
            BY <1>4 DEF Machines, States
        <3>3. /\ Advance(iterator[r]) \in Iterators
              /\ Advance(iterator[r]).saved_microbatches = <<>>
              /\ Advance(iterator[r]).replaying = FALSE
            BY <1>4, AdvanceType
        <3>. HIDE DEF m
        <3>. QED  BY <1>3, <2>2, <3>1, <3>2, <3>3 DEF TypeInv, TypeOK
    <2>. QED  BY <2>1, <2>2
<1>7. TypeInv'
    <2>1. machine' \in [Ranks -> Machines] /\ iterator' \in [Ranks -> Iterators]
        BY <1>3, <1>6 DEF TypeInv, TypeOK
    <2>2. <<>> \in Seq(Nat \X Nat)
        OBVIOUS
    <2>3. thisRun' \in [Ranks -> Seq(Nat \X Nat)] /\ initialRun' \in [Ranks -> Seq(Nat \X Nat)]
        BY <1>2, <1>3, <2>2 DEF TypeInv
    <2>. QED  BY <1>1, <1>2, <1>3, <2>1, <2>3 DEF TypeInv, TypeOK, ConfigType
<1>8. Phase(r)'
    <2>1. CASE config.mode = "disabled"
        BY <1>1, <1>3, <1>5, <1>6, <2>1 DEF Phase, WithoutReruns
    <2>2. CASE config.mode # "disabled"
        <3>1. source[r] = Base /\ Base' = Base /\ Base \in Nat
            BY <1>1, <1>3, <2>2, BaseType DEF Phase, WithReruns, Resting, Base
        <3>2. InPass(r)'
            BY <1>5, RerunAssumption DEF InPass
        <3>3. Drawn(<<>>, Base, 0) /\ Runs(<<>>, Base, rng[r], 0)
            BY DrawnNone, RunsNone
        <3>4. InitialRun(r)'
            BY <1>1, <1>4, <1>5, <1>6, <2>2, <3>1, <3>2, <3>3 DEF InitialRun
        <3>. QED  BY <1>1, <1>6, <2>2, <3>4 DEF Phase, WithReruns
    <2>. QED  BY <2>1, <2>2
<1>9. Together'
    BY <1>1, <1>2, <1>3 DEF Together, TypeInv, TypeOK
<1>10. \A q \in Ranks \ {r} : Unmoved(q)
    BY <1>1, <1>2, <1>3, <1>6 DEF Unmoved, TypeInv, TypeOK
<1>. QED  BY <1>1, <1>7, <1>8, <1>9, <1>10, OneRank

\* The rerun of the next job starts from the checkpoint.
LEMMA BeginRerunInv ==
    ASSUME Inv, NEW r \in Ranks, BeginRerunFromCheckpoint(r)
    PROVE  Inv'
<1>1. /\ job = "running" /\ pc[r] = "loop" /\ machine[r].state = "WILL_RERUN_FROM_CHECKPOINT"
      /\ machine' = [machine EXCEPT ![r] = [@ EXCEPT !.state = "RERUNNING_FROM_CHECKPOINT"]]
      /\ UNCHANGED <<config, iterator, source, rng, device, step, job, checkpoint, initialRun>>
    BY DEF BeginRerunFromCheckpoint, Running
<1>2. /\ pc' = [pc EXCEPT ![r] = "forward"] /\ micro' = [micro EXCEPT ![r] = 0]
      /\ thisRun' = [thisRun EXCEPT ![r] = <<>>]
    BY DEF BeginRerunFromCheckpoint, EnterPass
<1>3. TypeInv /\ Phase(r) /\ Together
    BY DEF Inv
<1>4. machine[r] \in Machines
    BY <1>3 DEF TypeInv, TypeOK
<1>5. pc'[r] = "forward" /\ micro'[r] = 0 /\ thisRun'[r] = <<>>
    BY <1>2, <1>3 DEF TypeInv, TypeOK
<1>6. machine'[r] \in Machines /\ machine'[r].state = "RERUNNING_FROM_CHECKPOINT"
    <2>1. machine'[r] = [machine[r] EXCEPT !.state = "RERUNNING_FROM_CHECKPOINT"]
        BY <1>1, <1>3 DEF TypeInv, TypeOK
    <2>. QED  BY <1>4, <2>1 DEF Machines, States
<1>7. TypeInv'
    <2>1. machine' \in [Ranks -> Machines]
        BY <1>1, <1>3, <1>6 DEF TypeInv, TypeOK
    <2>. QED  BY <1>1, <1>2, <1>3, <2>1 DEF TypeInv, TypeOK, ConfigType
<1>8. Phase(r)'
    <2>1. config.mode # "disabled"
        BY <1>1, <1>3 DEF Phase, WithoutReruns
    <2>2. WillRerun(r)
        BY <1>1, <1>3, <2>1 DEF Phase, WithReruns
    <2>3. Base' = Base /\ Base \in Nat
        BY <1>1, <1>3, BaseType DEF Base
    <2>4. /\ Saved(r)' /\ ~iterator'[r].replaying
          /\ source'[r] = Base /\ rng'[r] = checkpoint.rng[r]
        BY <1>1, <2>2, <2>3 DEF WillRerun, Saved
    <2>5. InPass(r)'
        BY <1>5, RerunAssumption DEF InPass
    <2>6. Runs(<<>>, Base, checkpoint.rng[r], 0)
        BY RunsNone
    <2>7. checkpoint.rng[r] \in Nat
        BY <1>3 DEF TypeInv
    <2>8. FromCheckpoint(r)'
        BY <1>1, <1>5, <2>2, <2>3, <2>4, <2>5, <2>6, <2>7 DEF FromCheckpoint, WillRerun
    <2>. QED  BY <1>1, <1>6, <2>1, <2>8 DEF Phase, WithReruns
<1>9. Together'
    BY <1>1, <1>2, <1>3 DEF Together, TypeInv, TypeOK
<1>10. \A q \in Ranks \ {r} : Unmoved(q)
    BY <1>1, <1>2, <1>3 DEF Unmoved, TypeInv, TypeOK
<1>. QED  BY <1>1, <1>7, <1>8, <1>9, <1>10, OneRank

\* A microbatch is a natural number, also when it is drawn again.
LEMMA NextBatchType ==
    ASSUME Inv, NEW r \in Ranks, pc[r] = "forward"
    PROVE  /\ NextBatch(r) \in Nat
           /\ ~iterator[r].replaying => NextBatch(r) = source[r] + 1
           /\ machine[r].state = "RERUNNING_IN_PLACE" => NextBatch(r) = Base + micro[r] + 1
<1>1. TypeInv /\ Phase(r) /\ source[r] \in Nat /\ micro[r] \in Nat /\ Base \in Nat
    BY BaseType DEF Inv, TypeInv, TypeOK
<1>2. CASE ~iterator[r].replaying
    BY <1>1, <1>2 DEF NextBatch, Phase, WithoutReruns, WithReruns, InPlace
<1>3. CASE iterator[r].replaying
    <2>1. config.mode # "disabled"
        BY <1>1, <1>3 DEF Phase, WithoutReruns
    <2>2. machine[r].state \in States
        BY <1>1 DEF TypeInv, TypeOK, Machines
    <2>3. machine[r].state = "RERUNNING_IN_PLACE"
        BY <1>1, <1>3, <2>1, <2>2
           DEF States, Phase, WithReruns, Resting, InitialRun, WillRerun, FromCheckpoint, Again
    <2>4. /\ InPass(r) /\ iterator[r].replay_pos = micro[r]
          /\ Drawn(iterator[r].saved_microbatches, Base, Microbatches)
        BY <1>1, <2>1, <2>3 DEF Phase, WithReruns, InPlace
    <2>5. micro[r] + 1 \in 1 .. Microbatches
        BY <1>1, <2>4, RerunAssumption DEF InPass
    <2>6. NextBatch(r) = Base + (micro[r] + 1)
        BY <1>3, <2>4, <2>5 DEF NextBatch, Drawn
    <2>. QED  BY <1>1, <1>3, <2>6
<1>. QED  BY <1>2, <1>3

\* What Forward does to the variables of its rank.
LEMMA ForwardFacts ==
    ASSUME Inv, NEW r \in Ranks, Forward(r)
    PROVE  /\ pc[r] = "forward"
           /\ machine' = [machine EXCEPT ![r] = machine'[r]] /\ Keeps(machine[r], machine'[r])
           /\ thisRun' = [thisRun EXCEPT ![r] = Append(@, <<NextBatch(r), rng[r]>>)]
           /\ initialRun' = IF machine[r].state = "INITIAL_RUN"
                            THEN [initialRun EXCEPT ![r] = Append(@, <<NextBatch(r), rng[r]>>)]
                            ELSE initialRun
           /\ micro' = [micro EXCEPT ![r] = micro[r] + 1]
           /\ pc' = [pc EXCEPT ![r] = IF micro[r] + 1 = Microbatches THEN "loop" ELSE "forward"]
           /\ rng' = [rng EXCEPT ![r] = @ + 1]
           /\ job' \in {"running", "error"}
           /\ DrawBatch(r)
           /\ UNCHANGED <<config, device, step, checkpoint>>
<1>. DEFINE i     == micro[r] + 1
            input == <<NextBatch(r), rng[r]>>
<1>1. pc[r] = "forward" /\ job = "running"
    BY DEF Forward, Running
<1>2. PICK made \in Ways(r) :
        LET res == Result(r, NextBatch(r), rng[r], made)
        IN  /\ machine' = [machine EXCEPT ![r] = CheckLoss(@, i, res, device[r])]
            /\ job' = IF config.mode = "disabled" /\ "nan" \in config.checks /\ Rejects("nan", res)
                      THEN "error" ELSE job
            /\ thisRun' = [thisRun EXCEPT ![r] = Append(@, input)]
            /\ initialRun' = IF machine[r].state = "INITIAL_RUN"
                             THEN [initialRun EXCEPT ![r] = Append(@, input)] ELSE initialRun
            /\ micro' = [micro EXCEPT ![r] = i]
            /\ pc' = [pc EXCEPT ![r] = IF i = Microbatches THEN "loop" ELSE "forward"]
    BY DEF Forward
<1>. DEFINE res == Result(r, NextBatch(r), rng[r], made)
            m   == CheckLoss(machine[r], i, res, device[r])
<1>3. TypeInv /\ ConfigType /\ machine \in [Ranks -> Machines] /\ device[r] \in Devices
    BY DEF Inv, TypeInv, TypeOK
<1>40. micro[r] \in Nat /\ rng[r] \in Nat
    BY DEF Inv, TypeInv, TypeOK
<1>4. i \in Nat
    BY <1>40
<1>5. res \in Results
    BY <1>1, <1>3, <1>40, NextBatchType, WaysType, ResultType
<1>6. Keeps(machine[r], m)
    BY <1>3, <1>4, <1>5, CheckLossKeeps
<1>7. machine' = [machine EXCEPT ![r] = m]
    BY <1>2
<1>8. machine'[r] = m
    BY <1>3, <1>7
<1>9. job' \in {"running", "error"}
    BY <1>1, <1>2
<1>10. /\ rng' = [rng EXCEPT ![r] = @ + 1] /\ DrawBatch(r)
       /\ UNCHANGED <<config, device, step, checkpoint>>
    BY DEF Forward
<1>. HIDE DEF m, res
<1>. QED  BY <1>1, <1>2, <1>6, <1>7, <1>8, <1>9, <1>10

\* What drawing a batch does to the iterator and to the data loader.
LEMMA DrawFacts ==
    ASSUME TypeInv, NEW r \in Ranks, DrawBatch(r)
    PROVE  /\ iterator' = [iterator EXCEPT ![r] = iterator'[r]] /\ iterator'[r] \in Iterators
           /\ source' = [source EXCEPT ![r] = source'[r]] /\ source'[r] \in Nat
           /\ iterator'[r].replaying = iterator[r].replaying
           /\ iterator[r].replaying =>
                 /\ source'[r] = source[r]
                 /\ iterator'[r].replay_pos = iterator[r].replay_pos + 1
                 /\ iterator'[r].saved_microbatches = iterator[r].saved_microbatches
           /\ ~iterator[r].replaying =>
                 /\ source'[r] = source[r] + 1
                 /\ config.mode # "disabled" =>
                       iterator'[r].saved_microbatches
                           = Append(iterator[r].saved_microbatches, source[r] + 1)
<1>1. iterator \in [Ranks -> Iterators] /\ source \in [Ranks -> Nat]
    BY DEF TypeInv, TypeOK
<1>2. iterator[r] \in Iterators /\ source[r] \in Nat
    BY <1>1
<1>3. CASE iterator[r].replaying
    <2>. DEFINE it == [iterator[r] EXCEPT !.replay_pos = iterator[r].replay_pos + 1]
    <2>1. iterator' = [iterator EXCEPT ![r] = it] /\ source' = source
        BY <1>1, <1>3 DEF DrawBatch
    <2>2. /\ it \in Iterators /\ it.replaying = iterator[r].replaying
          /\ it.replay_pos = iterator[r].replay_pos + 1
          /\ it.saved_microbatches = iterator[r].saved_microbatches
        BY <1>2 DEF Iterators
    <2>. HIDE DEF it
    <2>. QED  BY <1>1, <1>2, <1>3, <2>1, <2>2
<1>4. CASE ~iterator[r].replaying
    <2>. DEFINE more == Append(iterator[r].saved_microbatches, source[r] + 1)
                it   == IF config.mode = "disabled" THEN iterator[r]
                        ELSE [iterator[r] EXCEPT !.saved_microbatches = more]
    <2>1. more \in Seq(Nat)
        BY <1>2 DEF Iterators
    <2>2. iterator' = [iterator EXCEPT ![r] = it] /\ source' = [source EXCEPT ![r] = source[r] + 1]
        <3>1. source' = [source EXCEPT ![r] = source[r] + 1]
            BY <1>4 DEF DrawBatch
        <3>2. CASE config.mode = "disabled"
            BY <1>1, <1>4, <3>1, <3>2 DEF DrawBatch
        <3>3. CASE config.mode # "disabled"
            BY <1>1, <1>4, <3>1, <3>3 DEF DrawBatch
        <3>. QED  BY <3>2, <3>3
    <2>. HIDE DEF more
    <2>3. /\ it \in Iterators /\ it.replaying = iterator[r].replaying
          /\ config.mode # "disabled" => it.saved_microbatches = more
        BY <1>2, <2>1 DEF Iterators
    <2>. HIDE DEF it
    <2>4. iterator'[r] = it /\ source'[r] = source[r] + 1
        BY <1>1, <2>2
    <2>. QED  BY <1>1, <1>2, <1>4, <2>2, <2>3, <2>4 DEF more
<1>. QED  BY <1>3, <1>4

\* One microbatch more of whichever run the rank is in.
LEMMA ForwardInv ==
    ASSUME Inv, NEW r \in Ranks, Forward(r)
    PROVE  Inv'
<1>. DEFINE input == <<NextBatch(r), rng[r]>>
            n     == micro[r]
            b     == NextBatch(r)
            g     == rng[r]
<1>1. /\ pc[r] = "forward"
      /\ machine' = [machine EXCEPT ![r] = machine'[r]] /\ Keeps(machine[r], machine'[r])
      /\ rng' = [rng EXCEPT ![r] = @ + 1]
      /\ job' \in {"running", "error"}
      /\ DrawBatch(r)
      /\ UNCHANGED <<config, device, step, checkpoint>>
    BY ForwardFacts
<1>2. /\ thisRun' = [thisRun EXCEPT ![r] = Append(@, input)]
      /\ initialRun' = IF machine[r].state = "INITIAL_RUN"
                       THEN [initialRun EXCEPT ![r] = Append(@, input)] ELSE initialRun
      /\ micro' = [micro EXCEPT ![r] = micro[r] + 1]
      /\ pc' = [pc EXCEPT ![r] = IF micro[r] + 1 = Microbatches THEN "loop" ELSE "forward"]
    BY ForwardFacts
<1>3. TypeInv /\ TypeOK /\ Phase(r) /\ Together /\ Base \in Nat
    BY BaseType DEF Inv, TypeInv
<1>4. /\ micro[r] \in Nat /\ rng[r] \in Nat /\ source[r] \in Nat /\ iterator[r] \in Iterators
      /\ b \in Nat /\ input \in Nat \X Nat /\ Microbatches \in Nat
    BY <1>1, <1>3, NextBatchType, RerunAssumption DEF TypeOK
<1>5. /\ pc'[r] = (IF n + 1 = Microbatches THEN "loop" ELSE "forward")
      /\ micro'[r] = n + 1 /\ rng'[r] = g + 1
      /\ thisRun'[r] = Append(thisRun[r], input)
      /\ machine[r].state = "INITIAL_RUN" => initialRun'[r] = Append(initialRun[r], input)
      /\ machine[r].state # "INITIAL_RUN" => initialRun'[r] = initialRun[r]
    BY <1>1, <1>2, <1>3 DEF TypeInv, TypeOK
<1>50. rng'[r] = g + 1
    BY <1>5
<1>51. ASSUME NEW h \in Nat, g = h + n PROVE rng'[r] = h + (n + 1)
    BY <1>4, <1>50, <1>51
<1>52. ASSUME NEW h \in Nat, g = h + n, b = Base + n + 1, Runs(thisRun[r], Base, h, n)
       PROVE  Runs(thisRun'[r], Base, h, n + 1)
    <2>1. input = <<Base + n + 1, h + n>>
        BY <1>52
    <2>2. Runs(Append(thisRun[r], <<Base + n + 1, h + n>>), Base, h, n + 1)
        BY <1>3, <1>4, <1>52, RunsAppend
    <2>. HIDE DEF input
    <2>. QED  BY <1>5, <2>1, <2>2
<1>6. machine'[r].state = machine[r].state /\ machine'[r].saved_state = machine[r].saved_state
    BY <1>1 DEF Keeps
<1>7. /\ iterator' = [iterator EXCEPT ![r] = iterator'[r]] /\ iterator'[r] \in Iterators
      /\ source' = [source EXCEPT ![r] = source'[r]] /\ source'[r] \in Nat
      /\ iterator'[r].replaying = iterator[r].replaying
    BY <1>1, <1>3, DrawFacts
<1>8. iterator[r].replaying =>
          /\ source'[r] = source[r]
          /\ iterator'[r].replay_pos = iterator[r].replay_pos + 1
          /\ iterator'[r].saved_microbatches = iterator[r].saved_microbatches
    BY <1>1, <1>3, DrawFacts
<1>9. ~iterator[r].replaying =>
          /\ b = source[r] + 1 /\ source'[r] = source[r] + 1
          /\ config.mode # "disabled" =>
                iterator'[r].saved_microbatches
                    = Append(iterator[r].saved_microbatches, source[r] + 1)
    BY <1>1, <1>3, DrawFacts, NextBatchType
<1>10. TypeInv'
    <2>1. machine' \in [Ranks -> Machines]
        BY <1>1, <1>3 DEF Keeps, TypeOK
    <2>2. iterator' \in [Ranks -> Iterators] /\ source' \in [Ranks -> Nat]
        BY <1>3, <1>7 DEF TypeOK
    <2>3. rng' \in [Ranks -> Nat] /\ micro' \in [Ranks -> Nat]
        <3>1. rng[r] + 1 \in Nat /\ micro[r] + 1 \in Nat
            BY <1>4
        <3>2. rng' = [rng EXCEPT ![r] = rng[r] + 1] /\ micro' = [micro EXCEPT ![r] = micro[r] + 1]
            BY <1>1, <1>2
        <3>. QED  BY <1>3, <3>1, <3>2 DEF TypeOK
    <2>4. pc' \in [Ranks -> {"loop", "forward", "left", "step", "exit"}]
        BY <1>2, <1>3 DEF TypeOK
    <2>. HIDE DEF input
    <2>5. thisRun' \in [Ranks -> Seq(Nat \X Nat)]
        BY <1>2, <1>3, <1>4 DEF TypeInv
    <2>6. initialRun' \in [Ranks -> Seq(Nat \X Nat)]
        BY <1>2, <1>3, <1>4 DEF TypeInv
    <2>7. job' \in {"running", "exit 16", "exit 17", "error", "finished"}
        BY <1>1
    <2>. QED  BY <1>1, <1>3, <2>1, <2>2, <2>3, <2>4, <2>5, <2>6, <2>7 DEF TypeInv, TypeOK, ConfigType
<1>11. Base' = Base
    BY <1>1 DEF Base
<1>12. InPass(r) => InPass(r)'
    BY <1>1, <1>4, <1>5 DEF InPass
<1>13. pc'[r] \in {"loop", "forward"}
    BY <1>5
<1>14. Phase(r)'
    <2>1. CASE config.mode = "disabled"
        <3>1. WithoutReruns(r)
            BY <1>3, <2>1 DEF Phase
        <3>2. machine[r].state = "INITIAL_RUN" /\ ~iterator[r].replaying
            BY <1>1, <3>1 DEF WithoutReruns
        <3>3. thisRun'[r] = initialRun'[r]
            BY <1>5, <3>1, <3>2 DEF WithoutReruns
        <3>. QED  BY <1>1, <1>6, <1>7, <1>13, <2>1, <3>2, <3>3 DEF Phase, WithoutReruns
    <2>2. CASE config.mode # "disabled" /\ machine[r].state = "INITIAL_RUN"
        <3>1. InitialRun(r)
            BY <1>3, <2>2 DEF Phase, WithReruns
        <3>. DEFINE h == machine[r].saved_state
        <3>2. /\ ~iterator[r].replaying /\ source[r] = Base + n /\ h \in Nat /\ g = h + n
              /\ Drawn(iterator[r].saved_microbatches, Base, n) /\ Runs(initialRun[r], Base, h, n)
              /\ thisRun[r] = initialRun[r] /\ InPass(r)
            BY <3>1 DEF InitialRun
        <3>3. b = Base + n + 1
            BY <1>3, <1>4, <1>9, <3>2
        <3>4. Runs(initialRun'[r], Base, h, n + 1)
            BY <1>3, <1>4, <1>5, <2>2, <3>2, <3>3, RunsAppend
        <3>5. Drawn(iterator'[r].saved_microbatches, Base, n + 1)
            BY <1>3, <1>4, <1>9, <2>2, <3>2, <3>3, DrawnAppend
        <3>6. source'[r] = Base + (n + 1)
            BY <1>3, <1>4, <1>9, <3>2
        <3>60. rng'[r] = h + (n + 1)
            BY <1>51, <3>2
        <3>7. thisRun'[r] = initialRun'[r]
            BY <1>5, <2>2, <3>2
        <3>8. InitialRun(r)'
            BY <1>5, <1>6, <1>7, <1>11, <1>12, <1>13, <3>2, <3>4, <3>5, <3>6, <3>60, <3>7
               DEF InitialRun
        <3>. QED  BY <1>1, <1>6, <2>2, <3>8 DEF Phase, WithReruns
    <2>3. CASE config.mode # "disabled" /\ machine[r].state = "RERUNNING_IN_PLACE"
        <3>1. InPlace(r)
            BY <1>3, <2>3 DEF Phase, WithReruns
        <3>. DEFINE h == machine[r].saved_state
        <3>2. /\ h \in Nat /\ Runs(initialRun[r], Base, h, Microbatches)
              /\ InPass(r) /\ iterator[r].replaying /\ iterator[r].replay_pos = n
              /\ Drawn(iterator[r].saved_microbatches, Base, Microbatches)
              /\ source[r] = Base + Microbatches /\ g = h + n /\ Runs(thisRun[r], Base, h, n)
            BY <1>1, <3>1 DEF InPlace
        <3>3. b = Base + n + 1
            BY <1>1, <2>3, NextBatchType
        <3>4. Runs(thisRun'[r], Base, h, n + 1)
            BY <1>52, <3>2, <3>3
        <3>5. rng'[r] = h + (n + 1)
            BY <1>51, <3>2
        <3>6. /\ iterator'[r].saved_microbatches = iterator[r].saved_microbatches
              /\ iterator'[r].replay_pos = n + 1 /\ source'[r] = source[r]
              /\ initialRun'[r] = initialRun[r]
            BY <1>5, <1>8, <2>3, <3>2
        <3>7. InPlace(r)'
            BY <1>5, <1>6, <1>7, <1>11, <1>12, <1>13, <3>2, <3>4, <3>5, <3>6, RerunAssumption
               DEF InPlace
        <3>. QED  BY <1>1, <1>6, <2>3, <3>7 DEF Phase, WithReruns
    <2>4. CASE config.mode # "disabled" /\ machine[r].state = "RERUNNING_FROM_CHECKPOINT"
        <3>1. FromCheckpoint(r)
            BY <1>3, <2>4 DEF Phase, WithReruns
        <3>. DEFINE h == checkpoint.rng[r]
        <3>2. /\ config.mode = "validate_results" /\ Saved(r)
              /\ InPass(r) /\ ~iterator[r].replaying /\ source[r] = Base + n
              /\ h \in Nat /\ g = h + n /\ Runs(thisRun[r], Base, h, n)
            BY <1>1, <1>3, <3>1 DEF FromCheckpoint, TypeInv
        <3>3. b = Base + n + 1
            BY <1>3, <1>4, <1>9, <3>2
        <3>4. Runs(thisRun'[r], Base, h, n + 1)
            BY <1>52, <3>2, <3>3
        <3>5. source'[r] = Base + (n + 1)
            BY <1>3, <1>4, <1>9, <3>2
        <3>50. rng'[r] = h + (n + 1)
            BY <1>51, <3>2
        <3>6. Saved(r)'
            BY <1>1, <1>5, <1>11, <2>4, <3>2 DEF Saved
        <3>7. FromCheckpoint(r)'
            BY <1>1, <1>5, <1>6, <1>7, <1>11, <1>12, <1>13, <3>2, <3>4, <3>5, <3>50, <3>6
               DEF FromCheckpoint
        <3>. QED  BY <1>1, <1>6, <2>4, <3>7 DEF Phase, WithReruns
    <2>5. machine[r].state \in States
        BY <1>3 DEF TypeOK, Machines
    <2>6. config.mode # "disabled" =>
              machine[r].state \in {"INITIAL_RUN", "RERUNNING_IN_PLACE", "RERUNNING_FROM_CHECKPOINT"}
        BY <1>1, <1>3, <2>5 DEF States, Phase, WithReruns, Resting, WillRerun, Again
    <2>. QED  BY <2>1, <2>2, <2>3, <2>4, <2>6
<1>15. Together'
    BY <1>1, <1>2, <1>3 DEF Together, TypeOK
<1>16. \A q \in Ranks \ {r} : Unmoved(q)
    <2>1. \A q \in Ranks \ {r} : machine'[q] = machine[q] /\ rng'[q] = rng[q]
        BY <1>1, <1>3 DEF TypeOK
    <2>2. \A q \in Ranks \ {r} : iterator'[q] = iterator[q] /\ source'[q] = source[q]
        BY <1>3, <1>7 DEF TypeOK
    <2>3. \A q \in Ranks \ {r} :
              /\ pc'[q] = pc[q] /\ micro'[q] = micro[q]
              /\ thisRun'[q] = thisRun[q] /\ initialRun'[q] = initialRun[q]
        BY <1>2, <1>3 DEF TypeOK, TypeInv
    <2>. QED  BY <2>1, <2>2, <2>3 DEF Unmoved
<1>17. job' # "exit 16"
    BY <1>1
<1>. QED  BY <1>1, <1>10, <1>14, <1>15, <1>16, <1>17, OneRank

\* Without reruns every iteration is done in one pass.
LEMMA EndPassDisabledInv ==
    ASSUME Inv, NEW r \in Ranks, EndPassDisabled(r)
    PROVE  Inv'
<1>1. /\ job = "running" /\ pc[r] = "loop" /\ config.mode = "disabled"
      /\ machine' = [machine EXCEPT ![r].state = "NOT_RUNNING_YET"]
      /\ pc' = [pc EXCEPT ![r] = "left"]
      /\ UNCHANGED <<config, iterator, source, rng, micro, device, step, job, checkpoint,
                     initialRun, thisRun>>
    BY DEF EndPassDisabled, Running, history
<1>2. TypeInv /\ TypeOK /\ Phase(r)
    BY DEF Inv, TypeInv
<1>3. machine'[r] = [machine[r] EXCEPT !.state = "NOT_RUNNING_YET"] /\ machine[r] \in Machines
    BY <1>1, <1>2 DEF TypeOK
<1>4. machine'[r] \in Machines /\ machine'[r].state = "NOT_RUNNING_YET"
    BY <1>3 DEF Machines, States
<1>5. TypeInv'
    <2>1. machine' \in [Ranks -> Machines]
        BY <1>1, <1>2, <1>4 DEF TypeOK
    <2>. QED  BY <1>1, <1>2, <2>1 DEF TypeInv, TypeOK, ConfigType
<1>6. pc'[r] = "left"
    BY <1>1, <1>2 DEF TypeOK
<1>7. Phase(r)'
    BY <1>1, <1>2, <1>4, <1>6 DEF Phase, WithoutReruns
<1>8. Together'
    BY <1>1 DEF Together
<1>9. \A q \in Ranks \ {r} : Unmoved(q)
    BY <1>1, <1>2 DEF Unmoved, TypeOK
<1>. QED  BY <1>1, <1>5, <1>7, <1>8, <1>9, OneRank

\* The verdict of a rank agrees with those of the ranks that decided before it.
LEMMA DecideInv ==
    ASSUME Inv, NEW r \in Ranks, Decide(r)
    PROVE  Inv'
<1>. DEFINE to == IF Verdict(machine[r].state).code = 0 THEN "step" ELSE "exit"
<1>1. /\ job = "running" /\ pc[r] = "left"
      /\ machine' = [machine EXCEPT ![r].first_iteration_complete = TRUE]
      /\ pc' = [pc EXCEPT ![r] = to]
      /\ UNCHANGED <<config, iterator, source, rng, micro, device, step, job, checkpoint,
                     initialRun, thisRun>>
    BY DEF Decide, Running, history
<1>2. TypeInv /\ TypeOK /\ Phase(r) /\ Together
    BY DEF Inv, TypeInv
<1>3. /\ machine'[r] = [machine[r] EXCEPT !.first_iteration_complete = TRUE]
      /\ machine[r] \in Machines
    BY <1>1, <1>2 DEF TypeOK
<1>4. machine'[r] \in Machines /\ machine'[r].state = machine[r].state
    BY <1>3 DEF Machines
<1>5. TypeInv'
    <2>1. machine' \in [Ranks -> Machines]
        BY <1>1, <1>2, <1>4 DEF TypeOK
    <2>2. pc' \in [Ranks -> {"loop", "forward", "left", "step", "exit"}]
        BY <1>1, <1>2 DEF TypeOK
    <2>. QED  BY <1>1, <1>2, <2>1, <2>2 DEF TypeInv, TypeOK, ConfigType
<1>6. pc'[r] = to
    BY <1>1, <1>2 DEF TypeOK
<1>7. Phase(r)'
    <2>1. Base' = Base
        BY <1>1 DEF Base
    <2>2. CASE config.mode = "disabled"
        <3>1. pc'[r] = "step"
            BY <1>6, <2>2 DEF Verdict
        <3>. QED  BY <1>1, <1>2, <1>4, <2>2, <3>1 DEF Phase, WithoutReruns
    <2>3. CASE config.mode # "disabled"
        <3>1. machine[r].state \in States /\ WithReruns(r)
            BY <1>2, <2>3 DEF Phase, TypeOK, Machines
        <3>2. CASE machine[r].state = "NOT_RUNNING_YET"
            <4>1. pc'[r] = "step"
                BY <1>6, <3>2 DEF Verdict
            <4>. QED  BY <1>1, <1>4, <2>1, <2>3, <3>1, <3>2, <4>1 DEF Phase, WithReruns, Resting
        <3>3. machine[r].state # "INITIAL_RUN"
            BY <1>1, <3>1 DEF WithReruns, InitialRun
        <3>4. CASE machine[r].state = "RERUNNING_IN_PLACE"
            <4>1. InPlace(r) /\ config.mode = "validate_results"
                BY <1>1, <3>1, <3>4 DEF WithReruns, InPlace
            <4>2. pc'[r] = "exit"
                BY <1>6, <3>4, <4>1 DEF Verdict
            <4>3. machine'[r].saved_state = machine[r].saved_state
                BY <1>3 DEF Machines
            <4>4. InPlace(r)'
                BY <1>1, <2>1, <4>1, <4>2, <4>3 DEF InPlace
            <4>. QED  BY <1>1, <1>4, <2>3, <3>4, <4>4 DEF Phase, WithReruns
        <3>5. CASE machine[r].state = "WILL_RERUN_FROM_CHECKPOINT"
            <4>1. WillRerun(r) /\ config.mode = "validate_results"
                BY <3>1, <3>5 DEF WithReruns, WillRerun
            <4>2. pc'[r] = "exit"
                BY <1>6, <3>5, <4>1 DEF Verdict
            <4>3. WillRerun(r)'
                BY <1>1, <2>1, <4>1, <4>2 DEF WillRerun
            <4>. QED  BY <1>1, <1>4, <2>3, <3>5, <4>3 DEF Phase, WithReruns
        <3>6. CASE machine[r].state = "RERUNNING_FROM_CHECKPOINT"
            <4>1. FromCheckpoint(r) /\ config.mode = "validate_results"
                BY <3>1, <3>6 DEF WithReruns, FromCheckpoint
            <4>2. pc'[r] = "exit"
                BY <1>6, <3>6, <4>1 DEF Verdict
            <4>3. FromCheckpoint(r)'
                BY <1>1, <2>1, <4>1, <4>2 DEF FromCheckpoint, Saved
            <4>. QED  BY <1>1, <1>4, <2>3, <3>6, <4>3 DEF Phase, WithReruns
        <3>7. CASE machine[r].state = "RERUNNING_AGAIN_FROM_CHECKPOINT"
            <4>1. Again(r) /\ config.mode = "validate_results"
                BY <3>1, <3>7 DEF WithReruns, Again
            <4>2. pc'[r] = "exit"
                BY <1>6, <3>7, <4>1 DEF Verdict
            <4>3. Again(r)'
                BY <1>1, <2>1, <4>1, <4>2 DEF Again, Saved
            <4>. QED  BY <1>1, <1>4, <2>3, <3>7, <4>3 DEF Phase, WithReruns
        <3>. QED  BY <3>1, <3>2, <3>3, <3>4, <3>5, <3>6, <3>7 DEF States
    <2>. QED  BY <2>2, <2>3
<1>8. Together'
    <2>1. CASE config.mode = "disabled"
        BY <1>1, <2>1 DEF Together
    <2>2. CASE config.mode # "disabled"
        <3>1. PICK s \in States : \A q \in Ranks :
                  /\ machine[q].state = s /\ pc[q] \in {"left", "step", "exit"}
                  /\ pc[q] = "step" => Verdict(s).code = 0
                  /\ pc[q] = "exit" => Verdict(s).code # 0
            BY <1>1, <1>2, <2>2 DEF Together
        <3>2. Verdict(s)' = Verdict(s)
            BY <1>1 DEF Verdict
        <3>3. ASSUME NEW q \in Ranks
              PROVE  /\ machine'[q].state = s /\ pc'[q] \in {"left", "step", "exit"}
                     /\ pc'[q] = "step" => Verdict(s).code = 0
                     /\ pc'[q] = "exit" => Verdict(s).code # 0
            <4>1. CASE q = r
                BY <1>4, <1>6, <3>1, <4>1
            <4>2. CASE q # r
                <5>1. machine'[q] = machine[q] /\ pc'[q] = pc[q]
                    BY <1>1, <1>2, <4>2 DEF TypeOK
                <5>. QED  BY <3>1, <5>1
            <4>. QED  BY <4>1, <4>2
        <3>. QED  BY <3>2, <3>3 DEF Together
    <2>. QED  BY <2>1, <2>2
<1>9. \A q \in Ranks \ {r} : Unmoved(q)
    BY <1>1, <1>2 DEF Unmoved, TypeOK
<1>. QED  BY <1>1, <1>5, <1>7, <1>8, <1>9, OneRank
-----------------------------------------------------------------------------
(***************************************************************************)
(* Steps that all ranks take together.                                     *)
(***************************************************************************)
\* All ranks leave the loop in the same state.
LEMMA LeaveLoopFacts ==
    ASSUME TypeInv, NEW state \in States, LeaveLoop(state), NEW r \in Ranks
    PROVE  /\ machine'[r] \in Machines /\ machine'[r].state = state
           /\ machine'[r].saved_state = machine[r].saved_state /\ pc'[r] = "left"
<1>1. machine[r] \in Machines
    BY DEF TypeInv, TypeOK
<1>2. machine'[r] = [machine[r] EXCEPT !.state = state] /\ pc'[r] = "left"
    BY DEF LeaveLoop
<1>. QED  BY <1>1, <1>2 DEF Machines

\* It is enough that each rank has left in the right phase.
LEMMA LeaveLoopInv ==
    ASSUME Inv, NEW state \in States, LeaveLoop(state), job = "running",
           UNCHANGED <<config, source, micro, device, step, job, checkpoint, initialRun, thisRun>>,
           rng' \in [Ranks -> Nat], iterator' \in [Ranks -> Iterators],
           \A r \in Ranks : Phase(r)'
    PROVE  Inv'
<1>1. TypeInv /\ TypeOK
    BY DEF Inv, TypeInv
<1>2. \A r \in Ranks : machine'[r] \in Machines /\ machine'[r].state = state /\ pc'[r] = "left"
    BY <1>1, LeaveLoopFacts
<1>3. machine' \in [Ranks -> Machines] /\ pc' \in [Ranks -> {"loop", "forward", "left", "step", "exit"}]
    BY <1>2 DEF LeaveLoop
<1>4. TypeInv'
    BY <1>1, <1>3 DEF TypeInv, TypeOK, ConfigType
<1>5. Together'
    BY <1>2 DEF Together
<1>6. Exited'
    BY DEF Exited
<1>. QED  BY <1>4, <1>5, <1>6 DEF Inv

\* Replaying starts at the first of the saved microbatches.
LEMMA RewindType ==
    ASSUME NEW it \in Iterators
    PROVE  /\ Rewind(it) \in Iterators
           /\ Rewind(it).saved_microbatches = it.saved_microbatches
           /\ Rewind(it).replaying = TRUE /\ Rewind(it).replay_pos = 0
BY DEF Rewind, Iterators

\* Nothing was rejected: every rank goes on.
LEMMA AcceptInitialRunInv ==
    ASSUME Inv, AcceptInitialRun
    PROVE  Inv'
<1>1. /\ job = "running" /\ config.mode # "disabled" /\ LeaveLoop("NOT_RUNNING_YET")
      /\ \A r \in Ranks : pc[r] = "loop" /\ machine[r].state = "INITIAL_RUN"
      /\ UNCHANGED <<config, iterator, source, rng, micro, device, step, job, checkpoint,
                     initialRun, thisRun>>
    BY DEF AcceptInitialRun, AllAt, Running, history
<1>2. TypeInv /\ TypeOK
    BY DEF Inv, TypeInv
<1>3. "NOT_RUNNING_YET" \in States
    BY DEF States
<1>4. Base' = Base
    BY <1>1 DEF Base
<1>5. ASSUME NEW r \in Ranks PROVE Phase(r)'
    <2>1. InitialRun(r)
        BY <1>1 DEF Inv, Phase, WithReruns
    <2>2. source'[r] = Base + Microbatches
        BY <1>1, <2>1 DEF InitialRun, InPass
    <2>3. machine'[r].state = "NOT_RUNNING_YET" /\ pc'[r] = "left"
        BY <1>1, <1>2, <1>3, LeaveLoopFacts
    <2>. QED  BY <1>1, <1>4, <2>2, <2>3 DEF Phase, WithReruns, Resting
<1>. QED  BY <1>1, <1>2, <1>3, <1>5, LeaveLoopInv DEF TypeOK

\* The iteration is run again from the generator state and the batches that the
\* initial run saved.
LEMMA RerunInPlaceInv ==
    ASSUME Inv, RerunInPlace
    PROVE  Inv'
<1>1. /\ job = "running" /\ config.mode # "disabled"
      /\ \A r \in Ranks : pc[r] = "loop" /\ machine[r].state = "INITIAL_RUN"
      /\ machine' = [r \in Ranks |-> [machine[r] EXCEPT !.state = "RERUNNING_IN_PLACE"]]
      /\ rng' = [r \in Ranks |-> machine[r].saved_state]
      /\ iterator' = [r \in Ranks |-> Rewind(iterator[r])]
      /\ pc' = [r \in Ranks |-> "forward"]
      /\ micro' = [r \in Ranks |-> 0]
      /\ thisRun' = [r \in Ranks |-> <<>>]
      /\ UNCHANGED <<config, source, device, step, job, checkpoint, initialRun>>
    BY DEF RerunInPlace, AllAt, Running, RestoreAndRewind
<1>2. TypeInv /\ TypeOK
    BY DEF Inv, TypeInv
<1>3. Base' = Base
    BY <1>1 DEF Base
<1>4. ASSUME NEW r \in Ranks
      PROVE  /\ machine'[r] \in Machines /\ machine'[r].state = "RERUNNING_IN_PLACE"
             /\ machine'[r].saved_state = machine[r].saved_state
    <2>1. machine'[r] = [machine[r] EXCEPT !.state = "RERUNNING_IN_PLACE"]
        BY <1>1
    <2>2. machine[r] \in Machines
        BY <1>2 DEF TypeOK
    <2>. QED  BY <2>1, <2>2 DEF Machines, States
<1>5. ASSUME NEW r \in Ranks
      PROVE  /\ iterator'[r] \in Iterators
             /\ iterator'[r].saved_microbatches = iterator[r].saved_microbatches
             /\ iterator'[r].replaying = TRUE /\ iterator'[r].replay_pos = 0
    BY <1>1, <1>2, RewindType DEF TypeOK
<1>6. ASSUME NEW r \in Ranks PROVE InitialRun(r) /\ micro[r] = Microbatches
    BY <1>1 DEF Inv, Phase, WithReruns, InitialRun, InPass
<1>7. ASSUME NEW r \in Ranks PROVE Phase(r)'
    <2>1. /\ machine[r].saved_state \in Nat
          /\ Runs(initialRun[r], Base, machine[r].saved_state, Microbatches)
          /\ Drawn(iterator[r].saved_microbatches, Base, Microbatches)
          /\ source[r] = Base + Microbatches
        BY <1>6 DEF InitialRun
    <2>2. InPass(r)'
        BY <1>1, RerunAssumption DEF InPass
    <2>3. Runs(<<>>, Base, machine[r].saved_state, 0)
        BY RunsNone
    <2>4. pc'[r] = "forward" /\ micro'[r] = 0 /\ thisRun'[r] = <<>> /\ rng'[r] = machine[r].saved_state
        BY <1>1
    <2>5. /\ rng'[r] = machine'[r].saved_state + micro'[r]
          /\ Runs(thisRun'[r], Base, machine'[r].saved_state, micro'[r])
        BY <1>4, <2>1, <2>3, <2>4
    <2>6. /\ machine'[r].saved_state \in Nat
          /\ Runs(initialRun'[r], Base, machine'[r].saved_state, Microbatches)
          /\ Drawn(iterator'[r].saved_microbatches, Base, Microbatches)
          /\ source'[r] = Base + Microbatches
          /\ iterator'[r].replaying /\ iterator'[r].replay_pos = micro'[r]
        BY <1>1, <1>4, <1>5, <2>1, <2>4
    <2>7. InPlace(r)'
        BY <1>3, <2>2, <2>4, <2>5, <2>6 DEF InPlace
    <2>. QED  BY <1>1, <1>4, <2>7 DEF Phase, WithReruns
<1>8. TypeInv'
    <2>1. machine' \in [Ranks -> Machines] /\ iterator' \in [Ranks -> Iterators]
        BY <1>1, <1>4, <1>5
    <2>2. rng' \in [Ranks -> Nat]
        BY <1>1, <1>6 DEF InitialRun
    <2>3. thisRun' \in [Ranks -> Seq(Nat \X Nat)] /\ micro' \in [Ranks -> Nat]
        BY <1>1
    <2>4. pc' \in [Ranks -> {"loop", "forward", "left", "step", "exit"}]
        BY <1>1
    <2>. QED  BY <1>1, <1>2, <2>1, <2>2, <2>3, <2>4 DEF TypeInv, TypeOK, ConfigType
<1>9. Together' /\ Exited'
    BY <1>1 DEF Together, Exited
<1>. QED  BY <1>7, <1>8, <1>9 DEF Inv

\* The second pass of report_determinism_stats is the last one.
LEMMA ReportStatsInv ==
    ASSUME Inv, ReportStats
    PROVE  Inv'
<1>1. /\ job = "running" /\ config.mode = "report_determinism_stats"
      /\ \A r \in Ranks : pc[r] = "loop" /\ machine[r].state = "RERUNNING_IN_PLACE"
      /\ machine' = [r \in Ranks |-> [machine[r] EXCEPT !.state = "NOT_RUNNING_YET",
                                                        !.saved_results = {}]]
      /\ pc' = [r \in Ranks |-> "left"]
      /\ UNCHANGED <<config, iterator, source, rng, micro, device, step, job, checkpoint,
                     initialRun, thisRun>>
    BY DEF ReportStats, AllAt, Running, history
<1>2. TypeInv /\ TypeOK
    BY DEF Inv, TypeInv
<1>3. Base' = Base
    BY <1>1 DEF Base
<1>4. ASSUME NEW r \in Ranks
      PROVE  machine'[r] \in Machines /\ machine'[r].state = "NOT_RUNNING_YET"
    <2>1. machine'[r] = [machine[r] EXCEPT !.state = "NOT_RUNNING_YET", !.saved_results = {}]
        BY <1>1
    <2>2. machine[r] \in Machines
        BY <1>2 DEF TypeOK
    <2>. QED  BY <2>1, <2>2 DEF Machines, States
<1>5. ASSUME NEW r \in Ranks PROVE Phase(r)'
    <2>1. InPlace(r)
        BY <1>1 DEF Inv, Phase, WithReruns
    <2>2. source'[r] = Base + Microbatches /\ pc'[r] = "left"
        BY <1>1, <2>1 DEF InPlace
    <2>. QED  BY <1>1, <1>3, <1>4, <2>2 DEF Phase, WithReruns, Resting
<1>6. TypeInv'
    <2>1. machine' \in [Ranks -> Machines]
        BY <1>1, <1>4
    <2>2. pc' \in [Ranks -> {"loop", "forward", "left", "step", "exit"}]
        BY <1>1
    <2>. QED  BY <1>1, <1>2, <2>1, <2>2 DEF TypeInv, TypeOK, ConfigType
<1>7. Together'
    <2>1. \A r \in Ranks : machine'[r].state = "NOT_RUNNING_YET" /\ pc'[r] = "left"
        BY <1>1, <1>4
    <2>2. "NOT_RUNNING_YET" \in States
        BY DEF States
    <2>. QED  BY <2>1, <2>2 DEF Together
<1>8. Exited'
    BY <1>1 DEF Exited
<1>. QED  BY <1>5, <1>6, <1>7, <1>8 DEF Inv

\* The rerun in place lets every rank go on.
LEMMA ContinueInPlaceInv ==
    ASSUME Inv, ContinueInPlace
    PROVE  Inv'
<1>1. /\ job = "running" /\ config.mode # "disabled" /\ LeaveLoop("NOT_RUNNING_YET")
      /\ \A r \in Ranks : pc[r] = "loop" /\ machine[r].state = "RERUNNING_IN_PLACE"
      /\ UNCHANGED <<config, iterator, source, rng, micro, device, step, job, checkpoint,
                     initialRun, thisRun>>
    BY DEF ContinueInPlace, AllAt, Running, history
<1>2. TypeInv /\ TypeOK
    BY DEF Inv, TypeInv
<1>3. "NOT_RUNNING_YET" \in States
    BY DEF States
<1>4. Base' = Base
    BY <1>1 DEF Base
<1>5. ASSUME NEW r \in Ranks PROVE Phase(r)'
    <2>1. InPlace(r)
        BY <1>1 DEF Inv, Phase, WithReruns
    <2>2. source'[r] = Base + Microbatches
        BY <1>1, <2>1 DEF InPlace
    <2>3. machine'[r].state = "NOT_RUNNING_YET" /\ pc'[r] = "left"
        BY <1>1, <1>2, <1>3, LeaveLoopFacts
    <2>. QED  BY <1>1, <1>4, <2>2, <2>3 DEF Phase, WithReruns, Resting
<1>. QED  BY <1>1, <1>2, <1>3, <1>5, LeaveLoopInv DEF TypeOK

\* The generators are restored before the checkpoint is written.
LEMMA StopInPlaceInv ==
    ASSUME Inv, StopInPlace
    PROVE  Inv'
<1>. DEFINE state == IF Any("checkpoint_requested") THEN "WILL_RERUN_FROM_CHECKPOINT"
                                                    ELSE "RERUNNING_IN_PLACE"
<1>1. /\ job = "running" /\ config.mode = "validate_results" /\ LeaveLoop(state)
      /\ \A r \in Ranks : pc[r] = "loop" /\ machine[r].state = "RERUNNING_IN_PLACE"
      /\ rng' = [r \in Ranks |-> machine[r].saved_state]
      /\ iterator' = [r \in Ranks |-> Rewind(iterator[r])]
      /\ UNCHANGED <<config, source, micro, device, step, job, checkpoint, initialRun, thisRun>>
    BY DEF StopInPlace, AllAt, Running, RestoreAndRewind, history
<1>2. TypeInv /\ TypeOK
    BY DEF Inv, TypeInv
<1>3. state \in {"WILL_RERUN_FROM_CHECKPOINT", "RERUNNING_IN_PLACE"} /\ state \in States
    BY DEF States
<1>. HIDE DEF state
<1>4. Base' = Base
    BY <1>1 DEF Base
<1>5. ASSUME NEW r \in Ranks
      PROVE  /\ machine[r].saved_state \in Nat
             /\ Runs(initialRun[r], Base, machine[r].saved_state, Microbatches)
             /\ Runs(thisRun[r], Base, machine[r].saved_state, Microbatches)
    BY <1>1 DEF Inv, Phase, WithReruns, InPlace, InPass
<1>6. ASSUME NEW r \in Ranks PROVE Phase(r)'
    <2>1. thisRun[r] = initialRun[r]
        BY <1>5, RunsSame, RerunAssumption
    <2>2. /\ machine'[r].state = state /\ pc'[r] = "left"
          /\ machine'[r].saved_state = machine[r].saved_state
        BY <1>1, <1>2, <1>3, LeaveLoopFacts
    <2>3. rng'[r] = machine[r].saved_state
        BY <1>1
    <2>4. CASE state = "RERUNNING_IN_PLACE"
        <3>1. InPlace(r)'
            BY <1>1, <1>4, <1>5, <2>1, <2>2 DEF InPlace
        <3>. QED  BY <1>1, <2>2, <2>4, <3>1 DEF Phase, WithReruns
    <2>5. CASE state = "WILL_RERUN_FROM_CHECKPOINT"
        <3>1. WillRerun(r)'
            BY <1>1, <1>4, <1>5, <2>1, <2>2, <2>3 DEF WillRerun
        <3>. QED  BY <1>1, <2>2, <2>5, <3>1 DEF Phase, WithReruns
    <2>. QED  BY <1>3, <2>4, <2>5
<1>7. rng' \in [Ranks -> Nat] /\ iterator' \in [Ranks -> Iterators]
    BY <1>1, <1>2, <1>5, RewindType DEF TypeOK
<1>. QED  BY <1>1, <1>3, <1>6, <1>7, LeaveLoopInv

\* The rerun of the next job lets all ranks go on, exit or move again.
LEMMA EndRerunInv ==
    ASSUME Inv, EndRerunFromCheckpoint
    PROVE  Inv'
<1>. DEFINE state == CASE Any("restart_again_requested") -> "RERUNNING_AGAIN_FROM_CHECKPOINT"
                       [] ~Any("restart_again_requested") /\ Any("continue_requested") ->
                            "NOT_RUNNING_YET"
                       [] OTHER -> "RERUNNING_FROM_CHECKPOINT"
<1>1. /\ job = "running" /\ config.mode # "disabled" /\ LeaveLoop(state)
      /\ \A r \in Ranks : pc[r] = "loop" /\ machine[r].state = "RERUNNING_FROM_CHECKPOINT"
      /\ UNCHANGED <<config, iterator, source, rng, micro, device, step, job, checkpoint,
                     initialRun, thisRun>>
    BY DEF EndRerunFromCheckpoint, AllAt, Running, history
<1>2. TypeInv /\ TypeOK
    BY DEF Inv, TypeInv
<1>3. state \in {"RERUNNING_AGAIN_FROM_CHECKPOINT", "NOT_RUNNING_YET", "RERUNNING_FROM_CHECKPOINT"}
    OBVIOUS
<1>. HIDE DEF state
<1>4. state \in States /\ Base' = Base
    BY <1>1, <1>3 DEF Base, States
<1>5. ASSUME NEW r \in Ranks PROVE Phase(r)'
    <2>1. FromCheckpoint(r)
        BY <1>1 DEF Inv, Phase, WithReruns
    <2>2. /\ config.mode = "validate_results" /\ Saved(r)
          /\ source[r] = Base + Microbatches
          /\ Runs(thisRun[r], Base, checkpoint.rng[r], Microbatches)
        BY <1>1, <2>1 DEF FromCheckpoint, InPass
    <2>3. machine'[r].state = state /\ pc'[r] = "left"
        BY <1>1, <1>2, <1>4, LeaveLoopFacts
    <2>4. Saved(r)'
        BY <1>1, <1>4, <2>2 DEF Saved
    <2>5. CASE state = "RERUNNING_AGAIN_FROM_CHECKPOINT"
        <3>1. Again(r)'
            BY <1>1, <1>4, <2>2, <2>3, <2>4 DEF Again
        <3>. QED  BY <1>1, <2>3, <2>5, <3>1 DEF Phase, WithReruns
    <2>6. CASE state = "NOT_RUNNING_YET"
        BY <1>1, <1>4, <2>2, <2>3, <2>6 DEF Phase, WithReruns, Resting
    <2>7. CASE state = "RERUNNING_FROM_CHECKPOINT"
        <3>1. FromCheckpoint(r)'
            BY <1>1, <1>4, <2>2, <2>3, <2>4 DEF FromCheckpoint
        <3>. QED  BY <1>1, <2>3, <2>7, <3>1 DEF Phase, WithReruns
    <2>. QED  BY <1>3, <2>5, <2>6, <2>7
<1>. QED  BY <1>1, <1>2, <1>4, <1>5, LeaveLoopInv DEF TypeOK

\* The next iteration begins where the data loader stands.
LEMMA NextBase == ASSUME NEW s \in Nat, NEW m \in Nat PROVE (s + 1) * m = s * m + m
OBVIOUS

\* The next iteration starts when every rank rests.
LEMMA OptimizerStepInv ==
    ASSUME Inv, OptimizerStep
    PROVE  Inv'
<1>1. /\ job = "running" /\ \A r \in Ranks : pc[r] = "step"
      /\ step' = step + 1 /\ pc' = [r \in Ranks |-> "loop"] /\ job' \in {job, "finished"}
      /\ UNCHANGED <<config, machine, iterator, source, rng, micro, device, checkpoint,
                     initialRun, thisRun>>
    BY DEF OptimizerStep, Running, history
<1>2. TypeInv /\ TypeOK
    BY DEF Inv, TypeInv
<1>3. Base' = Base + Microbatches /\ step' \in Nat
    <2>1. step \in Nat /\ Microbatches \in Nat
        BY <1>2, RerunAssumption DEF TypeOK
    <2>2. step' \in Nat
        BY <1>1, <2>1
    <2>3. Base' = (step + 1) * Microbatches
        BY <1>1 DEF Base
    <2>. QED  BY <2>1, <2>2, <2>3, NextBase DEF Base
<1>4. config.mode # "disabled" => \A r \in Ranks : machine[r].state = "NOT_RUNNING_YET"
    <2>1. SUFFICES ASSUME config.mode # "disabled", NEW r \in Ranks
                   PROVE  machine[r].state = "NOT_RUNNING_YET"
        OBVIOUS
    <2>2. pc[r] = "step" /\ WithReruns(r) /\ machine[r].state \in States
        BY <1>1, <1>2, <2>1 DEF Inv, Phase, TypeOK, Machines
    <2>. QED  BY <2>2 DEF WithReruns, InitialRun, InPlace, WillRerun, FromCheckpoint, Again, States
<1>5. ASSUME NEW r \in Ranks PROVE Phase(r)'
    <2>1. pc[r] = "step" /\ pc'[r] = "loop"
        BY <1>1
    <2>2. CASE config.mode = "disabled"
        <3>1. WithoutReruns(r)
            BY <2>2 DEF Inv, Phase
        <3>2. machine[r].state = "NOT_RUNNING_YET"
            BY <2>1, <3>1 DEF WithoutReruns
        <3>. QED  BY <1>1, <2>1, <2>2, <3>1, <3>2 DEF Phase, WithoutReruns
    <2>3. CASE config.mode # "disabled"
        <3>1. Resting(r) /\ machine[r].state = "NOT_RUNNING_YET"
            BY <1>4, <2>3 DEF Inv, Phase, WithReruns
        <3>2. source'[r] = Base'
            BY <1>1, <1>3, <2>1, <3>1 DEF Resting
        <3>. QED  BY <1>1, <2>1, <2>3, <3>1, <3>2 DEF Phase, WithReruns, Resting
    <2>. QED  BY <2>2, <2>3
<1>6. TypeInv'
    BY <1>1, <1>2, <1>3 DEF TypeInv, TypeOK, ConfigType
<1>7. Together' /\ Exited'
    BY <1>1 DEF Together, Exited
<1>. QED  BY <1>5, <1>6, <1>7 DEF Inv

\* A checkpoint is written by ranks that are all in the same state, and holds the
\* inputs of the iteration at which they exit.
LEMMA ExitInv ==
    ASSUME Inv, Exit
    PROVE  Inv'
<1>1. PICK v \in {Verdict(machine[r].state) : r \in Ranks} :
        /\ \A r \in Ranks : pc[r] = "exit" /\ Verdict(machine[r].state) = v
        /\ job' = IF v.code = 16 THEN "exit 16" ELSE "exit 17"
        /\ checkpoint' = IF v.save
                         THEN [step |-> step, machine |-> machine, rng |-> rng] ELSE checkpoint
    BY DEF Exit
<1>2. UNCHANGED <<config, machine, iterator, source, rng, pc, micro, device, step, initialRun, thisRun>>
    BY DEF Exit, perRank, history
<1>3. TypeInv /\ TypeOK
    BY DEF Inv, TypeInv
<1>4. Base' = Base
    BY <1>2 DEF Base
<1>5. config.mode # "disabled"
    <2>1. PICK r \in Ranks : TRUE
        BY RerunAssumption
    <2>. QED  BY <1>1, <2>1 DEF Inv, Phase, WithoutReruns
<1>6. ASSUME NEW r \in Ranks
      PROVE  /\ WithReruns(r) /\ config.mode = "validate_results"
             /\ machine[r].state \in {"RERUNNING_IN_PLACE", "WILL_RERUN_FROM_CHECKPOINT",
                   "RERUNNING_FROM_CHECKPOINT", "RERUNNING_AGAIN_FROM_CHECKPOINT"}
    <2>1. pc[r] = "exit" /\ WithReruns(r) /\ machine[r].state \in States
        BY <1>1, <1>3, <1>5 DEF Inv, Phase, TypeOK, Machines
    <2>. QED  BY <2>1 DEF WithReruns, Resting, InitialRun, InPlace, WillRerun, FromCheckpoint, Again, States
<1>7. TypeInv'
    <2>1. job' \in {"running", "exit 16", "exit 17", "error", "finished"}
        BY <1>1
    <2>2. /\ checkpoint'.step \in Nat /\ checkpoint'.machine \in [Ranks -> Machines]
          /\ checkpoint'.rng \in [Ranks -> Nat]
        BY <1>1, <1>3 DEF TypeInv, TypeOK
    <2>. QED  BY <1>2, <1>3, <2>1, <2>2 DEF TypeInv, TypeOK, ConfigType
<1>8. ASSUME NEW r \in Ranks PROVE Phase(r)'
    <2>1. pc[r] = "exit" /\ Verdict(machine[r].state) = v
        BY <1>1
    <2>2. CASE machine[r].state = "RERUNNING_IN_PLACE"
        <3>1. InPlace(r)
            BY <1>6, <2>2 DEF WithReruns
        <3>2. InPlace(r)'
            BY <1>2, <1>4, <2>1, <3>1 DEF InPlace
        <3>. QED  BY <1>2, <1>5, <2>2, <3>2 DEF Phase, WithReruns
    <2>3. CASE machine[r].state = "WILL_RERUN_FROM_CHECKPOINT"
        <3>1. WillRerun(r)
            BY <1>6, <2>3 DEF WithReruns
        <3>2. WillRerun(r)'
            BY <1>2, <1>4, <2>1, <3>1 DEF WillRerun
        <3>. QED  BY <1>2, <1>5, <2>3, <3>2 DEF Phase, WithReruns
    <2>4. CASE machine[r].state = "RERUNNING_FROM_CHECKPOINT"
        <3>1. FromCheckpoint(r) /\ Saved(r)
            BY <1>6, <2>4 DEF WithReruns, FromCheckpoint
        <3>2. v.save = FALSE
            BY <1>6, <2>1, <2>4 DEF Verdict
        <3>3. checkpoint' = checkpoint
            BY <1>1, <3>2
        <3>4. FromCheckpoint(r)'
            BY <1>2, <1>4, <2>1, <3>1, <3>3 DEF FromCheckpoint, Saved
        <3>. QED  BY <1>2, <1>5, <2>4, <3>4 DEF Phase, WithReruns
    <2>5. CASE machine[r].state = "RERUNNING_AGAIN_FROM_CHECKPOINT"
        <3>1. Again(r) /\ Saved(r)
            BY <1>6, <2>5 DEF WithReruns, Again
        <3>2. v.save = FALSE
            BY <1>6, <2>1, <2>5 DEF Verdict
        <3>3. checkpoint' = checkpoint
            BY <1>1, <3>2
        <3>4. Again(r)'
            BY <1>2, <1>4, <2>1, <3>1, <3>3 DEF Again, Saved
        <3>. QED  BY <1>2, <1>5, <2>5, <3>4 DEF Phase, WithReruns
    <2>. QED  BY <1>6, <2>2, <2>3, <2>4, <2>5
<1>9. Together'
    BY <1>2 DEF Inv, Together, Verdict
<1>10. Exited'
    <2>1. SUFFICES ASSUME v.code = 16, NEW r \in Ranks
                   PROVE  config.mode = "validate_results" /\ Saved(r)'
        <3>1. PICK r \in Ranks : TRUE
            BY RerunAssumption
        <3>. QED  BY <1>1, <1>2, <1>6, <3>1 DEF Exited
    <2>2. pc[r] = "exit" /\ Verdict(machine[r].state) = v
        BY <1>1
    <2>3. CASE machine[r].state = "WILL_RERUN_FROM_CHECKPOINT"
        <3>1. v.save = TRUE
            BY <1>6, <2>2, <2>3 DEF Verdict
        <3>2. checkpoint' = [step |-> step, machine |-> machine, rng |-> rng]
            BY <1>1, <3>1
        <3>3. Runs(initialRun[r], Base, rng[r], Microbatches)
            BY <1>6, <2>2, <2>3 DEF WithReruns, WillRerun
        <3>. QED  BY <1>2, <1>4, <1>6, <2>3, <3>2, <3>3 DEF Saved
    <2>4. CASE machine[r].state = "RERUNNING_AGAIN_FROM_CHECKPOINT"
        <3>1. Saved(r)
            BY <1>6, <2>4 DEF WithReruns, Again
        <3>2. v.save = FALSE
            BY <1>6, <2>2, <2>4 DEF Verdict
        <3>3. checkpoint' = checkpoint
            BY <1>1, <3>2
        <3>. QED  BY <1>2, <1>4, <1>6, <3>1, <3>3 DEF Saved
    <2>5. machine[r].state \notin {"RERUNNING_IN_PLACE", "RERUNNING_FROM_CHECKPOINT"}
        BY <1>6, <2>1, <2>2 DEF Verdict
    <2>. QED  BY <1>6, <2>3, <2>4, <2>5
<1>. QED  BY <1>7, <1>8, <1>9, <1>10 DEF Inv

\* The job that is launched again draws the batches of the interrupted iteration.
LEMMA RelaunchInv ==
    ASSUME Inv, Relaunch
    PROVE  Inv'
<1>1. /\ job = "exit 16" /\ device' \in [Ranks -> Devices]
      /\ machine' = [r \in Ranks |-> LoadStateDict(checkpoint.machine[r])]
      /\ iterator' = [r \in Ranks |-> NewIterator]
      /\ source' = [r \in Ranks |-> checkpoint.step * Microbatches]
      /\ rng' = checkpoint.rng
      /\ pc' = [r \in Ranks |-> "loop"]
      /\ micro' = [r \in Ranks |-> 0]
      /\ step' = checkpoint.step
      /\ job' = "running"
      /\ thisRun' = [r \in Ranks |-> <<>>]
      /\ UNCHANGED <<config, checkpoint, initialRun>>
    BY DEF Relaunch, Placements
<1>2. TypeInv /\ TypeOK
    BY DEF Inv, TypeInv
<1>3. config.mode = "validate_results" /\ \A r \in Ranks : Saved(r)
    BY <1>1 DEF Inv, Exited
<1>4. step' = step /\ Base' = Base
    <2>1. PICK r \in Ranks : TRUE
        BY RerunAssumption
    <2>2. checkpoint.step = step
        BY <1>3, <2>1 DEF Saved
    <2>. QED  BY <1>1, <2>2 DEF Base
<1>5. ASSUME NEW r \in Ranks
      PROVE  machine'[r] \in Machines /\ machine'[r].state = "WILL_RERUN_FROM_CHECKPOINT"
    <2>1. checkpoint.machine[r] \in Machines
        BY <1>2 DEF TypeInv
    <2>2. checkpoint.machine[r].state = "WILL_RERUN_FROM_CHECKPOINT"
        BY <1>3 DEF Saved
    <2>3. machine'[r] = [checkpoint.machine[r] EXCEPT !.first_iteration_complete = FALSE,
                                                      !.saved_state = None, !.saved_results = {}]
        BY <1>1 DEF LoadStateDict
    <2>. QED  BY <2>1, <2>2, <2>3 DEF Machines
<1>6. NewIterator \in Iterators /\ NewIterator.replaying = FALSE
    <2>1. <<>> \in Seq(Nat)
        OBVIOUS
    <2>. QED  BY <2>1 DEF NewIterator, Iterators
<1>7. source' = [r \in Ranks |-> Base]
    BY <1>1, <1>4 DEF Base
<1>8. ASSUME NEW r \in Ranks PROVE Phase(r)'
    <2>1. Saved(r)'
        BY <1>1, <1>3, <1>4 DEF Saved
    <2>2. /\ pc'[r] = "loop" /\ source'[r] = Base /\ rng'[r] = checkpoint.rng[r]
          /\ thisRun'[r] = <<>> /\ iterator'[r].replaying = FALSE
        BY <1>1, <1>6, <1>7
    <2>3. WillRerun(r)'
        BY <1>1, <1>3, <1>4, <2>1, <2>2 DEF WillRerun
    <2>. QED  BY <1>1, <1>3, <1>5, <2>3 DEF Phase, WithReruns
<1>9. TypeInv'
    <2>1. machine' \in [Ranks -> Machines] /\ iterator' \in [Ranks -> Iterators]
        BY <1>1, <1>5, <1>6
    <2>2. source' \in [Ranks -> Nat]
        BY <1>2, <1>7, BaseType
    <2>3. rng' \in [Ranks -> Nat] /\ step' \in Nat
        BY <1>1, <1>2 DEF TypeInv
    <2>40. <<>> \in Seq(Nat \X Nat)
        OBVIOUS
    <2>4. micro' \in [Ranks -> Nat] /\ thisRun' \in [Ranks -> Seq(Nat \X Nat)]
        BY <1>1, <2>40
    <2>5. pc' \in [Ranks -> {"loop", "forward", "left", "step", "exit"}]
        BY <1>1
    <2>. QED  BY <1>1, <1>2, <2>1, <2>2, <2>3, <2>4, <2>5 DEF TypeInv, TypeOK, ConfigType
<1>10. Together' /\ Exited'
    BY <1>1 DEF Together, Exited
<1>. QED  BY <1>8, <1>9, <1>10 DEF Inv
-----------------------------------------------------------------------------
(***************************************************************************)
(* The invariant.                                                          *)
(***************************************************************************)
\* The job starts with every rank before its first iteration.
LEMMA InitInv == Init => Inv
<1>. SUFFICES ASSUME Init PROVE Inv
    OBVIOUS
<1>1. NewMachine \in Machines
    BY DEF NewMachine, Machines, States
<1>2. NewIterator \in Iterators /\ NewIterator.replaying = FALSE
    <2>1. <<>> \in Seq(Nat)
        OBVIOUS
    <2>. QED  BY <2>1 DEF NewIterator, Iterators
<1>3. device \in [Ranks -> Devices]
    <2>1. Placements # {}
        BY RerunAssumption DEF Placements
    <2>2. device \in Placements
        BY <2>1 DEF Init
    <2>. QED  BY <2>2 DEF Placements
<1>4. ConfigType
    BY RerunAssumption DEF Init, ConfigType, AllModes
<1>5. TypeOK
    BY <1>1, <1>2 DEF Init, TypeOK
<1>6. /\ checkpoint.step = 0 /\ checkpoint.machine \in [Ranks -> Machines]
      /\ checkpoint.rng \in [Ranks -> Nat]
    BY <1>1 DEF Init
<1>7. initialRun \in [Ranks -> Seq(Nat \X Nat)] /\ thisRun \in [Ranks -> Seq(Nat \X Nat)]
    BY DEF Init
<1>8. TypeInv
    BY <1>3, <1>4, <1>5, <1>6, <1>7 DEF TypeInv
<1>9. ASSUME NEW r \in Ranks PROVE Phase(r)
    <2>1. /\ machine[r].state = "NOT_RUNNING_YET" /\ iterator[r].replaying = FALSE
          /\ pc[r] = "loop" /\ source[r] = 0 /\ step = 0
        BY <1>2 DEF Init, NewMachine
    <2>2. Base = 0
        BY <2>1, RerunAssumption DEF Base
    <2>. QED  BY <2>1, <2>2 DEF Phase, WithoutReruns, WithReruns, Resting
<1>10. Together /\ Exited
    BY DEF Init, Together, Exited
<1>. QED  BY <1>8, <1>9, <1>10 DEF Inv

\* Every step keeps the invariant.
LEMMA NextInv == Inv /\ [Next]_vars => Inv'
<1>. SUFFICES ASSUME Inv, [Next]_vars PROVE Inv'
    OBVIOUS
<1>1. ASSUME NEW r \in Ranks, RankStep(r) PROVE Inv'
    BY <1>1, BeginInitialRunInv, BeginRerunInv, ForwardInv, EndPassDisabledInv, DecideInv DEF RankStep
<1>2. CASE Collective
    BY <1>2, AcceptInitialRunInv, RerunInPlaceInv, ReportStatsInv, ContinueInPlaceInv, StopInPlaceInv,
       EndRerunInv, OptimizerStepInv, ExitInv DEF Collective
<1>3. CASE Relaunch
    BY <1>3, RelaunchInv
<1>4. CASE UNCHANGED vars
    <2>1. UNCHANGED <<config, machine, iterator, source, rng, pc, micro, device, step, job, checkpoint,
                      initialRun, thisRun>>
        BY <1>4 DEF vars, perRank, history
    <2>2. \A r \in Ranks : Unmoved(r)
        BY <2>1 DEF Unmoved
    <2>3. \A r \in Ranks : Phase(r)'
        BY <2>1, <2>2, PhaseElsewhere DEF Inv
    <2>4. TypeInv'
        BY <2>1 DEF Inv, TypeInv, TypeOK, ConfigType
    <2>5. Together'
        BY <2>1 DEF Inv, Together, Verdict
    <2>6. Exited'
        BY <2>1 DEF Inv, Exited, Saved, Base, Runs
    <2>. QED  BY <2>3, <2>4, <2>5, <2>6 DEF Inv
<1>. QED  BY <1>1, <1>2, <1>3, <1>4 DEF Next, Stopped

\* The invariant holds throughout.
LEMMA Invariance == Spec => []Inv
BY InitInv, NextInv, PTL DEF Spec

\* The variables keep their types.  That the random position remains a number
\* rests on _restore_state: it runs only after _save_state of the same iteration.
THEOREM TypeCorrect == Spec => []TypeOK
<1>1. Inv => TypeOK
    BY DEF Inv, TypeInv
<1>. QED  BY <1>1, Invariance, PTL

\* However many ranks there are and wherever they stand in
\* should_run_forward_backward, should_checkpoint_and_exit answers all of them
\* alike: no rank steps its optimizer while another exits.
THEOREM VerdictsAgree == Spec => []SameVerdict
<1>1. Inv => SameVerdict
    <2>. SUFFICES ASSUME Inv, NEW r \in Ranks, NEW q \in Ranks
                  PROVE  /\ ~(pc[r] = "step" /\ pc[q] = "exit")
                         /\ pc[r] = "exit" /\ pc[q] = "exit" =>
                               Verdict(machine[r].state) = Verdict(machine[q].state)
        BY DEF SameVerdict
    <2>1. CASE config.mode = "disabled"
        BY <2>1 DEF Inv, Phase, WithoutReruns
    <2>2. CASE config.mode # "disabled"
        BY <2>2 DEF Inv, Together
    <2>. QED  BY <2>1, <2>2
<1>. QED  BY <1>1, Invariance, PTL

\* A rerun, in place or by the next job on another device, is fed the batches and
\* the random numbers of the initial run, for every number of microbatches.
THEOREM RerunsAreExact == Spec => []ReplayIsExact
<1>1. Inv => ReplayIsExact
    <2>. SUFFICES ASSUME Inv, NEW r \in Ranks, machine[r].state # "NOT_RUNNING_YET",
                         NEW i \in DOMAIN thisRun[r]
                  PROVE  i \in DOMAIN initialRun[r] /\ thisRun[r][i] = initialRun[r][i]
        BY DEF ReplayIsExact
    <2>. DEFINE Exact == \/ thisRun[r] = initialRun[r]
                         \/ \E b, g : \E n \in 0 .. Microbatches :
                               Runs(thisRun[r], b, g, n) /\ Runs(initialRun[r], b, g, Microbatches)
    <2>1. TypeInv /\ Phase(r) /\ machine[r].state \in States /\ micro[r] \in Nat
        BY DEF Inv, TypeInv, TypeOK, Machines
    <2>2. Microbatches \in Nat /\ Microbatches \in 0 .. Microbatches
        BY RerunAssumption
    <2>3. InPass(r) => micro[r] \in 0 .. Microbatches
        BY <2>1, <2>2 DEF InPass
    <2>4. Exact
        <3>1. CASE machine[r].state = "INITIAL_RUN"
            BY <2>1, <3>1 DEF Phase, WithoutReruns, WithReruns, InitialRun
        <3>2. CASE machine[r].state = "RERUNNING_IN_PLACE"
            BY <2>1, <2>3, <3>2 DEF Phase, WithoutReruns, WithReruns, InPlace
        <3>3. CASE machine[r].state = "WILL_RERUN_FROM_CHECKPOINT"
            <4>1. WillRerun(r)
                BY <2>1, <3>3 DEF Phase, WithoutReruns, WithReruns
            <4>2. CASE pc[r] = "loop"
                <5>1. thisRun[r] = <<>> /\ Runs(initialRun[r], Base, checkpoint.rng[r], Microbatches)
                    BY <4>1, <4>2 DEF WillRerun, Saved
                <5>2. Runs(thisRun[r], Base, checkpoint.rng[r], 0) /\ 0 \in 0 .. Microbatches
                    BY <2>2, <5>1, RunsNone
                <5>. QED  BY <5>1, <5>2
            <4>3. CASE pc[r] # "loop"
                BY <4>1, <4>3 DEF WillRerun
            <4>. QED  BY <4>2, <4>3
        <3>4. CASE machine[r].state = "RERUNNING_FROM_CHECKPOINT"
            BY <2>1, <2>2, <2>3, <3>4 DEF Phase, WithoutReruns, WithReruns, FromCheckpoint, Saved
        <3>5. CASE machine[r].state = "RERUNNING_AGAIN_FROM_CHECKPOINT"
            BY <2>1, <2>2, <3>5 DEF Phase, WithoutReruns, WithReruns, Again, Saved
        <3>. QED  BY <2>1, <3>1, <3>2, <3>3, <3>4, <3>5 DEF States
    <2>5. CASE thisRun[r] = initialRun[r]
        BY <2>5
    <2>6. ASSUME NEW b, NEW g, NEW n \in 0 .. Microbatches, Runs(thisRun[r], b, g, n),
                 Runs(initialRun[r], b, g, Microbatches)
          PROVE  i \in DOMAIN initialRun[r] /\ thisRun[r][i] = initialRun[r][i]
        <3>0. /\ thisRun[r] \in Seq(Nat \X Nat) /\ Len(thisRun[r]) = n
              /\ initialRun[r] \in Seq(Nat \X Nat) /\ Len(initialRun[r]) = Microbatches
            BY <2>6 DEF Runs
        <3>1. /\ DOMAIN thisRun[r] = 1 .. Len(thisRun[r])
              /\ DOMAIN initialRun[r] = 1 .. Len(initialRun[r])
            BY <3>0
        <3>10. i \in 1 .. n /\ DOMAIN initialRun[r] = 1 .. Microbatches
            BY <3>0, <3>1
        <3>2. i \in 1 .. Microbatches
            BY <2>2, <3>10
        <3>. QED  BY <2>6, <3>10, <3>2 DEF Runs
    <2>. QED  BY <2>4, <2>5, <2>6
<1>. QED  BY <1>1, Invariance, PTL
-----------------------------------------------------------------------------
(***************************************************************************)
(* The default checks.                                                     *)
(***************************************************************************)
\* With fatal checks only, no comparison lets the iteration go on, and a
\* rejection always asks for a rerun.
LEMMA FatalKeeps ==
    ASSUME ConfigType, config.checks = {"nan"}, NEW m \in Machines, ~m.continue_requested,
           NEW i \in Nat, NEW res \in Results, NEW where \in Devices
    PROVE  /\ ~CheckLoss(m, i, res, where).continue_requested
           /\ m.rerun_requested => CheckLoss(m, i, res, where).rerun_requested
           /\ config.mode = "validate_results" /\ FirstRejection(m, <<i, "nan">>, res) =>
                 CheckLoss(m, i, res, where).rerun_requested
<1>. DEFINE call == <<i, "nan">>
            v    == ValidateResult(m, call, res, where)
<1>1. CheckLoss(m, i, res, where) = v
    BY DEF CheckLoss
<1>2. Fatal(call[2])
    BY DEF Fatal
<1>. HIDE DEF call
<1>3. CASE config.mode = "disabled"
    BY <1>1, <1>3 DEF ValidateResult, call
<1>4. CASE config.mode = "report_determinism_stats"
    <2>1. v = Collect(m, call, res)
        BY <1>4 DEF ValidateResult
    <2>. DEFINE all == m.saved_results \cup {[call |-> call, result |-> res]}
    <2>2. Collect(m, call, res) \in {m, [m EXCEPT !.rerun_requested = TRUE, !.saved_results = all]}
        BY DEF Collect
    <2>. HIDE DEF all
    <2>3. ~v.continue_requested /\ (m.rerun_requested => v.rerun_requested)
        BY <2>1, <2>2 DEF Machines
    <2>. QED  BY <1>1, <1>4, <2>3
<1>5. CASE config.mode = "validate_results"
    <2>1. CASE FirstRejection(m, call, res)
        <3>1. v = Reject(m, call, res)
            BY <1>5, <2>1 DEF ValidateResult, FirstRejection, Compares
        <3>2. ~v.continue_requested /\ v.rerun_requested
            BY <3>1 DEF Reject, Machines
        <3>. QED  BY <1>1, <3>2
    <2>2. CASE ~FirstRejection(m, call, res) /\ Compares(m, call)
        <3>1. v \in {CompareInPlace(m, call, res, where), CompareElsewhere(m, call, where)}
            BY <1>5, <2>2 DEF ValidateResult
        <3>2. /\ ~CompareInPlace(m, call, res, where).continue_requested
              /\ CompareInPlace(m, call, res, where).rerun_requested = m.rerun_requested
            BY <1>2 DEF CompareInPlace, Machines
        <3>3. /\ ~CompareElsewhere(m, call, where).continue_requested
              /\ CompareElsewhere(m, call, where).rerun_requested = m.rerun_requested
            BY <1>2 DEF CompareElsewhere, Machines
        <3>. QED  BY <1>1, <2>2, <3>1, <3>2, <3>3 DEF call
    <2>3. CASE ~FirstRejection(m, call, res) /\ ~Compares(m, call)
        <3>1. v = m
            BY <1>5, <2>3 DEF ValidateResult
        <3>. QED  BY <1>1, <2>3, <3>1 DEF call
    <2>. QED  BY <2>1, <2>2, <2>3
<1>. QED  BY <1>3, <1>4, <1>5 DEF ConfigType, AllModes

\* The flags of a rank and the interrupted iteration stay as they are.
Stays(r) ==
    /\ machine'[r].continue_requested = machine[r].continue_requested
    /\ machine'[r].rerun_requested = machine[r].rerun_requested
    /\ machine'[r].state = "INITIAL_RUN" => machine[r].state = "INITIAL_RUN"
    /\ machine'[r].state = "NOT_RUNNING_YET" => machine[r].state = "NOT_RUNNING_YET"

\* A step that changes no flag keeps the rejected iteration in hand.
LEMMA RejectedStays ==
    ASSUME Rejected, UNCHANGED <<config, rejected, step, checkpoint>>, \A r \in Ranks : Stays(r)
    PROVE  Rejected'
BY DEF Rejected, Stays

\* Changing the state changes no flag.
LEMMA OnlyState ==
    ASSUME NEW m \in Machines, NEW state
    PROVE  /\ [m EXCEPT !.state = state].state = state
           /\ [m EXCEPT !.state = state].continue_requested = m.continue_requested
           /\ [m EXCEPT !.state = state].rerun_requested = m.rerun_requested
BY DEF Machines

\* Nothing is at stake while no result of an initial run was rejected.
LEMMA RejectedNone ==
    ASSUME Rejected, rejected' = {}, UNCHANGED <<config, checkpoint>>,
           \A r \in Ranks : machine[r].continue_requested = machine'[r].continue_requested
    PROVE  Rejected'
BY DEF Rejected

\* No rank drops a rejected iteration alone,
LEMMA RejectedRank ==
    ASSUME Inv, Rejected, config.checks = {"nan"}, NEW r \in Ranks, RankStep(r)
    PROVE  Rejected'
<1>1. TypeInv /\ TypeOK /\ ConfigType /\ machine[r] \in Machines /\ micro[r] \in Nat
    BY DEF Inv, TypeInv, TypeOK
<1>2. CASE BeginInitialRun(r)
    <2>1. /\ UNCHANGED <<config, rejected, step, checkpoint>>
          /\ machine[r].state = "NOT_RUNNING_YET"
        BY <1>2 DEF BeginInitialRun
    <2>2. \A x \in rejected : x.rank # r
        BY <2>1 DEF Rejected
    <2>3. ~machine'[r].continue_requested /\ \A q \in Ranks \ {r} : machine'[q] = machine[q]
        <3>1. CASE config.mode = "disabled"
            <4>1. machine' = [machine EXCEPT ![r].state = "INITIAL_RUN"]
                BY <1>2, <3>1 DEF BeginInitialRun
            <4>. QED  BY <1>1, <4>1 DEF TypeOK, Machines, Rejected
        <3>2. CASE config.mode # "disabled"
            <4>. DEFINE m == [machine[r] EXCEPT !.state = "INITIAL_RUN",
                                                !.saved_state = rng[r],
                                                !.rerun_requested = FALSE,
                                                !.checkpoint_requested = FALSE,
                                                !.restart_again_requested = FALSE,
                                                !.continue_requested = FALSE]
            <4>1. machine' = [machine EXCEPT ![r] = m]
                BY <1>2, <3>2 DEF BeginInitialRun
            <4>2. ~m.continue_requested
                BY <1>1 DEF Machines
            <4>. HIDE DEF m
            <4>. QED  BY <1>1, <4>1, <4>2 DEF TypeOK
        <3>. QED  BY <3>1, <3>2
    <2>. QED  BY <2>1, <2>2, <2>3 DEF Rejected
<1>3. CASE BeginRerunFromCheckpoint(r)
    <2>1. /\ UNCHANGED <<config, rejected, step, checkpoint>>
          /\ machine' = [machine EXCEPT ![r].state = "RERUNNING_FROM_CHECKPOINT"]
        BY <1>3 DEF BeginRerunFromCheckpoint
    <2>2. \A q \in Ranks : Stays(q)
        BY <1>1, <2>1 DEF TypeOK, Machines, Stays
    <2>. QED  BY <2>1, <2>2, RejectedStays
<1>4. CASE EndPassDisabled(r)
    <2>1. /\ UNCHANGED <<config, rejected, step, checkpoint>> /\ config.mode = "disabled"
          /\ machine' = [machine EXCEPT ![r].state = "NOT_RUNNING_YET"]
        BY <1>4 DEF EndPassDisabled, history
    <2>2. rejected' = {}
        BY <2>1 DEF Rejected
    <2>3. \A q \in Ranks : machine[q].continue_requested = machine'[q].continue_requested
        BY <1>1, <2>1 DEF TypeOK, Machines
    <2>. QED  BY <2>1, <2>2, <2>3, RejectedNone
<1>5. CASE Decide(r)
    <2>1. /\ UNCHANGED <<config, rejected, step, checkpoint>>
          /\ machine' = [machine EXCEPT ![r].first_iteration_complete = TRUE]
        BY <1>5 DEF Decide, history
    <2>2. \A q \in Ranks : Stays(q)
        BY <1>1, <2>1 DEF TypeOK, Machines, Stays
    <2>. QED  BY <2>1, <2>2, RejectedStays
<1>6. CASE Forward(r)
    <2>. DEFINE i == micro[r] + 1
    <2>1. PICK made \in Ways(r) :
            LET res == Result(r, NextBatch(r), rng[r], made)
            IN  /\ machine' = [machine EXCEPT ![r] = CheckLoss(@, i, res, device[r])]
                /\ rejected' = rejected \cup Rejections(r, i, res)
        BY <1>6 DEF Forward
    <2>. DEFINE res == Result(r, NextBatch(r), rng[r], made)
                m   == CheckLoss(machine[r], i, res, device[r])
    <2>2. UNCHANGED <<config, step, checkpoint>> /\ pc[r] = "forward"
        BY <1>6 DEF Forward
    <2>3. i \in Nat /\ rng[r] \in Nat /\ device[r] \in Devices
        <3>1. rng[r] \in Nat /\ device[r] \in Devices
            BY <1>1 DEF TypeInv, TypeOK
        <3>. QED  BY <1>1, <3>1
    <2>4. res \in Results
        BY <1>1, <2>2, <2>3, NextBatchType, WaysType, ResultType
    <2>. HIDE DEF res, i
    <2>5. ~machine[r].continue_requested
        BY DEF Rejected
    <2>6. /\ ~m.continue_requested
          /\ machine[r].rerun_requested => m.rerun_requested
          /\ config.mode = "validate_results" /\ FirstRejection(machine[r], <<i, "nan">>, res) =>
                m.rerun_requested
        BY <1>1, <2>3, <2>4, <2>5, FatalKeeps
    <2>7. m.state = machine[r].state
        BY <1>1, <2>3, <2>4, CheckLossKeeps DEF Keeps
    <2>. HIDE DEF m
    <2>8. machine'[r] = m /\ \A q \in Ranks \ {r} : machine'[q] = machine[q]
        BY <1>1, <2>1 DEF TypeOK, m, res
    <2>9. ASSUME NEW x \in Rejections(r, i, res)
          PROVE  /\ x.rank = r /\ x.step = step /\ config.mode = "validate_results"
                 /\ machine[r].state = "INITIAL_RUN" /\ m.rerun_requested
        <3>1. PICK c \in config.checks :
                /\ config.mode = "validate_results" /\ FirstRejection(machine[r], <<i, c>>, res)
                /\ x = [rank |-> r, step |-> step, fatal |-> Fatal(c)]
            BY <2>9 DEF Rejections
        <3>2. c = "nan"
            BY <3>1
        <3>. QED  BY <2>6, <3>1, <3>2 DEF FirstRejection
    <2>10. rejected' = rejected \cup Rejections(r, i, res)
        BY <2>1 DEF res
    <2>11. ASSUME NEW x \in rejected'
           PROVE  /\ x.rank \in Ranks /\ x.step = step /\ config.mode = "validate_results"
                  /\ machine'[x.rank].state # "NOT_RUNNING_YET"
                  /\ machine'[x.rank].state = "INITIAL_RUN" => machine'[x.rank].rerun_requested
        <3>1. CASE x \in Rejections(r, i, res)
            BY <2>7, <2>8, <2>9, <3>1
        <3>2. CASE x \in rejected
            <4>1. /\ x.rank \in Ranks /\ x.step = step /\ config.mode = "validate_results"
                  /\ machine[x.rank].state # "NOT_RUNNING_YET"
                  /\ machine[x.rank].state = "INITIAL_RUN" => machine[x.rank].rerun_requested
                BY <3>2 DEF Rejected
            <4>. QED  BY <2>6, <2>7, <2>8, <4>1
        <3>. QED  BY <2>10, <3>1, <3>2
    <2>12. \A q \in Ranks : ~machine'[q].continue_requested /\ ~checkpoint'.machine[q].continue_requested
        BY <2>2, <2>6, <2>8 DEF Rejected
    <2>. QED  BY <2>2, <2>11, <2>12 DEF Rejected
<1>. QED  BY <1>2, <1>3, <1>4, <1>5, <1>6 DEF RankStep

\* nor do the ranks together.
LEMMA RejectedCollective ==
    ASSUME Inv, Rejected, config.checks = {"nan"}, Collective \/ Relaunch
    PROVE  Rejected'
<1>1. TypeInv /\ TypeOK
    BY DEF Inv, TypeInv
<1>2. ~Any("continue_requested")
    BY DEF Rejected, Any
<1>3. CASE AcceptInitialRun
    <2>1. UNCHANGED <<config, rejected, step, checkpoint>> /\ ~Any("rerun_requested")
        BY <1>3 DEF AcceptInitialRun, history
    <2>2. \A r \in Ranks : machine[r].state = "INITIAL_RUN" /\ ~machine[r].rerun_requested
        BY <1>3, <2>1 DEF AcceptInitialRun, AllAt, Any
    <2>3. rejected' = {}
        BY <2>1, <2>2 DEF Rejected
    <2>4. ASSUME NEW r \in Ranks
          PROVE  machine[r].continue_requested = machine'[r].continue_requested
        <3>1. /\ machine[r] \in Machines
              /\ machine'[r] = [machine[r] EXCEPT !.state = "NOT_RUNNING_YET"]
            BY <1>1, <1>3 DEF AcceptInitialRun, LeaveLoop, TypeOK
        <3>. QED  BY <3>1, OnlyState
    <2>. QED  BY <2>1, <2>3, <2>4, RejectedNone
<1>4. CASE RerunInPlace
    <2>1. /\ UNCHANGED <<config, rejected, step, checkpoint>>
          /\ machine' = [r \in Ranks |-> [machine[r] EXCEPT !.state = "RERUNNING_IN_PLACE"]]
        BY <1>4 DEF RerunInPlace
    <2>2. ASSUME NEW r \in Ranks PROVE Stays(r)
        <3>1. /\ machine[r] \in Machines
              /\ machine'[r] = [machine[r] EXCEPT !.state = "RERUNNING_IN_PLACE"]
            BY <1>1, <2>1 DEF TypeOK
        <3>. QED  BY <3>1, OnlyState DEF Stays
    <2>. QED  BY <2>1, <2>2, RejectedStays
<1>5. CASE ReportStats
    <2>1. /\ UNCHANGED <<config, rejected, step, checkpoint>>
          /\ config.mode = "report_determinism_stats"
          /\ machine' = [r \in Ranks |-> [machine[r] EXCEPT !.state = "NOT_RUNNING_YET",
                                                            !.saved_results = {}]]
        BY <1>5 DEF ReportStats, history
    <2>2. rejected' = {}
        BY <2>1 DEF Rejected
    <2>3. ASSUME NEW r \in Ranks
          PROVE  machine[r].continue_requested = machine'[r].continue_requested
        <3>1. /\ machine[r] \in Machines
              /\ machine'[r] = [machine[r] EXCEPT !.state = "NOT_RUNNING_YET", !.saved_results = {}]
            BY <1>1, <2>1 DEF TypeOK
        <3>. QED  BY <3>1 DEF Machines
    <2>. QED  BY <2>1, <2>2, <2>3, RejectedNone
<1>6. ~ContinueInPlace
    BY <1>2 DEF ContinueInPlace
<1>7. CASE StopInPlace
    <2>. DEFINE state == IF Any("checkpoint_requested") THEN "WILL_RERUN_FROM_CHECKPOINT"
                                                        ELSE "RERUNNING_IN_PLACE"
    <2>1. UNCHANGED <<config, rejected, step, checkpoint>> /\ LeaveLoop(state)
        BY <1>7 DEF StopInPlace, history
    <2>2. state \notin {"INITIAL_RUN", "NOT_RUNNING_YET"}
        OBVIOUS
    <2>. HIDE DEF state
    <2>3. ASSUME NEW r \in Ranks PROVE Stays(r)
        <3>1. machine[r] \in Machines /\ machine'[r] = [machine[r] EXCEPT !.state = state]
            BY <1>1, <2>1 DEF LeaveLoop, TypeOK
        <3>. QED  BY <2>2, <3>1, OnlyState DEF Stays
    <2>. QED  BY <2>1, <2>3, RejectedStays
<1>8. CASE EndRerunFromCheckpoint
    <2>. DEFINE state == IF Any("restart_again_requested") THEN "RERUNNING_AGAIN_FROM_CHECKPOINT"
                                                           ELSE "RERUNNING_FROM_CHECKPOINT"
    <2>1. UNCHANGED <<config, rejected, step, checkpoint>> /\ LeaveLoop(state)
        BY <1>2, <1>8 DEF EndRerunFromCheckpoint, history
    <2>2. state \notin {"INITIAL_RUN", "NOT_RUNNING_YET"}
        OBVIOUS
    <2>. HIDE DEF state
    <2>3. ASSUME NEW r \in Ranks PROVE Stays(r)
        <3>1. machine[r] \in Machines /\ machine'[r] = [machine[r] EXCEPT !.state = state]
            BY <1>1, <2>1 DEF LeaveLoop, TypeOK
        <3>. QED  BY <2>2, <3>1, OnlyState DEF Stays
    <2>. QED  BY <2>1, <2>3, RejectedStays
<1>9. CASE OptimizerStep
    <2>1. UNCHANGED <<config, rejected, checkpoint, machine>> /\ \A r \in Ranks : pc[r] = "step"
        BY <1>9 DEF OptimizerStep, history
    <2>2. ASSUME NEW x \in rejected PROVE FALSE
        <3>1. /\ x.rank \in Ranks /\ config.mode = "validate_results"
              /\ machine[x.rank].state # "NOT_RUNNING_YET"
            BY <2>2 DEF Rejected
        <3>2. pc[x.rank] = "step" /\ WithReruns(x.rank) /\ machine[x.rank].state \in States
            BY <1>1, <2>1, <3>1 DEF Inv, Phase, TypeOK, Machines
        <3>. QED  BY <3>1, <3>2
                  DEF WithReruns, InitialRun, InPlace, WillRerun, FromCheckpoint, Again, States
    <2>. QED  BY <2>1, <2>2, RejectedNone
<1>10. CASE Exit
    <2>1. PICK v \in {Verdict(machine[r].state) : r \in Ranks} :
            checkpoint' = IF v.save
                          THEN [step |-> step, machine |-> machine, rng |-> rng] ELSE checkpoint
        BY <1>10 DEF Exit
    <2>2. UNCHANGED <<config, rejected, step, machine>>
        BY <1>10 DEF Exit, perRank, history
    <2>3. \A r \in Ranks : ~checkpoint'.machine[r].continue_requested
        BY <2>1 DEF Rejected
    <2>. QED  BY <2>2, <2>3 DEF Rejected
<1>11. CASE Relaunch
    <2>1. /\ UNCHANGED <<config, rejected, checkpoint>> /\ job = "exit 16"
          /\ machine' = [r \in Ranks |-> LoadStateDict(checkpoint.machine[r])]
          /\ step' = checkpoint.step
        BY <1>11 DEF Relaunch
    <2>2. \A r \in Ranks : Saved(r)
        BY <2>1 DEF Inv, Exited
    <2>3. ASSUME NEW r \in Ranks
          PROVE  /\ machine'[r].state = "WILL_RERUN_FROM_CHECKPOINT"
                 /\ ~machine'[r].continue_requested
        <3>1. checkpoint.machine[r] \in Machines
            BY <1>1 DEF TypeInv
        <3>2. machine'[r] = [checkpoint.machine[r] EXCEPT !.first_iteration_complete = FALSE,
                                                          !.saved_state = None, !.saved_results = {}]
            BY <2>1 DEF LoadStateDict
        <3>3. ~checkpoint.machine[r].continue_requested
            BY DEF Rejected
        <3>. QED  BY <2>2, <3>1, <3>2, <3>3 DEF Machines, Saved
    <2>4. step' = step
        <3>1. PICK r \in Ranks : TRUE
            BY RerunAssumption
        <3>. QED  BY <2>1, <2>2, <3>1 DEF Saved
    <2>. QED  BY <2>1, <2>3, <2>4 DEF Rejected
<1>. QED  BY <1>3, <1>4, <1>5, <1>6, <1>7, <1>8, <1>9, <1>10, <1>11 DEF Collective

\* With the check that Bridge enables by default, an iteration of which a result
\* was rejected never reaches the optimizer, through any number of processes.
THEOREM RejectionStops == Spec => []DefaultChecksStop
<1>1. Init => Rejected
    <2>. SUFFICES ASSUME Init PROVE Rejected
        OBVIOUS
    <2>1. /\ rejected = {} /\ checkpoint.machine = machine
          /\ \A r \in Ranks : machine[r].continue_requested = FALSE
        BY DEF Init, NewMachine
    <2>. QED  BY <2>1 DEF Rejected
<1>2. Inv /\ Rejected /\ [Next]_vars => Rejected'
    <2>. SUFFICES ASSUME Inv, Rejected, [Next]_vars PROVE Rejected'
        OBVIOUS
    <2>1. config' = config
        <3>1. ASSUME NEW r \in Ranks, RankStep(r) PROVE config' = config
            BY <3>1 DEF RankStep, BeginInitialRun, BeginRerunFromCheckpoint, Forward, EndPassDisabled,
                        Decide
        <3>2. Collective => config' = config
            BY DEF Collective, AcceptInitialRun, RerunInPlace, ReportStats, ContinueInPlace,
                   StopInPlace, EndRerunFromCheckpoint, OptimizerStep, Exit
        <3>3. Relaunch \/ UNCHANGED vars => config' = config
            BY DEF Relaunch, vars
        <3>. QED  BY <3>1, <3>2, <3>3 DEF Next, Stopped
    <2>2. CASE config.checks # {"nan"}
        BY <2>1, <2>2 DEF Rejected
    <2>3. CASE config.checks = {"nan"} /\ UNCHANGED vars
        BY <2>3 DEF Rejected, vars, perRank, history
    <2>4. CASE config.checks = {"nan"} /\ Next /\ ~UNCHANGED vars
        BY <2>4, RejectedRank, RejectedCollective DEF Next, Stopped
    <2>. QED  BY <2>2, <2>3, <2>4
<1>3. Inv /\ Rejected => DefaultChecksStop
    <2>. SUFFICES ASSUME Inv, Rejected, config.checks = {"nan"}, NEW x \in rejected
                  PROVE  step <= x.step
        BY DEF DefaultChecksStop, FatalFailureStops
    <2>1. x.step = step /\ step \in Nat
        BY DEF Inv, TypeInv, TypeOK, Rejected
    <2>. QED  BY <2>1
<1>. QED  BY <1>1, <1>2, <1>3, Invariance, PTL DEF Spec

-----------------------------------------------------------------------------
(***************************************************************************)
(* What the machine concludes is true.  DiagnosisIsTrue is not inductive:  *)
(* a comparison is right because of what led to it.  The invariant Diag-   *)
(* nosed adds that the result a rank suspects is that of a call of the     *)
(* initial run, that until the iteration is left it is known on which      *)
(* device and how it was computed, and that a broken device that made it   *)
(* is on record before the job moves to other devices, also in the check-  *)
(* point by which the next job knows it.                                   *)
(***************************************************************************)

\* What the checks see of a result of rank r.
Seen(cfg, r, b, made) ==
    IF made # "well" \/ <<r, b>> \in cfg.odd THEN cfg.symptom[r] ELSE "fine"

\* A result that rank r can have computed, after gl transient faults.
Genuine(cfg, gl, r, res) ==
    /\ res \in Results /\ res.seen = Seen(cfg, r, res.batch, res.made)
    /\ res.made = "glitch" => gl > 0
    /\ res.made \in {"well", "glitch"} \cup cfg.broken

\* It is the result of microbatch i of an initial run.
Initially(cfg, gl, r, run, i, res) ==
    /\ i \in 1 .. Len(run) /\ run[i] = <<res.batch, res.rng>>
    /\ Genuine(cfg, gl, r, res)

\* A machine suspects a result of the iteration after batch b; the call that it
\* rejected in an earlier iteration stays in failed_validation_call.
Suspects(m, b) == m.failed_validation_call \in CallSet /\ m.initial_result.batch > b

\* What is suspected is a result of the initial run that its call rejects.
Suspicion(cfg, gl, r, run, b, m) ==
    m.failed_validation_call \in CallSet =>
        /\ m.initial_result \in Results
        /\ m.initial_result.batch > b =>
              /\ m.failed_validation_call[1] \in 1 .. Microbatches
              /\ m.failed_validation_call[2] \in cfg.checks
              /\ m.initial_result.batch = b + m.failed_validation_call[1]
              /\ Initially(cfg, gl, r, run, m.failed_validation_call[1], m.initial_result)
              /\ Rejects(m.failed_validation_call[2], m.initial_result)

\* A broken device that made it has been recorded.
Accused(cfg, b, m) ==
    Suspects(m, b) /\ m.initial_result.made \in cfg.broken =>
        m.suspicious_device = m.initial_result.made

\* How a device computes.
MadeOn(cfg, where, made) ==
    IF where \in cfg.broken THEN made = where ELSE made \in {"well", "glitch"}

Attribution(r) ==
    /\ Suspicion(config, glitches, r, initialRun[r], Base, machine[r])
    /\ machine[r].state = "NOT_RUNNING_YET" /\ pc[r] = "loop" => ~Suspects(machine[r], Base)
    /\ machine[r].state \in {"INITIAL_RUN", "RERUNNING_IN_PLACE"} /\ Suspects(machine[r], Base) =>
          MadeOn(config, device[r], machine[r].initial_result.made)
    /\ machine[r].state = "RERUNNING_IN_PLACE" /\ pc[r] \in {"forward", "loop"}
          /\ machine[r].failed_validation_call[1] <= micro[r] => Accused(config, Base, machine[r])
    /\ machine[r].state \in {"WILL_RERUN_FROM_CHECKPOINT", "RERUNNING_FROM_CHECKPOINT",
                             "RERUNNING_AGAIN_FROM_CHECKPOINT"} =>
          Accused(config, Base, machine[r])
    /\ \/ job = "exit 16"
       \/ machine[r].state = "WILL_RERUN_FROM_CHECKPOINT" /\ pc[r] = "loop"
       \/ machine[r].state \in {"RERUNNING_FROM_CHECKPOINT", "RERUNNING_AGAIN_FROM_CHECKPOINT"}
       => /\ Suspicion(config, glitches, r, initialRun[r], Base, checkpoint.machine[r])
          /\ Accused(config, Base, checkpoint.machine[r])

\* The statistics hold one result of the initial run for each call.
Collected(cfg, gl, r, run, results) ==
    /\ \A s, t \in results : s.call = t.call => s = t
    /\ \A s \in results : Initially(cfg, gl, r, run, s.call[1], s.result)

Statistics(r) ==
    /\ Collected(config, glitches, r, initialRun[r], machine[r].saved_results)
    /\ machine[r].state = "NOT_RUNNING_YET" => machine[r].saved_results = {}
    /\ machine[r].state = "INITIAL_RUN" /\ ~machine[r].rerun_requested =>
          machine[r].saved_results = {}
    /\ machine[r].state # "NOT_RUNNING_YET" =>
          \A i \in 1 .. Len(initialRun[r]), c \in config.checks :
              \E s \in machine[r].saved_results : s.call = <<i, c>>

\* The devices that compute wrongly for good, and the transient faults so far.
Budget(cfg, gl) ==
    /\ IsFiniteSet(cfg.broken) /\ gl \in Nat
    /\ gl + Cardinality(cfg.broken) <= MaxFaults

Diagnosed ==
    /\ config.checks \subseteq {"nan", "spiky"}
    /\ Budget(config, glitches)
    /\ \A r \in Ranks :
        /\ config.mode = "validate_results" => Attribution(r)
        /\ config.mode = "report_determinism_stats" => Statistics(r)

\* DiagnosisIsTrue for one diagnosis.  With two faults a wrong result may come
\* again on another device and be taken for a correct one.
Correct(cfg, d) ==
    LET faulty == d.initial.made # "well" \/ d.result.made # "well"
    IN  d.initial.batch > d.step * Microbatches =>
            CASE d.status = "FIRST_RERUN_NOT_REPRODUCIBLE" ->
                    d.initial.made = "glitch" \/ d.result.made = "glitch"
              [] d.status = "SECOND_RERUN_NOT_REPRODUCIBLE" -> faulty
              [] d.status = "SECOND_RERUN_REPRODUCIBLE" ->
                    MaxFaults <= 1 => <<d.rank, d.initial.batch>> \in cfg.odd
              [] d.status = "STATS" -> Match(d.initial, d.result) \/ faulty
              [] OTHER -> TRUE
-----------------------------------------------------------------------------
\* A result is genuine when it is made.
LEMMA ResultGenuine ==
    ASSUME ConfigType, NEW r \in Ranks, NEW b \in Nat, NEW g \in Nat, NEW gl \in Nat,
           NEW made \in {"well", "glitch"} \cup config.broken, made = "glitch" => gl > 0
    PROVE  /\ Genuine(config, gl, r, Result(r, b, g, made))
           /\ Result(r, b, g, made).batch = b /\ Result(r, b, g, made).rng = g
           /\ Result(r, b, g, made).made = made
<1>1. made \in {"well", "glitch"} \cup Devices
    BY DEF ConfigType
<1>2. Result(r, b, g, made) \in Results
    BY <1>1, ResultType
<1>3. /\ Result(r, b, g, made).batch = b /\ Result(r, b, g, made).rng = g
      /\ Result(r, b, g, made).made = made
      /\ Result(r, b, g, made).seen = Seen(config, r, b, made)
    BY DEF Result, Seen
<1>. QED  BY <1>2, <1>3 DEF Genuine

\* Results that came from the same input in the same way are the same.
LEMMA SameResult ==
    ASSUME NEW cfg, NEW gl, NEW hl, NEW r, NEW x, NEW y, Genuine(cfg, gl, r, x),
           Genuine(cfg, hl, r, y), x.batch = y.batch, x.rng = y.rng, x.made = y.made
    PROVE  x = y
<1>1. x \in Results /\ y \in Results /\ x.seen = y.seen
    BY DEF Genuine
<1>. QED  BY <1>1 DEF Results

\* More transient faults do not take a result back.
LEMMA GenuineLater ==
    ASSUME NEW cfg, NEW gl \in Nat, NEW hl \in Nat, gl <= hl, NEW r, NEW res,
           Genuine(cfg, gl, r, res)
    PROVE  Genuine(cfg, hl, r, res)
BY DEF Genuine

LEMMA SuspicionLater ==
    ASSUME NEW cfg, NEW gl \in Nat, NEW hl \in Nat, gl <= hl, NEW r, NEW b, NEW run, NEW m,
           Suspicion(cfg, gl, r, run, b, m)
    PROVE  Suspicion(cfg, hl, r, run, b, m)
BY GenuineLater DEF Suspicion, Initially

\* A suspicion stays when the initial run grows or faults are added.
LEMMA SuspicionStays ==
    ASSUME NEW cfg, NEW gl \in Nat, NEW hl \in Nat, gl <= hl, NEW r, NEW b,
           NEW run \in Seq(Nat \X Nat), NEW long \in Seq(Nat \X Nat), Len(run) <= Len(long),
           \A i \in 1 .. Len(run) : long[i] = run[i], NEW m, NEW n,
           n.failed_validation_call = m.failed_validation_call,
           n.initial_result = m.initial_result,
           Suspicion(cfg, gl, r, run, b, m)
    PROVE  Suspicion(cfg, hl, r, long, b, n)
<1>1. \A res : Genuine(cfg, gl, r, res) => Genuine(cfg, hl, r, res)
    BY DEF Genuine
<1>2. \A i \in 1 .. Len(run) : i \in 1 .. Len(long) /\ long[i] = run[i]
    OBVIOUS
<1>3. \A i : \A res : Initially(cfg, gl, r, run, i, res) => Initially(cfg, hl, r, long, i, res)
    BY <1>1, <1>2 DEF Initially
<1>. QED  BY <1>3 DEF Suspicion

\* An accusation stays while the machine keeps what it rejected.
LEMMA AccusedStays ==
    ASSUME NEW cfg, NEW b, NEW m, NEW n, Accused(cfg, b, m),
           n.failed_validation_call = m.failed_validation_call,
           n.initial_result = m.initial_result, n.suspicious_device = m.suspicious_device
    PROVE  Accused(cfg, b, n)
BY DEF Accused, Suspects
-----------------------------------------------------------------------------
(***************************************************************************)
(* What validate_result records.                                           *)
(***************************************************************************)
\* One call: the first rejection is remembered, a comparison in place that
\* reproduces the result accuses the device.
Judged(m, n, call, res, where) ==
    /\ n \in Machines /\ n.state = m.state
    /\ IF FirstRejection(m, call, res)
       THEN n.failed_validation_call = call /\ n.initial_result = res
       ELSE /\ n.failed_validation_call = m.failed_validation_call
            /\ n.initial_result = m.initial_result
    /\ n.suspicious_device =
          IF /\ Compares(m, call) /\ m.state = "RERUNNING_IN_PLACE"
             /\ Match(m.initial_result, res)
          THEN where ELSE m.suspicious_device

LEMMA ValidateJudges ==
    ASSUME config.mode = "validate_results", NEW m \in Machines, NEW call \in CallSet,
           NEW res \in Results, NEW where \in Devices
    PROVE  Judged(m, ValidateResult(m, call, res, where), call, res, where)
<1>. DEFINE go   == m.continue_requested \/ ~Fatal(call[2])
            save == m.checkpoint_requested \/ Fatal(call[2])
<1>1. go \in BOOLEAN /\ save \in BOOLEAN
    BY DEF Fatal, Machines
<1>2. CASE FirstRejection(m, call, res)
    <2>1. ValidateResult(m, call, res, where) = Reject(m, call, res)
        BY <1>2 DEF ValidateResult, FirstRejection, Compares
    <2>2. Reject(m, call, res) \in Machines
        BY RejectKeeps DEF Keeps
    <2>3. /\ Reject(m, call, res).state = m.state
          /\ Reject(m, call, res).failed_validation_call = call
          /\ Reject(m, call, res).initial_result = res
          /\ Reject(m, call, res).suspicious_device = m.suspicious_device
        BY DEF Reject, Machines
    <2>4. ~Compares(m, call)
        BY <1>2 DEF FirstRejection, Compares
    <2>. QED  BY <1>2, <2>1, <2>2, <2>3, <2>4 DEF Judged
<1>3. CASE ~FirstRejection(m, call, res) /\ Compares(m, call) /\ m.state = "RERUNNING_IN_PLACE"
    <2>1. ValidateResult(m, call, res, where) = CompareInPlace(m, call, res, where)
        BY <1>3 DEF ValidateResult
    <2>2. CompareInPlace(m, call, res, where) \in Machines
        BY InPlaceKeeps DEF Keeps
    <2>. HIDE DEF go, save
    <2>3. CASE ~Match(m.initial_result, res)
        <3>1. CompareInPlace(m, call, res, where) = [m EXCEPT !.continue_requested = go]
            BY <2>3 DEF CompareInPlace, go
        <3>2. /\ [m EXCEPT !.continue_requested = go].state = m.state
              /\ [m EXCEPT !.continue_requested = go].failed_validation_call
                    = m.failed_validation_call
              /\ [m EXCEPT !.continue_requested = go].initial_result = m.initial_result
              /\ [m EXCEPT !.continue_requested = go].suspicious_device = m.suspicious_device
            BY DEF Machines
        <3>. QED  BY <1>3, <2>1, <2>2, <2>3, <3>1, <3>2 DEF Judged
    <2>4. CASE Match(m.initial_result, res)
        <3>. DEFINE n == [m EXCEPT !.checkpoint_requested = save, !.continue_requested = go,
                                   !.suspicious_device = where]
        <3>1. CompareInPlace(m, call, res, where) = n
            BY <2>4 DEF CompareInPlace, go, save
        <3>2. /\ n.state = m.state /\ n.failed_validation_call = m.failed_validation_call
              /\ n.initial_result = m.initial_result /\ n.suspicious_device = where
            BY DEF Machines
        <3>. HIDE DEF n
        <3>. QED  BY <1>3, <2>1, <2>2, <2>4, <3>1, <3>2 DEF Judged
    <2>. QED  BY <2>3, <2>4
<1>4. CASE ~FirstRejection(m, call, res) /\ Compares(m, call) /\ m.state # "RERUNNING_IN_PLACE"
    <2>1. ValidateResult(m, call, res, where) = CompareElsewhere(m, call, where)
        BY <1>4 DEF ValidateResult
    <2>2. CompareElsewhere(m, call, where) \in Machines
        BY ElsewhereKeeps DEF Keeps
    <2>. HIDE DEF go, save
    <2>3. \/ CompareElsewhere(m, call, where) = [m EXCEPT !.restart_again_requested = TRUE]
          \/ CompareElsewhere(m, call, where) = [m EXCEPT !.continue_requested = go]
        BY DEF CompareElsewhere, go
    <2>4. /\ CompareElsewhere(m, call, where).state = m.state
          /\ CompareElsewhere(m, call, where).failed_validation_call = m.failed_validation_call
          /\ CompareElsewhere(m, call, where).initial_result = m.initial_result
          /\ CompareElsewhere(m, call, where).suspicious_device = m.suspicious_device
        BY <2>3 DEF Machines
    <2>. QED  BY <1>4, <2>1, <2>2, <2>4 DEF Judged
<1>5. CASE ~FirstRejection(m, call, res) /\ ~Compares(m, call)
    <2>1. ValidateResult(m, call, res, where) = m
        BY <1>5 DEF ValidateResult
    <2>. QED  BY <1>5, <2>1 DEF Judged
<1>. QED  BY <1>2, <1>3, <1>4, <1>5

\* All checks of the loss of microbatch i.
Recorded(m, n, i, res, where) ==
    /\ n \in Machines /\ n.state = m.state
    /\ \/ /\ n.failed_validation_call = m.failed_validation_call
          /\ n.initial_result = m.initial_result
       \/ /\ m.state = "INITIAL_RUN"
          /\ \E c \in config.checks :
                n.failed_validation_call = <<i, c>> /\ Rejects(c, res)
          /\ n.initial_result = res
    /\ m.state # "RERUNNING_IN_PLACE" => n.suspicious_device = m.suspicious_device
    /\ m.state = "RERUNNING_IN_PLACE" =>
          /\ \A c \in config.checks :
                m.failed_validation_call = <<i, c>> /\ Match(m.initial_result, res) =>
                    n.suspicious_device = where
          /\ (\A c \in config.checks : m.failed_validation_call # <<i, c>>) =>
                n.suspicious_device = m.suspicious_device

LEMMA CheckLossRecords ==
    ASSUME config.mode = "validate_results", config.checks \subseteq {"nan", "spiky"},
           NEW m \in Machines, NEW i \in Nat, NEW res \in Results, NEW where \in Devices
    PROVE  Recorded(m, CheckLoss(m, i, res, where), i, res, where)
<1>. DEFINE nan   == ValidateResult(m, <<i, "nan">>, res, where)
            after == IF "nan" \in config.checks THEN nan ELSE m
            spiky == ValidateResult(after, <<i, "spiky">>, res, where)
            n     == IF "spiky" \in config.checks THEN spiky ELSE after
<1>0. CheckLoss(m, i, res, where) = n
    BY DEF CheckLoss
<1>1. <<i, "nan">> \in CallSet /\ <<i, "spiky">> \in CallSet
    BY DEF CallSet
<1>2. Judged(m, nan, <<i, "nan">>, res, where)
    BY <1>1, ValidateJudges
<1>. HIDE DEF nan
<1>3. after \in Machines /\ after.state = m.state
    BY <1>2 DEF Judged
<1>. HIDE DEF after
<1>4. Judged(after, spiky, <<i, "spiky">>, res, where)
    BY <1>1, <1>3, ValidateJudges
<1>. HIDE DEF spiky
<1>5. n \in Machines /\ n.state = m.state
    BY <1>3, <1>4 DEF Judged
<1>6. /\ FirstRejection(m, <<i, "nan">>, res) => m.state = "INITIAL_RUN" /\ Rejects("nan", res)
      /\ FirstRejection(after, <<i, "spiky">>, res) =>
            m.state = "INITIAL_RUN" /\ Rejects("spiky", res)
    BY <1>3 DEF FirstRejection
<1>7. \/ after.failed_validation_call = m.failed_validation_call
         /\ after.initial_result = m.initial_result
      \/ /\ m.state = "INITIAL_RUN" /\ "nan" \in config.checks /\ Rejects("nan", res)
         /\ after.failed_validation_call = <<i, "nan">> /\ after.initial_result = res
    BY <1>2, <1>6 DEF Judged, after
<1>8. \/ n.failed_validation_call = m.failed_validation_call
         /\ n.initial_result = m.initial_result
      \/ /\ m.state = "INITIAL_RUN"
         /\ \E c \in config.checks : n.failed_validation_call = <<i, c>> /\ Rejects(c, res)
         /\ n.initial_result = res
    <2>1. CASE "spiky" \notin config.checks
        BY <1>7, <2>1
    <2>2. CASE "spiky" \in config.checks /\ FirstRejection(after, <<i, "spiky">>, res)
        BY <1>4, <1>6, <2>2 DEF Judged
    <2>3. CASE "spiky" \in config.checks /\ ~FirstRejection(after, <<i, "spiky">>, res)
        BY <1>4, <1>7, <2>3 DEF Judged
    <2>. QED  BY <2>1, <2>2, <2>3
<1>9. m.state # "RERUNNING_IN_PLACE" => n.suspicious_device = m.suspicious_device
    BY <1>2, <1>3, <1>4 DEF Judged, after
<1>10. ASSUME m.state = "RERUNNING_IN_PLACE"
       PROVE  /\ \A c \in config.checks :
                    m.failed_validation_call = <<i, c>> /\ Match(m.initial_result, res) =>
                        n.suspicious_device = where
              /\ (\A c \in config.checks : m.failed_validation_call # <<i, c>>) =>
                    n.suspicious_device = m.suspicious_device
    <2>1. /\ after.failed_validation_call = m.failed_validation_call
          /\ after.initial_result = m.initial_result
        BY <1>7, <1>10
    <2>2. after.suspicious_device =
            IF /\ "nan" \in config.checks /\ m.failed_validation_call = <<i, "nan">>
               /\ Match(m.initial_result, res)
            THEN where ELSE m.suspicious_device
        BY <1>2, <1>10 DEF Judged, Compares, after
    <2>3. n.suspicious_device =
            IF /\ "spiky" \in config.checks /\ m.failed_validation_call = <<i, "spiky">>
               /\ Match(m.initial_result, res)
            THEN where ELSE after.suspicious_device
        BY <1>3, <1>4, <1>10, <2>1 DEF Judged, Compares
    <2>. HIDE DEF n
    <2>. QED  BY <2>2, <2>3
<1>. HIDE DEF n
<1>. QED  BY <1>0, <1>5, <1>8, <1>9, <1>10 DEF Recorded

\* What one loss adds to the statistics.
Entries(checks, i, res) == {[call |-> <<i, c>>, result |-> res] : c \in checks}

\* The statistics of one loss.
LEMMA CheckLossCollects ==
    ASSUME config.mode = "report_determinism_stats", config.checks \subseteq {"nan", "spiky"},
           NEW m \in Machines, NEW i \in Nat, NEW res \in Results, NEW where \in Devices
    PROVE  /\ m.state # "INITIAL_RUN" => CheckLoss(m, i, res, where) = m
           /\ m.state = "INITIAL_RUN" =>
                 /\ CheckLoss(m, i, res, where).saved_results =
                       m.saved_results \cup Entries(config.checks, i, res)
                 /\ ~CheckLoss(m, i, res, where).rerun_requested =>
                       config.checks = {} /\ ~m.rerun_requested
                 /\ CheckLoss(m, i, res, where).state = m.state
<1>1. \A n : \A call : ValidateResult(n, call, res, where) = Collect(n, call, res)
    BY DEF ValidateResult
<1>. DEFINE after == IF "nan" \in config.checks THEN Collect(m, <<i, "nan">>, res) ELSE m
            last  == IF "spiky" \in config.checks THEN Collect(after, <<i, "spiky">>, res) ELSE after
<1>2. CheckLoss(m, i, res, where) = last
    BY <1>1 DEF CheckLoss
<1>3. ASSUME m.state # "INITIAL_RUN" PROVE last = m
    BY <1>3 DEF Collect
<1>4. ASSUME m.state = "INITIAL_RUN"
      PROVE  /\ last.saved_results =
                   m.saved_results \cup {[call |-> <<i, c>>, result |-> res] : c \in config.checks}
             /\ last.rerun_requested = IF config.checks = {} THEN m.rerun_requested ELSE TRUE
             /\ last.state = m.state
    <2>1. /\ after \in Machines
          /\ after.state = m.state
          /\ after.saved_results = m.saved_results \cup
                (IF "nan" \in config.checks THEN {[call |-> <<i, "nan">>, result |-> res]} ELSE {})
          /\ after.rerun_requested =
                IF "nan" \in config.checks THEN TRUE ELSE m.rerun_requested
        <3>1. Collect(m, <<i, "nan">>, res) \in Machines
            <4>1. <<i, "nan">> \in CallSet
                BY DEF CallSet
            <4>. QED  BY <4>1, CollectKeeps DEF Keeps
        <3>2. /\ Collect(m, <<i, "nan">>, res).state = m.state
              /\ Collect(m, <<i, "nan">>, res).rerun_requested = TRUE
              /\ Collect(m, <<i, "nan">>, res).saved_results =
                    m.saved_results \cup {[call |-> <<i, "nan">>, result |-> res]}
            BY <1>4 DEF Collect, Machines
        <3>. QED  BY <3>1, <3>2
    <2>. HIDE DEF after
    <2>2. /\ last.state = m.state
          /\ last.saved_results = after.saved_results \cup
                (IF "spiky" \in config.checks THEN {[call |-> <<i, "spiky">>, result |-> res]} ELSE {})
          /\ last.rerun_requested =
                IF "spiky" \in config.checks THEN TRUE ELSE after.rerun_requested
        BY <1>4, <2>1 DEF Collect, Machines
    <2>. HIDE DEF last
    <2>3. last.saved_results = m.saved_results \cup
            {[call |-> <<i, c>>, result |-> res] : c \in config.checks}
        BY <2>1, <2>2
    <2>. QED  BY <2>1, <2>2, <2>3
<1>. HIDE DEF last
<1>5. m.state = "INITIAL_RUN" => (~last.rerun_requested => config.checks = {} /\ ~m.rerun_requested)
    BY <1>4
<1>. QED  BY <1>2, <1>3, <1>4, <1>5 DEF Entries
-----------------------------------------------------------------------------
(***************************************************************************)
(* The faults there can be.                                                *)
(***************************************************************************)
\* How a device may compute, and what that leaves of the faults.
LEMMA WaysFacts ==
    ASSUME TypeInv, Budget(config, glitches), NEW r \in Ranks, NEW made \in Ways(r),
           NEW gl, gl = IF made = "glitch" THEN glitches + 1 ELSE glitches
    PROVE  /\ made \in {"well", "glitch"} \cup config.broken
           /\ MadeOn(config, device[r], made)
           /\ gl \in Nat /\ glitches <= gl /\ Budget(config, gl)
           /\ made = "glitch" => gl > 0 /\ device[r] \notin config.broken /\ gl = glitches + 1
<1>1. device[r] \in Devices /\ config.broken \subseteq Devices
    BY DEF TypeInv, ConfigType
<1>2. "well" \notin Devices /\ "glitch" \notin Devices
    BY RerunAssumption
<1>3. glitches \in Nat /\ Cardinality(config.broken) \in Nat /\ MaxFaults \in Nat
    BY FS_CardinalityType, RerunAssumption DEF Budget
<1>4. CASE device[r] \in config.broken
    <2>1. made = device[r] /\ made # "glitch"
        BY <1>1, <1>2, <1>4 DEF Ways
    <2>. QED  BY <1>3, <1>4, <2>1 DEF MadeOn
<1>5. CASE device[r] \notin config.broken
    <2>1. made \in {"well", "glitch"}
        BY <1>5 DEF Ways
    <2>2. made = "glitch" => glitches + Cardinality(config.broken) < MaxFaults
        BY <1>5 DEF Ways
    <2>3. made = "glitch" => gl + Cardinality(config.broken) <= MaxFaults
        BY <1>3, <2>2
    <2>. QED  BY <1>3, <1>5, <2>1, <2>3 DEF MadeOn, Budget
<1>. QED  BY <1>4, <1>5

\* With one fault at most, a broken device is the only fault.
LEMMA OneFault ==
    ASSUME NEW cfg, NEW gl, Budget(cfg, gl), MaxFaults <= 1, NEW d \in cfg.broken
    PROVE  gl = 0 /\ cfg.broken = {d}
<1>1. gl \in Nat /\ Cardinality(cfg.broken) \in Nat /\ MaxFaults \in Nat
    BY FS_CardinalityType, RerunAssumption DEF Budget
<1>2. cfg.broken # {} /\ Cardinality(cfg.broken) # 0
    BY FS_EmptySet DEF Budget
<1>3. gl + Cardinality(cfg.broken) <= 1
    BY <1>1 DEF Budget
<1>4. gl = 0 /\ Cardinality(cfg.broken) = 1
    BY <1>1, <1>2, <1>3
<1>5. \E x : cfg.broken = {x}
    BY <1>4, FS_Singleton DEF Budget
<1>. QED  BY <1>4, <1>5

\* The rerun of the next job reproduces, elsewhere, only what is right: a result
\* that one fault made does not come again on another device.
LEMMA ReproducedElsewhere ==
    ASSUME NEW cfg, cfg.checks \subseteq {"nan", "spiky"}, cfg.broken \subseteq Devices,
           NEW gl \in Nat, NEW hl \in Nat, gl <= hl, Budget(cfg, hl), MaxFaults <= 1, NEW r,
           NEW m, NEW x, NEW y, NEW c \in cfg.checks, NEW where,
           Genuine(cfg, gl, r, x), Rejects(c, x), Genuine(cfg, hl, r, y),
           x.batch = y.batch, Match(x, y),
           x.made \in cfg.broken => m.suspicious_device = x.made,
           where # m.suspicious_device, MadeOn(cfg, where, y.made),
           y.made = "glitch" => hl = gl + 1
    PROVE  <<r, x.batch>> \in cfg.odd
<1>1. /\ x \in Results /\ x.seen = Seen(cfg, r, x.batch, x.made) /\ x.seen = c
      /\ y.seen = Seen(cfg, r, y.batch, y.made) /\ c # "fine"
    BY DEF Genuine, Rejects
<1>2. "well" \notin cfg.broken /\ "glitch" \notin cfg.broken
    BY RerunAssumption
<1>3. CASE x.made = "well"
    BY <1>1, <1>3 DEF Seen
<1>4. CASE x.made # "well"
    <2>1. y.made = "well"
        <3>1. CASE x.made \in cfg.broken
            <4>1. cfg.broken = {x.made} /\ hl = 0
                BY <3>1, OneFault
            <4>2. where \notin cfg.broken
                BY <3>1, <4>1
            <4>3. y.made # "glitch"
                BY <4>1
            <4>. QED  BY <4>2, <4>3 DEF MadeOn
        <3>2. CASE x.made = "glitch"
            <4>1. gl > 0 /\ hl > 0
                BY <3>2 DEF Genuine
            <4>2. cfg.broken = {}
                BY <4>1, OneFault
            <4>3. ASSUME y.made = "glitch" PROVE FALSE
                <5>1. hl \in Nat /\ Cardinality(cfg.broken) \in Nat /\ hl + Cardinality(cfg.broken) <= MaxFaults
                    BY FS_CardinalityType DEF Budget
                <5>2. hl = gl + 1
                    BY <4>3
                <5>. QED  BY <4>1, <5>1, <5>2, RerunAssumption
            <4>. QED  BY <4>2, <4>3 DEF MadeOn
        <3>. QED  BY <1>4, <3>1, <3>2 DEF Genuine
    <2>2. y.seen = "nan"
        BY <1>4, <2>1 DEF Match
    <2>. QED  BY <1>1, <2>1, <2>2 DEF Seen
<1>. QED  BY <1>3, <1>4
-----------------------------------------------------------------------------
(***************************************************************************)
(* The rerun has the inputs of the initial run.                            *)
(***************************************************************************)
LEMMA InputOfRun ==
    ASSUME Inv, NEW r \in Ranks, pc[r] = "forward", config.mode # "disabled"
    PROVE  /\ machine[r].state \in {"INITIAL_RUN", "RERUNNING_IN_PLACE",
                                    "RERUNNING_FROM_CHECKPOINT"}
           /\ micro[r] \in Nat /\ rng[r] \in Nat /\ NextBatch(r) = Base + (micro[r] + 1)
           /\ micro[r] + 1 \in 1 .. Microbatches
           /\ initialRun[r] \in Seq(Nat \X Nat)
           /\ machine[r].state = "INITIAL_RUN" => Len(initialRun[r]) = micro[r]
           /\ machine[r].state # "INITIAL_RUN" =>
                 /\ micro[r] + 1 \in 1 .. Len(initialRun[r])
                 /\ initialRun[r][micro[r] + 1] = <<NextBatch(r), rng[r]>>
<1>1. /\ TypeInv /\ TypeOK /\ Phase(r) /\ WithReruns(r) /\ Base \in Nat /\ micro[r] \in Nat
      /\ rng[r] \in Nat /\ machine[r].state \in States /\ source[r] \in Nat
      /\ initialRun[r] \in Seq(Nat \X Nat)
    BY BaseType DEF Inv, TypeInv, TypeOK, Phase, Machines
<1>2. machine[r].state \in {"INITIAL_RUN", "RERUNNING_IN_PLACE", "RERUNNING_FROM_CHECKPOINT"}
    BY <1>1 DEF States, WithReruns, Resting, WillRerun, Again
<1>3. Microbatches \in Nat
    BY RerunAssumption
<1>4. InPass(r) => micro[r] + 1 \in 1 .. Microbatches
    BY <1>1, <1>3 DEF InPass
<1>5. CASE machine[r].state = "INITIAL_RUN"
    <2>1. /\ InPass(r) /\ ~iterator[r].replaying /\ source[r] = Base + micro[r]
          /\ Len(initialRun[r]) = micro[r]
        BY <1>1, <1>5 DEF WithReruns, InitialRun, Runs
    <2>2. NextBatch(r) = source[r] + 1
        BY <2>1, NextBatchType
    <2>. QED  BY <1>1, <1>4, <1>5, <2>1, <2>2
<1>6. CASE machine[r].state = "RERUNNING_IN_PLACE"
    <2>. DEFINE h == machine[r].saved_state
    <2>1. /\ InPass(r) /\ h \in Nat /\ rng[r] = h + micro[r]
          /\ Runs(initialRun[r], Base, h, Microbatches)
        BY <1>1, <1>6 DEF WithReruns, InPlace
    <2>2. NextBatch(r) = Base + micro[r] + 1
        BY <1>6, NextBatchType
    <2>3. Len(initialRun[r]) = Microbatches /\ micro[r] + 1 \in 1 .. Microbatches
        BY <1>4, <2>1 DEF Runs
    <2>4. initialRun[r][micro[r] + 1] = <<Base + (micro[r] + 1), h + (micro[r] + 1) - 1>>
        BY <2>1, <2>3 DEF Runs
    <2>. HIDE DEF h
    <2>5. h + (micro[r] + 1) - 1 = rng[r] /\ NextBatch(r) = Base + (micro[r] + 1)
        BY <1>1, <2>1, <2>2
    <2>. QED  BY <1>1, <1>2, <1>6, <2>3, <2>4, <2>5
<1>7. CASE machine[r].state = "RERUNNING_FROM_CHECKPOINT"
    <2>. DEFINE h == checkpoint.rng[r]
    <2>1. /\ InPass(r) /\ h \in Nat /\ rng[r] = h + micro[r] /\ ~iterator[r].replaying
          /\ source[r] = Base + micro[r]
          /\ Runs(initialRun[r], Base, h, Microbatches)
        BY <1>1, <1>7 DEF WithReruns, FromCheckpoint, Saved, TypeInv
    <2>2. NextBatch(r) = source[r] + 1
        BY <2>1, NextBatchType
    <2>3. Len(initialRun[r]) = Microbatches /\ micro[r] + 1 \in 1 .. Microbatches
        BY <1>4, <2>1 DEF Runs
    <2>4. initialRun[r][micro[r] + 1] = <<Base + (micro[r] + 1), h + (micro[r] + 1) - 1>>
        BY <2>1, <2>3 DEF Runs
    <2>. HIDE DEF h
    <2>5. h + (micro[r] + 1) - 1 = rng[r] /\ NextBatch(r) = Base + (micro[r] + 1)
        BY <1>1, <2>1, <2>2
    <2>. QED  BY <1>1, <1>2, <1>7, <2>3, <2>4, <2>5
<1>. QED  BY <1>2, <1>5, <1>6, <1>7
-----------------------------------------------------------------------------
(***************************************************************************)
(* Steps of one rank.                                                      *)
(***************************************************************************)
\* A rank that a step does not touch.
LEMMA DiagnosedElsewhere ==
    ASSUME TypeInv, NEW q \in Ranks, Unmoved(q), UNCHANGED <<config, step, checkpoint, device>>,
           glitches \in Nat, glitches' \in Nat, glitches <= glitches', job' # "exit 16"
    PROVE  /\ Attribution(q) => Attribution(q)'
           /\ Statistics(q) => Statistics(q)'
<1>1. Base' = Base /\ initialRun[q] \in Seq(Nat \X Nat)
    BY DEF Base, TypeInv
<1>2. \A m : Suspicion(config, glitches, q, initialRun[q], Base, m) =>
             Suspicion(config, glitches', q, initialRun[q], Base, m)
    BY SuspicionLater
<1>3. \A i, res : Initially(config, glitches, q, initialRun[q], i, res) =>
                  Initially(config, glitches', q, initialRun[q], i, res)
    BY GenuineLater DEF Initially
<1>4. \A s : Collected(config, glitches, q, initialRun[q], s) =>
             Collected(config, glitches', q, initialRun[q], s)
    BY <1>3 DEF Collected
<1>. QED  BY <1>1, <1>2, <1>4 DEF Attribution, Statistics, Unmoved

\* What a microbatch computes and records.
LEMMA ForwardRecords ==
    ASSUME Inv, Diagnosed, NEW r \in Ranks, Forward(r), config.mode # "disabled"
    PROVE  \E res \in Results :
              /\ machine'[r] = CheckLoss(machine[r], micro[r] + 1, res, device[r])
              /\ diagnoses' = diagnoses \cup Diagnoses(r, micro[r] + 1, res)
              /\ res.batch = NextBatch(r) /\ res.rng = rng[r]
              /\ Genuine(config, glitches', r, res)
              /\ MadeOn(config, device[r], res.made)
              /\ res.made = "glitch" => glitches' = glitches + 1
              /\ glitches' \in Nat /\ glitches <= glitches' /\ Budget(config, glitches')
<1>1. PICK made \in Ways(r) :
        LET res == Result(r, NextBatch(r), rng[r], made)
        IN  /\ glitches' = IF made = "glitch" THEN glitches + 1 ELSE glitches
            /\ machine' = [machine EXCEPT ![r] = CheckLoss(@, micro[r] + 1, res, device[r])]
            /\ diagnoses' = diagnoses \cup Diagnoses(r, micro[r] + 1, res)
    BY DEF Forward
<1>. DEFINE res == Result(r, NextBatch(r), rng[r], made)
<1>2. TypeInv /\ ConfigType /\ machine \in [Ranks -> Machines] /\ pc[r] = "forward"
    BY DEF Inv, TypeInv, TypeOK, Forward
<1>3. machine'[r] = CheckLoss(machine[r], micro[r] + 1, res, device[r])
    BY <1>1, <1>2
<1>4. /\ made \in {"well", "glitch"} \cup config.broken /\ MadeOn(config, device[r], made)
      /\ glitches' \in Nat /\ glitches <= glitches' /\ Budget(config, glitches')
      /\ made = "glitch" => glitches' > 0 /\ glitches' = glitches + 1
    BY <1>1, <1>2, WaysFacts DEF Diagnosed
<1>5. NextBatch(r) \in Nat /\ rng[r] \in Nat
    BY <1>2, NextBatchType DEF TypeInv, TypeOK
<1>6. /\ Genuine(config, glitches', r, res)
      /\ res.batch = NextBatch(r) /\ res.rng = rng[r] /\ res.made = made
    BY <1>2, <1>4, <1>5, ResultGenuine
<1>7. res \in Results
    BY <1>6 DEF Genuine
<1>. HIDE DEF res
<1>. QED  BY <1>1, <1>3, <1>4, <1>6, <1>7 DEF res

\* The initial run grows by the microbatch, a rerun finds it there.
LEMMA ForwardGrows ==
    ASSUME Inv, NEW r \in Ranks, Forward(r), config.mode # "disabled"
    PROVE  /\ initialRun[r] \in Seq(Nat \X Nat) /\ initialRun'[r] \in Seq(Nat \X Nat)
           /\ Len(initialRun[r]) <= Len(initialRun'[r])
           /\ \A j \in 1 .. Len(initialRun[r]) : initialRun'[r][j] = initialRun[r][j]
           /\ micro[r] + 1 \in 1 .. Len(initialRun'[r])
           /\ initialRun'[r][micro[r] + 1] = <<NextBatch(r), rng[r]>>
           /\ IF machine[r].state = "INITIAL_RUN"
              THEN Len(initialRun[r]) = micro[r] /\ Len(initialRun'[r]) = micro[r] + 1
              ELSE initialRun'[r] = initialRun[r]
           /\ micro'[r] = micro[r] + 1 /\ pc'[r] \in {"loop", "forward"} /\ job' # "exit 16"
           /\ machine'[r].state = machine[r].state
           /\ UNCHANGED <<config, device, step, checkpoint>> /\ Base' = Base
<1>. DEFINE run   == initialRun[r]
            long  == initialRun'[r]
            i     == micro[r] + 1
            input == <<NextBatch(r), rng[r]>>
<1>1. TypeInv /\ NextBatch(r) \in Nat /\ rng[r] \in Nat /\ micro[r] \in Nat /\ pc[r] = "forward"
    BY NextBatchType DEF Inv, TypeInv, TypeOK, Forward
<1>2. /\ run \in Seq(Nat \X Nat)
      /\ machine[r].state = "INITIAL_RUN" => Len(run) = micro[r]
      /\ machine[r].state # "INITIAL_RUN" => i \in 1 .. Len(run) /\ run[i] = input
    BY <1>1, InputOfRun
<1>3. /\ long = IF machine[r].state = "INITIAL_RUN" THEN Append(run, input) ELSE run
      /\ micro'[r] = i /\ pc'[r] \in {"loop", "forward"} /\ job' # "exit 16"
      /\ machine'[r].state = machine[r].state
      /\ UNCHANGED <<config, device, step, checkpoint>>
    <2>1. /\ initialRun' = IF machine[r].state = "INITIAL_RUN"
                           THEN [initialRun EXCEPT ![r] = Append(@, <<NextBatch(r), rng[r]>>)]
                           ELSE initialRun
          /\ micro' = [micro EXCEPT ![r] = micro[r] + 1]
          /\ pc' = [pc EXCEPT ![r] = IF micro[r] + 1 = Microbatches THEN "loop" ELSE "forward"]
          /\ job' \in {"running", "error"} /\ Keeps(machine[r], machine'[r])
          /\ UNCHANGED <<config, device, step, checkpoint>>
        BY ForwardFacts
    <2>. QED  BY <1>1, <2>1 DEF TypeInv, TypeOK, Keeps
<1>4. Base' = Base
    BY <1>3 DEF Base
<1>5. i \in Nat /\ input \in Nat \X Nat
    BY <1>1
<1>6. micro[r] = i - 1
    BY <1>1
<1>. HIDE DEF run, long, i, input
<1>7. /\ long \in Seq(Nat \X Nat) /\ Len(run) <= Len(long)
      /\ \A j \in 1 .. Len(run) : long[j] = run[j]
      /\ i \in 1 .. Len(long) /\ long[i] = input
      /\ machine[r].state = "INITIAL_RUN" => Len(long) = i
      /\ machine[r].state # "INITIAL_RUN" => long = run
    <2>1. CASE machine[r].state # "INITIAL_RUN"
        <3>1. long = run /\ run \in Seq(Nat \X Nat) /\ i \in 1 .. Len(run) /\ run[i] = input
            BY <1>2, <1>3, <2>1 DEF run
        <3>. QED  BY <2>1, <3>1
    <2>2. CASE machine[r].state = "INITIAL_RUN"
        <3>1. long = Append(run, input) /\ run \in Seq(Nat \X Nat) /\ Len(run) = i - 1
            BY <1>2, <1>3, <1>6, <2>2 DEF run
        <3>2. Len(long) = i /\ long \in Seq(Nat \X Nat)
            BY <1>5, <3>1
        <3>3. \A j \in 1 .. i - 1 : long[j] = run[j]
            BY <1>5, <3>1
        <3>4. long[i] = input
            BY <1>5, <3>1
        <3>. QED  BY <1>5, <2>2, <3>1, <3>2, <3>3, <3>4
    <2>. QED  BY <2>1, <2>2
<1>. QED  BY <1>2, <1>3, <1>4, <1>7 DEF run, long, i, input

\* The suspicion of a rank after one more microbatch.
LEMMA ForwardAttribution ==
    ASSUME Inv, Diagnosed, NEW r \in Ranks, Forward(r), config.mode = "validate_results"
    PROVE  Attribution(r)'
<1>. DEFINE i == micro[r] + 1
            m == machine[r]
            n == machine'[r]
            b == NextBatch(r)
            g == rng[r]
<1>1. PICK res \in Results :
        /\ machine'[r] = CheckLoss(machine[r], micro[r] + 1, res, device[r])
        /\ res.batch = NextBatch(r) /\ res.rng = rng[r]
        /\ Genuine(config, glitches', r, res)
        /\ MadeOn(config, device[r], res.made)
        /\ glitches' \in Nat /\ glitches <= glitches'
    BY ForwardRecords
<1>2. /\ TypeInv /\ config.checks \subseteq {"nan", "spiky"} /\ m \in Machines
      /\ device[r] \in Devices /\ glitches \in Nat /\ Attribution(r)
      /\ config.broken \subseteq Devices /\ pc[r] = "forward" /\ Base \in Nat
    BY BaseType DEF Inv, TypeInv, TypeOK, ConfigType, Diagnosed, Budget, Forward
<1>3. /\ m.state \in {"INITIAL_RUN", "RERUNNING_IN_PLACE", "RERUNNING_FROM_CHECKPOINT"}
      /\ micro[r] \in Nat /\ g \in Nat /\ b = Base + i /\ i \in 1 .. Microbatches
      /\ initialRun[r] \in Seq(Nat \X Nat)
      /\ m.state = "INITIAL_RUN" => Len(initialRun[r]) = micro[r]
      /\ m.state # "INITIAL_RUN" =>
            i \in 1 .. Len(initialRun[r]) /\ initialRun[r][i] = <<b, g>>
    BY <1>2, InputOfRun
<1>. DEFINE run  == initialRun[r]
            long == initialRun'[r]
<1>4. /\ micro'[r] = i /\ pc'[r] \in {"loop", "forward"} /\ job' # "exit 16"
      /\ UNCHANGED <<config, device, step, checkpoint>> /\ Base' = Base
    BY ForwardGrows
<1>6. /\ long \in Seq(Nat \X Nat) /\ Len(run) <= Len(long)
      /\ \A j \in 1 .. Len(run) : long[j] = run[j]
      /\ i \in 1 .. Len(long) /\ long[i] = <<b, g>>
    BY ForwardGrows
<1>. HIDE DEF b, g, i
<1>13. run \in Seq(Nat \X Nat) /\ glitches \in Nat /\ glitches' \in Nat /\ glitches <= glitches'
    BY <1>1, <1>2, <1>3
<1>. HIDE DEF run, long
<1>14. \A x, y : Suspicion(config, glitches, r, run, Base, x)
                   /\ y.failed_validation_call = x.failed_validation_call
                   /\ y.initial_result = x.initial_result =>
                Suspicion(config, glitches', r, long, Base, y)
    BY <1>6, <1>13, SuspicionStays
<1>7. Recorded(m, n, i, res, device[r])
    BY <1>1, <1>2, <1>3, CheckLossRecords DEF i
<1>. DEFINE old == /\ n.failed_validation_call = m.failed_validation_call
                   /\ n.initial_result = m.initial_result
            new == /\ m.state = "INITIAL_RUN" /\ n.initial_result = res
                   /\ \E c \in config.checks :
                         n.failed_validation_call = <<i, c>> /\ Rejects(c, res)
<1>8. n.state = m.state /\ (old \/ new)
    BY <1>7 DEF Recorded
<1>9. Suspicion(config, glitches', r, long, Base, n)
    <2>1. CASE old
        <3>1. Suspicion(config, glitches, r, run, Base, m)
            BY <1>2 DEF Attribution, run
        <3>. QED  BY <1>14, <2>1, <3>1
    <2>2. CASE new
        <3>1. PICK c \in config.checks : n.failed_validation_call = <<i, c>> /\ Rejects(c, res)
            BY <2>2
        <3>2. n.failed_validation_call[1] = i /\ n.failed_validation_call[2] = c
            BY <3>1
        <3>3. Initially(config, glitches', r, long, i, res) /\ res.batch = Base + i
            BY <1>1, <1>3, <1>6 DEF Initially, b, g
        <3>. QED  BY <1>3, <2>2, <3>1, <3>2, <3>3 DEF Suspicion
    <2>. QED  BY <1>8, <2>1, <2>2
<1>10. n.state \in {"INITIAL_RUN", "RERUNNING_IN_PLACE"} /\ Suspects(n, Base) =>
          MadeOn(config, device[r], n.initial_result.made)
    BY <1>1, <1>2, <1>8 DEF Attribution, Suspects
<1>11. ASSUME n.state = "RERUNNING_IN_PLACE", n.failed_validation_call[1] <= i, Suspects(n, Base),
              n.initial_result.made \in config.broken
       PROVE  n.suspicious_device = n.initial_result.made
    <2>1. m.state = "RERUNNING_IN_PLACE" /\ old /\ Suspects(m, Base)
        BY <1>8, <1>11 DEF Suspects
    <2>. DEFINE x == m.initial_result
                k == m.failed_validation_call[1]
    <2>2. /\ k \in 1 .. Microbatches /\ x.batch = Base + k /\ m.failed_validation_call \in CallSet
          /\ m.failed_validation_call[2] \in config.checks
          /\ Initially(config, glitches, r, run, k, x)
        BY <1>2, <2>1 DEF Attribution, Suspicion, Suspects, run
    <2>3. MadeOn(config, device[r], x.made) /\ x.made \in config.broken
        BY <1>2, <1>11, <2>1 DEF Attribution
    <2>4. "well" \notin config.broken /\ "glitch" \notin config.broken
        BY <1>2, RerunAssumption
    <2>5. device[r] \in config.broken /\ x.made = device[r] /\ res.made = device[r]
        BY <1>1, <2>3, <2>4 DEF MadeOn
    <2>6. CASE k = i
        <3>1. Genuine(config, glitches, r, x) /\ <<x.batch, x.rng>> = <<b, g>>
            BY <1>6, <1>3, <2>1, <2>2, <2>6 DEF Initially, run
        <3>2. x.batch = res.batch /\ x.rng = res.rng /\ x.made = res.made
            BY <1>1, <2>5, <3>1 DEF b, g
        <3>3. x = res
            BY <1>1, <3>1, <3>2, SameResult
        <3>4. Match(x, res)
            BY <3>3 DEF Match
        <3>5. m.failed_validation_call = <<i, m.failed_validation_call[2]>>
            BY <2>2, <2>6 DEF CallSet
        <3>6. n.suspicious_device = device[r]
            BY <1>7, <2>1, <2>2, <3>4, <3>5 DEF Recorded
        <3>. QED  BY <2>1, <2>5, <3>6
    <2>7. CASE k # i
        <3>1. k <= micro[r]
            BY <1>3, <1>11, <2>1, <2>2, <2>7 DEF i
        <3>2. m.suspicious_device = x.made
            BY <1>2, <2>1, <2>3, <3>1 DEF Attribution, Accused
        <3>3. \A c \in config.checks : m.failed_validation_call # <<i, c>>
            BY <2>7
        <3>4. n.suspicious_device = m.suspicious_device
            BY <1>7, <2>1, <3>3 DEF Recorded
        <3>. QED  BY <2>1, <3>2, <3>4
    <2>. QED  BY <2>6, <2>7
<1>12. ASSUME n.state = "RERUNNING_FROM_CHECKPOINT"
       PROVE  /\ Accused(config, Base, n)
              /\ Suspicion(config, glitches', r, long, Base, checkpoint.machine[r])
              /\ Accused(config, Base, checkpoint.machine[r])
    <2>1. m.state = "RERUNNING_FROM_CHECKPOINT" /\ old
        BY <1>8, <1>12
    <2>2. n.suspicious_device = m.suspicious_device
        BY <1>7, <2>1 DEF Recorded
    <2>3. /\ Accused(config, Base, m) /\ Accused(config, Base, checkpoint.machine[r])
          /\ Suspicion(config, glitches, r, run, Base, checkpoint.machine[r])
        BY <1>2, <2>1 DEF Attribution, run
    <2>4. Accused(config, Base, n)
        BY <2>1, <2>2, <2>3, AccusedStays
    <2>5. Suspicion(config, glitches', r, long, Base, checkpoint.machine[r])
        BY <1>14, <2>3
    <2>. QED  BY <2>3, <2>4, <2>5
<1>. QED  BY <1>3, <1>4, <1>8, <1>9, <1>10, <1>11, <1>12 DEF Attribution, Accused, long

\* The statistics of a rank after one more microbatch.
LEMMA ForwardStatistics ==
    ASSUME Inv, Diagnosed, NEW r \in Ranks, Forward(r), config.mode = "report_determinism_stats"
    PROVE  Statistics(r)'
<1>. DEFINE i    == micro[r] + 1
            m    == machine[r]
            n    == machine'[r]
            run  == initialRun[r]
            long == initialRun'[r]
<1>1. PICK res \in Results :
        /\ machine'[r] = CheckLoss(machine[r], micro[r] + 1, res, device[r])
        /\ res.batch = NextBatch(r) /\ res.rng = rng[r]
        /\ Genuine(config, glitches', r, res)
        /\ glitches' \in Nat /\ glitches <= glitches'
    BY ForwardRecords
<1>2. /\ config.checks \subseteq {"nan", "spiky"} /\ m \in Machines /\ device[r] \in Devices
      /\ glitches \in Nat /\ Statistics(r) /\ micro[r] \in Nat
    BY DEF Inv, TypeInv, TypeOK, Diagnosed, Budget
<1>20. i \in Nat
    BY <1>2
<1>3. /\ run \in Seq(Nat \X Nat) /\ long \in Seq(Nat \X Nat) /\ Len(run) <= Len(long)
      /\ \A j \in 1 .. Len(run) : long[j] = run[j]
      /\ i \in 1 .. Len(long) /\ long[i] = <<res.batch, res.rng>>
      /\ IF m.state = "INITIAL_RUN" THEN Len(run) = micro[r] /\ Len(long) = i ELSE long = run
      /\ n.state = m.state /\ UNCHANGED config
    BY <1>1, ForwardGrows
<1>4. m.state \in {"INITIAL_RUN", "RERUNNING_IN_PLACE", "RERUNNING_FROM_CHECKPOINT"}
    BY InputOfRun DEF Forward
<1>5. /\ m.state # "INITIAL_RUN" => n = m
      /\ m.state = "INITIAL_RUN" =>
            /\ n.saved_results = m.saved_results \cup Entries(config.checks, i, res)
            /\ ~n.rerun_requested => config.checks = {} /\ ~m.rerun_requested
    <2>1. n = CheckLoss(m, i, res, device[r])
        BY <1>1
    <2>. HIDE DEF n, m, i
    <2>2. m \in Machines /\ i \in Nat /\ device[r] \in Devices /\ res \in Results
        BY <1>1, <1>2, <1>20
    <2>. QED  BY <1>2, <2>1, <2>2, CheckLossCollects
<1>60. run \in Seq(Nat \X Nat) /\ Len(run) \in Nat /\ Len(long) \in Nat
    BY <1>3
<1>61. \A j \in 1 .. Len(run) : j \in 1 .. Len(long) /\ long[j] = run[j]
    BY <1>3, <1>60
<1>6. \A j, x : Initially(config, glitches, r, run, j, x) =>
                Initially(config, glitches', r, long, j, x)
    BY <1>1, <1>2, <1>61, GenuineLater DEF Initially
<1>7. CASE m.state # "INITIAL_RUN"
    <2>1. n = m /\ long = run
        BY <1>3, <1>5, <1>7
    <2>2. Collected(config, glitches', r, long, n.saved_results)
        BY <1>2, <1>6, <2>1 DEF Statistics, Collected
    <2>3. machine[r] = machine'[r] /\ initialRun[r] = initialRun'[r] /\ config' = config
        BY <1>3, <2>1
    <2>4. \A j \in 1 .. Len(initialRun[r]), c \in config.checks :
            \E s \in machine[r].saved_results : s.call = <<j, c>>
        BY <1>2, <1>4 DEF Statistics
    <2>. QED  BY <1>4, <1>7, <2>2, <2>3, <2>4 DEF Statistics
<1>8. CASE m.state = "INITIAL_RUN"
    <2>. DEFINE add == Entries(config.checks, i, res)
    <2>1. \A s \in add : \E c \in config.checks : s.call = <<i, c>> /\ s.result = res /\ s.call[1] = i
        BY DEF Entries
    <2>2. \A s, t \in add : s.call = t.call => s = t
        BY DEF Entries
    <2>3. ASSUME NEW c \in config.checks PROVE \E s \in add : s.call = <<i, c>>
        <3>1. /\ [call |-> <<i, c>>, result |-> res] \in add
              /\ [call |-> <<i, c>>, result |-> res].call = <<i, c>>
            BY DEF Entries
        <3>. HIDE DEF add
        <3>. QED  BY <3>1
    <2>. HIDE DEF add, i
    <2>4. \A s \in m.saved_results : s.call[1] # i
        <3>1. \A s \in m.saved_results : s.call[1] \in 1 .. Len(run)
            BY <1>2 DEF Statistics, Collected, Initially
        <3>2. i \notin 1 .. Len(run)
            BY <1>2, <1>3, <1>8 DEF i
        <3>. QED  BY <3>1, <3>2
    <2>5. n.saved_results = m.saved_results \cup add
        BY <1>5, <1>8 DEF add
    <2>6. Collected(config, glitches', r, long, n.saved_results)
        <3>1. \A s, t \in n.saved_results : s.call = t.call => s = t
            <4>1. \A s, t \in m.saved_results : s.call = t.call => s = t
                BY <1>2 DEF Statistics, Collected
            <4>. QED  BY <2>1, <2>2, <2>4, <2>5, <4>1
        <3>2. Initially(config, glitches', r, long, i, res)
            BY <1>1, <1>3 DEF Initially
        <3>3. \A s \in m.saved_results : Initially(config, glitches', r, long, s.call[1], s.result)
            BY <1>2, <1>6 DEF Statistics, Collected
        <3>. QED  BY <2>1, <2>5, <3>1, <3>2, <3>3 DEF Collected
    <2>7. ~n.rerun_requested => n.saved_results = {}
        <3>1. SUFFICES ASSUME ~n.rerun_requested PROVE n.saved_results = {}
            OBVIOUS
        <3>2. config.checks = {} /\ ~m.rerun_requested
            BY <1>5, <1>8, <3>1
        <3>3. m.saved_results = {} /\ add = {}
            BY <1>2, <1>8, <3>2 DEF Statistics, add, Entries
        <3>. QED  BY <2>5, <3>3
    <2>8. \A j \in 1 .. Len(long), c \in config.checks : \E s \in n.saved_results : s.call = <<j, c>>
        <3>1. \A j \in 1 .. Len(run), c \in config.checks : \E s \in m.saved_results : s.call = <<j, c>>
            BY <1>2, <1>8 DEF Statistics
        <3>2. \A j \in 1 .. Len(long) : j \in 1 .. Len(run) \/ j = i
            BY <1>2, <1>3, <1>8, <1>60, SMTT(30) DEF i
        <3>. QED  BY <2>3, <2>5, <3>1, <3>2
    <2>. QED  BY <1>3, <1>8, <2>6, <2>7, <2>8 DEF Statistics
<1>. QED  BY <1>7, <1>8
-----------------------------------------------------------------------------
(***************************************************************************)
(* What a microbatch concludes.                                            *)
(***************************************************************************)
\* A conclusion about two results of the same input.
LEMMA SameInput ==
    ASSUME NEW cfg, "well" \notin cfg.broken, "glitch" \notin cfg.broken, NEW gl, NEW hl, NEW r,
           NEW x, NEW y, NEW where, Genuine(cfg, gl, r, x), Genuine(cfg, hl, r, y),
           x.batch = y.batch, x.rng = y.rng, ~Match(x, y), MadeOn(cfg, where, y.made)
    PROVE  /\ x.made # "well" \/ y.made # "well"
           /\ MadeOn(cfg, where, x.made) => x.made = "glitch" \/ y.made = "glitch"
<1>1. x.made # y.made
    BY SameResult DEF Match
<1>. QED  BY <1>1 DEF MadeOn

\* What the checks of a microbatch conclude in the mode validate_results.
LEMMA ComparisonCorrect ==
    ASSUME Inv, Diagnosed, NEW r \in Ranks, pc[r] = "forward", config.mode = "validate_results",
           NEW c \in config.checks, NEW hl \in Nat, glitches <= hl, Budget(config, hl),
           NEW res \in Results, res.batch = NextBatch(r), res.rng = rng[r],
           Genuine(config, hl, r, res), MadeOn(config, device[r], res.made),
           res.made = "glitch" => hl = glitches + 1,
           NEW s \in Diagnosis(machine[r], <<micro[r] + 1, c>>, res, device[r]), NEW d,
           d.rank = r, d.step = step, d.status = s, d.result = res,
           d.initial = InitialResult(machine[r], <<micro[r] + 1, c>>)
    PROVE  Correct(config, d)
<1>. DEFINE i == micro[r] + 1
            m == machine[r]
            x == m.initial_result
<1>1. /\ TypeInv /\ config.checks \subseteq {"nan", "spiky"} /\ glitches \in Nat /\ Attribution(r)
      /\ config.broken \subseteq Devices /\ Base \in Nat
    BY BaseType DEF Inv, TypeInv, ConfigType, Diagnosed, Budget
<1>2. /\ micro[r] \in Nat /\ NextBatch(r) = Base + i /\ i \in 1 .. Microbatches
      /\ m.state # "INITIAL_RUN" =>
            i \in 1 .. Len(initialRun[r]) /\ initialRun[r][i] = <<NextBatch(r), rng[r]>>
    BY InputOfRun
<1>. HIDE DEF i
<1>3. Compares(m, <<i, c>>)
    BY DEF Diagnosis, i
<1>4. m.state \in {"RERUNNING_IN_PLACE", "RERUNNING_FROM_CHECKPOINT"}
      /\ m.failed_validation_call = <<i, c>>
    BY <1>3 DEF Compares
<1>5. d.initial = x
    BY DEF InitialResult
<1>6. SUFFICES ASSUME x.batch > Base PROVE Correct(config, d)
    BY <1>5 DEF Correct, Base
<1>7. <<i, c>> \in CallSet
    BY <1>1, <1>2 DEF CallSet
<1>8. Suspects(m, Base)
    BY <1>4, <1>6, <1>7 DEF Suspects
<1>9. /\ x \in Results /\ Initially(config, glitches, r, initialRun[r], i, x) /\ Rejects(c, x)
    <2>1. Suspicion(config, glitches, r, initialRun[r], Base, m)
        BY <1>1 DEF Attribution
    <2>2. /\ m.failed_validation_call \in CallSet
          /\ m.failed_validation_call[1] = i /\ m.failed_validation_call[2] = c
        BY <1>4, <1>7
    <2>. HIDE DEF m
    <2>. QED  BY <1>6, <2>1, <2>2 DEF Suspicion
<1>10. Genuine(config, glitches, r, x) /\ x.batch = res.batch /\ x.rng = res.rng
    BY <1>2, <1>4, <1>9 DEF Initially
<1>11. "well" \notin config.broken /\ "glitch" \notin config.broken
    BY <1>1, RerunAssumption
<1>. HIDE DEF x, m
<1>12. CASE m.state = "RERUNNING_IN_PLACE"
    <2>1. s = IF Match(x, res) THEN "FIRST_RERUN_REPRODUCIBLE" ELSE "FIRST_RERUN_NOT_REPRODUCIBLE"
        BY <1>3, <1>12 DEF Diagnosis, i, m, x
    <2>2. MadeOn(config, device[r], x.made)
        BY <1>1, <1>8, <1>12 DEF Attribution, m, x
    <2>3. ~Match(x, res) => x.made = "glitch" \/ res.made = "glitch"
        BY <1>10, <1>11, <2>2, SameInput
    <2>. QED  BY <1>5, <2>1, <2>3 DEF Correct
<1>13. CASE m.state = "RERUNNING_FROM_CHECKPOINT"
    <2>1. /\ device[r] # m.suspicious_device
          /\ s = IF Match(x, res) THEN "SECOND_RERUN_REPRODUCIBLE" ELSE "SECOND_RERUN_NOT_REPRODUCIBLE"
        BY <1>3, <1>13 DEF Diagnosis, i, m, x
    <2>2. ~Match(x, res) => x.made # "well" \/ res.made # "well"
        BY <1>10, <1>11, SameInput
    <2>3. ASSUME Match(x, res), MaxFaults <= 1
          PROVE  <<r, x.batch>> \in config.odd
        <3>1. x.made \in config.broken => m.suspicious_device = x.made
            BY <1>1, <1>8, <1>13 DEF Attribution, Accused, m, x
        <3>. QED  BY <1>1, <1>9, <1>10, <2>1, <2>3, <3>1, ReproducedElsewhere
    <2>. QED  BY <1>5, <2>1, <2>2, <2>3 DEF Correct
<1>. QED  BY <1>4, <1>12, <1>13 DEF m

\* What they conclude in the mode report_determinism_stats.
LEMMA StatisticsCorrect ==
    ASSUME Inv, Diagnosed, NEW r \in Ranks, pc[r] = "forward",
           config.mode = "report_determinism_stats",
           NEW c \in config.checks, NEW hl \in Nat,
           NEW res \in Results, res.batch = NextBatch(r), res.rng = rng[r],
           Genuine(config, hl, r, res), MadeOn(config, device[r], res.made),
           NEW s \in Diagnosis(machine[r], <<micro[r] + 1, c>>, res, device[r]), NEW d,
           d.rank = r, d.step = step, d.status = s, d.result = res,
           d.initial = InitialResult(machine[r], <<micro[r] + 1, c>>)
    PROVE  Correct(config, d)
<1>. DEFINE i == micro[r] + 1
            m == machine[r]
<1>1. Statistics(r) /\ config.broken \subseteq Devices
    BY DEF Inv, TypeInv, ConfigType, Diagnosed
<1>2. m.state = "RERUNNING_IN_PLACE" /\ s = "STATS"
    BY DEF Diagnosis
<1>3. /\ i \in 1 .. Len(initialRun[r]) /\ initialRun[r][i] = <<res.batch, res.rng>>
    BY <1>2, InputOfRun
<1>. HIDE DEF i
<1>4. \E t \in m.saved_results : t.call = <<i, c>>
    BY <1>1, <1>2, <1>3 DEF Statistics
<1>. DEFINE t == CHOOSE u \in m.saved_results : u.call = <<i, c>>
<1>5. t \in m.saved_results /\ t.call = <<i, c>>
    BY <1>4
<1>6. d.initial = t.result
    BY DEF InitialResult, i
<1>. HIDE DEF t
<1>7. Initially(config, glitches, r, initialRun[r], i, t.result)
    <2>1. t.call[1] = i
        BY <1>5
    <2>. QED  BY <1>1, <1>5, <2>1 DEF Statistics, Collected
<1>8. Genuine(config, glitches, r, t.result) /\ t.result.batch = res.batch /\ t.result.rng = res.rng
    BY <1>3, <1>7 DEF Initially
<1>9. "well" \notin config.broken /\ "glitch" \notin config.broken
    BY <1>1, RerunAssumption
<1>10. Match(t.result, res) \/ t.result.made # "well" \/ res.made # "well"
    BY <1>8, <1>9, SameInput
<1>. QED  BY <1>2, <1>6, <1>10 DEF Correct

\* Forward adds true conclusions only, and keeps the invariant.
LEMMA ForwardDiagnosed ==
    ASSUME Inv, Diagnosed, NEW r \in Ranks, Forward(r)
    PROVE  /\ Diagnosed'
           /\ \A d \in diagnoses' \ diagnoses : Correct(config, d)
<1>1. CASE config.mode = "disabled"
    <2>1. \E made \in Ways(r) :
            /\ glitches' = IF made = "glitch" THEN glitches + 1 ELSE glitches
            /\ \E res : diagnoses' = diagnoses \cup Diagnoses(r, micro[r] + 1, res)
        BY DEF Forward
    <2>2. glitches' \in Nat /\ Budget(config, glitches')
        BY <2>1, WaysFacts DEF Inv, Diagnosed
    <2>3. \A m, call, res, where : Diagnosis(m, call, res, where) = {}
        BY <1>1 DEF Diagnosis
    <2>4. diagnoses' = diagnoses
        BY <2>1, <2>3 DEF Diagnoses
    <2>5. config' = config
        BY DEF Forward
    <2>. QED  BY <1>1, <2>2, <2>4, <2>5 DEF Diagnosed
<1>2. CASE config.mode # "disabled"
    <2>1. PICK res \in Results :
            /\ machine'[r] = CheckLoss(machine[r], micro[r] + 1, res, device[r])
            /\ diagnoses' = diagnoses \cup Diagnoses(r, micro[r] + 1, res)
            /\ res.batch = NextBatch(r) /\ res.rng = rng[r]
            /\ Genuine(config, glitches', r, res)
            /\ MadeOn(config, device[r], res.made)
            /\ res.made = "glitch" => glitches' = glitches + 1
            /\ glitches' \in Nat /\ glitches <= glitches' /\ Budget(config, glitches')
        BY <1>2, ForwardRecords
    <2>2. pc[r] = "forward" /\ glitches \in Nat /\ TypeInv /\ config.mode \in AllModes
        BY DEF Forward, Diagnosed, Budget, Inv, TypeInv, ConfigType
    <2>3. ASSUME NEW d \in diagnoses', d \notin diagnoses PROVE Correct(config, d)
        <3>1. PICK c \in config.checks :
                \E s \in Diagnosis(machine[r], <<micro[r] + 1, c>>, res, device[r]) :
                    d = [rank |-> r, step |-> step, status |-> s,
                         initial |-> InitialResult(machine[r], <<micro[r] + 1, c>>), result |-> res]
            BY <2>1, <2>3 DEF Diagnoses
        <3>2. PICK s \in Diagnosis(machine[r], <<micro[r] + 1, c>>, res, device[r]) :
                /\ d.rank = r /\ d.step = step /\ d.status = s /\ d.result = res
                /\ d.initial = InitialResult(machine[r], <<micro[r] + 1, c>>)
            BY <3>1
        <3>3. CASE config.mode = "validate_results"
            BY <2>1, <2>2, <3>2, <3>3, ComparisonCorrect
        <3>4. CASE config.mode = "report_determinism_stats"
            BY <2>1, <2>2, <3>2, <3>4, StatisticsCorrect
        <3>. QED  BY <1>2, <2>2, <3>3, <3>4 DEF AllModes
    <2>4. /\ UNCHANGED <<config, device, step, checkpoint>> /\ job' # "exit 16"
          /\ \A q \in Ranks \ {r} : Unmoved(q)
        <3>1. /\ machine' = [machine EXCEPT ![r] = machine'[r]]
              /\ iterator' = [iterator EXCEPT ![r] = iterator'[r]]
              /\ source' = [source EXCEPT ![r] = source'[r]]
            BY <2>2, ForwardFacts, DrawFacts
        <3>2. /\ rng' = [rng EXCEPT ![r] = @ + 1]
              /\ pc' = [pc EXCEPT ![r] = IF micro[r] + 1 = Microbatches THEN "loop" ELSE "forward"]
              /\ micro' = [micro EXCEPT ![r] = micro[r] + 1]
              /\ thisRun' = [thisRun EXCEPT ![r] = Append(@, <<NextBatch(r), rng[r]>>)]
              /\ initialRun' = IF machine[r].state = "INITIAL_RUN"
                               THEN [initialRun EXCEPT ![r] = Append(@, <<NextBatch(r), rng[r]>>)]
                               ELSE initialRun
            BY ForwardFacts
        <3>3. \A q \in Ranks \ {r} : Unmoved(q)
            BY <2>2, <3>1, <3>2 DEF Unmoved, TypeInv, TypeOK
        <3>. QED  BY <1>2, <3>3, ForwardGrows
    <2>5. config.mode = "validate_results" => Attribution(r)'
        BY ForwardAttribution
    <2>6. config.mode = "report_determinism_stats" => Statistics(r)'
        BY ForwardStatistics
    <2>7. ASSUME NEW q \in Ranks
          PROVE  /\ config.mode = "validate_results" => Attribution(q)'
                 /\ config.mode = "report_determinism_stats" => Statistics(q)'
        <3>1. CASE q = r
            BY <2>5, <2>6, <3>1
        <3>2. CASE q # r
            BY <2>1, <2>2, <2>4, <3>2, DiagnosedElsewhere DEF Diagnosed
        <3>. QED  BY <3>1, <3>2
    <2>8. Diagnosed'
        BY <2>1, <2>4, <2>7 DEF Diagnosed
    <2>. QED  BY <2>3, <2>8
<1>. QED  BY <1>1, <1>2

\* The machine claims what it claimed.
SameClaims(m, n) ==
    /\ n.failed_validation_call = m.failed_validation_call
    /\ n.initial_result = m.initial_result
    /\ n.suspicious_device = m.suspicious_device
    /\ n.saved_results = m.saved_results

\* A suspicion depends on what the machine rejected only.
LEMMA SameSuspicion ==
    ASSUME NEW cfg, NEW gl, NEW r, NEW run, NEW b, NEW m, NEW n, SameClaims(m, n)
    PROVE  /\ Suspicion(cfg, gl, r, run, b, n) <=> Suspicion(cfg, gl, r, run, b, m)
           /\ Accused(cfg, b, n) <=> Accused(cfg, b, m)
           /\ Suspects(n, b) <=> Suspects(m, b)
BY DEF SameClaims, Suspicion, Accused, Suspects

\* What does not change does not shrink.
LEMMA NotLess == ASSUME NEW k \in Nat, NEW n, n = k PROVE n \in Nat /\ k <= n
OBVIOUS

\* A step of one rank that computes nothing.
LEMMA OneRankDiagnosed ==
    ASSUME Inv, Diagnosed, NEW r \in Ranks, \A q \in Ranks \ {r} : Unmoved(q),
           UNCHANGED <<config, step, checkpoint, device, glitches>>, job' # "exit 16",
           config.mode = "validate_results" => Attribution(r)',
           config.mode = "report_determinism_stats" => Statistics(r)'
    PROVE  Diagnosed'
<1>1. TypeInv /\ glitches \in Nat
    BY DEF Inv, Diagnosed, Budget
<1>0. glitches' = glitches
    OBVIOUS
<1>2. glitches' \in Nat /\ glitches <= glitches'
    BY <1>0, <1>1, NotLess
<1>3. ASSUME NEW q \in Ranks
      PROVE  /\ config.mode = "validate_results" => Attribution(q)'
             /\ config.mode = "report_determinism_stats" => Statistics(q)'
    <2>1. CASE q = r
        BY <2>1
    <2>2. CASE q # r
        BY <1>1, <1>2, <2>2, DiagnosedElsewhere DEF Diagnosed
    <2>. QED  BY <2>1, <2>2
<1>. QED  BY <1>3 DEF Diagnosed

\* The initial run of an iteration begins without a suspicion.
LEMMA BeginInitialRunDiagnosed ==
    ASSUME Inv, Diagnosed, NEW r \in Ranks, BeginInitialRun(r)
    PROVE  Diagnosed'
<1>. DEFINE m == machine[r]
            n == machine'[r]
<1>1. /\ pc[r] = "loop" /\ job = "running" /\ m.state = "NOT_RUNNING_YET"
      /\ UNCHANGED <<config, step, checkpoint, device, glitches, job>>
      /\ pc' = [pc EXCEPT ![r] = "forward"] /\ micro' = [micro EXCEPT ![r] = 0]
      /\ initialRun' = [initialRun EXCEPT ![r] = <<>>]
    BY DEF BeginInitialRun, Running, EnterPass, faults
<1>2. TypeInv /\ TypeOK /\ m \in Machines /\ Base' = Base
    BY <1>1 DEF Inv, TypeInv, TypeOK, Base
<1>3. \A q \in Ranks \ {r} : Unmoved(q)
    BY <1>2 DEF BeginInitialRun, EnterPass, TypeInv, TypeOK, Unmoved
<1>4. pc'[r] = "forward" /\ initialRun'[r] = <<>>
    BY <1>1, <1>2 DEF TypeInv, TypeOK
<1>5. n.state = "INITIAL_RUN" /\ SameClaims(m, n)
    <2>1. CASE config.mode = "disabled"
        <3>1. n = [m EXCEPT !.state = "INITIAL_RUN"]
            BY <1>2, <2>1 DEF BeginInitialRun, TypeOK
        <3>. QED  BY <1>2, <3>1 DEF Machines, SameClaims
    <2>2. CASE config.mode # "disabled"
        <3>1. n = [m EXCEPT !.state = "INITIAL_RUN", !.saved_state = rng[r],
                            !.rerun_requested = FALSE, !.checkpoint_requested = FALSE,
                            !.restart_again_requested = FALSE, !.continue_requested = FALSE]
            BY <1>2, <2>2 DEF BeginInitialRun, TypeOK
        <3>. QED  BY <1>2, <3>1 DEF Machines, SameClaims
    <2>. QED  BY <2>1, <2>2
<1>6. ASSUME config.mode = "validate_results" PROVE Attribution(r)'
    <2>1. /\ Suspicion(config, glitches, r, initialRun[r], Base, m) /\ ~Suspects(m, Base)
        BY <1>1, <1>6 DEF Diagnosed, Attribution
    <2>2. Suspicion(config, glitches, r, <<>>, Base, m)
        BY <2>1 DEF Suspicion, Suspects
    <2>3. Suspicion(config, glitches, r, <<>>, Base, n) /\ ~Suspects(n, Base)
        BY <1>5, <2>1, <2>2, SameSuspicion
    <2>. QED  BY <1>1, <1>2, <1>4, <1>5, <2>3 DEF Attribution
<1>7. ASSUME config.mode = "report_determinism_stats" PROVE Statistics(r)'
    <2>1. m.saved_results = {}
        BY <1>1, <1>7 DEF Diagnosed, Statistics
    <2>2. n.saved_results = {}
        BY <1>5, <2>1 DEF SameClaims
    <2>. QED  BY <1>4, <1>5, <2>2 DEF Statistics, Collected
<1>. QED  BY <1>1, <1>3, <1>6, <1>7, OneRankDiagnosed

\* The rerun of the next job begins with what the checkpoint says.
LEMMA BeginRerunDiagnosed ==
    ASSUME Inv, Diagnosed, NEW r \in Ranks, BeginRerunFromCheckpoint(r)
    PROVE  Diagnosed'
<1>. DEFINE m == machine[r]
            n == machine'[r]
<1>1. /\ pc[r] = "loop" /\ job = "running" /\ m.state = "WILL_RERUN_FROM_CHECKPOINT"
      /\ machine' = [machine EXCEPT ![r].state = "RERUNNING_FROM_CHECKPOINT"]
      /\ UNCHANGED <<config, step, checkpoint, device, glitches, job, initialRun>>
    BY DEF BeginRerunFromCheckpoint, Running, faults
<1>2. TypeInv /\ TypeOK /\ m \in Machines /\ Base' = Base
    BY <1>1 DEF Inv, TypeInv, TypeOK, Base
<1>3. \A q \in Ranks \ {r} : Unmoved(q)
    BY <1>2 DEF BeginRerunFromCheckpoint, EnterPass, TypeInv, TypeOK, Unmoved
<1>4. n.state = "RERUNNING_FROM_CHECKPOINT" /\ SameClaims(m, n)
    <2>1. n = [m EXCEPT !.state = "RERUNNING_FROM_CHECKPOINT"]
        BY <1>1, <1>2 DEF TypeOK
    <2>. QED  BY <1>2, <2>1 DEF Machines, SameClaims
<1>5. config.mode = "validate_results"
    BY <1>1 DEF Inv, Phase, WithReruns, WithoutReruns, WillRerun
<1>6. Attribution(r)'
    <2>1. /\ Suspicion(config, glitches, r, initialRun[r], Base, m) /\ Accused(config, Base, m)
          /\ Suspicion(config, glitches, r, initialRun[r], Base, checkpoint.machine[r])
          /\ Accused(config, Base, checkpoint.machine[r])
        BY <1>1, <1>5 DEF Diagnosed, Attribution
    <2>2. Suspicion(config, glitches, r, initialRun[r], Base, n) /\ Accused(config, Base, n)
        BY <1>4, <2>1, SameSuspicion
    <2>. QED  BY <1>1, <1>2, <1>4, <2>1, <2>2 DEF Attribution
<1>. QED  BY <1>1, <1>3, <1>5, <1>6, OneRankDiagnosed

\* Leaving the loop forgets nothing.
LEMMA DecideDiagnosed ==
    ASSUME Inv, Diagnosed, NEW r \in Ranks, Decide(r)
    PROVE  Diagnosed'
<1>. DEFINE m == machine[r]
            n == machine'[r]
<1>1. /\ pc[r] = "left" /\ job = "running"
      /\ machine' = [machine EXCEPT ![r].first_iteration_complete = TRUE]
      /\ pc' = [pc EXCEPT ![r] = IF Verdict(machine[r].state).code = 0 THEN "step" ELSE "exit"]
      /\ UNCHANGED <<config, step, checkpoint, device, glitches, job, initialRun>>
    BY DEF Decide, Running, faults, history
<1>2. TypeInv /\ TypeOK /\ m \in Machines /\ Base' = Base
    BY <1>1 DEF Inv, TypeInv, TypeOK, Base
<1>3. \A q \in Ranks \ {r} : Unmoved(q)
    BY <1>2 DEF Decide, history, TypeInv, TypeOK, Unmoved
<1>4. n.state = m.state /\ n.rerun_requested = m.rerun_requested /\ SameClaims(m, n)
    <2>1. n = [m EXCEPT !.first_iteration_complete = TRUE]
        BY <1>1, <1>2 DEF TypeOK
    <2>. QED  BY <1>2, <2>1 DEF Machines, SameClaims
<1>5. pc'[r] \in {"step", "exit"}
    BY <1>1, <1>2 DEF TypeOK
<1>6. ASSUME config.mode = "validate_results" PROVE Attribution(r)'
    <2>1. Attribution(r)
        BY <1>6 DEF Diagnosed
    <2>2. /\ Suspicion(config, glitches, r, initialRun[r], Base, n) 
          /\ Suspects(n, Base) <=> Suspects(m, Base)
          /\ Accused(config, Base, n) <=> Accused(config, Base, m)
          /\ n.initial_result = m.initial_result
        BY <1>4, <2>1, SameSuspicion DEF Attribution, SameClaims
    <2>. QED  BY <1>1, <1>2, <1>4, <1>5, <2>1, <2>2 DEF Attribution
<1>7. ASSUME config.mode = "report_determinism_stats" PROVE Statistics(r)'
    <2>1. Statistics(r) /\ n.saved_results = m.saved_results
        BY <1>4, <1>7 DEF Diagnosed, SameClaims
    <2>2. UNCHANGED <<config, glitches, initialRun>>
        BY <1>1
    <2>3. Collected(config, glitches, r, initialRun[r], n.saved_results)
        BY <2>1 DEF Statistics
    <2>. QED  BY <1>4, <2>1, <2>2, <2>3 DEF Statistics
<1>. QED  BY <1>1, <1>3, <1>6, <1>7, OneRankDiagnosed
-----------------------------------------------------------------------------
(***************************************************************************)
(* Steps that all ranks take together.                                     *)
(***************************************************************************)
\* All ranks leave the loop in a state that claims no more than they did.
LEMMA LeaveLoopDiagnosed ==
    ASSUME Inv, Diagnosed, NEW state \in States, LeaveLoop(state), job' # "exit 16",
           UNCHANGED <<config, step, checkpoint, device, glitches, initialRun>>,
           state # "INITIAL_RUN",
           NEW old, old \in {"INITIAL_RUN", "RERUNNING_IN_PLACE", "RERUNNING_FROM_CHECKPOINT"},
           \A r \in Ranks : machine[r].state = old,
           state = "RERUNNING_IN_PLACE" => old = state,
           state \in {"RERUNNING_FROM_CHECKPOINT", "RERUNNING_AGAIN_FROM_CHECKPOINT"} =>
              old = "RERUNNING_FROM_CHECKPOINT",
           config.mode = "validate_results" /\ state = "WILL_RERUN_FROM_CHECKPOINT" =>
              \A r \in Ranks : Accused(config, Base, machine[r]),
           config.mode = "report_determinism_stats" =>
              \A r \in Ranks : machine[r].saved_results = {}
    PROVE  Diagnosed'
<1>1. TypeInv /\ Base' = Base
    BY DEF Inv, Base
<1>2. ASSUME NEW r \in Ranks
      PROVE  /\ machine'[r].state = state /\ pc'[r] = "left"
             /\ SameClaims(machine[r], machine'[r])
    <2>1. machine[r] \in Machines /\ machine'[r] = [machine[r] EXCEPT !.state = state]
        BY <1>1 DEF TypeInv, TypeOK, LeaveLoop
    <2>. QED  BY <1>1, <2>1, LeaveLoopFacts DEF Machines, SameClaims
<1>3. ASSUME config.mode = "validate_results", NEW r \in Ranks PROVE Attribution(r)'
    <2>1. Attribution(r) /\ machine[r].state = old
        BY <1>3 DEF Diagnosed
    <2>2. /\ Suspicion(config, glitches, r, initialRun[r], Base, machine'[r])
          /\ Suspects(machine'[r], Base) <=> Suspects(machine[r], Base)
          /\ Accused(config, Base, machine'[r]) <=> Accused(config, Base, machine[r])
          /\ machine'[r].initial_result = machine[r].initial_result
        BY <1>2, <2>1, SameSuspicion DEF Attribution, SameClaims
    <2>3. state = "RERUNNING_IN_PLACE" /\ Suspects(machine[r], Base) =>
             MadeOn(config, device[r], machine[r].initial_result.made)
        BY <2>1 DEF Attribution
    <2>4. state \in {"WILL_RERUN_FROM_CHECKPOINT", "RERUNNING_FROM_CHECKPOINT",
                     "RERUNNING_AGAIN_FROM_CHECKPOINT"} => Accused(config, Base, machine[r])
        BY <1>3, <2>1 DEF Attribution
    <2>5. state \in {"RERUNNING_FROM_CHECKPOINT", "RERUNNING_AGAIN_FROM_CHECKPOINT"} =>
             /\ Suspicion(config, glitches, r, initialRun[r], Base, checkpoint.machine[r])
             /\ Accused(config, Base, checkpoint.machine[r])
        BY <2>1 DEF Attribution
    <2>. QED  BY <1>1, <1>2, <2>2, <2>3, <2>4, <2>5 DEF Attribution
<1>4. ASSUME config.mode = "report_determinism_stats", NEW r \in Ranks PROVE Statistics(r)'
    <2>1. Statistics(r) /\ machine[r].state = old /\ machine'[r].saved_results = {}
        BY <1>2, <1>4 DEF Diagnosed, SameClaims
    <2>2. \A i \in 1 .. Len(initialRun[r]), c \in config.checks :
             \E s \in machine'[r].saved_results : s.call = <<i, c>>
        BY <1>4, <2>1 DEF Statistics
    <2>. QED  BY <1>2, <2>1, <2>2 DEF Statistics, Collected
<1>. QED  BY <1>3, <1>4 DEF Diagnosed

LEMMA AcceptInitialRunDiagnosed ==
    ASSUME Inv, Diagnosed, AcceptInitialRun
    PROVE  Diagnosed'
<1>1. /\ job = "running" /\ LeaveLoop("NOT_RUNNING_YET")
      /\ \A r \in Ranks : machine[r].state = "INITIAL_RUN" /\ ~machine[r].rerun_requested
      /\ UNCHANGED <<config, step, job, checkpoint, device, glitches, initialRun>>
    BY DEF AcceptInitialRun, AllAt, Running, Any, history, faults
<1>2. "NOT_RUNNING_YET" \in States
    BY DEF States
<1>3. config.mode = "report_determinism_stats" => \A r \in Ranks : machine[r].saved_results = {}
    BY <1>1 DEF Diagnosed, Statistics
<1>. QED  BY <1>1, <1>2, <1>3, LeaveLoopDiagnosed

\* The rerun in place has compared nothing yet.
LEMMA RerunInPlaceDiagnosed ==
    ASSUME Inv, Diagnosed, RerunInPlace
    PROVE  Diagnosed'
<1>1. /\ job = "running"
      /\ \A r \in Ranks : machine[r].state = "INITIAL_RUN"
      /\ machine' = [r \in Ranks |-> [machine[r] EXCEPT !.state = "RERUNNING_IN_PLACE"]]
      /\ pc' = [r \in Ranks |-> "forward"] /\ micro' = [r \in Ranks |-> 0]
      /\ UNCHANGED <<config, step, job, checkpoint, device, glitches, initialRun>>
    BY DEF RerunInPlace, AllAt, Running, RestoreAndRewind, faults
<1>2. TypeInv /\ Base' = Base
    BY <1>1 DEF Inv, Base
<1>3. ASSUME NEW r \in Ranks
      PROVE  /\ machine'[r].state = "RERUNNING_IN_PLACE" /\ pc'[r] = "forward" /\ micro'[r] = 0
             /\ SameClaims(machine[r], machine'[r])
    <2>1. machine[r] \in Machines /\ machine'[r] = [machine[r] EXCEPT !.state = "RERUNNING_IN_PLACE"]
        BY <1>1, <1>2 DEF TypeInv, TypeOK
    <2>. QED  BY <1>1, <2>1 DEF Machines, SameClaims
<1>4. ASSUME config.mode = "validate_results", NEW r \in Ranks PROVE Attribution(r)'
    <2>. DEFINE n == machine'[r]
    <2>1. Attribution(r) /\ machine[r].state = "INITIAL_RUN"
        BY <1>1, <1>4 DEF Diagnosed
    <2>2. /\ Suspicion(config, glitches, r, initialRun[r], Base, n)
          /\ Suspects(n, Base) <=> Suspects(machine[r], Base)
          /\ n.initial_result = machine[r].initial_result
        BY <1>3, <2>1, SameSuspicion DEF Attribution, SameClaims
    <2>3. Suspects(n, Base) => MadeOn(config, device[r], n.initial_result.made)
        BY <2>1, <2>2 DEF Attribution
    <2>4. ASSUME Suspects(n, Base) PROVE ~(n.failed_validation_call[1] <= 0)
        <3>1. n.failed_validation_call[1] \in 1 .. Microbatches
            BY <2>2, <2>4 DEF Suspicion, Suspects
        <3>. HIDE DEF n
        <3>. QED  BY <3>1, RerunAssumption
    <2>5. n.failed_validation_call[1] <= 0 => Accused(config, Base, n)
        BY <2>4 DEF Accused
    <2>. QED  BY <1>1, <1>2, <1>3, <2>2, <2>3, <2>5 DEF Attribution
<1>5. ASSUME config.mode = "report_determinism_stats", NEW r \in Ranks PROVE Statistics(r)'
    <2>1. Statistics(r) /\ machine[r].state = "INITIAL_RUN"
          /\ machine'[r].saved_results = machine[r].saved_results
        BY <1>1, <1>3, <1>5 DEF Diagnosed, SameClaims
    <2>2. \A i \in 1 .. Len(initialRun[r]), c \in config.checks :
             \E s \in machine'[r].saved_results : s.call = <<i, c>>
        BY <2>1 DEF Statistics
    <2>3. Collected(config, glitches, r, initialRun[r], machine'[r].saved_results)
        BY <2>1 DEF Statistics
    <2>. QED  BY <1>1, <1>3, <2>2, <2>3 DEF Statistics
<1>. QED  BY <1>1, <1>4, <1>5 DEF Diagnosed

LEMMA ReportStatsDiagnosed ==
    ASSUME Inv, Diagnosed, ReportStats
    PROVE  Diagnosed'
<1>1. /\ job = "running" /\ config.mode = "report_determinism_stats"
      /\ machine' = [r \in Ranks |-> [machine[r] EXCEPT !.state = "NOT_RUNNING_YET",
                                                        !.saved_results = {}]]
      /\ UNCHANGED <<config, glitches>>
    BY DEF ReportStats, AllAt, Running, history, faults
<1>2. ASSUME NEW r \in Ranks
      PROVE  machine'[r].state = "NOT_RUNNING_YET" /\ machine'[r].saved_results = {}
    <2>1. machine'[r] = [machine[r] EXCEPT !.state = "NOT_RUNNING_YET", !.saved_results = {}]
        BY <1>1
    <2>2. machine[r] \in Machines
        BY DEF Inv, TypeInv, TypeOK
    <2>. QED  BY <2>1, <2>2 DEF Machines
<1>. QED  BY <1>1, <1>2 DEF Diagnosed, Statistics, Collected

LEMMA ContinueInPlaceDiagnosed ==
    ASSUME Inv, Diagnosed, ContinueInPlace
    PROVE  Diagnosed'
<1>1. /\ job = "running" /\ config.mode = "validate_results" /\ LeaveLoop("NOT_RUNNING_YET")
      /\ \A r \in Ranks : machine[r].state = "RERUNNING_IN_PLACE"
      /\ UNCHANGED <<config, step, job, checkpoint, device, glitches, initialRun>>
    BY DEF ContinueInPlace, AllAt, Running, history, faults
<1>2. "NOT_RUNNING_YET" \in States
    BY DEF States
<1>. QED  BY <1>1, <1>2, LeaveLoopDiagnosed

\* Every device that computed a suspicious result wrongly has been recorded.
LEMMA StopInPlaceDiagnosed ==
    ASSUME Inv, Diagnosed, StopInPlace
    PROVE  Diagnosed'
<1>. DEFINE state == IF Any("checkpoint_requested") THEN "WILL_RERUN_FROM_CHECKPOINT"
                                                    ELSE "RERUNNING_IN_PLACE"
<1>1. /\ job = "running" /\ config.mode = "validate_results" /\ LeaveLoop(state)
      /\ \A r \in Ranks : pc[r] = "loop" /\ machine[r].state = "RERUNNING_IN_PLACE"
      /\ UNCHANGED <<config, step, job, checkpoint, device, glitches, initialRun>>
    BY DEF StopInPlace, AllAt, Running, RestoreAndRewind, history, faults
<1>2. state \in {"WILL_RERUN_FROM_CHECKPOINT", "RERUNNING_IN_PLACE"} /\ state \in States
    BY DEF States
<1>. HIDE DEF state
<1>3. ASSUME NEW r \in Ranks PROVE Accused(config, Base, machine[r])
    <2>1. micro[r] = Microbatches
        BY <1>1 DEF Inv, Phase, WithReruns, InPlace, InPass
    <2>2. Attribution(r)
        BY <1>1 DEF Diagnosed
    <2>3. Suspects(machine[r], Base) =>
             machine[r].failed_validation_call[1] \in 1 .. Microbatches
        BY <2>2 DEF Attribution, Suspicion, Suspects
    <2>4. Suspects(machine[r], Base) => machine[r].failed_validation_call[1] <= micro[r]
        BY <2>1, <2>3, RerunAssumption
    <2>. QED  BY <1>1, <2>2, <2>4 DEF Attribution, Accused
<1>. QED  BY <1>1, <1>2, <1>3, LeaveLoopDiagnosed

LEMMA EndRerunDiagnosed ==
    ASSUME Inv, Diagnosed, EndRerunFromCheckpoint
    PROVE  Diagnosed'
<1>. DEFINE state == CASE Any("restart_again_requested") -> "RERUNNING_AGAIN_FROM_CHECKPOINT"
                       [] ~Any("restart_again_requested") /\ Any("continue_requested") ->
                            "NOT_RUNNING_YET"
                       [] OTHER -> "RERUNNING_FROM_CHECKPOINT"
<1>1. /\ job = "running" /\ config.mode # "disabled" /\ LeaveLoop(state)
      /\ \A r \in Ranks : pc[r] = "loop" /\ machine[r].state = "RERUNNING_FROM_CHECKPOINT"
      /\ UNCHANGED <<config, step, job, checkpoint, device, glitches, initialRun>>
    BY DEF EndRerunFromCheckpoint, AllAt, Running, history, faults
<1>2. state \in {"RERUNNING_AGAIN_FROM_CHECKPOINT", "NOT_RUNNING_YET", "RERUNNING_FROM_CHECKPOINT"}
    OBVIOUS
<1>. HIDE DEF state
<1>3. state \in States
    BY <1>2 DEF States
<1>4. config.mode = "validate_results"
    <2>1. PICK r \in Ranks : TRUE
        BY RerunAssumption
    <2>. QED  BY <1>1, <2>1 DEF Inv, Phase, WithReruns, FromCheckpoint
<1>. QED  BY <1>1, <1>2, <1>3, <1>4, LeaveLoopDiagnosed

\* A suspicion of this iteration is none of the next.
LEMMA NoneInNextIteration ==
    ASSUME NEW cfg, NEW gl, NEW r, NEW run, NEW b \in Nat, NEW m,
           Suspicion(cfg, gl, r, run, b, m)
    PROVE  /\ ~Suspects(m, b + Microbatches)
           /\ Suspicion(cfg, gl, r, run, b + Microbatches, m)
<1>. DEFINE call == m.failed_validation_call
            x    == m.initial_result
<1>1. Microbatches \in Nat
    BY RerunAssumption
<1>2. ASSUME call \in CallSet PROVE x \in Results /\ ~(x.batch > b + Microbatches)
    <2>1. x \in Results /\ (x.batch > b => call[1] \in 1 .. Microbatches /\ x.batch = b + call[1])
        BY <1>2 DEF Suspicion
    <2>2. x.batch \in Nat
        BY <2>1 DEF Results
    <2>. HIDE DEF call, x
    <2>. QED  BY <1>1, <2>1, <2>2
<1>. QED  BY <1>2 DEF Suspicion, Suspects

\* The next iteration begins without a suspicion.
LEMMA OptimizerStepDiagnosed ==
    ASSUME Inv, Diagnosed, OptimizerStep
    PROVE  Diagnosed'
<1>1. /\ job = "running" /\ \A r \in Ranks : pc[r] = "step"
      /\ step' = step + 1 /\ job' \in {job, "finished"}
      /\ UNCHANGED <<config, machine, micro, device, checkpoint, glitches, initialRun>>
    BY DEF OptimizerStep, Running, history, faults
<1>2. TypeInv /\ TypeOK /\ Base \in Nat
    BY BaseType DEF Inv, TypeInv
<1>3. Base' = Base + Microbatches
    <2>1. step \in Nat /\ Microbatches \in Nat
        BY <1>2, RerunAssumption DEF TypeOK
    <2>2. Base' = (step + 1) * Microbatches
        BY <1>1 DEF Base
    <2>. QED  BY <2>1, <2>2, NextBase DEF Base
<1>4. ASSUME config.mode # "disabled", NEW r \in Ranks
      PROVE  machine[r].state = "NOT_RUNNING_YET"
    <2>2. pc[r] = "step" /\ WithReruns(r) /\ machine[r].state \in States
        BY <1>1, <1>2, <1>4 DEF Inv, Phase, TypeOK, Machines
    <2>. QED  BY <2>2 DEF WithReruns, InitialRun, InPlace, WillRerun, FromCheckpoint, Again, States
<1>5. ASSUME config.mode = "validate_results", NEW r \in Ranks PROVE Attribution(r)'
    <2>1. Suspicion(config, glitches, r, initialRun[r], Base, machine[r])
        BY <1>5 DEF Diagnosed, Attribution
    <2>2. /\ ~Suspects(machine[r], Base')
          /\ Suspicion(config, glitches, r, initialRun[r], Base', machine[r])
        BY <1>2, <1>3, <2>1, NoneInNextIteration
    <2>3. machine[r].state = "NOT_RUNNING_YET"
        BY <1>4, <1>5
    <2>. QED  BY <1>1, <2>2, <2>3 DEF Attribution
<1>6. ASSUME config.mode = "report_determinism_stats", NEW r \in Ranks PROVE Statistics(r)'
    <2>1. Statistics(r)
        BY <1>6 DEF Diagnosed
    <2>. QED  BY <1>1, <2>1 DEF Statistics
<1>. QED  BY <1>1, <1>5, <1>6 DEF Diagnosed

\* The checkpoint repeats the claims of the ranks that write it.
LEMMA ExitDiagnosed ==
    ASSUME Inv, Diagnosed, Exit
    PROVE  Diagnosed'
<1>1. PICK v \in {Verdict(machine[r].state) : r \in Ranks} :
        /\ \A r \in Ranks : pc[r] = "exit" /\ Verdict(machine[r].state) = v
        /\ job' = IF v.code = 16 THEN "exit 16" ELSE "exit 17"
        /\ checkpoint' = IF v.save
                         THEN [step |-> step, machine |-> machine, rng |-> rng] ELSE checkpoint
    BY DEF Exit
<1>2. UNCHANGED <<config, machine, pc, micro, device, step, glitches, initialRun>>
    BY DEF Exit, perRank, history, faults
<1>3. TypeInv /\ TypeOK /\ Base' = Base
    BY <1>2 DEF Inv, TypeInv, Base
<1>4. ASSUME NEW r \in Ranks
      PROVE  /\ config.mode = "validate_results"
             /\ machine[r].state \in {"RERUNNING_IN_PLACE", "WILL_RERUN_FROM_CHECKPOINT",
                   "RERUNNING_FROM_CHECKPOINT", "RERUNNING_AGAIN_FROM_CHECKPOINT"}
    <2>1. pc[r] = "exit" /\ Phase(r) /\ machine[r].state \in States
        BY <1>1, <1>3 DEF Inv, TypeOK, Machines
    <2>. QED  BY <2>1 DEF Phase, WithoutReruns, WithReruns, Resting, InitialRun, InPlace, WillRerun,
                          FromCheckpoint, Again, States
<1>5. ASSUME NEW r \in Ranks PROVE Attribution(r)'
    <2>1. Attribution(r) /\ pc[r] = "exit" /\ Verdict(machine[r].state) = v
        BY <1>1, <1>4 DEF Diagnosed
    <2>. DEFINE c == checkpoint'.machine[r]
    <2>2. CASE machine[r].state = "WILL_RERUN_FROM_CHECKPOINT"
        <3>1. v.save = TRUE
            BY <1>4, <2>1, <2>2 DEF Verdict
        <3>2. c = machine[r]
            BY <1>1, <3>1
        <3>3. Suspicion(config, glitches, r, initialRun[r], Base, c) /\ Accused(config, Base, c)
            BY <2>1, <2>2, <3>2 DEF Attribution
        <3>. QED  BY <1>2, <1>3, <2>1, <2>2, <3>3 DEF Attribution
    <2>3. CASE machine[r].state \in {"RERUNNING_FROM_CHECKPOINT", "RERUNNING_AGAIN_FROM_CHECKPOINT"}
        <3>1. v.save = FALSE
            BY <1>4, <2>1, <2>3 DEF Verdict
        <3>2. checkpoint' = checkpoint
            BY <1>1, <3>1
        <3>3. /\ Suspicion(config, glitches, r, initialRun[r], Base, checkpoint.machine[r])
              /\ Accused(config, Base, checkpoint.machine[r])
            BY <2>1, <2>3 DEF Attribution
        <3>. QED  BY <1>2, <1>3, <2>1, <2>3, <3>2, <3>3 DEF Attribution
    <2>4. CASE machine[r].state = "RERUNNING_IN_PLACE"
        <3>1. v.code = 17
            BY <1>4, <2>1, <2>4 DEF Verdict
        <3>2. v.code # 16
            BY <3>1
        <3>3. job' = "exit 17"
            BY <1>1, <3>2
        <3>. QED  BY <1>2, <1>3, <2>1, <2>4, <3>3 DEF Attribution
    <2>. QED  BY <1>4, <2>2, <2>3, <2>4
<1>6. config.mode = "validate_results"
    <2>1. PICK r \in Ranks : TRUE
        BY RerunAssumption
    <2>. QED  BY <1>4, <2>1
<1>. QED  BY <1>2, <1>5, <1>6 DEF Diagnosed

\* The next job claims what the checkpoint says.
LEMMA RelaunchDiagnosed ==
    ASSUME Inv, Diagnosed, Relaunch
    PROVE  Diagnosed'
<1>1. /\ job = "exit 16" /\ job' = "running"
      /\ machine' = [r \in Ranks |-> LoadStateDict(checkpoint.machine[r])]
      /\ pc' = [r \in Ranks |-> "loop"]
      /\ step' = checkpoint.step
      /\ UNCHANGED <<config, checkpoint, glitches, initialRun>>
    BY DEF Relaunch
<1>2. TypeInv /\ config.mode = "validate_results" /\ \A r \in Ranks : Saved(r)
    BY <1>1 DEF Inv, Exited
<1>3. Base' = Base
    <2>1. PICK r \in Ranks : TRUE
        BY RerunAssumption
    <2>2. checkpoint.step = step
        BY <1>2, <2>1 DEF Saved
    <2>. QED  BY <1>1, <2>2 DEF Base
<1>4. ASSUME NEW r \in Ranks PROVE Attribution(r)'
    <2>. DEFINE c == checkpoint.machine[r]
                n == machine'[r]
    <2>1. c \in Machines /\ c.state = "WILL_RERUN_FROM_CHECKPOINT"
        BY <1>2 DEF TypeInv, Saved
    <2>2. n = [c EXCEPT !.first_iteration_complete = FALSE, !.saved_state = None,
                        !.saved_results = {}]
        BY <1>1 DEF LoadStateDict
    <2>3. /\ n.state = "WILL_RERUN_FROM_CHECKPOINT"
          /\ n.failed_validation_call = c.failed_validation_call
          /\ n.initial_result = c.initial_result
          /\ n.suspicious_device = c.suspicious_device
        BY <2>1, <2>2 DEF Machines
    <2>4. Suspicion(config, glitches, r, initialRun[r], Base, c) /\ Accused(config, Base, c)
        BY <1>1, <1>2 DEF Diagnosed, Attribution
    <2>5. Suspicion(config, glitches, r, initialRun[r], Base, n) /\ Accused(config, Base, n)
        BY <2>3, <2>4 DEF Suspicion, Accused, Suspects
    <2>. QED  BY <1>1, <1>3, <2>3, <2>4, <2>5 DEF Attribution
<1>. QED  BY <1>1, <1>2, <1>4 DEF Diagnosed

LEMMA EndPassDisabledDiagnosed ==
    ASSUME Inv, Diagnosed, NEW r \in Ranks, EndPassDisabled(r)
    PROVE  Diagnosed'
<1>1. config.mode = "disabled" /\ UNCHANGED <<config, glitches>>
    BY DEF EndPassDisabled, faults
<1>. QED  BY <1>1 DEF Diagnosed
-----------------------------------------------------------------------------
(***************************************************************************)
(* The invariant.                                                          *)
(***************************************************************************)
\* Only Forward concludes anything.
LEMMA DiagnosesKept ==
    ASSUME Next, \A r \in Ranks : ~Forward(r)
    PROVE  UNCHANGED <<diagnoses, config>>
BY DEF Next, RankStep, Collective, BeginInitialRun, BeginRerunFromCheckpoint, EndPassDisabled,
       Decide, AcceptInitialRun, RerunInPlace, ReportStats, ContinueInPlace, StopInPlace,
       EndRerunFromCheckpoint, OptimizerStep, Exit, Relaunch, Stopped, vars, history

Concluded == \A d \in diagnoses : Correct(config, d)

LEMMA DiagnosedInit == Init => Diagnosed /\ Concluded
<1>. SUFFICES ASSUME Init PROVE Diagnosed /\ Concluded
    OBVIOUS
<1>1. config.checks \subseteq {"nan", "spiky"}
    BY RerunAssumption DEF Init
<1>2. Budget(config, glitches)
    <2>1. /\ glitches = 0 /\ config.broken \subseteq Devices
          /\ Cardinality(config.broken) <= MaxFaults
        BY DEF Init
    <2>2. IsFiniteSet(config.broken)
        BY <2>1, FS_Subset, RerunAssumption
    <2>3. Cardinality(config.broken) \in Nat
        BY <2>2, FS_CardinalityType
    <2>. QED  BY <2>1, <2>2, <2>3 DEF Budget
<1>3. ASSUME NEW r \in Ranks PROVE Attribution(r) /\ Statistics(r)
    <2>1. machine[r] = NewMachine /\ initialRun[r] = <<>> /\ job = "running" /\ pc[r] = "loop"
        BY <1>3 DEF Init
    <2>2. /\ machine[r].state = "NOT_RUNNING_YET" /\ machine[r].failed_validation_call = None
          /\ machine[r].saved_results = {}
        BY <2>1 DEF NewMachine
    <2>3. None \notin CallSet
        BY RerunAssumption DEF CallSet
    <2>4. Attribution(r)
        BY <2>1, <2>2, <2>3 DEF Attribution, Suspicion, Suspects
    <2>. QED  BY <2>2, <2>4 DEF Statistics, Collected
<1>4. Concluded
    BY DEF Init, Concluded
<1>. QED  BY <1>1, <1>2, <1>3, <1>4 DEF Diagnosed

LEMMA DiagnosedNext == Inv /\ Diagnosed /\ Concluded /\ [Next]_vars => Diagnosed' /\ Concluded'
<1>. SUFFICES ASSUME Inv, Diagnosed, Concluded, [Next]_vars PROVE Diagnosed' /\ Concluded'
    OBVIOUS
<1>1. ASSUME NEW r \in Ranks, Forward(r) PROVE Diagnosed' /\ Concluded'
    <2>1. config' = config
        BY <1>1 DEF Forward
    <2>. QED  BY <1>1, <2>1, ForwardDiagnosed DEF Concluded
<1>2. CASE UNCHANGED vars
    <2>1. UNCHANGED <<config, machine, pc, micro, device, step, job, checkpoint, glitches, initialRun,
                      diagnoses>>
        BY <1>2 DEF vars, perRank, history, faults
    <2>2. Base' = Base
        BY <2>1 DEF Base
    <2>3. \A r \in Ranks : (Attribution(r) => Attribution(r)') /\ (Statistics(r) => Statistics(r)')
        BY <2>1, <2>2 DEF Attribution, Statistics
    <2>. QED  BY <2>1, <2>3 DEF Diagnosed, Concluded
<1>3. ASSUME Next, \A r \in Ranks : ~Forward(r) PROVE Diagnosed' /\ Concluded'
    <2>1. Concluded'
        BY <1>3, DiagnosesKept DEF Concluded
    <2>2. ASSUME NEW r \in Ranks, RankStep(r) PROVE Diagnosed'
        BY <1>3, <2>2, BeginInitialRunDiagnosed, BeginRerunDiagnosed, EndPassDisabledDiagnosed,
           DecideDiagnosed DEF RankStep
    <2>3. Collective => Diagnosed'
        BY AcceptInitialRunDiagnosed, RerunInPlaceDiagnosed, ReportStatsDiagnosed,
           ContinueInPlaceDiagnosed, StopInPlaceDiagnosed, EndRerunDiagnosed,
           OptimizerStepDiagnosed, ExitDiagnosed DEF Collective
    <2>4. Relaunch => Diagnosed'
        BY RelaunchDiagnosed
    <2>. QED  BY <1>2, <1>3, <2>1, <2>2, <2>3, <2>4 DEF Next, Stopped
<1>. QED  BY <1>1, <1>2, <1>3

\* What comparisons conclude is true throughout.
LEMMA DiagnosedInvariance == Spec => [](Inv /\ Diagnosed /\ Concluded)
<1>1. Init => Inv /\ Diagnosed /\ Concluded
    BY InitInv, DiagnosedInit
<1>2. Inv /\ Diagnosed /\ Concluded /\ [Next]_vars => (Inv /\ Diagnosed /\ Concluded)'
    BY NextInv, DiagnosedNext
<1>. QED  BY <1>1, <1>2, PTL DEF Spec

\* Whatever the number of faults, a result that is not reproduced, in place or on
\* another device, was touched by a fault in one of the two runs.
THEOREM FaultsAreFound ==
    Spec => [](\A d \in diagnoses :
                  d.initial.batch > d.step * Microbatches =>
                      /\ d.status = "FIRST_RERUN_NOT_REPRODUCIBLE" =>
                            d.initial.made = "glitch" \/ d.result.made = "glitch"
                      /\ d.status = "SECOND_RERUN_NOT_REPRODUCIBLE" =>
                            d.initial.made # "well" \/ d.result.made # "well")
<1>1. Concluded =>
        \A d \in diagnoses :
            d.initial.batch > d.step * Microbatches =>
                /\ d.status = "FIRST_RERUN_NOT_REPRODUCIBLE" =>
                      d.initial.made = "glitch" \/ d.result.made = "glitch"
                /\ d.status = "SECOND_RERUN_NOT_REPRODUCIBLE" =>
                      d.initial.made # "well" \/ d.result.made # "well"
    BY DEF Concluded, Correct
<1>. QED  BY <1>1, DiagnosedInvariance, PTL

\* What the machine concludes of a rejected result is true when at most one fault
\* strikes: "Correct result" is said only of a result that is rejected however
\* well it is computed.  Two faults can make the same wrong result on two devices.
THEOREM DiagnosesAreTrue == MaxFaults <= 1 => (Spec => []DiagnosisIsTrue)
<1>. SUFFICES ASSUME MaxFaults <= 1 PROVE Spec => []DiagnosisIsTrue
    OBVIOUS
<1>1. Concluded => DiagnosisIsTrue
    BY DEF Concluded, Correct, DiagnosisIsTrue
<1>. QED  BY <1>1, DiagnosedInvariance, PTL
=============================================================================

------------------------ MODULE TemporalAsyncProofs ------------------------
(***************************************************************************)
(* Proofs about TemporalAsync, for all programs: several saves may be in   *)
(* flight, beside synchronous ones.                                        *)
(***************************************************************************)
EXTENDS TemporalAsync, TLAPS

Finalizing == {"retrieve", "gather", "json", "agree"}

\* What the label of rank r says of its deque, of the save it finalizes, and of
\* the process that wrote it.
Shape(r) ==
  /\ pc[r] \in {"reduce", "join"} => calls[r] # <<>>
  /\ pc[r] \in Finalizing \cup {"barrier"} => fin[r] \in Positions
  /\ pc[r] = "barrier" => prog[ip[r]] = "sync"
  /\ InFinalize(r) => proc[r][fin[r]] \in {"none", "exited"}

Inv == TypeOK /\ \A r \in Ranks : Shape(r)
------------------------------------------------------------------------------
\* Appending to one of a family of sequences keeps their element type.
LEMMA AppendAt ==
  ASSUME NEW S, NEW f \in [Ranks -> Seq(S)], NEW r \in Ranks, NEW x \in S
  PROVE [f EXCEPT ![r] = Append(f[r], x)] \in [Ranks -> Seq(S)]
OBVIOUS

\* Taking the head of one of a family of sequences keeps their element type.
LEMMA TailAt ==
  ASSUME NEW S, NEW f \in [Ranks -> Seq(S)], NEW r \in Ranks, f[r] # <<>>
  PROVE /\ [f EXCEPT ![r] = Tail(f[r])] \in [Ranks -> Seq(S)]
        /\ Head(f[r]) \in S
OBVIOUS

\* The next operation: ip and pc keep their types, those of the others their values.
LEMMA NextOpType ==
  ASSUME QueueTypeOK, NEW r \in Ranks, NextOp(r)
  PROVE /\ ip' \in [Ranks -> Nat \ {0}] /\ pc' \in [Ranks -> Labels]
        /\ pc'[r] = "ready"
        /\ \A q \in Ranks : q # r => ip'[q] = ip[q] /\ pc'[q] = pc[q]
BY DEF QueueTypeOK, NextOp, Labels

\* Staying in the operation: pc keeps its type, that of the others its value.
LEMMA GotoType ==
  ASSUME QueueTypeOK, NEW r \in Ranks, NEW label \in Labels, Goto(r, label)
  PROVE /\ ip' = ip /\ pc' \in [Ranks -> Labels]
        /\ pc'[r] = label
        /\ \A q \in Ranks : q # r => ip'[q] = ip[q] /\ pc'[q] = pc[q]
BY DEF QueueTypeOK, Goto

\* Every operation of the program has a position.
LEMMA OperationType ==
  ASSUME QueueTypeOK, NEW r \in Ranks, NEW op, At(r, op)
  PROVE ip[r] \in Positions /\ prog[ip[r]] = op /\ pc[r] = "ready"
BY ProgramsAssumption DEF QueueTypeOK, At

\* What Shape speaks of is left alone for every rank but r.
LEMMA ShapeElsewhere ==
  ASSUME NEW r \in Ranks, \A q \in Ranks : Shape(q), Shape(r)', UNCHANGED prog,
         \A q \in Ranks \ {r} : /\ pc'[q] = pc[q] /\ ip'[q] = ip[q] /\ calls'[q] = calls[q]
                                /\ fin'[q] = fin[q] /\ proc'[q] = proc[q]
  PROVE \A q \in Ranks : Shape(q)'
<1>1. ASSUME NEW q \in Ranks, q # r PROVE Shape(q)'
  BY <1>1 DEF Shape, InFinalize
<1> QED BY <1>1

\* The processes of rank r keep their types when one of them changes.
LEMMA ProcType ==
  ASSUME TypeOK, NEW r \in Ranks, NEW s \in Positions, NEW state \in ProcStates,
         proc' = [proc EXCEPT ![r][s] = state]
  PROVE /\ proc' \in [Ranks -> [Positions -> ProcStates]]
        /\ proc'[r][s] = state
        /\ \A t \in Positions : t # s => proc'[r][t] = proc[r][t]
        /\ \A q \in Ranks : q # r => proc'[q] = proc[q]
BY DEF TypeOK
------------------------------------------------------------------------------
\* Nothing is queued, written or finalized at the start.
LEMMA InitInv == Init => Inv
<1> SUFFICES ASSUME Init PROVE Inv
  OBVIOUS
<1>1. QueueTypeOK
  BY PositionsAssumption, ProgramsAssumption, FailuresAssumption
     DEF Init, QueueInit, QueueTypeOK, Labels, NoResult, MissingResult, Results
<1>2. TypeOK
  BY <1>1 DEF Init, TypeOK, ProcStates
<1>3. ASSUME NEW r \in Ranks PROVE Shape(r)
  BY <1>3 DEF Init, QueueInit, Shape, InFinalize, Finalizing
<1> QED BY <1>2, <1>3 DEF Inv

\* A save is queued, after its process is forked.
LEMMA ScheduleInv ==
  ASSUME Inv, NEW r \in Ranks, Schedule(r)
  PROVE Inv'
<1>0. TypeOK /\ QueueTypeOK /\ (\A q \in Ranks : Shape(q)) /\ NextOp(r)
  BY DEF Inv, TypeOK, Schedule
<1>1. ip[r] \in Positions
  BY <1>0, OperationType DEF Schedule
<1>2. /\ ip' \in [Ranks -> Nat \ {0}] /\ pc' \in [Ranks -> Labels] /\ pc'[r] = "ready"
      /\ \A q \in Ranks : q # r => ip'[q] = ip[q] /\ pc'[q] = pc[q]
  BY <1>0, NextOpType
<1>3. calls' \in [Ranks -> Seq(Positions)] /\ \A q \in Ranks : q # r => calls'[q] = calls[q]
  BY <1>0, <1>1, AppendAt DEF Schedule, QueueTypeOK
<1>4. /\ proc' \in [Ranks -> [Positions -> ProcStates]]
      /\ \A q \in Ranks : q # r => proc'[q] = proc[q]
  <2>1. CASE r \in Writers[ip[r]]
    <3>1. "writing" \in ProcStates /\ proc' = [proc EXCEPT ![r][ip[r]] = "writing"]
      BY <2>1 DEF Schedule, ProcStates
    <3> QED BY <1>0, <1>1, <3>1, ProcType
  <2>2. CASE r \notin Writers[ip[r]]
    <3>1. proc' = proc
      BY <2>2 DEF Schedule
    <3> QED BY <1>0, <3>1 DEF TypeOK
  <2> QED BY <2>1, <2>2
<1>5. QueueTypeOK'
  BY <1>0, <1>2, <1>3 DEF Schedule, diskVars, QueueTypeOK
<1>6. Shape(r)'
  BY <1>2 DEF Shape, InFinalize, Finalizing
<1>7. UNCHANGED <<prog, fin>>
  BY DEF Schedule
<1> QED BY <1>0, <1>2, <1>3, <1>4, <1>5, <1>6, <1>7, ShapeElsewhere DEF Inv, TypeOK

\* A rank asks whether its process runs, or finds nothing to close.
LEMMA PollInv ==
  ASSUME Inv, NEW r \in Ranks, Poll(r) \/ CloseQueue(r)
  PROVE Inv'
<1>0. TypeOK /\ QueueTypeOK /\ (\A q \in Ranks : Shape(q))
  BY DEF Inv, TypeOK
<1>1. /\ UNCHANGED <<prog, calls, fin, got, finalized, written, torchMeta, ckptMeta, results,
                     failures, proc>>
  BY DEF Poll, CloseQueue, diskVars
<1>2. CASE Poll(r)
  <2>1. /\ ip' = ip /\ pc' \in [Ranks -> Labels] /\ pc'[r] = "reduce"
        /\ \A q \in Ranks : q # r => ip'[q] = ip[q] /\ pc'[q] = pc[q]
    BY <1>0, <1>2, GotoType DEF Poll, Labels
  <2>2. vote' \in [Ranks -> BOOLEAN]
    BY <1>0, <1>2 DEF Poll, Alive, QueueTypeOK
  <2>3. TypeOK'
    BY <1>0, <1>1, <2>1, <2>2 DEF TypeOK, QueueTypeOK
  <2>4. Shape(r)'
    BY <1>1, <1>2, <2>1 DEF Poll, Shape, InFinalize, Finalizing
  <2> QED BY <1>0, <1>1, <2>1, <2>3, <2>4, ShapeElsewhere DEF Inv
<1>3. CASE CloseQueue(r)
  <2>1. /\ ip' \in [Ranks -> Nat \ {0}] /\ pc' \in [Ranks -> Labels] /\ pc'[r] = "ready"
        /\ \A q \in Ranks : q # r => ip'[q] = ip[q] /\ pc'[q] = pc[q]
    BY <1>0, <1>3, NextOpType DEF CloseQueue
  <2>2. TypeOK'
    BY <1>0, <1>1, <1>3, <2>1 DEF CloseQueue, TypeOK, QueueTypeOK
  <2>3. Shape(r)'
    BY <2>1 DEF Shape, InFinalize, Finalizing
  <2> QED BY <1>0, <1>1, <2>1, <2>2, <2>3, ShapeElsewhere DEF Inv
<1> QED BY <1>2, <1>3

\* The head is finalized once its process is joined, and no longer known.
LEMMA JoinInv ==
  ASSUME Inv, NEW r \in Ranks, Join(r)
  PROVE Inv'
<1> DEFINE head == NextCall(calls[r])
<1>0. /\ TypeOK /\ QueueTypeOK /\ (\A q \in Ranks : Shape(q)) /\ pc[r] = "join"
      /\ Goto(r, "retrieve")
  BY DEF Inv, TypeOK, Join
<1>1. /\ head \in Positions /\ calls' \in [Ranks -> Seq(Positions)]
      /\ \A q \in Ranks : q # r => calls'[q] = calls[q]
  <2>1. calls[r] # <<>> /\ calls \in [Ranks -> Seq(Positions)]
    BY <1>0 DEF Shape, QueueTypeOK
  <2>2. calls' = [calls EXCEPT ![r] = Tail(calls[r])]
    BY DEF Join
  <2> QED BY <2>1, <2>2, TailAt DEF NextCall
<1>2. /\ ip' = ip /\ pc' \in [Ranks -> Labels] /\ pc'[r] = "retrieve"
      /\ \A q \in Ranks : q # r => ip'[q] = ip[q] /\ pc'[q] = pc[q]
  BY <1>0, GotoType DEF Labels
<1>3. /\ proc' \in [Ranks -> [Positions -> ProcStates]] /\ proc'[r][head] = "none"
      /\ \A q \in Ranks : q # r => proc'[q] = proc[q]
  <2>1. "none" \in ProcStates /\ proc' = [proc EXCEPT ![r][head] = "none"]
    BY DEF Join, ProcStates
  <2> QED BY <1>0, <1>1, <2>1, ProcType
<1>4. /\ fin' \in [Ranks -> Positions \cup {0}] /\ fin'[r] = head
      /\ \A q \in Ranks : q # r => fin'[q] = fin[q]
  <2>1. fin' = [fin EXCEPT ![r] = head] /\ fin \in [Ranks -> Positions \cup {0}]
    BY <1>0 DEF Join, QueueTypeOK
  <2> QED BY <1>1, <2>1
<1>5. TypeOK'
  BY <1>0, <1>1, <1>2, <1>3, <1>4 DEF Join, diskVars, TypeOK, QueueTypeOK
<1>6. Shape(r)'
  BY <1>1, <1>2, <1>3, <1>4 DEF Shape, InFinalize, Finalizing
<1>7. prog' = prog
  BY DEF Join
<1> QED BY <1>0, <1>1, <1>2, <1>3, <1>4, <1>5, <1>6, <1>7, ShapeElsewhere DEF Inv

\* A rank enters or leaves the while loop of maybe_finalize_async_calls.
LEMMA LoopInv ==
  ASSUME Inv, NEW r \in Ranks, BeginFinalize(r) \/ QueueEmpty(r), UNCHANGED proc
  PROVE Inv'
<1>0. TypeOK /\ QueueTypeOK /\ (\A q \in Ranks : Shape(q))
  BY DEF Inv, TypeOK
<1>1. UNCHANGED <<prog, calls, fin, vote, got, finalized, written, torchMeta, ckptMeta, results,
                  failures>>
  BY DEF BeginFinalize, QueueEmpty, diskVars
<1>2. /\ ip' \in [Ranks -> Nat \ {0}] /\ pc' \in [Ranks -> Labels]
      /\ pc'[r] \in {"loop", "stop", "ready"}
      /\ \A q \in Ranks : q # r => ip'[q] = ip[q] /\ pc'[q] = pc[q]
  <2>1. CASE NextOp(r)
    BY <1>0, <2>1, NextOpType
  <2>2. CASE Goto(r, "loop") \/ Goto(r, "stop")
    BY <1>0, <2>2, GotoType DEF Labels, QueueTypeOK
  <2> QED BY <2>1, <2>2 DEF BeginFinalize, QueueEmpty
<1>3. TypeOK'
  BY <1>0, <1>1, <1>2 DEF TypeOK, QueueTypeOK
<1>4. Shape(r)'
  BY <1>2 DEF Shape, InFinalize, Finalizing
<1> QED BY <1>0, <1>1, <1>2, <1>3, <1>4, ShapeElsewhere DEF Inv

\* One item is taken from the results queue, if there is one.
LEMMA RetrieveInv ==
  ASSUME Inv, NEW r \in Ranks, Retrieve(r), UNCHANGED proc
  PROVE Inv'
<1>0. TypeOK /\ QueueTypeOK /\ (\A q \in Ranks : Shape(q)) /\ pc[r] = "retrieve"
  BY DEF Inv, TypeOK, Retrieve
<1>1. /\ results' \in [Ranks -> Seq(Results)]
      /\ got' \in [Ranks -> Results \cup {NoResult, MissingResult}]
  <2>1. results \in [Ranks -> Seq(Results)] /\ got \in [Ranks -> Results \cup {NoResult, MissingResult}]
    BY <1>0 DEF QueueTypeOK
  <2>2. CASE r \in Writers[fin[r]] /\ results[r] # <<>>
    <3>1. /\ results' = [results EXCEPT ![r] = Tail(results[r])]
          /\ got' = [got EXCEPT ![r] = Head(results[r])]
      BY <2>2 DEF Retrieve
    <3> QED BY <2>1, <2>2, <3>1, TailAt
  <2>3. CASE ~(r \in Writers[fin[r]] /\ results[r] # <<>>)
    BY <2>1, <2>3 DEF Retrieve
  <2> QED BY <2>2, <2>3
<1>2. /\ ip' = ip /\ pc' \in [Ranks -> Labels] /\ pc'[r] = "gather"
      /\ \A q \in Ranks : q # r => ip'[q] = ip[q] /\ pc'[q] = pc[q]
  BY <1>0, GotoType DEF Retrieve, Labels
<1>3. UNCHANGED <<prog, calls, fin, vote, finalized, written, torchMeta, ckptMeta, failures>>
  BY DEF Retrieve, diskVars
<1>4. TypeOK'
  BY <1>0, <1>1, <1>2, <1>3 DEF TypeOK, QueueTypeOK
<1>5. Shape(r)'
  BY <1>0, <1>2, <1>3 DEF Shape, InFinalize, Finalizing
<1> QED BY <1>0, <1>2, <1>3, <1>4, <1>5, ShapeElsewhere DEF Inv

\* A synchronous save is written by the trainer, which has no process for it.
LEMMA ExecuteSyncInv ==
  ASSUME Inv, NEW r \in Ranks, ExecuteSync(r), UNCHANGED proc
  PROVE Inv'
<1>0. TypeOK /\ QueueTypeOK /\ (\A q \in Ranks : Shape(q))
  BY DEF Inv, TypeOK
<1>1. ip[r] \in Positions /\ prog[ip[r]] = "sync"
  BY <1>0, OperationType DEF ExecuteSync
<1>2. /\ results' \in [Ranks -> Seq(Results)]
      /\ written' \in [Positions -> SUBSET Ranks]
      /\ failures' \in 0 .. MaxFailures
  <2>1. CASE r \notin Writers[ip[r]]
    BY <1>0, <2>1 DEF ExecuteSync, QueueTypeOK
  <2>2. CASE r \in Writers[ip[r]]
    <3>1. PICK ok \in BOOLEAN :
            /\ ok \/ failures < MaxFailures
            /\ failures' = IF ok THEN failures ELSE failures + 1
            /\ written' = IF ok THEN [written EXCEPT ![ip[r]] = @ \cup {r}] ELSE written
            /\ results' = [results EXCEPT ![r] = Append(@, [save |-> ip[r], ok |-> ok])]
      BY <2>2 DEF ExecuteSync
    <3>2. [save |-> ip[r], ok |-> ok] \in Results
      BY <1>1 DEF Results
    <3>3. results' \in [Ranks -> Seq(Results)]
      BY <1>0, <3>1, <3>2, AppendAt DEF QueueTypeOK
    <3>4. written' \in [Positions -> SUBSET Ranks]
      BY <1>0, <1>1, <3>1 DEF QueueTypeOK
    <3>5. failures' \in 0 .. MaxFailures
      BY <1>0, <3>1, FailuresAssumption DEF QueueTypeOK
    <3> QED BY <3>3, <3>4, <3>5
  <2> QED BY <2>1, <2>2
<1>3. /\ ip' = ip /\ pc' \in [Ranks -> Labels] /\ pc'[r] = "barrier"
      /\ \A q \in Ranks : q # r => ip'[q] = ip[q] /\ pc'[q] = pc[q]
  BY <1>0, GotoType DEF ExecuteSync, Labels
<1>4. /\ fin' \in [Ranks -> Positions \cup {0}] /\ fin'[r] = ip[r]
      /\ \A q \in Ranks : q # r => fin'[q] = fin[q]
  <2>1. fin' = [fin EXCEPT ![r] = ip[r]] /\ fin \in [Ranks -> Positions \cup {0}]
    BY <1>0 DEF ExecuteSync, QueueTypeOK
  <2> QED BY <1>1, <2>1
<1>5. UNCHANGED <<prog, calls, vote, got, finalized, torchMeta, ckptMeta>>
  BY DEF ExecuteSync
<1>6. TypeOK'
  BY <1>0, <1>2, <1>3, <1>4, <1>5 DEF TypeOK, QueueTypeOK
<1>7. Shape(r)'
  BY <1>1, <1>3, <1>4, <1>5 DEF Shape, InFinalize, Finalizing
<1> QED BY <1>0, <1>3, <1>4, <1>5, <1>6, <1>7, ShapeElsewhere DEF Inv

\* A writer only ever goes on, or stops.
LEMMA WriterInv ==
  ASSUME Inv, NEW r \in Ranks, WriterStep(r) \/ Failure(r)
  PROVE Inv'
<1>0. TypeOK /\ QueueTypeOK /\ (\A q \in Ranks : Shape(q))
  BY DEF Inv, TypeOK
<1>1. PICK s \in Positions :
        WriteData(r, s) \/ ExitWithResults(r, s) \/ ExitWithError(r, s) \/ Die(r, s)
  BY DEF WriterStep, Failure
<1>2. PICK state \in {"written", "exited"} : proc' = [proc EXCEPT ![r][s] = state]
  BY <1>1 DEF WriteData, ExitWithResults, ExitWithError, Exit, Die
<1>3. Alive(r, s)
  BY <1>1 DEF WriteData, ExitWithResults, ExitWithError, Die, Alive
<1>4. /\ proc' \in [Ranks -> [Positions -> ProcStates]]
      /\ \A t \in Positions : t # s => proc'[r][t] = proc[r][t]
      /\ \A q \in Ranks : q # r => proc'[q] = proc[q]
  <2>1. state \in ProcStates
    BY DEF ProcStates
  <2> QED BY <1>0, <1>2, <2>1, ProcType
<1>5. UNCHANGED <<prog, ip, pc, calls, fin, vote, got, finalized, torchMeta, ckptMeta>>
  BY <1>1 DEF WriteData, ExitWithResults, ExitWithError, Exit, Die, trainerVars, diskVars
<1>6. written' \in [Positions -> SUBSET Ranks]
  <2>1. written' = written \/ written' = [written EXCEPT ![s] = @ \cup {r}]
    BY <1>1 DEF WriteData, ExitWithResults, ExitWithError, Exit, Die, diskVars
  <2>2. written \in [Positions -> SUBSET Ranks]
    BY <1>0 DEF QueueTypeOK
  <2> QED BY <2>1, <2>2
<1>7. failures' \in 0 .. MaxFailures
  BY <1>0, <1>1, FailuresAssumption
     DEF WriteData, ExitWithResults, ExitWithError, Exit, Die, QueueTypeOK
<1>8. results' \in [Ranks -> Seq(Results)]
  <2>1. CASE WriteData(r, s) \/ Die(r, s)
    BY <1>0, <2>1 DEF WriteData, Die, QueueTypeOK
  <2>2. ASSUME NEW ok \in BOOLEAN, Exit(r, s, ok) PROVE results' \in [Ranks -> Seq(Results)]
    <3>1. [save |-> s, ok |-> ok] \in Results
      BY DEF Results
    <3> QED BY <1>0, <2>2, <3>1, AppendAt DEF Exit, QueueTypeOK
  <2> QED BY <1>1, <2>1, <2>2 DEF ExitWithResults, ExitWithError
<1>9. TypeOK'
  BY <1>0, <1>4, <1>5, <1>6, <1>7, <1>8 DEF TypeOK, QueueTypeOK
<1>10. Shape(r)'
  <2>1. InFinalize(r) => fin[r] # s /\ fin[r] \in Positions
    BY <1>0, <1>3 DEF Shape, Alive, InFinalize, Finalizing
  <2> QED BY <1>0, <1>4, <1>5, <2>1 DEF Shape, InFinalize
<1> QED BY <1>0, <1>4, <1>5, <1>9, <1>10, ShapeElsewhere DEF Inv

\* The all-reduce: the ranks go on to join their processes, or leave the loop.
LEMMA ReduceInv ==
  ASSUME Inv, ReduceAlive
  PROVE Inv'
<1>0. TypeOK /\ QueueTypeOK /\ (\A q \in Ranks : Shape(q)) /\ \A q \in Ranks : pc[q] = "reduce"
  BY DEF Inv, TypeOK, ReduceAlive, AllAt
<1>1. /\ UNCHANGED <<prog, calls, fin, vote, got, finalized, written, torchMeta, ckptMeta, results,
                     failures, proc>>
      /\ \/ pc' = [q \in Ranks |-> "join"] /\ ip' = ip
         \/ pc' = [q \in Ranks |-> "ready"] /\ ip' = [q \in Ranks |-> ip[q] + 1]
  BY DEF ReduceAlive, LeaveLoop, diskVars
<1>2. TypeOK'
  BY <1>0, <1>1 DEF TypeOK, QueueTypeOK, Labels
<1>3. ASSUME NEW q \in Ranks PROVE Shape(q)'
  BY <1>0, <1>1 DEF Shape, InFinalize, Finalizing
<1> QED BY <1>2, <1>3 DEF Inv

\* The metadata are written, by all ranks together, for the save in fin.
LEMMA MetadataInv ==
  ASSUME Inv, GatherResults \/ SaveMetadataJson, UNCHANGED proc
  PROVE Inv'
<1>0. TypeOK /\ QueueTypeOK /\ (\A q \in Ranks : Shape(q))
  BY DEF Inv, TypeOK
<1>1. fin[Coordinator] \in Positions
  BY <1>0, RanksAssumption DEF GatherResults, SaveMetadataJson, AllAt, Shape, Finalizing
<1>2. UNCHANGED <<prog, calls, fin, vote, got, finalized, written, results, failures>>
  BY DEF GatherResults, SaveMetadataJson
<1>3. torchMeta' \subseteq Positions /\ ckptMeta' \subseteq Positions
  BY <1>0, <1>1 DEF GatherResults, SaveMetadataJson, QueueTypeOK
<1>4. CASE GatherResults
  <2>1. /\ ip' = ip /\ \A q \in Ranks : pc[q] = "gather"
        /\ pc' = [q \in Ranks |-> "json"] \/ pc' = [q \in Ranks |-> "raised"]
    BY <1>4 DEF GatherResults, AllAt
  <2>2. TypeOK'
    BY <1>0, <1>2, <1>3, <2>1 DEF TypeOK, QueueTypeOK, Labels
  <2>3. ASSUME NEW q \in Ranks PROVE Shape(q)'
    BY <1>0, <1>2, <2>1 DEF Shape, InFinalize, Finalizing
  <2> QED BY <2>2, <2>3 DEF Inv
<1>5. CASE SaveMetadataJson
  <2>1. /\ \A q \in Ranks : /\ pc[q] = "json"
                            /\ \/ prog[ip[q]] = "sync" /\ pc'[q] = "ready" /\ ip'[q] = ip[q] + 1
                               \/ prog[ip[q]] # "sync" /\ pc'[q] = "agree" /\ ip'[q] = ip[q]
        /\ pc' = [q \in Ranks |-> pc'[q]] /\ ip' = [q \in Ranks |-> ip'[q]]
    <3>1. /\ pc' = [q \in Ranks |-> IF prog[ip[q]] = "sync" THEN "ready" ELSE "agree"]
          /\ ip' = [q \in Ranks |-> IF prog[ip[q]] = "sync" THEN ip[q] + 1 ELSE ip[q]]
          /\ \A q \in Ranks : pc[q] = "json"
      BY <1>5 DEF SaveMetadataJson, AllAt
    <3> QED BY <3>1
  <2>2. \A q \in Ranks : pc'[q] \in Labels /\ ip'[q] \in Nat \ {0}
    BY <1>0, <2>1 DEF QueueTypeOK, Labels
  <2>3. TypeOK'
    BY <1>0, <1>2, <1>3, <2>1, <2>2 DEF TypeOK, QueueTypeOK
  <2>4. ASSUME NEW q \in Ranks PROVE Shape(q)'
    BY <1>0, <1>2, <2>1 DEF Shape, InFinalize, Finalizing
  <2> QED BY <2>3, <2>4 DEF Inv
<1> QED BY <1>4, <1>5

\* The finalized save enters the history, or the assertion on call_idx fails.
LEMMA AgreeInv ==
  ASSUME Inv, AgreeOnCallIdx, UNCHANGED proc
  PROVE Inv'
<1>0. TypeOK /\ QueueTypeOK /\ (\A q \in Ranks : Shape(q)) /\ \A q \in Ranks : pc[q] = "agree"
  BY DEF Inv, TypeOK, AgreeOnCallIdx, AllAt
<1>1. \A q \in Ranks : fin[q] \in Positions /\ finalized[q] \in Seq(Positions)
  BY <1>0 DEF Shape, Finalizing, QueueTypeOK
<1>2. \A q \in Ranks : Append(finalized[q], fin[q]) \in Seq(Positions)
  BY <1>1
<1>3. finalized' \in [Ranks -> Seq(Positions)] /\ pc' \in [Ranks -> Labels]
  BY <1>1, <1>2 DEF AgreeOnCallIdx, Labels
<1>4. \A q \in Ranks : pc'[q] \in {"loop", "unmatched"}
  BY DEF AgreeOnCallIdx
<1>5. TypeOK'
  BY <1>0, <1>3 DEF AgreeOnCallIdx, diskVars, TypeOK, QueueTypeOK
<1>6. ASSUME NEW q \in Ranks PROVE Shape(q)'
  BY <1>4 DEF Shape, InFinalize, Finalizing
<1> QED BY <1>5, <1>6 DEF Inv

\* The barrier of a synchronous save: all go on to its finalize functions.
LEMMA SyncBarrierInv ==
  ASSUME Inv, SyncBarrier, UNCHANGED proc
  PROVE Inv'
<1>0. TypeOK /\ QueueTypeOK /\ (\A q \in Ranks : Shape(q)) /\ \A q \in Ranks : pc[q] = "barrier"
  BY DEF Inv, TypeOK, SyncBarrier, AllAt
<1>1. TypeOK'
  BY <1>0 DEF SyncBarrier, diskVars, TypeOK, QueueTypeOK, Labels
<1>2. ASSUME NEW q \in Ranks PROVE Shape(q)'
  BY <1>0 DEF SyncBarrier, Shape, InFinalize, Finalizing
<1> QED BY <1>1, <1>2 DEF Inv

\* Every step keeps the invariant.
LEMMA NextInv == Inv /\ [Next]_vars => Inv'
<1> SUFFICES ASSUME Inv, [Next]_vars PROVE Inv'
  OBVIOUS
<1>1. ASSUME NEW r \in Ranks, TrainerStep(r) PROVE Inv'
  BY <1>1, LoopInv, RetrieveInv, ExecuteSyncInv, ScheduleInv, PollInv, JoinInv
     DEF TrainerStep, QueueStep
<1>2. CASE Collective
  BY <1>2, ReduceInv, MetadataInv, AgreeInv, SyncBarrierInv DEF Collective, QueueCollective
<1>3. CASE UNCHANGED vars
  BY <1>3 DEF vars, queueVars, trainerVars, diskVars, Inv, TypeOK, QueueTypeOK, Shape, InFinalize,
              Alive
<1> QED BY <1>1, <1>2, <1>3, WriterInv DEF Next, Terminating

\* The invariant holds throughout.
LEMMA Invariance == Spec => []Inv
BY InitInv, NextInv, PTL DEF Spec

\* The deque, the results and the processes keep their types, however many saves
\* are in flight; no rank asks for the head of an empty deque, which is where the
\* process to join comes from.
THEOREM TypeCorrect == Spec => []TypeOK
<1>1. Inv => TypeOK
  BY DEF Inv
<1> QED BY <1>1, Invariance, PTL

(***************************************************************************)
(* A rank runs the finalize functions of an asynchronous save only when    *)
(* its own process no longer writes it, for every program, however many    *)
(* saves overlap and whatever processes fail: the all-reduce does not say  *)
(* that when the call is blocking, the join in close() does.               *)
(***************************************************************************)
THEOREM OwnExitFirst == Spec => []FinalizeAfterOwnExit
<1>1. Inv => FinalizeAfterOwnExit
  BY DEF Inv, Shape, FinalizeAfterOwnExit, Alive
<1> QED BY <1>1, Invariance, PTL
=============================================================================

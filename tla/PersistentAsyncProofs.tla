------------------------ MODULE PersistentAsyncProofs ------------------------
(***************************************************************************)
(* Proofs about PersistentAsync: its types and the snapshots of a save, in *)
(* every program; and for programs of asynchronous saves the agreement of  *)
(* the ranks, that no save gets its metadata before its data are complete, *)
(* that a save is finalized only when the workers of all ranks are done    *)
(* with it, and that trainers, workers, queues and collectives together    *)
(* implement AsyncSave.                                                    *)
(***************************************************************************)
EXTENDS PersistentAsync, TLAPS

(***************************************************************************)
(* The hand-over of a request: what the queue to the worker and preload_q  *)
(* hold, and what the labels say of the current operation.                 *)
(***************************************************************************)
Staging(r) ==
  \/ unstaged[r] = 0 /\ wpc[r] # "preload" /\ queue[r] \in {<<>>, <<Done>>}
  \/ /\ unstaged[r] = 1 /\ pc[r] = "stage"
     /\ \/ wpc[r] # "preload" /\ queue[r] = <<ip[r]>>
        \/ wpc[r] = "preload" /\ queue[r] = <<>>
        \/ wpc[r] # "preload" /\ queue[r] = <<>> /\ worker[r] = "dead"

Shape(r) ==
  /\ Staging(r)
  /\ queue[r] = <<Done>> => pc[r] = "stopping"
  /\ worker[r] = "exited" => pc[r] = "stopping" /\ queue[r] = <<>>
  /\ pc[r] = "stage" => ip[r] \in Positions
  /\ pc[r] = "reduce" => calls[r] # <<>>
  /\ pc[r] \in {"retrieve", "gather", "json", "agree", "barrier"} => fin[r] \in Positions
  /\ wpc[r] # "idle" => wsave[r] \in Positions

TypeInv == TypeOK /\ \A r \in Ranks : Shape(r)
------------------------------------------------------------------------------
\* The initial states have the shape.
LEMMA TypeInit == Init => TypeInv
BY PositionsAssumption, ProgramsAssumption, FailuresAssumption
   DEF Init, QueueInit, TypeInv, TypeOK, QueueTypeOK, Shape, Staging, Labels, WorkerLabels,
       NoResult, MissingResult, Results, Done

\* Appending to one of a family of sequences keeps their element type.
LEMMA AppendAt ==
  ASSUME NEW S, NEW f \in [Ranks -> Seq(S)], NEW r \in Ranks, NEW x \in S
  PROVE [f EXCEPT ![r] = Append(f[r], x)] \in [Ranks -> Seq(S)]
OBVIOUS

\* Taking the head of one of a family of sequences keeps their element type.
LEMMA TailAt ==
  ASSUME NEW S, NEW f \in [Ranks -> Seq(S)], NEW r \in Ranks, f[r] # <<>>
  PROVE /\ [f EXCEPT ![r] = Tail(f[r])] \in [Ranks -> Seq(S)]
        /\ Head(f[r]) \in S
OBVIOUS

\* The part of the state Shape(q) speaks of is left alone.
Unmoved(q) ==
  /\ pc'[q] = pc[q] /\ ip'[q] = ip[q] /\ calls'[q] = calls[q] /\ fin'[q] = fin[q]
  /\ worker'[q] = worker[q] /\ wpc'[q] = wpc[q] /\ wsave'[q] = wsave[q]
  /\ queue'[q] = queue[q] /\ unstaged'[q] = unstaged[q]

\* A step of rank r that leaves the other ranks alone has only Shape(r) to keep.
LEMMA ShapeElsewhere ==
  ASSUME NEW r \in Ranks, \A q \in Ranks : Shape(q),
         Shape(r)', \A q \in Ranks \ {r} : Unmoved(q)
  PROVE \A q \in Ranks : Shape(q)'
<1>1. ASSUME NEW q \in Ranks, q # r PROVE Shape(q)'
  BY <1>1 DEF Unmoved, Shape, Staging
<1> QED BY <1>1

\* The next operation: ip and pc keep their types, those of the others their values.
LEMMA NextOpType ==
  ASSUME TypeOK, NEW r \in Ranks, NextOp(r)
  PROVE /\ ip' \in [Ranks -> Nat \ {0}] /\ pc' \in [Ranks -> Labels]
        /\ pc'[r] = "ready" /\ ip'[r] = ip[r] + 1
        /\ \A q \in Ranks : q # r => ip'[q] = ip[q] /\ pc'[q] = pc[q]
BY DEF TypeOK, QueueTypeOK, NextOp, Labels

\* Scheduling hands over at most one request at a time (schedule_async_call).
LEMMA ScheduleType ==
  ASSUME TypeInv, NEW r \in Ranks, ScheduleNoop(r) \/ ScheduleCall(r) \/ ResumeWhenStaged(r)
  PROVE TypeInv'
<1>0. TypeOK /\ \A q \in Ranks : Shape(q)
  BY DEF TypeInv
<1>1. CASE ScheduleNoop(r)
  <2>1. ip[r] \in Positions
    BY <1>0, <1>1, ProgramsAssumption DEF ScheduleNoop, At, TypeOK, QueueTypeOK
  <2>2. calls' \in [Ranks -> Seq(Positions)]
    BY <1>0, <1>1, <2>1, AppendAt DEF ScheduleNoop, TypeOK, QueueTypeOK
  <2>3. TypeOK'
    <3>1. QueueTypeOK'
      <4>1. ip' \in [Ranks -> Nat \ {0}] /\ pc' \in [Ranks -> Labels]
        BY <1>0, <1>1, NextOpType DEF ScheduleNoop
      <4> QED BY <1>0, <1>1, <2>2, <4>1 DEF ScheduleNoop, diskVars, TypeOK, QueueTypeOK
    <3> QED BY <1>0, <1>1, <3>1 DEF ScheduleNoop, workerVars, callerVars, TypeOK
  <2>4. ASSUME NEW q \in Ranks PROVE Shape(q)'
    BY <1>0, <1>1, <2>1
       DEF ScheduleNoop, NextOp, diskVars, workerVars, callerVars, At, TypeOK, QueueTypeOK, Shape,
           Staging, Done
  <2> QED BY <2>3, <2>4 DEF TypeInv
<1>2. CASE ScheduleCall(r)
  <2>1. ip[r] \in Positions
    BY <1>0, <1>2, ProgramsAssumption DEF ScheduleCall, At, TypeOK, QueueTypeOK
  <2>2. queue[r] = <<>> /\ wpc[r] # "preload" /\ unstaged[r] = 0 /\ worker[r] # "exited"
    BY <1>0, <1>2, <2>1 DEF ScheduleCall, At, Shape, Staging, Done
  <2>3. queue'[r] = <<ip[r]>> /\ ip[r] # Done
    BY <1>0, <1>2, <2>1, <2>2, PositionsAssumption DEF ScheduleCall, TypeOK, Done
  <2>4. queue' \in [Ranks -> Seq(Positions \cup {Done})]
    BY <1>0, <1>2, <2>1, <2>2, <2>3, AppendAt DEF ScheduleCall, TypeOK
  <2>5. TypeOK'
    <3>1. QueueTypeOK'
      BY <1>0, <1>2, <2>1 DEF ScheduleCall, Goto, diskVars, TypeOK, QueueTypeOK, Labels
    <3> QED BY <1>0, <1>2, <2>1, <2>2, <2>3, <2>4, <3>1 DEF ScheduleCall, TypeOK, WorkerLabels
  <2>6. ASSUME NEW q \in Ranks PROVE Shape(q)'
    BY <1>0, <1>2, <2>1, <2>2, <2>3, SMTT(30)
       DEF ScheduleCall, Goto, diskVars, TypeOK, QueueTypeOK, Shape, Staging, Done
  <2> QED BY <2>5, <2>6 DEF TypeInv
<1>3. CASE ResumeWhenStaged(r)
  <2>1. /\ ip' \in [Ranks -> Nat \ {0}] /\ pc' \in [Ranks -> Labels] /\ pc'[r] = "ready"
        /\ \A q \in Ranks : q # r => ip'[q] = ip[q] /\ pc'[q] = pc[q]
    BY <1>0, <1>3, NextOpType DEF ResumeWhenStaged
  <2>2. ip[r] \in Positions
    BY <1>0, <1>3, <2>1 DEF ResumeWhenStaged, Shape
  <2>3. queue[r] = <<>> /\ worker[r] # "exited"
    BY <1>0, <1>3, <2>1, <2>2 DEF ResumeWhenStaged, Shape, Staging, Done
  <2>4. calls' \in [Ranks -> Seq(Positions)]
    BY <1>0, <1>3, <2>1, <2>2, <2>3, AppendAt DEF ResumeWhenStaged, TypeOK, QueueTypeOK
  <2>5. TypeOK'
    BY <1>0, <1>3, <2>1, <2>2, <2>3, <2>4
       DEF ResumeWhenStaged, diskVars, workerVars, callerVars, TypeOK, QueueTypeOK, Labels,
           WorkerLabels
  <2>6. /\ pc'[r] = "ready" /\ fin'[r] = fin[r] /\ worker'[r] = worker[r] /\ wpc'[r] = wpc[r]
        /\ wsave'[r] = wsave[r] /\ queue'[r] = queue[r] /\ unstaged'[r] = unstaged[r]
    BY <1>0, <1>3, <2>1, <2>2, <2>3
       DEF ResumeWhenStaged, diskVars, workerVars, callerVars, TypeOK, QueueTypeOK
  <2>7. Shape(r)'
    BY <1>0, <1>3, <2>1, <2>2, <2>3, <2>6, PositionsAssumption
       DEF ResumeWhenStaged, Shape, Staging, Done
  <2>8. \A q \in Ranks \ {r} : Unmoved(q)
    BY <1>0, <1>3, <2>1, <2>2, <2>3
       DEF ResumeWhenStaged, diskVars, workerVars, callerVars, Unmoved, TypeOK, QueueTypeOK
  <2> QED BY <1>0, <2>5, <2>7, <2>8, ShapeElsewhere DEF TypeInv
<1> QED BY <1>1, <1>2, <1>3

\* Asking whether the head is done (is_current_async_call_done).
LEMMA PollType ==
  ASSUME TypeInv, NEW r \in Ranks, PollKnown(r) \/ PollCompleted(r) \/ PollPending(r)
  PROVE TypeInv'
<1>0. TypeOK /\ \A q \in Ranks : Shape(q)
  BY DEF TypeInv
<1>1. CASE PollKnown(r)
  <2>1. TypeOK'
    BY <1>0, <1>1 DEF PollKnown, Poll, Goto, diskVars, TypeOK, QueueTypeOK, Labels, WorkerLabels
  <2>2. ASSUME NEW q \in Ranks PROVE Shape(q)'
    BY <1>0, <1>1 DEF PollKnown, Poll, Goto, diskVars, TypeOK, QueueTypeOK, Shape, Staging, Done
  <2> QED BY <2>1, <2>2 DEF TypeInv
<1>2. CASE PollCompleted(r)
  <2>1. comp' \in [Ranks -> Seq(Positions)] /\ Head(comp[r]) \in Positions
    BY <1>0, <1>2, TailAt DEF PollCompleted, TypeOK
  <2>2. TypeOK'
    BY <1>0, <1>2, <2>1
       DEF PollCompleted, Poll, Goto, diskVars, TypeOK, QueueTypeOK, Labels, WorkerLabels
  <2>3. ASSUME NEW q \in Ranks PROVE Shape(q)'
    BY <1>0, <1>2 DEF PollCompleted, Poll, Goto, diskVars, TypeOK, QueueTypeOK, Shape, Staging, Done
  <2> QED BY <2>2, <2>3 DEF TypeInv
<1>3. CASE PollPending(r)
  <2>1. TypeOK'
    BY <1>0, <1>3 DEF PollPending, Poll, Goto, diskVars, TypeOK, QueueTypeOK, Labels, WorkerLabels
  <2>2. ASSUME NEW q \in Ranks PROVE Shape(q)'
    BY <1>0, <1>3 DEF PollPending, Poll, Goto, diskVars, TypeOK, QueueTypeOK, Shape, Staging, Done
  <2> QED BY <2>1, <2>2 DEF TypeInv
<1> QED BY <1>1, <1>2, <1>3

\* Closing the caller, and passing a mark (PersistentAsyncCaller.close).
LEMMA CloseType ==
  ASSUME TypeInv, NEW r \in Ranks, CloseNothing(r) \/ SendDone(r) \/ JoinWorker(r) \/ NoFault(r)
  PROVE TypeInv'
<1>0. TypeOK /\ \A q \in Ranks : Shape(q)
  BY DEF TypeInv
<1>1. CASE CloseNothing(r)
  <2>1. TypeOK'
    BY <1>0, <1>1, SMTT(30)
       DEF CloseNothing, NextOp, diskVars, workerVars, callerVars, TypeOK, QueueTypeOK, Labels,
           WorkerLabels
  <2>2. ASSUME NEW q \in Ranks PROVE Shape(q)'
    BY <1>0, <1>1
       DEF CloseNothing, NextOp, diskVars, workerVars, callerVars, TypeOK, QueueTypeOK, Shape,
           Staging, Done
  <2> QED BY <2>1, <2>2 DEF TypeInv
<1>2. CASE SendDone(r)
  <2>1. queue[r] = <<>> /\ unstaged[r] = 0 /\ worker[r] # "exited" /\ wpc[r] # "preload"
    BY <1>0, <1>2 DEF SendDone, Shape, Staging
  <2>2. queue'[r] = <<Done>>
    BY <1>0, <1>2, <2>1 DEF SendDone, TypeOK
  <2>3. queue' \in [Ranks -> Seq(Positions \cup {Done})]
    BY <1>0, <1>2, <2>1, <2>2, AppendAt DEF SendDone, TypeOK
  <2>4. TypeOK'
    BY <1>0, <1>2, <2>1, <2>2, <2>3
       DEF SendDone, Goto, diskVars, TypeOK, QueueTypeOK, Labels, WorkerLabels
  <2>5. ASSUME NEW q \in Ranks PROVE Shape(q)'
    BY <1>0, <1>2, <2>1, <2>2
       DEF SendDone, Goto, diskVars, TypeOK, QueueTypeOK, Shape, Staging, Done
  <2> QED BY <2>4, <2>5 DEF TypeInv
<1>3. CASE JoinWorker(r)
  <2>1. /\ ip' \in [Ranks -> Nat \ {0}] /\ pc' \in [Ranks -> Labels] /\ pc'[r] = "ready"
        /\ \A q \in Ranks : q # r => ip'[q] = ip[q] /\ pc'[q] = pc[q]
    BY <1>0, <1>3, NextOpType DEF JoinWorker
  <2>2. queue[r] = <<>> /\ unstaged[r] = 0 /\ wpc[r] # "preload"
    BY <1>0, <1>3, <2>1 DEF JoinWorker, Shape, Staging
  <2>3. TypeOK'
    BY <1>0, <1>3, <2>1, <2>2 DEF JoinWorker, diskVars, TypeOK, QueueTypeOK, Labels, WorkerLabels
  <2>4. /\ pc'[r] = "ready" /\ fin'[r] = fin[r] /\ worker'[r] = "none" /\ wpc'[r] = wpc[r]
        /\ wsave'[r] = wsave[r] /\ queue'[r] = queue[r] /\ unstaged'[r] = unstaged[r]
    BY <1>0, <1>3, <2>1, <2>2 DEF JoinWorker, diskVars, TypeOK, QueueTypeOK
  <2>5. Shape(r)'
    BY <1>0, <1>3, <2>1, <2>2, <2>4, PositionsAssumption DEF JoinWorker, Shape, Staging, Done
  <2>6. \A q \in Ranks \ {r} : Unmoved(q)
    BY <1>0, <1>3, <2>1, <2>2 DEF JoinWorker, diskVars, Unmoved, TypeOK, QueueTypeOK
  <2> QED BY <1>0, <2>3, <2>5, <2>6, ShapeElsewhere DEF TypeInv
<1>4. CASE NoFault(r)
  <2>1. /\ ip' \in [Ranks -> Nat \ {0}] /\ pc' \in [Ranks -> Labels] /\ pc'[r] = "ready"
        /\ \A q \in Ranks : q # r => ip'[q] = ip[q] /\ pc'[q] = pc[q]
    BY <1>0, <1>4, NextOpType DEF NoFault
  <2>2. TypeOK'
    BY <1>0, <1>4, <2>1
       DEF NoFault, diskVars, workerVars, callerVars, TypeOK, QueueTypeOK, Labels, WorkerLabels
  <2>3. ASSUME NEW q \in Ranks PROVE Shape(q)'
    BY <1>0, <1>4, <2>1
       DEF NoFault, diskVars, workerVars, callerVars, At, TypeOK, QueueTypeOK, Shape, Staging, Done
  <2> QED BY <2>2, <2>3 DEF TypeInv
<1> QED BY <1>1, <1>2, <1>3, <1>4

\* The worker takes a request, stages it and writes it, or dies (async_loop).
LEMMA WorkerType ==
  ASSUME TypeInv, NEW r \in Ranks, TakeDone(r) \/ TakeRequest(r) \/ TakeDeadProxy(r)
              \/ Preload(r) \/ WriteData(r) \/ Die(r)
  PROVE TypeInv'
<1>0. TypeOK /\ \A q \in Ranks : Shape(q)
  BY DEF TypeInv
<1>1. CASE TakeDone(r)
  <2>1. queue[r] = <<Done>>
    BY <1>0, <1>1, PositionsAssumption DEF TakeDone, Take, Shape, Staging, TypeOK, QueueTypeOK, Done
  <2>2. queue'[r] = <<>>
    BY <1>0, <1>1, <2>1 DEF TakeDone, Take, TypeOK
  <2>3. queue' \in [Ranks -> Seq(Positions \cup {Done})]
    BY <1>0, <1>1, <2>1, <2>2, TailAt DEF TakeDone, Take, TypeOK
  <2>4. TypeOK'
    BY <1>0, <1>1, <2>1, <2>2, <2>3
       DEF TakeDone, Take, queueVars, trainerVars, diskVars, TypeOK, QueueTypeOK, Labels,
           WorkerLabels
  <2>5. ASSUME NEW q \in Ranks PROVE Shape(q)'
    BY <1>0, <1>1, <2>1, <2>2
       DEF TakeDone, Take, queueVars, trainerVars, diskVars, TypeOK, QueueTypeOK, Shape, Staging,
           Done
  <2> QED BY <2>4, <2>5 DEF TypeInv
<1>2. CASE TakeRequest(r)
  <2>1. queue[r] = <<ip[r]>> /\ pc[r] = "stage" /\ unstaged[r] = 1
    BY <1>0, <1>2 DEF TakeRequest, Take, Shape, Staging, Done
  <2>2. queue'[r] = <<>> /\ Head(queue[r]) = ip[r] /\ ip[r] \in Positions
    BY <1>0, <1>2, <2>1 DEF TakeRequest, Take, TypeOK, Shape
  <2>3. /\ worker[r] = "alive" /\ wsave'[r] = ip[r] /\ wpc'[r] = "preload"
        /\ \A q \in Ranks : q # r =>
             queue'[q] = queue[q] /\ wsave'[q] = wsave[q] /\ wpc'[q] = wpc[q]
    BY <1>0, <1>2, <2>1, <2>2 DEF TakeRequest, Take, TypeOK
  <2>4. queue' \in [Ranks -> Seq(Positions \cup {Done})]
    BY <1>0, <1>2, <2>1, <2>2, <2>3, TailAt DEF TakeRequest, Take, TypeOK
  <2>5. TypeOK'
    <3>1. QueueTypeOK'
      BY <1>0, <1>2 DEF TakeRequest, Take, queueVars, trainerVars, diskVars, TypeOK, QueueTypeOK
    <3> QED BY <1>0, <1>2, <2>1, <2>2, <2>3, <2>4, <3>1 DEF TakeRequest, Take, TypeOK, WorkerLabels
  <2>6. /\ pc'[r] = pc[r] /\ ip'[r] = ip[r] /\ fin'[r] = fin[r] /\ worker'[r] = worker[r]
        /\ wpc'[r] = "preload" /\ wsave'[r] = ip[r] /\ queue'[r] = <<>>
        /\ unstaged'[r] = unstaged[r]
    BY <1>0, <1>2, <2>1, <2>2, <2>3
       DEF TakeRequest, Take, queueVars, trainerVars, diskVars, TypeOK, QueueTypeOK
  <2>7. Shape(r)'
    BY <1>0, <1>2, <2>1, <2>2, <2>3, <2>6, PositionsAssumption, SMTT(30)
       DEF TakeRequest, Take, Shape, Staging, Done
  <2>8. \A q \in Ranks \ {r} : Unmoved(q)
    BY <1>0, <1>2, <2>1, <2>2, <2>3
       DEF TakeRequest, Take, queueVars, trainerVars, diskVars, Unmoved, TypeOK, QueueTypeOK
  <2> QED BY <1>0, <2>5, <2>7, <2>8, ShapeElsewhere DEF TypeInv
<1>3. CASE TakeDeadProxy(r)
  <2>1. queue[r] = <<ip[r]>> /\ pc[r] = "stage" /\ unstaged[r] = 1 /\ wpc[r] = "idle"
    BY <1>0, <1>3 DEF TakeDeadProxy, Take, Shape, Staging, Done
  <2>2. /\ queue'[r] = <<>> /\ worker'[r] = "dead"
        /\ \A q \in Ranks : q # r => queue'[q] = queue[q] /\ worker'[q] = worker[q]
    BY <1>0, <1>3, <2>1 DEF TakeDeadProxy, Take, TypeOK
  <2>3. queue' \in [Ranks -> Seq(Positions \cup {Done})]
    BY <1>0, <1>3, <2>1, <2>2, TailAt DEF TakeDeadProxy, Take, TypeOK
  <2>4. TypeOK'
    <3>1. QueueTypeOK'
      BY <1>0, <1>3 DEF TakeDeadProxy, Take, queueVars, trainerVars, diskVars, TypeOK, QueueTypeOK
    <3> QED BY <1>0, <1>3, <2>1, <2>2, <2>3, <3>1 DEF TakeDeadProxy, Take, TypeOK, WorkerLabels
  <2>5. /\ pc'[r] = pc[r] /\ ip'[r] = ip[r] /\ fin'[r] = fin[r] /\ worker'[r] = "dead"
        /\ wpc'[r] = wpc[r] /\ wsave'[r] = wsave[r] /\ queue'[r] = <<>>
        /\ unstaged'[r] = unstaged[r]
    BY <1>0, <1>3, <2>1, <2>2
       DEF TakeDeadProxy, Take, queueVars, trainerVars, diskVars, TypeOK, QueueTypeOK
  <2>6. Shape(r)'
    BY <1>0, <1>3, <2>1, <2>2, <2>5, PositionsAssumption DEF Shape, Staging, Done
  <2>7. \A q \in Ranks \ {r} : Unmoved(q)
    BY <1>0, <1>3, <2>1, <2>2
       DEF TakeDeadProxy, Take, queueVars, trainerVars, diskVars, Unmoved, TypeOK, QueueTypeOK
  <2> QED BY <1>0, <2>4, <2>6, <2>7, ShapeElsewhere DEF TypeInv
<1>4. CASE Preload(r)
  <2>1. queue[r] = <<>> /\ unstaged[r] = 1
    BY <1>0, <1>4 DEF Preload, Shape, Staging
  <2>2. snap' \in [Ranks -> [Positions -> Nat]]
    BY <1>0, <1>4, <2>1 DEF Preload, TypeOK, QueueTypeOK
  <2>3. TypeOK'
    <3>1. QueueTypeOK'
      BY <1>0, <1>4 DEF Preload, queueVars, trainerVars, diskVars, TypeOK, QueueTypeOK
    <3>2. wpc' \in [Ranks -> WorkerLabels]
      BY <1>0, <1>4 DEF Preload, TypeOK, WorkerLabels
    <3>3. unstaged' \in [Ranks -> Nat]
      BY <1>0, <1>4, <2>1 DEF Preload, TypeOK
    <3> QED BY <1>0, <1>4, <2>2, <3>1, <3>2, <3>3 DEF Preload, TypeOK
  <2>4. /\ wpc[r] = "preload" /\ wpc'[r] = "write" /\ unstaged'[r] = 0
        /\ pc'[r] = pc[r] /\ ip'[r] = ip[r] /\ fin'[r] = fin[r] /\ worker'[r] = worker[r]
        /\ wsave'[r] = wsave[r] /\ queue'[r] = queue[r]
    BY <1>0, <1>4, <2>1 DEF Preload, queueVars, trainerVars, TypeOK
  <2>5. Shape(r)'
    BY <1>0, <1>4, <2>1, <2>4 DEF Preload, queueVars, trainerVars, Shape, Staging, Done
  <2>6. \A q \in Ranks \ {r} : Unmoved(q)
    BY <1>0, <1>4 DEF Preload, queueVars, trainerVars, diskVars, Unmoved, TypeOK
  <2> QED BY <1>0, <2>3, <2>5, <2>6, ShapeElsewhere DEF TypeInv
<1>5. CASE WriteData(r)
  <2>1. written' \in [Positions -> SUBSET Ranks]
    BY <1>0, <1>5 DEF WriteData, TypeOK, QueueTypeOK
  <2>2. TypeOK'
    BY <1>0, <1>5, <2>1 DEF WriteData, trainerVars, TypeOK, QueueTypeOK, Labels, WorkerLabels
  <2>3. ASSUME NEW q \in Ranks PROVE Shape(q)'
    BY <1>0, <1>5 DEF WriteData, trainerVars, TypeOK, QueueTypeOK, Shape, Staging, Done
  <2> QED BY <2>2, <2>3 DEF TypeInv
<1>6. CASE Die(r)
  <2>1. TypeOK'
    BY <1>0, <1>6, FailuresAssumption
       DEF Die, trainerVars, diskVars, TypeOK, QueueTypeOK, Labels, WorkerLabels
  <2>2. ASSUME NEW q \in Ranks PROVE Shape(q)'
    BY <1>0, <1>6 DEF Die, trainerVars, diskVars, TypeOK, QueueTypeOK, Shape, Staging, Done
  <2> QED BY <2>1, <2>2 DEF TypeInv
<1> QED BY <1>1, <1>2, <1>3, <1>4, <1>5, <1>6

\* The worker puts its write result and reports the call.
LEMMA ReportType ==
  ASSUME TypeInv, NEW r \in Ranks, PutWriteResults(r) \/ PutWriteError(r) \/ Report(r)
  PROVE TypeInv'
<1>0. TypeOK /\ \A q \in Ranks : Shape(q)
  BY DEF TypeInv
<1>1. CASE PutWriteResults(r)
  <2>1. wsave[r] \in Positions
    BY <1>0, <1>1 DEF PutWriteResults, Shape
  <2>2. [save |-> wsave[r], ok |-> TRUE] \in Results
    BY <1>0, <1>1, <2>1 DEF Results
  <2>3. results' \in [Ranks -> Seq(Results)]
    BY <1>0, <1>1, <2>1, <2>2, AppendAt DEF PutWriteResults, PutResult, TypeOK, QueueTypeOK
  <2>4. TypeOK'
    BY <1>0, <1>1, <2>1, <2>2, <2>3
       DEF PutWriteResults, PutResult, trainerVars, diskVars, TypeOK, QueueTypeOK, Labels,
           WorkerLabels
  <2>5. ASSUME NEW q \in Ranks PROVE Shape(q)'
    BY <1>0, <1>1, <2>1, <2>2
       DEF PutWriteResults, PutResult, trainerVars, diskVars, TypeOK, QueueTypeOK, Shape, Staging,
           Done
  <2> QED BY <2>4, <2>5 DEF TypeInv
<1>2. CASE PutWriteError(r)
  <2>1. wsave[r] \in Positions
    BY <1>0, <1>2 DEF PutWriteError, Shape
  <2>2. [save |-> wsave[r], ok |-> FALSE] \in Results
    BY <1>0, <1>2, <2>1 DEF Results
  <2>3. results' \in [Ranks -> Seq(Results)]
    BY <1>0, <1>2, <2>1, <2>2, AppendAt DEF PutWriteError, PutResult, TypeOK, QueueTypeOK
  <2>4. TypeOK'
    BY <1>0, <1>2, <2>1, <2>2, <2>3, FailuresAssumption
       DEF PutWriteError, PutResult, trainerVars, diskVars, TypeOK, QueueTypeOK, Labels,
           WorkerLabels
  <2>5. ASSUME NEW q \in Ranks PROVE Shape(q)'
    BY <1>0, <1>2, <2>1, <2>2
       DEF PutWriteError, PutResult, trainerVars, diskVars, TypeOK, QueueTypeOK, Shape, Staging,
           Done
  <2> QED BY <2>4, <2>5 DEF TypeInv
<1>3. CASE Report(r)
  <2>1. wsave[r] \in Positions
    BY <1>0, <1>3 DEF Report, Shape
  <2>2. comp' \in [Ranks -> Seq(Positions)]
    BY <1>0, <1>3, <2>1, AppendAt DEF Report, TypeOK
  <2>3. TypeOK'
    BY <1>0, <1>3, <2>1, <2>2
       DEF Report, queueVars, trainerVars, diskVars, TypeOK, QueueTypeOK, Labels, WorkerLabels
  <2>4. ASSUME NEW q \in Ranks PROVE Shape(q)'
    BY <1>0, <1>3, <2>1
       DEF Report, queueVars, trainerVars, diskVars, TypeOK, QueueTypeOK, Shape, Staging, Done
  <2> QED BY <2>3, <2>4 DEF TypeInv
<1> QED BY <1>1, <1>2, <1>3

\* The steps of the queue a rank takes alone (AsyncCallsQueue).
LEMMA QueueStepType ==
  ASSUME TypeInv, NEW r \in Ranks, QueueStep(r), UNCHANGED workerVars
  PROVE TypeInv'
<1>0. TypeOK /\ \A q \in Ranks : Shape(q)
  BY DEF TypeInv
<1>1. CASE BeginFinalize(r)
  <2>1. TypeOK'
    BY <1>0, <1>1
       DEF BeginFinalize, Goto, diskVars, workerVars, callerVars, TypeOK, QueueTypeOK, Labels,
           WorkerLabels
  <2>2. ASSUME NEW q \in Ranks PROVE Shape(q)'
    BY <1>0, <1>1
       DEF BeginFinalize, Goto, diskVars, workerVars, callerVars, At, TypeOK, QueueTypeOK, Shape,
           Staging, Done
  <2> QED BY <2>1, <2>2 DEF TypeInv
<1>2. CASE QueueEmpty(r)
  <2>1. /\ ip' \in [Ranks -> Nat \ {0}] /\ pc' \in [Ranks -> Labels]
        /\ pc'[r] \in {"stop", "ready"}
        /\ \A q \in Ranks : q # r => ip'[q] = ip[q] /\ pc'[q] = pc[q]
    <3>1. CASE prog[ip[r]] = "close"
      BY <1>0, <1>2, <3>1 DEF QueueEmpty, Goto, TypeOK, QueueTypeOK, Labels
    <3>2. CASE prog[ip[r]] # "close"
      <4>1. NextOp(r) BY <1>2, <3>2 DEF QueueEmpty
      <4> QED BY <1>0, <4>1, NextOpType
    <3> QED BY <3>1, <3>2
  <2>2. TypeOK'
    BY <1>0, <1>2, <2>1 DEF QueueEmpty, diskVars, workerVars, callerVars, TypeOK, QueueTypeOK
  <2>3. Shape(r)'
    BY <1>0, <1>2, <2>1 DEF QueueEmpty, workerVars, callerVars, Shape, Staging, Done
  <2>4. \A q \in Ranks \ {r} : Unmoved(q)
    BY <1>2, <2>1 DEF QueueEmpty, workerVars, callerVars, Unmoved
  <2> QED BY <1>0, <2>2, <2>3, <2>4, ShapeElsewhere DEF TypeInv
<1>3. CASE Retrieve(r)
  <2>1. results' \in [Ranks -> Seq(Results)]
    <3>1. CASE r \in Writers[fin[r]] /\ results[r] # <<>>
      <4>1. results' = [results EXCEPT ![r] = Tail(results[r])]
        BY <1>3, <3>1 DEF Retrieve
      <4>2. results \in [Ranks -> Seq(Results)]
        BY <1>0 DEF TypeOK, QueueTypeOK
      <4> QED BY <3>1, <4>1, <4>2, TailAt
    <3>2. CASE ~(r \in Writers[fin[r]] /\ results[r] # <<>>)
      BY <1>0, <1>3, <3>2 DEF Retrieve, TypeOK, QueueTypeOK
    <3> QED BY <3>1, <3>2
  <2>2. got' \in [Ranks -> Results \cup {NoResult, MissingResult}]
    <3>1. CASE r \in Writers[fin[r]] /\ results[r] # <<>>
      <4>1. Head(results[r]) \in Results
        BY <1>0, <3>1, TailAt DEF TypeOK, QueueTypeOK
      <4> QED BY <1>0, <1>3, <3>1, <4>1 DEF Retrieve, TypeOK, QueueTypeOK
    <3>2. CASE ~(r \in Writers[fin[r]] /\ results[r] # <<>>)
      BY <1>0, <1>3, <3>2 DEF Retrieve, TypeOK, QueueTypeOK
    <3> QED BY <3>1, <3>2
  <2>3. TypeOK'
    BY <1>0, <1>3, <2>1, <2>2
       DEF Retrieve, Goto, diskVars, workerVars, callerVars, TypeOK, QueueTypeOK, Labels
  <2>4. ASSUME NEW q \in Ranks PROVE Shape(q)'
    BY <1>0, <1>3
       DEF Retrieve, Goto, diskVars, workerVars, callerVars, TypeOK, QueueTypeOK, Shape, Staging,
           Done
  <2> QED BY <2>3, <2>4 DEF TypeInv
<1>4. CASE ExecuteSync(r)
  <2>1. ip[r] \in Positions
    BY <1>0, <1>4, ProgramsAssumption DEF ExecuteSync, At, TypeOK, QueueTypeOK
  <2>2. /\ results' \in [Ranks -> Seq(Results)]
        /\ written' \in [Positions -> SUBSET Ranks]
        /\ failures' \in 0 .. MaxFailures
    <3>1. CASE r \notin Writers[ip[r]]
      BY <1>0, <1>4, <3>1 DEF ExecuteSync, TypeOK, QueueTypeOK
    <3>2. CASE r \in Writers[ip[r]]
      <4>1. PICK ok \in BOOLEAN :
              /\ ok \/ failures < MaxFailures
              /\ failures' = IF ok THEN failures ELSE failures + 1
              /\ written' = IF ok THEN [written EXCEPT ![ip[r]] = @ \cup {r}] ELSE written
              /\ results' = [results EXCEPT ![r] = Append(@, [save |-> ip[r], ok |-> ok])]
        BY <1>4, <3>2 DEF ExecuteSync
      <4>2. [save |-> ip[r], ok |-> ok] \in Results
        BY <2>1 DEF Results
      <4>3. results' \in [Ranks -> Seq(Results)]
        BY <1>0, <4>1, <4>2, AppendAt DEF TypeOK, QueueTypeOK
      <4>4. written' \in [Positions -> SUBSET Ranks]
        BY <1>0, <2>1, <4>1 DEF TypeOK, QueueTypeOK
      <4>5. failures' \in 0 .. MaxFailures
        BY <1>0, <4>1, FailuresAssumption DEF TypeOK, QueueTypeOK
      <4> QED BY <4>3, <4>4, <4>5
    <3> QED BY <3>1, <3>2
  <2>3. TypeOK'
    BY <1>0, <1>4, <2>1, <2>2
       DEF ExecuteSync, Goto, diskVars, workerVars, callerVars, TypeOK, QueueTypeOK, Labels
  <2>4. ASSUME NEW q \in Ranks PROVE Shape(q)'
    BY <1>0, <1>4, <2>1
       DEF ExecuteSync, Goto, workerVars, callerVars, At, TypeOK, QueueTypeOK, Shape, Staging, Done
  <2> QED BY <2>3, <2>4 DEF TypeInv
<1> QED BY <1>1, <1>2, <1>3, <1>4 DEF QueueStep

\* The steps all ranks take together.
LEMMA CollectiveType ==
  ASSUME TypeInv, Collective
  PROVE TypeInv'
<1>0. TypeOK /\ \A q \in Ranks : Shape(q)
  BY DEF TypeInv
<1>1. CASE ReduceAlive /\ AllDone
  <2>1. /\ \A r \in Ranks : Head(calls[r]) \in Positions
        /\ calls' \in [Ranks -> Seq(Positions)]
    <3>1. \A r \in Ranks : calls[r] \in Seq(Positions) /\ calls[r] # <<>>
      BY <1>0, <1>1 DEF ReduceAlive, AllAt, Shape, TypeOK, QueueTypeOK
    <3>2. \A r \in Ranks : Head(calls[r]) \in Positions /\ Tail(calls[r]) \in Seq(Positions)
      BY <3>1
    <3> QED BY <1>1, <3>2 DEF ReduceAlive, StartFinalize
  <2>2. TypeOK'
    <3>1. fin' \in [Ranks -> Positions \cup {0}] /\ pc' \in [Ranks -> Labels]
      BY <1>1, <2>1 DEF ReduceAlive, StartFinalize, NextCall, Labels
    <3>2. QueueTypeOK'
      BY <1>0, <1>1, <2>1, <3>1 DEF ReduceAlive, StartFinalize, diskVars, TypeOK, QueueTypeOK
    <3> QED BY <1>0, <1>1, <3>2 DEF ReduceAlive, TypeOK
  <2>3. ASSUME NEW q \in Ranks PROVE Shape(q)'
    <3>1. pc[q] = "reduce" /\ pc'[q] = "retrieve" /\ fin'[q] \in Positions
      BY <1>1, <2>1 DEF ReduceAlive, StartFinalize, NextCall, AllAt
    <3> QED BY <1>0, <1>1, <3>1 DEF ReduceAlive, Shape, Staging, Done
  <2> QED BY <2>2, <2>3 DEF TypeInv
<1>2. CASE ReduceAlive /\ ~AllDone
  <2>1. TypeOK'
    BY <1>0, <1>2 DEF ReduceAlive, LeaveLoop, diskVars, TypeOK, QueueTypeOK, Labels
  <2>2. ASSUME NEW q \in Ranks PROVE Shape(q)'
    <3>1. pc[q] = "reduce" /\ pc'[q] = "ready"
      BY <1>2 DEF ReduceAlive, LeaveLoop, AllAt
    <3> QED BY <1>0, <1>2, <3>1 DEF ReduceAlive, Shape, Staging, Done
  <2> QED BY <2>1, <2>2 DEF TypeInv
<1>3. CASE GatherResults /\ UNCHANGED workerVars
  <2>1. fin[Coordinator] \in Positions
    BY <1>0, <1>3, RanksAssumption DEF GatherResults, AllAt, Shape
  <2>2. TypeOK'
    BY <1>0, <1>3, <2>1 DEF GatherResults, workerVars, callerVars, TypeOK, QueueTypeOK, Labels
  <2>3. ASSUME NEW q \in Ranks PROVE Shape(q)'
    BY <1>0, <1>3
       DEF GatherResults, AllAt, workerVars, callerVars, TypeOK, QueueTypeOK, Shape, Staging, Done
  <2> QED BY <2>2, <2>3 DEF TypeInv
<1>4. CASE SaveMetadataJson /\ UNCHANGED workerVars
  <2>1. fin[Coordinator] \in Positions
    BY <1>0, <1>4, RanksAssumption DEF SaveMetadataJson, AllAt, Shape
  <2> /\ ip' \in [Ranks -> Nat \ {0}]
      /\ pc' \in [Ranks -> Labels]
    BY <1>0, <1>4 DEF SaveMetadataJson, TypeOK, QueueTypeOK, Labels
  <2>2. TypeOK'
    BY <1>0, <1>4, <2>1 DEF SaveMetadataJson, workerVars, callerVars, TypeOK, QueueTypeOK, Labels
  <2>3. ASSUME NEW q \in Ranks PROVE Shape(q)'
    BY <1>0, <1>4
       DEF SaveMetadataJson, AllAt, workerVars, callerVars, TypeOK, QueueTypeOK, Shape, Staging,
           Done
  <2> QED BY <2>2, <2>3 DEF TypeInv
<1>5. CASE AgreeOnCallIdx /\ UNCHANGED workerVars
  <2>1. \A r \in Ranks : fin[r] \in Positions
    BY <1>0, <1>5 DEF AgreeOnCallIdx, AllAt, Shape
  <2>2. finalized' \in [Ranks -> Seq(Positions)]
    <3>1. \A r \in Ranks : Append(finalized[r], fin[r]) \in Seq(Positions)
      BY <1>0, <2>1 DEF TypeOK, QueueTypeOK
    <3> QED BY <1>0, <1>5, <3>1 DEF AgreeOnCallIdx, TypeOK, QueueTypeOK
  <2>3. TypeOK'
    BY <1>0, <1>5, <2>2
       DEF AgreeOnCallIdx, diskVars, workerVars, callerVars, TypeOK, QueueTypeOK, Labels
  <2>4. ASSUME NEW q \in Ranks PROVE Shape(q)'
    BY <1>0, <1>5
       DEF AgreeOnCallIdx, AllAt, workerVars, callerVars, TypeOK, QueueTypeOK, Shape, Staging, Done
  <2> QED BY <2>3, <2>4 DEF TypeInv
<1>6. CASE SyncBarrier /\ UNCHANGED workerVars
  <2>1. TypeOK'
    BY <1>0, <1>6 DEF SyncBarrier, diskVars, workerVars, callerVars, TypeOK, QueueTypeOK, Labels
  <2>2. ASSUME NEW q \in Ranks PROVE Shape(q)'
    BY <1>0, <1>6
       DEF SyncBarrier, AllAt, workerVars, callerVars, TypeOK, QueueTypeOK, Shape, Staging, Done
  <2> QED BY <2>1, <2>2 DEF TypeInv
<1> QED BY <1>1, <1>2, <1>3, <1>4, <1>5, <1>6 DEF Collective, QueueCollective, ReduceAlive

\* An in-process restart drops the callers of all ranks.
LEMMA RestartType ==
  ASSUME TypeInv, Restart
  PROVE TypeInv'
<1>0. TypeOK /\ \A q \in Ranks : Shape(q)
  BY DEF TypeInv
<1>1. ip' \in [Ranks -> Nat \ {0}]
  BY <1>0, ProgramsAssumption DEF Restart, TypeOK, QueueTypeOK
<1>2. TypeOK'
  BY <1>0, <1>1 DEF Restart, diskVars, TypeOK, QueueTypeOK, Labels, WorkerLabels
<1>3. ASSUME NEW q \in Ranks PROVE Shape(q)'
  BY <1>0 DEF Restart, Shape, Staging, Done
<1> QED BY <1>2, <1>3 DEF TypeInv

\* Every step keeps the types and the shape.
LEMMA TypeStep == TypeInv /\ [Next]_vars => TypeInv'
<1> SUFFICES ASSUME TypeInv, [Next]_vars PROVE TypeInv'
  OBVIOUS
<1>1. ASSUME NEW r \in Ranks, TrainerStep(r) PROVE TypeInv'
  BY <1>1, QueueStepType, ScheduleType, PollType, CloseType DEF TrainerStep
<1>2. ASSUME NEW r \in Ranks, WorkerStep(r) \/ Failure(r) PROVE TypeInv'
  BY <1>2, WorkerType, ReportType DEF WorkerStep, Failure
<1>3. CASE UNCHANGED vars
  BY <1>3
     DEF vars, queueVars, trainerVars, diskVars, workerVars, callerVars, TypeInv, TypeOK,
         QueueTypeOK, Shape, Staging
<1> QED BY <1>1, <1>2, <1>3, CollectiveType, RestartType DEF Next, Terminating

(***************************************************************************)
(* The queues, the deque and the labels keep their types, in every program *)
(* and whatever writers fail and restarts happen; above all unstaged, the  *)
(* count of unfinished tasks of preload_q, never goes below zero, where    *)
(* task_done would raise.                                                  *)
(***************************************************************************)
THEOREM TypeCorrect == Spec => []TypeOK
<1>1. TypeInv => TypeOK
  BY DEF TypeInv
<1> QED BY <1>1, TypeInit, TypeStep, PTL DEF Spec
------------------------------------------------------------------------------
(***************************************************************************)
(* What the worker has in hand was staged at the position of its save: the *)
(* trainer cannot move on while a request is being preloaded.              *)
(***************************************************************************)
StagedInTime(r) ==
  /\ wpc[r] = "preload" => wsave[r] = ip[r]
  /\ wpc[r] \in {"write", "put", "report"} => snap[r][wsave[r]] = wsave[r]

Snapshots == SnapshotOfSameStep /\ \A r \in Ranks : StagedInTime(r)

\* A rank whose worker stays where it is, and which does not move while the
\* worker is staging, keeps what it has staged.
LEMMA WorkerRests ==
  ASSUME TypeInv, NEW r \in Ranks, StagedInTime(r), UNCHANGED snap,
         wpc'[r] = wpc[r], wsave'[r] = wsave[r], wpc[r] = "preload" => ip'[r] = ip[r]
  PROVE StagedInTime(r)'
BY DEF StagedInTime

\* The trainers leave the snapshots alone, and a rank that waits for the staging
\* stays at its save.
LEMMA TrainerSnapshots ==
  ASSUME TypeInv, Snapshots, UNCHANGED <<prog, snap, wpc, wsave>>,
         \A r \in Ranks : wpc[r] = "preload" => ip'[r] = ip[r],
         \A s \in Positions : \A r \in written'[s] : r \in written[s] \/ prog[s] # "save"
  PROVE Snapshots'
<1>1. SnapshotOfSameStep'
  BY DEF Snapshots, SnapshotOfSameStep
<1>2. ASSUME NEW r \in Ranks PROVE StagedInTime(r)'
  BY <1>2, WorkerRests DEF Snapshots
<1> QED BY <1>1, <1>2 DEF Snapshots

\* Where rank r is while its worker stages a request.
LEMMA StagingWaits ==
  ASSUME TypeInv, NEW r \in Ranks, wpc[r] = "preload"
  PROVE pc[r] = "stage" /\ unstaged[r] = 1 /\ ip[r] \in Positions
BY DEF TypeInv, Shape, Staging

\* A trainer that moves on has nothing left to stage.
LEMMA MovesOnSnapshots ==
  ASSUME TypeInv, Snapshots, NEW r \in Ranks, TrainerStep(r)
  PROVE Snapshots'
<1>0. TypeOK
  BY DEF TypeInv
<1>1. UNCHANGED <<prog, snap, wpc, wsave>>
  BY DEF TrainerStep, QueueStep, BeginFinalize, QueueEmpty, Retrieve, ExecuteSync, ScheduleNoop,
         ScheduleCall, ResumeWhenStaged, PollKnown, PollCompleted, PollPending, Poll,
         CloseNothing, SendDone, JoinWorker, NoFault, workerVars, callerVars
<1>2. \A q \in Ranks \ {r} : ip'[q] = ip[q]
  BY <1>0 DEF TrainerStep, QueueStep, BeginFinalize, QueueEmpty, Retrieve, ExecuteSync,
         ScheduleNoop, ScheduleCall, ResumeWhenStaged, PollKnown, PollCompleted, PollPending, Poll,
         CloseNothing, SendDone, JoinWorker, NoFault, NextOp, Goto, TypeOK, QueueTypeOK
<1>3. pc[r] = "stage" => unstaged[r] = 0
  BY DEF TrainerStep, QueueStep, BeginFinalize, QueueEmpty, Retrieve, ExecuteSync,
         ScheduleNoop, ScheduleCall, ResumeWhenStaged, PollKnown, PollCompleted, PollPending, Poll,
         CloseNothing, SendDone, JoinWorker, NoFault, At
<1>4. wpc[r] # "preload"
  BY <1>3, StagingWaits
<1>5. \A s \in Positions : \A q \in written'[s] : q \in written[s] \/ prog[s] # "save"
  <2>1. CASE ExecuteSync(r)
    <3>1. prog[ip[r]] = "sync"
      BY <2>1 DEF ExecuteSync, At
    <3>2. \/ written' = written
          \/ written' = [written EXCEPT ![ip[r]] = @ \cup {r}]
      BY <2>1 DEF ExecuteSync
    <3> QED BY <1>0, <3>1, <3>2 DEF TypeOK, QueueTypeOK
  <2>2. CASE ~ExecuteSync(r)
    <3>1. written' = written
      BY <2>2 DEF TrainerStep, QueueStep, BeginFinalize, QueueEmpty, Retrieve,
         ScheduleNoop, ScheduleCall, ResumeWhenStaged, PollKnown, PollCompleted, PollPending, Poll,
         CloseNothing, SendDone, JoinWorker, NoFault, diskVars
    <3> QED BY <3>1
  <2> QED BY <2>1, <2>2
<1> QED BY <1>1, <1>2, <1>4, <1>5, TrainerSnapshots

\* The worker stages the request it took, and writes what it staged.
LEMMA WorkerSnapshots ==
  ASSUME TypeInv, Snapshots, NEW r \in Ranks, WorkerStep(r) \/ Failure(r)
  PROVE Snapshots'
<1>0. TypeOK /\ StagedInTime(r) /\ SnapshotOfSameStep
  BY DEF TypeInv, Snapshots
<1>1. prog' = prog /\ ip' = ip
  BY DEF WorkerStep, Failure, TakeDone, TakeRequest, TakeDeadProxy, Take, Preload, WriteData,
         PutWriteResults, PutWriteError, PutResult, Report, Die, queueVars, trainerVars
<1>2. CASE Preload(r)
  <2>1. /\ wpc[r] = "preload" /\ wsave[r] = ip[r] /\ ip[r] \in Positions
        /\ snap' = [snap EXCEPT ![r][wsave[r]] = ip[r]] /\ wpc' = [wpc EXCEPT ![r] = "write"]
        /\ wsave' = wsave /\ written' = written
    BY <1>0, <1>2, StagingWaits DEF Preload, StagedInTime, queueVars, diskVars
  <2>2. /\ \A q \in Ranks, s \in Positions : q # r \/ s # ip[r] => snap'[q][s] = snap[q][s]
        /\ snap'[r][ip[r]] = ip[r]
    BY <1>0, <2>1 DEF TypeOK
  <2>3. SnapshotOfSameStep'
    <3>1. ASSUME NEW s \in Positions, NEW q \in written[s], prog[s] = "save"
          PROVE snap'[q][s] = s
      <4>1. snap[q][s] = s /\ q \in Ranks
        BY <1>0, <3>1 DEF SnapshotOfSameStep, TypeOK, QueueTypeOK
      <4> QED BY <2>2, <4>1
    <3> QED BY <1>1, <2>1, <3>1 DEF SnapshotOfSameStep
  <2>4. ASSUME NEW q \in Ranks PROVE StagedInTime(q)'
    <3>1. CASE q = r
      BY <1>0, <2>1, <2>2, <3>1 DEF StagedInTime, TypeOK
    <3>2. CASE q # r
      <4>1. wpc'[q] = wpc[q] /\ wsave'[q] = wsave[q] /\ StagedInTime(q)
        BY <2>1, <3>2, <1>0 DEF Snapshots, TypeOK
      <4>2. wpc[q] # "idle" => wsave[q] \in Positions
        BY DEF TypeInv, Shape
      <4> QED BY <1>1, <2>2, <3>2, <4>1, <4>2 DEF StagedInTime
    <3> QED BY <3>1, <3>2
  <2> QED BY <2>3, <2>4 DEF Snapshots
<1>3. CASE WriteData(r)
  <2>1. /\ wpc[r] = "write" /\ wsave[r] \in Positions
        /\ written' = [written EXCEPT ![wsave[r]] = @ \cup {r}]
        /\ wpc' = [wpc EXCEPT ![r] = "put"] /\ wsave' = wsave /\ snap' = snap
    BY <1>3 DEF WriteData, TypeInv, Shape
  <2>2. SnapshotOfSameStep'
    BY <1>0, <1>1, <2>1 DEF SnapshotOfSameStep, StagedInTime, TypeOK, QueueTypeOK
  <2>3. ASSUME NEW q \in Ranks PROVE StagedInTime(q)'
    BY <1>0, <1>1, <2>1 DEF Snapshots, StagedInTime, TypeOK
  <2> QED BY <2>2, <2>3 DEF Snapshots
<1>4. CASE TakeRequest(r)
  <2>1. /\ wsave' = [wsave EXCEPT ![r] = Head(queue[r])] /\ wpc' = [wpc EXCEPT ![r] = "preload"]
        /\ snap' = snap /\ written' = written
    BY <1>4 DEF TakeRequest, Take, queueVars, diskVars
  <2>2. Head(queue[r]) = ip[r]
    BY <1>4 DEF TakeRequest, Take, TypeInv, Shape, Staging, Done
  <2>3. ASSUME NEW q \in Ranks PROVE StagedInTime(q)'
    BY <1>0, <1>1, <2>1, <2>2 DEF Snapshots, StagedInTime, TypeOK
  <2> QED BY <1>0, <1>1, <2>1, <2>3 DEF Snapshots, SnapshotOfSameStep
<1>5. CASE PutWriteResults(r) \/ PutWriteError(r) \/ Report(r)
  <2>1. /\ snap' = snap /\ written' = written
        /\ \/ /\ wsave' = wsave /\ wpc[r] \in {"write", "put"}
              /\ wpc' = [wpc EXCEPT ![r] = "report"]
           \/ /\ wsave' = [wsave EXCEPT ![r] = 0] /\ wpc' = [wpc EXCEPT ![r] = "idle"]
    BY <1>5 DEF PutWriteResults, PutWriteError, PutResult, Report, queueVars, diskVars
  <2>2. ASSUME NEW q \in Ranks PROVE StagedInTime(q)'
    BY <1>0, <1>1, <2>1 DEF Snapshots, StagedInTime, TypeOK
  <2> QED BY <1>0, <1>1, <2>1, <2>2 DEF Snapshots, SnapshotOfSameStep
<1>6. CASE TakeDone(r) \/ TakeDeadProxy(r) \/ Die(r)
  <2>1. UNCHANGED <<snap, wpc, wsave, written>>
    BY <1>6 DEF TakeDone, TakeDeadProxy, Take, Die, queueVars, diskVars
  <2> QED BY <1>1, <2>1, TrainerSnapshots
<1> QED BY <1>2, <1>3, <1>4, <1>5, <1>6 DEF WorkerStep, Failure

\* The collectives happen while no rank waits for its staging.
LEMMA CollectiveSnapshots ==
  ASSUME TypeInv, Snapshots, Collective
  PROVE Snapshots'
<1>1. UNCHANGED <<prog, snap, wpc, wsave, written>>
  BY DEF Collective, QueueCollective, ReduceAlive, GatherResults, SaveMetadataJson,
         AgreeOnCallIdx, SyncBarrier, workerVars, callerVars, diskVars
<1>2. \A r \in Ranks : pc[r] # "stage"
  BY DEF Collective, QueueCollective, ReduceAlive, GatherResults, SaveMetadataJson,
         AgreeOnCallIdx, SyncBarrier, AllAt
<1> QED BY <1>1, <1>2, StagingWaits, TrainerSnapshots

\* After a restart nothing is in hand; the snapshots of written data stay.
LEMMA RestartSnapshots ==
  ASSUME TypeInv, Snapshots, Restart
  PROVE Snapshots'
BY DEF Restart, Snapshots, SnapshotOfSameStep, StagedInTime, diskVars

\* Every step keeps the snapshots in time.
LEMMA SnapshotStep == TypeInv /\ Snapshots /\ [Next]_vars => Snapshots'
<1> SUFFICES ASSUME TypeInv, Snapshots, [Next]_vars PROVE Snapshots'
  OBVIOUS
<1>1. CASE UNCHANGED vars
  BY <1>1, TrainerSnapshots DEF vars, queueVars, trainerVars, diskVars, workerVars, callerVars
<1> QED BY <1>1, MovesOnSnapshots, WorkerSnapshots, CollectiveSnapshots, RestartSnapshots
        DEF Next, Terminating

(***************************************************************************)
(* All ranks write in a save the weights of one point of the training      *)
(* loop, in every program and whatever fails or restarts: the join of      *)
(* preload_q in schedule_async_call holds the trainer until its worker has *)
(* copied the tensors.                                                     *)
(***************************************************************************)
THEOREM SnapshotCorrect == Spec => []SnapshotOfSameStep
<1>1. Init => Snapshots
  BY DEF Init, QueueInit, Snapshots, SnapshotOfSameStep, StagedInTime
<1>2. Snapshots => SnapshotOfSameStep
  BY DEF Snapshots
<1> QED BY <1>1, <1>2, TypeInit, TypeStep, SnapshotStep, PTL DEF Spec
------------------------------------------------------------------------------
(***************************************************************************)
(* Proof that the ranks agree on the saves they finalize and on their      *)
(* order, through PersistentAsync, for programs of asynchronous saves.     *)
(***************************************************************************)

\* Programs of asynchronous saves only: no synchronous save, no in-process restart.
Plain == \A p \in Programs : \A i \in 1 .. Len(p) : p[i] \notin {"sync", "fault"}

\* The elements of a sequence; it is strictly increasing.
Elems(q) == {q[i] : i \in 1 .. Len(q)}
Rising(q) == \A i, j \in 1 .. Len(q) : i < j => q[i] < q[j]
------------------------------------------------------------------------------
(***************************************************************************)
(* Agreement of the ranks.  The saves that a rank has scheduled and no     *)
(* longer holds in its deque are the same for all ranks, at whatever       *)
(* operation each of them is; so the heads they pop together are equal.    *)
(***************************************************************************)
\* What r holds in its deque, and all it has scheduled.
Calls(r) == Elems(calls[r])
Passed(r) == {s \in Positions : s < ip[r] /\ s =< Len(prog) /\ prog[s] = "save"}

InOp(r, ops) == ip[r] \in 1 .. Len(prog) /\ prog[ip[r]] \in ops

FinalizeLabels == {"retrieve", "gather", "json", "agree"}

\* In which operation of its program r is.
OpShape(r) ==
  /\ pc[r] \in FinalizeLabels \cup {"loop", "reduce", "stop", "stopping"} =>
       InOp(r, {"poll", "drain", "close"})
  /\ pc[r] = "stage" => InOp(r, {"save"})
  /\ pc[r] \notin {"barrier", "unmatched"}

\* Save s is behind rank r: scheduled, and before everything it still holds.
Behind(r, s) == s < ip[r] /\ \A c \in Calls(r) : s < c

Deque(r) ==
  /\ OpShape(r)
  /\ Rising(calls[r])
  /\ Calls(r) \subseteq Passed(r)
  /\ pc[r] \in FinalizeLabels => Behind(r, fin[r])

\* What r has finalized is before all it still has to.
History(r) ==
  /\ Rising(finalized[r])
  /\ \A s \in Elems(finalized[r]) : Behind(r, s)
  /\ pc[r] \in FinalizeLabels => \A s \in Elems(finalized[r]) : s < fin[r]

SameHistory(r, q) ==
  /\ fin[r] = fin[q]
  /\ finalized[r] = finalized[q]
  /\ Passed(r) \ Calls(r) = Passed(q) \ Calls(q)

Agreement ==
  /\ \A r \in Ranks : Deque(r) /\ History(r)
  /\ \A r, q \in Ranks : SameHistory(r, q)
------------------------------------------------------------------------------
\* Appending a larger element keeps a sequence rising.
LEMMA RisingAppend ==
  ASSUME NEW S \in SUBSET Nat, NEW q \in Seq(S), NEW x \in S, Rising(q),
         \A s \in Elems(q) : s < x
  PROVE Rising(Append(q, x)) /\ Elems(Append(q, x)) = Elems(q) \cup {x}
<1> DEFINE p == Append(q, x)
<1>1. /\ Len(p) = Len(q) + 1 /\ p[Len(q) + 1] = x
      /\ \A i \in 1 .. Len(q) : p[i] = q[i]
  OBVIOUS
<1>2. Rising(p)
  <2>1. ASSUME NEW i \in 1 .. Len(p), NEW j \in 1 .. Len(p), i < j PROVE p[i] < p[j]
    <3>1. i \in 1 .. Len(q)
      BY <1>1, <2>1
    <3>2. CASE j = Len(q) + 1
      BY <1>1, <3>1, <3>2 DEF Elems
    <3>3. CASE j \in 1 .. Len(q)
      BY <1>1, <2>1, <3>1, <3>3 DEF Rising
    <3> QED BY <1>1, <3>2, <3>3
  <2> QED BY <2>1 DEF Rising
<1>3. Elems(p) = Elems(q) \cup {x}
  <2>1. ASSUME NEW s \in Elems(p) PROVE s \in Elems(q) \cup {x}
    BY <1>1, <2>1 DEF Elems
  <2>2. ASSUME NEW s \in Elems(q) PROVE s \in Elems(p)
    BY <1>1, <2>2 DEF Elems
  <2>3. x \in Elems(p)
    BY <1>1 DEF Elems
  <2> QED BY <2>1, <2>2, <2>3
<1> QED BY <1>2, <1>3

\* The head of a rising sequence is its least element, and taking it removes it.
LEMMA RisingTail ==
  ASSUME NEW S \in SUBSET Nat, NEW q \in Seq(S), Rising(q), q # <<>>
  PROVE /\ Head(q) \in Elems(q) /\ Rising(Tail(q))
        /\ Elems(Tail(q)) = Elems(q) \ {Head(q)}
        /\ \A s \in Elems(Tail(q)) : Head(q) < s
<1> DEFINE p == Tail(q)
<1>1. /\ Len(q) \in Nat /\ Len(q) >= 1 /\ Len(p) = Len(q) - 1 /\ Head(q) = q[1]
      /\ \A i \in 1 .. Len(p) : p[i] = q[i + 1]
      /\ \A i \in 1 .. Len(q) : q[i] \in S
  OBVIOUS
<1>2. Head(q) \in Elems(q)
  BY <1>1 DEF Elems
<1>3. Rising(p)
  BY <1>1 DEF Rising
<1>4. ASSUME NEW s \in Elems(p) PROVE s \in Elems(q) /\ Head(q) < s
  <2>1. PICK i \in 1 .. Len(p) : s = p[i]
    BY <1>4 DEF Elems
  <2>2. s = q[i + 1] /\ i + 1 \in 1 .. Len(q) /\ 1 \in 1 .. Len(q) /\ 1 < i + 1
    BY <1>1, <2>1
  <2> QED BY <1>1, <2>2 DEF Elems, Rising
<1>5. ASSUME NEW s \in Elems(q), s # Head(q) PROVE s \in Elems(p)
  <2>1. PICK i \in 1 .. Len(q) : s = q[i]
    BY <1>5 DEF Elems
  <2>2. i - 1 \in 1 .. Len(p) /\ p[i - 1] = s
    BY <1>1, <1>5, <2>1
  <2> QED BY <2>2 DEF Elems
<1>6. Head(q) \in Nat
  <2>1. 1 \in 1 .. Len(q)
    BY <1>1
  <2> QED BY <1>1, <2>1
<1> QED BY <1>2, <1>3, <1>4, <1>5, <1>6

\* A step keeps what rank r has given up, and what its labels say of it.
Keeps(r) ==
  /\ OpShape(r)'
  /\ Rising(calls[r])'
  /\ Calls(r)' \subseteq Passed(r)'
  /\ Passed(r)' \ Calls(r)' = Passed(r) \ Calls(r)
  /\ pc'[r] \in FinalizeLabels => pc[r] \in FinalizeLabels
  /\ ip'[r] \in Nat /\ ip[r] =< ip'[r]
  /\ \A c \in Calls(r)' : c \in Calls(r) \/ c >= ip[r]

\* A step that moves program counters or schedules saves, and keeps what every
\* rank has given up, keeps the agreement.
LEMMA AllKeepAgrees ==
  ASSUME TypeInv, Agreement, UNCHANGED <<prog, fin, finalized>>, \A r \in Ranks : Keeps(r)
  PROVE Agreement'
<1>1. ASSUME NEW r \in Ranks PROVE Deque(r)' /\ History(r)'
  <2>1. /\ Deque(r) /\ History(r) /\ Keeps(r)
        /\ ip[r] \in Nat /\ ip'[r] \in Nat
        /\ Calls(r)' \subseteq Nat
    BY PositionsAssumption DEF Agreement, TypeInv, TypeOK, QueueTypeOK, Passed, Keeps
  <2>2. ASSUME NEW s \in Nat, Behind(r, s) PROVE Behind(r, s)'
    BY <2>1, <2>2 DEF Behind, Keeps
  <2>3. Elems(finalized[r]) \subseteq Positions /\ Positions \subseteq Nat
    <3>1. finalized[r] \in Seq(Positions)
      BY DEF TypeInv, TypeOK, QueueTypeOK
    <3>2. \A i \in 1 .. Len(finalized[r]) : finalized[r][i] \in Positions
      BY <3>1
    <3> QED BY <3>2, PositionsAssumption DEF Elems
  <2>31. pc[r] \in FinalizeLabels => fin[r] \in Positions
    BY DEF TypeInv, Shape, FinalizeLabels
  <2>4. Deque(r)'
    BY <2>1, <2>2, <2>3, <2>31 DEF Deque, Keeps
  <2>5. History(r)'
    BY <2>1, <2>2, <2>3, <2>31 DEF History, Keeps
  <2> QED BY <2>4, <2>5
<1>2. ASSUME NEW p \in Ranks, NEW q \in Ranks PROVE SameHistory(p, q)'
  BY DEF Agreement, SameHistory, Keeps
<1> QED BY <1>1, <1>2 DEF Agreement

\* A rank that a step leaves alone.
LEMMA UntouchedKeeps ==
  ASSUME TypeInv, Agreement, NEW q \in Ranks, prog' = prog,
         ip'[q] = ip[q], pc'[q] = pc[q], calls'[q] = calls[q]
  PROVE Keeps(q)
<1>1. Calls(q)' = Calls(q) /\ Passed(q)' = Passed(q)
  BY DEF Calls, Passed
<1>2. Deque(q) /\ ip[q] \in Nat
  BY DEF Agreement, TypeInv, TypeOK, QueueTypeOK
<1> QED BY <1>1, <1>2 DEF Keeps, Deque, OpShape, InOp

\* A rank that goes on without scheduling a save.
LEMMA MovedKeeps ==
  ASSUME TypeInv, Agreement, NEW r \in Ranks, prog' = prog, calls' = calls,
         OpShape(r)', Passed(r)' = Passed(r), ip'[r] \in Nat, ip[r] =< ip'[r],
         pc'[r] \in FinalizeLabels => pc[r] \in FinalizeLabels
  PROVE Keeps(r)
<1>1. Calls(r)' = Calls(r) /\ Rising(calls[r])' /\ Calls(r) \subseteq Passed(r)
  BY DEF Agreement, Deque, Calls
<1> QED BY <1>1 DEF Keeps

\* Nothing the agreement is about changes.
LEMMA NothingAgrees ==
  ASSUME Agreement, UNCHANGED <<prog, ip, pc, calls, fin, finalized>>
  PROVE Agreement'
BY DEF Agreement, Deque, History, SameHistory, Behind, OpShape, InOp, Calls, Passed

\* Passing an operation that is no save.
LEMMA PassOver ==
  ASSUME TypeOK, NEW r \in Ranks, prog' = prog, ip'[r] = ip[r] + 1, prog[ip[r]] # "save"
  PROVE Passed(r)' = Passed(r)
<1>1. ip[r] \in Nat /\ Positions \subseteq Nat
  BY PositionsAssumption DEF TypeOK, QueueTypeOK
<1>2. ASSUME NEW s \in Positions PROVE s < ip'[r] <=> s < ip[r] \/ s = ip[r]
  BY <1>1
<1>3. ASSUME NEW s \in Positions PROVE s \in Passed(r)' <=> s \in Passed(r)
  BY <1>2 DEF Passed
<1>4. Passed(r) \subseteq Positions /\ Passed(r)' \subseteq Positions
  BY DEF Passed
<1> QED BY <1>3, <1>4

\* A rank alone moves on inside an operation, or to the next one unless it is at
\* a save: the agreement is kept.
LEMMA MoveAgrees ==
  ASSUME TypeInv, Agreement, NEW r \in Ranks,
         UNCHANGED <<prog, calls, fin, finalized>>,
         \/ \E label \in Labels : Goto(r, label)
         \/ NextOp(r) /\ prog[ip[r]] # "save",
         OpShape(r)',
         pc'[r] \in FinalizeLabels => pc[r] \in FinalizeLabels
  PROVE Agreement'
<1>1. /\ ip'[r] \in Nat
      /\ \A q \in Ranks : q # r => ip'[q] = ip[q] /\ pc'[q] = pc[q]
      /\ ip[r] =< ip'[r] /\ Passed(r)' = Passed(r)
  <2>1. CASE \E label \in Labels : Goto(r, label)
    <3>1. ip' = ip /\ \A q \in Ranks : q # r => pc'[q] = pc[q]
      BY <2>1 DEF Goto, TypeInv, TypeOK, QueueTypeOK
    <3>2. Passed(r)' = Passed(r)
      BY <3>1 DEF Passed
    <3> QED BY <3>1, <3>2 DEF TypeInv, TypeOK, QueueTypeOK
  <2>2. CASE NextOp(r) /\ prog[ip[r]] # "save"
    <3>1. /\ ip' \in [Ranks -> Nat \ {0}] /\ ip'[r] = ip[r] + 1
          /\ \A q \in Ranks : q # r => ip'[q] = ip[q] /\ pc'[q] = pc[q]
      BY <2>2, NextOpType DEF TypeInv
    <3>2. Passed(r)' = Passed(r)
      BY <2>2, <3>1, PassOver DEF TypeInv
    <3> QED BY <3>1, <3>2 DEF TypeInv, TypeOK, QueueTypeOK
  <2> QED BY <2>1, <2>2
<1>2. Keeps(r)
  BY <1>1, MovedKeeps
<1>3. \A q \in Ranks \ {r} : Keeps(q)
  BY <1>1, UntouchedKeeps
<1> QED BY <1>2, <1>3, AllKeepAgrees

\* Scheduling: the rank holds the new save, whose request is staged or not needed.
LEMMA ScheduleAgrees ==
  ASSUME TypeInv, Agreement, NEW r \in Ranks,
         UNCHANGED <<prog, fin, finalized>>,
         InOp(r, {"save"}), NextOp(r),
         calls' = [calls EXCEPT ![r] = Append(@, ip[r])]
  PROVE Agreement'
<1>1. /\ ip' \in [Ranks -> Nat \ {0}] /\ ip'[r] = ip[r] + 1 /\ pc'[r] = "ready"
      /\ \A q \in Ranks : q # r => ip'[q] = ip[q] /\ pc'[q] = pc[q]
  BY NextOpType DEF TypeInv
<1>2. /\ ip[r] \in Positions /\ ip[r] \in Nat /\ calls[r] \in Seq(Positions)
      /\ Positions \subseteq Nat
  BY ProgramsAssumption, PositionsAssumption DEF InOp, TypeInv, TypeOK, QueueTypeOK
<1>3. Rising(calls[r]) /\ Calls(r) \subseteq Passed(r)
  BY DEF Agreement, Deque
<1>4. \A s \in Elems(calls[r]) : s < ip[r]
  BY <1>3 DEF Calls, Passed
<1>5. calls'[r] = Append(calls[r], ip[r]) /\ \A q \in Ranks : q # r => calls'[q] = calls[q]
  BY DEF TypeInv, TypeOK, QueueTypeOK
<1>6. Rising(calls'[r]) /\ Elems(calls'[r]) = Elems(calls[r]) \cup {ip[r]}
  BY <1>2, <1>3, <1>4, <1>5, RisingAppend
<1>7. Passed(r)' = Passed(r) \cup {ip[r]}
  <2>1. prog[ip[r]] = "save" /\ ip[r] =< Len(prog) /\ prog' = prog
    BY DEF InOp
  <2>2. ASSUME NEW s \in Positions PROVE s < ip'[r] <=> s < ip[r] \/ s = ip[r]
    BY <1>1, <1>2
  <2>3. ASSUME NEW s \in Positions PROVE s \in Passed(r)' <=> s \in Passed(r) \/ s = ip[r]
    BY <2>1, <2>2 DEF Passed
  <2>4. Passed(r) \subseteq Positions /\ Passed(r)' \subseteq Positions
    BY DEF Passed
  <2> QED BY <1>2, <2>3, <2>4
<1>71. ip[r] \notin Passed(r)
  BY <1>2 DEF Passed
<1>8. Calls(r)' = Calls(r) \cup {ip[r]}
  BY <1>6 DEF Calls
<1>9. OpShape(r)' /\ pc'[r] \notin FinalizeLabels
  BY <1>1 DEF OpShape, FinalizeLabels
<1>10. Passed(r)' \ Calls(r)' = Passed(r) \ Calls(r) /\ Calls(r)' \subseteq Passed(r)'
  BY <1>3, <1>7, <1>71, <1>8
<1>11. Keeps(r)
  BY <1>1, <1>2, <1>5, <1>6, <1>8, <1>9, <1>10 DEF Keeps
<1>12. \A q \in Ranks \ {r} : Keeps(q)
  BY <1>1, <1>5, UntouchedKeeps
<1> QED BY <1>11, <1>12, AllKeepAgrees


\* Scheduling a save keeps the agreement (schedule_async_call).
LEMMA ScheduleStepAgrees ==
  ASSUME TypeInv, Agreement, NEW r \in Ranks,
         ScheduleNoop(r) \/ ScheduleCall(r) \/ ResumeWhenStaged(r)
  PROVE Agreement'
<1>0. TypeOK /\ OpShape(r)
  BY DEF TypeInv, Agreement, Deque
<1>1. CASE ScheduleNoop(r)
  <2>1. InOp(r, {"save"})
    BY <1>1 DEF ScheduleNoop, At, InOp
  <2> QED BY <1>0, <1>1, <2>1, ScheduleAgrees DEF ScheduleNoop
<1>2. CASE ScheduleCall(r)
  <2>1. InOp(r, {"save"}) /\ prog' = prog /\ ip' = ip /\ pc'[r] = "stage"
    BY <1>0, <1>2 DEF ScheduleCall, Goto, At, InOp, TypeOK, QueueTypeOK
  <2>2. OpShape(r)' /\ pc'[r] \notin FinalizeLabels
    BY <2>1 DEF OpShape, InOp, FinalizeLabels
  <2>3. \E label \in Labels : Goto(r, label)
    BY <1>2 DEF ScheduleCall, Labels
  <2> QED BY <1>0, <1>2, <2>2, <2>3, MoveAgrees DEF ScheduleCall
<1>3. CASE ResumeWhenStaged(r)
  <2>1. InOp(r, {"save"})
    BY <1>0, <1>3 DEF ResumeWhenStaged, OpShape
  <2> QED BY <1>0, <1>3, <2>1, ScheduleAgrees DEF ResumeWhenStaged
<1> QED BY <1>1, <1>2, <1>3

\* So does asking for the head (is_current_async_call_done).
LEMMA PollStepAgrees ==
  ASSUME TypeInv, Agreement, NEW r \in Ranks,
         PollKnown(r) \/ PollCompleted(r) \/ PollPending(r)
  PROVE Agreement'
<1>0. TypeOK /\ OpShape(r)
  BY DEF TypeInv, Agreement, Deque
<1>1. \E alive \in BOOLEAN : Poll(r, alive)
  BY DEF PollKnown, PollCompleted, PollPending
<1>2. pc[r] = "loop" /\ Goto(r, "reduce") /\ UNCHANGED <<prog, calls, fin, finalized>>
  BY <1>1 DEF Poll
<1>3. prog' = prog /\ ip' = ip /\ pc'[r] = "reduce"
  BY <1>0, <1>2 DEF Goto, TypeOK, QueueTypeOK
<1>4. OpShape(r)' /\ pc'[r] \notin FinalizeLabels
  BY <1>0, <1>2, <1>3 DEF OpShape, InOp, FinalizeLabels
<1>5. \E label \in Labels : Goto(r, label)
  BY <1>2 DEF Labels
<1> QED BY <1>0, <1>2, <1>4, <1>5, MoveAgrees

\* So does closing the caller (PersistentAsyncCaller.close).
LEMMA CloseStepAgrees ==
  ASSUME TypeInv, Agreement, NEW r \in Ranks, CloseNothing(r) \/ SendDone(r) \/ JoinWorker(r)
  PROVE Agreement'
<1>0. TypeOK /\ OpShape(r)
  BY DEF TypeInv, Agreement, Deque
<1>1. pc[r] \in {"stop", "stopping"} /\ UNCHANGED <<prog, calls, fin, finalized>>
  BY DEF CloseNothing, SendDone, JoinWorker
<1>2. InOp(r, {"poll", "drain", "close"}) /\ prog[ip[r]] # "save"
  BY <1>0, <1>1 DEF OpShape, InOp
<1>3. CASE SendDone(r)
  <2>1. prog' = prog /\ ip' = ip /\ pc'[r] = "stopping"
    BY <1>0, <1>3 DEF SendDone, Goto, TypeOK, QueueTypeOK
  <2>2. OpShape(r)' /\ pc'[r] \notin FinalizeLabels
    BY <1>2, <2>1 DEF OpShape, InOp, FinalizeLabels
  <2>3. \E label \in Labels : Goto(r, label)
    BY <1>3 DEF SendDone, Labels
  <2> QED BY <1>0, <1>1, <2>2, <2>3, MoveAgrees
<1>4. CASE CloseNothing(r) \/ JoinWorker(r)
  <2>1. NextOp(r)
    BY <1>4 DEF CloseNothing, JoinWorker
  <2>2. OpShape(r)' /\ pc'[r] \notin FinalizeLabels
    BY <1>0, <2>1, NextOpType DEF OpShape, FinalizeLabels
  <2> QED BY <1>0, <1>1, <1>2, <2>1, <2>2, MoveAgrees
<1> QED BY <1>3, <1>4

\* So do the steps of the queue that a rank takes alone.
LEMMA QueueStepAgrees ==
  ASSUME TypeInv, Agreement, NEW r \in Ranks, BeginFinalize(r) \/ QueueEmpty(r) \/ Retrieve(r)
  PROVE Agreement'
<1>0. TypeOK /\ OpShape(r) /\ UNCHANGED <<prog, calls, fin, finalized>>
  BY DEF TypeInv, Agreement, Deque, BeginFinalize, QueueEmpty, Retrieve
<1>1. InOp(r, {"poll", "drain", "close"}) /\ prog[ip[r]] # "save"
  BY <1>0 DEF OpShape, InOp, FinalizeLabels, BeginFinalize, At, QueueEmpty, Retrieve
<1>2. ASSUME NEW label \in {"loop", "stop"}, Goto(r, label)
      PROVE Agreement'
  <2>1. ip' = ip /\ pc'[r] = label /\ label \in Labels
    BY <1>0, <1>2 DEF Goto, TypeOK, QueueTypeOK, Labels
  <2>2. OpShape(r)' /\ pc'[r] \notin FinalizeLabels
    BY <1>0, <1>1, <2>1 DEF OpShape, InOp, FinalizeLabels
  <2> QED BY <1>0, <1>2, <2>1, <2>2, MoveAgrees
<1>3. CASE NextOp(r)
  <2>1. OpShape(r)' /\ pc'[r] \notin FinalizeLabels
    BY <1>0, <1>3, NextOpType DEF OpShape, FinalizeLabels
  <2> QED BY <1>0, <1>1, <1>3, <2>1, MoveAgrees
<1>4. CASE Retrieve(r)
  <2>1. Goto(r, "gather") /\ "gather" \in Labels /\ pc[r] \in FinalizeLabels
    BY <1>4 DEF Retrieve, Labels, FinalizeLabels
  <2>2. ip' = ip /\ pc'[r] = "gather"
    BY <1>0, <2>1 DEF Goto, TypeOK, QueueTypeOK
  <2>3. OpShape(r)'
    BY <1>0, <1>1, <2>2 DEF OpShape, InOp, FinalizeLabels
  <2> QED BY <1>0, <2>1, <2>3, MoveAgrees
<1> QED BY <1>2, <1>3, <1>4 DEF BeginFinalize, QueueEmpty

\* The deques of all ranks start with the same save.
LEMMA HeadsAgree ==
  ASSUME TypeInv, Agreement, NEW p \in Ranks, NEW q \in Ranks, calls[p] # <<>>, calls[q] # <<>>
  PROVE Head(calls[p]) = Head(calls[q])
<1>1. ASSUME NEW r \in Ranks, NEW u \in Ranks, calls[r] # <<>>, calls[u] # <<>>,
             Head(calls[r]) < Head(calls[u])
      PROVE FALSE
  <2> DEFINE h == Head(calls[r])
             k == Head(calls[u])
  <2>1. /\ calls[r] \in Seq(Positions) /\ calls[u] \in Seq(Positions)
        /\ Positions \in SUBSET Nat
        /\ Rising(calls[r]) /\ Rising(calls[u])
        /\ Calls(r) \subseteq Passed(r) /\ Calls(u) \subseteq Passed(u)
        /\ Passed(r) \ Calls(r) = Passed(u) \ Calls(u)
        /\ ip[u] \in Nat
    BY PositionsAssumption DEF Agreement, Deque, SameHistory, TypeInv, TypeOK, QueueTypeOK
  <2>2. /\ h \in Calls(r)
    BY <1>1, <2>1, RisingTail DEF Calls
  <2>3. /\ k \in Calls(u) /\ Elems(Tail(calls[u])) = Calls(u) \ {k}
        /\ \A s \in Elems(Tail(calls[u])) : k < s
    BY <1>1, <2>1, RisingTail DEF Calls
  <2>4. h \in Nat /\ k \in Nat
    BY <2>1, <2>2, <2>3 DEF Passed
  <2>5. h \in Passed(u)
    BY <1>1, <2>1, <2>2, <2>3, <2>4 DEF Passed
  <2>6. h \notin Calls(u)
    BY <1>1, <2>3, <2>4
  <2> QED BY <2>1, <2>2, <2>5, <2>6
<1>2. calls[p] \in Seq(Positions) /\ calls[q] \in Seq(Positions) /\ Positions \subseteq Nat
  BY PositionsAssumption DEF TypeInv, TypeOK, QueueTypeOK
<1>3. Head(calls[p]) \in Positions /\ Head(calls[q]) \in Positions
  BY <1>2
<1>4. Head(calls[p]) \in Nat /\ Head(calls[q]) \in Nat
  BY <1>2, <1>3
<1> QED BY <1>1, <1>4

\* Popping the heads together (the all-reduce of is_alive) keeps the agreement.
LEMMA StartFinalizeAgrees ==
  ASSUME TypeInv, Agreement, AllAt("reduce"), StartFinalize, UNCHANGED <<prog, finalized>>
  PROVE Agreement'
<1> DEFINE h(r) == Head(calls[r])
<1>1. ASSUME NEW r \in Ranks
      PROVE /\ calls[r] \in Seq(Positions) /\ calls[r] # <<>> /\ Rising(calls[r])
            /\ OpShape(r) /\ History(r) /\ Calls(r) \subseteq Passed(r)
            /\ pc[r] = "reduce" /\ ip' = ip
            /\ pc'[r] = "retrieve" /\ fin'[r] = h(r) /\ calls'[r] = Tail(calls[r])
            /\ Positions \in SUBSET Nat
  BY PositionsAssumption
     DEF Agreement, Deque, TypeInv, TypeOK, QueueTypeOK, AllAt, Shape, StartFinalize, NextCall
<1>2. ASSUME NEW r \in Ranks
      PROVE /\ h(r) \in Calls(r) /\ Rising(calls'[r]) /\ Calls(r)' = Calls(r) \ {h(r)}
            /\ \A s \in Calls(r)' : h(r) < s
            /\ Passed(r)' = Passed(r)
  <2>1. h(r) \in Elems(calls[r]) /\ Rising(calls'[r])
        /\ Elems(calls'[r]) = Elems(calls[r]) \ {h(r)}
        /\ \A s \in Elems(calls'[r]) : h(r) < s
    BY <1>1, RisingTail
  <2> QED BY <1>1, <2>1 DEF Calls, Passed
<1>3. ASSUME NEW r \in Ranks PROVE Deque(r)' /\ History(r)'
  <2>1. OpShape(r)'
    BY <1>1 DEF OpShape, InOp, FinalizeLabels
  <2>2. Behind(r, fin[r])'
    BY <1>1, <1>2 DEF Behind, Passed
  <2>3. ASSUME NEW s \in Elems(finalized[r]) PROVE Behind(r, s)' /\ s < fin'[r]
    BY <1>1, <1>2, <2>3 DEF Behind, History
  <2> QED BY <1>1, <1>2, <2>1, <2>2, <2>3 DEF Deque, History
<1>4. ASSUME NEW p \in Ranks, NEW q \in Ranks PROVE SameHistory(p, q)'
  <2>1. h(p) = h(q)
    BY <1>1, HeadsAgree
  <2>2. SameHistory(p, q)
    BY DEF Agreement
  <2>3. h(p) \in Passed(p) /\ h(q) \in Passed(q)
    BY <1>1, <1>2
  <2>4. /\ Passed(p)' \ Calls(p)' = (Passed(p) \ Calls(p)) \cup {h(p)}
        /\ Passed(q)' \ Calls(q)' = (Passed(q) \ Calls(q)) \cup {h(q)}
    BY <1>2, <2>3
  <2> QED BY <1>1, <2>1, <2>2, <2>4 DEF SameHistory
<1> QED BY <1>3, <1>4 DEF Agreement

\* A step all ranks take together that schedules and finalizes nothing.
LEMMA TogetherAgrees ==
  ASSUME TypeInv, Agreement, UNCHANGED <<prog, calls, fin, finalized>>,
         \A r \in Ranks :
           /\ ip'[r] = ip[r] \/ (ip'[r] = ip[r] + 1 /\ prog[ip[r]] # "save")
           /\ OpShape(r)'
           /\ pc'[r] \in FinalizeLabels => pc[r] \in FinalizeLabels
  PROVE Agreement'
<1>1. ASSUME NEW r \in Ranks PROVE Keeps(r)
  <2>1. Passed(r)' = Passed(r)
    <3>1. CASE ip'[r] = ip[r]
      BY <3>1 DEF Passed
    <3>2. CASE ip'[r] = ip[r] + 1 /\ prog[ip[r]] # "save"
      BY <3>2, PassOver DEF TypeInv
    <3> QED BY <3>1, <3>2
  <2>2. ip'[r] \in Nat /\ ip[r] =< ip'[r]
    <3>1. ip[r] \in Nat
      BY DEF TypeInv, TypeOK, QueueTypeOK
    <3> QED BY <3>1
  <2> QED BY <2>1, <2>2, MovedKeeps
<1> QED BY <1>1, AllKeepAgrees

\* Comparing call_idx appends the same save to every history.
LEMMA AgreeOnCallIdxAgrees ==
  ASSUME TypeInv, Agreement, AgreeOnCallIdx
  PROVE Agreement'
<1>1. ASSUME NEW r \in Ranks
      PROVE /\ pc[r] = "agree" /\ fin[r] \in Positions /\ Positions \in SUBSET Nat
            /\ finalized[r] \in Seq(Positions)
            /\ Deque(r) /\ History(r) /\ UNCHANGED <<prog, ip, calls, fin>>
  BY PositionsAssumption
     DEF Agreement, AgreeOnCallIdx, AllAt, TypeInv, TypeOK, QueueTypeOK, Shape
<1>2. ASSUME NEW r \in Ranks
      PROVE pc'[r] = "loop" /\ finalized'[r] = Append(finalized[r], fin[r])
  <2>1. \A q \in Ranks : fin[q] = fin[r] /\ fin[r] \in Nat
    BY <1>1 DEF Agreement, SameHistory
  <2>2. \A q \in Ranks : fin[q] =< fin[r]
    BY <2>1
  <2> QED BY <2>2 DEF AgreeOnCallIdx
<1>3. ASSUME NEW r \in Ranks PROVE Deque(r)' /\ History(r)'
  <2>1. \A s \in Elems(finalized[r]) : s < fin[r]
    BY <1>1 DEF History, FinalizeLabels
  <2>2. Rising(finalized'[r]) /\ Elems(finalized'[r]) = Elems(finalized[r]) \cup {fin[r]}
    <3>1. Rising(finalized[r])
      BY <1>1 DEF History
    <3>2. /\ Rising(Append(finalized[r], fin[r]))
          /\ Elems(Append(finalized[r], fin[r])) = Elems(finalized[r]) \cup {fin[r]}
      BY <1>1, <2>1, <3>1, RisingAppend
    <3> QED BY <1>2, <3>2
  <2>3. Calls(r)' = Calls(r) /\ Passed(r)' = Passed(r) /\ \A s : Behind(r, s)' <=> Behind(r, s)
    BY <1>1 DEF Calls, Passed, Behind
  <2>4. Behind(r, fin[r]) /\ \A s \in Elems(finalized[r]) : Behind(r, s)
    BY <1>1 DEF Deque, History, FinalizeLabels
  <2>5. OpShape(r)'
    BY <1>1, <1>2 DEF Deque, OpShape, InOp, FinalizeLabels
  <2>6. pc'[r] \notin FinalizeLabels
    BY <1>2 DEF FinalizeLabels
  <2> QED BY <1>1, <2>2, <2>3, <2>4, <2>5, <2>6 DEF Deque, History
<1>4. ASSUME NEW p \in Ranks, NEW q \in Ranks PROVE SameHistory(p, q)'
  <2>1. SameHistory(p, q)
    BY DEF Agreement
  <2>2. Calls(p)' = Calls(p) /\ Passed(p)' = Passed(p) /\ Calls(q)' = Calls(q)
        /\ Passed(q)' = Passed(q)
    BY <1>1 DEF Calls, Passed
  <2> QED BY <1>1, <1>2, <2>1, <2>2 DEF SameHistory
<1> QED BY <1>3, <1>4 DEF Agreement

\* The steps all ranks take together keep the agreement.
LEMMA CollectiveAgrees ==
  ASSUME TypeInv, Agreement, Collective
  PROVE Agreement'
<1>0. \A r \in Ranks : TypeOK /\ OpShape(r)
  BY DEF TypeInv, Agreement, Deque
<1>1. CASE ReduceAlive
  <2>1. CASE AllDone
    BY <1>1, <2>1, StartFinalizeAgrees DEF ReduceAlive
  <2>2. CASE ~AllDone
    <3>1. ASSUME NEW r \in Ranks
          PROVE /\ ip'[r] = ip[r] + 1 /\ prog[ip[r]] # "save"
                /\ OpShape(r)' /\ pc'[r] \notin FinalizeLabels
      BY <1>0, <1>1, <2>2
         DEF ReduceAlive, LeaveLoop, AllAt, OpShape, InOp, FinalizeLabels
    <3> QED BY <1>1, <2>2, <3>1, TogetherAgrees DEF ReduceAlive, LeaveLoop
  <2> QED BY <2>1, <2>2
<1>2. CASE GatherResults
  <2>1. ASSUME NEW r \in Ranks
        PROVE ip'[r] = ip[r] /\ OpShape(r)' /\ pc[r] \in FinalizeLabels
    <3>1. pc[r] = "gather" /\ pc'[r] \in {"json", "raised"} /\ ip' = ip /\ prog' = prog
      BY <1>2 DEF GatherResults, AllAt
    <3> QED BY <1>0, <3>1 DEF OpShape, InOp, FinalizeLabels
  <2> QED BY <1>2, <2>1, TogetherAgrees DEF GatherResults
<1>3. CASE SaveMetadataJson
  <2>1. ASSUME NEW r \in Ranks
        PROVE /\ ip'[r] = ip[r] \/ (ip'[r] = ip[r] + 1 /\ prog[ip[r]] # "save")
              /\ OpShape(r)' /\ pc[r] \in FinalizeLabels
    <3>1. pc[r] = "json" /\ InOp(r, {"poll", "drain", "close"})
      BY <1>0, <1>3 DEF SaveMetadataJson, AllAt, OpShape, FinalizeLabels
    <3>2. pc'[r] = "agree" /\ ip'[r] = ip[r] /\ prog' = prog
      BY <1>3, <3>1 DEF SaveMetadataJson, InOp
    <3> QED BY <3>1, <3>2 DEF OpShape, InOp, FinalizeLabels
  <2> QED BY <1>3, <2>1, TogetherAgrees DEF SaveMetadataJson
<1>4. CASE SyncBarrier
  <2>1. pc[Coordinator] = "barrier"
    BY <1>4, RanksAssumption DEF SyncBarrier, AllAt
  <2> QED BY <1>0, <2>1, RanksAssumption DEF OpShape
<1> QED BY <1>1, <1>2, <1>3, <1>4, AgreeOnCallIdxAgrees DEF Collective, QueueCollective

\* Every step keeps the agreement.
LEMMA StepAgrees ==
  ASSUME Plain, TypeInv, Agreement, [Next]_vars
  PROVE Agreement'
<1>1. prog \in Programs /\ \A i \in 1 .. Len(prog) : prog[i] \notin {"sync", "fault"}
  BY DEF Plain, TypeInv, TypeOK, QueueTypeOK
<1>2. ASSUME NEW r \in Ranks, TrainerStep(r) PROVE Agreement'
  <2>1. ~ExecuteSync(r) /\ ~NoFault(r)
    BY <1>1 DEF ExecuteSync, NoFault, At
  <2> QED BY <1>2, <2>1, QueueStepAgrees, ScheduleStepAgrees, PollStepAgrees, CloseStepAgrees
          DEF TrainerStep, QueueStep
<1>3. ASSUME NEW r \in Ranks, WorkerStep(r) \/ Failure(r) PROVE Agreement'
  <2>1. UNCHANGED trainerVars
    BY <1>3
       DEF WorkerStep, Failure, TakeDone, TakeRequest, TakeDeadProxy, Take, Preload, WriteData,
           PutWriteResults, PutWriteError, PutResult, Report, Die, queueVars
  <2> QED BY <2>1, NothingAgrees DEF trainerVars
<1>4. CASE UNCHANGED vars
  BY <1>4, NothingAgrees DEF vars, queueVars, trainerVars
<1>5. ~Restart
  BY <1>1 DEF Restart
<1> QED BY <1>2, <1>3, <1>4, <1>5, CollectiveAgrees DEF Next, Terminating

\* The initial states agree.
LEMMA InitAgrees == Init => Agreement
<1> SUFFICES ASSUME Init PROVE Agreement
  OBVIOUS
<1>1. ASSUME NEW r \in Ranks
      PROVE /\ Calls(r) = {} /\ Passed(r) = {} /\ Elems(finalized[r]) = {}
            /\ Rising(calls[r]) /\ Rising(finalized[r]) /\ pc[r] = "ready"
  <2>1. calls[r] = <<>> /\ finalized[r] = <<>> /\ ip[r] = 1 /\ pc[r] = "ready"
    BY DEF Init, QueueInit
  <2>2. \A s \in Positions : s \in Nat \ {0}
    BY PositionsAssumption
  <2>3. Passed(r) = {}
    BY <2>1, <2>2 DEF Passed
  <2> QED BY <2>1, <2>3 DEF Calls, Elems, Rising
<1>2. ASSUME NEW r \in Ranks PROVE Deque(r) /\ History(r)
  BY <1>1 DEF Deque, History, OpShape, FinalizeLabels
<1>3. ASSUME NEW p \in Ranks, NEW q \in Ranks PROVE SameHistory(p, q)
  BY <1>1 DEF SameHistory, Init, QueueInit
<1> QED BY <1>2, <1>3 DEF Agreement

\* The agreement says that all ranks finalize the same saves in the same order.
LEMMA AgreementOrder ==
  ASSUME TypeInv, Agreement
  PROVE FinalizedInOrderEverywhere
<1>1. \A r \in Ranks : pc[r] # "unmatched"
  BY DEF Agreement, Deque, OpShape
<1>2. \A r, q \in Ranks : finalized[r] = finalized[q] /\ fin[r] = fin[q]
  BY DEF Agreement, SameHistory
<1>3. ASSUME NEW r \in Ranks
      PROVE \A i, j \in 1 .. Len(finalized[r]) : i < j => finalized[r][i] < finalized[r][j]
  BY DEF Agreement, History, Rising
<1> QED BY <1>1, <1>2, <1>3 DEF FinalizedInOrderEverywhere

(***************************************************************************)
(* All ranks finalize the same saves, in the order of scheduling, and the  *)
(* assertion on call_idx never fails: for every program of asynchronous    *)
(* saves, at whatever speed the ranks run and whatever writers fail or die.*)
(***************************************************************************)
THEOREM OrderCorrect ==
  ASSUME Plain
  PROVE Spec => []FinalizedInOrderEverywhere
<1>1. Init => TypeInv /\ Agreement
  BY TypeInit, InitAgrees
<1>2. TypeInv /\ Agreement /\ [Next]_vars => TypeInv' /\ Agreement'
  BY TypeStep, StepAgrees
<1>3. TypeInv /\ Agreement => FinalizedInOrderEverywhere
  BY AgreementOrder
<1> QED BY <1>1, <1>2, <1>3, PTL DEF Spec

------------------------------------------------------------------------------
(***************************************************************************)
(* Proof that no save gets its metadata before its data are complete,      *)
(* through PersistentAsync, for programs of asynchronous saves.  It rests  *)
(* on the agreement of the ranks and on the pipeline that leads from the   *)
(* queue of requests through the worker to the queue of write results:     *)
(* what is in it is what the trainer expects of it, in order.              *)
(***************************************************************************)

(***************************************************************************)
(* The pipeline of a rank: results queue, worker, queue to the worker.     *)
(***************************************************************************)
\* Where save s is.
InHand(r, s) == wpc[r] \in {"preload", "write", "put"} /\ wsave[r] = s
InQueue(r, s) == s \in Elems(queue[r])
InResults(r, s) == \E i \in 1 .. Len(results[r]) : results[r][i].save = s

\* Rank r will retrieve the result of s, now or later.
Expected(r, s) ==
  /\ r \in Writers[s]
  /\ \/ s \in Calls(r)
     \/ pc[r] = "retrieve" /\ s = fin[r]
     \/ pc[r] = "stage" /\ s = ip[r]

\* An exception is on its way or raised: nothing is expected any more.
Broken(r) == pc[r] = "raised" \/ (pc[r] = "gather" /\ ~got[r].ok)

\* The results, then the request in hand, then the queue, by number of the save.
InOrder(r) ==
  /\ \A i, j \in 1 .. Len(results[r]) : i < j => results[r][i].save < results[r][j].save
  /\ \A s \in Positions : InHand(r, s) => \A i \in 1 .. Len(results[r]) : results[r][i].save < s
  /\ \A s \in Positions : InQueue(r, s) => \A i \in 1 .. Len(results[r]) : results[r][i].save < s
  /\ \A s, t \in Positions : InHand(r, t) /\ InQueue(r, s) => t < s

\* The saves in the pipeline are those expected.
Line(r) == Broken(r) \/ \A s \in Positions :
  (InResults(r, s) \/ InHand(r, s) \/ InQueue(r, s)) <=> Expected(r, s)

\* Every good result is of data on disk, in the queue or on the way into it,
HonestWorker(r) ==
  /\ \A i \in 1 .. Len(results[r]) : results[r][i].ok => r \in written[results[r][i].save]
  /\ wpc[r] = "put" => r \in written[wsave[r]]

\* and so is the one the trainer retrieved.
HonestTrainer(r) ==
  /\ pc[r] = "gather" /\ got[r].ok /\ r \in Writers[fin[r]] => r \in written[fin[r]]
  /\ pc[r] = "json" => fin[r] \in torchMeta

Lined(r) == InOrder(r) /\ Line(r) /\ HonestWorker(r) /\ HonestTrainer(r)

Pipeline ==
  /\ \A r \in Ranks : manager[r] /\ Lined(r)
  /\ MetadataOnlyIfComplete
------------------------------------------------------------------------------
\* A step keeps what rank r expects of the pipeline and the requests in its queue.
SameLine(r) == \A s \in Positions :
  (Expected(r, s)' <=> Expected(r, s)) /\ (InQueue(r, s)' <=> InQueue(r, s))

\* The same saves are in every stage of the pipeline of rank r.
LEMMA SameLined ==
  ASSUME TypeInv, NEW r \in Ranks, Lined(r), results'[r] = results[r], SameLine(r),
         \A s \in Positions : InHand(r, s)' <=> InHand(r, s),
         \A s \in Positions : written[s] \subseteq written'[s],
         wpc'[r] = "put" => r \in written'[wsave'[r]],
         Broken(r) => Broken(r)', HonestTrainer(r)'
  PROVE Lined(r)'
<1>1. \A s : InResults(r, s)' <=> InResults(r, s)
  BY DEF InResults
<1>2. InOrder(r)'
  BY <1>1 DEF SameLine, Lined, InOrder
<1>3. Line(r)'
  BY <1>1 DEF SameLine, Lined, Line
<1>4. HonestWorker(r)'
  <2>1. results[r] \in Seq(Results)
    BY DEF TypeInv, TypeOK, QueueTypeOK
  <2>2. ASSUME NEW i \in 1 .. Len(results[r]) PROVE results[r][i].save \in Positions
    <3>1. results[r][i] \in Results
      BY <2>1
    <3> QED BY <3>1 DEF Results
  <2> QED BY <2>2 DEF Lined, HonestWorker
<1> QED BY <1>2, <1>3, <1>4 DEF Lined

\* The worker and the results queue of rank r do nothing.
LEMMA QuietLined ==
  ASSUME TypeInv, NEW r \in Ranks, Lined(r), SameLine(r),
         results'[r] = results[r], wpc'[r] = wpc[r], wsave'[r] = wsave[r],
         \A s \in Positions : written[s] \subseteq written'[s],
         Broken(r) => Broken(r)', HonestTrainer(r)'
  PROVE Lined(r)'
<1>1. \A s : InHand(r, s)' <=> InHand(r, s)
  BY DEF InHand
<1>2. wpc[r] = "put" => wsave[r] \in Positions /\ r \in written[wsave[r]]
  BY DEF TypeInv, Shape, Lined, HonestWorker
<1> QED BY <1>1, <1>2, SameLined

\* All that the pipeline of rank q is about is left alone.
Still(q) ==
  /\ pc'[q] = pc[q] /\ ip'[q] = ip[q] /\ calls'[q] = calls[q] /\ fin'[q] = fin[q]
  /\ got'[q] = got[q] /\ results'[q] = results[q]
  /\ wpc'[q] = wpc[q] /\ wsave'[q] = wsave[q] /\ queue'[q] = queue[q]

\* A step of rank r alone has only the pipeline of r to keep.
LEMMA PipelineElsewhere ==
  ASSUME TypeInv, Pipeline, NEW r \in Ranks, Lined(r)', \A q \in Ranks \ {r} : Still(q),
         UNCHANGED <<manager, torchMeta, ckptMeta>>,
         \A s \in Positions : written[s] \subseteq written'[s]
  PROVE Pipeline'
<1>1. ASSUME NEW q \in Ranks, q # r PROVE Lined(q)'
  <2>1. Lined(q) /\ Still(q)
    BY <1>1 DEF Pipeline
  <2>2. SameLine(q)
    BY <2>1 DEF Still, SameLine, Expected, Calls, InQueue, Elems
  <2>3. Broken(q)' <=> Broken(q)
    BY <2>1 DEF Still, Broken
  <2>4. HonestTrainer(q)'
    <3>1. pc[q] = "gather" => fin[q] \in Positions
      BY DEF TypeInv, Shape
    <3> QED BY <2>1, <3>1 DEF Still, Lined, HonestTrainer
  <2> QED BY <2>1, <2>2, <2>3, <2>4, QuietLined DEF Still
<1>2. MetadataOnlyIfComplete'
  BY DEF Pipeline, MetadataOnlyIfComplete, TypeInv, TypeOK, QueueTypeOK
<1> QED BY <1>1, <1>2 DEF Pipeline

\* The trainer of rank r moves on: what it expects of the pipeline is the same,
\* and it comes to no label that promises something.
LEMMA MovePipeline ==
  ASSUME TypeInv, Pipeline, NEW r \in Ranks,
         SameLine(r),
         pc[r] # "raised", pc'[r] \notin {"gather", "json"}, pc[r] # "gather",
         \A q \in Ranks \ {r} : /\ pc'[q] = pc[q] /\ ip'[q] = ip[q] /\ calls'[q] = calls[q]
                                /\ queue'[q] = queue[q],
         UNCHANGED <<fin, got, results, wpc, wsave, manager, diskVars>>
  PROVE Pipeline'
<1>1. HonestTrainer(r)' /\ ~Broken(r)
  BY DEF HonestTrainer, Broken
<1>2. UNCHANGED <<written, torchMeta, ckptMeta>>
  BY DEF diskVars
<1>3. Lined(r)'
  BY <1>1, <1>2, QuietLined DEF Pipeline
<1>4. \A q \in Ranks \ {r} : Still(q)
  BY DEF Still
<1> QED BY <1>2, <1>3, <1>4, PipelineElsewhere

\* Scheduling: the request goes into the queue to the worker, then its save into
\* the deque, which never holds a save the pipeline has not.
LEMMA SchedulePipeline ==
  ASSUME TypeInv, Agreement, Pipeline, NEW r \in Ranks,
         ScheduleNoop(r) \/ ScheduleCall(r) \/ ResumeWhenStaged(r)
  PROVE Pipeline'
<1>0. TypeOK /\ Shape(r) /\ Lined(r) /\ Deque(r) /\ calls[r] \in Seq(Positions)
      /\ ip[r] \in Nat /\ Positions \in SUBSET Nat
  BY PositionsAssumption DEF TypeInv, TypeOK, QueueTypeOK, Pipeline, Agreement
<1>1. \A s \in Elems(calls[r]) : s < ip[r]
  BY <1>0 DEF Deque, Calls, Passed
<1>2. ASSUME ScheduleNoop(r) \/ ResumeWhenStaged(r), ip[r] \in Positions
      PROVE /\ Calls(r)' = Calls(r) \cup {ip[r]}
            /\ pc'[r] = "ready"
            /\ \A q \in Ranks \ {r} : /\ pc'[q] = pc[q] /\ ip'[q] = ip[q]
                                      /\ calls'[q] = calls[q]
            /\ UNCHANGED <<fin, got, results, wpc, wsave, queue, manager, diskVars>>
  <2>1. NextOp(r) /\ calls' = [calls EXCEPT ![r] = Append(@, ip[r])]
    BY <1>2 DEF ScheduleNoop, ResumeWhenStaged
  <2>2. calls'[r] = Append(calls[r], ip[r]) /\ \A q \in Ranks \ {r} : calls'[q] = calls[q]
    BY <1>0, <2>1 DEF TypeOK, QueueTypeOK
  <2>3. Elems(calls'[r]) = Elems(calls[r]) \cup {ip[r]}
    BY <1>0, <1>1, <1>2, <2>2, RisingAppend DEF Deque
  <2>4. UNCHANGED <<fin, got, results, wpc, wsave, queue, manager, diskVars>>
    BY <1>2 DEF ScheduleNoop, ResumeWhenStaged, workerVars, callerVars
  <2> QED BY <1>0, <2>1, <2>2, <2>3, <2>4, NextOpType DEF Calls
<1>3. CASE ScheduleNoop(r)
  <2>1. ip[r] \in Positions /\ pc[r] = "ready" /\ r \notin Writers[ip[r]]
    BY <1>0, <1>3, ProgramsAssumption DEF ScheduleNoop, At, TypeOK, QueueTypeOK
  <2>2. SameLine(r)
    BY <1>2, <1>3, <2>1 DEF SameLine, Expected, InQueue, Elems
  <2> QED BY <1>2, <1>3, <2>1, <2>2, MovePipeline
<1>4. CASE ResumeWhenStaged(r)
  <2>1. ip[r] \in Positions /\ pc[r] = "stage"
    BY <1>0, <1>4 DEF ResumeWhenStaged, Shape
  <2>2. SameLine(r)
    BY <1>2, <1>4, <2>1 DEF SameLine, Expected, InQueue, Elems
  <2> QED BY <1>2, <1>4, <2>1, <2>2, MovePipeline
<1>5. CASE ScheduleCall(r)
  <2>1. /\ ip[r] \in Positions /\ pc[r] = "ready" /\ r \in Writers[ip[r]]
        /\ pc'[r] = "stage" /\ UNCHANGED <<ip, calls, fin, got, results, wpc, wsave, manager,
                                           written, torchMeta, ckptMeta>>
        /\ \A q \in Ranks \ {r} : pc'[q] = pc[q] /\ queue'[q] = queue[q]
    BY <1>0, <1>5, ProgramsAssumption
       DEF ScheduleCall, Goto, At, TypeOK, QueueTypeOK, diskVars
  <2>2. queue[r] = <<>>
    BY <1>0, <2>1 DEF Shape, Staging
  <2>3. queue'[r] = <<ip[r]>>
    BY <1>0, <1>5, <2>2 DEF ScheduleCall, TypeOK
  <2>4. \A s \in Positions : ~InQueue(r, s) /\ (InQueue(r, s)' <=> s = ip[r])
    BY <2>2, <2>3 DEF InQueue, Elems
  <2>5. \A s \in Positions : /\ InHand(r, s)' <=> InHand(r, s)
                             /\ InResults(r, s)' <=> InResults(r, s)
                             /\ Expected(r, s)' <=> Expected(r, s) \/ s = ip[r]
    BY <2>1 DEF InHand, InResults, Expected, Calls
  <2>6. ~Broken(r) /\ ~Broken(r)'
    BY <2>1 DEF Broken
  <2>7. \A s \in Positions : Expected(r, s) => s < ip[r]
    BY <1>1, <2>1 DEF Expected, Calls
  <2>8. Line(r)'
    BY <1>0, <2>4, <2>5, <2>6 DEF Lined, Line
  <2>9. \A s \in Positions : InHand(r, s) \/ InResults(r, s) => s < ip[r]
    BY <1>0, <2>6, <2>7 DEF Lined, Line
  <2>10. InOrder(r)'
    <3>1. ASSUME NEW i \in 1 .. Len(results[r]) PROVE results[r][i].save < ip[r]
      <4>1. results[r][i] \in Results
        BY <1>0 DEF TypeOK, QueueTypeOK
      <4>2. results[r][i].save \in Positions /\ InResults(r, results[r][i].save)
        BY <4>1 DEF Results, InResults
      <4> QED BY <2>9, <4>2
    <3> QED BY <1>0, <2>1, <2>4, <2>5, <2>9, <3>1 DEF Lined, InOrder
  <2>11. HonestWorker(r)' /\ HonestTrainer(r)'
    BY <1>0, <2>1 DEF Lined, HonestWorker, HonestTrainer
  <2>12. \A q \in Ranks \ {r} : Still(q)
    BY <2>1 DEF Still
  <2> QED BY <2>1, <2>8, <2>10, <2>11, <2>12, PipelineElsewhere DEF Lined
<1> QED BY <1>3, <1>4, <1>5

\* Asking for the head leaves the pipeline alone.
LEMMA PollPipeline ==
  ASSUME TypeInv, Pipeline, NEW r \in Ranks,
         PollKnown(r) \/ PollCompleted(r) \/ PollPending(r)
  PROVE Pipeline'
<1>1. \E alive \in BOOLEAN : Poll(r, alive)
  BY DEF PollKnown, PollCompleted, PollPending
<1>2. /\ pc[r] = "loop" /\ pc'[r] = "reduce" /\ \A q \in Ranks \ {r} : pc'[q] = pc[q]
      /\ UNCHANGED <<ip, calls, fin, got, results, wpc, wsave, queue, manager, diskVars>>
  BY <1>1 DEF Poll, Goto, TypeInv, TypeOK, QueueTypeOK
<1>3. SameLine(r)
  BY <1>2 DEF SameLine, Expected, Calls, InQueue, Elems
<1> QED BY <1>2, <1>3, MovePipeline

\* So does closing the caller: Done is no request.
LEMMA ClosePipeline ==
  ASSUME TypeInv, Pipeline, NEW r \in Ranks, CloseNothing(r) \/ SendDone(r) \/ JoinWorker(r)
  PROVE Pipeline'
<1>0. TypeOK /\ Shape(r)
  BY DEF TypeInv
<1>1. CASE CloseNothing(r) \/ JoinWorker(r)
  <2>1. /\ NextOp(r) /\ pc[r] \in {"stop", "stopping"}
        /\ UNCHANGED <<calls, fin, got, results, wpc, wsave, queue, manager, diskVars>>
    BY <1>1 DEF CloseNothing, JoinWorker, workerVars, callerVars
  <2>2. /\ pc'[r] = "ready"
        /\ \A q \in Ranks \ {r} : pc'[q] = pc[q] /\ ip'[q] = ip[q]
    BY <1>0, <2>1, NextOpType
  <2>3. SameLine(r)
    BY <2>1, <2>2 DEF SameLine, Expected, Calls, InQueue, Elems
  <2> QED BY <2>1, <2>2, <2>3, MovePipeline
<1>2. CASE SendDone(r)
  <2>1. /\ pc[r] = "stop" /\ pc'[r] = "stopping"
        /\ \A q \in Ranks \ {r} : pc'[q] = pc[q] /\ queue'[q] = queue[q]
        /\ UNCHANGED <<ip, calls, fin, got, results, wpc, wsave, manager, diskVars>>
    BY <1>0, <1>2 DEF SendDone, Goto, TypeOK, QueueTypeOK
  <2>2. queue[r] = <<>>
    BY <1>0, <2>1 DEF Shape, Staging
  <2>3. queue'[r] = <<Done>>
    BY <1>0, <1>2, <2>2 DEF SendDone, TypeOK
  <2>4. SameLine(r)
    BY <2>1, <2>2, <2>3, PositionsAssumption DEF SameLine, Expected, Calls, InQueue, Elems, Done
  <2> QED BY <2>1, <2>4, MovePipeline
<1> QED BY <1>1, <1>2

\* A step of the worker of rank r alone.
LEMMA WorkerElsewhere ==
  ASSUME TypeInv, Pipeline, NEW r \in Ranks,
         UNCHANGED <<trainerVars, torchMeta, ckptMeta, manager>>,
         \A q \in Ranks \ {r} : /\ wpc'[q] = wpc[q] /\ wsave'[q] = wsave[q]
                                /\ queue'[q] = queue[q] /\ results'[q] = results[q],
         \A s \in Positions : written[s] \subseteq written'[s],
         InOrder(r)', Line(r)', HonestWorker(r)'
  PROVE Pipeline'
<1>1. HonestTrainer(r)'
  <2>1. pc[r] = "gather" => fin[r] \in Positions
    BY DEF TypeInv, Shape
  <2> QED BY <2>1 DEF trainerVars, Pipeline, Lined, HonestTrainer
<1>2. \A q \in Ranks \ {r} : Still(q)
  BY DEF Still, trainerVars
<1> QED BY <1>1, <1>2, PipelineElsewhere DEF Lined

\* The worker takes the request at the end of the pipeline, or Done, or dies.
LEMMA TakePipeline ==
  ASSUME TypeInv, Pipeline, NEW r \in Ranks,
         TakeDone(r) \/ TakeRequest(r) \/ TakeDeadProxy(r) \/ Die(r)
  PROVE Pipeline'
<1>0. TypeOK /\ Shape(r) /\ Lined(r) /\ manager[r] /\ Positions \subseteq Nat \ {0}
  BY PositionsAssumption DEF TypeInv, Pipeline
<1>1. CASE TakeDone(r) \/ Die(r)
  <2>1. /\ UNCHANGED <<trainerVars, diskVars, results, manager, wpc, wsave>>
        /\ \A q \in Ranks \ {r} : queue'[q] = queue[q]
    BY <1>0, <1>1 DEF TakeDone, Take, Die, queueVars, TypeOK
  <2>2. \A s \in Positions : InQueue(r, s)' <=> InQueue(r, s)
    <3>1. CASE TakeDone(r)
      <4>1. queue[r] = <<Done>>
        BY <1>0, <3>1 DEF TakeDone, Take, Shape, Staging, Done
      <4>2. queue'[r] = <<>>
        BY <1>0, <3>1, <4>1 DEF TakeDone, Take, TypeOK
      <4> QED BY <1>0, <4>1, <4>2 DEF InQueue, Elems, Done
    <3>2. CASE Die(r)
      BY <3>2 DEF Die, InQueue, Elems
    <3> QED BY <1>1, <3>1, <3>2
  <2>3. SameLine(r) /\ (Broken(r) => Broken(r)')
    BY <2>1, <2>2 DEF SameLine, trainerVars, Expected, Calls, Broken
  <2>4. HonestTrainer(r)'
    BY <1>0, <2>1 DEF trainerVars, diskVars, Lined, HonestTrainer
  <2>5. Lined(r)'
    BY <1>0, <2>1, <2>3, <2>4, QuietLined DEF diskVars
  <2> QED BY <2>1, <2>5, WorkerElsewhere DEF Lined, diskVars
<1>2. CASE TakeRequest(r)
  <2>1. wpc[r] = "idle" /\ queue[r] = <<ip[r]>> /\ ip[r] \in Positions
    BY <1>0, <1>2 DEF TakeRequest, Take, Shape, Staging, Done
  <2>2. /\ queue'[r] = <<>> /\ wsave'[r] = ip[r] /\ wpc'[r] = "preload"
        /\ UNCHANGED <<trainerVars, diskVars, results, manager>>
        /\ \A q \in Ranks \ {r} : /\ wpc'[q] = wpc[q] /\ wsave'[q] = wsave[q]
                                  /\ queue'[q] = queue[q]
    BY <1>0, <1>2, <2>1 DEF TakeRequest, Take, queueVars, TypeOK
  <2>3. \A s \in Positions : /\ ~InHand(r, s) /\ (InQueue(r, s) <=> s = ip[r])
                             /\ ~InQueue(r, s)' /\ (InHand(r, s)' <=> s = ip[r])
                             /\ (InResults(r, s)' <=> InResults(r, s))
                             /\ (Expected(r, s)' <=> Expected(r, s))
    BY <2>1, <2>2 DEF InHand, InQueue, InResults, Elems, Expected, Calls, trainerVars
  <2>4. Broken(r)' <=> Broken(r)
    BY <2>2 DEF Broken, trainerVars
  <2>5. InOrder(r)' /\ Line(r)'
    BY <1>0, <2>2, <2>3, <2>4 DEF Lined, InOrder, Line
  <2>6. HonestWorker(r)'
    BY <1>0, <2>2 DEF Lined, HonestWorker, diskVars
  <2> QED BY <2>2, <2>5, <2>6, WorkerElsewhere DEF diskVars
<1> QED BY <1>0, <1>1, <1>2 DEF TakeDeadProxy

\* The worker stages the data, writes it and reports: the request stays in hand
\* until its result is in the queue.
LEMMA WritePipeline ==
  ASSUME TypeInv, Pipeline, NEW r \in Ranks, Preload(r) \/ WriteData(r) \/ Report(r)
  PROVE Pipeline'
<1>0. TypeOK /\ Shape(r) /\ Lined(r) /\ wpc[r] # "idle" /\ wsave[r] \in Positions
  BY DEF TypeInv, Pipeline, Shape, Preload, WriteData, Report
<1>1. /\ UNCHANGED <<trainerVars, torchMeta, ckptMeta, results, queue, manager>>
      /\ \A q \in Ranks \ {r} : wpc'[q] = wpc[q] /\ wsave'[q] = wsave[q]
  BY <1>0 DEF Preload, WriteData, Report, queueVars, diskVars, TypeOK
<1>2. \/ wpc[r] = "preload" /\ wpc'[r] = "write" /\ wsave' = wsave
      \/ wpc[r] = "write" /\ wpc'[r] = "put" /\ wsave' = wsave
      \/ wpc[r] = "report" /\ wpc'[r] = "idle"
  BY <1>0 DEF Preload, WriteData, Report, TypeOK
<1>3. \A s \in Positions : InHand(r, s)' <=> InHand(r, s)
  BY <1>2 DEF InHand
<1>4. /\ \A s \in Positions : written[s] \subseteq written'[s]
      /\ wpc'[r] = "put" => r \in written'[wsave'[r]]
  <2>1. CASE WriteData(r)
    <3>1. written' = [written EXCEPT ![wsave[r]] = @ \cup {r}] /\ wsave' = wsave
      BY <2>1 DEF WriteData
    <3>2. written \in [Positions -> SUBSET Ranks]
      BY <1>0 DEF TypeOK, QueueTypeOK
    <3> QED BY <1>0, <3>1, <3>2
  <2>2. CASE Preload(r) \/ Report(r)
    <3>1. written' = written
      BY <2>2 DEF Preload, Report, queueVars, diskVars
    <3>2. wpc'[r] # "put"
      BY <1>0, <2>2 DEF Preload, Report, TypeOK
    <3> QED BY <3>1, <3>2
  <2> QED BY <2>1, <2>2
<1>5. SameLine(r) /\ (Broken(r) => Broken(r)')
  BY <1>1 DEF SameLine, trainerVars, Expected, Calls, InQueue, Elems, Broken
<1>6. HonestTrainer(r)'
  <2>1. pc[r] = "gather" => fin[r] \in Positions
    BY <1>0 DEF Shape
  <2> QED BY <1>0, <1>1, <1>4, <2>1 DEF trainerVars, Lined, HonestTrainer
<1>7. Lined(r)'
  BY <1>0, <1>1, <1>3, <1>4, <1>5, <1>6, SameLined
<1> QED BY <1>1, <1>4, <1>7, WorkerElsewhere DEF Lined

\* The result of the request in hand goes to the end of the results queue.
LEMMA PutPipeline ==
  ASSUME TypeInv, Pipeline, NEW r \in Ranks, PutWriteResults(r) \/ PutWriteError(r)
  PROVE Pipeline'
<1> DEFINE s0 == wsave[r]
           n == Len(results[r])
<1>0. TypeOK /\ Lined(r) /\ InHand(r, s0) /\ s0 \in Positions /\ results[r] \in Seq(Results)
      /\ Positions \in SUBSET Nat
  BY PositionsAssumption
     DEF TypeInv, TypeOK, QueueTypeOK, Pipeline, Shape, PutWriteResults, PutWriteError, InHand
<1>1. PICK ok \in BOOLEAN : PutResult(r, ok) /\ (ok => PutWriteResults(r))
  BY DEF PutWriteResults, PutWriteError
<1>2. /\ UNCHANGED <<trainerVars, diskVars, wsave, queue, manager>> /\ wpc'[r] = "report"
      /\ \A q \in Ranks \ {r} : wpc'[q] = wpc[q] /\ results'[q] = results[q]
      /\ results'[r] = Append(results[r], [save |-> s0, ok |-> ok])
  BY <1>0, <1>1 DEF PutResult, TypeOK, QueueTypeOK
<1>3. /\ Len(results'[r]) = n + 1 /\ n \in Nat
      /\ results'[r][n + 1] = [save |-> s0, ok |-> ok]
      /\ results'[r][n + 1].save = s0 /\ n + 1 \in 1 .. n + 1
      /\ \A i \in 1 .. n : results'[r][i] = results[r][i]
  BY <1>0, <1>2
<1>4. ok => r \in written[s0]
  BY <1>0, <1>1 DEF PutWriteResults, Lined, HonestWorker
<1>5. ASSUME NEW s \in Positions
      PROVE /\ InHand(r, s) <=> s = s0
            /\ ~InHand(r, s)'
            /\ InQueue(r, s)' <=> InQueue(r, s)
            /\ InResults(r, s)' <=> InResults(r, s) \/ s = s0
            /\ Expected(r, s)' <=> Expected(r, s)
  <2>1. InResults(r, s)' <=> InResults(r, s) \/ s = s0
    <3>1. ASSUME InResults(r, s)' PROVE InResults(r, s) \/ s = s0
      <4>1. PICK i \in 1 .. n + 1 : results'[r][i].save = s
        BY <1>3, <3>1 DEF InResults
      <4>2. CASE i = n + 1
        BY <1>3, <4>1, <4>2
      <4>3. CASE i \in 1 .. n
        BY <1>3, <4>1, <4>3 DEF InResults
      <4> QED BY <1>3, <4>2, <4>3
    <3>2. ASSUME InResults(r, s) PROVE InResults(r, s)'
      BY <1>3, <3>2 DEF InResults
    <3>3. ASSUME s = s0 PROVE InResults(r, s)'
      BY <1>3, <3>3 DEF InResults
    <3> QED BY <3>1, <3>2, <3>3
  <2> QED BY <1>0, <1>2, <2>1 DEF InHand, InQueue, Elems, Expected, Calls, trainerVars
<1>6. Line(r)'
  <2>1. Broken(r)' <=> Broken(r)
    BY <1>2 DEF Broken, trainerVars
  <2> QED BY <1>0, <1>5, <2>1 DEF Lined, Line
<1>7. InOrder(r)'
  <2>1. ASSUME NEW i \in 1 .. n PROVE results[r][i].save < s0
    BY <1>0, <2>1 DEF Lined, InOrder
  <2>2. ASSUME NEW i \in 1 .. n + 1, NEW j \in 1 .. n + 1, i < j
        PROVE results'[r][i].save < results'[r][j].save
    <3>1. i \in 1 .. n
      BY <1>3, <2>2
    <3>2. CASE j = n + 1
      BY <1>3, <2>1, <3>1, <3>2
    <3>3. CASE j \in 1 .. n
      BY <1>0, <1>3, <2>2, <3>1, <3>3 DEF Lined, InOrder
    <3> QED BY <1>3, <3>2, <3>3
  <2>3. ASSUME NEW s \in Positions, InQueue(r, s), NEW i \in 1 .. n + 1
        PROVE results'[r][i].save < s
    <3>1. CASE i = n + 1
      <4>1. s0 < s
        BY <1>0, <2>3 DEF Lined, InOrder
      <4> QED BY <1>3, <3>1, <4>1
    <3>2. CASE i \in 1 .. n
      BY <1>0, <1>3, <2>3, <3>2 DEF Lined, InOrder
    <3> QED BY <1>3, <3>1, <3>2
  <2> QED BY <1>3, <1>5, <2>2, <2>3 DEF InOrder
<1>8. HonestWorker(r)'
  <2>1. ASSUME NEW i \in 1 .. n + 1, results'[r][i].ok
        PROVE r \in written[results'[r][i].save]
    <3>1. CASE i = n + 1
      BY <1>3, <1>4, <2>1, <3>1
    <3>2. CASE i \in 1 .. n
      BY <1>0, <1>3, <2>1, <3>2 DEF Lined, HonestWorker
    <3> QED BY <1>3, <3>1, <3>2
  <2> QED BY <1>2, <1>3, <2>1 DEF HonestWorker, diskVars
<1> QED BY <1>2, <1>6, <1>7, <1>8, WorkerElsewhere DEF diskVars

\* Taking a result out of the results queue: it is the one of the save that is
\* being finalized, the oldest that is expected of the pipeline.
LEMMA RetrievePipeline ==
  ASSUME TypeInv, Agreement, Pipeline, NEW r \in Ranks, Retrieve(r), UNCHANGED workerVars
  PROVE Pipeline'
<1> DEFINE f == fin[r]
           n == Len(results[r])
<1>0. /\ TypeOK /\ Lined(r) /\ Deque(r) /\ pc[r] = "retrieve" /\ f \in Positions
      /\ results[r] \in Seq(Results) /\ Positions \in SUBSET Nat
  BY PositionsAssumption
     DEF TypeInv, TypeOK, QueueTypeOK, Pipeline, Agreement, Shape, Retrieve
<1>01. f \in Nat /\ \A s \in Positions : s \in Nat
  BY <1>0, PositionsAssumption
<1>1. /\ UNCHANGED <<ip, calls, fin, diskVars, wpc, wsave, queue, manager>> /\ pc'[r] = "gather"
      /\ \A q \in Ranks \ {r} : pc'[q] = pc[q] /\ got'[q] = got[q] /\ results'[q] = results[q]
  BY <1>0 DEF Retrieve, Goto, TypeOK, QueueTypeOK, workerVars, callerVars
<1>2. \A q \in Ranks \ {r} : Still(q)
  BY <1>1 DEF Still
<1>3. Lined(r)' => Pipeline'
  BY <1>1, <1>2, PipelineElsewhere DEF diskVars
<1>4. /\ \A s \in Positions : s \in Calls(r) => f < s
      /\ ~Broken(r)
  BY <1>0 DEF Deque, Behind, FinalizeLabels, Broken
<1>5. CASE r \notin Writers[f]
  <2>1. results' = results
    BY <1>5 DEF Retrieve
  <2>2. SameLine(r)
    BY <1>0, <1>1, <1>5 DEF SameLine, Expected, Calls, InQueue, Elems
  <2>3. HonestTrainer(r)'
    BY <1>1, <1>5 DEF HonestTrainer
  <2>4. \A s \in Positions : written[s] \subseteq written'[s]
    BY <1>1 DEF diskVars
  <2>5. Lined(r)'
    BY <1>0, <1>1, <1>4, <2>1, <2>2, <2>3, <2>4, QuietLined
  <2> QED BY <1>3, <2>5
<1>6. CASE r \in Writers[f] /\ results[r] = <<>>
  <2>1. results' = results /\ got'[r] = MissingResult
    BY <1>0, <1>6 DEF Retrieve, TypeOK, QueueTypeOK
  <2>2. Broken(r)' /\ HonestTrainer(r)' /\ Line(r)'
    BY <1>1, <2>1 DEF Broken, HonestTrainer, MissingResult, Line
  <2>3. InOrder(r)' /\ HonestWorker(r)'
    BY <1>0, <1>1, <2>1
       DEF Lined, InOrder, HonestWorker, InHand, InQueue, Elems, diskVars
  <2> QED BY <1>3, <2>2, <2>3 DEF Lined
<1>7. CASE r \in Writers[f] /\ results[r] # <<>>
  <2>1. /\ results'[r] = Tail(results[r]) /\ got'[r] = results[r][1]
        /\ n \in Nat /\ n >= 1 /\ 1 \in 1 .. n
        /\ Len(results'[r]) = n - 1 /\ \A i \in 1 .. n - 1 : results'[r][i] = results[r][i + 1]
    <3>1. results'[r] = Tail(results[r]) /\ got'[r] = Head(results[r])
      BY <1>0, <1>7 DEF Retrieve, TypeOK, QueueTypeOK
    <3> QED BY <1>0, <1>7, <3>1
  <2>2. ASSUME NEW i \in 1 .. n
        PROVE results[r][i].save \in Positions /\ Expected(r, results[r][i].save)
    <3>1. results[r][i] \in Results
      BY <1>0
    <3>2. results[r][i].save \in Positions /\ InResults(r, results[r][i].save)
      BY <3>1 DEF Results, InResults
    <3> QED BY <1>0, <1>4, <3>2 DEF Lined, Line
  <2>3. results[r][1].save = f
    <3> DEFINE h == results[r][1].save
    <3>1. h \in Positions /\ (h = f \/ f < h)
      BY <1>0, <1>4, <2>1, <2>2 DEF Expected
    <3>2. InResults(r, f) \/ InHand(r, f) \/ InQueue(r, f)
      BY <1>0, <1>4, <1>7 DEF Lined, Line, Expected
    <3>3. h < f \/ h = f
      <4>1. CASE InResults(r, f)
        <5>1. PICK i \in 1 .. n : results[r][i].save = f
          BY <4>1 DEF InResults
        <5>2. i = 1 \/ 1 < i
          BY <2>1
        <5> QED BY <1>0, <2>1, <5>1, <5>2 DEF Lined, InOrder
      <4>2. CASE InHand(r, f) \/ InQueue(r, f)
        BY <1>0, <2>1, <4>2 DEF Lined, InOrder
      <4> QED BY <3>2, <4>1, <4>2
    <3> QED BY <1>01, <3>1, <3>3
  <2>4. HonestTrainer(r)'
    BY <1>0, <1>1, <2>1, <2>3 DEF HonestTrainer, Lined, HonestWorker, diskVars
  <2>5. InOrder(r)' /\ HonestWorker(r)'
    <3>1. \A i \in 1 .. n - 1 : i + 1 \in 1 .. n
      BY <2>1
    <3>2. HonestWorker(r)'
      BY <1>0, <1>1, <2>1, <3>1 DEF Lined, HonestWorker, diskVars
    <3>3. \A s \in Positions : /\ InHand(r, s)' <=> InHand(r, s)
                               /\ InQueue(r, s)' <=> InQueue(r, s)
      BY <1>1 DEF InHand, InQueue, Elems
    <3>4. \A i, j \in 1 .. n - 1 : i < j => i + 1 < j + 1
      OBVIOUS
    <3> QED BY <1>0, <2>1, <3>1, <3>2, <3>3, <3>4 DEF Lined, InOrder
  <2>6. Line(r)'
    <3>1. ASSUME NEW s \in Positions
          PROVE /\ InResults(r, s)' <=> InResults(r, s) /\ s # f
                /\ InHand(r, s)' <=> InHand(r, s) /\ s # f
                /\ InQueue(r, s)' <=> InQueue(r, s) /\ s # f
                /\ Expected(r, s)' <=> Expected(r, s) /\ s # f
      <4>1. ASSUME NEW i \in 1 .. n - 1 PROVE i + 1 \in 1 .. n /\ results[r][i + 1].save # f
        <5>1. i + 1 \in 1 .. n /\ 1 < i + 1
          BY <2>1
        <5>2. results[r][1].save < results[r][i + 1].save
          BY <1>0, <2>1, <5>1 DEF Lined, InOrder
        <5> QED BY <1>01, <2>3, <5>1, <5>2
      <4>2. InResults(r, s)' => InResults(r, s) /\ s # f
        BY <2>1, <4>1 DEF InResults
      <4>3. ASSUME InResults(r, s), s # f PROVE InResults(r, s)'
        <5>1. PICK i \in 1 .. n : results[r][i].save = s
          BY <4>3 DEF InResults
        <5>2. i - 1 \in 1 .. n - 1 /\ results'[r][i - 1] = results[r][i]
          BY <2>1, <2>3, <4>3, <5>1
        <5> QED BY <2>1, <5>1, <5>2 DEF InResults
      <4>4. ~InHand(r, f) /\ ~InQueue(r, f)
        <5>1. ~(f < f)
          BY <1>01
        <5> QED BY <1>0, <2>1, <2>3, <5>1 DEF Lined, InOrder
      <4>5. InHand(r, s)' <=> InHand(r, s) /\ s # f
        BY <1>1, <4>4 DEF InHand
      <4>6. InQueue(r, s)' <=> InQueue(r, s) /\ s # f
        BY <1>1, <4>4 DEF InQueue, Elems
      <4>7. f \notin Calls(r)
        BY <1>0, <1>01, <1>4
      <4>8. Expected(r, s)' <=> Expected(r, s) /\ s # f
        BY <1>0, <1>1, <4>7 DEF Expected, Calls
      <4> QED BY <4>2, <4>3, <4>5, <4>6, <4>8
    <3> QED BY <1>0, <1>4, <3>1 DEF Lined, Line
  <2> QED BY <1>3, <2>4, <2>5, <2>6 DEF Lined
<1> QED BY <1>5, <1>6, <1>7

\* The other steps of the queue that a rank takes alone leave the pipeline alone.
LEMMA LoopPipeline ==
  ASSUME TypeInv, Agreement, Pipeline, NEW r \in Ranks, BeginFinalize(r) \/ QueueEmpty(r),
         UNCHANGED workerVars
  PROVE Pipeline'
<1>0. TypeOK /\ UNCHANGED <<calls, fin, got, results, wpc, wsave, queue, manager, diskVars>>
  BY DEF TypeInv, BeginFinalize, QueueEmpty, workerVars, callerVars
<1>1. /\ pc[r] \in {"ready", "loop"} /\ pc'[r] \in {"ready", "loop", "stop"}
      /\ \A q \in Ranks \ {r} : pc'[q] = pc[q] /\ ip'[q] = ip[q]
  <2>1. CASE NextOp(r)
    BY <1>0, <2>1, NextOpType DEF BeginFinalize, QueueEmpty, At
  <2>2. CASE Goto(r, "loop") \/ Goto(r, "stop")
    BY <1>0, <2>2 DEF BeginFinalize, QueueEmpty, At, Goto, TypeOK, QueueTypeOK
  <2> QED BY <2>1, <2>2 DEF BeginFinalize, QueueEmpty
<1>2. SameLine(r)
  BY <1>0, <1>1 DEF SameLine, Expected, Calls, InQueue, Elems
<1> QED BY <1>0, <1>1, <1>2, MovePipeline

\* A step all ranks take together that leaves the workers alone, keeps what is
\* expected of them, and writes metadata of complete saves only.
LEMMA TogetherPipeline ==
  ASSUME TypeInv, Pipeline, UNCHANGED <<results, wpc, wsave, queue, manager, written>>,
         \A r \in Ranks : \/ Broken(r)'
                          \/ ~Broken(r) /\ \A s \in Positions : Expected(r, s)' <=> Expected(r, s),
         \A r \in Ranks : HonestTrainer(r)',
         MetadataOnlyIfComplete'
  PROVE Pipeline'
<1>1. ASSUME NEW r \in Ranks PROVE Lined(r)'
  <2>1. Lined(r)
    BY DEF Pipeline
  <2>2. \A s : /\ InHand(r, s)' <=> InHand(r, s)
               /\ InQueue(r, s)' <=> InQueue(r, s)
               /\ InResults(r, s)' <=> InResults(r, s)
    BY DEF InHand, InQueue, InResults, Elems
  <2>3. InOrder(r)'
    BY <2>1, <2>2 DEF Lined, InOrder
  <2>4. Line(r)'
    BY <2>1, <2>2 DEF Lined, Line
  <2>5. HonestWorker(r)'
    BY <2>1 DEF Lined, HonestWorker
  <2> QED BY <2>3, <2>4, <2>5 DEF Lined
<1> QED BY <1>1 DEF Pipeline

\* The all-reduce: the head goes from the deque to the finalize functions.
LEMMA ReducePipeline ==
  ASSUME TypeInv, Agreement, Pipeline, ReduceAlive
  PROVE Pipeline'
<1>0. /\ UNCHANGED <<results, wpc, wsave, queue, manager, written, torchMeta, ckptMeta>>
      /\ Agreement' /\ MetadataOnlyIfComplete
  BY CollectiveAgrees DEF ReduceAlive, diskVars, Collective, Pipeline
<1>1. ASSUME NEW r \in Ranks
      PROVE /\ pc[r] = "reduce" /\ pc'[r] \in {"retrieve", "ready"}
            /\ calls[r] \in Seq(Positions) /\ calls[r] # <<>> /\ Rising(calls[r])
            /\ Positions \in SUBSET Nat
  BY PositionsAssumption
     DEF ReduceAlive, StartFinalize, LeaveLoop, AllAt, TypeInv, TypeOK, QueueTypeOK, Shape,
         Agreement, Deque
<1>2. ASSUME NEW r \in Ranks, NEW s \in Positions PROVE Expected(r, s)' <=> Expected(r, s)
  <2>1. CASE AllDone
    <3>1. /\ pc'[r] = "retrieve" /\ fin'[r] = Head(calls[r]) /\ calls'[r] = Tail(calls[r])
      BY <2>1 DEF ReduceAlive, StartFinalize, NextCall
    <3>2. /\ Head(calls[r]) \in Elems(calls[r])
          /\ Elems(calls'[r]) = Elems(calls[r]) \ {Head(calls[r])}
      BY <1>1, <3>1, RisingTail
    <3> QED BY <1>1, <3>1, <3>2 DEF Expected, Calls
  <2>2. CASE ~AllDone
    <3>1. pc'[r] = "ready" /\ calls' = calls
      BY <2>2 DEF ReduceAlive, LeaveLoop
    <3> QED BY <1>1, <3>1 DEF Expected, Calls
  <2> QED BY <2>1, <2>2
<1>3. \A r \in Ranks : ~Broken(r) /\ HonestTrainer(r)'
  BY <1>1 DEF Broken, HonestTrainer
<1>4. MetadataOnlyIfComplete'
  BY <1>0 DEF MetadataOnlyIfComplete
<1> QED BY <1>0, <1>2, <1>3, <1>4, TogetherPipeline

\* Gathering the results: metadata is written only if every rank has a good one.
LEMMA GatherPipeline ==
  ASSUME TypeInv, Agreement, Pipeline, GatherResults, UNCHANGED workerVars
  PROVE Pipeline'
<1> DEFINE f == fin[Coordinator]
<1>0. /\ UNCHANGED <<results, wpc, wsave, queue, manager, written, ckptMeta, ip, calls, fin, got>>
      /\ \A r \in Ranks : pc[r] = "gather" /\ fin[r] = f
      /\ MetadataOnlyIfComplete /\ \A r \in Ranks : Lined(r)
  BY RanksAssumption
     DEF GatherResults, workerVars, callerVars, AllAt, Agreement, SameHistory, Pipeline
<1>1. CASE GatheredFailures = {}
  <2>1. /\ torchMeta' = torchMeta \cup {f} /\ \A r \in Ranks : pc'[r] = "json" /\ got[r].ok
    BY <1>1 DEF GatherResults, GatheredFailures
  <2>2. f \in Positions
    BY <1>0, RanksAssumption DEF TypeInv, Shape
  <2>3. Writers[f] \subseteq Ranks
    BY <2>2, WritersAssumption
  <2>4. Writers[f] \subseteq written[f]
    BY <1>0, <2>1, <2>3 DEF Lined, HonestTrainer
  <2>5. MetadataOnlyIfComplete'
    BY <1>0, <2>1, <2>4 DEF MetadataOnlyIfComplete
  <2>6. ASSUME NEW r \in Ranks
        PROVE /\ ~Broken(r) /\ HonestTrainer(r)'
              /\ \A s \in Positions : Expected(r, s)' <=> Expected(r, s)
    BY <1>0, <2>1 DEF Broken, HonestTrainer, Expected, Calls
  <2> QED BY <1>0, <2>5, <2>6, TogetherPipeline
<1>2. CASE GatheredFailures # {}
  <2>1. torchMeta' = torchMeta /\ \A r \in Ranks : pc'[r] = "raised"
    BY <1>2 DEF GatherResults
  <2>2. \A r \in Ranks : Broken(r)' /\ HonestTrainer(r)'
    BY <2>1 DEF Broken, HonestTrainer
  <2>3. MetadataOnlyIfComplete'
    BY <1>0, <2>1 DEF MetadataOnlyIfComplete
  <2> QED BY <1>0, <2>2, <2>3, TogetherPipeline
<1> QED BY <1>1, <1>2

\* metadata.json is written of saves that have their .metadata.
LEMMA JsonPipeline ==
  ASSUME TypeInv, Agreement, Pipeline, SaveMetadataJson \/ AgreeOnCallIdx, UNCHANGED workerVars
  PROVE Pipeline'
<1>0. /\ UNCHANGED <<results, wpc, wsave, queue, manager, written, torchMeta, calls>>
      /\ MetadataOnlyIfComplete /\ \A r \in Ranks : Lined(r)
  BY DEF SaveMetadataJson, AgreeOnCallIdx, workerVars, callerVars, diskVars, Pipeline
<1>1. ASSUME NEW r \in Ranks
      PROVE pc[r] \in {"json", "agree"} /\ pc'[r] \in {"ready", "agree", "loop", "unmatched"}
  BY DEF SaveMetadataJson, AgreeOnCallIdx, AllAt
<1>2. ASSUME NEW r \in Ranks
      PROVE /\ ~Broken(r) /\ HonestTrainer(r)'
            /\ \A s \in Positions : Expected(r, s)' <=> Expected(r, s)
  BY <1>0, <1>1 DEF Broken, HonestTrainer, Expected, Calls
<1>3. MetadataOnlyIfComplete'
  <2>1. CASE SaveMetadataJson
    <3>1. fin[Coordinator] \in torchMeta /\ ckptMeta' = ckptMeta \cup {fin[Coordinator]}
      BY <1>0, <2>1, RanksAssumption DEF SaveMetadataJson, AllAt, Lined, HonestTrainer
    <3> QED BY <1>0, <3>1 DEF MetadataOnlyIfComplete
  <2>2. CASE AgreeOnCallIdx
    BY <1>0, <2>2 DEF AgreeOnCallIdx, diskVars, MetadataOnlyIfComplete
  <2> QED BY <2>1, <2>2
<1> QED BY <1>0, <1>2, <1>3, TogetherPipeline

\* Every step keeps the pipeline.
LEMMA StepPipeline ==
  ASSUME Plain, TypeInv, Agreement, Pipeline, [Next]_vars
  PROVE Pipeline'
<1>1. prog \in Programs /\ \A i \in 1 .. Len(prog) : prog[i] \notin {"sync", "fault"}
  BY DEF Plain, TypeInv, TypeOK, QueueTypeOK
<1>2. ASSUME NEW r \in Ranks, TrainerStep(r) PROVE Pipeline'
  <2>1. ~ExecuteSync(r) /\ ~NoFault(r)
    BY <1>1 DEF ExecuteSync, NoFault, At
  <2> QED BY <1>2, <2>1, LoopPipeline, RetrievePipeline, SchedulePipeline, PollPipeline,
             ClosePipeline
          DEF TrainerStep, QueueStep
<1>3. ASSUME NEW r \in Ranks, WorkerStep(r) \/ Failure(r) PROVE Pipeline'
  BY <1>3, TakePipeline, WritePipeline, PutPipeline DEF WorkerStep, Failure
<1>4. ASSUME Collective PROVE Pipeline'
  <2>1. ~SyncBarrier
    BY RanksAssumption DEF SyncBarrier, AllAt, Agreement, Deque, OpShape
  <2> QED BY <1>4, <2>1, ReducePipeline, GatherPipeline, JsonPipeline
          DEF Collective, QueueCollective
<1>5. CASE UNCHANGED vars
  <2>1. UNCHANGED <<pc, ip, calls, fin, got, results, wpc, wsave, queue, manager, written,
                    torchMeta, ckptMeta>>
    BY <1>5 DEF vars, queueVars, trainerVars, diskVars, workerVars, callerVars
  <2>2. \A r \in Ranks : Still(r)
    BY <2>1 DEF Still
  <2>3. Lined(Coordinator)'
    <3>1. SameLine(Coordinator)
      BY <2>1 DEF SameLine, Expected, Calls, InQueue, Elems
    <3>2. /\ Lined(Coordinator) /\ HonestTrainer(Coordinator)'
          /\ Broken(Coordinator) => Broken(Coordinator)'
      BY <2>1, RanksAssumption DEF Pipeline, Lined, HonestTrainer, Broken
    <3> QED BY <2>1, <3>1, <3>2, QuietLined, RanksAssumption
  <2> QED BY <2>1, <2>2, <2>3, PipelineElsewhere, RanksAssumption
<1>6. ~Restart
  BY <1>1 DEF Restart
<1> QED BY <1>2, <1>3, <1>4, <1>5, <1>6 DEF Next, Terminating

\* The pipelines are empty at first.
LEMMA InitPipeline == Init => Pipeline
<1> SUFFICES ASSUME Init PROVE Pipeline
  OBVIOUS
<1>1. ASSUME NEW r \in Ranks
      PROVE /\ Calls(r) = {} /\ pc[r] = "ready" /\ wpc[r] = "idle" /\ results[r] = <<>>
            /\ Elems(queue[r]) = {} /\ manager[r]
  <2>1. calls[r] = <<>> /\ queue[r] = <<>>
    BY DEF Init, QueueInit
  <2> QED BY <2>1 DEF Init, QueueInit, Calls, Elems
<1>2. ASSUME NEW r \in Ranks PROVE Lined(r)
  BY <1>1
     DEF Lined, InOrder, Line, HonestWorker, HonestTrainer, InHand, InQueue, InResults, Expected
<1>3. MetadataOnlyIfComplete
  BY DEF Init, QueueInit, MetadataOnlyIfComplete
<1> QED BY <1>1, <1>2, <1>3 DEF Pipeline

(***************************************************************************)
(* Whatever writers fail or die, and however many saves are in flight, a   *)
(* save gets its metadata only when the data of all its writers are on     *)
(* disk: for every program of asynchronous saves.                          *)
(***************************************************************************)
THEOREM MetadataCorrect ==
  ASSUME Plain
  PROVE Spec => []MetadataOnlyIfComplete
<1>1. Init => TypeInv /\ Agreement /\ Pipeline
  BY TypeInit, InitAgrees, InitPipeline
<1>2. TypeInv /\ Agreement /\ Pipeline /\ [Next]_vars => TypeInv' /\ Agreement' /\ Pipeline'
  BY TypeStep, StepAgrees, StepPipeline
<1>3. Pipeline => MetadataOnlyIfComplete
  BY DEF Pipeline
<1> QED BY <1>1, <1>2, <1>3, PTL DEF Spec
------------------------------------------------------------------------------
(***************************************************************************)
(* Proof that PersistentAsync finalizes a save only when the workers of    *)
(* all ranks are done with it, for programs of asynchronous saves.  A      *)
(* completed call carries the number of its save, but the caller compares  *)
(* it with nothing: that it is the one asked about follows from the order  *)
(* of what the trainer has handed over and not yet been told of.           *)
(***************************************************************************)

\* A rank has data to write in every save or in none, as in a run whose saves
\* are distributed alike.  Otherwise a rank may take the completion of a later
\* save for that of the head, in which it has nothing to write.
SameWriters == \A s, t \in Positions : Writers[s] = Writers[t]

IsWriter(r) == \E s \in Positions : r \in Writers[s]
------------------------------------------------------------------------------
\* Save s is in the hands of the worker.
AtWork(r, s) == wpc[r] # "idle" /\ wsave[r] = s

\* Save s has been handed to the worker of r, and its completion is not used up.
Handed(r, s) ==
  \/ curItem[r] = s
  \/ s \in Elems(comp[r])
  \/ AtWork(r, s)
  \/ s \in Elems(queue[r])

\* The trainer of r is to finalize s, or about to queue it.
Due(r, s) == s \in Calls(r) \/ (pc[r] = "stage" /\ s = ip[r])

\* The current item, the completed calls, the one in hand and the request in
\* the queue are in the order of the saves.
InTurn(r) ==
  /\ Rising(comp[r])
  /\ \A s \in Elems(comp[r]) : curItem[r] < s
  /\ \A t \in Positions : AtWork(r, t) \/ t \in Elems(queue[r]) =>
       curItem[r] < t /\ \A s \in Elems(comp[r]) : s < t
  /\ \A s, t \in Positions : AtWork(r, s) /\ t \in Elems(queue[r]) => s < t

\* A rank that writes: what it handed over is what it has to finalize.
Served(r) ==
  /\ \A s \in Positions : Handed(r, s) <=> Due(r, s)
  /\ InTurn(r)
  /\ worker[r] = "none" => calls[r] = <<>> /\ pc[r] # "stage"
  /\ pc[r] = "reduce" /\ ~vote[r] => curItem[r] # 0
  /\ curItem[r] # 0 => curItem[r] \in Calls(r)

\* A rank that never writes has no worker.
Unserved(r) ==
  /\ worker[r] = "none" /\ curItem[r] = 0 /\ comp[r] = <<>>
  /\ wpc[r] = "idle" /\ pc[r] # "stage"

Complete(r) ==
  /\ manager[r]
  /\ wpc[r] = "idle" => wsave[r] = 0
  /\ pc[r] \in {"stop", "stopping"} => calls[r] = <<>>
  /\ IsWriter(r) => Served(r)
  /\ ~IsWriter(r) => Unserved(r)

Completion == \A r \in Ranks : Complete(r)

\* A save that a rank finalizes was scheduled before.
Scheduled == \A r \in Ranks : pc[r] \in FinalizeLabels => fin[r] \in Passed(r)
------------------------------------------------------------------------------
\* All that the completion of rank q is about is left alone.
Idle(q) ==
  /\ pc'[q] = pc[q] /\ ip'[q] = ip[q] /\ calls'[q] = calls[q] /\ vote'[q] = vote[q]
  /\ worker'[q] = worker[q] /\ wpc'[q] = wpc[q] /\ wsave'[q] = wsave[q]
  /\ queue'[q] = queue[q] /\ comp'[q] = comp[q] /\ curItem'[q] = curItem[q]
  /\ manager'[q] = manager[q]

\* Such a rank keeps it.
LEMMA IdleCompletes ==
  ASSUME NEW q \in Ranks, Complete(q), Idle(q)
  PROVE Complete(q)'
<1>1. \A s : /\ Handed(q, s)' <=> Handed(q, s)
             /\ Due(q, s)' <=> Due(q, s)
             /\ AtWork(q, s)' <=> AtWork(q, s)
  BY DEF Idle, Handed, Due, AtWork, Calls, Elems
<1>2. InTurn(q)' <=> InTurn(q)
  BY <1>1 DEF Idle, InTurn, Rising, Elems
<1>3. Calls(q)' = Calls(q)
  BY DEF Idle, Calls, Elems
<1> QED BY <1>1, <1>2, <1>3 DEF Idle, Complete, Served, Unserved

\* A step of rank r alone has only the completion of r to keep.
LEMMA CompleteElsewhere ==
  ASSUME Completion, NEW r \in Ranks, Complete(r)', \A q \in Ranks \ {r} : Idle(q)
  PROVE Completion'
BY IdleCompletes DEF Completion

\* What the worker has, and what was told of it, stays.
WorkerStays(r) ==
  /\ worker'[r] = worker[r] /\ wpc'[r] = wpc[r] /\ wsave'[r] = wsave[r]
  /\ queue'[r] = queue[r] /\ comp'[r] = comp[r] /\ curItem'[r] = curItem[r]
  /\ manager'[r] = manager[r]

\* The trainer of r moves on, away from the saves.
LEMMA MoveCompletes ==
  ASSUME NEW r \in Ranks, Complete(r), WorkerStays(r), calls'[r] = calls[r],
         pc[r] # "stage", pc'[r] \notin {"stage", "reduce"},
         pc'[r] \in {"stop", "stopping"} => calls[r] = <<>>
  PROVE Complete(r)'
<1>1. \A s : /\ Handed(r, s)' <=> Handed(r, s)
             /\ Due(r, s)' <=> Due(r, s)
             /\ AtWork(r, s)' <=> AtWork(r, s)
  BY DEF WorkerStays, Handed, Due, AtWork, Calls, Elems
<1>2. InTurn(r)' <=> InTurn(r)
  BY <1>1 DEF WorkerStays, InTurn, Rising, Elems
<1>3. Calls(r)' = Calls(r)
  BY DEF Calls, Elems
<1> QED BY <1>1, <1>2, <1>3 DEF WorkerStays, Complete, Served, Unserved
------------------------------------------------------------------------------
\* A save that a rank has nothing to write in is only queued.
LEMMA NoopCompletes ==
  ASSUME SameWriters, TypeInv, Completion, NEW r \in Ranks, ScheduleNoop(r)
  PROVE Completion'
<1>0. TypeOK /\ Complete(r)
  BY DEF TypeInv, Completion
<1>1. ip[r] \in Positions /\ r \notin Writers[ip[r]] /\ pc[r] = "ready"
  BY <1>0, ProgramsAssumption DEF ScheduleNoop, At, TypeOK, QueueTypeOK
<1>2. ~IsWriter(r)
  BY <1>1 DEF SameWriters, IsWriter
<1>3. NextOp(r) /\ UNCHANGED <<vote, workerVars>>
  BY DEF ScheduleNoop
<1>4. pc'[r] = "ready" /\ \A q \in Ranks \ {r} : Idle(q)
  <2>1. \A q \in Ranks : q # r => calls'[q] = calls[q]
    BY <1>0 DEF ScheduleNoop, TypeOK, QueueTypeOK
  <2> QED BY <1>0, <1>3, <2>1, NextOpType DEF Idle, workerVars, callerVars
<1>5. Complete(r)'
  BY <1>0, <1>2, <1>3, <1>4 DEF Complete, Unserved, IsWriter, workerVars, callerVars
<1> QED BY <1>4, <1>5, CompleteElsewhere

\* A request goes into the queue of the worker: it becomes due while it is staged.
LEMMA CallCompletes ==
  ASSUME TypeInv, Agreement, Completion, NEW r \in Ranks, ScheduleCall(r)
  PROVE Completion'
<1>0. TypeOK /\ Shape(r) /\ Complete(r) /\ Deque(r) /\ Positions \in SUBSET Nat
  BY PositionsAssumption DEF TypeInv, Completion, Agreement
<1>1. /\ ip[r] \in Positions /\ ip[r] \in Nat /\ pc[r] = "ready" /\ r \in Writers[ip[r]]
      /\ queue[r] = <<>>
  <2>1. ip[r] \in Positions /\ pc[r] = "ready" /\ r \in Writers[ip[r]]
    BY <1>0, ProgramsAssumption DEF ScheduleCall, At, TypeOK, QueueTypeOK
  <2>2. queue[r] = <<>>
    BY <1>0, <2>1 DEF Shape, Staging
  <2> QED BY <1>0, <2>1, <2>2
<1>2. IsWriter(r) /\ Served(r)
  BY <1>0, <1>1 DEF IsWriter, Complete
<1>3. /\ pc'[r] = "stage" /\ ip'[r] = ip[r] /\ queue'[r] = <<ip[r]>> /\ worker'[r] # "none"
      /\ UNCHANGED <<calls, vote, wpc, wsave, comp, curItem, manager>>
      /\ \A q \in Ranks \ {r} : Idle(q)
  <2>1. /\ pc' = [pc EXCEPT ![r] = "stage"] /\ ip' = ip
        /\ worker' = [worker EXCEPT ![r] = IF @ = "none" THEN "alive" ELSE @]
        /\ queue' = [queue EXCEPT ![r] = Append(@, ip[r])]
        /\ UNCHANGED <<calls, vote, wpc, wsave, comp, curItem, manager>>
    BY DEF ScheduleCall, Goto
  <2>2. queue'[r] = <<ip[r]>> /\ \A q \in Ranks \ {r} : queue'[q] = queue[q]
    BY <1>0, <1>1, <2>1 DEF TypeOK
  <2>3. worker'[r] # "none" /\ \A q \in Ranks \ {r} : worker'[q] = worker[q]
    BY <1>0, <2>1 DEF TypeOK
  <2>4. pc'[r] = "stage" /\ \A q \in Ranks \ {r} : pc'[q] = pc[q]
    BY <1>0, <2>1 DEF TypeOK, QueueTypeOK
  <2> QED BY <2>1, <2>2, <2>3, <2>4 DEF Idle
<1>4. \A s \in Positions : s \notin Elems(queue[r]) /\ (s \in Elems(queue[r])' <=> s = ip[r])
  BY <1>1, <1>3 DEF Elems
<1>5. \A s \in Positions : /\ AtWork(r, s)' <=> AtWork(r, s)
                           /\ Due(r, s)' <=> Due(r, s) \/ s = ip[r]
                           /\ Handed(r, s)' <=> Handed(r, s) \/ s = ip[r]
  BY <1>1, <1>3, <1>4 DEF AtWork, Due, Handed, Calls, Elems
<1>6. \A s \in Positions : Handed(r, s) => s < ip[r]
  BY <1>1, <1>2 DEF Served, Due, Deque, Passed, Agreement
<1>7. InTurn(r)'
  <2>1. \A s \in Elems(comp[r]) : s \in Positions /\ s < ip[r]
    <3>1. \A i \in 1 .. Len(comp[r]) : comp[r][i] \in Positions
      BY <1>0 DEF TypeOK
    <3> QED BY <1>6, <3>1 DEF Elems, Handed
  <2>2. curItem[r] < ip[r]
    <3>1. curItem[r] \in Positions \cup {0}
      BY <1>0 DEF TypeOK
    <3>2. CASE curItem[r] \in Positions
      BY <1>6, <3>2 DEF Handed
    <3>3. CASE curItem[r] = 0
      BY <1>1, <3>3, PositionsAssumption
    <3> QED BY <3>1, <3>2, <3>3
  <2>3. \A s \in Positions : AtWork(r, s) => s < ip[r]
    BY <1>6 DEF Handed
  <2> QED BY <1>2, <1>3, <1>4, <1>5, <2>1, <2>2, <2>3 DEF Served, InTurn, Rising, Elems
<1>8. Complete(r)'
  BY <1>0, <1>2, <1>3, <1>5, <1>7 DEF Complete, Served, IsWriter, Calls, Elems
<1> QED BY <1>3, <1>8, CompleteElsewhere

\* A staged save goes into the deque: it is due as before.
LEMMA ResumeCompletes ==
  ASSUME TypeInv, Agreement, Completion, NEW r \in Ranks, ResumeWhenStaged(r)
  PROVE Completion'
<1>0. TypeOK /\ Shape(r) /\ Complete(r) /\ Deque(r) /\ Positions \in SUBSET Nat
      /\ calls[r] \in Seq(Positions)
  BY PositionsAssumption DEF TypeInv, TypeOK, QueueTypeOK, Completion, Agreement
<1>1. pc[r] = "stage" /\ ip[r] \in Positions
  BY <1>0 DEF ResumeWhenStaged, Shape
<1>2. IsWriter(r) /\ Served(r)
  BY <1>0, <1>1 DEF Complete, Unserved
<1>3. NextOp(r) /\ UNCHANGED <<vote, workerVars>>
  BY DEF ResumeWhenStaged
<1>4. calls'[r] = Append(calls[r], ip[r]) /\ \A q \in Ranks : q # r => calls'[q] = calls[q]
  BY <1>0 DEF ResumeWhenStaged, TypeOK, QueueTypeOK
<1>5. pc'[r] = "ready" /\ \A q \in Ranks \ {r} : Idle(q)
  BY <1>0, <1>3, <1>4, NextOpType DEF Idle, workerVars, callerVars
<1>6. Calls(r)' = Calls(r) \cup {ip[r]}
  <2>1. \A s \in Elems(calls[r]) : s < ip[r]
    BY <1>0 DEF Deque, Calls, Passed
  <2>2. Elems(calls'[r]) = Elems(calls[r]) \cup {ip[r]}
    BY <1>0, <1>1, <1>4, <2>1, RisingAppend DEF Deque
  <2> QED BY <2>2 DEF Calls
<1>7. \A s : /\ AtWork(r, s)' <=> AtWork(r, s)
             /\ Due(r, s)' <=> Due(r, s)
             /\ Handed(r, s)' <=> Handed(r, s)
  BY <1>1, <1>3, <1>5, <1>6 DEF AtWork, Due, Handed, Elems, workerVars, callerVars
<1>8. InTurn(r)' <=> InTurn(r)
  BY <1>3, <1>7 DEF InTurn, Rising, Elems, workerVars, callerVars
<1>9. Complete(r)'
  BY <1>0, <1>1, <1>2, <1>3, <1>5, <1>6, <1>7, <1>8
     DEF Complete, Served, IsWriter, workerVars, callerVars
<1> QED BY <1>5, <1>9, CompleteElsewhere

\* A rank that votes "done" has a completed call in hand: the oldest.
LEMMA PollCompletes ==
  ASSUME TypeInv, Completion, NEW r \in Ranks,
         PollKnown(r) \/ PollCompleted(r) \/ PollPending(r)
  PROVE Completion'
<1>0. TypeOK /\ Complete(r) /\ Positions \in SUBSET Nat /\ comp[r] \in Seq(Positions)
  BY PositionsAssumption DEF TypeInv, TypeOK, Completion
<1>1. PICK alive \in BOOLEAN : Poll(r, alive)
  BY DEF PollKnown, PollCompleted, PollPending
<1>2. /\ pc[r] = "loop" /\ calls[r] # <<>> /\ pc'[r] = "reduce"
      /\ UNCHANGED <<ip, calls, worker, wpc, wsave, queue, manager>>
      /\ \A q \in Ranks \ {r} : pc'[q] = pc[q] /\ vote'[q] = vote[q]
      /\ vote'[r] = alive
  BY <1>0, <1>1 DEF Poll, Goto, TypeOK, QueueTypeOK
<1>3. CASE PollKnown(r) \/ PollPending(r)
  <2>1. UNCHANGED <<comp, curItem>>
    BY <1>3 DEF PollKnown, PollPending
  <2>2. IsWriter(r) => vote'[r] \/ curItem[r] # 0
    <3>1. CASE PollKnown(r)
      BY <1>0, <1>2, <3>1 DEF PollKnown, Complete, Served
    <3>2. CASE PollPending(r)
      <4>1. vote' = [vote EXCEPT ![r] = TRUE]
        BY <3>2 DEF PollPending, Poll
      <4> QED BY <1>0, <4>1 DEF TypeOK, QueueTypeOK
    <3> QED BY <1>3, <3>1, <3>2
  <2>3. \A s : /\ AtWork(r, s)' <=> AtWork(r, s)
               /\ Due(r, s)' <=> Due(r, s)
               /\ Handed(r, s)' <=> Handed(r, s)
    BY <1>2, <2>1 DEF AtWork, Due, Handed, Calls, Elems
  <2>4. InTurn(r)' <=> InTurn(r)
    BY <1>2, <2>1, <2>3 DEF InTurn, Rising, Elems
  <2>5. Complete(r)'
    <3>1. Calls(r)' = Calls(r)
      BY <1>2 DEF Calls, Elems
    <3> QED BY <1>0, <1>2, <2>1, <2>2, <2>3, <2>4, <3>1 DEF Complete, Served, Unserved, IsWriter
  <2>6. \A q \in Ranks \ {r} : Idle(q)
    BY <1>2, <2>1 DEF Idle
  <2> QED BY <2>5, <2>6, CompleteElsewhere
<1>4. CASE PollCompleted(r)
  <2> DEFINE h == Head(comp[r])
  <2>1. comp[r] # <<>> /\ curItem[r] = 0 /\ worker[r] # "none"
    BY <1>4 DEF PollCompleted
  <2>2. IsWriter(r) /\ Served(r)
    BY <1>0, <2>1 DEF Complete, Unserved
  <2>3. /\ comp'[r] = Tail(comp[r]) /\ curItem'[r] = h
        /\ \A q \in Ranks \ {r} : comp'[q] = comp[q] /\ curItem'[q] = curItem[q]
    BY <1>0, <1>4 DEF PollCompleted, TypeOK
  <2>4. /\ h \in Elems(comp[r]) /\ Rising(comp'[r])
        /\ Elems(comp'[r]) = Elems(comp[r]) \ {h}
        /\ \A s \in Elems(comp'[r]) : h < s
        /\ h \in Positions
    <3>1. Rising(comp[r])
      BY <2>2 DEF Served, InTurn
    <3>2. h \in Positions
      BY <1>0, <2>1
    <3> QED BY <1>0, <2>1, <2>3, <3>1, <3>2, RisingTail
  <2>5. \A s \in Positions : /\ AtWork(r, s)' <=> AtWork(r, s)
                             /\ Due(r, s)' <=> Due(r, s)
                             /\ s \in Elems(queue[r])' <=> s \in Elems(queue[r])
                             /\ s # 0
    BY <1>2, PositionsAssumption DEF AtWork, Due, Calls, Elems
  <2>6. \A s \in Positions : Handed(r, s)' <=> Handed(r, s)
    BY <2>1, <2>3, <2>4, <2>5 DEF Handed, Elems
  <2>7. InTurn(r)'
    <3>1. \A t \in Positions : AtWork(r, t) \/ t \in Elems(queue[r]) =>
            \A s \in Elems(comp[r]) : s < t
      BY <2>2 DEF Served, InTurn
    <3>2. Elems(comp[r])' = Elems(comp'[r])
      BY DEF Elems
    <3>3. Rising(comp[r])'
      BY <2>4 DEF Rising
    <3>4. \A s \in Elems(comp[r])' : curItem'[r] < s
      BY <2>3, <2>4, <3>2
    <3>5. \A t \in Positions : AtWork(r, t)' \/ t \in Elems(queue[r])' =>
            curItem'[r] < t /\ \A s \in Elems(comp[r])' : s < t
      BY <2>3, <2>4, <2>5, <3>1, <3>2
    <3>6. \A s, t \in Positions : AtWork(r, s)' /\ t \in Elems(queue[r])' => s < t
      BY <2>2, <2>5 DEF Served, InTurn
    <3> QED BY <3>3, <3>4, <3>5, <3>6 DEF InTurn
  <2>8. Served(r)'
    <3>1. curItem'[r] # 0
      BY <2>3, <2>4, PositionsAssumption
    <3>2. curItem'[r] \in Calls(r)'
      BY <1>2, <2>2, <2>3, <2>4 DEF Served, Handed, Due, Calls, Elems
    <3> QED BY <1>2, <2>1, <2>2, <2>5, <2>6, <2>7, <3>1, <3>2 DEF Served
  <2>9. Complete(r)'
    BY <1>0, <1>2, <2>2, <2>8 DEF Complete, IsWriter
  <2>10. \A q \in Ranks \ {r} : Idle(q)
    BY <1>2, <2>3 DEF Idle
  <2> QED BY <2>9, <2>10, CompleteElsewhere
<1> QED BY <1>3, <1>4

\* The steps of the queue that a rank takes alone hand nothing over.
LEMMA QueueStepCompletes ==
  ASSUME TypeInv, Completion, NEW r \in Ranks, UNCHANGED workerVars,
         BeginFinalize(r) \/ QueueEmpty(r) \/ Retrieve(r)
  PROVE Completion'
<1>0. TypeOK /\ Complete(r)
  BY DEF TypeInv, Completion
<1>1. UNCHANGED <<calls, vote>> /\ \A q \in Ranks : WorkerStays(q)
  BY DEF BeginFinalize, QueueEmpty, Retrieve, WorkerStays, workerVars, callerVars
<1>2. /\ pc[r] # "stage" /\ pc'[r] \in {"loop", "ready", "stop", "gather"}
      /\ pc'[r] = "stop" => calls[r] = <<>>
      /\ \A q \in Ranks : q # r => ip'[q] = ip[q] /\ pc'[q] = pc[q]
  <2>1. CASE NextOp(r)
    BY <1>0, <2>1, NextOpType DEF BeginFinalize, QueueEmpty, Retrieve, At
  <2>2. ASSUME NEW label \in {"loop", "stop", "gather"}, Goto(r, label)
        PROVE pc'[r] = label /\ \A q \in Ranks : q # r => ip'[q] = ip[q] /\ pc'[q] = pc[q]
    BY <1>0, <2>2 DEF Goto, TypeOK, QueueTypeOK
  <2> QED BY <2>1, <2>2 DEF BeginFinalize, QueueEmpty, Retrieve, At
<1>3. Complete(r)'
  BY <1>0, <1>1, <1>2, MoveCompletes
<1>4. \A q \in Ranks \ {r} : Idle(q)
  BY <1>1, <1>2 DEF Idle, WorkerStays
<1> QED BY <1>3, <1>4, CompleteElsewhere

\* Neither does closing the caller, which happens when nothing is due.
LEMMA CloseCompletes ==
  ASSUME TypeInv, Completion, NEW r \in Ranks, CloseNothing(r) \/ SendDone(r) \/ JoinWorker(r)
  PROVE Completion'
<1>0. TypeOK /\ Shape(r) /\ Complete(r)
  BY DEF TypeInv, Completion
<1>1. CASE CloseNothing(r)
  <2>1. UNCHANGED <<calls, vote>> /\ \A q \in Ranks : WorkerStays(q)
    BY <1>1 DEF CloseNothing, WorkerStays, workerVars, callerVars
  <2>2. pc[r] = "stop" /\ pc'[r] = "ready" /\ \A q \in Ranks : q # r => ip'[q] = ip[q] /\ pc'[q] = pc[q]
    BY <1>0, <1>1, NextOpType DEF CloseNothing
  <2>3. Complete(r)'
    BY <1>0, <2>1, <2>2, MoveCompletes
  <2>4. \A q \in Ranks \ {r} : Idle(q)
    BY <2>1, <2>2 DEF Idle, WorkerStays
  <2> QED BY <2>3, <2>4, CompleteElsewhere
<1>2. CASE SendDone(r) \/ JoinWorker(r)
  <2>1. /\ pc[r] \in {"stop", "stopping"} /\ calls[r] = <<>> /\ worker[r] # "none"
        /\ UNCHANGED <<calls, vote, wpc, wsave, comp, curItem, manager>>
    BY <1>0, <1>2 DEF SendDone, JoinWorker, Complete
  <2>2. /\ pc'[r] \in {"stopping", "ready"}
        /\ \A q \in Ranks : q # r =>
             ip'[q] = ip[q] /\ pc'[q] = pc[q] /\ queue'[q] = queue[q] /\ worker'[q] = worker[q]
    <3>1. CASE SendDone(r)
      BY <1>0, <3>1 DEF SendDone, Goto, TypeOK, QueueTypeOK
    <3>2. CASE JoinWorker(r)
      BY <1>0, <3>2, NextOpType DEF JoinWorker, TypeOK
    <3> QED BY <1>2, <3>1, <3>2
  <2>3. \A s \in Positions : s \in Elems(queue[r])' <=> s \in Elems(queue[r])
    <3>1. CASE SendDone(r)
      <4>1. queue[r] = <<>>
        BY <1>0, <3>1 DEF SendDone, Shape, Staging
      <4>2. queue'[r] = <<Done>>
        BY <1>0, <3>1, <4>1 DEF SendDone, TypeOK
      <4> QED BY <4>1, <4>2, PositionsAssumption DEF Elems, Done
    <3>2. CASE JoinWorker(r)
      BY <3>2 DEF JoinWorker, Elems
    <3> QED BY <1>2, <3>1, <3>2
  <2>4. IsWriter(r) /\ Served(r)
    BY <1>0, <2>1 DEF Complete, Unserved
  <2>5. \A s \in Positions : /\ AtWork(r, s)' <=> AtWork(r, s)
                             /\ Due(r, s)' <=> Due(r, s)
                             /\ Handed(r, s)' <=> Handed(r, s)
    BY <2>1, <2>2, <2>3 DEF AtWork, Due, Handed, Calls, Elems
  <2>6. InTurn(r)'
    BY <2>1, <2>3, <2>4, <2>5 DEF Served, InTurn, Rising, Elems
  <2>7. Complete(r)'
    BY <1>0, <2>1, <2>2, <2>4, <2>5, <2>6 DEF Complete, Served, IsWriter, Calls, Elems
  <2>8. \A q \in Ranks \ {r} : Idle(q)
    BY <2>1, <2>2 DEF Idle
  <2> QED BY <2>7, <2>8, CompleteElsewhere
<1> QED BY <1>1, <1>2
------------------------------------------------------------------------------
\* A step of the worker of r that leaves in the same places all it was handed.
LEMMA HandsComplete ==
  ASSUME TypeInv, Completion, NEW r \in Ranks, worker[r] = "alive",
         UNCHANGED <<trainerVars, comp, curItem, manager>>,
         \A q \in Ranks \ {r} : /\ worker'[q] = worker[q] /\ wpc'[q] = wpc[q]
                                /\ wsave'[q] = wsave[q] /\ queue'[q] = queue[q],
         worker'[r] # "none", wpc'[r] = "idle" => wsave'[r] = 0,
         \A s \in Positions : AtWork(r, s)' <=> AtWork(r, s),
         \A s \in Positions : s \in Elems(queue[r])' <=> s \in Elems(queue[r])
  PROVE Completion'
<1>1. Complete(r) /\ UNCHANGED <<pc, ip, calls, vote, comp, curItem, manager>>
  BY DEF Completion, trainerVars
<1>2. IsWriter(r) /\ Served(r)
  BY <1>1 DEF Complete, Unserved
<1>3. \A s \in Positions : /\ Due(r, s)' <=> Due(r, s)
                           /\ Handed(r, s)' <=> Handed(r, s)
  BY <1>1 DEF Due, Handed, Calls, Elems
<1>4. InTurn(r)'
  BY <1>1, <1>2 DEF Served, InTurn, Rising, Elems
<1>5. Complete(r)'
  BY <1>1, <1>2, <1>3, <1>4 DEF Complete, Served, IsWriter, Calls, Elems
<1>6. \A q \in Ranks \ {r} : Idle(q)
  BY <1>1 DEF Idle
<1> QED BY <1>5, <1>6, CompleteElsewhere

\* The worker executes a request, is told to stop, or dies.
LEMMA ExecuteCompletes ==
  ASSUME TypeInv, Completion, NEW r \in Ranks,
         \/ TakeDone(r) \/ TakeDeadProxy(r) \/ Preload(r) \/ WriteData(r)
         \/ PutWriteResults(r) \/ PutWriteError(r) \/ Die(r)
  PROVE Completion'
<1>0. TypeOK /\ Shape(r) /\ Complete(r)
  BY DEF TypeInv, Completion
<1>1. CASE TakeDone(r)
  <2>1. queue[r] = <<Done>>
    BY <1>0, <1>1 DEF TakeDone, Take, Shape, Staging, Done
  <2>2. /\ queue'[r] = <<>> /\ worker'[r] = "exited" /\ worker[r] = "alive"
        /\ UNCHANGED <<trainerVars, wpc, wsave, comp, curItem, manager>>
        /\ \A q \in Ranks \ {r} : worker'[q] = worker[q] /\ queue'[q] = queue[q]
    BY <1>0, <1>1, <2>1 DEF TakeDone, Take, queueVars, TypeOK
  <2>3. \A s \in Positions : s \in Elems(queue[r])' <=> s \in Elems(queue[r])
    BY <2>1, <2>2, PositionsAssumption DEF Elems, Done
  <2>4. \A s \in Positions : AtWork(r, s)' <=> AtWork(r, s)
    BY <2>2 DEF AtWork
  <2>5. wpc'[r] = "idle" => wsave'[r] = 0
    BY <1>0, <2>2 DEF Complete
  <2> QED BY <2>2, <2>3, <2>4, <2>5, HandsComplete
<1>2. CASE TakeDeadProxy(r)
  BY <1>0, <1>2 DEF TakeDeadProxy, Complete
<1>3. CASE Die(r)
  <2>1. /\ worker'[r] = "dead" /\ worker[r] = "alive"
        /\ UNCHANGED <<trainerVars, wpc, wsave, queue, comp, curItem, manager>>
        /\ \A q \in Ranks \ {r} : worker'[q] = worker[q]
    BY <1>0, <1>3 DEF Die, TypeOK
  <2>2. \A s \in Positions : /\ AtWork(r, s)' <=> AtWork(r, s)
                             /\ s \in Elems(queue[r])' <=> s \in Elems(queue[r])
    BY <2>1 DEF AtWork, Elems
  <2>3. wpc'[r] = "idle" => wsave'[r] = 0
    BY <1>0, <2>1 DEF Complete
  <2> QED BY <2>1, <2>2, <2>3, HandsComplete
<1>4. CASE Preload(r) \/ WriteData(r) \/ PutWriteResults(r) \/ PutWriteError(r)
  <2>1. /\ worker[r] = "alive" /\ wpc[r] # "idle"
        /\ UNCHANGED <<trainerVars, worker, wsave, queue, comp, curItem, manager>>
        /\ \E label \in {"write", "put", "report"} : wpc' = [wpc EXCEPT ![r] = label]
    BY <1>4 DEF Preload, WriteData, PutWriteResults, PutWriteError, PutResult, queueVars
  <2>2. wpc'[r] # "idle" /\ \A q \in Ranks \ {r} : wpc'[q] = wpc[q]
    BY <1>0, <2>1 DEF TypeOK
  <2>3. \A s \in Positions : /\ AtWork(r, s)' <=> AtWork(r, s)
                             /\ s \in Elems(queue[r])' <=> s \in Elems(queue[r])
    BY <2>1, <2>2 DEF AtWork, Elems
  <2> QED BY <2>1, <2>2, <2>3, HandsComplete
<1> QED BY <1>1, <1>2, <1>3, <1>4

\* The request of the queue comes into the hands of the worker.
LEMMA TakeCompletes ==
  ASSUME TypeInv, Completion, NEW r \in Ranks, TakeRequest(r)
  PROVE Completion'
<1>0. TypeOK /\ Shape(r) /\ Complete(r)
  BY DEF TypeInv, Completion
<1>1. queue[r] = <<ip[r]>> /\ ip[r] \in Positions /\ wpc[r] = "idle" /\ worker[r] = "alive"
  BY <1>0 DEF TakeRequest, Take, Shape, Staging, Done
<1>2. /\ queue'[r] = <<>> /\ wsave'[r] = ip[r] /\ wpc'[r] = "preload"
      /\ UNCHANGED <<pc, ip, calls, vote, worker, comp, curItem, manager>>
      /\ \A q \in Ranks \ {r} : /\ queue'[q] = queue[q] /\ wsave'[q] = wsave[q]
                                /\ wpc'[q] = wpc[q]
  BY <1>0, <1>1 DEF TakeRequest, Take, queueVars, trainerVars, TypeOK
<1>3. IsWriter(r) /\ Served(r)
  BY <1>0, <1>1 DEF Complete, Unserved
<1>4. \A s \in Positions : /\ ~AtWork(r, s) /\ (s \in Elems(queue[r]) <=> s = ip[r])
                           /\ s \notin Elems(queue[r])' /\ (AtWork(r, s)' <=> s = ip[r])
  BY <1>1, <1>2 DEF AtWork, Elems
<1>5. \A s \in Positions : /\ Due(r, s)' <=> Due(r, s)
                           /\ Handed(r, s)' <=> Handed(r, s)
  BY <1>2, <1>4 DEF Due, Handed, Calls, Elems
<1>6. InTurn(r)'
  BY <1>2, <1>3, <1>4 DEF Served, InTurn, Rising, Elems
<1>7. Complete(r)'
  BY <1>0, <1>2, <1>3, <1>5, <1>6 DEF Complete, Served, IsWriter, Calls, Elems
<1>8. \A q \in Ranks \ {r} : Idle(q)
  BY <1>2 DEF Idle
<1> QED BY <1>7, <1>8, CompleteElsewhere

\* The completed call goes to the end of comp_q.
LEMMA ReportCompletes ==
  ASSUME TypeInv, Completion, NEW r \in Ranks, Report(r)
  PROVE Completion'
<1> DEFINE x == wsave[r]
<1>0. /\ TypeOK /\ Complete(r) /\ x \in Positions /\ comp[r] \in Seq(Positions)
      /\ Positions \in SUBSET Nat /\ AtWork(r, x) /\ worker[r] = "alive"
  BY PositionsAssumption DEF TypeInv, TypeOK, Shape, Completion, Report, AtWork
<1>1. /\ comp'[r] = Append(comp[r], x) /\ wsave'[r] = 0 /\ wpc'[r] = "idle"
      /\ UNCHANGED <<pc, ip, calls, vote, worker, queue, curItem, manager>>
      /\ \A q \in Ranks \ {r} : /\ comp'[q] = comp[q] /\ wsave'[q] = wsave[q]
                                /\ wpc'[q] = wpc[q]
  BY <1>0 DEF Report, queueVars, trainerVars, TypeOK
<1>2. IsWriter(r) /\ Served(r)
  BY <1>0 DEF Complete, Unserved
<1>3. Rising(comp'[r]) /\ Elems(comp'[r]) = Elems(comp[r]) \cup {x}
  <2>1. Rising(comp[r]) /\ \A s \in Elems(comp[r]) : s < x
    BY <1>0, <1>2 DEF Served, InTurn
  <2>2. Rising(Append(comp[r], x)) /\ Elems(Append(comp[r], x)) = Elems(comp[r]) \cup {x}
    <3>1. /\ Positions \in SUBSET Nat /\ comp[r] \in Seq(Positions) /\ x \in Positions
      BY <1>0
    <3> HIDE DEF x
    <3> QED BY ONLY <2>1, <3>1, RisingAppend
  <2> QED BY <1>1, <2>2
<1>4. Elems(comp[r])' = Elems(comp[r]) \cup {x} /\ Rising(comp[r])'
  BY <1>3 DEF Elems, Rising
<1>5. \A s \in Positions : /\ AtWork(r, s) <=> s = x
                           /\ ~AtWork(r, s)'
                           /\ s \in Elems(queue[r])' <=> s \in Elems(queue[r])
                           /\ Due(r, s)' <=> Due(r, s)
  BY <1>0, <1>1 DEF AtWork, Due, Calls, Elems
<1>6. \A s \in Positions : Handed(r, s)' <=> Handed(r, s)
  BY <1>1, <1>4, <1>5 DEF Handed
<1>7. InTurn(r)'
  <2>1. \A s \in Elems(comp[r])' : curItem'[r] < s
    BY <1>0, <1>1, <1>2, <1>4 DEF Served, InTurn
  <2>2. \A t \in Positions : t \in Elems(queue[r])' =>
          curItem'[r] < t /\ \A s \in Elems(comp[r])' : s < t
    BY <1>0, <1>1, <1>2, <1>4, <1>5 DEF Served, InTurn
  <2> QED BY <1>4, <1>5, <2>1, <2>2 DEF InTurn
<1>8. Complete(r)'
  BY <1>0, <1>1, <1>2, <1>5, <1>6, <1>7 DEF Complete, Served, IsWriter, Calls, Elems
<1>9. \A q \in Ranks \ {r} : Idle(q)
  BY <1>1 DEF Idle
<1> QED BY <1>8, <1>9, CompleteElsewhere
------------------------------------------------------------------------------
\* The completed call a rank holds is that of the head of its deque: the head
\* was handed over, and nothing handed over is before the current item.
LEMMA CurrentIsHead ==
  ASSUME TypeInv, Agreement, Completion, NEW r \in Ranks, curItem[r] # 0
  PROVE calls[r] # <<>> /\ curItem[r] = Head(calls[r])
<1> DEFINE h == Head(calls[r])
           c == curItem[r]
<1>0. /\ TypeOK /\ Complete(r) /\ calls[r] \in Seq(Positions) /\ Positions \in SUBSET Nat
      /\ Rising(calls[r]) /\ c \in Positions
  BY PositionsAssumption DEF TypeInv, TypeOK, QueueTypeOK, Completion, Agreement, Deque
<1>1. Served(r)
  BY <1>0 DEF Complete, Unserved
<1>2. c \in Calls(r)
  BY <1>1 DEF Served
<1>3. calls[r] # <<>>
  BY <1>2 DEF Calls, Elems
<1>4. h \in Calls(r) /\ \A s \in Calls(r) : s = h \/ h < s
  BY <1>0, <1>3, RisingTail DEF Calls
<1>5. h \in Positions
  BY <1>0, <1>3
<1>6. Handed(r, h)
  BY <1>1, <1>4, <1>5 DEF Served, Due
<1>7. c = h \/ c < h
  BY <1>1, <1>5, <1>6 DEF Served, InTurn, Handed
<1>8. c \in Nat /\ h \in Nat /\ (c = h \/ h < c)
  BY <1>0, <1>2, <1>4, <1>5
<1>9. c = h
  <2> HIDE DEF c, h
  <2> QED BY <1>7, <1>8
<1> QED BY <1>3, <1>9

\* All ranks forget their completed call and pop the save it is of.
LEMMA StartCompletes ==
  ASSUME TypeInv, Agreement, Completion, ReduceAlive, AllDone
  PROVE Completion'
<1>1. ASSUME NEW r \in Ranks PROVE Complete(r)'
  <2> DEFINE h == Head(calls[r])
  <2>0. /\ TypeOK /\ Complete(r) /\ calls[r] \in Seq(Positions) /\ Positions \in SUBSET Nat
        /\ Rising(calls[r]) /\ calls[r] # <<>> /\ pc[r] = "reduce" /\ ~vote[r]
    BY PositionsAssumption
       DEF TypeInv, TypeOK, QueueTypeOK, Shape, Completion, Agreement, Deque, ReduceAlive, AllAt,
           AllDone
  <2>1. /\ pc'[r] = "retrieve" /\ calls'[r] = Tail(calls[r]) /\ curItem'[r] = 0
        /\ UNCHANGED <<worker, wpc, wsave, queue, comp, manager>>
    BY DEF ReduceAlive, StartFinalize
  <2>2. CASE ~IsWriter(r)
    BY <2>0, <2>1, <2>2 DEF Complete, Unserved, IsWriter
  <2>3. CASE IsWriter(r)
    <3>1. Served(r) /\ curItem[r] = h /\ h \in Positions
      <4>1. Served(r)
        BY <2>0, <2>3 DEF Complete
      <4>2. curItem[r] # 0
        BY <2>0, <4>1 DEF Served
      <4>3. curItem[r] = h
        BY <4>2, CurrentIsHead
      <4>4. h \in Positions
        BY <2>0
      <4> QED BY <4>1, <4>3, <4>4
    <3>2. Calls(r)' = Calls(r) \ {h}
      BY <2>0, <2>1, RisingTail DEF Calls
    <3>3. \A s \in Positions : /\ AtWork(r, s)' <=> AtWork(r, s)
                               /\ s \in Elems(queue[r])' <=> s \in Elems(queue[r])
                               /\ s \in Elems(comp[r])' <=> s \in Elems(comp[r])
                               /\ s # 0
      BY <2>1, PositionsAssumption DEF AtWork, Elems
    <3>4. ~AtWork(r, h) /\ h \notin Elems(queue[r]) /\ h \notin Elems(comp[r])
      <4>1. ~(h < h)
        BY <2>0, <3>1
      <4> QED BY <3>1, <4>1 DEF Served, InTurn
    <3>5. \A s \in Positions : /\ Due(r, s)' <=> Due(r, s) /\ s # h
                               /\ Handed(r, s)' <=> Handed(r, s) /\ s # h
      BY <2>0, <2>1, <3>1, <3>2, <3>3, <3>4 DEF Due, Handed
    <3>6. InTurn(r)'
      <4>1. Elems(comp[r])' = Elems(comp[r]) /\ Rising(comp[r])' /\ Elems(comp[r]) \subseteq Positions
        <5>1. \A i \in 1 .. Len(comp[r]) : comp[r][i] \in Positions
          BY <2>0 DEF TypeOK
        <5> QED BY <2>1, <3>1, <5>1 DEF Served, InTurn, Elems, Rising
      <4>2. \A s \in Positions : 0 < s
        BY PositionsAssumption
      <4> QED BY <2>1, <3>1, <3>3, <4>1, <4>2 DEF Served, InTurn
    <3>7. worker[r] # "none"
      BY <2>0, <3>1 DEF Served
    <3>8. Served(r)'
      BY <2>1, <3>1, <3>5, <3>6, <3>7 DEF Served
    <3> QED BY <2>0, <2>1, <2>3, <3>8 DEF Complete, IsWriter
  <2> QED BY <2>2, <2>3
<1> QED BY <1>1 DEF Completion

\* The other steps all ranks take together hand nothing over.
LEMMA CollectiveCompletes ==
  ASSUME TypeInv, Agreement, Completion, Collective
  PROVE Completion'
<1>1. CASE ReduceAlive /\ AllDone
  BY <1>1, StartCompletes
<1>2. CASE ReduceAlive /\ ~AllDone
  <2>1. ASSUME NEW r \in Ranks
        PROVE /\ pc[r] = "reduce" /\ pc'[r] = "ready" /\ calls' = calls /\ WorkerStays(r)
    BY <1>2 DEF ReduceAlive, LeaveLoop, AllAt, WorkerStays
  <2> QED BY <2>1, MoveCompletes DEF Completion
<1>3. CASE GatherResults /\ UNCHANGED workerVars
  <2>1. ASSUME NEW r \in Ranks
        PROVE pc[r] = "gather" /\ pc'[r] \in {"json", "raised"} /\ calls' = calls /\ WorkerStays(r)
    BY <1>3 DEF GatherResults, AllAt, WorkerStays, workerVars, callerVars
  <2> QED BY <2>1, MoveCompletes DEF Completion
<1>4. CASE SaveMetadataJson /\ UNCHANGED workerVars
  <2>1. ASSUME NEW r \in Ranks
        PROVE pc[r] = "json" /\ pc'[r] \in {"ready", "agree"} /\ calls' = calls /\ WorkerStays(r)
    BY <1>4 DEF SaveMetadataJson, AllAt, WorkerStays, workerVars, callerVars
  <2> QED BY <2>1, MoveCompletes DEF Completion
<1>5. CASE AgreeOnCallIdx /\ UNCHANGED workerVars
  <2>1. ASSUME NEW r \in Ranks
        PROVE pc[r] = "agree" /\ pc'[r] \in {"loop", "unmatched"} /\ calls' = calls /\ WorkerStays(r)
    BY <1>5 DEF AgreeOnCallIdx, AllAt, WorkerStays, workerVars, callerVars
  <2> QED BY <2>1, MoveCompletes DEF Completion
<1>6. ~SyncBarrier
  BY RanksAssumption DEF SyncBarrier, AllAt, Agreement, Deque, OpShape
<1> QED BY <1>1, <1>2, <1>3, <1>4, <1>5, <1>6 DEF Collective, QueueCollective, ReduceAlive

\* Every step keeps the completion.
LEMMA StepCompletes ==
  ASSUME Plain, SameWriters, TypeInv, Agreement, Completion, [Next]_vars
  PROVE Completion'
<1>1. prog \in Programs /\ \A i \in 1 .. Len(prog) : prog[i] \notin {"sync", "fault"}
  BY DEF Plain, TypeInv, TypeOK, QueueTypeOK
<1>2. ASSUME NEW r \in Ranks, TrainerStep(r) PROVE Completion'
  <2>1. ~ExecuteSync(r) /\ ~NoFault(r)
    BY <1>1 DEF ExecuteSync, NoFault, At
  <2> QED BY <1>2, <2>1, QueueStepCompletes, NoopCompletes, CallCompletes, ResumeCompletes,
             PollCompletes, CloseCompletes
          DEF TrainerStep, QueueStep
<1>3. ASSUME NEW r \in Ranks, WorkerStep(r) \/ Failure(r) PROVE Completion'
  BY <1>3, ExecuteCompletes, TakeCompletes, ReportCompletes DEF WorkerStep, Failure
<1>4. CASE UNCHANGED vars
  <2>1. \A q \in Ranks : Idle(q)
    BY <1>4 DEF vars, queueVars, trainerVars, workerVars, callerVars, Idle
  <2> QED BY <2>1, IdleCompletes DEF Completion
<1>5. ~Restart
  BY <1>1 DEF Restart
<1> QED BY <1>2, <1>3, <1>4, <1>5, CollectiveCompletes DEF Next, Terminating

\* Nothing is handed over or due at the start.
LEMMA InitCompletes == Init => Completion
<1> SUFFICES ASSUME Init, NEW r \in Ranks PROVE Complete(r)
  BY DEF Completion
<1>1. /\ calls[r] = <<>> /\ pc[r] = "ready" /\ worker[r] = "none" /\ wpc[r] = "idle"
      /\ wsave[r] = 0 /\ queue[r] = <<>> /\ comp[r] = <<>> /\ curItem[r] = 0 /\ manager[r]
  BY DEF Init, QueueInit
<1>2. Elems(<<>>) = {} /\ Rising(<<>>)
  BY DEF Elems, Rising
<1>3. \A s \in Positions : ~Handed(r, s) /\ ~Due(r, s) /\ ~AtWork(r, s)
  BY <1>1, <1>2, PositionsAssumption DEF Handed, Due, AtWork, Calls
<1> QED BY <1>1, <1>2, <1>3 DEF Complete, Served, Unserved, InTurn

\* The save being finalized is the head of the deque before, and stays.
LEMMA StepScheduled ==
  ASSUME Plain, TypeInv, Agreement, Scheduled, [Next]_vars
  PROVE Scheduled'
<1>1. prog \in Programs /\ \A i \in 1 .. Len(prog) : prog[i] \notin {"sync", "fault"}
  BY DEF Plain, TypeInv, TypeOK, QueueTypeOK
<1>2. TypeOK /\ \A r \in Ranks : Deque(r) /\ Shape(r)
  BY DEF TypeInv, Agreement
<1>3. ASSUME NEW r \in Ranks, UNCHANGED <<prog, fin>>,
             pc'[r] \in FinalizeLabels => pc[r] \in FinalizeLabels /\ ip'[r] = ip[r]
      PROVE pc'[r] \in FinalizeLabels => fin'[r] \in Passed(r)'
  BY <1>3 DEF Scheduled, Passed
<1>4. ASSUME NEW q \in Ranks, TrainerStep(q) PROVE Scheduled'
  <2>1. ~ExecuteSync(q) /\ ~NoFault(q)
    BY <1>1 DEF ExecuteSync, NoFault, At
  <2>2. UNCHANGED <<prog, fin>>
    BY <1>4, <2>1
       DEF TrainerStep, QueueStep, BeginFinalize, QueueEmpty, Retrieve, ScheduleNoop, ScheduleCall,
           ResumeWhenStaged, PollKnown, PollCompleted, PollPending, Poll, CloseNothing, SendDone,
           JoinWorker
  <2>3. \/ NextOp(q)
        \/ \E label \in {"stage", "loop", "stop", "stopping", "reduce"} : Goto(q, label)
        \/ pc[q] = "retrieve" /\ Goto(q, "gather")
    BY <1>4, <2>1
       DEF TrainerStep, QueueStep, BeginFinalize, QueueEmpty, Retrieve, ScheduleNoop, ScheduleCall,
           ResumeWhenStaged, PollKnown, PollCompleted, PollPending, Poll, CloseNothing, SendDone,
           JoinWorker
  <2>4. ASSUME NEW r \in Ranks, pc'[r] \in FinalizeLabels
        PROVE pc[r] \in FinalizeLabels /\ ip'[r] = ip[r]
    <3>1. CASE NextOp(q)
      BY <1>2, <2>4, <3>1, NextOpType DEF FinalizeLabels
    <3>2. CASE \E label \in Labels : Goto(q, label)
      BY <1>2, <2>3, <2>4, <3>2 DEF Goto, FinalizeLabels, NextOp, TypeOK, QueueTypeOK
    <3> QED BY <2>3, <3>1, <3>2 DEF Labels
  <2> QED BY <1>3, <2>2, <2>4 DEF Scheduled
<1>5. ASSUME NEW q \in Ranks, WorkerStep(q) \/ Failure(q) PROVE Scheduled'
  <2>1. UNCHANGED trainerVars
    BY <1>5
       DEF WorkerStep, Failure, TakeDone, TakeRequest, TakeDeadProxy, Take, Preload, WriteData,
           PutWriteResults, PutWriteError, PutResult, Report, Die, queueVars
  <2> QED BY <1>3, <2>1 DEF trainerVars, Scheduled
<1>6. CASE ReduceAlive /\ AllDone
  <2>1. ASSUME NEW r \in Ranks PROVE fin'[r] \in Passed(r)'
    <3>1. /\ calls[r] \in Seq(Positions) /\ calls[r] # <<>> /\ Rising(calls[r])
          /\ Positions \in SUBSET Nat /\ Calls(r) \subseteq Passed(r)
      BY <1>2, <1>6, PositionsAssumption
         DEF TypeOK, QueueTypeOK, Shape, ReduceAlive, AllAt, Deque
    <3>2. fin'[r] = Head(calls[r]) /\ ip' = ip /\ prog' = prog
      BY <1>6 DEF ReduceAlive, StartFinalize, NextCall
    <3>3. fin'[r] \in Calls(r)
      BY <3>1, <3>2, RisingTail DEF Calls
    <3> QED BY <3>1, <3>2, <3>3 DEF Passed
  <2> QED BY <2>1 DEF Scheduled
<1>7. CASE Collective /\ ~(ReduceAlive /\ AllDone)
  <2>1. ASSUME NEW r \in Ranks, pc'[r] \in FinalizeLabels
        PROVE pc[r] \in FinalizeLabels /\ ip'[r] = ip[r]
    <3>1. ~SyncBarrier
      BY RanksAssumption DEF SyncBarrier, AllAt, Agreement, Deque, OpShape
    <3>2. CASE ReduceAlive
      BY <1>7, <2>1, <3>2 DEF ReduceAlive, LeaveLoop, FinalizeLabels
    <3>3. CASE GatherResults
      BY <3>3 DEF GatherResults, AllAt, FinalizeLabels
    <3>4. CASE SaveMetadataJson
      BY <2>1, <3>4 DEF SaveMetadataJson, AllAt, FinalizeLabels
    <3>5. CASE AgreeOnCallIdx
      BY <2>1, <3>5 DEF AgreeOnCallIdx, AllAt, FinalizeLabels
    <3> QED BY <1>7, <3>1, <3>2, <3>3, <3>4, <3>5 DEF Collective, QueueCollective
  <2>2. UNCHANGED <<prog, fin>>
    BY <1>7
       DEF Collective, QueueCollective, ReduceAlive, LeaveLoop, GatherResults, SaveMetadataJson,
           AgreeOnCallIdx, SyncBarrier
  <2> QED BY <1>3, <2>1, <2>2 DEF Scheduled
<1>8. CASE UNCHANGED vars
  BY <1>3, <1>8 DEF vars, queueVars, trainerVars, Scheduled
<1>9. ~Restart
  BY <1>1 DEF Restart
<1> QED BY <1>4, <1>5, <1>6, <1>7, <1>8, <1>9 DEF Next, Terminating, Collective

\* A rank that finalizes a save has given it up, and so have all others; so none
\* of their workers was handed it and has not reported.
LEMMA FinalizedIsDone ==
  ASSUME TypeInv, Agreement, Scheduled, Completion
  PROVE FinalizeAfterAllRanksDone
<1> SUFFICES ASSUME NEW r \in Ranks, InFinalize(r), NEW q \in Ranks
             PROVE /\ wsave[q] # fin[r]
                   /\ \A i \in 1 .. Len(queue[q]) : queue[q][i] # fin[r]
  BY DEF FinalizeAfterAllRanksDone
<1> DEFINE f == fin[r]
<1>1. /\ f \in Positions /\ f # 0 /\ pc[r] \in FinalizeLabels /\ ip[q] \in Nat /\ f \in Nat
      /\ Positions \in SUBSET Nat
  BY PositionsAssumption
     DEF InFinalize, FinalizeLabels, TypeInv, TypeOK, QueueTypeOK, Shape
<1>2. fin[q] = f /\ Passed(r) \ Calls(r) = Passed(q) \ Calls(q)
  BY DEF Agreement, SameHistory
<1>3. f \in Passed(q) \ Calls(q)
  <2>1. Behind(r, f) /\ f \notin Calls(r)
    BY <1>1 DEF Agreement, Deque, Behind
  <2>2. f \in Passed(r)
    BY <1>1 DEF Scheduled
  <2> QED BY <1>2, <2>1, <2>2
<1>4. ~Due(q, f)
  BY <1>1, <1>3 DEF Due, Passed
<1>5. IsWriter(q) => ~Handed(q, f)
  BY <1>1, <1>4 DEF Completion, Complete, Served
<1>6. wsave[q] # f
  BY <1>1, <1>5 DEF Completion, Complete, Unserved, Handed, AtWork
<1>7. f \notin Elems(queue[q])
  <2>1. CASE IsWriter(q)
    BY <1>5, <2>1 DEF Handed
  <2>2. CASE ~IsWriter(q)
    BY <1>1, <2>2 DEF Completion, Complete, Unserved, TypeInv, Shape, Staging, Elems, Done
  <2> QED BY <2>1, <2>2
<1> QED BY <1>6, <1>7 DEF Elems

(***************************************************************************)
(* Whatever the ranks do and whatever writers fail or die, the completed   *)
(* call a rank took from comp_q is the one it asked about, the head of its *)
(* deque: is_current_async_call_done, which looks at no number, is never   *)
(* one call behind.                                                        *)
(***************************************************************************)
THEOREM CompletionCorrect ==
  ASSUME Plain, SameWriters
  PROVE Spec => []CompletionIsForHead
<1>1. Init => TypeInv /\ Agreement /\ Completion
  BY TypeInit, InitAgrees, InitCompletes
<1>2. TypeInv /\ Agreement /\ Completion /\ [Next]_vars => TypeInv' /\ Agreement' /\ Completion'
  BY TypeStep, StepAgrees, StepCompletes
<1>3. TypeInv /\ Agreement /\ Completion => CompletionIsForHead
  BY CurrentIsHead DEF CompletionIsForHead
<1> QED BY <1>1, <1>2, <1>3, PTL DEF Spec

(***************************************************************************)
(* The finalize functions of a save run only after its async_fn is done on *)
(* all ranks: no worker has the request in its queue or in its hands while *)
(* any rank finalizes it, although each rank asks its own worker only.     *)
(***************************************************************************)
THEOREM FinalizeCorrect ==
  ASSUME Plain, SameWriters
  PROVE Spec => []FinalizeAfterAllRanksDone
<1> DEFINE I == TypeInv /\ Agreement /\ Scheduled /\ Completion
<1>1. Init => I
  <2>1. Init => Scheduled
    BY DEF Init, QueueInit, Scheduled, FinalizeLabels
  <2> QED BY <2>1, TypeInit, InitAgrees, InitCompletes
<1>2. I /\ [Next]_vars => I'
  BY TypeStep, StepAgrees, StepScheduled, StepCompletes
<1>3. I => FinalizeAfterAllRanksDone
  BY FinalizedIsDone
<1> QED BY <1>1, <1>2, <1>3, PTL DEF Spec
------------------------------------------------------------------------------
(***************************************************************************)
(* Proof that PersistentAsync implements AsyncSave for programs of         *)
(* asynchronous saves: trainers, workers, queues and collectives together  *)
(* do nothing but schedule saves in order, write their data, and complete  *)
(* them in order or give them up.                                          *)
(***************************************************************************)

\* Rank r has begun to schedule save s; and is not done with it.
Begun(r, s) == ip[r] > s \/ (ip[r] = s /\ pc[r] = "stage")
Holds(r, s) == ip[r] =< s \/ s \in Calls(r) \/ (InFinalize(r) /\ fin[r] = s)

\* The images of data and lost under the refinement mapping.
Data == [s \in Positions |-> IF s \in AsyncSaves THEN written[s] ELSE {}]
Lost == {s \in ScheduledSaves \ ckptMeta : ~InProgress(s)}

\* The saves with metadata are those finalized, and the one of which the ranks
\* are about to compare the call_idx.
Recorded == \A r \in Ranks :
  /\ \A s \in ckptMeta : s \in Elems(finalized[r]) \/ (pc[r] = "agree" /\ fin[r] = s)
  /\ pc[r] = "agree" => fin[r] \in ckptMeta

Invariant ==
  TypeInv /\ Agreement /\ Completion /\ Pipeline /\ Scheduled /\ Recorded
------------------------------------------------------------------------------
\* InProgress and ScheduledSaves, by ranks, now and after a step.
LEMMA ProgressByRank ==
  /\ \A s : InProgress(s) <=> \E r \in Ranks : Holds(r, s)
  /\ \A s : InProgress(s)' <=> \E r \in Ranks : Holds(r, s)'
  /\ ScheduledSaves = {s \in AsyncSaves : \E r \in Ranks : Begun(r, s)}
  /\ ScheduledSaves' = {s \in AsyncSaves' : \E r \in Ranks : Begun(r, s)'}
<1>1. \A s : \A r \in Ranks :
        (\E i \in 1 .. Len(calls[r]) : calls[r][i] = s) <=> s \in Calls(r)
  BY DEF Calls, Elems
<1>2. \A s : \A r \in Ranks :
        (\E i \in 1 .. Len(calls[r]) : calls[r][i] = s)' <=> s \in Calls(r)'
  BY DEF Calls, Elems
<1>3. \A s : InProgress(s) <=> \E r \in Ranks : Holds(r, s)
  BY <1>1 DEF InProgress, Holds
<1>4. \A s : InProgress(s)' <=> \E r \in Ranks : Holds(r, s)'
  BY <1>2 DEF InProgress, Holds
<1> QED BY <1>3, <1>4 DEF ScheduledSaves, Begun

\* What the program says of an operation that finalizes: no synchronous save.
LEMMA PlainFinalize ==
  ASSUME Agreement, NEW r \in Ranks
  PROVE InFinalize(r) <=> pc[r] \in FinalizeLabels
BY DEF Agreement, Deque, OpShape, InOp, InFinalize, FinalizeLabels

\* Rank r begins nothing and is done with nothing that is not complete.
Same(r) == \A s \in AsyncSaves :
  /\ Begun(r, s)' <=> Begun(r, s)
  /\ s \notin ckptMeta => (Holds(r, s)' <=> Holds(r, s))

\* If that holds of every rank and the disk is left alone, AsyncSave stutters.
LEMMA Stutters ==
  ASSUME UNCHANGED <<prog, written, ckptMeta>>, \A r \in Ranks : Same(r)
  PROVE UNCHANGED Promise!vars
<1>1. AsyncSaves' = AsyncSaves
  BY DEF AsyncSaves
<1>2. ScheduledSaves' = ScheduledSaves
  BY <1>1, ProgressByRank DEF Same
<1>3. \A s \in ScheduledSaves \ ckptMeta : InProgress(s)' <=> InProgress(s)
  BY ProgressByRank DEF Same, ScheduledSaves
<1>4. Lost' = Lost
  BY <1>2, <1>3 DEF Lost
<1>5. Data' = Data
  BY <1>1 DEF Data
<1> QED BY <1>1, <1>2, <1>4, <1>5 DEF Promise!vars, Lost, Data

\* A rank that does not move.
LEMMA RestSame ==
  ASSUME NEW r \in Ranks, prog' = prog, ip'[r] = ip[r], pc'[r] = pc[r],
         calls'[r] = calls[r], fin'[r] = fin[r]
  PROVE Same(r)
BY DEF Same, Begun, Holds, Calls, Elems, InFinalize

\* A rank that moves neither over a save nor into or out of a finalization.
LEMMA MoveSame ==
  ASSUME TypeInv, Agreement, Agreement', NEW r \in Ranks, prog' = prog,
         \/ ip'[r] = ip[r]
         \/ ip'[r] = ip[r] + 1 /\ prog[ip[r]] # "save",
         calls'[r] = calls[r], fin'[r] = fin[r],
         pc[r] # "stage", pc'[r] # "stage",
         pc'[r] \in FinalizeLabels <=> pc[r] \in FinalizeLabels
  PROVE Same(r)
<1>1. ip[r] \in Nat /\ Positions \subseteq Nat
  BY PositionsAssumption DEF TypeInv, TypeOK, QueueTypeOK
<1>2. InFinalize(r)' <=> InFinalize(r)
  <2>1. InFinalize(r)' <=> pc'[r] \in FinalizeLabels
    BY DEF Agreement, Deque, OpShape, InOp, InFinalize, FinalizeLabels
  <2> QED BY <2>1, PlainFinalize
<1>3. Calls(r)' = Calls(r)
  BY DEF Calls, Elems
<1>4. ASSUME NEW s \in AsyncSaves
      PROVE (ip'[r] > s <=> ip[r] > s) /\ (ip'[r] =< s <=> ip[r] =< s)
  <2>1. s \in Nat /\ prog[s] = "save"
    BY <1>1 DEF AsyncSaves
  <2>2. CASE ip'[r] = ip[r]
    BY <2>2
  <2>3. CASE ip'[r] = ip[r] + 1 /\ s # ip[r]
    BY <2>1, <2>3, <1>1
  <2> QED BY <2>1, <2>2, <2>3
<1> QED BY <1>2, <1>3, <1>4 DEF Same, Begun, Holds

\* The trainer of one rank changes neither the disk nor what the others do, and
\* if it schedules nothing it moves as MoveSame asks.
LEMMA TrainerMoves ==
  ASSUME Plain, TypeInv, Agreement, NEW r \in Ranks, TrainerStep(r)
  PROVE /\ UNCHANGED <<prog, fin, finalized, diskVars>>
        /\ \A q \in Ranks \ {r} : ip'[q] = ip[q] /\ pc'[q] = pc[q] /\ calls'[q] = calls[q]
        /\ pc[r] # "agree" /\ pc'[r] # "agree"
        /\ \/ ScheduleNoop(r) \/ ScheduleCall(r) \/ ResumeWhenStaged(r)
           \/ /\ \/ ip'[r] = ip[r]
                 \/ ip'[r] = ip[r] + 1 /\ prog[ip[r]] # "save"
              /\ calls' = calls
              /\ pc[r] # "stage" /\ pc'[r] # "stage"
              /\ pc'[r] \in FinalizeLabels <=> pc[r] \in FinalizeLabels
<1>1. \A i \in 1 .. Len(prog) : prog[i] \notin {"sync", "fault"}
  BY DEF Plain, TypeInv, TypeOK, QueueTypeOK
<1>2. TypeOK /\ QueueTypeOK /\ OpShape(r)
  BY DEF TypeInv, TypeOK, Agreement, Deque
<1>3. ~ExecuteSync(r) /\ ~NoFault(r)
  BY <1>1 DEF ExecuteSync, NoFault, At
<1>4. CASE ScheduleNoop(r) \/ ScheduleCall(r) \/ ResumeWhenStaged(r)
  <2>1. /\ UNCHANGED <<prog, fin, finalized, diskVars>>
        /\ \A q \in Ranks \ {r} : calls'[q] = calls[q]
        /\ pc[r] # "agree"
    BY <1>2, <1>4 DEF ScheduleNoop, ScheduleCall, ResumeWhenStaged, At, QueueTypeOK
  <2>2. NextOp(r) \/ Goto(r, "stage")
    BY <1>4 DEF ScheduleNoop, ScheduleCall, ResumeWhenStaged
  <2>3. /\ \A q \in Ranks \ {r} : ip'[q] = ip[q] /\ pc'[q] = pc[q]
        /\ pc'[r] # "agree"
    BY <1>2, <2>2 DEF NextOp, Goto, QueueTypeOK
  <2> QED BY <1>4, <2>1, <2>3
<1>5. CASE BeginFinalize(r) \/ QueueEmpty(r) \/ Retrieve(r)
  <2>1. /\ UNCHANGED <<prog, calls, fin, finalized, diskVars>>
        /\ InOp(r, {"poll", "drain", "close"})
    BY <1>2, <1>5
       DEF BeginFinalize, QueueEmpty, Retrieve, OpShape, InOp, FinalizeLabels, At
  <2>2. \/ pc[r] = "ready" /\ Goto(r, "loop")
        \/ pc[r] = "loop" /\ (NextOp(r) \/ Goto(r, "stop"))
        \/ pc[r] = "retrieve" /\ Goto(r, "gather")
    BY <1>5 DEF BeginFinalize, QueueEmpty, Retrieve, At
  <2> QED BY <1>2, <2>1, <2>2 DEF NextOp, Goto, QueueTypeOK, InOp, FinalizeLabels
<1>6. CASE \/ PollKnown(r) \/ PollCompleted(r) \/ PollPending(r)
           \/ CloseNothing(r) \/ SendDone(r) \/ JoinWorker(r)
  <2>1. UNCHANGED <<prog, calls, fin, finalized, diskVars>>
    BY <1>6
       DEF PollKnown, PollCompleted, PollPending, Poll, CloseNothing, SendDone, JoinWorker
  <2>2. \/ pc[r] = "loop" /\ Goto(r, "reduce")
        \/ pc[r] \in {"stop", "stopping"} /\ (NextOp(r) \/ Goto(r, "stopping"))
    BY <1>6
       DEF PollKnown, PollCompleted, PollPending, Poll, CloseNothing, SendDone, JoinWorker
  <2>3. InOp(r, {"poll", "drain", "close"})
    BY <1>2, <2>2 DEF OpShape
  <2> QED BY <1>2, <2>1, <2>2, <2>3 DEF NextOp, Goto, QueueTypeOK, InOp, FinalizeLabels
<1> QED BY <1>3, <1>4, <1>5, <1>6 DEF TrainerStep, QueueStep

\* What has metadata is behind every rank, or about to be compared.
LEMMA RecordedIsBehind ==
  ASSUME Agreement, Recorded, NEW s \in ckptMeta, NEW r \in Ranks
  PROVE /\ Behind(r, s)
        /\ pc[r] \in FinalizeLabels /\ pc[r] # "agree" => s < fin[r]
<1>1. Deque(r) /\ History(r)
  BY DEF Agreement
<1>2. s \in Elems(finalized[r]) \/ (pc[r] = "agree" /\ fin[r] = s)
  BY DEF Recorded
<1> QED BY <1>1, <1>2 DEF Deque, History, FinalizeLabels

\* Only saves that all ranks finalize get metadata.
LEMMA StepRecorded ==
  ASSUME Plain, TypeInv, Agreement, Recorded, [Next]_vars
  PROVE Recorded'
<1>1. \A i \in 1 .. Len(prog) : prog[i] \notin {"sync", "fault"}
  BY DEF Plain, TypeInv, TypeOK, QueueTypeOK
<1>2. ASSUME NEW q \in Ranks, TrainerStep(q) PROVE Recorded'
  <2>1. \A r \in Ranks : pc'[r] = pc[r] \/ (pc[r] # "agree" /\ pc'[r] # "agree")
    BY <1>2, TrainerMoves
  <2> QED BY <1>2, <2>1, TrainerMoves DEF Recorded, Elems, diskVars
<1>3. ASSUME NEW q \in Ranks, WorkerStep(q) \/ Failure(q) PROVE Recorded'
  <2>1. UNCHANGED <<trainerVars, ckptMeta>>
    BY <1>3
       DEF WorkerStep, Failure, TakeDone, TakeRequest, TakeDeadProxy, Take, Preload, WriteData,
           PutWriteResults, PutWriteError, PutResult, Report, Die, queueVars, diskVars
  <2> QED BY <2>1 DEF trainerVars, Recorded, Elems
<1>4. CASE ReduceAlive \/ GatherResults
  <2>1. UNCHANGED <<finalized, ckptMeta>>
    BY <1>4 DEF ReduceAlive, GatherResults, diskVars
  <2>2. \A r \in Ranks : pc[r] # "agree" /\ pc'[r] # "agree"
    BY <1>4 DEF ReduceAlive, StartFinalize, LeaveLoop, GatherResults, AllAt
  <2> QED BY <2>1, <2>2 DEF Recorded, Elems
<1>5. CASE SaveMetadataJson
  <2>1. ASSUME NEW r \in Ranks
        PROVE pc[r] = "json" /\ pc'[r] = "agree" /\ fin[r] = fin[Coordinator]
    <3>1. pc[r] = "json" /\ InOp(r, {"poll", "drain", "close"})
      BY <1>5 DEF SaveMetadataJson, AllAt, Agreement, Deque, OpShape, FinalizeLabels
    <3> QED BY <1>5, <3>1, RanksAssumption DEF SaveMetadataJson, InOp, Agreement, SameHistory
  <2>2. UNCHANGED <<fin, finalized>> /\ ckptMeta' = ckptMeta \cup {fin[Coordinator]}
    BY <1>5 DEF SaveMetadataJson
  <2> QED BY <2>1, <2>2 DEF Recorded, Elems
<1>6. CASE AgreeOnCallIdx
  <2>1. ASSUME NEW r \in Ranks
        PROVE /\ pc[r] = "agree" /\ pc'[r] = "loop"
              /\ Elems(finalized'[r]) = Elems(finalized[r]) \cup {fin[r]}
    <3>1. /\ pc[r] = "agree" /\ fin[r] \in Positions /\ Positions \in SUBSET Nat
          /\ finalized[r] \in Seq(Positions) /\ History(r)
      BY <1>6, PositionsAssumption
         DEF AgreeOnCallIdx, AllAt, TypeInv, TypeOK, QueueTypeOK, Shape, Agreement
    <3>2. \A q \in Ranks : fin[q] = fin[r] /\ fin[r] \in Nat
      BY <3>1 DEF Agreement, SameHistory
    <3>3. \A q \in Ranks : fin[q] =< fin[r]
      BY <3>2
    <3>4. pc'[r] = "loop" /\ finalized'[r] = Append(finalized[r], fin[r])
      BY <1>6, <3>3 DEF AgreeOnCallIdx
    <3>5. Rising(finalized[r]) /\ \A s \in Elems(finalized[r]) : s < fin[r]
      BY <3>1 DEF History, FinalizeLabels
    <3> QED BY <3>1, <3>4, <3>5, RisingAppend
  <2>2. ckptMeta' = ckptMeta
    BY <1>6 DEF AgreeOnCallIdx, diskVars
  <2>3. ASSUME NEW r \in Ranks PROVE Elems(finalized[r])' = Elems(finalized[r]) \cup {fin[r]}
    BY <2>1 DEF Elems
  <2> QED BY <2>1, <2>2, <2>3 DEF Recorded
<1>7. ~SyncBarrier
  BY RanksAssumption DEF SyncBarrier, AllAt, Agreement, Deque, OpShape
<1>8. CASE UNCHANGED vars
  BY <1>8 DEF vars, queueVars, trainerVars, diskVars, Recorded, Elems
<1>9. ~Restart
  BY <1>1 DEF Restart
<1> QED BY <1>2, <1>3, <1>4, <1>5, <1>6, <1>7, <1>8, <1>9
        DEF Next, Terminating, Collective, QueueCollective
------------------------------------------------------------------------------
(***************************************************************************)
(* Every step of the job is a step of AsyncSave or leaves it alone.        *)
(***************************************************************************)
Implemented == Promise!Next \/ UNCHANGED Promise!vars

\* A rank that schedules save x begins it, and holds it before and after.
LEMMA ScheduleHolds ==
  ASSUME TypeInv, Agreement, NEW r \in Ranks,
         ScheduleNoop(r) \/ ScheduleCall(r) \/ ResumeWhenStaged(r)
  PROVE /\ ip[r] \in AsyncSaves /\ Holds(r, ip[r])
        /\ \A s \in AsyncSaves : /\ Begun(r, s)' <=> (Begun(r, s) \/ s = ip[r])
                                 /\ Holds(r, s)' <=> Holds(r, s)
<1> DEFINE x == ip[r]
<1>0. /\ QueueTypeOK /\ OpShape(r) /\ Shape(r) /\ prog \in Seq(Ops)
      /\ 1 .. Len(prog) \subseteq Positions
      /\ Positions \in SUBSET Nat /\ calls[r] \in Seq(Positions) /\ x \in Nat
  BY PositionsAssumption, ProgramsAssumption
     DEF TypeInv, TypeOK, QueueTypeOK, Agreement, Deque
<1>1. InOp(r, {"save"}) /\ pc[r] \in {"ready", "stage"}
  BY <1>0 DEF ScheduleNoop, ScheduleCall, ResumeWhenStaged, At, InOp, OpShape
<1>2. x \in AsyncSaves /\ x \in Positions
  BY <1>0, <1>1 DEF InOp, AsyncSaves
<1>3. \A s \in AsyncSaves : s \in Nat
  BY <1>0 DEF AsyncSaves
<1>4. CASE ScheduleCall(r)
  <2>1. pc[r] = "ready" /\ pc'[r] = "stage" /\ ip'[r] = x /\ calls' = calls
    BY <1>0, <1>4 DEF ScheduleCall, At, Goto, QueueTypeOK
  <2>2. Calls(r)' = Calls(r)
    BY <2>1 DEF Calls, Elems
  <2>3. \A s : Holds(r, s)' <=> Holds(r, s)
    BY <2>1, <2>2 DEF Holds, InFinalize
  <2> QED BY <1>0, <1>2, <1>3, <2>1, <2>3 DEF Begun, Holds
<1>5. CASE ScheduleNoop(r) \/ ResumeWhenStaged(r)
  <2>1. /\ pc'[r] = "ready" /\ ip'[r] = x + 1
        /\ calls'[r] = Append(calls[r], x)
    BY <1>0, <1>5 DEF ScheduleNoop, ResumeWhenStaged, NextOp, QueueTypeOK
  <2>2. Rising(calls[r]) /\ \A s \in Elems(calls[r]) : s < x
    BY <1>0 DEF Agreement, Deque, Calls, Passed
  <2>3. Elems(Append(calls[r], x)) = Elems(calls[r]) \cup {x}
    BY <1>0, <1>2, <2>2, RisingAppend
  <2>4. Calls(r)' = Calls(r) \cup {x}
    BY <2>1, <2>3 DEF Calls, Elems
  <2>5. ~InFinalize(r) /\ ~InFinalize(r)'
    BY <1>1, <2>1 DEF InFinalize
  <2>6. ASSUME NEW s \in AsyncSaves
        PROVE (ip'[r] > s <=> ip[r] > s \/ s = x) /\ (ip'[r] =< s \/ s = x <=> ip[r] =< s)
    BY <1>0, <1>3, <2>1
  <2>7. ASSUME NEW s \in AsyncSaves PROVE Holds(r, s)' <=> Holds(r, s)
    BY <2>4, <2>5, <2>6 DEF Holds
  <2>8. ASSUME NEW s \in AsyncSaves PROVE Begun(r, s)' <=> (Begun(r, s) \/ s = x)
    BY <2>1, <2>6 DEF Begun
  <2> QED BY <1>0, <1>2, <2>7, <2>8 DEF Holds
<1> QED BY <1>4, <1>5

\* The first rank that schedules a save schedules it for AsyncSave.
LEMMA ScheduleImplements ==
  ASSUME Plain, TypeInv, Agreement, NEW r \in Ranks, TrainerStep(r),
         ScheduleNoop(r) \/ ScheduleCall(r) \/ ResumeWhenStaged(r)
  PROVE Implemented
<1> DEFINE x == ip[r]
<1>1. /\ UNCHANGED <<prog, written, ckptMeta>>
      /\ \A q \in Ranks \ {r} : Same(q)
  BY TrainerMoves, RestSame DEF diskVars
<1>2. AsyncSaves' = AsyncSaves
  BY <1>1 DEF AsyncSaves
<1>3. x \in AsyncSaves /\ x \in Positions /\ Holds(r, x)
  BY ScheduleHolds DEF AsyncSaves
<1>4. ScheduledSaves' = ScheduledSaves \cup {x}
  <2>1. \A s \in AsyncSaves :
          (\E q \in Ranks : Begun(q, s)') <=> (\E q \in Ranks : Begun(q, s)) \/ s = x
    BY <1>1, ScheduleHolds DEF Same
  <2> QED BY <1>2, <1>3, <2>1, ProgressByRank
<1>5. \A s \in AsyncSaves \ ckptMeta : InProgress(s)' <=> InProgress(s)
  <2>1. ASSUME NEW s \in AsyncSaves \ ckptMeta, NEW q \in Ranks
        PROVE Holds(q, s)' <=> Holds(q, s)
    BY <1>1, ScheduleHolds DEF Same
  <2> QED BY <2>1, ProgressByRank
<1>6. Lost' = Lost
  <2>1. InProgress(x)
    BY <1>3, ProgressByRank
  <2> QED BY <1>1, <1>3, <1>4, <1>5, <2>1 DEF Lost, ScheduledSaves
<1>7. Data' = Data /\ (ckptMeta \cap AsyncSaves)' = ckptMeta \cap AsyncSaves
  BY <1>1, <1>2 DEF Data
<1>8. CASE x \in ScheduledSaves
  BY <1>4, <1>6, <1>7, <1>8 DEF Implemented, Promise!vars, Lost, Data
<1>9. CASE x \notin ScheduledSaves
  <2>1. \A q \in Ranks : ip[q] \in Nat
    BY DEF TypeInv, TypeOK, QueueTypeOK
  <2>2. \A t \in AsyncSaves : t \in Nat
    BY PositionsAssumption DEF AsyncSaves
  <2>3. \A t \in ScheduledSaves : t < x
    BY <1>3, <1>9, <2>1, <2>2 DEF ScheduledSaves
  <2>4. Promise!Schedule(x)
    BY <1>4, <1>6, <1>7, <2>3 DEF Promise!Schedule, Lost, Data
  <2> QED BY <1>3, <2>4 DEF Implemented, Promise!Next
<1> QED BY <1>8, <1>9

\* A step of a trainer.
LEMMA TrainerImplements ==
  ASSUME Plain, TypeInv, Agreement, Agreement', NEW r \in Ranks, TrainerStep(r)
  PROVE Implemented
<1>1. CASE ScheduleNoop(r) \/ ScheduleCall(r) \/ ResumeWhenStaged(r)
  BY <1>1, ScheduleImplements
<1>2. CASE ~(ScheduleNoop(r) \/ ScheduleCall(r) \/ ResumeWhenStaged(r))
  <2>1. Same(r)
    BY <1>2, TrainerMoves, MoveSame
  <2>2. \A q \in Ranks \ {r} : Same(q)
    BY TrainerMoves, RestSame
  <2> QED BY <2>1, <2>2, TrainerMoves, Stutters DEF diskVars, Implemented
<1> QED BY <1>1, <1>2

\* A worker writes only what its trainer is still to finalize.
LEMMA WriteImplements ==
  ASSUME SameWriters, TypeInv, Agreement, Completion, Recorded, NEW r \in Ranks, WriteData(r)
  PROVE Implemented
<1> DEFINE s == wsave[r]
<1>0. /\ TypeOK /\ Complete(r) /\ Deque(r) /\ Positions \in SUBSET Nat
      /\ worker[r] = "alive" /\ AtWork(r, s) /\ s \in Positions /\ ip[r] \in Nat
  BY PositionsAssumption
     DEF TypeInv, TypeOK, QueueTypeOK, Shape, Completion, Agreement, WriteData, AtWork
<1>1. IsWriter(r) /\ Served(r)
  BY <1>0 DEF Complete, Unserved
<1>2. r \in Writers[s]
  BY <1>0, <1>1 DEF SameWriters, IsWriter
<1>3. s \in Calls(r) \/ (pc[r] = "stage" /\ s = ip[r])
  <2>1. Handed(r, s)
    BY <1>0 DEF Handed
  <2> QED BY <1>0, <1>1, <2>1 DEF Served, Due
<1>4. s \in AsyncSaves /\ Begun(r, s) /\ Holds(r, s)
  <2>1. CASE s \in Calls(r)
    <3>1. s \in Passed(r)
      BY <1>0, <2>1 DEF Deque
    <3> QED BY <1>0, <2>1, <3>1 DEF Passed, AsyncSaves, Begun, Holds
  <2>2. CASE pc[r] = "stage" /\ s = ip[r]
    <3>1. InOp(r, {"save"})
      BY <1>0, <2>2 DEF Deque, OpShape
    <3>2. s =< Len(prog) /\ prog[s] = "save"
      <4>1. prog \in Seq(Ops)
        BY <1>0, ProgramsAssumption DEF TypeOK, QueueTypeOK
      <4> QED BY <2>2, <3>1, <4>1 DEF InOp
    <3> QED BY <1>0, <2>2, <3>2 DEF AsyncSaves, Begun, Holds
  <2> QED BY <1>3, <2>1, <2>2
<1>5. s \notin ckptMeta
  <2>1. SUFFICES ASSUME s \in ckptMeta PROVE FALSE
    OBVIOUS
  <2>2. s < ip[r] /\ \A c \in Calls(r) : s < c
    BY <2>1, RecordedIsBehind DEF Behind
  <2>3. s \in Nat
    BY <1>0
  <2> HIDE DEF s
  <2> QED BY <1>3, <2>2, <2>3
<1>6. s \in ScheduledSaves /\ s \notin Lost
  BY <1>4, ProgressByRank DEF Lost
<1>7. UNCHANGED <<prog, ip, pc, calls, fin, ckptMeta>>
  BY DEF WriteData, trainerVars
<1>8. /\ AsyncSaves' = AsyncSaves
      /\ \A q \in Ranks : Same(q)
  BY <1>7, RestSame DEF AsyncSaves
<1>9. ScheduledSaves' = ScheduledSaves /\ Lost' = Lost
  <2>1. ScheduledSaves' = ScheduledSaves
    BY <1>8, ProgressByRank DEF Same
  <2>2. \A t \in ScheduledSaves \ ckptMeta : InProgress(t)' <=> InProgress(t)
    BY <1>8, ProgressByRank DEF Same, ScheduledSaves
  <2> QED BY <1>7, <2>1, <2>2 DEF Lost
<1>10. Data' = [Data EXCEPT ![s] = Data[s] \cup {r}]
  <2>1. written \in [Positions -> SUBSET Ranks] /\ written' = [written EXCEPT ![s] = written[s] \cup {r}]
    BY <1>0 DEF TypeOK, QueueTypeOK, WriteData
  <2>2. \A t \in Positions : written'[t] = IF t = s THEN written[t] \cup {r} ELSE written[t]
    BY <1>0, <2>1
  <2> QED BY <1>0, <1>4, <1>8, <2>2 DEF Data
<1>11. Promise!WriteData(s, r)
  BY <1>2, <1>5, <1>6, <1>7, <1>8, <1>9, <1>10 DEF Promise!WriteData, Lost, Data
<1> QED BY <1>0, <1>11 DEF Implemented, Promise!Next

\* A step of a worker, good or bad.
LEMMA WorkerImplements ==
  ASSUME SameWriters, TypeInv, Agreement, Completion, Recorded, NEW r \in Ranks,
         WorkerStep(r) \/ Failure(r)
  PROVE Implemented
<1>1. CASE ~WriteData(r)
  <2>1. UNCHANGED <<trainerVars, diskVars>>
    BY <1>1
       DEF WorkerStep, Failure, TakeDone, TakeRequest, TakeDeadProxy, Take, Preload,
           PutWriteResults, PutWriteError, PutResult, Report, Die, queueVars
  <2>2. \A q \in Ranks : Same(q)
    BY <2>1, RestSame DEF trainerVars
  <2> QED BY <2>1, <2>2, Stutters DEF trainerVars, diskVars, Implemented
<1> QED BY <1>1, WriteImplements
------------------------------------------------------------------------------
\* While the ranks finalize save f: it is scheduled, held until they are done,
\* and whatever was scheduled before it is held by none.
LEMMA FinalizedSave ==
  ASSUME TypeInv, Agreement, Scheduled, \A r \in Ranks : pc[r] \in FinalizeLabels
  PROVE LET f == fin[Coordinator] IN
        /\ f \in AsyncSaves /\ f \in ScheduledSaves /\ InProgress(f)
        /\ \A r \in Ranks : fin[r] = f /\ ip[r] > f /\ f \notin Calls(r)
        /\ \A s \in ScheduledSaves : s < f => ~InProgress(s)
<1> DEFINE f == fin[Coordinator]
<1>0. /\ Coordinator \in Ranks /\ Positions \in SUBSET Nat /\ f \in Positions
      /\ \A r \in Ranks : ip[r] \in Nat
  BY RanksAssumption, PositionsAssumption
     DEF TypeInv, TypeOK, QueueTypeOK, Shape, FinalizeLabels
<1>1. ASSUME NEW r \in Ranks
      PROVE /\ fin[r] = f /\ f \in Passed(r) /\ ip[r] > f /\ InFinalize(r)
            /\ \A c \in Calls(r) : f < c
  <2>1. fin[r] = f /\ fin[r] \in Passed(r) /\ Behind(r, fin[r])
    BY <1>0 DEF Agreement, SameHistory, Scheduled, Deque
  <2> QED BY <1>0, <2>1, PlainFinalize DEF Behind
<1>2. f \in AsyncSaves
  BY <1>0, <1>1 DEF Passed, AsyncSaves
<1>3. f \in ScheduledSaves /\ InProgress(f)
  BY <1>0, <1>1, <1>2, ProgressByRank DEF Begun, Holds
<1>4. \A r \in Ranks : f \notin Calls(r)
  BY <1>0, <1>1
<1>5. ASSUME NEW s \in ScheduledSaves, s < f PROVE ~InProgress(s)
  <2>1. s \in Nat /\ f \in Nat
    BY <1>0 DEF ScheduledSaves, AsyncSaves
  <2>2. ASSUME NEW r \in Ranks PROVE ~Holds(r, s)
    <3>1. ~(ip[r] =< s)
      BY <1>0, <1>1, <1>5, <2>1
    <3>2. s \notin Calls(r)
      BY <1>1, <1>5, <2>1
    <3> QED BY <1>1, <1>5, <2>1, <3>1, <3>2 DEF Holds
  <2> QED BY <2>2, ProgressByRank
<1> QED BY <1>1, <1>2, <1>3, <1>4, <1>5

\* The all-reduce: no rank begins a save; the one that is popped is finalized.
LEMMA ReduceImplements ==
  ASSUME TypeInv, Agreement, Agreement', ReduceAlive
  PROVE Implemented
<1>0. /\ UNCHANGED <<prog, written, ckptMeta>>
      /\ \A r \in Ranks : pc[r] = "reduce"
  BY DEF ReduceAlive, diskVars, AllAt
<1>1. CASE ~AllDone
  <2>1. ASSUME NEW r \in Ranks PROVE Same(r)
    <3>1. prog[ip[r]] # "save"
      BY <1>0 DEF Agreement, Deque, OpShape, InOp
    <3>2. ip'[r] = ip[r] + 1 /\ pc'[r] = "ready" /\ calls'[r] = calls[r] /\ fin'[r] = fin[r]
      BY <1>1 DEF ReduceAlive, LeaveLoop
    <3> QED BY <1>0, <3>1, <3>2, MoveSame DEF FinalizeLabels
  <2> QED BY <1>0, <2>1, Stutters DEF Implemented
<1>2. CASE AllDone
  <2>1. ASSUME NEW r \in Ranks PROVE Same(r)
    <3>1. /\ calls[r] \in Seq(Positions) /\ calls[r] # <<>> /\ Rising(calls[r])
          /\ Positions \in SUBSET Nat
      BY <1>0, PositionsAssumption
         DEF TypeInv, TypeOK, QueueTypeOK, Shape, Agreement, Deque
    <3>2. /\ ip'[r] = ip[r] /\ pc'[r] = "retrieve" /\ fin'[r] = Head(calls[r])
          /\ calls'[r] = Tail(calls[r])
      BY <1>2 DEF ReduceAlive, StartFinalize, NextCall
    <3>3. ~InFinalize(r) /\ InFinalize(r)'
      <4>1. InFinalize(r)' <=> pc'[r] \in FinalizeLabels
        BY DEF Agreement, Deque, OpShape, InOp, InFinalize, FinalizeLabels
      <4> QED BY <1>0, <3>2, <4>1 DEF InFinalize, FinalizeLabels
    <3>4. Head(calls[r]) \in Calls(r) /\ Calls(r)' = Calls(r) \ {Head(calls[r])}
      <4>1. Calls(r)' = Elems(calls'[r])
        BY DEF Calls, Elems
      <4>2. /\ Head(calls[r]) \in Elems(calls[r])
            /\ Elems(Tail(calls[r])) = Elems(calls[r]) \ {Head(calls[r])}
        BY <3>1, RisingTail
      <4> QED BY <3>2, <4>1, <4>2 DEF Calls
    <3> QED BY <1>0, <3>2, <3>3, <3>4 DEF Same, Begun, Holds
  <2> QED BY <1>0, <2>1, Stutters DEF Implemented
<1> QED BY <1>1, <1>2

\* The gathering of results gives the save up if a rank failed.
LEMMA GatherImplements ==
  ASSUME TypeInv, Agreement, Agreement', Scheduled, Recorded, GatherResults
  PROVE Implemented
<1> DEFINE f == fin[Coordinator]
<1>0. /\ UNCHANGED <<prog, ip, calls, fin, written, ckptMeta>>
      /\ \A r \in Ranks : pc[r] = "gather"
  BY DEF GatherResults, AllAt
<1>1. CASE GatheredFailures = {}
  <2>1. \A r \in Ranks : pc'[r] = "json"
    BY <1>1 DEF GatherResults
  <2>2. \A r \in Ranks : Same(r)
    BY <1>0, <2>1, MoveSame DEF FinalizeLabels
  <2> QED BY <1>0, <2>2, Stutters DEF Implemented
<1>2. CASE GatheredFailures # {}
  <2>1. \A r \in Ranks : pc'[r] = "raised"
    BY <1>2 DEF GatherResults
  <2>2. /\ f \in AsyncSaves /\ f \in ScheduledSaves
        /\ \A r \in Ranks : fin[r] = f /\ ip[r] > f /\ f \notin Calls(r)
    BY <1>0, FinalizedSave DEF FinalizeLabels
  <2>3. f \in Positions /\ f \in Nat /\ \A r \in Ranks : ip[r] \in Nat
    BY <2>2, PositionsAssumption DEF AsyncSaves, TypeInv, TypeOK, QueueTypeOK
  <2>4. f \notin ckptMeta
    <3>1. f \in ckptMeta => f < fin[Coordinator]
      BY <1>0, RanksAssumption, RecordedIsBehind DEF FinalizeLabels
    <3> QED BY <2>3, <3>1
  <2>5. AsyncSaves' = AsyncSaves
    BY <1>0 DEF AsyncSaves
  <2>6. ASSUME NEW r \in Ranks, NEW s \in AsyncSaves
        PROVE (Begun(r, s)' <=> Begun(r, s)) /\ (Holds(r, s)' <=> Holds(r, s) /\ s # f)
    <3>1. Calls(r)' = Calls(r)
      BY <1>0 DEF Calls, Elems
    <3>2. ~InFinalize(r)' /\ ~(ip[r] =< f)
      BY <2>1, <2>2, <2>3 DEF InFinalize
    <3> QED BY <1>0, <2>1, <2>2, <3>1, <3>2 DEF Begun, Holds
  <2>7. ScheduledSaves' = ScheduledSaves
    BY <2>5, <2>6, ProgressByRank
  <2>8. \A s \in ScheduledSaves : InProgress(s)' <=> InProgress(s) /\ s # f
    BY <2>6, ProgressByRank DEF ScheduledSaves
  <2>9. Lost' = Lost \cup {f}
    BY <1>0, <2>2, <2>4, <2>7, <2>8 DEF Lost
  <2>10. Data' = Data
    BY <1>0, <2>5 DEF Data
  <2>11. Promise!GiveUp({f})
    BY <1>0, <2>2, <2>3, <2>4, <2>5, <2>7, <2>9, <2>10 DEF Promise!GiveUp, Lost, Data
  <2> QED BY <2>3, <2>11 DEF Implemented, Promise!Next
<1> QED BY <1>1, <1>2

\* The metadata completes the save.
LEMMA MetadataImplements ==
  ASSUME TypeInv, Agreement, Agreement', Scheduled, Recorded, MetadataOnlyIfComplete',
         SaveMetadataJson
  PROVE Implemented
<1> DEFINE f == fin[Coordinator]
<1>0. /\ UNCHANGED <<prog, calls, fin, written>>
      /\ \A r \in Ranks : pc[r] = "json"
      /\ ckptMeta' = ckptMeta \cup {f}
  BY DEF SaveMetadataJson, AllAt
<1>1. /\ f \in AsyncSaves /\ f \in ScheduledSaves /\ InProgress(f)
      /\ \A s \in ScheduledSaves : s < f => ~InProgress(s)
  BY <1>0, FinalizedSave DEF FinalizeLabels
<1>2. f \in Positions /\ f \in Nat
  BY <1>1, PositionsAssumption DEF AsyncSaves
<1>3. f \notin ckptMeta
  <2>1. f \in ckptMeta => f < fin[Coordinator]
    BY <1>0, RanksAssumption, RecordedIsBehind DEF FinalizeLabels
  <2> QED BY <1>2, <2>1
<1>4. ASSUME NEW r \in Ranks PROVE Same(r)
  <2>1. InOp(r, {"poll", "drain", "close"})
    BY <1>0 DEF Agreement, Deque, OpShape, FinalizeLabels
  <2>2. pc'[r] = "agree" /\ ip'[r] = ip[r]
    BY <2>1 DEF SaveMetadataJson, InOp
  <2> QED BY <1>0, <2>2, MoveSame DEF FinalizeLabels
<1>5. AsyncSaves' = AsyncSaves
  BY <1>0 DEF AsyncSaves
<1>6. ScheduledSaves' = ScheduledSaves
  BY <1>4, <1>5, ProgressByRank DEF Same
<1>7. Lost' = Lost
  <2>1. \A s \in ScheduledSaves \ ckptMeta : InProgress(s)' <=> InProgress(s)
    BY <1>4, ProgressByRank DEF Same, ScheduledSaves
  <2> QED BY <1>0, <1>1, <1>6, <2>1 DEF Lost
<1>8. Data' = Data
  BY <1>0, <1>5 DEF Data
<1>9. Writers[f] \subseteq Data[f]
  BY <1>0, <1>1, <1>2 DEF MetadataOnlyIfComplete, Data
<1>10. f \notin Lost /\ \A s \in ScheduledSaves : s < f => s \in (ckptMeta \cap AsyncSaves) \cup Lost
  BY <1>1 DEF Lost, ScheduledSaves
<1>11. Promise!Complete(f)
  BY <1>0, <1>1, <1>3, <1>5, <1>6, <1>7, <1>8, <1>9, <1>10 DEF Promise!Complete, Lost, Data
<1> QED BY <1>2, <1>11 DEF Implemented, Promise!Next

\* When the ranks have agreed on the call_idx the save is complete already.
LEMMA AgreeImplements ==
  ASSUME TypeInv, Agreement, Agreement', Scheduled, Recorded, AgreeOnCallIdx
  PROVE Implemented
<1> DEFINE f == fin[Coordinator]
<1>0. /\ UNCHANGED <<prog, ip, calls, fin, written, ckptMeta>>
      /\ \A r \in Ranks : pc[r] = "agree" /\ fin[r] \in ckptMeta
  BY DEF AgreeOnCallIdx, AllAt, diskVars, Recorded
<1>1. ASSUME NEW r \in Ranks PROVE Same(r)
  <2>1. pc'[r] \in {"loop", "unmatched"}
    BY DEF AgreeOnCallIdx
  <2>2. Calls(r)' = Calls(r)
    BY <1>0 DEF Calls, Elems
  <2>3. ~InFinalize(r)'
    BY <2>1 DEF InFinalize
  <2>4. \A s \in AsyncSaves \ ckptMeta : ~(InFinalize(r) /\ fin[r] = s)
    BY <1>0
  <2> QED BY <1>0, <2>1, <2>2, <2>3, <2>4 DEF Same, Begun, Holds
<1> QED BY <1>0, <1>1, Stutters DEF Implemented

\* Every step of the job.
LEMMA StepImplements ==
  ASSUME Plain, SameWriters, Invariant, Agreement', Pipeline', [Next]_vars
  PROVE Implemented
<1>0. /\ TypeInv /\ Agreement /\ Completion /\ Scheduled /\ Recorded
      /\ MetadataOnlyIfComplete'
      /\ \A i \in 1 .. Len(prog) : prog[i] \notin {"sync", "fault"}
  BY DEF Invariant, Pipeline, Plain, TypeInv, TypeOK, QueueTypeOK
<1>1. CASE Collective
  <2>1. ~SyncBarrier
    BY <1>0, RanksAssumption DEF SyncBarrier, AllAt, Agreement, Deque, OpShape
  <2> QED BY <1>0, <1>1, <2>1, ReduceImplements, GatherImplements, MetadataImplements,
             AgreeImplements
          DEF Collective, QueueCollective
<1>2. CASE UNCHANGED vars
  <2>1. \A r \in Ranks : Same(r)
    BY <1>2, RestSame DEF vars, queueVars, trainerVars
  <2> QED BY <1>2, <2>1, Stutters DEF vars, queueVars, trainerVars, diskVars, Implemented
<1>3. ~Restart
  BY <1>0 DEF Restart
<1> QED BY <1>0, <1>1, <1>2, <1>3, TrainerImplements, WorkerImplements DEF Next, Terminating

\* At the start nothing is scheduled.
LEMMA InitImplements == Init => Invariant /\ Promise!Init
<1> SUFFICES ASSUME Init PROVE Invariant /\ Promise!Init
  OBVIOUS
<1>1. Scheduled /\ Recorded
  BY DEF Init, QueueInit, Scheduled, Recorded, FinalizeLabels
<1>2. ScheduledSaves = {}
  <2>1. \A s \in AsyncSaves : s \in Nat \ {0}
    BY PositionsAssumption DEF AsyncSaves
  <2> QED BY <2>1 DEF Init, QueueInit, ScheduledSaves
<1>3. ckptMeta = {} /\ Data = [s \in Positions |-> {}]
  BY DEF Init, QueueInit, Data
<1> QED BY <1>1, <1>2, <1>3, TypeInit, InitAgrees, InitCompletes, InitPipeline
        DEF Invariant, Promise!Init, Data
------------------------------------------------------------------------------
(***************************************************************************)
(* The persistent caller keeps the promise of AsyncSave, whatever the      *)
(* number of ranks and saves and whatever writers fail or die: saves are   *)
(* completed one after the other in the order of scheduling, each only     *)
(* with the data of all its writers, and a save that is complete or given  *)
(* up is never written again.                                              *)
(***************************************************************************)
THEOREM Implementation ==
  ASSUME Plain, SameWriters
  PROVE Spec => ImplementsAsyncSave
<1>1. Init => Invariant /\ Promise!Init
  BY InitImplements
<1>2. Invariant /\ [Next]_vars => Invariant' /\ [Promise!Next]_(Promise!vars)
  <2> SUFFICES ASSUME Invariant, [Next]_vars
               PROVE Invariant' /\ [Promise!Next]_(Promise!vars)
    OBVIOUS
  <2>1. Invariant'
    BY TypeStep, StepAgrees, StepCompletes, StepPipeline, StepScheduled, StepRecorded
       DEF Invariant
  <2>2. Implemented
    BY <2>1, StepImplements DEF Invariant
  <2> QED BY <2>1, <2>2 DEF Implemented
<1> QED BY <1>1, <1>2, PTL DEF Spec, ImplementsAsyncSave, Promise!Spec
==============================================================================

---------------------------- MODULE PipelineProofs ----------------------------
(***************************************************************************)
(* What PipelineWithoutInterleaving guarantees for every number of stages  *)
(* and of microbatches: the bound on the activations that a stage keeps,   *)
(* and the one reduction of its gradients.  Both follow from where in its  *)
(* schedule a stage is, whatever the other stages and the network do.      *)
(***************************************************************************)
EXTENDS PipelineWithoutInterleaving, TLAPS

Tensor == [input : Tensors, output : Tensors]
Arrivals == [buffer : [call : Nat, side : Sides], tensor : Tensors]

\* How many passes a stage has run and how many tensors it keeps, by its place.
Counts(r) ==
    LET s        == stage[r]
        warmup   == num_warmup_microbatches(r)
        fwd      == Len(forwards[r])
        bwd      == Len(backwards[r])
        training == ~layout.forward_only
    IN  /\ s.at \in {"warmup", "warmup_forward"} =>
              /\ fwd = s.i /\ bwd = 0 /\ s.i <= warmup
              /\ training => Len(s.tensors) = s.i
        /\ s.at = "warmup_forward" => s.i < warmup
        /\ s.at = "warmup_sent" =>
              /\ fwd = s.i + 1 /\ bwd = 0 /\ s.i < warmup
              /\ training => Len(s.tensors) = s.i
        /\ s.at = "steady_forward" =>
              /\ fwd = warmup + s.i /\ s.i < M - warmup
              /\ training => bwd = s.i /\ Len(s.tensors) = warmup
        /\ s.at = "steady_sent" =>
              /\ ~training
              /\ fwd = warmup + s.i + 1 /\ s.i < M - warmup
        /\ s.at = "steady_backward" =>
              /\ training
              /\ fwd = warmup + s.i + 1 /\ s.i < M - warmup
              /\ bwd = s.i /\ Len(s.tensors) = warmup
        /\ s.at = "cooldown" =>
              /\ fwd = M /\ s.i <= warmup
              /\ training => bwd = M - warmup + s.i /\ Len(s.tensors) = warmup - s.i
        /\ s.at = "cooldown_backward" =>
              /\ training
              /\ fwd = M /\ s.i < warmup
              /\ bwd = M - warmup + s.i
              /\ Len(s.tensors) = warmup - s.i - 1
        /\ s.at = "done" => fwd = M /\ (training => bwd = M)

\* Whether a stage still keeps the hooks from reducing, and what they reduced.
Syncs(r) ==
    LET s      == stage[r]
        warmup == num_warmup_microbatches(r)
    IN  /\ layout.forward_only => s.no_sync /\ reductions[r] = <<>>
        /\ ~layout.forward_only =>
             /\ s.at \notin {"cooldown", "cooldown_backward", "done"} =>
                   s.no_sync /\ reductions[r] = <<>>
             /\ s.at = "cooldown" /\ s.i < warmup => s.no_sync /\ reductions[r] = <<>>
             /\ s.at = "cooldown" /\ s.i = warmup =>
                   /\ (s.no_sync <=> ~SyncsInLastPass(r))
                   /\ reductions[r] = IF SyncsInLastPass(r) THEN <<M>> ELSE <<>>
             /\ s.at = "cooldown_backward" =>
                   /\ (s.no_sync <=> ~(s.i = warmup - 1 /\ SyncsInLastPass(r)))
                   /\ reductions[r] = <<>>
             /\ s.at = "done" => reductions[r] = <<M>>

Inv == TypeOK /\ \A r \in Stages : Counts(r) /\ Syncs(r)

-----------------------------------------------------------------------------
(* The operators of the schedule                                           *)

\* Of n - w steps, one that is not the last has a successor.
LEMMA NotLast ==
  ASSUME NEW i \in Nat, NEW n \in Nat, NEW w \in Nat, i < n - w, i # n - w - 1
  PROVE  i + 1 < n - w
OBVIOUS


LEMMA LayoutType ==
    ASSUME layout \in Layouts
    PROVE  /\ P \in Nat \ {0} /\ M \in Nat \ {0}
           /\ layout.forward_only \in BOOLEAN /\ layout.grad_sync_func \in BOOLEAN
BY LayoutsAssumption DEF P, M

\* The warm-up of a stage is no longer than the pipeline behind it.
LEMMA WarmupRange ==
    ASSUME layout \in Layouts, NEW r \in Stages
    PROVE  /\ num_warmup_microbatches(r) \in Nat
           /\ num_warmup_microbatches(r) <= M
           /\ num_warmup_microbatches(r) <= P - r - 1
           /\ num_microbatches_remaining(r) = M - num_warmup_microbatches(r)
BY LayoutType DEF num_warmup_microbatches, num_microbatches_remaining, MinOf, Stages

LEMMA ContentType ==
    ASSUME TypeOK, NEW r \in Stages, NEW buffer
    PROVE  Content(r, buffer) \in Tensors
<1>1. arrived[r] \in SUBSET Arrivals
  BY DEF TypeOK, Arrivals
<1>2. CASE \E a \in arrived[r] : a.buffer = buffer
  <2>1. (CHOOSE a \in arrived[r] : a.buffer = buffer) \in arrived[r]
    BY <1>2
  <2>. QED  BY <1>1, <1>2, <2>1 DEF Content, Arrivals
<1>3. CASE ~ \E a \in arrived[r] : a.buffer = buffer
  BY <1>3 DEF Content, Tensors
<1>. QED  BY <1>2, <1>3

LEMMA ForwardOfType ==
    ASSUME TypeOK, NEW r \in Stages, NEW input, Len(forwards[r]) < M
    PROVE  ForwardOf(r, input) \in 0 .. M
<1>1. M \in Nat \ {0}
  BY LayoutType DEF TypeOK
<1>2. Len(forwards[r]) \in Nat
  BY DEF TypeOK
<1>3. CASE \E m \in 1 .. M : input = Activation(r - 1, m)
  <2>1. (CHOOSE m \in 1 .. M : input = Activation(r - 1, m)) \in 1 .. M
    BY <1>3
  <2>. QED  BY <1>1, <1>2, <1>3, <2>1 DEF ForwardOf
<1>4. CASE ~ \E m \in 1 .. M : input = Activation(r - 1, m)
  BY <1>1, <1>2, <1>4 DEF ForwardOf
<1>. QED  BY <1>3, <1>4

LEMMA BackwardOfType ==
    ASSUME layout \in Layouts, NEW r \in Stages, NEW output, NEW grad
    PROVE  BackwardOf(r, output, grad) \in 0 .. M
<1>1. M \in Nat \ {0}
  BY LayoutType
<1>2. CASE \E m \in 1 .. M : /\ output = Activation(r, m)
                             /\ ~is_pp_last_stage(r) => grad = Gradient(r + 1, m)
  <2>1. PICK m \in 1 .. M : output = Activation(r, m)
    BY <1>2
  <2>2. output.microbatch = m
    BY <2>1 DEF Activation
  <2>. QED  BY <1>1, <1>2, <2>2 DEF BackwardOf
<1>3. CASE ~ \E m \in 1 .. M : /\ output = Activation(r, m)
                               /\ ~is_pp_last_stage(r) => grad = Gradient(r + 1, m)
  BY <1>1, <1>3 DEF BackwardOf
<1>. QED  BY <1>2, <1>3

\* The tensors that a stage makes.
LEMMA TensorType ==
    ASSUME NEW r \in Stages, NEW m \in 0 .. M
    PROVE  Activation(r, m) \in Tensors /\ Gradient(r, m) \in Tensors
BY DEF Activation, Gradient, Tensors

LEMMA OperationType ==
    ASSUME TypeOK, NEW r \in Stages, NEW tensor \in Tensors
    PROVE  /\ RecvPrev(r) \subseteq Operations
           /\ RecvNext(r) \subseteq Operations
           /\ SendNext(r, tensor) \subseteq Operations
           /\ SendPrev(r, tensor) \subseteq Operations
<1>1. calls[r] + 1 \in Nat /\ None \in Tensors
  BY DEF TypeOK, Tensors
<1>2. \A side \in Sides : Send(r, side, tensor) \in Operations /\ Receive(r, side) \in Operations
  BY <1>1 DEF Send, Receive, Operations
<1>. QED  BY <1>2 DEF RecvPrev, RecvNext, SendNext, SendPrev, Sides

LEMMA StartType ==
    ASSUME TypeOK, NEW r \in Stages, NEW ops \in SUBSET Operations, Start(r, ops)
    PROVE  calls' \in [Stages -> Nat] /\ posted' \in [Stages -> SUBSET Operations]
<1>1. calls' \in [Stages -> Nat]
  BY DEF TypeOK, Start
<1>2. posted[r] \cup ops \in SUBSET Operations
  BY DEF TypeOK
<1>3. posted' \in [Stages -> SUBSET Operations]
  BY <1>2 DEF TypeOK, Start
<1>. QED  BY <1>1, <1>3

-----------------------------------------------------------------------------
(* Types                                                                   *)

\* The layout never changes, and what is typed by it stays typed.
LEMMA TypeAgain ==
    ASSUME layout' = layout, layout \in Layouts,
           calls' \in [Stages -> Nat],
           posted' \in [Stages -> SUBSET Operations],
           arrived' \in [Stages -> SUBSET Arrivals],
           stage' \in [Stages -> Locals],
           forwards' \in [Stages -> Seq(0 .. M)],
           backwards' \in [Stages -> Seq(0 .. M)],
           reductions' \in [Stages -> Seq(Nat)]
    PROVE  TypeOK'
<1>1. P' = P /\ M' = M /\ Stages' = Stages
  BY DEF P, M, Stages
<1>2. Tensors' = Tensors
  BY <1>1 DEF Tensors
<1>3. Operations' = Operations /\ Locals' = Locals
  BY <1>1, <1>2 DEF Operations, Locals
<1>. QED  BY <1>1, <1>2, <1>3 DEF TypeOK, Arrivals

\* Tensors kept and taken.
LEMMA PoppedType ==
    ASSUME NEW tensors \in Seq(Tensor), tensors # << >>
    PROVE  /\ Popped(tensors).tensor \in Tensor
           /\ Popped(tensors).rest \in Seq(Tensor)
           /\ Len(Popped(tensors).rest) = Len(tensors) - 1
BY DEF Popped

LEMMA LocalsType ==
    ASSUME TypeOK, NEW r \in Stages
    PROVE  /\ stage[r] \in Locals
           /\ stage[r].at \in Places /\ stage[r].i \in 0 .. M
           /\ stage[r].input \in Tensors /\ stage[r].output \in Tensors
           /\ stage[r].tensors \in Seq(Tensor) /\ stage[r].no_sync \in BOOLEAN
           /\ Len(forwards[r]) \in Nat /\ Len(backwards[r]) \in Nat
<1>1. stage[r] \in Locals
  BY DEF TypeOK
<1>2. forwards[r] \in Seq(0 .. M) /\ backwards[r] \in Seq(0 .. M)
  BY DEF TypeOK
<1>3. Len(forwards[r]) \in Nat /\ Len(backwards[r]) \in Nat
  BY <1>2
<1>. QED  BY <1>1, <1>3 DEF Locals, Tensor

\* A step of a stage keeps the types: the number of a microbatch stays in its
\* range because the counts do.
LEMMA TypeStep ==
    ASSUME Inv, NEW r \in Stages, Step(r)
    PROVE  TypeOK'
<1>. DEFINE warmup == num_warmup_microbatches(r)
<1>1. TypeOK /\ Counts(r) /\ layout \in Layouts
  BY DEF Inv, TypeOK
<1>2. /\ M \in Nat \ {0} /\ warmup \in Nat /\ warmup <= M
      /\ num_microbatches_remaining(r) = M - warmup
  BY <1>1, LayoutType, WarmupRange
<1>3. /\ stage[r] \in Locals
      /\ stage[r].at \in Places /\ stage[r].i \in 0 .. M
      /\ stage[r].input \in Tensors /\ stage[r].output \in Tensors
      /\ stage[r].tensors \in Seq(Tensor) /\ stage[r].no_sync \in BOOLEAN
  BY <1>1, LocalsType
<1>4. /\ calls \in [Stages -> Nat] /\ posted \in [Stages -> SUBSET Operations]
      /\ arrived \in [Stages -> SUBSET Arrivals] /\ stage \in [Stages -> Locals]
      /\ forwards \in [Stages -> Seq(0 .. M)] /\ backwards \in [Stages -> Seq(0 .. M)]
      /\ reductions \in [Stages -> Seq(Nat)]
  BY <1>1 DEF TypeOK, Arrivals
<1>5. None \in Tensors
  BY DEF Tensors
<1>6. ASSUME NEW m \in 0 .. M, ForwardStep(r, m)
      PROVE  forwards' \in [Stages -> Seq(0 .. M)]
  BY <1>4, <1>6 DEF ForwardStep
<1>7. ASSUME NEW m \in 0 .. M, NEW no_sync, BackwardStep(r, m, no_sync)
      PROVE  /\ backwards' \in [Stages -> Seq(0 .. M)]
             /\ reductions' \in [Stages -> Seq(Nat)]
  <2>1. backwards' \in [Stages -> Seq(0 .. M)]
    BY <1>4, <1>7 DEF BackwardStep
  <2>2. Len(backwards[r]) + 1 \in Nat
    BY <1>4
  <2>3. Append(reductions[r], Len(backwards[r]) + 1) \in Seq(Nat)
    BY <1>4, <2>2
  <2>4. reductions' \in [Stages -> Seq(Nat)]
    BY <1>4, <1>7, <2>3 DEF BackwardStep
  <2>. QED  BY <2>1, <2>4
<1>8. ASSUME NEW place \in Places, NEW i \in 0 .. M, GoTo(r, place, i)
      PROVE  stage' \in [Stages -> Locals]
  BY <1>3, <1>4, <1>8 DEF GoTo, Locals
<1>9. CASE WarmupReceive(r)
  <2>1. calls' \in [Stages -> Nat] /\ posted' \in [Stages -> SUBSET Operations]
    BY <1>1, <1>5, <1>9, StartType, OperationType DEF WarmupReceive
  <2>2. stage' \in [Stages -> Locals]
    BY <1>3, <1>8, <1>9 DEF WarmupReceive, Places
  <2>. QED  BY <1>1, <1>4, <1>9, <2>1, <2>2, TypeAgain DEF WarmupReceive, passes
<1>10. CASE WarmupForward(r)
  <2>. DEFINE input == Received(r, "prev")
              m     == ForwardOf(r, input)
  <2>1. Len(forwards[r]) < M
    BY <1>1, <1>2, <1>3, <1>10 DEF Counts, WarmupForward, At
  <2>2. m \in 0 .. M /\ input \in Tensors
    BY <1>1, <2>1, ForwardOfType, ContentType DEF Received
  <2>3. Activation(r, m) \in Tensors
    BY <2>2, TensorType
  <2>4. /\ forwards' \in [Stages -> Seq(0 .. M)]
        /\ calls' \in [Stages -> Nat] /\ posted' \in [Stages -> SUBSET Operations]
    BY <1>1, <1>6, <1>10, <2>2, <2>3, StartType, OperationType DEF WarmupForward
  <2>5. stage' = [stage EXCEPT ![r].at = "warmup_sent", ![r].input = input,
                               ![r].output = Activation(r, m)]
    BY <1>10 DEF WarmupForward
  <2>. HIDE DEF input, m
  <2>6. stage' \in [Stages -> Locals]
    BY <1>3, <1>4, <2>2, <2>3, <2>5 DEF Locals, Places
  <2>. QED  BY <1>1, <1>4, <1>10, <2>4, <2>6, TypeAgain DEF WarmupForward
<1>11. CASE WarmupSave(r)
  <2>1. stage[r].i + 1 \in 0 .. M
    BY <1>1, <1>2, <1>3, <1>11 DEF Counts, WarmupSave, At
  <2>. DEFINE tensors == IF layout.forward_only THEN stage[r].tensors
                  ELSE Append(stage[r].tensors, [input |-> stage[r].input, output |-> stage[r].output])
  <2>. DEFINE tensor == [input |-> stage[r].input, output |-> stage[r].output]
  <2>5. tensor \in Tensor
    BY <1>3 DEF Tensor
  <2>2. tensors \in Seq(Tensor)
    BY <1>3, <2>5
  <2>3. stage' = [stage EXCEPT ![r].at = "warmup", ![r].i = stage[r].i + 1, ![r].tensors = tensors]
    BY <1>4, <1>11 DEF WarmupSave
  <2>. HIDE DEF tensors
  <2>4. stage' \in [Stages -> Locals]
    BY <1>3, <1>4, <2>1, <2>2, <2>3 DEF Locals, Places, Tensor
  <2>. QED  BY <1>1, <1>4, <1>11, <2>4, TypeAgain DEF WarmupSave, passes
<1>12. CASE EnterSteady(r)
  <2>1. calls' \in [Stages -> Nat] /\ posted' \in [Stages -> SUBSET Operations]
    BY <1>1, <1>5, <1>12, StartType, OperationType DEF EnterSteady
  <2>2. stage' \in [Stages -> Locals]
    BY <1>2, <1>8, <1>12 DEF EnterSteady, Places
  <2>. QED  BY <1>1, <1>4, <1>12, <2>1, <2>2, TypeAgain DEF EnterSteady, passes
<1>13. CASE SkipSteady(r)
  <2>1. stage' \in [Stages -> Locals]
    BY <1>2, <1>8, <1>13 DEF SkipSteady, Places
  <2>. QED  BY <1>1, <1>4, <1>13, <2>1, TypeAgain DEF SkipSteady, passes
<1>14. CASE SteadyForward(r)
  <2>. DEFINE input == Received(r, "prev")
              m     == ForwardOf(r, input)
              place == IF layout.forward_only THEN "steady_sent" ELSE "steady_backward"
              ops   == SendNext(r, Activation(r, m))
                         \cup (IF layout.forward_only THEN {} ELSE RecvNext(r))
  <2>1. Len(forwards[r]) < M
    BY <1>1, <1>2, <1>3, <1>14 DEF Counts, SteadyForward, At
  <2>2. m \in 0 .. M /\ input \in Tensors
    BY <1>1, <2>1, ForwardOfType, ContentType DEF Received
  <2>3. Activation(r, m) \in Tensors
    BY <2>2, TensorType
  <2>4. ops \in SUBSET Operations
    BY <1>1, <2>3, OperationType
  <2>5. /\ ForwardStep(r, m) /\ Start(r, ops)
        /\ stage' = [stage EXCEPT ![r].at = place, ![r].input = input,
                                  ![r].output = Activation(r, m)]
    BY <1>14 DEF SteadyForward
  <2>6. place \in Places
    BY DEF Places
  <2>. HIDE DEF input, m, place, ops
  <2>7. stage' \in [Stages -> Locals]
    BY <1>3, <1>4, <2>2, <2>3, <2>5, <2>6 DEF Locals
  <2>8. /\ forwards' \in [Stages -> Seq(0 .. M)]
        /\ calls' \in [Stages -> Nat] /\ posted' \in [Stages -> SUBSET Operations]
    BY <1>1, <1>6, <2>2, <2>4, <2>5, StartType
  <2>. QED  BY <1>1, <1>4, <1>14, <2>7, <2>8, TypeAgain DEF SteadyForward
<1>15. CASE SteadyReceive(r)
  <2>1. calls' \in [Stages -> Nat] /\ posted' \in [Stages -> SUBSET Operations]
    BY <1>1, <1>5, <1>15, StartType, OperationType DEF SteadyReceive
  <2>2. stage[r].i + 1 \in 0 .. M
    BY <1>1, <1>2, <1>3, <1>15 DEF Counts, SteadyReceive, At
  <2>3. stage' \in [Stages -> Locals]
    BY <1>8, <1>15, <2>2 DEF SteadyReceive, Places
  <2>. QED  BY <1>1, <1>4, <1>15, <2>1, <2>3, TypeAgain DEF SteadyReceive, passes
<1>16. CASE EndSteady(r)
  <2>1. stage' \in [Stages -> Locals]
    BY <1>2, <1>8, <1>16 DEF EndSteady, Places
  <2>. QED  BY <1>1, <1>4, <1>16, <2>1, TypeAgain DEF EndSteady, passes
<1>17. CASE SteadyBackward(r)
  <2>. DEFINE saved   == [input |-> stage[r].input, output |-> stage[r].output]
              popped  == Popped(Append(stage[r].tensors, saved))
              m       == BackwardOf(r, popped.tensor.output, Received(r, "next"))
              last    == last_iteration(r)
              no_sync == stage[r].no_sync
                           /\ ~(num_warmup_microbatches(r) = 0 /\ last /\ SyncsInLastPass(r))
              place   == IF last THEN "cooldown" ELSE "steady_forward"
              i       == IF last THEN 0 ELSE stage[r].i + 1
              rest    == popped.rest
              ops     == SendPrev(r, Gradient(r, m)) \cup (IF last THEN {} ELSE RecvPrev(r))
  <2>1. m \in 0 .. M
    BY <1>1, BackwardOfType
  <2>2. Gradient(r, m) \in Tensors
    BY <2>1, TensorType
  <2>3. ops \in SUBSET Operations
    BY <1>1, <2>2, OperationType
  <2>4. saved \in Tensor
    BY <1>3 DEF Tensor
  <2>12. Append(stage[r].tensors, saved) \in Seq(Tensor)
    BY <1>3, <2>4
  <2>14. Append(stage[r].tensors, saved) # << >>
    BY <1>3, <2>4, SMTT(30)
  <2>5. Append(stage[r].tensors, saved) \in Seq(Tensor) \ {<< >>}
    BY <2>12, <2>14
  <2>6. rest \in Seq(Tensor)
    BY <2>5, PoppedType
  <2>7. place \in Places /\ i \in 0 .. M
    BY <1>1, <1>2, <1>3, <1>17 DEF Counts, SteadyBackward, At, Places
  <2>8. no_sync \in BOOLEAN
    OBVIOUS
  <2>9. /\ BackwardStep(r, m, no_sync) /\ Start(r, ops)
        /\ stage' = [stage EXCEPT ![r].at = place, ![r].i = i, ![r].tensors = rest,
                                  ![r].no_sync = no_sync]
    BY <1>4, <1>17 DEF SteadyBackward
  <2>. HIDE DEF saved, popped, m, last, no_sync, place, i, rest, ops
  <2>10. stage' \in [Stages -> Locals]
    BY <1>3, <1>4, <2>6, <2>7, <2>8, <2>9 DEF Locals, Tensor
  <2>11. /\ backwards' \in [Stages -> Seq(0 .. M)] /\ reductions' \in [Stages -> Seq(Nat)]
         /\ calls' \in [Stages -> Nat] /\ posted' \in [Stages -> SUBSET Operations]
    BY <1>1, <1>7, <2>1, <2>3, <2>9, StartType
  <2>. QED  BY <1>1, <1>4, <1>17, <2>10, <2>11, TypeAgain DEF SteadyBackward
<1>18. CASE CooldownReceive(r)
  <2>. DEFINE popped  == Popped(stage[r].tensors)
              no_sync == stage[r].no_sync /\ ~(/\ stage[r].i = num_warmup_microbatches(r) - 1
                                               /\ SyncsInLastPass(r))
              input   == popped.tensor.input
              output  == popped.tensor.output
              rest    == popped.rest
  <2>1. stage[r].tensors \in Seq(Tensor) \ {<< >>}
    BY <1>1, <1>2, <1>3, <1>18 DEF Counts, CooldownReceive, At
  <2>2. popped.tensor \in Tensor /\ rest \in Seq(Tensor)
    BY <2>1, PoppedType
  <2>3. input \in Tensors /\ output \in Tensors
    BY <2>2 DEF Tensor
  <2>4. no_sync \in BOOLEAN
    OBVIOUS
  <2>5. stage' = [stage EXCEPT ![r].at = "cooldown_backward", ![r].no_sync = no_sync,
                               ![r].input = input, ![r].output = output, ![r].tensors = rest]
    BY <1>4, <1>18 DEF CooldownReceive
  <2>. HIDE DEF popped, no_sync, input, output, rest
  <2>6. stage' \in [Stages -> Locals]
    BY <1>3, <1>4, <2>2, <2>3, <2>4, <2>5 DEF Locals, Places, Tensor
  <2>7. calls' \in [Stages -> Nat] /\ posted' \in [Stages -> SUBSET Operations]
    BY <1>1, <1>5, <1>18, StartType, OperationType DEF CooldownReceive
  <2>. QED  BY <1>1, <1>4, <1>18, <2>6, <2>7, TypeAgain DEF CooldownReceive, passes
<1>19. CASE CooldownBackward(r)
  <2>. DEFINE m == BackwardOf(r, stage[r].output, Received(r, "next"))
  <2>1. m \in 0 .. M
    BY <1>1, BackwardOfType
  <2>2. Gradient(r, m) \in Tensors
    BY <2>1, TensorType
  <2>3. SendPrev(r, Gradient(r, m)) \in SUBSET Operations
    BY <1>1, <2>2, OperationType
  <2>4. BackwardStep(r, m, stage[r].no_sync) /\ Start(r, SendPrev(r, Gradient(r, m)))
    BY <1>19 DEF CooldownBackward
  <2>. HIDE DEF m
  <2>5. /\ backwards' \in [Stages -> Seq(0 .. M)] /\ reductions' \in [Stages -> Seq(Nat)]
        /\ calls' \in [Stages -> Nat] /\ posted' \in [Stages -> SUBSET Operations]
    BY <1>1, <1>7, <2>1, <2>3, <2>4, StartType
  <2>6. stage[r].i + 1 \in 0 .. M
    BY <1>1, <1>2, <1>3, <1>19 DEF Counts, CooldownBackward, At
  <2>7. stage' \in [Stages -> Locals]
    BY <1>8, <1>19, <2>6 DEF CooldownBackward, Places
  <2>. QED  BY <1>1, <1>4, <1>19, <2>5, <2>7, TypeAgain DEF CooldownBackward
<1>20. CASE Finish(r)
  <2>. DEFINE no_sync == stage[r].no_sync /\ layout.forward_only
  <2>1. stage' = [stage EXCEPT ![r].at = "done", ![r].no_sync = no_sync] /\ no_sync \in BOOLEAN
    BY <1>4, <1>20 DEF Finish
  <2>. HIDE DEF no_sync
  <2>2. stage' \in [Stages -> Locals]
    BY <1>3, <1>4, <2>1 DEF Locals, Places
  <2>3. Append(reductions[r], Len(backwards[r])) \in Seq(Nat)
    BY <1>4
  <2>4. reductions' \in [Stages -> Seq(Nat)]
    BY <1>4, <1>20, <2>3 DEF Finish
  <2>. QED  BY <1>1, <1>4, <1>20, <2>2, <2>4, TypeAgain DEF Finish
<1>. QED  BY <1>9, <1>10, <1>11, <1>12, <1>13, <1>14, <1>15, <1>16, <1>17, <1>18, <1>19, <1>20 DEF Step

-----------------------------------------------------------------------------
(* Counts and reductions                                                   *)

\* A step of one stage leaves the schedules of the others alone.
LEMMA OthersAlone ==
    ASSUME TypeOK, NEW r \in Stages, Step(r), NEW q \in Stages, q # r
    PROVE  /\ stage'[q] = stage[q] /\ forwards'[q] = forwards[q]
           /\ backwards'[q] = backwards[q] /\ reductions'[q] = reductions[q]
<1>1. stage'[q] = stage[q]
  BY DEF TypeOK, Step, WarmupReceive, WarmupForward, WarmupSave, EnterSteady, SkipSteady,
         SteadyForward, SteadyBackward, SteadyReceive, EndSteady, CooldownReceive,
         CooldownBackward, Finish, GoTo
<1>2. forwards'[q] = forwards[q]
  BY DEF TypeOK, Step, WarmupReceive, WarmupForward, WarmupSave, EnterSteady, SkipSteady,
         SteadyForward, SteadyBackward, SteadyReceive, EndSteady, CooldownReceive,
         CooldownBackward, Finish, ForwardStep, passes
<1>3. backwards'[q] = backwards[q] /\ reductions'[q] = reductions[q]
  BY DEF TypeOK, Step, WarmupReceive, WarmupForward, WarmupSave, EnterSteady, SkipSteady,
         SteadyForward, SteadyBackward, SteadyReceive, EndSteady, CooldownReceive,
         CooldownBackward, Finish, BackwardStep, passes
<1>. QED  BY <1>1, <1>2, <1>3

LEMMA LayoutStays ==
    ASSUME layout' = layout
    PROVE  /\ P' = P /\ M' = M /\ Stages' = Stages
           /\ \A r : /\ num_warmup_microbatches(r)' = num_warmup_microbatches(r)
                    /\ SyncsInLastPass(r)' = SyncsInLastPass(r)
BY DEF P, M, Stages, num_warmup_microbatches, MinOf, SyncsInLastPass

\* Where a stage's own schedule is not touched, its part of the invariant stays.
LEMMA UntouchedStage ==
    ASSUME layout' = layout, NEW q, Counts(q), Syncs(q),
           stage'[q] = stage[q], forwards'[q] = forwards[q],
           backwards'[q] = backwards[q], reductions'[q] = reductions[q]
    PROVE  Counts(q)' /\ Syncs(q)'
BY LayoutStays DEF Counts, Syncs

LEMMA ForwardStepCount ==
    ASSUME TypeOK, NEW r \in Stages, NEW m, ForwardStep(r, m)
    PROVE  Len(forwards'[r]) = Len(forwards[r]) + 1
BY DEF TypeOK, ForwardStep

LEMMA BackwardStepCount ==
    ASSUME TypeOK, NEW r \in Stages, NEW m, NEW no_sync, BackwardStep(r, m, no_sync)
    PROVE  /\ Len(backwards'[r]) = Len(backwards[r]) + 1
           /\ no_sync => reductions'[r] = reductions[r]
           /\ ~no_sync => reductions'[r] = Append(reductions[r], Len(backwards[r]) + 1)
BY DEF TypeOK, BackwardStep

LEMMA CountsStep ==
    ASSUME Inv, NEW r \in Stages, Step(r)
    PROVE  Counts(r)' /\ Syncs(r)'
<1>. DEFINE warmup == num_warmup_microbatches(r)
<1>1. TypeOK /\ Counts(r) /\ Syncs(r) /\ layout \in Layouts
  BY DEF Inv, TypeOK
<1>2. /\ M \in Nat \ {0} /\ warmup \in Nat /\ warmup <= M
      /\ num_microbatches_remaining(r) = M - warmup
      /\ layout.forward_only \in BOOLEAN
  BY <1>1, LayoutType, WarmupRange
<1>3. /\ stage[r].at \in Places /\ stage[r].i \in 0 .. M
      /\ stage[r].tensors \in Seq(Tensor) /\ stage[r].no_sync \in BOOLEAN
      /\ Len(forwards[r]) \in Nat /\ Len(backwards[r]) \in Nat
      /\ Len(stage[r].tensors) \in Nat
  BY <1>1, LocalsType
<1>4. stage \in [Stages -> Locals] /\ SyncsInLastPass(r) \in BOOLEAN
  BY <1>1 DEF TypeOK, SyncsInLastPass
<1>40. stage[r] \in Locals
  BY <1>4
<1>5. layout' = layout
  BY DEF Step, WarmupReceive, WarmupForward, WarmupSave, EnterSteady, SkipSteady,
         SteadyForward, SteadyBackward, SteadyReceive, EndSteady, CooldownReceive,
         CooldownBackward, Finish
<1>6. M' = M /\ num_warmup_microbatches(r)' = warmup /\ SyncsInLastPass(r)' = SyncsInLastPass(r)
  BY <1>5, LayoutStays
<1>7. ASSUME NEW place \in Places, NEW i \in 0 .. M, GoTo(r, place, i)
      PROVE  /\ stage'[r].at = place /\ stage'[r].i = i
             /\ stage'[r].tensors = stage[r].tensors /\ stage'[r].no_sync = stage[r].no_sync
  BY <1>4, <1>40, <1>7 DEF GoTo, Locals
<1>8. ASSUME UNCHANGED passes
      PROVE  /\ forwards'[r] = forwards[r] /\ backwards'[r] = backwards[r]
             /\ reductions'[r] = reductions[r]
  BY <1>8 DEF passes
<1>9. CASE WarmupReceive(r)
  <2>1. /\ stage[r].at = "warmup" /\ stage[r].i < warmup
        /\ GoTo(r, "warmup_forward", stage[r].i) /\ UNCHANGED passes
    BY <1>9 DEF WarmupReceive, At
  <2>2. /\ stage'[r].at = "warmup_forward" /\ stage'[r].i = stage[r].i
        /\ stage'[r].tensors = stage[r].tensors /\ stage'[r].no_sync = stage[r].no_sync
    BY <1>3, <1>7, <2>1 DEF Places
  <2>8. Counts(r)'
    BY <1>1, <1>2, <1>3, <1>5, <1>6, <1>8, <2>1, <2>2 DEF Counts
  <2>9. Syncs(r)'
    BY <1>1, <1>2, <1>3, <1>5, <1>6, <1>8, <2>1, <2>2 DEF Syncs
  <2>. QED  BY <2>8, <2>9
<1>10. CASE WarmupForward(r)
  <2>. DEFINE input == Received(r, "prev")
              m     == ForwardOf(r, input)
  <2>1. /\ stage[r].at = "warmup_forward" /\ ForwardStep(r, m)
        /\ stage' = [stage EXCEPT ![r].at = "warmup_sent", ![r].input = input,
                                  ![r].output = Activation(r, m)]
        /\ backwards'[r] = backwards[r] /\ reductions'[r] = reductions[r]
    BY <1>10 DEF WarmupForward, At
  <2>2. Len(forwards'[r]) = Len(forwards[r]) + 1
    BY <1>1, <2>1, ForwardStepCount
  <2>. HIDE DEF input, m
  <2>3. /\ stage'[r].at = "warmup_sent" /\ stage'[r].i = stage[r].i
        /\ stage'[r].tensors = stage[r].tensors /\ stage'[r].no_sync = stage[r].no_sync
    BY <1>4, <1>40, <2>1 DEF Locals
  <2>8. Counts(r)'
    BY <1>1, <1>2, <1>3, <1>5, <1>6, <2>1, <2>2, <2>3 DEF Counts
  <2>9. Syncs(r)'
    BY <1>1, <1>2, <1>3, <1>5, <1>6, <2>1, <2>2, <2>3 DEF Syncs
  <2>. QED  BY <2>8, <2>9
<1>11. CASE WarmupSave(r)
  <2>. DEFINE tensor  == [input |-> stage[r].input, output |-> stage[r].output]
              tensors == IF layout.forward_only THEN stage[r].tensors
                         ELSE Append(stage[r].tensors, tensor)
  <2>1. /\ stage[r].at = "warmup_sent" /\ UNCHANGED passes
        /\ stage' = [stage EXCEPT ![r].at = "warmup", ![r].i = stage[r].i + 1,
                                  ![r].tensors = tensors]
    BY <1>4, <1>11 DEF WarmupSave, At
  <2>2. ~layout.forward_only => Len(tensors) = Len(stage[r].tensors) + 1
    BY <1>3
  <2>. HIDE DEF tensors
  <2>3. /\ stage'[r].at = "warmup" /\ stage'[r].i = stage[r].i + 1
        /\ stage'[r].tensors = tensors /\ stage'[r].no_sync = stage[r].no_sync
    BY <1>4, <1>40, <2>1 DEF Locals
  <2>8. Counts(r)'
    BY <1>1, <1>2, <1>3, <1>5, <1>6, <1>8, <2>1, <2>2, <2>3 DEF Counts
  <2>9. Syncs(r)'
    BY <1>1, <1>2, <1>3, <1>5, <1>6, <1>8, <2>1, <2>2, <2>3 DEF Syncs
  <2>. QED  BY <2>8, <2>9
<1>12. CASE EnterSteady(r)
  <2>1. /\ stage[r].at = "warmup" /\ stage[r].i = warmup /\ num_microbatches_remaining(r) > 0
        /\ GoTo(r, "steady_forward", 0) /\ UNCHANGED passes
    BY <1>12 DEF EnterSteady, At
  <2>2. 0 \in 0 .. M
    BY <1>1, <1>2, <1>3, <1>5, <1>6, <1>1, <2>1 DEF Counts
  <2>3. /\ stage'[r].at = "steady_forward" /\ stage'[r].i = 0
        /\ stage'[r].tensors = stage[r].tensors /\ stage'[r].no_sync = stage[r].no_sync
    BY <1>7, <2>1, <2>2 DEF Places
  <2>8. Counts(r)'
    BY <1>1, <1>2, <1>3, <1>5, <1>6, <1>8, <2>1, <2>3 DEF Counts
  <2>9. Syncs(r)'
    BY <1>1, <1>2, <1>3, <1>5, <1>6, <1>8, <2>1, <2>3 DEF Syncs
  <2>. QED  BY <2>8, <2>9
<1>13. CASE SkipSteady(r)
  <2>1. /\ stage[r].at = "warmup" /\ stage[r].i = warmup /\ num_microbatches_remaining(r) = 0
        /\ GoTo(r, "cooldown", 0) /\ UNCHANGED passes
    BY <1>13 DEF SkipSteady, At
  <2>2. 0 \in 0 .. M
    BY <1>1, <1>2, <1>3, <1>5, <1>6, <1>1, <2>1 DEF Counts
  <2>3. /\ stage'[r].at = "cooldown" /\ stage'[r].i = 0
        /\ stage'[r].tensors = stage[r].tensors /\ stage'[r].no_sync = stage[r].no_sync
    BY <1>7, <2>1, <2>2 DEF Places
  <2>4. /\ Len(forwards[r]) = warmup /\ Len(backwards[r]) = 0
        /\ ~layout.forward_only => Len(stage[r].tensors) = warmup
    BY <1>1, <2>1 DEF Counts
  <2>5. warmup = M
    BY <1>2, <2>1
  <2>6. Len(forwards'[r]) = Len(forwards[r]) /\ Len(backwards'[r]) = Len(backwards[r])
    BY <1>8, <2>1
  <2>7. /\ Len(forwards'[r]) = M /\ stage'[r].i <= warmup
        /\ ~layout.forward_only =>
              /\ Len(backwards'[r]) = M - warmup + stage'[r].i
              /\ Len(stage'[r].tensors) = warmup - stage'[r].i
    BY <1>2, <2>3, <2>4, <2>5, <2>6
  <2>8. Counts(r)'
    BY <1>5, <1>6, <2>3, <2>7 DEF Counts
  <2>9. Syncs(r)'
    BY <1>1, <1>2, <1>3, <1>5, <1>6, <1>8, <2>1, <2>3 DEF Syncs
  <2>. QED  BY <2>8, <2>9
<1>14. CASE SteadyForward(r)
  <2>. DEFINE input == Received(r, "prev")
              m     == ForwardOf(r, input)
              place == IF layout.forward_only THEN "steady_sent" ELSE "steady_backward"
  <2>1. /\ stage[r].at = "steady_forward" /\ ForwardStep(r, m)
        /\ stage' = [stage EXCEPT ![r].at = place, ![r].input = input,
                                  ![r].output = Activation(r, m)]
        /\ backwards'[r] = backwards[r] /\ reductions'[r] = reductions[r]
    BY <1>14 DEF SteadyForward, At
  <2>2. Len(forwards'[r]) = Len(forwards[r]) + 1
    BY <1>1, <2>1, ForwardStepCount
  <2>. HIDE DEF input, m
  <2>3. /\ stage'[r].at = place /\ stage'[r].i = stage[r].i
        /\ stage'[r].tensors = stage[r].tensors /\ stage'[r].no_sync = stage[r].no_sync
    BY <1>4, <1>40, <2>1 DEF Locals
  <2>8. Counts(r)'
    BY <1>1, <1>2, <1>3, <1>5, <1>6, <2>1, <2>2, <2>3 DEF Counts
  <2>9. Syncs(r)'
    BY <1>1, <1>2, <1>3, <1>5, <1>6, <2>1, <2>2, <2>3 DEF Syncs
  <2>. QED  BY <2>8, <2>9
<1>15. CASE SteadyReceive(r)
  <2>1. /\ stage[r].at = "steady_sent" /\ ~last_iteration(r)
        /\ GoTo(r, "steady_forward", stage[r].i + 1) /\ UNCHANGED passes
    BY <1>15 DEF SteadyReceive, At
  <2>2. stage[r].i + 1 \in 0 .. M
    BY <1>1, <1>2, <1>3, <1>5, <1>6, <1>1, <2>1 DEF Counts, last_iteration
  <2>3. /\ stage'[r].at = "steady_forward" /\ stage'[r].i = stage[r].i + 1
        /\ stage'[r].tensors = stage[r].tensors /\ stage'[r].no_sync = stage[r].no_sync
    BY <1>7, <2>1, <2>2 DEF Places
  <2>4. stage[r].i # M - warmup - 1
    BY <1>2, <2>1 DEF last_iteration
  <2>8. Counts(r)'
    BY <1>1, <1>2, <1>3, <1>5, <1>6, <1>8, <2>1, <2>3, <2>4 DEF Counts
  <2>9. Syncs(r)'
    BY <1>1, <1>2, <1>3, <1>5, <1>6, <1>8, <2>1, <2>3 DEF Syncs
  <2>. QED  BY <2>8, <2>9
<1>16. CASE EndSteady(r)
  <2>1. /\ stage[r].at = "steady_sent" /\ last_iteration(r)
        /\ GoTo(r, "cooldown", 0) /\ UNCHANGED passes
    BY <1>16 DEF EndSteady, At
  <2>2. 0 \in 0 .. M
    BY <1>1, <1>2, <1>3, <1>5, <1>6, <1>1, <2>1 DEF Counts, last_iteration
  <2>3. /\ stage'[r].at = "cooldown" /\ stage'[r].i = 0
        /\ stage'[r].tensors = stage[r].tensors /\ stage'[r].no_sync = stage[r].no_sync
    BY <1>7, <2>1, <2>2 DEF Places
  <2>8. Counts(r)'
    BY <1>1, <1>2, <1>3, <1>5, <1>6, <1>8, <2>1, <2>3 DEF Counts, last_iteration
  <2>9. Syncs(r)'
    BY <1>1, <1>2, <1>3, <1>5, <1>6, <1>8, <2>1, <2>3 DEF Counts, Syncs
  <2>. QED  BY <2>8, <2>9
<1>17. CASE SteadyBackward(r)
  <2>. DEFINE saved   == [input |-> stage[r].input, output |-> stage[r].output]
              popped  == Popped(Append(stage[r].tensors, saved))
              m       == BackwardOf(r, popped.tensor.output, Received(r, "next"))
              last    == last_iteration(r)
              no_sync == stage[r].no_sync
                           /\ ~(num_warmup_microbatches(r) = 0 /\ last /\ SyncsInLastPass(r))
              place   == IF last THEN "cooldown" ELSE "steady_forward"
              i       == IF last THEN 0 ELSE stage[r].i + 1
              rest    == popped.rest
  <2>1. stage[r].at = "steady_backward" /\ BackwardStep(r, m, no_sync) /\ forwards'[r] = forwards[r]
    BY <1>17 DEF SteadyBackward, At
  <2>2. stage' = [stage EXCEPT ![r].at = place, ![r].i = i, ![r].tensors = rest, ![r].no_sync = no_sync]
    BY <1>4, <1>17 DEF SteadyBackward
  <2>3. saved \in Tensor
    BY <1>1, LocalsType DEF Tensor
  <2>4. /\ Append(stage[r].tensors, saved) \in Seq(Tensor) /\ Append(stage[r].tensors, saved) # << >>
        /\ Len(Append(stage[r].tensors, saved)) = Len(stage[r].tensors) + 1
    BY <1>3, <2>3
  <2>50. Len(rest) = Len(Append(stage[r].tensors, saved)) - 1
    BY <2>4, PoppedType
  <2>5. Len(rest) = Len(stage[r].tensors)
    BY <1>3, <2>4, <2>50
  <2>6. /\ Len(backwards'[r]) = Len(backwards[r]) + 1
        /\ no_sync => reductions'[r] = reductions[r]
        /\ ~no_sync => reductions'[r] = Append(reductions[r], Len(backwards[r]) + 1)
    BY <1>1, <2>1, BackwardStepCount
  <2>7. last <=> stage[r].i = M - warmup - 1
    BY <1>2 DEF last_iteration
  <2>. HIDE DEF saved, popped, m, last, rest
  <2>8. /\ stage'[r].at = place /\ stage'[r].i = i
        /\ stage'[r].tensors = rest /\ stage'[r].no_sync = no_sync
    BY <1>4, <1>40, <2>2 DEF Locals
  <2>9. Counts(r)'
    <3>1. /\ ~layout.forward_only /\ Len(forwards[r]) = warmup + stage[r].i + 1
          /\ stage[r].i < M - warmup
          /\ Len(backwards[r]) = stage[r].i /\ Len(stage[r].tensors) = warmup
      BY <1>1, <1>3, <2>1 DEF Counts
    <3>2. CASE last
      <4>1. stage'[r].at = "cooldown" /\ stage'[r].i = 0
        BY <2>8, <3>2
      <4>2. /\ Len(forwards'[r]) = M /\ stage'[r].i <= warmup
            /\ Len(backwards'[r]) = M - warmup + stage'[r].i
            /\ Len(stage'[r].tensors) = warmup - stage'[r].i
        <5>1. stage[r].i = M - warmup - 1
          BY <2>7, <3>2
        <5>2. Len(forwards[r]) = M
          BY <1>2, <3>1, <5>1
        <5>3. Len(forwards'[r]) = M
          BY <2>1, <5>2
        <5>4. Len(backwards'[r]) = M - warmup
          BY <1>2, <2>6, <3>1, <5>1
        <5>5. Len(stage'[r].tensors) = warmup
          BY <2>5, <2>8, <3>1
        <5>. QED  BY <1>2, <4>1, <5>3, <5>4, <5>5
      <4>. QED  BY <1>5, <1>6, <3>1, <4>1, <4>2 DEF Counts
    <3>3. CASE ~last
      <4>1. stage[r].i + 1 < M - warmup
        <5>1. stage[r].i # M - warmup - 1
          BY <2>7, <3>3
        <5>2. stage[r].i \in Nat /\ M \in Nat /\ warmup \in Nat
          BY <1>2, <1>3
        <5>. QED  BY <3>1, <5>1, <5>2, NotLast
      <4>2. stage'[r].at = "steady_forward" /\ stage'[r].i = stage[r].i + 1
        BY <2>8, <3>3
      <4>3. /\ Len(forwards'[r]) = warmup + (stage[r].i + 1)
            /\ Len(backwards'[r]) = stage[r].i + 1 /\ Len(stage'[r].tensors) = warmup
        BY <1>2, <1>3, <2>1, <2>5, <2>6, <2>8, <3>1
      <4>. QED  BY <1>5, <1>6, <3>1, <4>1, <4>2, <4>3 DEF Counts
    <3>. QED  BY <3>2, <3>3
  <2>10. /\ ~layout.forward_only /\ stage[r].no_sync /\ reductions[r] = << >>
         /\ Len(backwards[r]) = stage[r].i
    BY <1>1, <1>3, <2>1 DEF Counts, Syncs
  <2>11. Append(reductions[r], Len(backwards[r]) + 1) = << Len(backwards[r]) + 1 >>
    BY <2>10
  <2>12. Syncs(r)'
    <3>1. CASE last
      <4>1. Len(backwards[r]) + 1 = M - warmup
        BY <1>2, <2>7, <2>10, <3>1
      <4>2. CASE warmup = 0 /\ SyncsInLastPass(r)
        <5>1. ~no_sync /\ reductions'[r] = << M >>
          BY <1>2, <2>6, <2>11, <3>1, <4>1, <4>2
        <5>. QED  BY <1>2, <1>5, <1>6, <2>8, <2>10, <3>1, <4>2, <5>1 DEF Syncs
      <4>3. CASE ~(warmup = 0 /\ SyncsInLastPass(r))
        <5>1. no_sync /\ reductions'[r] = << >>
          BY <2>6, <2>10, <3>1, <4>3
        <5>. QED  BY <1>2, <1>4, <1>5, <1>6, <2>8, <2>10, <3>1, <4>3, <5>1 DEF Syncs
      <4>. QED  BY <4>2, <4>3
    <3>2. CASE ~last
      BY <1>1, <1>2, <1>3, <1>5, <1>6, <2>1, <2>6, <2>7, <2>8, <2>10, <2>11, <3>2 DEF Syncs
    <3>. QED  BY <3>1, <3>2
  <2>. QED  BY <2>9, <2>12
<1>18. CASE CooldownReceive(r)
  <2>. DEFINE popped  == Popped(stage[r].tensors)
              no_sync == stage[r].no_sync /\ ~(/\ stage[r].i = num_warmup_microbatches(r) - 1
                                               /\ SyncsInLastPass(r))
              input   == popped.tensor.input
              output  == popped.tensor.output
              rest    == popped.rest
  <2>1. /\ stage[r].at = "cooldown" /\ ~layout.forward_only /\ stage[r].i < warmup
        /\ UNCHANGED passes
    BY <1>18 DEF CooldownReceive, At
  <2>2. stage' = [stage EXCEPT ![r].at = "cooldown_backward", ![r].no_sync = no_sync,
                               ![r].input = input, ![r].output = output, ![r].tensors = rest]
    BY <1>4, <1>18 DEF CooldownReceive
  <2>3. stage[r].tensors \in Seq(Tensor) /\ stage[r].tensors # << >>
    BY <1>1, <1>2, <1>3, <2>1 DEF Counts
  <2>4. Len(rest) = Len(stage[r].tensors) - 1
    BY <2>3, PoppedType
  <2>. HIDE DEF popped, input, output, rest
  <2>5. /\ stage'[r].at = "cooldown_backward" /\ stage'[r].i = stage[r].i
        /\ stage'[r].tensors = rest /\ stage'[r].no_sync = no_sync
    BY <1>4, <1>40, <2>2 DEF Locals
  <2>8. Counts(r)'
    BY <1>1, <1>2, <1>3, <1>5, <1>6, <1>8, <2>1, <2>4, <2>5 DEF Counts
  <2>9. Syncs(r)'
    BY <1>1, <1>2, <1>3, <1>5, <1>6, <1>8, <2>1, <2>4, <2>5 DEF Syncs
  <2>. QED  BY <2>8, <2>9
<1>19. CASE CooldownBackward(r)
  <2>. DEFINE m == BackwardOf(r, stage[r].output, Received(r, "next"))
  <2>1. /\ stage[r].at = "cooldown_backward" /\ BackwardStep(r, m, stage[r].no_sync)
        /\ GoTo(r, "cooldown", stage[r].i + 1) /\ forwards'[r] = forwards[r]
    BY <1>19 DEF CooldownBackward, At
  <2>2. stage[r].i + 1 \in 0 .. M
    BY <1>1, <1>2, <1>3, <1>5, <1>6, <2>1 DEF Counts
  <2>3. /\ stage'[r].at = "cooldown" /\ stage'[r].i = stage[r].i + 1
        /\ stage'[r].tensors = stage[r].tensors /\ stage'[r].no_sync = stage[r].no_sync
    BY <1>7, <2>1, <2>2 DEF Places
  <2>4. /\ Len(backwards'[r]) = Len(backwards[r]) + 1
        /\ stage[r].no_sync => reductions'[r] = reductions[r]
        /\ ~stage[r].no_sync => reductions'[r] = Append(reductions[r], Len(backwards[r]) + 1)
    BY <1>1, <2>1, BackwardStepCount
  <2>9. /\ ~layout.forward_only /\ Len(forwards[r]) = M /\ stage[r].i < warmup
        /\ Len(backwards[r]) = M - warmup + stage[r].i
        /\ Len(stage[r].tensors) = warmup - stage[r].i - 1
    BY <1>1, <1>3, <2>1 DEF Counts
  <2>50. /\ Len(forwards'[r]) = M /\ stage'[r].i <= warmup
         /\ Len(backwards'[r]) = M - warmup + stage'[r].i
         /\ Len(stage'[r].tensors) = warmup - stage'[r].i
    BY <1>2, <1>3, <2>1, <2>3, <2>4, <2>9, SMTT(30)
  <2>5. Counts(r)'
    BY <1>5, <1>6, <2>3, <2>9, <2>50 DEF Counts
  <2>6. /\ ~layout.forward_only /\ reductions[r] = << >>
        /\ (stage[r].no_sync <=> ~(stage[r].i = warmup - 1 /\ SyncsInLastPass(r)))
        /\ Len(backwards[r]) = M - warmup + stage[r].i
    BY <1>1, <1>3, <2>1 DEF Counts, Syncs
  <2>7. Append(reductions[r], Len(backwards[r]) + 1) = << Len(backwards[r]) + 1 >>
    BY <2>6
  <2>10. ASSUME stage[r].no_sync PROVE Syncs(r)'
    <3>1. reductions'[r] = << >>
      BY <2>4, <2>6, <2>10
    <3>. QED  BY <1>2, <1>3, <1>4, <1>5, <1>6, <2>3, <2>6, <2>10, <3>1 DEF Syncs
  <2>11. ASSUME ~stage[r].no_sync PROVE Syncs(r)'
    <3>1. stage[r].i = warmup - 1 /\ SyncsInLastPass(r)
      BY <2>6, <2>11
    <3>2. Len(backwards[r]) + 1 = M
      BY <1>2, <2>6, <3>1
    <3>3. reductions'[r] = << M >>
      BY <2>4, <2>7, <2>11, <3>2
    <3>4. stage'[r].i = warmup /\ ~stage'[r].no_sync /\ stage'[r].at = "cooldown"
      BY <1>2, <1>3, <2>3, <2>11, <3>1
    <3>. QED  BY <1>2, <1>5, <1>6, <2>6, <3>1, <3>3, <3>4 DEF Syncs
  <2>8. Syncs(r)'
    BY <1>3, <2>10, <2>11
  <2>. QED  BY <2>5, <2>8
<1>20. CASE Finish(r)
  <2>. DEFINE no_sync == stage[r].no_sync /\ layout.forward_only
  <2>1. /\ stage[r].at = "cooldown" /\ (layout.forward_only \/ stage[r].i = warmup)
        /\ stage' = [stage EXCEPT ![r].at = "done", ![r].no_sync = no_sync]
        /\ forwards'[r] = forwards[r] /\ backwards'[r] = backwards[r]
    BY <1>4, <1>20 DEF Finish, At
  <2>2. /\ stage'[r].at = "done" /\ stage'[r].i = stage[r].i
        /\ stage'[r].tensors = stage[r].tensors /\ stage'[r].no_sync = no_sync
    BY <1>4, <1>40, <2>1 DEF Locals
  <2>3. Counts(r)'
    BY <1>1, <1>2, <1>3, <1>5, <1>6, <2>1, <2>2 DEF Counts
  <2>4. CASE layout.forward_only
    <3>1. reductions'[r] = reductions[r]
      BY <1>20, <2>4 DEF Finish
    <3>2. Syncs(r)'
      BY <1>1, <1>2, <1>3, <1>5, <1>6, <2>1, <2>2, <2>4, <3>1 DEF Syncs
    <3>. QED  BY <2>3, <3>2
  <2>5. CASE ~layout.forward_only
    <3>1. /\ (stage[r].no_sync <=> ~SyncsInLastPass(r)) /\ Len(backwards[r]) = M
          /\ reductions[r] = IF SyncsInLastPass(r) THEN << M >> ELSE << >>
      BY <1>1, <1>2, <1>3, <2>1, <2>5 DEF Counts, Syncs
    <3>2. reductions'[r] = << M >>
      <4>1. CASE SyncsInLastPass(r)
        BY <1>20, <3>1, <4>1 DEF Finish
      <4>2. CASE ~SyncsInLastPass(r)
        <5>1. reductions'[r] = Append(reductions[r], Len(backwards[r]))
          BY <1>1, <1>20, <2>5, <3>1, <4>2 DEF Finish, SyncsInLastPass, TypeOK
        <5>. QED  BY <3>1, <4>2, <5>1
      <4>. QED  BY <4>1, <4>2
    <3>3. Syncs(r)'
      BY <1>5, <1>6, <2>2, <2>5, <3>2 DEF Syncs
    <3>. QED  BY <2>3, <3>3
  <2>. QED  BY <1>2, <2>3, <2>4, <2>5
<1>. QED  BY <1>9, <1>10, <1>11, <1>12, <1>13, <1>14, <1>15, <1>16, <1>17, <1>18, <1>19, <1>20 DEF Step

-----------------------------------------------------------------------------
(* The theorems                                                            *)

LEMMA InvInit == Init => Inv
<1>. SUFFICES ASSUME Init PROVE Inv
  OBVIOUS
<1>1. layout \in Layouts /\ M \in Nat \ {0} /\ None \in Tensors
  BY LayoutType DEF Init, Tensors
<1>2. TypeOK
  <2>1. << >> \in Seq(Tensor) /\ << >> \in Seq(0 .. M) /\ << >> \in Seq(Nat)
    OBVIOUS
  <2>2. stage \in [Stages -> Locals]
    BY <1>1, <2>1 DEF Init, Locals, Places, Tensor
  <2>. QED  BY <1>1, <2>1, <2>2 DEF Init, P2PInit, TypeOK
<1>3. ASSUME NEW r \in Stages PROVE Counts(r) /\ Syncs(r)
  <2>1. /\ stage[r].at = "warmup" /\ stage[r].i = 0 /\ stage[r].no_sync
        /\ stage[r].tensors = << >>
        /\ forwards[r] = << >> /\ backwards[r] = << >> /\ reductions[r] = << >>
    BY <1>3 DEF Init
  <2>2. num_warmup_microbatches(r) \in Nat
    BY <1>1, <1>3, WarmupRange
  <2>. QED  BY <2>1, <2>2 DEF Counts, Syncs
<1>. QED  BY <1>2, <1>3 DEF Inv

\* The network brings a tensor from one stage to another.
LEMMA DeliverStep ==
    ASSUME Inv, NEW r \in Stages, NEW q \in Stages, Deliver(r, q)
    PROVE  Inv'
<1>1. TypeOK /\ layout \in Layouts /\ layout' = layout
  BY DEF Inv, TypeOK, Deliver
<1>2. PICK s \in posted[r], v \in posted[q] :
        /\ posted' = [posted EXCEPT ![r] = @ \ {s}, ![q] = @ \ {v}]
        /\ arrived' = [arrived EXCEPT ![q] = @ \cup
             {[buffer |-> [call |-> v.call, side |-> v.side], tensor |-> s.tensor]}]
  BY DEF Deliver, Transfer
<1>3. /\ posted \in [Stages -> SUBSET Operations] /\ arrived \in [Stages -> SUBSET Arrivals]
      /\ s \in Operations /\ v \in Operations
  BY <1>1 DEF TypeOK, Arrivals
<1>4. posted' \in [Stages -> SUBSET Operations]
  BY <1>2, <1>3
<1>5. [buffer |-> [call |-> v.call, side |-> v.side], tensor |-> s.tensor] \in Arrivals
  BY <1>3 DEF Operations, Arrivals
<1>6. arrived' \in [Stages -> SUBSET Arrivals]
  BY <1>2, <1>3, <1>5
<1>7. TypeOK'
  BY <1>1, <1>4, <1>6, TypeAgain DEF TypeOK, Deliver, passes
<1>8. ASSUME NEW p \in Stages PROVE Counts(p)' /\ Syncs(p)'
  BY <1>1, UntouchedStage DEF Inv, Deliver, passes
<1>. QED  BY <1>1, <1>7, <1>8, LayoutStays DEF Inv

LEMMA InvNext == Inv /\ [Next]_vars => Inv'
<1>. SUFFICES ASSUME Inv, [Next]_vars PROVE Inv'
  OBVIOUS
<1>1. ASSUME NEW r \in Stages, Step(r) PROVE Inv'
  <2>1. TypeOK'
    BY <1>1, TypeStep
  <2>2. layout' = layout
    BY <1>1 DEF Step, WarmupReceive, WarmupForward, WarmupSave, EnterSteady, SkipSteady,
                SteadyForward, SteadyBackward, SteadyReceive, EndSteady, CooldownReceive,
                CooldownBackward, Finish
  <2>3. ASSUME NEW q \in Stages PROVE Counts(q)' /\ Syncs(q)'
    <3>1. CASE q = r
      BY <1>1, <3>1, CountsStep
    <3>2. CASE q # r
      <4>1. /\ stage'[q] = stage[q] /\ forwards'[q] = forwards[q]
            /\ backwards'[q] = backwards[q] /\ reductions'[q] = reductions[q]
        BY <1>1, <2>3, <3>2, OthersAlone DEF Inv
      <4>. QED  BY <2>2, <2>3, <4>1, UntouchedStage DEF Inv
    <3>. QED  BY <3>1, <3>2
  <2>. QED  BY <2>1, <2>2, <2>3, LayoutStays DEF Inv
<1>2. ASSUME NEW r \in Stages, NEW q \in Stages, Deliver(r, q) PROVE Inv'
  BY <1>2, DeliverStep
<1>3. CASE UNCHANGED vars
  <2>1. TypeOK'
    BY <1>3, TypeAgain DEF Inv, TypeOK, vars, Arrivals
  <2>2. ASSUME NEW q \in Stages PROVE Counts(q)' /\ Syncs(q)'
    BY <1>3, UntouchedStage DEF Inv, vars
  <2>. QED  BY <1>3, <2>1, <2>2, LayoutStays DEF Inv, vars
<1>4. CASE Return
  BY <1>3, <1>4 DEF Return
<1>. QED  BY <1>1, <1>2, <1>3, <1>4 DEF Next

LEMMA Invariance == Spec => []Inv
BY InvInit, InvNext, PTL DEF Spec

\* The schedule never works on a microbatch that does not exist and never runs
\* out of saved tensors, for every number of stages and microbatches
\* (forward_backward_pipelining_without_interleaving).
THEOREM TypeCorrect == Spec => []TypeOK
<1>1. Inv => TypeOK
  BY DEF Inv
<1>. QED  BY <1>1, Invariance, PTL

\* Stage r keeps the activations of at most P - r microbatches, however many
\* there are: "max_outstanding_backprops = num_warmup_microbatches + 1".
THEOREM ActivationsBounded == Spec => []OutstandingBackprops
<1>1. Inv => OutstandingBackprops
  <2>. SUFFICES ASSUME Inv, NEW r \in Stages, ~layout.forward_only
                PROVE  Len(forwards[r]) - Len(backwards[r]) <= P - r
    BY DEF OutstandingBackprops
  <2>1. TypeOK /\ Counts(r) /\ layout \in Layouts
    BY DEF Inv, TypeOK
  <2>2. /\ stage[r].at \in Places /\ stage[r].i \in 0 .. M
        /\ Len(forwards[r]) \in Nat /\ Len(backwards[r]) \in Nat
    BY <2>1, LocalsType
  <2>3. /\ num_warmup_microbatches(r) \in Nat /\ num_warmup_microbatches(r) <= P - r - 1
        /\ num_warmup_microbatches(r) <= M
        /\ P \in Nat /\ M \in Nat /\ r \in Nat
    BY <2>1, WarmupRange, LayoutType DEF Stages
  <2>4. Len(forwards[r]) - Len(backwards[r]) <= num_warmup_microbatches(r) + 1
    <3>. DEFINE W == num_warmup_microbatches(r)
                f == Len(forwards[r])
                b == Len(backwards[r])
                k == stage[r].i
    <3>1. \/ f = k /\ b = 0 /\ k <= W
          \/ f = k + 1 /\ b = 0 /\ k < W
          \/ f = W + k /\ b = k
          \/ f = W + k + 1 /\ b = k
          \/ f = M /\ b = M - W + k
          \/ f = M /\ b = M
      BY <2>1, <2>2 DEF Counts, Places
    <3>2. W \in Nat /\ f \in Nat /\ b \in Nat /\ k \in Nat /\ M \in Nat
      BY <2>2, <2>3
    <3>. HIDE DEF W, f, b, k
    <3>3. f - b <= W + 1
      BY <3>1, <3>2
    <3>. QED  BY <3>3 DEF W, f, b
  <2>. DEFINE W == num_warmup_microbatches(r)
              f == Len(forwards[r])
              b == Len(backwards[r])
  <2>5. f - b <= W + 1 /\ W <= P - r - 1 /\ W \in Nat /\ f \in Nat /\ b \in Nat
    BY <2>2, <2>3, <2>4
  <2>. HIDE DEF W, f, b
  <2>6. f - b <= P - r
    BY <2>3, <2>5
  <2>. QED  BY <2>6 DEF f, b
<1>. QED  BY <1>1, Invariance, PTL

\* Every stage reduces its gradients once, after the backward passes of all
\* microbatches (no_sync_func, grad_sync_func), for every pipeline.
THEOREM GradientsReduced == Spec => []GradientsReducedOnce
<1>1. Inv => GradientsReducedOnce
  <2>. SUFFICES ASSUME Inv, NEW r \in Stages
                PROVE  /\ reductions[r] \in {<< >>, << M >>}
                       /\ stage[r].at = "done" /\ ~layout.forward_only => reductions[r] = << M >>
    BY DEF GradientsReducedOnce
  <2>1. TypeOK /\ Counts(r) /\ Syncs(r) /\ layout \in Layouts
    BY DEF Inv, TypeOK
  <2>2. stage[r].at \in Places /\ stage[r].i \in 0 .. M /\ num_warmup_microbatches(r) \in Nat
    BY <2>1, LocalsType, WarmupRange
  <2>3. M \in Nat /\ layout.forward_only \in BOOLEAN
    BY <2>1, LayoutType
  <2>. QED  BY <2>1, <2>2, <2>3 DEF Counts, Syncs
<1>. QED  BY <1>1, Invariance, PTL
=============================================================================

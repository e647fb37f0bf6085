------------------------- MODULE InferenceCoordinator -------------------------
(***************************************************************************)
(* The service around the dynamic inference engines of Megatron-LM: one    *)
(* InferenceClient, the DataParallelInferenceCoordinator and the loops of  *)
(* the engines (run_engine_with_coordinator), one engine per data parallel *)
(* rank.  They exchange messages over ZMQ sockets, each connection in      *)
(* order.  The engines of an expert parallel group must take every step    *)
(* together; an all-reduce of "who has work" decides in every turn of the  *)
(* loop whether they do.                                                   *)
(*                                                                         *)
(* What an engine does with its requests is DynamicInference; here it has  *)
(* some that wait and some in its context, and a step ends any of them.    *)
(***************************************************************************)
EXTENDS Integers, Sequences, FiniteSets, SequencesExt

CONSTANTS
  Engines,      \* a sequence: the engines in the order they registered
  MaxRequests,  \* bound: requests of the client
  Setups        \* see SetupType

Names == ToSet(Engines)
Requests == 1 .. MaxRequests

\* What the client's program calls, and what it awaits.
Calls == {"submit", "pause", "unpause", "suspend", "resume", "stop"}
Awaits == {"replies", "paused", "stopped"}

SetupType ==
  [ groups  : SUBSET SUBSET Names,       \* the expert parallel groups
    program : Seq(Calls \cup Awaits) ]   \* of the client

ASSUME CoordinatorAssumption ==
  /\ Engines \in Seq(Names) /\ Engines # << >> /\ IsInjective(Engines)
  /\ "client" \notin Names
  /\ MaxRequests \in Nat
  /\ Setups \subseteq SetupType
  /\ \A s \in Setups : /\ UNION s.groups = Names
                       /\ \A g, h \in s.groups : g # h => g \cap h = {}

Headers == { "SUBMIT_REQUEST", "ENGINE_REPLY", "PAUSE", "PAUSE_ACK", "UNPAUSE",
             "SUSPEND", "RESUME", "STOP", "STOP_ACK" }

Message == [header : Headers, requests : SUBSET Requests]

Signal(h) == [header |-> h, requests |-> {}]

VARIABLES
  setup,
  client,     \* its program's position, what it sent and what it was told
  coord,      \* the coordinator
  engine,     \* engine[e]
  toCoord,    \* toCoord[x]: messages of x, the client or an engine
  toEngine,   \* toEngine[e]
  toClient

vars == << setup, client, coord, engine, toCoord, toEngine, toClient >>

ClientType ==
  [ at : Nat \ {0}, sent : Requests \cup {0}, replied : SUBSET Requests, paused : BOOLEAN, stopped : BOOLEAN ]

CoordType ==
  [ up        : {"up", "stopped", "failed"},
    next      : 1 .. Len(Engines),    \* data_parallel_rank_iterator
    pauseAcks : SUBSET Names,
    stopAcks  : SUBSET Names ]

\* "drain", "reduce" and "act" are the places of the engine's loop; "stopped"
\* when it has left the loop and "failed" when an exception ended it.
EngineType ==
  [ pc            : {"drain", "reduce", "act", "stopped", "failed"},
    waiting       : SUBSET Requests,    \* waiting_request_ids
    active        : SUBSET Requests,    \* the requests the context counts
    resuming      : SUBSET Requests,    \* resume_request_ids
    receivedPause : BOOLEAN,
    receivedStop  : BOOLEAN,
    paused        : BOOLEAN,
    stopped       : BOOLEAN,
    suspendSignal : BOOLEAN,
    isSuspended   : BOOLEAN,
    groupWork     : BOOLEAN ]           \* ep_group_has_work

TypeOK ==
  /\ setup \in Setups
  /\ client \in ClientType
  /\ coord \in CoordType
  /\ engine \in [Names -> EngineType]
  /\ toCoord \in [Names \cup {"client"} -> Seq(Message)]
  /\ toEngine \in [Names -> Seq(Message)]
  /\ toClient \in Seq(Message)

Init ==
  /\ setup \in Setups
  /\ client = [at |-> 1, sent |-> 0, replied |-> {}, paused |-> FALSE, stopped |-> FALSE]
  /\ coord = [up |-> "up", next |-> 1, pauseAcks |-> {}, stopAcks |-> {}]
  /\ engine = [e \in Names |->
                [ pc |-> "drain", waiting |-> {}, active |-> {}, resuming |-> {},
                  receivedPause |-> FALSE, receivedStop |-> FALSE, paused |-> FALSE,
                  stopped |-> FALSE, suspendSignal |-> FALSE, isSuspended |-> FALSE,
                  groupWork |-> FALSE ]]
  /\ toCoord = [x \in Names \cup {"client"} |-> << >>]
  /\ toEngine = [e \in Names |-> << >>]
  /\ toClient = << >>

-----------------------------------------------------------------------------
(* The client                                                              *)

\* The program's next call or await.
Call == IF client.at <= Len(setup.program) THEN setup.program[client.at] ELSE "end"

\* The messages of a call.
SentBy(call) ==
  CASE call = "submit"  -> << [header |-> "SUBMIT_REQUEST", requests |-> {client.sent + 1}] >>
    [] call = "pause"   -> << Signal("PAUSE") >>
    [] call = "unpause" -> << Signal("UNPAUSE") >>
    [] call = "suspend" -> << Signal("PAUSE"), Signal("SUSPEND") >>
    [] call = "resume"  -> << Signal("RESUME"), Signal("UNPAUSE") >>
    [] call = "stop"    -> << Signal("STOP") >>

ClientCall ==
  /\ Call \in Calls
  /\ Call = "submit" => client.sent < MaxRequests
  /\ client' = [client EXCEPT !.at = @ + 1,
                              !.sent = IF Call = "submit" THEN @ + 1 ELSE @,
                              !.paused = Call # "unpause" /\ @]
  /\ toCoord' = [toCoord EXCEPT !["client"] = @ \o SentBy(Call)]
  /\ UNCHANGED << setup, coord, engine, toEngine, toClient >>

\* The program goes on when what it awaits has come.
ClientAwait ==
  /\ \/ Call = "replies" /\ client.replied = 1 .. client.sent
     \/ Call = "paused" /\ client.paused
     \/ Call = "stopped" /\ client.stopped
  /\ client' = [client EXCEPT !.at = @ + 1]
  /\ UNCHANGED << setup, coord, engine, toCoord, toEngine, toClient >>

\* _recv_task
ClientReceive ==
  /\ toClient # << >>
  /\ toClient' = Tail(toClient)
  /\ LET m == Head(toClient)
     IN  client' = [client EXCEPT !.replied = @ \cup m.requests,
                                  !.paused  = @ \/ m.header = "PAUSE_ACK",
                                  !.stopped = @ \/ m.header = "STOP_ACK"]
  /\ UNCHANGED << setup, coord, engine, toCoord, toEngine >>

-----------------------------------------------------------------------------
(* The coordinator: one message of the client or an engine at a time.      *)

ToEveryEngine(h) == [e \in Names |-> Append(toEngine[e], Signal(h))]

\* A request goes to the engines in turn.
RouteRequest(m) ==
  /\ m.header = "SUBMIT_REQUEST"
  /\ toEngine' = [toEngine EXCEPT ![Engines[coord.next]] = Append(@, m)]
  /\ coord' = [coord EXCEPT !.next = (@ % Len(Engines)) + 1]
  /\ UNCHANGED toClient

\* A control signal goes to all engines.
Broadcast(m) ==
  /\ m.header \in {"PAUSE", "UNPAUSE", "SUSPEND", "RESUME", "STOP"}
  /\ toEngine' = ToEveryEngine(m.header)
  /\ coord' = [coord EXCEPT !.pauseAcks = IF m.header = "UNPAUSE" THEN {} ELSE @]
  /\ UNCHANGED toClient

\* The acknowledgements of all engines are passed on to everybody.
CollectPauseAck(x, m) ==
  /\ m.header = "PAUSE_ACK"
  /\ IF x \in coord.pauseAcks
     THEN coord' = [coord EXCEPT !.up = "failed"] /\ UNCHANGED << toEngine, toClient >>
     ELSE /\ coord' = [coord EXCEPT !.pauseAcks = @ \cup {x}]
          /\ IF coord.pauseAcks \cup {x} = Names
             THEN toEngine' = ToEveryEngine("PAUSE_ACK") /\ toClient' = Append(toClient, m)
             ELSE UNCHANGED << toEngine, toClient >>

BreakBeforeStopAcks(x, m) ==  \* mutated form of the next definition
  /\ m.header = "STOP_ACK"
  /\ LET all == coord.stopAcks \cup {x} = Names
     IN  /\ coord' = [coord EXCEPT !.stopAcks = @ \cup {x}, !.up = IF all THEN "stopped" ELSE @]
         /\ toClient' = IF all THEN Append(toClient, m) ELSE toClient
  /\ UNCHANGED toEngine

CollectStopAck(x, m) ==
  /\ m.header = "STOP_ACK"
  /\ IF x \in coord.stopAcks
     THEN coord' = [coord EXCEPT !.up = "failed"] /\ UNCHANGED << toEngine, toClient >>
     ELSE LET all == coord.stopAcks \cup {x} = Names
          IN  /\ coord' = [coord EXCEPT !.stopAcks = @ \cup {x}, !.up = IF all THEN "stopped" ELSE @]
              /\ IF all
                 THEN toEngine' = ToEveryEngine("STOP_ACK") /\ toClient' = Append(toClient, m)
                 ELSE UNCHANGED << toEngine, toClient >>

\* The records of finished requests go to the client.
ForwardReply(m) ==
  /\ m.header = "ENGINE_REPLY"
  /\ toClient' = Append(toClient, m)
  /\ UNCHANGED << coord, toEngine >>

Coordinate(x) ==
  /\ coord.up = "up"
  /\ toCoord[x] # << >>
  /\ toCoord' = [toCoord EXCEPT ![x] = Tail(@)]
  /\ LET m == Head(toCoord[x])
     IN  \/ RouteRequest(m)
         \/ Broadcast(m)
         \/ CollectPauseAck(x, m)
         \/ CollectStopAck(x, m)
         \/ ForwardReply(m)
  /\ UNCHANGED << setup, client, engine >>

-----------------------------------------------------------------------------
(* The engines                                                             *)

\* What schedule_requests does with one message: r.engine is the engine, r.out
\* the answers it has sent.
Handled(r, m) ==
  IF r.engine.pc = "failed" THEN r
  ELSE IF r.engine.receivedStop /\ m.header # "STOP_ACK" THEN [r EXCEPT !.engine.pc = "failed"]
  ELSE CASE m.header = "SUBMIT_REQUEST" -> [r EXCEPT !.engine.waiting = @ \cup m.requests]
         [] m.header = "PAUSE" -> [r EXCEPT !.engine.receivedPause = TRUE,
                                            !.out = Append(@, Signal("PAUSE_ACK"))]
         [] m.header = "PAUSE_ACK" -> [r EXCEPT !.engine.paused = TRUE,
                                                !.engine.receivedPause = FALSE]
         [] m.header = "UNPAUSE" -> [r EXCEPT !.engine.paused = FALSE]
         [] m.header = "SUSPEND" -> [r EXCEPT !.engine.suspendSignal = TRUE]
         [] m.header = "RESUME" -> [r EXCEPT !.engine.suspendSignal = FALSE]
         [] m.header = "STOP" -> [r EXCEPT !.engine.receivedStop = TRUE,
                                           !.out = Append(@, Signal("STOP_ACK"))]
         [] m.header = "STOP_ACK" -> [r EXCEPT !.engine.stopped = TRUE,
                                               !.engine.receivedStop = FALSE]

\* All messages of q, one after the other.
HandledAll(s, q) ==
  LET after[n \in 0 .. Len(q)] ==
        IF n = 0 THEN [engine |-> s, out |-> << >>] ELSE Handled(after[n - 1], q[n])
  IN  after[Len(q)]

\* schedule_requests: all messages that have come, in one go.
Drain(e) ==
  /\ engine[e].pc = "drain"
  /\ LET r == HandledAll(engine[e], toEngine[e])
     IN  /\ engine' = [engine EXCEPT ![e] = [r.engine EXCEPT !.pc = IF @ = "failed" THEN @ ELSE "reduce"]]
         /\ toCoord' = [toCoord EXCEPT ![e] = @ \o r.out]
  /\ toEngine' = [toEngine EXCEPT ![e] = << >>]
  /\ UNCHANGED << setup, client, coord, toClient >>

PendingInContext(e) == engine[e].active  \* mutated form of the next definition

\* local_pending_requests
Pending(e) == engine[e].active \cup engine[e].waiting

ClaimsWorkWhenPaused(e) ==  \* mutated form of the next definition
  /\ Pending(e) # {}
  /\ ~(engine[e].stopped \/ engine[e].receivedStop)
  /\ ~engine[e].receivedPause
  /\ ~engine[e].suspendSignal

\* _ep_group_has_work: an engine that obeys a signal claims to have no work.
ClaimsWork(e) ==
  /\ Pending(e) # {}
  /\ ~(engine[e].stopped \/ engine[e].receivedStop)
  /\ ~(engine[e].paused \/ engine[e].receivedPause)
  /\ ~engine[e].suspendSignal

\* The all-reduce needs all engines of the group; alone there is none.
Reduce(g) ==
  /\ \A e \in g : engine[e].pc = "reduce"
  /\ engine' = [e \in Names |->
                  IF e \in g THEN [engine[e] EXCEPT !.pc = "act", !.groupWork = \E f \in g : ClaimsWork(f)]
                  ELSE engine[e]]
  /\ UNCHANGED << setup, client, coord, toCoord, toEngine, toClient >>

\* The group has work: a step, or a dummy step for an engine with none.  The
\* step of a suspended engine raises EngineSuspendedError.
Step(e, done) ==
  /\ engine[e].pc = "act"
  /\ engine[e].groupWork
  /\ IF Pending(e) = {}
     THEN done = {} /\ engine' = [engine EXCEPT ![e].pc = "drain"] /\ UNCHANGED toCoord
     ELSE IF engine[e].isSuspended
     THEN done = {} /\ engine' = [engine EXCEPT ![e].pc = "failed"] /\ UNCHANGED toCoord
     ELSE /\ engine' = [engine EXCEPT ![e] = [@ EXCEPT !.pc = "drain",
                                                       !.active = Pending(e) \ done,
                                                       !.waiting = {}]]
          /\ toCoord' = [toCoord EXCEPT ![e] =
               IF done = {} THEN @ ELSE Append(@, [header |-> "ENGINE_REPLY", requests |-> done])]
  /\ UNCHANGED << setup, client, coord, toEngine, toClient >>

\* suspend leaves the counts of the context as they are, resume resets them.
Suspended(s) ==
  IF s.isSuspended THEN s
  ELSE [s EXCEPT !.isSuspended = TRUE, !.resuming = s.active \cup s.waiting, !.waiting = {}]

Resumed(s) ==
  IF ~s.isSuspended THEN s
  ELSE [s EXCEPT !.isSuspended = FALSE, !.active = {}, !.waiting = @ \cup s.resuming]

\* The group has no work: the engine looks at its signals.
Obey(e) ==
  /\ engine[e].pc = "act"
  /\ ~engine[e].groupWork
  /\ engine' = [engine EXCEPT ![e] =
       IF @.stopped THEN [@ EXCEPT !.pc = "stopped"]
       ELSE [IF @.suspendSignal THEN Suspended(@) ELSE Resumed(@) EXCEPT !.pc = "drain"]]
  /\ UNCHANGED << setup, client, coord, toCoord, toEngine, toClient >>

Next ==
  \/ ClientCall
  \/ ClientAwait
  \/ ClientReceive
  \/ \E x \in Names \cup {"client"} : Coordinate(x)
  \/ \E e \in Names : Drain(e) \/ Obey(e) \/ \E done \in SUBSET Pending(e) : Step(e, done)
  \/ \E g \in setup.groups : Reduce(g)

Spec == Init /\ [][Next]_vars

\* The client, the coordinator and the loops of the engines go on.  A step
\* generates a token for every request of the context, so that steps go on
\* ending requests: DynamicInference.
Fairness ==
  /\ WF_vars(ClientCall) /\ WF_vars(ClientAwait) /\ WF_vars(ClientReceive)
  /\ \A x \in Names \cup {"client"} : WF_vars(Coordinate(x))
  /\ \A e \in Names : /\ WF_vars(Drain(e)) /\ WF_vars(Obey(e))
                      /\ WF_vars(\E done \in SUBSET Pending(e) : Step(e, done))
                      /\ SF_vars(\E done \in SUBSET Pending(e) \ {{}} : Step(e, done))
  /\ \A g \in SUBSET Names : WF_vars(g \in setup.groups /\ Reduce(g))

FairSpec == Spec /\ Fairness

-----------------------------------------------------------------------------
(* Properties                                                              *)

\* Once all engines of an expert parallel group have seen the client's pause
\* acknowledged, none of them takes a step until one is unpaused, although the
\* acknowledgements reach them one by one and in the middle of their loops
\* (_ep_group_has_work).
PausedGroupRests ==
  \A g \in setup.groups :
    (\A e \in g : engine[e].paused) => \A e \in g : ~(engine[e].pc = "act" /\ engine[e].groupWork)

\* Every engine survives what a careful client does, and so does the coordinator:
\* no acknowledgement comes twice, nothing but STOP_ACK follows STOP, and no
\* suspended engine is stepped (schedule_requests, async_forward, start).
NobodyFails ==
  /\ coord.up # "failed"
  /\ \A e \in Names : engine[e].pc # "failed"

\* "A future that will be resolved with a DynamicInferenceRequestRecord object
\* containing the completed result" (InferenceClient.add_request), whatever pauses
\* come before it and after it, if the client ends a pause only when it has been
\* acknowledged.  It is not so for suspensions: an engine that finds the messages of
\* resume_engines and has a request, old or new, is stepped before it resumes, and
\* raises EngineSuspendedError.  Only a suspension without a request after its
\* beginning leaves the property true.
RequestsServed == \A r \in Requests : client.sent >= r ~> r \in client.replied

\* When the client has been told that all engines have stopped, they all leave
\* their loops: "When all ranks receive the signal, global work will be zero, and
\* we can process the signal safely" (_ep_group_has_work).
EnginesStop == client.stopped ~> \A e \in Names : engine[e].pc = "stopped"
=============================================================================

---------------------- MODULE InferenceCoordinatorProofs ----------------------
(* Type correctness of InferenceCoordinator, and PausedGroupRests for every *)
(* client that awaits the acknowledgement of a pause before it revokes it.   *)
EXTENDS InferenceCoordinator, SequenceTheorems, WellFoundedInduction, TLAPS

\* h is among the headers of q; k comes after h in q.
Has(q, h) == \E i \in DOMAIN q : q[i].header = h
Follows(q, h, k) == \E i, j \in DOMAIN q : i < j /\ q[i].header = h /\ q[j].header = k

-----------------------------------------------------------------------------
(* The careful client                                                      *)

Pauses == {"pause", "suspend"}       \* the calls that send PAUSE
Revocations == {"unpause", "resume"} \* the calls that send UNPAUSE

\* No "unpause", which alone clears the client's event, from i to before j.
Standing(p, i, j) == \A k \in (i + 1) .. (j - 1) : p[k] # "unpause"

\* Two pauses have an "unpause" between them, a pause and a later revocation
\* an await of the pause.
Careful(p) ==
  \A i, j \in DOMAIN p :
    i < j /\ p[i] \in Pauses =>
      /\ p[j] \in Pauses => ~Standing(p, i, j)
      /\ p[j] \in Revocations => \E k \in (i + 1) .. (j - 1) : p[k] = "paused"

ClientsAreCareful == \A s \in Setups : Careful(s.program)

-----------------------------------------------------------------------------
(* The inductive invariant                                                 *)

FromClient == {"SUBMIT_REQUEST", "PAUSE", "UNPAUSE", "SUSPEND", "RESUME", "STOP"}
FromEngine == {"ENGINE_REPLY", "PAUSE_ACK", "STOP_ACK"}

\* Who sends what.
Routes ==
  /\ \A h \in Headers \ FromClient : ~Has(toCoord["client"], h)
  /\ \A e \in Names : /\ \A h \in Headers \ FromEngine : ~Has(toCoord[e], h)
                      /\ ~Has(toEngine[e], "ENGINE_REPLY")

TypeInv == TypeOK /\ Routes

\* An engine acknowledges a pause once, and goes on obeying it until it hears
\* that all have.
Acknowledgements(e) ==
  /\ ~Follows(toEngine[e], "PAUSE", "PAUSE")
  /\ ~Follows(toEngine[e], "PAUSE", "PAUSE_ACK")
  /\ ~Follows(toCoord[e], "PAUSE_ACK", "PAUSE_ACK")
  /\ Has(toEngine[e], "PAUSE_ACK") => engine[e].receivedPause
  /\ Has(toCoord[e], "PAUSE_ACK") =>
       /\ engine[e].receivedPause
       /\ e \notin coord.pauseAcks
       /\ ~Has(toEngine[e], "PAUSE_ACK")
       /\ ~Has(toEngine[e], "PAUSE")
  /\ e \in coord.pauseAcks => ~Has(toEngine[e], "PAUSE")
  /\ e \in coord.pauseAcks /\ coord.pauseAcks # Names =>
       engine[e].receivedPause /\ ~Has(toEngine[e], "PAUSE_ACK")

\* No pause is under way at the engines and the coordinator.
Calm ==
  /\ \A e \in Names : ~Has(toCoord[e], "PAUSE_ACK") /\ ~Has(toEngine[e], "PAUSE")
  /\ coord.pauseAcks \in {{}, Names}

\* The client has called for a pause and not since revoked it for its own event.
Asked == \E i \in DOMAIN setup.program :
           i < client.at /\ setup.program[i] \in Pauses /\ Standing(setup.program, i, client.at)

\* What the client has been told, or is about to be.
Told == client.paused \/ Has(toClient, "PAUSE_ACK")

\* The client's pauses, one after the other.
Rounds ==
  LET c == toCoord["client"]
  IN  /\ ~Follows(c, "PAUSE", "PAUSE") /\ ~Follows(c, "PAUSE", "UNPAUSE")
      /\ Has(c, "PAUSE") \/ Has(c, "UNPAUSE") => Calm
      /\ Has(c, "PAUSE") => coord.pauseAcks = {} \/ Has(c, "UNPAUSE")
      /\ ~Asked => ~Told /\ Calm /\ ~Has(c, "PAUSE") /\ (coord.pauseAcks = {} \/ Has(c, "UNPAUSE"))
      /\ Asked /\ ~Told => Has(c, "PAUSE") \/ (~Has(c, "UNPAUSE") /\ coord.pauseAcks # Names)
      /\ Told => Calm /\ ~Has(c, "PAUSE")
      /\ ~(client.paused /\ Has(toClient, "PAUSE_ACK"))
      /\ ~Follows(toClient, "PAUSE_ACK", "PAUSE_ACK")

\* An await of a pause that still stands has been answered.
Awaited ==
  \A i, k \in DOMAIN setup.program :
    /\ i < k /\ k < client.at
    /\ setup.program[i] \in Pauses /\ setup.program[k] = "paused"
    /\ Standing(setup.program, i, client.at)
    => client.paused

\* An engine that the next acknowledgement does not pause.
Awake(e) == ~engine[e].paused /\ (engine[e].pc \in {"act", "drain"} => ~engine[e].receivedPause)

\* The group acts on an all-reduce for as long as one of it is awake.
GroupsAwake ==
  \A g \in setup.groups :
    (\E e \in g : engine[e].pc = "act" /\ engine[e].groupWork) => \E e \in g : Awake(e)

IInv == TypeInv /\ (\A e \in Names : Acknowledgements(e)) /\ Rounds /\ Awaited /\ GroupsAwake

-----------------------------------------------------------------------------
(* Headers in sequences                                                    *)

LEMMA HasAppend ==
  ASSUME NEW S, NEW q \in Seq(S), NEW m \in S, NEW h, NEW k
  PROVE  /\ Has(Append(q, m), h) <=> Has(q, h) \/ m.header = h
         /\ Follows(Append(q, m), h, k) <=> Follows(q, h, k) \/ (Has(q, h) /\ m.header = k)
<1>. DEFINE r == Append(q, m)
<1>1. /\ Len(q) \in Nat /\ DOMAIN q = 1 .. Len(q)
      /\ DOMAIN r = 1 .. (Len(q) + 1)
      /\ r[Len(q) + 1] = m
      /\ \A i \in 1 .. Len(q) : r[i] = q[i]
  OBVIOUS
<1>. HIDE DEF r
<1>2. Has(r, h) <=> Has(q, h) \/ m.header = h
  <2>1. ASSUME Has(r, h) PROVE Has(q, h) \/ m.header = h
    BY <1>1, <2>1 DEF Has
  <2>2. ASSUME Has(q, h) PROVE Has(r, h)
    BY <1>1, <2>2 DEF Has
  <2>3. ASSUME m.header = h PROVE Has(r, h)
    <3>1. Len(q) + 1 \in DOMAIN r
      BY <1>1
    <3>. QED  BY <1>1, <2>3, <3>1 DEF Has
  <2>. QED  BY <2>1, <2>2, <2>3
<1>3. Follows(r, h, k) <=> Follows(q, h, k) \/ (Has(q, h) /\ m.header = k)
  <2>1. ASSUME Follows(r, h, k) PROVE Follows(q, h, k) \/ (Has(q, h) /\ m.header = k)
    <3>1. PICK i, j \in DOMAIN r : i < j /\ r[i].header = h /\ r[j].header = k
      BY <2>1 DEF Follows
    <3>2. i \in DOMAIN q /\ q[i] = r[i]
      BY <1>1, <3>1
    <3>3. CASE j \in DOMAIN q
      BY <1>1, <3>1, <3>2, <3>3 DEF Follows
    <3>4. CASE j = Len(q) + 1
      BY <1>1, <3>1, <3>2, <3>4 DEF Has
    <3>. QED  BY <1>1, <3>1, <3>3, <3>4
  <2>2. ASSUME Follows(q, h, k) PROVE Follows(r, h, k)
    <3>1. PICK i, j \in DOMAIN q : i < j /\ q[i].header = h /\ q[j].header = k
      BY <2>2 DEF Follows
    <3>2. i \in DOMAIN r /\ j \in DOMAIN r /\ r[i] = q[i] /\ r[j] = q[j]
      BY <1>1, <3>1
    <3>. QED  BY <3>1, <3>2 DEF Follows
  <2>3. ASSUME Has(q, h), m.header = k PROVE Follows(r, h, k)
    <3>1. PICK i \in DOMAIN q : q[i].header = h
      BY <2>3 DEF Has
    <3>2. i \in DOMAIN r /\ r[i] = q[i] /\ Len(q) + 1 \in DOMAIN r /\ i < Len(q) + 1
      BY <1>1, <3>1
    <3>. QED  BY <1>1, <2>3, <3>1, <3>2 DEF Follows
  <2>. QED  BY <2>1, <2>2, <2>3
<1>. QED  BY <1>2, <1>3 DEF r

LEMMA HasTail ==
  ASSUME NEW S, NEW q \in Seq(S), q # << >>, NEW h, NEW k
  PROVE  /\ Has(q, h) <=> Head(q).header = h \/ Has(Tail(q), h)
         /\ Follows(q, h, k) <=> Follows(Tail(q), h, k) \/ (Head(q).header = h /\ Has(Tail(q), k))
<1>. DEFINE r == Tail(q)
<1>1. /\ Len(q) \in Nat \ {0} /\ DOMAIN q = 1 .. Len(q)
      /\ r \in Seq(S) /\ DOMAIN r = 1 .. (Len(q) - 1)
      /\ \A i \in 1 .. (Len(q) - 1) : r[i] = q[i + 1]
      /\ Head(q) = q[1]
  BY HeadTailProperties, EmptySeq
<1>. HIDE DEF r
<1>2. \A i \in DOMAIN r : i + 1 \in DOMAIN q /\ q[i + 1] = r[i] /\ i + 1 # 1
  BY <1>1
<1>3. \A i \in DOMAIN q : i # 1 => i - 1 \in DOMAIN r /\ r[i - 1] = q[i]
  BY <1>1
<1>4. 1 \in DOMAIN q /\ DOMAIN r \subseteq Int /\ DOMAIN q \subseteq Int /\ (\A i \in DOMAIN q : i # 1 => 1 < i)
  BY <1>1
<1>5. Has(q, h) <=> Head(q).header = h \/ Has(r, h)
  BY <1>1, <1>2, <1>3, <1>4 DEF Has
<1>6. ASSUME Follows(q, h, k) PROVE Follows(r, h, k) \/ (Head(q).header = h /\ Has(r, k))
  <2>1. PICK i, j \in DOMAIN q : i < j /\ q[i].header = h /\ q[j].header = k
    BY <1>6 DEF Follows
  <2>2. j - 1 \in DOMAIN r /\ r[j - 1] = q[j]
    BY <1>3, <1>4, <2>1
  <2>3. CASE i = 1
    BY <1>1, <2>1, <2>2, <2>3 DEF Has
  <2>4. CASE i # 1
    <3>1. i - 1 \in DOMAIN r /\ r[i - 1] = q[i] /\ i - 1 < j - 1
      BY <1>3, <1>4, <2>1, <2>4
    <3>. QED  BY <2>1, <2>2, <3>1 DEF Follows
  <2>. QED  BY <2>3, <2>4
<1>7. ASSUME Follows(r, h, k) PROVE Follows(q, h, k)
  <2>1. PICK i, j \in DOMAIN r : i < j /\ r[i].header = h /\ r[j].header = k
    BY <1>7 DEF Follows
  <2>2. i + 1 \in DOMAIN q /\ q[i + 1] = r[i] /\ j + 1 \in DOMAIN q /\ q[j + 1] = r[j] /\ i + 1 < j + 1
    BY <1>2, <1>4, <2>1
  <2>. QED  BY <2>1, <2>2 DEF Follows
<1>8. ASSUME Head(q).header = h, Has(r, k) PROVE Follows(q, h, k)
  <2>1. PICK j \in DOMAIN r : r[j].header = k
    BY <1>8 DEF Has
  <2>2. j + 1 \in DOMAIN q /\ q[j + 1] = r[j] /\ 1 < j + 1
    BY <1>2, <1>4, <2>1
  <2>. QED  BY <1>1, <1>4, <1>8, <2>1, <2>2 DEF Follows
<1>. QED  BY <1>5, <1>6, <1>7, <1>8 DEF r

LEMMA HasConcat ==
  ASSUME NEW S, NEW q \in Seq(S), NEW r \in Seq(S), NEW h, NEW k
  PROVE  /\ Has(q \o r, h) <=> Has(q, h) \/ Has(r, h)
         /\ Follows(q \o r, h, k) => Follows(q, h, k) \/ Follows(r, h, k) \/ (Has(q, h) /\ Has(r, k))
<1>. DEFINE c == q \o r
<1>1. /\ Len(q) \in Nat /\ DOMAIN q = 1 .. Len(q)
      /\ Len(r) \in Nat /\ DOMAIN r = 1 .. Len(r)
      /\ DOMAIN c = 1 .. (Len(q) + Len(r))
      /\ \A i \in 1 .. (Len(q) + Len(r)) : c[i] = IF i <= Len(q) THEN q[i] ELSE r[i - Len(q)]
  BY ConcatProperties, LenProperties
<1>. HIDE DEF c
<1>2. \A i \in DOMAIN q : i \in DOMAIN c /\ c[i] = q[i]
  BY <1>1
<1>3. \A i \in DOMAIN r : i + Len(q) \in DOMAIN c /\ c[i + Len(q)] = r[i]
  BY <1>1
<1>4. \A i \in DOMAIN c : \/ i \in DOMAIN q /\ c[i] = q[i] /\ i <= Len(q)
                          \/ i - Len(q) \in DOMAIN r /\ c[i] = r[i - Len(q)] /\ i > Len(q)
  BY <1>1
<1>5. Has(c, h) <=> Has(q, h) \/ Has(r, h)
  BY <1>2, <1>3, <1>4 DEF Has
<1>6. ASSUME Follows(c, h, k)
      PROVE  Follows(q, h, k) \/ Follows(r, h, k) \/ (Has(q, h) /\ Has(r, k))
  <2>1. PICK i, j \in DOMAIN c : i < j /\ c[i].header = h /\ c[j].header = k
    BY <1>6 DEF Follows
  <2>2. DOMAIN c \subseteq Int
    BY <1>1
  <2>3. CASE i > Len(q)
    <3>1. /\ i - Len(q) \in DOMAIN r /\ c[i] = r[i - Len(q)]
          /\ j - Len(q) \in DOMAIN r /\ c[j] = r[j - Len(q)]
          /\ i - Len(q) < j - Len(q)
      BY <1>1, <1>4, <2>1, <2>2, <2>3
    <3>. QED  BY <2>1, <3>1 DEF Follows
  <2>4. CASE j <= Len(q)
    <3>1. i \in DOMAIN q /\ c[i] = q[i] /\ j \in DOMAIN q /\ c[j] = q[j]
      BY <1>1, <1>4, <2>1, <2>2, <2>4
    <3>. QED  BY <2>1, <3>1 DEF Follows
  <2>5. CASE i <= Len(q) /\ j > Len(q)
    <3>1. i \in DOMAIN q /\ c[i] = q[i] /\ j - Len(q) \in DOMAIN r /\ c[j] = r[j - Len(q)]
      BY <1>1, <1>4, <2>1, <2>2, <2>5
    <3>. QED  BY <2>1, <3>1 DEF Has
  <2>. QED  BY <1>1, <2>2, <2>3, <2>4, <2>5
<1>. QED  BY <1>5, <1>6 DEF c

LEMMA HasNone ==
  ASSUME NEW h, NEW k
  PROVE  ~Has(<< >>, h) /\ ~Follows(<< >>, h, k)
BY DEF Has, Follows

LEMMA FollowsHas ==
  ASSUME NEW q, NEW h, NEW k, Follows(q, h, k)
  PROVE  Has(q, h) /\ Has(q, k)
BY DEF Has, Follows

-----------------------------------------------------------------------------
(* schedule_requests                                                       *)

LEMMA Least ==
  ASSUME NEW T, T \subseteq Nat, T # {}
  PROVE  \E n \in T : \A m \in T : n <= m
<1>1. IsWellFoundedOn(OpToRel(<, Nat), Nat)
  BY NatLessThanWellFounded
<1>2. PICK n \in T : \A m \in T : ~ (<< m, n >> \in OpToRel(<, Nat))
  BY <1>1, WFMin
<1>3. \A m \in T : << m, n >> \in Nat \X Nat /\ (m < n => << m, n >> \in OpToRel(<, Nat))
  BY DEF OpToRel
<1>4. \A m \in T : ~ (m < n)
  BY <1>2, <1>3
<1>. QED  BY <1>4

LEMMA Induction ==
  ASSUME NEW T, 0 \in T, \A n \in Nat : n \in T => n + 1 \in T
  PROVE  Nat \subseteq T
<1>1. SUFFICES ASSUME Nat \ T # {} PROVE FALSE
  OBVIOUS
<1>2. PICK n \in Nat \ T : \A m \in Nat \ T : n <= m
  BY Least, <1>1
<1>3. n # 0 /\ n - 1 \in Nat
  BY <1>2
<1>4. n - 1 \in T
  BY <1>2, <1>3
<1>. QED  BY <1>2, <1>3, <1>4

\* The recursion of HandledAll defines a function.
LEMMA HandledAllExists ==
  ASSUME NEW s, NEW q, Len(q) \in Nat
  PROVE  \E after :
           /\ after = [n \in 0 .. Len(q) |->
                         IF n = 0 THEN [engine |-> s, out |-> << >>] ELSE Handled(after[n - 1], q[n])]
           /\ HandledAll(s, q) = after[Len(q)]
<1>. DEFINE Base == [engine |-> s, out |-> << >>]
            IsRun(f, l) == f = [n \in 0 .. l |-> IF n = 0 THEN Base ELSE Handled(f[n - 1], q[n])]
            T == {l \in Nat : \E f : IsRun(f, l)}
<1>. HIDE DEF Base
<1>1. 0 \in T
  <2>. DEFINE f == [n \in 0 .. 0 |-> Base]
  <2>1. IsRun(f, 0)
    OBVIOUS
  <2>. QED  BY <2>1
<1>2. ASSUME NEW l \in Nat, l \in T PROVE l + 1 \in T
  <2>1. PICK f : IsRun(f, l)
    BY <1>2
  <2>. DEFINE g == [n \in 0 .. (l + 1) |-> IF n = l + 1 THEN Handled(f[l], q[l + 1]) ELSE f[n]]
  <2>2. ASSUME NEW n \in 0 .. (l + 1)
        PROVE  g[n] = IF n = 0 THEN Base ELSE Handled(g[n - 1], q[n])
    <3>1. CASE n = l + 1
      <4>1. n # 0 /\ n - 1 = l /\ l \in 0 .. (l + 1) /\ l # l + 1
        BY <3>1
      <4>2. g[l] = f[l]
        BY <4>1
      <4>. QED  BY <3>1, <4>1, <4>2
    <3>2. CASE n # l + 1
      <4>1. n \in 0 .. l /\ g[n] = f[n]
        BY <3>2
      <4>2. f[n] = IF n = 0 THEN Base ELSE Handled(f[n - 1], q[n])
        BY <2>1, <4>1
      <4>3. n # 0 => n - 1 \in 0 .. (l + 1) /\ n - 1 # l + 1
        BY <4>1
      <4>4. n # 0 => g[n - 1] = f[n - 1]
        BY <4>3
      <4>. HIDE DEF g
      <4>. QED  BY <4>1, <4>2, <4>4
    <3>. QED  BY <3>1, <3>2
  <2>3. IsRun(g, l + 1)
    <3>1. g = [n \in 0 .. (l + 1) |-> g[n]]
      OBVIOUS
    <3>. HIDE DEF g
    <3>. QED  BY <2>2, <3>1
  <2>. HIDE DEF g
  <2>. QED  BY <2>3
<1>3. Len(q) \in T
  <2>. HIDE DEF T
  <2>. QED  BY <1>1, <1>2, Induction
<1>. DEFINE F == CHOOSE f : IsRun(f, Len(q))
<1>4. IsRun(F, Len(q))
  BY <1>3
<1>5. HandledAll(s, q) = F[Len(q)]
  BY DEF HandledAll, Base
<1>. HIDE DEF F
<1>. QED  BY <1>4, <1>5 DEF Base

\* The engine and the answers it has sent.
Turns == [engine : EngineType, out : Seq(Message)]

Answers == {"PAUSE_ACK", "STOP_ACK"}

LEMMA SignalType == ASSUME NEW h \in Headers PROVE Signal(h) \in Message /\ Signal(h).header = h
BY DEF Signal, Message

\* One message.
LEMMA HandledOne ==
  ASSUME NEW r \in Turns, NEW m \in Message, m.header # "ENGINE_REPLY"
  PROVE  LET t == Handled(r, m)
         IN  /\ t \in Turns
             /\ t.engine.pc \in {r.engine.pc, "failed"}
             /\ t.engine.groupWork = r.engine.groupWork
             /\ t.engine.paused => r.engine.paused \/ m.header = "PAUSE_ACK"
             /\ r.engine.receivedPause => t.engine.receivedPause \/ m.header = "PAUSE_ACK"
             /\ \/ t.out = r.out
                \/ t.out = Append(r.out, Signal("STOP_ACK"))
                \/ /\ t.out = Append(r.out, Signal("PAUSE_ACK"))
                   /\ m.header = "PAUSE" /\ t.engine.receivedPause
<1>1. r.engine \in EngineType /\ r.out \in Seq(Message) /\ m.header \in Headers /\ m.requests \subseteq Requests
  BY DEF Turns, Message
<1>2. CASE r.engine.pc = "failed"
  <2>1. Handled(r, m) = r
    BY <1>2 DEF Handled
  <2>. QED  BY <2>1
<1>3. CASE r.engine.pc # "failed" /\ r.engine.receivedStop /\ m.header # "STOP_ACK"
  <2>1. Handled(r, m) = [r EXCEPT !.engine.pc = "failed"]
    BY <1>3 DEF Handled
  <2>. QED  BY <1>1, <2>1 DEF Turns, EngineType
<1>4. CASE r.engine.pc # "failed" /\ ~(r.engine.receivedStop /\ m.header # "STOP_ACK")
  <2>1. CASE m.header = "SUBMIT_REQUEST"
    <3>. DEFINE x == [r.engine EXCEPT !.waiting = @ \cup m.requests]
    <3>1. x \in EngineType
      BY <1>1 DEF EngineType
    <3>2. /\ x.pc = r.engine.pc /\ x.groupWork = r.engine.groupWork
          /\ x.paused = r.engine.paused
          /\ x.receivedPause = r.engine.receivedPause
      BY <1>1 DEF EngineType
    <3>3. Handled(r, m) = [engine |-> x, out |-> r.out]
      BY <1>4, <2>1 DEF Handled, Turns
    <3>. HIDE DEF x
    <3>. QED  BY <1>1, <2>1, <3>1, <3>2, <3>3 DEF Turns
  <2>2. CASE m.header = "PAUSE"
    <3>. DEFINE x == [r.engine EXCEPT !.receivedPause = TRUE]
    <3>1. x \in EngineType
      BY <1>1 DEF EngineType
    <3>2. /\ x.pc = r.engine.pc /\ x.groupWork = r.engine.groupWork
          /\ x.paused = r.engine.paused
          /\ x.receivedPause = TRUE
      BY <1>1 DEF EngineType
    <3>3. Handled(r, m) = [engine |-> x, out |-> Append(r.out, Signal("PAUSE_ACK"))]
      BY <1>4, <2>2 DEF Handled, Turns
    <3>4. Append(r.out, Signal("PAUSE_ACK")) \in Seq(Message)
      BY <1>1, SignalType, AppendProperties DEF Headers
    <3>. HIDE DEF x
    <3>. QED  BY <1>1, <2>2, <3>1, <3>2, <3>3, <3>4 DEF Turns
  <2>3. CASE m.header = "PAUSE_ACK"
    <3>. DEFINE x == [r.engine EXCEPT !.paused = TRUE, !.receivedPause = FALSE]
    <3>1. x \in EngineType
      BY <1>1 DEF EngineType
    <3>2. /\ x.pc = r.engine.pc /\ x.groupWork = r.engine.groupWork
          /\ x.paused <=> TRUE
      BY <1>1 DEF EngineType
    <3>3. Handled(r, m) = [engine |-> x, out |-> r.out]
      BY <1>4, <2>3 DEF Handled, Turns
    <3>. HIDE DEF x
    <3>. QED  BY <1>1, <2>3, <3>1, <3>2, <3>3 DEF Turns
  <2>4. CASE m.header = "UNPAUSE"
    <3>. DEFINE x == [r.engine EXCEPT !.paused = FALSE]
    <3>1. x \in EngineType
      BY <1>1 DEF EngineType
    <3>2. /\ x.pc = r.engine.pc /\ x.groupWork = r.engine.groupWork
          /\ x.paused <=> FALSE
          /\ x.receivedPause = r.engine.receivedPause
      BY <1>1 DEF EngineType
    <3>3. Handled(r, m) = [engine |-> x, out |-> r.out]
      BY <1>4, <2>4 DEF Handled, Turns
    <3>. HIDE DEF x
    <3>. QED  BY <1>1, <2>4, <3>1, <3>2, <3>3 DEF Turns
  <2>5. CASE m.header = "SUSPEND"
    <3>. DEFINE x == [r.engine EXCEPT !.suspendSignal = TRUE]
    <3>1. x \in EngineType
      BY <1>1 DEF EngineType
    <3>2. /\ x.pc = r.engine.pc /\ x.groupWork = r.engine.groupWork
          /\ x.paused = r.engine.paused
          /\ x.receivedPause = r.engine.receivedPause
      BY <1>1 DEF EngineType
    <3>3. Handled(r, m) = [engine |-> x, out |-> r.out]
      BY <1>4, <2>5 DEF Handled, Turns
    <3>. HIDE DEF x
    <3>. QED  BY <1>1, <2>5, <3>1, <3>2, <3>3 DEF Turns
  <2>6. CASE m.header = "RESUME"
    <3>. DEFINE x == [r.engine EXCEPT !.suspendSignal = FALSE]
    <3>1. x \in EngineType
      BY <1>1 DEF EngineType
    <3>2. /\ x.pc = r.engine.pc /\ x.groupWork = r.engine.groupWork
          /\ x.paused = r.engine.paused
          /\ x.receivedPause = r.engine.receivedPause
      BY <1>1 DEF EngineType
    <3>3. Handled(r, m) = [engine |-> x, out |-> r.out]
      BY <1>4, <2>6 DEF Handled, Turns
    <3>. HIDE DEF x
    <3>. QED  BY <1>1, <2>6, <3>1, <3>2, <3>3 DEF Turns
  <2>7. CASE m.header = "STOP"
    <3>. DEFINE x == [r.engine EXCEPT !.receivedStop = TRUE]
    <3>1. x \in EngineType
      BY <1>1 DEF EngineType
    <3>2. /\ x.pc = r.engine.pc /\ x.groupWork = r.engine.groupWork
          /\ x.paused = r.engine.paused
          /\ x.receivedPause = r.engine.receivedPause
      BY <1>1 DEF EngineType
    <3>3. Handled(r, m) = [engine |-> x, out |-> Append(r.out, Signal("STOP_ACK"))]
      BY <1>4, <2>7 DEF Handled, Turns
    <3>4. Append(r.out, Signal("STOP_ACK")) \in Seq(Message)
      BY <1>1, SignalType, AppendProperties DEF Headers
    <3>. HIDE DEF x
    <3>. QED  BY <1>1, <2>7, <3>1, <3>2, <3>3, <3>4 DEF Turns
  <2>8. CASE m.header = "STOP_ACK"
    <3>. DEFINE x == [r.engine EXCEPT !.stopped = TRUE, !.receivedStop = FALSE]
    <3>1. x \in EngineType
      BY <1>1 DEF EngineType
    <3>2. /\ x.pc = r.engine.pc /\ x.groupWork = r.engine.groupWork
          /\ x.paused = r.engine.paused
          /\ x.receivedPause = r.engine.receivedPause
      BY <1>1 DEF EngineType
    <3>3. Handled(r, m) = [engine |-> x, out |-> r.out]
      BY <1>4, <2>8 DEF Handled, Turns
    <3>. HIDE DEF x
    <3>. QED  BY <1>1, <2>8, <3>1, <3>2, <3>3 DEF Turns
  <2>. QED  BY <1>1, <2>1, <2>2, <2>3, <2>4, <2>5, <2>6, <2>7, <2>8 DEF Headers
<1>. QED  BY <1>2, <1>3, <1>4

\* What the messages p make of an engine s.
Outcome(s, p, r) ==
  /\ r \in Turns
  /\ r.engine.pc \in {s.pc, "failed"}
  /\ r.engine.groupWork = s.groupWork
  /\ r.engine.paused => s.paused \/ Has(p, "PAUSE_ACK")
  /\ s.receivedPause => r.engine.receivedPause \/ Has(p, "PAUSE_ACK")
  /\ Has(r.out, "PAUSE_ACK") =>
       Has(p, "PAUSE") /\ (r.engine.receivedPause \/ Follows(p, "PAUSE", "PAUSE_ACK"))
  /\ Follows(r.out, "PAUSE_ACK", "PAUSE_ACK") => Follows(p, "PAUSE", "PAUSE")
  /\ \A h \in Headers \ Answers : ~Has(r.out, h)

LEMMA OutcomeStep ==
  ASSUME NEW s, NEW p \in Seq(Message), NEW r, Outcome(s, p, r),
         NEW m \in Message, m.header # "ENGINE_REPLY"
  PROVE  Outcome(s, Append(p, m), Handled(r, m))
<1>. DEFINE t == Handled(r, m)
            n == Append(p, m)
<1>1. r \in Turns /\ r.out \in Seq(Message)
  BY DEF Outcome, Turns
<1>2. /\ t \in Turns
      /\ t.engine.pc \in {r.engine.pc, "failed"}
      /\ t.engine.groupWork = r.engine.groupWork
      /\ t.engine.paused => r.engine.paused \/ m.header = "PAUSE_ACK"
      /\ r.engine.receivedPause => t.engine.receivedPause \/ m.header = "PAUSE_ACK"
  BY <1>1, HandledOne
<1>3. \/ t.out = r.out
      \/ t.out = Append(r.out, Signal("STOP_ACK"))
      \/ /\ t.out = Append(r.out, Signal("PAUSE_ACK"))
         /\ m.header = "PAUSE" /\ t.engine.receivedPause
  BY <1>1, HandledOne
<1>4. \A h, k : /\ Has(n, h) <=> Has(p, h) \/ m.header = h
                /\ Follows(n, h, k) <=> Follows(p, h, k) \/ (Has(p, h) /\ m.header = k)
  BY HasAppend
<1>5. "STOP_ACK" \in Headers /\ "PAUSE_ACK" \in Headers
  BY DEF Headers
<1>6. /\ Signal("STOP_ACK") \in Message /\ Signal("STOP_ACK").header = "STOP_ACK"
      /\ Signal("PAUSE_ACK") \in Message /\ Signal("PAUSE_ACK").header = "PAUSE_ACK"
  BY <1>5, SignalType
<1>7. \A a \in Message : \A h, k :
        /\ Has(Append(r.out, a), h) <=> Has(r.out, h) \/ a.header = h
        /\ Follows(Append(r.out, a), h, k) <=> Follows(r.out, h, k) \/ (Has(r.out, h) /\ a.header = k)
  BY <1>1, HasAppend
<1>. HIDE DEF t, n
<1>8. \A h : Has(t.out, h) => \/ Has(r.out, h)
                              \/ h = "STOP_ACK"
                              \/ h = "PAUSE_ACK" /\ m.header = "PAUSE" /\ t.engine.receivedPause
  BY <1>3, <1>6, <1>7
<1>9. Follows(t.out, "PAUSE_ACK", "PAUSE_ACK") =>
        Follows(r.out, "PAUSE_ACK", "PAUSE_ACK") \/ (Has(r.out, "PAUSE_ACK") /\ m.header = "PAUSE")
  <2>1. CASE t.out = r.out
    BY <2>1
  <2>2. CASE t.out = Append(r.out, Signal("STOP_ACK"))
    <3>1. Follows(t.out, "PAUSE_ACK", "PAUSE_ACK") => Follows(r.out, "PAUSE_ACK", "PAUSE_ACK")
      BY <1>6, <1>7, <2>2
    <3>. QED  BY <3>1
  <2>3. CASE t.out = Append(r.out, Signal("PAUSE_ACK")) /\ m.header = "PAUSE"
    <3>1. Follows(t.out, "PAUSE_ACK", "PAUSE_ACK") =>
            Follows(r.out, "PAUSE_ACK", "PAUSE_ACK") \/ Has(r.out, "PAUSE_ACK")
      BY <1>6, <1>7, <2>3
    <3>. QED  BY <2>3, <3>1
  <2>. QED  BY <1>3, <2>1, <2>2, <2>3
<1>10. t.engine.pc \in {s.pc, "failed"} /\ t.engine.groupWork = s.groupWork
  BY <1>2 DEF Outcome
<1>11. t.engine.paused => s.paused \/ Has(n, "PAUSE_ACK")
  BY <1>2, <1>4 DEF Outcome
<1>12. s.receivedPause => t.engine.receivedPause \/ Has(n, "PAUSE_ACK")
  BY <1>2, <1>4 DEF Outcome
<1>13. Has(t.out, "PAUSE_ACK") =>
         Has(n, "PAUSE") /\ (t.engine.receivedPause \/ Follows(n, "PAUSE", "PAUSE_ACK"))
  BY <1>2, <1>4, <1>8 DEF Outcome
<1>14. Follows(t.out, "PAUSE_ACK", "PAUSE_ACK") => Follows(n, "PAUSE", "PAUSE")
  BY <1>4, <1>9 DEF Outcome
<1>15. \A h \in Headers \ Answers : ~Has(t.out, h)
  BY <1>8 DEF Outcome, Answers
<1>16. Outcome(s, n, t)
  BY <1>2, <1>10, <1>11, <1>12, <1>13, <1>14, <1>15 DEF Outcome
<1>. QED  BY <1>16 DEF t, n

LEMMA HandledAllOutcome ==
  ASSUME NEW s \in EngineType, NEW q \in Seq(Message), ~Has(q, "ENGINE_REPLY")
  PROVE  Outcome(s, q, HandledAll(s, q))
<1>1. Len(q) \in Nat /\ DOMAIN q = 1 .. Len(q) /\ \A i \in DOMAIN q : q[i] \in Message
  BY ElementOfSeq
<1>2. PICK after :
        /\ after = [n \in 0 .. Len(q) |->
                      IF n = 0 THEN [engine |-> s, out |-> << >>] ELSE Handled(after[n - 1], q[n])]
        /\ HandledAll(s, q) = after[Len(q)]
  BY <1>1, HandledAllExists
<1>. DEFINE p(n) == SubSeq(q, 1, n)
            T == {n \in Nat : n <= Len(q) => Outcome(s, p(n), after[n])}
<1>3. 0 \in T
  <2>1. after[0] = [engine |-> s, out |-> << >>]
    BY <1>1, <1>2
  <2>2. after[0] \in Turns /\ after[0].engine = s /\ after[0].out = << >>
    BY <2>1, EmptySeq DEF Turns
  <2>3. Outcome(s, p(0), after[0])
    BY <2>2, HasNone DEF Outcome
  <2>. QED  BY <2>3
<1>4. ASSUME NEW n \in Nat, n \in T PROVE n + 1 \in T
  <2>. SUFFICES ASSUME n + 1 <= Len(q) PROVE Outcome(s, p(n + 1), after[n + 1])
    OBVIOUS
  <2>1. Outcome(s, p(n), after[n])
    BY <1>1, <1>4
  <2>2. n + 1 \in 0 .. Len(q) /\ n + 1 # 0 /\ (n + 1) - 1 = n
    BY <1>1
  <2>3. after[n + 1] = Handled(after[n], q[n + 1])
    BY <1>2, <2>2
  <2>4. n + 1 \in DOMAIN q /\ q[n + 1] \in Message /\ q[n + 1].header # "ENGINE_REPLY"
    BY <1>1, <2>2 DEF Has
  <2>5. p(n) \in Seq(Message) /\ p(n + 1) = Append(p(n), q[n + 1])
    <3>1. \A i \in 1 .. n : q[i] \in Message
      BY <1>1
    <3>2. p(n) \in Seq(Message)
      BY <3>1, SubSeqProperties
    <3>3. p(n + 1) = p((n + 1) - 1) \o << q[n + 1] >>
      BY <1>1, SubSeqRecursiveSecond
    <3>4. Append(p(n), q[n + 1]) = p(n) \o << q[n + 1] >>
      BY <2>4, <3>2, AppendIsConcat
    <3>. QED  BY <2>2, <3>2, <3>3, <3>4
  <2>. HIDE DEF p, T
  <2>6. Outcome(s, Append(p(n), q[n + 1]), Handled(after[n], q[n + 1]))
    BY <2>1, <2>4, <2>5, OutcomeStep
  <2>. QED  BY <2>3, <2>5, <2>6
<1>5. Len(q) \in T
  <2>. HIDE DEF T
  <2>. QED  BY <1>1, <1>3, <1>4, Induction
<1>6. p(Len(q)) = q
  BY SubSeqFull
<1>7. Outcome(s, p(Len(q)), after[Len(q)])
  BY <1>1, <1>5
<1>. HIDE DEF p
<1>. QED  BY <1>2, <1>6, <1>7

-----------------------------------------------------------------------------
(* What the actions do to the queues                                       *)

LEMMA SentByFacts ==
  ASSUME TypeOK, Call \in Calls, Call = "submit" => client.sent < MaxRequests
  PROVE  /\ SentBy(Call) \in Seq(Message)
         /\ \A h \in Headers \ FromClient : ~Has(SentBy(Call), h)
         /\ Has(SentBy(Call), "PAUSE") <=> Call \in Pauses
         /\ Has(SentBy(Call), "UNPAUSE") <=> Call \in Revocations
         /\ ~Follows(SentBy(Call), "PAUSE", "PAUSE")
         /\ ~Follows(SentBy(Call), "PAUSE", "UNPAUSE")
<1>. DEFINE r == [header |-> "SUBMIT_REQUEST", requests |-> {client.sent + 1}]
<1>1. \A h \in Headers : Signal(h) \in Message /\ Signal(h).header = h
  BY SignalType
<1>2. ASSUME NEW m \in Message
      PROVE  /\ << m >> \in Seq(Message)
             /\ \A h : Has(<< m >>, h) <=> m.header = h
             /\ \A h, k : ~Follows(<< m >>, h, k)
  <2>1. << m >> \in Seq(Message) /\ DOMAIN << m >> = {1} /\ << m >>[1] = m
    BY EmptySeq
  <2>. QED  BY <2>1 DEF Has, Follows
<1>3. ASSUME NEW m \in Message, NEW n \in Message
      PROVE  /\ << m, n >> \in Seq(Message)
             /\ \A h : Has(<< m, n >>, h) <=> m.header = h \/ n.header = h
             /\ \A h, k : Follows(<< m, n >>, h, k) <=> m.header = h /\ n.header = k
  <2>1. /\ << m, n >> \in Seq(Message) /\ DOMAIN << m, n >> = {1, 2}
        /\ << m, n >>[1] = m /\ << m, n >>[2] = n
    BY EmptySeq
  <2>2. \A i, j \in {1, 2} : i < j <=> i = 1 /\ j = 2
    OBVIOUS
  <2>. QED  BY <2>1, <2>2 DEF Has, Follows
<1>4. CASE Call = "submit"
  <2>1. r \in Message /\ r.header = "SUBMIT_REQUEST"
    <3>1. client.sent \in Nat /\ MaxRequests \in Nat
      BY CoordinatorAssumption DEF TypeOK, ClientType, Requests
    <3>2. client.sent + 1 \in Requests
      BY <1>4, <3>1 DEF Requests
    <3>. QED  BY <3>2 DEF Message, Headers
  <2>2. SentBy(Call) = << r >>
    BY <1>4 DEF SentBy
  <2>. HIDE DEF r
  <2>. QED  BY <1>2, <1>4, <2>1, <2>2 DEF FromClient, Pauses, Revocations
<1>5. CASE Call = "pause"
  <2>1. SentBy(Call) = << Signal("PAUSE") >>
    BY <1>5 DEF SentBy
  <2>. QED  BY <1>1, <1>2, <1>5, <2>1 DEF FromClient, Headers, Pauses, Revocations
<1>6. CASE Call = "unpause"
  <2>1. SentBy(Call) = << Signal("UNPAUSE") >>
    BY <1>6 DEF SentBy
  <2>. QED  BY <1>1, <1>2, <1>6, <2>1 DEF FromClient, Headers, Pauses, Revocations
<1>7. CASE Call = "stop"
  <2>1. SentBy(Call) = << Signal("STOP") >>
    BY <1>7 DEF SentBy
  <2>. QED  BY <1>1, <1>2, <1>7, <2>1 DEF FromClient, Headers, Pauses, Revocations
<1>8. CASE Call = "suspend"
  <2>1. SentBy(Call) = << Signal("PAUSE"), Signal("SUSPEND") >>
    BY <1>8 DEF SentBy
  <2>2. /\ Signal("PAUSE") \in Message /\ Signal("PAUSE").header = "PAUSE"
        /\ Signal("SUSPEND") \in Message /\ Signal("SUSPEND").header = "SUSPEND"
    BY <1>1 DEF Headers
  <2>3. /\ SentBy(Call) \in Seq(Message)
        /\ \A h : Has(SentBy(Call), h) <=> "PAUSE" = h \/ "SUSPEND" = h
        /\ \A h, k : Follows(SentBy(Call), h, k) <=> "PAUSE" = h /\ "SUSPEND" = k
    BY <1>3, <2>1, <2>2
  <2>. QED  BY <1>8, <2>3 DEF FromClient, Headers, Pauses, Revocations
<1>9. CASE Call = "resume"
  <2>1. SentBy(Call) = << Signal("RESUME"), Signal("UNPAUSE") >>
    BY <1>9 DEF SentBy
  <2>2. /\ Signal("RESUME") \in Message /\ Signal("RESUME").header = "RESUME"
        /\ Signal("UNPAUSE") \in Message /\ Signal("UNPAUSE").header = "UNPAUSE"
    BY <1>1 DEF Headers
  <2>3. /\ SentBy(Call) \in Seq(Message)
        /\ \A h : Has(SentBy(Call), h) <=> "RESUME" = h \/ "UNPAUSE" = h
        /\ \A h, k : Follows(SentBy(Call), h, k) <=> "RESUME" = h /\ "UNPAUSE" = k
    BY <1>3, <2>1, <2>2
  <2>. QED  BY <1>9, <2>3 DEF FromClient, Headers, Pauses, Revocations
<1>. QED  BY <1>4, <1>5, <1>6, <1>7, <1>8, <1>9 DEF Calls

\* A call appends to what the client has sent.
LEMMA CallFacts ==
  ASSUME TypeInv, ClientCall
  PROVE  /\ toCoord' \in [Names \cup {"client"} -> Seq(Message)]
         /\ \A e \in Names : toCoord'[e] = toCoord[e]
         /\ \A h \in Headers \ FromClient : ~Has(toCoord'["client"], h)
         /\ Has(toCoord'["client"], "PAUSE") <=> Has(toCoord["client"], "PAUSE") \/ Call \in Pauses
         /\ Has(toCoord'["client"], "UNPAUSE") <=> Has(toCoord["client"], "UNPAUSE") \/ Call \in Revocations
         /\ \A k \in {"PAUSE", "UNPAUSE"} :
              Follows(toCoord'["client"], "PAUSE", k) =>
                \/ Follows(toCoord["client"], "PAUSE", k)
                \/ Has(toCoord["client"], "PAUSE") /\ Has(SentBy(Call), k)
<1>. DEFINE c == toCoord["client"]
            s == SentBy(Call)
<1>1. TypeOK /\ Call \in Calls /\ (Call = "submit" => client.sent < MaxRequests)
  BY DEF TypeInv, ClientCall
<1>2. c \in Seq(Message) /\ toCoord \in [Names \cup {"client"} -> Seq(Message)] /\ "client" \notin Names
  BY CoordinatorAssumption DEF TypeInv, TypeOK
<1>3. s \in Seq(Message)
  BY <1>1, SentByFacts
<1>4. c \o s \in Seq(Message)
  BY <1>2, <1>3, ConcatProperties
<1>5. /\ \A h : Has(c \o s, h) <=> Has(c, h) \/ Has(s, h)
      /\ \A h, k : Follows(c \o s, h, k) => Follows(c, h, k) \/ Follows(s, h, k) \/ (Has(c, h) /\ Has(s, k))
  BY <1>2, <1>3, HasConcat
<1>6. toCoord' = [toCoord EXCEPT !["client"] = c \o s]
  BY DEF ClientCall
<1>7. toCoord'["client"] = c \o s
  BY <1>2, <1>6
<1>8. /\ toCoord' \in [Names \cup {"client"} -> Seq(Message)]
      /\ \A e \in Names : toCoord'[e] = toCoord[e]
  BY <1>2, <1>4, <1>6
<1>9. /\ \A h \in Headers \ FromClient : ~Has(s, h)
      /\ Has(s, "PAUSE") <=> Call \in Pauses
      /\ Has(s, "UNPAUSE") <=> Call \in Revocations
      /\ ~Follows(s, "PAUSE", "PAUSE")
      /\ ~Follows(s, "PAUSE", "UNPAUSE")
  BY <1>1, SentByFacts
<1>10. \A h \in Headers \ FromClient : ~Has(c, h)
  BY DEF TypeInv, Routes
<1>. HIDE DEF c, s
<1>11. \A h \in Headers \ FromClient : ~Has(c \o s, h)
  BY <1>5, <1>9, <1>10
<1>12. /\ Has(c \o s, "PAUSE") <=> Has(c, "PAUSE") \/ Call \in Pauses
       /\ Has(c \o s, "UNPAUSE") <=> Has(c, "UNPAUSE") \/ Call \in Revocations
  BY <1>5, <1>9
<1>13. \A k \in {"PAUSE", "UNPAUSE"} :
         Follows(c \o s, "PAUSE", k) => Follows(c, "PAUSE", k) \/ (Has(c, "PAUSE") /\ Has(s, k))
  BY <1>5, <1>9
<1>. QED  BY <1>7, <1>8, <1>11, <1>12, <1>13 DEF c, s

\* The coordinator takes the first message of x.
LEMMA Received ==
  ASSUME TypeInv, NEW x \in Names \cup {"client"}, Coordinate(x)
  PROVE  LET m == Head(toCoord[x])
         IN  /\ m \in Message
             /\ x = "client" => m.header \in FromClient
             /\ x \in Names => m.header \in FromEngine
             /\ toCoord' \in [Names \cup {"client"} -> Seq(Message)]
             /\ \A y \in Names \cup {"client"} : y # x => toCoord'[y] = toCoord[y]
             /\ \A h : Has(toCoord[x], h) <=> m.header = h \/ Has(toCoord'[x], h)
             /\ \A h, k : Follows(toCoord[x], h, k) <=>
                            Follows(toCoord'[x], h, k) \/ (m.header = h /\ Has(toCoord'[x], k))
<1>. DEFINE q == toCoord[x]
<1>1. /\ toCoord \in [Names \cup {"client"} -> Seq(Message)]
      /\ q \in Seq(Message) /\ q # << >>
      /\ toCoord' = [toCoord EXCEPT ![x] = Tail(q)]
  BY DEF TypeInv, TypeOK, Coordinate
<1>2. Head(q) \in Message /\ Tail(q) \in Seq(Message)
  BY <1>1, HeadTailProperties
<1>3. toCoord'[x] = Tail(q)
  BY <1>1
<1>4. /\ \A h : Has(q, h) <=> Head(q).header = h \/ Has(Tail(q), h)
      /\ \A h, k : Follows(q, h, k) <=> Follows(Tail(q), h, k) \/ (Head(q).header = h /\ Has(Tail(q), k))
  BY <1>1, HasTail
<1>5. Has(q, Head(q).header) /\ Head(q).header \in Headers
  BY <1>2, <1>4 DEF Message
<1>6. /\ x = "client" => \A h \in Headers \ FromClient : ~Has(q, h)
      /\ x \in Names => \A h \in Headers \ FromEngine : ~Has(q, h)
  BY DEF TypeInv, Routes
<1>7. /\ toCoord' \in [Names \cup {"client"} -> Seq(Message)]
      /\ \A y \in Names \cup {"client"} : y # x => toCoord'[y] = toCoord[y]
  BY <1>1, <1>2
<1>. QED  BY <1>2, <1>3, <1>4, <1>5, <1>6, <1>7

\* A message to all engines.
LEMMA SentToAll ==
  ASSUME TypeInv, NEW h \in Headers, toEngine' = ToEveryEngine(h)
  PROVE  /\ toEngine' \in [Names -> Seq(Message)]
         /\ \A e \in Names :
              /\ \A k : Has(toEngine'[e], k) <=> Has(toEngine[e], k) \/ h = k
              /\ \A j, k : Follows(toEngine'[e], j, k) <=>
                             Follows(toEngine[e], j, k) \/ (Has(toEngine[e], j) /\ h = k)
<1>1. Signal(h) \in Message /\ Signal(h).header = h
  BY SignalType
<1>2. ASSUME NEW e \in Names
      PROVE  /\ toEngine[e] \in Seq(Message)
             /\ toEngine'[e] = Append(toEngine[e], Signal(h))
             /\ toEngine'[e] \in Seq(Message)
  <2>1. toEngine[e] \in Seq(Message) /\ toEngine'[e] = Append(toEngine[e], Signal(h))
    BY DEF TypeInv, TypeOK, ToEveryEngine
  <2>. QED  BY <1>1, <2>1, AppendProperties
<1>3. toEngine' \in [Names -> Seq(Message)]
  BY <1>1, <1>2 DEF ToEveryEngine
<1>4. \A e \in Names :
        /\ \A k : Has(Append(toEngine[e], Signal(h)), k) <=> Has(toEngine[e], k) \/ Signal(h).header = k
        /\ \A j, k : Follows(Append(toEngine[e], Signal(h)), j, k) <=>
                       Follows(toEngine[e], j, k) \/ (Has(toEngine[e], j) /\ Signal(h).header = k)
  BY <1>1, <1>2, HasAppend
<1>. QED  BY <1>1, <1>2, <1>3, <1>4

\* A request to one engine, which the acknowledgements do not notice.
LEMMA Routed ==
  ASSUME TypeInv, NEW m \in Message, RouteRequest(m)
  PROVE  /\ toEngine' \in [Names -> Seq(Message)]
         /\ coord' \in CoordType
         /\ coord'.pauseAcks = coord.pauseAcks
         /\ \A e \in Names :
              /\ \A k \in Headers : k # "SUBMIT_REQUEST" => (Has(toEngine'[e], k) <=> Has(toEngine[e], k))
              /\ \A j, k \in Headers : k # "SUBMIT_REQUEST" =>
                   (Follows(toEngine'[e], j, k) <=> Follows(toEngine[e], j, k))
<1>. DEFINE n == Engines[coord.next]
<1>1. Engines \in Seq(Names) /\ Len(Engines) \in Nat /\ Len(Engines) > 0
  BY CoordinatorAssumption, EmptySeq
<1>2. coord \in CoordType /\ coord.next \in 1 .. Len(Engines)
  BY DEF TypeInv, TypeOK, CoordType
<1>3. n \in Names
  BY <1>1, <1>2, ElementOfSeq
<1>4. (coord.next % Len(Engines)) + 1 \in 1 .. Len(Engines)
  <2>1. \A a \in Nat, b \in Nat : b > 0 => a % b \in 0 .. (b - 1)
    OBVIOUS
  <2>. QED  BY <1>1, <1>2, <2>1
<1>5. coord' \in CoordType /\ coord'.pauseAcks = coord.pauseAcks
  BY <1>2, <1>4 DEF RouteRequest, CoordType
<1>6. /\ toEngine \in [Names -> Seq(Message)]
      /\ toEngine' = [toEngine EXCEPT ![n] = Append(toEngine[n], m)]
  BY DEF TypeInv, TypeOK, RouteRequest
<1>7. Append(toEngine[n], m) \in Seq(Message)
  BY <1>3, <1>6, AppendProperties
<1>. HIDE DEF n
<1>8. /\ \A k : Has(Append(toEngine[n], m), k) <=> Has(toEngine[n], k) \/ m.header = k
      /\ \A j, k : Follows(Append(toEngine[n], m), j, k) <=>
                     Follows(toEngine[n], j, k) \/ (Has(toEngine[n], j) /\ m.header = k)
  BY <1>3, <1>6, HasAppend
<1>9. m.header = "SUBMIT_REQUEST"
  BY DEF RouteRequest
<1>10. toEngine' \in [Names -> Seq(Message)]
  BY <1>6, <1>7
<1>11. toEngine'[n] = Append(toEngine[n], m) /\ \A e \in Names : e # n => toEngine'[e] = toEngine[e]
  BY <1>3, <1>6
<1>. QED  BY <1>5, <1>8, <1>9, <1>10, <1>11

\* A message to the client.
LEMMA SentToClient ==
  ASSUME TypeInv, NEW m \in Message, toClient' = Append(toClient, m)
  PROVE  /\ toClient' \in Seq(Message)
         /\ \A k : Has(toClient', k) <=> Has(toClient, k) \/ m.header = k
         /\ \A j, k : Follows(toClient', j, k) <=> Follows(toClient, j, k) \/ (Has(toClient, j) /\ m.header = k)
<1>1. toClient \in Seq(Message)
  BY DEF TypeInv, TypeOK
<1>. QED  BY <1>1, AppendProperties, HasAppend

\* An engine takes all its messages.
LEMMA Drained ==
  ASSUME TypeInv, NEW e \in Names, Drain(e)
  PROVE  /\ engine' \in [Names -> EngineType]
         /\ \A f \in Names : f # e => engine'[f] = engine[f] /\ toCoord'[f] = toCoord[f] /\ toEngine'[f] = toEngine[f]
         /\ toCoord'["client"] = toCoord["client"]
         /\ toCoord' \in [Names \cup {"client"} -> Seq(Message)]
         /\ toEngine' \in [Names -> Seq(Message)]
         /\ engine[e].pc = "drain" /\ engine'[e].pc \in {"reduce", "failed"}
         /\ engine'[e].groupWork = engine[e].groupWork
         /\ engine'[e].paused => engine[e].paused \/ Has(toEngine[e], "PAUSE_ACK")
         /\ engine[e].receivedPause => engine'[e].receivedPause \/ Has(toEngine[e], "PAUSE_ACK")
         /\ \A h : ~Has(toEngine'[e], h)
         /\ \A h, k : ~Follows(toEngine'[e], h, k)
         /\ Has(toCoord'[e], "PAUSE_ACK") =>
              \/ Has(toCoord[e], "PAUSE_ACK")
              \/ /\ Has(toEngine[e], "PAUSE")
                 /\ engine'[e].receivedPause \/ Follows(toEngine[e], "PAUSE", "PAUSE_ACK")
         /\ Follows(toCoord'[e], "PAUSE_ACK", "PAUSE_ACK") =>
              \/ Follows(toCoord[e], "PAUSE_ACK", "PAUSE_ACK")
              \/ Follows(toEngine[e], "PAUSE", "PAUSE")
              \/ Has(toCoord[e], "PAUSE_ACK") /\ Has(toEngine[e], "PAUSE")
         /\ \A h \in Headers \ FromEngine : ~Has(toCoord'[e], h)
<1>. DEFINE s == engine[e]
            q == toEngine[e]
            r == HandledAll(s, q)
            t == [r.engine EXCEPT !.pc = IF r.engine.pc = "failed" THEN "failed" ELSE "reduce"]
<1>1. /\ engine \in [Names -> EngineType] /\ toEngine \in [Names -> Seq(Message)]
      /\ toCoord \in [Names \cup {"client"} -> Seq(Message)] /\ "client" \notin Names
  BY CoordinatorAssumption DEF TypeInv, TypeOK
<1>2. s \in EngineType /\ q \in Seq(Message) /\ toCoord[e] \in Seq(Message) /\ ~Has(q, "ENGINE_REPLY")
  BY <1>1 DEF TypeInv, Routes
<1>3. Outcome(s, q, r)
  BY <1>2, HandledAllOutcome
<1>4. engine' = [engine EXCEPT ![e] = t] /\ toCoord' = [toCoord EXCEPT ![e] = toCoord[e] \o r.out]
      /\ toEngine' = [toEngine EXCEPT ![e] = << >>] /\ s.pc = "drain"
  <2>1. t = [r.engine EXCEPT !.pc = IF @ = "failed" THEN @ ELSE "reduce"]
    OBVIOUS
  <2>. QED  BY <2>1 DEF Drain
<1>. HIDE DEF r
<1>5. r.engine \in EngineType /\ r.out \in Seq(Message)
  BY <1>3 DEF Outcome, Turns
<1>6. /\ t \in EngineType
      /\ t.pc \in {"reduce", "failed"}
      /\ t.groupWork = r.engine.groupWork /\ t.paused = r.engine.paused
      /\ t.receivedPause = r.engine.receivedPause
  BY <1>5 DEF EngineType
<1>. HIDE DEF t
<1>7. toCoord[e] \o r.out \in Seq(Message)
  BY <1>2, <1>5, ConcatProperties
<1>8. engine'[e] = t /\ toCoord'[e] = toCoord[e] \o r.out /\ toEngine'[e] = << >>
  BY <1>1, <1>4
<1>9. /\ engine' \in [Names -> EngineType]
      /\ \A f \in Names : f # e => engine'[f] = engine[f] /\ toCoord'[f] = toCoord[f] /\ toEngine'[f] = toEngine[f]
      /\ toCoord'["client"] = toCoord["client"]
      /\ toCoord' \in [Names \cup {"client"} -> Seq(Message)]
  BY <1>1, <1>4, <1>6, <1>7
<1>10. toEngine' \in [Names -> Seq(Message)]
  BY <1>1, <1>4, EmptySeq
<1>11. /\ \A h : Has(toCoord[e] \o r.out, h) <=> Has(toCoord[e], h) \/ Has(r.out, h)
       /\ \A h, k : Follows(toCoord[e] \o r.out, h, k) =>
                      Follows(toCoord[e], h, k) \/ Follows(r.out, h, k) \/ (Has(toCoord[e], h) /\ Has(r.out, k))
  BY <1>2, <1>5, HasConcat
<1>12. \A h, k : ~Has(toEngine'[e], h) /\ ~Follows(toEngine'[e], h, k)
  BY <1>8, HasNone
<1>13. \A h \in Headers \ FromEngine : ~Has(toCoord[e], h)
  BY DEF TypeInv, Routes
<1>14. \A h \in Headers \ FromEngine : ~Has(toCoord[e] \o r.out, h)
  <2>1. Answers \subseteq FromEngine
    BY DEF Answers, FromEngine
  <2>. QED  BY <1>3, <1>11, <1>13, <2>1 DEF Outcome
<1>15. /\ t.groupWork = s.groupWork
       /\ t.paused => s.paused \/ Has(q, "PAUSE_ACK")
       /\ s.receivedPause => t.receivedPause \/ Has(q, "PAUSE_ACK")
  BY <1>3, <1>6 DEF Outcome
<1>16. Has(toCoord[e] \o r.out, "PAUSE_ACK") =>
         \/ Has(toCoord[e], "PAUSE_ACK")
         \/ Has(q, "PAUSE") /\ (t.receivedPause \/ Follows(q, "PAUSE", "PAUSE_ACK"))
  BY <1>3, <1>6, <1>11 DEF Outcome
<1>17. Follows(toCoord[e] \o r.out, "PAUSE_ACK", "PAUSE_ACK") =>
              \/ Follows(toCoord[e], "PAUSE_ACK", "PAUSE_ACK")
              \/ Follows(q, "PAUSE", "PAUSE")
              \/ Has(toCoord[e], "PAUSE_ACK") /\ Has(q, "PAUSE")
  BY <1>3, <1>11 DEF Outcome
<1>. QED  BY <1>4, <1>6, <1>8, <1>9, <1>10, <1>12, <1>14, <1>15, <1>16, <1>17

-----------------------------------------------------------------------------
(* Types and routes                                                        *)

LEMMA InitType == ASSUME Init PROVE TypeInv
<1>1. << >> \in Seq(Message) /\ \A h : ~Has(<< >>, h)
  BY EmptySeq, HasNone
<1>2. Engines # << >> /\ Engines \in Seq(Names) /\ "client" \notin Names
  BY CoordinatorAssumption
<1>3. Len(Engines) \in Nat \ {0}
  BY <1>2, EmptySeq
<1>4. coord \in CoordType
  BY <1>3 DEF Init, CoordType
<1>5. client \in ClientType
  BY DEF Init, ClientType
<1>6. engine \in [Names -> EngineType]
  BY DEF Init, EngineType
<1>7. /\ toCoord \in [Names \cup {"client"} -> Seq(Message)] /\ toEngine \in [Names -> Seq(Message)]
      /\ toClient \in Seq(Message) /\ setup \in Setups
  BY <1>1 DEF Init
<1>8. Routes
  BY <1>1 DEF Init, Routes
<1>. QED  BY <1>4, <1>5, <1>6, <1>7, <1>8 DEF TypeInv, TypeOK

LEMMA ClientType1 ==
  ASSUME TypeInv, ClientCall \/ ClientAwait \/ ClientReceive
  PROVE  TypeInv'
<1>1. /\ client \in ClientType /\ toClient \in Seq(Message) /\ "client" \notin Names
      /\ client.at + 1 \in Nat \ {0}
  BY CoordinatorAssumption DEF TypeInv, TypeOK, ClientType
<1>2. CASE ClientCall
  <2>1. client' \in ClientType
    <3>1. MaxRequests \in Nat /\ client.sent \in Nat /\ client.sent <= MaxRequests
      BY <1>1, CoordinatorAssumption DEF ClientType, Requests
    <3>2. (IF Call = "submit" THEN client.sent + 1 ELSE client.sent) \in Requests \cup {0}
      BY <1>1, <1>2, <3>1 DEF ClientCall, ClientType, Requests
    <3>3. (Call # "unpause" /\ client.paused) \in BOOLEAN
      OBVIOUS
    <3>. QED  BY <1>1, <1>2, <3>2, <3>3 DEF ClientCall, ClientType
  <2>2. /\ toCoord' \in [Names \cup {"client"} -> Seq(Message)]
        /\ \A e \in Names : toCoord'[e] = toCoord[e]
        /\ \A h \in Headers \ FromClient : ~Has(toCoord'["client"], h)
    BY <1>2, CallFacts
  <2>3. TypeOK'
    BY <1>2, <2>1, <2>2 DEF TypeInv, TypeOK, ClientCall
  <2>4. Routes'
    BY <1>2, <2>2 DEF TypeInv, Routes, ClientCall
  <2>. QED  BY <2>3, <2>4 DEF TypeInv
<1>3. CASE ClientAwait
  <2>1. client' \in ClientType
    BY <1>1, <1>3 DEF ClientAwait, ClientType
  <2>2. TypeOK'
    BY <1>3, <2>1 DEF TypeInv, TypeOK, ClientAwait
  <2>3. Routes'
    BY <1>3 DEF TypeInv, Routes, ClientAwait
  <2>. QED  BY <2>2, <2>3 DEF TypeInv
<1>4. CASE ClientReceive
  <2>1. Head(toClient) \in Message /\ Tail(toClient) \in Seq(Message)
    BY <1>1, <1>4, HeadTailProperties DEF ClientReceive
  <2>2. client' \in ClientType
    BY <1>1, <1>4, <2>1 DEF ClientReceive, ClientType, Message
  <2>3. TypeOK'
    BY <1>4, <2>1, <2>2 DEF TypeInv, TypeOK, ClientReceive
  <2>4. Routes'
    BY <1>4 DEF TypeInv, Routes, ClientReceive
  <2>. QED  BY <2>3, <2>4 DEF TypeInv
<1>. QED  BY <1>2, <1>3, <1>4

LEMMA CoordinateType ==
  ASSUME TypeInv, NEW x \in Names \cup {"client"}, Coordinate(x)
  PROVE  TypeInv'
<1>. DEFINE m == Head(toCoord[x])
<1>1. /\ m \in Message
      /\ x = "client" => m.header \in FromClient
      /\ x \in Names => m.header \in FromEngine
      /\ toCoord' \in [Names \cup {"client"} -> Seq(Message)]
      /\ \A y \in Names \cup {"client"} : y # x => toCoord'[y] = toCoord[y]
      /\ \A h : Has(toCoord[x], h) <=> m.header = h \/ Has(toCoord'[x], h)
  BY Received
<1>2. /\ setup' = setup /\ client' = client /\ engine' = engine
      /\ RouteRequest(m) \/ Broadcast(m) \/ CollectPauseAck(x, m) \/ CollectStopAck(x, m) \/ ForwardReply(m)
  BY DEF Coordinate
<1>. HIDE DEF m
<1>3. coord \in CoordType /\ toClient \in Seq(Message) /\ toEngine \in [Names -> Seq(Message)] /\ "client" \notin Names
  BY CoordinatorAssumption DEF TypeInv, TypeOK
<1>4. ASSUME NEW h \in Headers, h # "ENGINE_REPLY", toEngine' = ToEveryEngine(h)
      PROVE  toEngine' \in [Names -> Seq(Message)] /\ \A e \in Names : ~Has(toEngine'[e], "ENGINE_REPLY")
  BY <1>4, SentToAll DEF TypeInv, Routes
<1>5. toClient' = Append(toClient, m) => toClient' \in Seq(Message)
  BY <1>1, SentToClient
<1>6. ~(x = "client" /\ m.header \in FromEngine)
  BY <1>1 DEF FromEngine, FromClient
<1>7. /\ coord' \in CoordType
      /\ toClient' \in Seq(Message)
      /\ toEngine' \in [Names -> Seq(Message)]
      /\ \A e \in Names : ~Has(toEngine'[e], "ENGINE_REPLY")
  <2>1. CASE RouteRequest(m)
    <3>1. toClient' = toClient
      BY <2>1 DEF RouteRequest
    <3>2. "ENGINE_REPLY" \in Headers
      BY DEF Headers
    <3>. QED  BY <1>1, <1>3, <2>1, <3>1, <3>2, Routed DEF TypeInv, Routes
  <2>2. CASE Broadcast(m)
    <3>1. m.header \in Headers /\ m.header # "ENGINE_REPLY" /\ toEngine' = ToEveryEngine(m.header)
      BY <1>1, <2>2 DEF Broadcast, Message
    <3>2. coord' \in CoordType
      BY <1>3, <2>2 DEF Broadcast, CoordType
    <3>. QED  BY <1>3, <1>4, <2>2, <3>1, <3>2 DEF Broadcast
  <2>3. CASE CollectPauseAck(x, m)
    <3>1. x \in Names
      BY <1>6, <2>3 DEF CollectPauseAck, FromEngine
    <3>2. coord' \in CoordType
      <4>1. \/ coord' = [coord EXCEPT !.up = "failed"]
            \/ coord' = [coord EXCEPT !.pauseAcks = coord.pauseAcks \cup {x}]
        BY <2>3 DEF CollectPauseAck
      <4>2. coord.pauseAcks \cup {x} \in SUBSET Names
        BY <1>3, <3>1 DEF CoordType
      <4>. QED  BY <1>3, <4>1, <4>2 DEF CoordType
    <3>3. "PAUSE_ACK" \in Headers
      BY DEF Headers
    <3>4. CASE toEngine' = toEngine /\ toClient' = toClient
      BY <1>3, <3>2, <3>4 DEF TypeInv, Routes
    <3>5. CASE toEngine' = ToEveryEngine("PAUSE_ACK") /\ toClient' = Append(toClient, m)
      BY <1>4, <1>5, <3>2, <3>3, <3>5
    <3>. QED  BY <2>3, <3>4, <3>5 DEF CollectPauseAck
  <2>4. CASE CollectStopAck(x, m)
    <3>1. x \in Names
      BY <1>6, <2>4 DEF CollectStopAck, FromEngine
    <3>2. coord' \in CoordType
      <4>1. \/ coord' = [coord EXCEPT !.up = "failed"]
            \/ coord' = [coord EXCEPT !.stopAcks = coord.stopAcks \cup {x}, !.up = "stopped"]
            \/ coord' = [coord EXCEPT !.stopAcks = coord.stopAcks \cup {x}, !.up = coord.up]
        <5>1. CASE x \in coord.stopAcks
          BY <2>4, <5>1 DEF CollectStopAck
        <5>2. CASE x \notin coord.stopAcks /\ coord.stopAcks \cup {x} = Names
          BY <2>4, <5>2 DEF CollectStopAck
        <5>3. CASE x \notin coord.stopAcks /\ coord.stopAcks \cup {x} # Names
          BY <2>4, <5>3 DEF CollectStopAck
        <5>. QED  BY <5>1, <5>2, <5>3
      <4>2. coord.stopAcks \cup {x} \in SUBSET Names
        BY <1>3, <3>1 DEF CoordType
      <4>. QED  BY <1>3, <4>1, <4>2 DEF CoordType
    <3>3. "STOP_ACK" \in Headers
      BY DEF Headers
    <3>4. CASE toEngine' = toEngine /\ toClient' = toClient
      BY <1>3, <3>2, <3>4 DEF TypeInv, Routes
    <3>5. CASE toEngine' = ToEveryEngine("STOP_ACK") /\ toClient' = Append(toClient, m)
      BY <1>4, <1>5, <3>2, <3>3, <3>5
    <3>. QED  BY <2>4, <3>4, <3>5 DEF CollectStopAck
  <2>5. CASE ForwardReply(m)
    BY <1>3, <1>5, <2>5 DEF ForwardReply, TypeInv, Routes
  <2>. QED  BY <1>2, <2>1, <2>2, <2>3, <2>4, <2>5
<1>8. TypeOK'
  BY <1>1, <1>2, <1>7 DEF TypeInv, TypeOK
<1>9. Routes'
  <2>1. \A h \in Headers \ FromClient : ~Has(toCoord'["client"], h)
    BY <1>1 DEF TypeInv, Routes
  <2>2. \A e \in Names : \A h \in Headers \ FromEngine : ~Has(toCoord'[e], h)
    BY <1>1 DEF TypeInv, Routes
  <2>. QED  BY <1>7, <2>1, <2>2 DEF Routes
<1>. QED  BY <1>8, <1>9 DEF TypeInv

LEMMA DrainType ==
  ASSUME TypeInv, NEW e \in Names, Drain(e)
  PROVE  TypeInv'
<1>1. /\ setup' = setup /\ client' = client /\ coord' = coord /\ toClient' = toClient
  BY DEF Drain
<1>2. TypeOK'
  BY <1>1, Drained DEF TypeInv, TypeOK
<1>3. Routes'
  <2>1. /\ \A f \in Names : f # e => toCoord'[f] = toCoord[f] /\ toEngine'[f] = toEngine[f]
        /\ toCoord'["client"] = toCoord["client"]
        /\ ~Has(toEngine'[e], "ENGINE_REPLY")
        /\ \A h \in Headers \ FromEngine : ~Has(toCoord'[e], h)
    BY Drained
  <2>. QED  BY <2>1 DEF TypeInv, Routes
<1>. QED  BY <1>2, <1>3 DEF TypeInv

\* The engine of e goes on; what e has sent grows by a reply at most.
LEMMA Stepped ==
  ASSUME TypeInv, NEW e \in Names, NEW done \in SUBSET Pending(e), Step(e, done)
  PROVE  /\ engine' \in [Names -> EngineType]
         /\ \A f \in Names : f # e => engine'[f] = engine[f] /\ toCoord'[f] = toCoord[f]
         /\ toCoord'["client"] = toCoord["client"]
         /\ toCoord' \in [Names \cup {"client"} -> Seq(Message)]
         /\ engine[e].pc = "act" /\ engine'[e].pc \in {"drain", "failed"}
         /\ engine'[e].paused = engine[e].paused
         /\ engine'[e].receivedPause = engine[e].receivedPause
         /\ \A k \in Headers : k # "ENGINE_REPLY" => (Has(toCoord'[e], k) <=> Has(toCoord[e], k))
         /\ \A j, k \in Headers : k # "ENGINE_REPLY" => (Follows(toCoord'[e], j, k) <=> Follows(toCoord[e], j, k))
<1>. DEFINE m == [header |-> "ENGINE_REPLY", requests |-> done]
<1>1. /\ engine \in [Names -> EngineType] /\ toCoord \in [Names \cup {"client"} -> Seq(Message)]
      /\ "client" \notin Names /\ engine[e] \in EngineType /\ toCoord[e] \in Seq(Message)
  BY CoordinatorAssumption DEF TypeInv, TypeOK
<1>2. Pending(e) \subseteq Requests
  BY <1>1 DEF Pending, EngineType
<1>3. m \in Message /\ m.header = "ENGINE_REPLY"
  BY <1>2 DEF Message, Headers
<1>4. engine[e].pc = "act"
  BY DEF Step
<1>5. \/ /\ \/ engine' = [engine EXCEPT ![e].pc = "drain"]
            \/ engine' = [engine EXCEPT ![e].pc = "failed"]
            \/ engine' = [engine EXCEPT ![e] = [@ EXCEPT !.pc = "drain", !.active = Pending(e) \ done, !.waiting = {}]]
         /\ toCoord' = toCoord
      \/ /\ engine' = [engine EXCEPT ![e] = [@ EXCEPT !.pc = "drain", !.active = Pending(e) \ done, !.waiting = {}]]
         /\ toCoord' = [toCoord EXCEPT ![e] = Append(toCoord[e], m)]
  <2>1. done = {} => [toCoord EXCEPT ![e] = toCoord[e]] = toCoord
    BY <1>1
  <2>. HIDE DEF m
  <2>2. \/ Pending(e) = {} \/ (Pending(e) # {} /\ engine[e].isSuspended) \/ (Pending(e) # {} /\ ~engine[e].isSuspended)
    OBVIOUS
  <2>3. CASE Pending(e) = {}
    BY <2>3 DEF Step
  <2>4. CASE Pending(e) # {} /\ engine[e].isSuspended
    BY <2>4 DEF Step
  <2>5. CASE Pending(e) # {} /\ ~engine[e].isSuspended
    BY <2>1, <2>5 DEF Step, m
  <2>. QED  BY <2>2, <2>3, <2>4, <2>5
<1>6. /\ engine' \in [Names -> EngineType]
      /\ \A f \in Names : f # e => engine'[f] = engine[f]
      /\ engine'[e].pc \in {"drain", "failed"}
      /\ engine'[e].paused = engine[e].paused
      /\ engine'[e].receivedPause = engine[e].receivedPause
  <2>1. Pending(e) \ done \subseteq Requests
    BY <1>2
  <2>2. CASE engine' = [engine EXCEPT ![e].pc = "drain"]
    BY <1>1, <2>2 DEF EngineType
  <2>3. CASE engine' = [engine EXCEPT ![e].pc = "failed"]
    BY <1>1, <2>3 DEF EngineType
  <2>4. CASE engine' = [engine EXCEPT ![e] = [@ EXCEPT !.pc = "drain", !.active = Pending(e) \ done, !.waiting = {}]]
    <3>. DEFINE x == [engine[e] EXCEPT !.pc = "drain", !.active = Pending(e) \ done, !.waiting = {}]
    <3>1. /\ x \in EngineType /\ x.pc = "drain" /\ x.paused = engine[e].paused
          /\ x.receivedPause = engine[e].receivedPause
      BY <1>1, <2>1 DEF EngineType
    <3>2. engine' = [engine EXCEPT ![e] = x]
      BY <2>4
    <3>. HIDE DEF x
    <3>. QED  BY <1>1, <3>1, <3>2
  <2>. QED  BY <1>5, <2>2, <2>3, <2>4
<1>. HIDE DEF m
<1>7. Append(toCoord[e], m) \in Seq(Message)
  BY <1>1, <1>3, AppendProperties
<1>8. /\ \A k : Has(Append(toCoord[e], m), k) <=> Has(toCoord[e], k) \/ m.header = k
      /\ \A j, k : Follows(Append(toCoord[e], m), j, k) <=>
                     Follows(toCoord[e], j, k) \/ (Has(toCoord[e], j) /\ m.header = k)
  BY <1>1, <1>3, HasAppend
<1>9. /\ toCoord' \in [Names \cup {"client"} -> Seq(Message)]
      /\ toCoord'["client"] = toCoord["client"]
      /\ \A f \in Names : f # e => toCoord'[f] = toCoord[f]
      /\ toCoord'[e] \in {toCoord[e], Append(toCoord[e], m)}
  BY <1>1, <1>5, <1>7
<1>. QED  BY <1>3, <1>4, <1>6, <1>8, <1>9

LEMMA StepType ==
  ASSUME TypeInv, NEW e \in Names, NEW done \in SUBSET Pending(e), Step(e, done)
  PROVE  TypeInv'
<1>1. setup' = setup /\ client' = client /\ coord' = coord /\ toClient' = toClient /\ toEngine' = toEngine
  BY DEF Step
<1>2. TypeOK'
  BY <1>1, Stepped DEF TypeInv, TypeOK
<1>3. \A k \in Headers : k # "ENGINE_REPLY" => (Has(toCoord'[e], k) <=> Has(toCoord[e], k))
  BY Stepped
<1>4. /\ \A f \in Names : f # e => toCoord'[f] = toCoord[f]
      /\ toCoord'["client"] = toCoord["client"]
  BY Stepped
<1>5. \A h \in Headers \ FromEngine : ~Has(toCoord'[e], h)
  BY <1>3 DEF TypeInv, Routes, FromEngine
<1>6. Routes'
  BY <1>1, <1>4, <1>5 DEF TypeInv, Routes
<1>. QED  BY <1>2, <1>6 DEF TypeInv

\* Signals change neither what the engine knows of pauses nor what it has sent.
LEMMA Obeyed ==
  ASSUME TypeInv, NEW e \in Names, Obey(e)
  PROVE  /\ engine' \in [Names -> EngineType]
         /\ \A f \in Names : f # e => engine'[f] = engine[f]
         /\ engine[e].pc = "act" /\ engine'[e].pc \in {"drain", "stopped"}
         /\ engine'[e].paused = engine[e].paused
         /\ engine'[e].receivedPause = engine[e].receivedPause
<1>. DEFINE s == engine[e]
<1>1. engine \in [Names -> EngineType] /\ s \in EngineType /\ s.pc = "act"
  BY DEF TypeInv, TypeOK, Obey
<1>2. CASE s.stopped
  <2>1. engine' = [engine EXCEPT ![e] = [s EXCEPT !.pc = "stopped"]]
    BY <1>2 DEF Obey
  <2>. QED  BY <1>1, <2>1 DEF EngineType
<1>3. CASE ~s.stopped
  <2>. DEFINE t == IF s.suspendSignal THEN Suspended(s) ELSE Resumed(s)
              u == [t EXCEPT !.pc = "drain"]
  <2>1. engine' = [engine EXCEPT ![e] = u]
    BY <1>3 DEF Obey
  <2>2. /\ Suspended(s) \in EngineType
        /\ Suspended(s).paused = s.paused /\ Suspended(s).receivedPause = s.receivedPause
    <3>1. s.active \cup s.waiting \subseteq Requests
      BY <1>1 DEF EngineType
    <3>. QED  BY <1>1, <3>1 DEF Suspended, EngineType
  <2>3. /\ Resumed(s) \in EngineType
        /\ Resumed(s).paused = s.paused /\ Resumed(s).receivedPause = s.receivedPause
    <3>1. s.waiting \cup s.resuming \subseteq Requests
      BY <1>1 DEF EngineType
    <3>. QED  BY <1>1, <3>1 DEF Resumed, EngineType
  <2>. HIDE DEF s
  <2>4. t \in EngineType /\ t.paused = s.paused /\ t.receivedPause = s.receivedPause
    BY <2>2, <2>3
  <2>. HIDE DEF t
  <2>5. u \in EngineType /\ u.pc = "drain" /\ u.paused = s.paused /\ u.receivedPause = s.receivedPause
    BY <2>4 DEF EngineType
  <2>. HIDE DEF u
  <2>6. /\ engine' \in [Names -> EngineType]
        /\ \A f \in Names : f # e => engine'[f] = engine[f]
        /\ engine'[e] = u
    BY <1>1, <2>1, <2>5
  <2>. QED  BY <1>1, <2>5, <2>6 DEF s
<1>. QED  BY <1>2, <1>3

LEMMA Reduced ==
  ASSUME TypeInv, NEW g, Reduce(g)
  PROVE  /\ engine' \in [Names -> EngineType]
         /\ \A e \in Names : /\ engine'[e].paused = engine[e].paused
                             /\ engine'[e].receivedPause = engine[e].receivedPause
         /\ \A e \in Names : e \notin g => engine'[e] = engine[e]
         /\ \A e \in Names : e \in g => /\ engine[e].pc = "reduce" /\ engine'[e].pc = "act"
                                        /\ engine'[e].groupWork = (\E f \in g : ClaimsWork(f))
<1>. DEFINE w == \E f \in g : ClaimsWork(f)
<1>1. engine \in [Names -> EngineType] /\ w \in BOOLEAN
  BY DEF TypeInv, TypeOK
<1>2. engine' = [e \in Names |-> IF e \in g THEN [engine[e] EXCEPT !.pc = "act", !.groupWork = w] ELSE engine[e]]
  BY DEF Reduce
<1>3. \A e \in g : engine[e].pc = "reduce"
  BY DEF Reduce
<1>. HIDE DEF w
<1>4. ASSUME NEW e \in Names, e \in g
      PROVE  /\ engine'[e] \in EngineType
             /\ engine'[e].pc = "act" /\ engine'[e].groupWork = w
             /\ engine'[e].paused = engine[e].paused /\ engine'[e].receivedPause = engine[e].receivedPause
  <2>1. engine'[e] = [engine[e] EXCEPT !.pc = "act", !.groupWork = w] /\ engine[e] \in EngineType
    BY <1>1, <1>2, <1>4
  <2>. QED  BY <1>1, <2>1 DEF EngineType
<1>5. \A e \in Names : e \notin g => engine'[e] = engine[e]
  BY <1>2
<1>6. engine' \in [Names -> EngineType]
  BY <1>1, <1>2, <1>4, <1>5
<1>. QED  BY <1>3, <1>4, <1>5, <1>6 DEF w

LEMMA EngineType1 ==
  ASSUME TypeInv,
         \/ \E e \in Names : Obey(e)
         \/ \E g \in setup.groups : Reduce(g)
  PROVE  TypeInv'
<1>1. /\ engine' \in [Names -> EngineType]
      /\ UNCHANGED << setup, client, coord, toCoord, toEngine, toClient >>
  BY Obeyed, Reduced DEF Obey, Reduce
<1>2. TypeOK'
  BY <1>1 DEF TypeInv, TypeOK
<1>3. Routes'
  BY <1>1 DEF TypeInv, Routes
<1>. QED  BY <1>2, <1>3 DEF TypeInv

LEMMA NextType == ASSUME TypeInv, [Next]_vars PROVE TypeInv'
<1>1. CASE ClientCall \/ ClientAwait \/ ClientReceive
  BY <1>1, ClientType1
<1>2. CASE \E x \in Names \cup {"client"} : Coordinate(x)
  BY <1>2, CoordinateType
<1>3. CASE \E e \in Names : Drain(e)
  BY <1>3, DrainType
<1>4. CASE \E e \in Names : \E done \in SUBSET Pending(e) : Step(e, done)
  BY <1>4, StepType
<1>5. CASE (\E e \in Names : Obey(e)) \/ (\E g \in setup.groups : Reduce(g))
  BY <1>5, EngineType1
<1>6. CASE UNCHANGED vars
  BY <1>6 DEF vars, TypeInv, TypeOK, Routes
<1>. QED  BY <1>1, <1>2, <1>3, <1>4, <1>5, <1>6 DEF Next

\* Clients, coordinator and engines only ever hold what their types say, and
\* receive only what they know how to handle.
THEOREM TypeCorrect == Spec => []TypeOK
<1>1. Init => TypeInv
  BY InitType
<1>2. TypeInv /\ [Next]_vars => TypeInv'
  BY NextType
<1>3. TypeInv => TypeOK
  BY DEF TypeInv
<1>. QED  BY <1>1, <1>2, <1>3, PTL DEF Spec

-----------------------------------------------------------------------------
(* The client's program                                                    *)

LEMMA ProgramFacts ==
  ASSUME TypeInv
  PROVE  /\ setup \in Setups
         /\ DOMAIN setup.program = 1 .. Len(setup.program) /\ Len(setup.program) \in Nat
         /\ client.at \in Nat \ {0}
         /\ Call \in Calls \cup Awaits => client.at \in DOMAIN setup.program /\ setup.program[client.at] = Call
<1>1. setup \in SetupType /\ setup \in Setups /\ client.at \in Nat \ {0}
  BY CoordinatorAssumption DEF TypeInv, TypeOK, ClientType
<1>2. setup.program \in Seq(Calls \cup Awaits)
  BY <1>1 DEF SetupType
<1>3. "end" \notin Calls \cup Awaits
  BY DEF Calls, Awaits
<1>. QED  BY <1>1, <1>2, <1>3 DEF Call

\* A pause is called when none stands, and stands from then on until an "unpause".
LEMMA AskedByCall ==
  ASSUME TypeInv, ClientsAreCareful, ClientCall
  PROVE  /\ Call \in Pauses => ~Asked /\ Asked'
         /\ Call = "unpause" => ~Asked'
         /\ Call \notin Pauses /\ Call # "unpause" => (Asked' <=> Asked)
<1>. DEFINE p == setup.program
            a == client.at
<1>1. /\ Careful(p) /\ DOMAIN p = 1 .. Len(p) /\ Len(p) \in Nat
      /\ a \in Nat \ {0} /\ a \in DOMAIN p /\ p[a] = Call
  BY ProgramFacts DEF ClientsAreCareful, ClientCall
<1>2. setup' = setup /\ client'.at = a + 1
  BY DEF ClientCall, TypeInv, TypeOK, ClientType
<1>3. Asked' <=> \E i \in DOMAIN p : i < a + 1 /\ p[i] \in Pauses /\ Standing(p, i, a + 1)
  BY <1>2 DEF Asked
<1>4. Asked <=> \E i \in DOMAIN p : i < a /\ p[i] \in Pauses /\ Standing(p, i, a)
  BY DEF Asked
<1>. HIDE DEF p, a
<1>5. Standing(p, a, a + 1)
  BY <1>1 DEF Standing
<1>6. ASSUME NEW i \in DOMAIN p, i < a
      PROVE  Standing(p, i, a + 1) <=> Standing(p, i, a) /\ Call # "unpause"
  <2>1. (i + 1) .. ((a + 1) - 1) = ((i + 1) .. (a - 1)) \cup {a}
    BY <1>1, <1>6
  <2>. QED  BY <1>1, <2>1 DEF Standing
<1>7. \A i \in DOMAIN p : i < a + 1 <=> i < a \/ i = a
  BY <1>1
<1>8. CASE Call \in Pauses
  <2>1. Asked'
    BY <1>1, <1>3, <1>5, <1>7, <1>8
  <2>2. ~Asked
    BY <1>1, <1>4, <1>8 DEF Careful
  <2>3. Call # "unpause"
    BY <1>8 DEF Pauses
  <2>. QED  BY <1>8, <2>1, <2>2, <2>3
<1>9. CASE Call \notin Pauses
  BY <1>1, <1>3, <1>4, <1>6, <1>7, <1>9
<1>. QED  BY <1>8, <1>9

\* Before a revocation the client has awaited the pause.
LEMMA RevokedWhenPaused ==
  ASSUME TypeInv, ClientsAreCareful, Awaited, Asked, ClientCall, Call \in Revocations
  PROVE  client.paused
<1>1. /\ Careful(setup.program) /\ client.at \in DOMAIN setup.program /\ setup.program[client.at] = Call
      /\ DOMAIN setup.program = 1 .. Len(setup.program) /\ Len(setup.program) \in Nat
  BY ProgramFacts DEF ClientsAreCareful, ClientCall
<1>2. PICK i \in DOMAIN setup.program :
        i < client.at /\ setup.program[i] \in Pauses /\ Standing(setup.program, i, client.at)
  BY DEF Asked
<1>3. PICK k \in (i + 1) .. (client.at - 1) : setup.program[k] = "paused"
  BY <1>1, <1>2 DEF Careful
<1>4. k \in DOMAIN setup.program /\ i < k /\ k < client.at
  BY <1>1, <1>2, <1>3
<1>. QED  BY <1>2, <1>3, <1>4 DEF Awaited

LEMMA AskedByAwait ==
  ASSUME TypeInv, ClientAwait
  PROVE  Asked' <=> Asked
<1>. DEFINE p == setup.program
            a == client.at
<1>1. /\ DOMAIN p = 1 .. Len(p) /\ Len(p) \in Nat
      /\ a \in Nat \ {0} /\ a \in DOMAIN p /\ p[a] = Call /\ Call \in Awaits
  BY ProgramFacts DEF ClientAwait, Awaits
<1>2. setup' = setup /\ client'.at = a + 1
  BY DEF ClientAwait, TypeInv, TypeOK, ClientType
<1>3. Asked' <=> \E i \in DOMAIN p : i < a + 1 /\ p[i] \in Pauses /\ Standing(p, i, a + 1)
  BY <1>2 DEF Asked
<1>4. Asked <=> \E i \in DOMAIN p : i < a /\ p[i] \in Pauses /\ Standing(p, i, a)
  BY DEF Asked
<1>. HIDE DEF p, a
<1>5. ASSUME NEW i \in DOMAIN p, i < a
      PROVE  Standing(p, i, a + 1) <=> Standing(p, i, a)
  <2>1. (i + 1) .. ((a + 1) - 1) = ((i + 1) .. (a - 1)) \cup {a} /\ p[a] # "unpause"
    BY <1>1, <1>5 DEF Awaits
  <2>. QED  BY <2>1 DEF Standing
<1>6. \A i \in DOMAIN p : i < a + 1 <=> i < a \/ i = a
  BY <1>1
<1>7. p[a] \notin Pauses
  BY <1>1 DEF Awaits, Pauses
<1>. QED  BY <1>1, <1>3, <1>4, <1>5, <1>6, <1>7

\* The await of a pause returns when the client has been told, and what stands
\* afterwards has stood before.
LEMMA AwaitedStep ==
  ASSUME TypeInv, Awaited, [Next]_vars
  PROVE  Awaited'
<1>. DEFINE p == setup.program
            a == client.at
<1>1. DOMAIN p = 1 .. Len(p) /\ Len(p) \in Nat /\ a \in Nat \ {0} /\ client \in ClientType
  BY ProgramFacts DEF TypeInv, TypeOK
<1>2. CASE ClientCall \/ ClientAwait
  <2>1. setup' = setup /\ client'.at = a + 1 /\ a \in DOMAIN p /\ p[a] = Call
    BY <1>1, <1>2, ProgramFacts DEF ClientCall, ClientAwait, ClientType, Awaits
  <2>. SUFFICES ASSUME NEW i \in DOMAIN p, NEW k \in DOMAIN p, i < k, k < a + 1,
                       p[i] \in Pauses, p[k] = "paused", Standing(p, i, a + 1)
                PROVE  client'.paused
    BY <2>1 DEF Awaited
  <2>2. Standing(p, i, a) /\ i < a /\ (k < a \/ k = a)
    BY <1>1 DEF Standing
  <2>3. p[a] # "unpause"
    <3>1. a \in (i + 1) .. ((a + 1) - 1)
      BY <1>1, <2>2
    <3>. QED  BY <3>1 DEF Standing
  <2>4. CASE k < a
    <3>1. client.paused
      BY <2>2, <2>4 DEF Awaited
    <3>. QED  BY <1>1, <1>2, <2>1, <2>3, <3>1 DEF ClientCall, ClientAwait, ClientType
  <2>5. CASE k = a
    <3>1. Call = "paused"
      BY <2>1, <2>5
    <3>2. ClientAwait /\ client.paused
      BY <1>2, <3>1 DEF ClientCall, ClientAwait, Calls
    <3>. QED  BY <1>1, <3>2 DEF ClientAwait, ClientType
  <2>. QED  BY <2>2, <2>4, <2>5
<1>3. CASE ~(ClientCall \/ ClientAwait)
  <2>1. setup' = setup /\ client'.at = client.at /\ (client.paused => client'.paused)
    <3>1. CASE ClientReceive
      BY <1>1, <3>1 DEF ClientReceive, ClientType
    <3>2. CASE ~ClientReceive
      BY <1>3, <3>2 DEF Next, vars, Coordinate, Drain, Obey, Step, Reduce
    <3>. QED  BY <3>1, <3>2
  <2>. QED  BY <2>1 DEF Awaited
<1>. QED  BY <1>2, <1>3

-----------------------------------------------------------------------------
(* Acknowledgements and rounds                                             *)

Acks == \A e \in Names : Acknowledgements(e)

\* What tells of pauses is as it was.
Same ==
  /\ \A e \in Names :
       /\ engine'[e].receivedPause = engine[e].receivedPause
       /\ Has(toCoord'[e], "PAUSE_ACK") <=> Has(toCoord[e], "PAUSE_ACK")
       /\ Follows(toCoord'[e], "PAUSE_ACK", "PAUSE_ACK") <=> Follows(toCoord[e], "PAUSE_ACK", "PAUSE_ACK")
       /\ Has(toEngine'[e], "PAUSE") <=> Has(toEngine[e], "PAUSE")
       /\ Has(toEngine'[e], "PAUSE_ACK") <=> Has(toEngine[e], "PAUSE_ACK")
       /\ Follows(toEngine'[e], "PAUSE", "PAUSE") <=> Follows(toEngine[e], "PAUSE", "PAUSE")
       /\ Follows(toEngine'[e], "PAUSE", "PAUSE_ACK") <=> Follows(toEngine[e], "PAUSE", "PAUSE_ACK")
  /\ coord'.pauseAcks = coord.pauseAcks
  /\ Has(toCoord'["client"], "PAUSE") <=> Has(toCoord["client"], "PAUSE")
  /\ Has(toCoord'["client"], "UNPAUSE") <=> Has(toCoord["client"], "UNPAUSE")
  /\ Follows(toCoord'["client"], "PAUSE", "PAUSE") <=> Follows(toCoord["client"], "PAUSE", "PAUSE")
  /\ Follows(toCoord'["client"], "PAUSE", "UNPAUSE") <=> Follows(toCoord["client"], "PAUSE", "UNPAUSE")
  /\ client'.paused = client.paused
  /\ Asked' = Asked
  /\ Has(toClient', "PAUSE_ACK") <=> Has(toClient, "PAUSE_ACK")
  /\ Follows(toClient', "PAUSE_ACK", "PAUSE_ACK") <=> Follows(toClient, "PAUSE_ACK", "PAUSE_ACK")

LEMMA Undisturbed ==
  ASSUME Acks, Rounds, Same
  PROVE  Acks' /\ Rounds'
<1>1. Acks'
  BY DEF Acks, Acknowledgements, Same
<1>2. Calm' <=> Calm
  BY DEF Calm, Same
<1>3. Told' <=> Told
  BY DEF Told, Same
<1>4. Rounds'
  BY <1>2, <1>3 DEF Rounds, Same
<1>. QED  BY <1>1, <1>4

LEMMA AskedSame == ASSUME setup' = setup, client'.at = client.at PROVE Asked' = Asked
BY DEF Asked

LEMMA RoundsCall ==
  ASSUME TypeInv, ClientsAreCareful, Acks, Rounds, Awaited, ClientCall
  PROVE  Acks' /\ Rounds'
<1>. DEFINE c == toCoord["client"]
            d == toCoord'["client"]
<1>1. /\ UNCHANGED << coord, engine, toEngine, toClient >>
      /\ Call \in Calls
      /\ client'.paused <=> Call # "unpause" /\ client.paused
      /\ \A e \in Names : toCoord'[e] = toCoord[e]
  BY CallFacts DEF ClientCall, TypeInv, TypeOK, ClientType
<1>2. /\ Has(d, "PAUSE") <=> Has(c, "PAUSE") \/ Call \in Pauses
      /\ Has(d, "UNPAUSE") <=> Has(c, "UNPAUSE") \/ Call \in Revocations
      /\ Follows(d, "PAUSE", "PAUSE") =>
           Follows(c, "PAUSE", "PAUSE") \/ (Has(c, "PAUSE") /\ Has(SentBy(Call), "PAUSE"))
      /\ Follows(d, "PAUSE", "UNPAUSE") =>
           Follows(c, "PAUSE", "UNPAUSE") \/ (Has(c, "PAUSE") /\ Has(SentBy(Call), "UNPAUSE"))
  BY CallFacts
<1>3. Has(SentBy(Call), "PAUSE") <=> Call \in Pauses
  BY SentByFacts DEF ClientCall, TypeInv
<1>4. Has(SentBy(Call), "UNPAUSE") <=> Call \in Revocations
  BY SentByFacts DEF ClientCall, TypeInv
<1>5. /\ Call \in Pauses => ~Asked /\ Asked'
      /\ Call = "unpause" => ~Asked'
      /\ Call \notin Pauses /\ Call # "unpause" => (Asked' <=> Asked)
  BY AskedByCall
<1>6. Asked /\ Call \in Revocations => client.paused
  BY RevokedWhenPaused
<1>7. Acks'
  BY <1>1 DEF Acks, Acknowledgements
<1>8. Calm' <=> Calm
  BY <1>1 DEF Calm
<1>9. Told' <=> (Call # "unpause" /\ client.paused) \/ Has(toClient, "PAUSE_ACK")
  BY <1>1 DEF Told
<1>10. ~(Call \in Pauses /\ Call \in Revocations) /\ "unpause" \in Revocations /\ "unpause" \notin Pauses
  BY DEF Pauses, Revocations
<1>11. coord'.pauseAcks = coord.pauseAcks /\ toClient' = toClient
  BY <1>1
<1>. HIDE DEF c, d
<1>12. /\ ~Follows(c, "PAUSE", "PAUSE") /\ ~Follows(c, "PAUSE", "UNPAUSE")
       /\ Has(c, "PAUSE") \/ Has(c, "UNPAUSE") => Calm
       /\ Has(c, "PAUSE") => coord.pauseAcks = {} \/ Has(c, "UNPAUSE")
       /\ ~Asked => ~Told /\ Calm /\ ~Has(c, "PAUSE") /\ (coord.pauseAcks = {} \/ Has(c, "UNPAUSE"))
       /\ Asked /\ ~Told => Has(c, "PAUSE") \/ (~Has(c, "UNPAUSE") /\ coord.pauseAcks # Names)
       /\ Told => Calm /\ ~Has(c, "PAUSE")
       /\ ~(client.paused /\ Has(toClient, "PAUSE_ACK"))
       /\ ~Follows(toClient, "PAUSE_ACK", "PAUSE_ACK")
  BY DEF Rounds, c
<1>13. Told <=> client.paused \/ Has(toClient, "PAUSE_ACK")
  BY DEF Told
<1>14. Call \in Revocations => Calm /\ ~Has(c, "PAUSE") /\ ~Has(toClient, "PAUSE_ACK")
  BY <1>6, <1>12, <1>13
<1>15. ~Follows(d, "PAUSE", "PAUSE") /\ ~Follows(d, "PAUSE", "UNPAUSE")
  BY <1>2, <1>3, <1>4, <1>5, <1>12, <1>14
<1>16. Has(d, "PAUSE") \/ Has(d, "UNPAUSE") => Calm'
  BY <1>2, <1>5, <1>8, <1>12, <1>14
<1>17. Has(d, "PAUSE") => coord'.pauseAcks = {} \/ Has(d, "UNPAUSE")
  BY <1>2, <1>5, <1>11, <1>12
<1>18. ~Asked' => ~Told' /\ Calm' /\ ~Has(d, "PAUSE") /\ (coord'.pauseAcks = {} \/ Has(d, "UNPAUSE"))
  BY <1>2, <1>5, <1>8, <1>9, <1>10, <1>11, <1>12, <1>13, <1>14
<1>19. Asked' /\ ~Told' => Has(d, "PAUSE") \/ (~Has(d, "UNPAUSE") /\ coord'.pauseAcks # Names)
  BY <1>2, <1>5, <1>6, <1>9, <1>10, <1>11, <1>12, <1>13
<1>20. Told' => Calm' /\ ~Has(d, "PAUSE")
  BY <1>2, <1>5, <1>8, <1>9, <1>12, <1>13
<1>21. ~(client'.paused /\ Has(toClient', "PAUSE_ACK")) /\ ~Follows(toClient', "PAUSE_ACK", "PAUSE_ACK")
  BY <1>1, <1>11, <1>12
<1>22. Rounds'
  BY <1>15, <1>16, <1>17, <1>18, <1>19, <1>20, <1>21 DEF Rounds, d
<1>. QED  BY <1>7, <1>22

LEMMA RoundsAwait ==
  ASSUME TypeInv, Acks, Rounds, ClientAwait
  PROVE  Acks' /\ Rounds'
<1>1. /\ UNCHANGED << setup, coord, engine, toCoord, toEngine, toClient >>
      /\ client'.paused = client.paused
  BY DEF ClientAwait, TypeInv, TypeOK, ClientType
<1>2. Asked' = Asked
  BY AskedByAwait DEF Asked
<1>3. Same
  BY <1>1, <1>2 DEF Same
<1>. QED  BY <1>3, Undisturbed

\* The acknowledgement of all comes once in a round.
LEMMA RoundsReceive ==
  ASSUME TypeInv, Acks, Rounds, ClientReceive
  PROVE  Acks' /\ Rounds'
<1>. DEFINE m == Head(toClient)
<1>1. UNCHANGED << setup, coord, engine, toCoord, toEngine >> /\ toClient' = Tail(toClient)
  BY DEF ClientReceive
<1>2. client'.at = client.at /\ (client'.paused <=> client.paused \/ m.header = "PAUSE_ACK")
  BY DEF ClientReceive, TypeInv, TypeOK, ClientType
<1>3. /\ \A h : Has(toClient, h) <=> m.header = h \/ Has(Tail(toClient), h)
      /\ \A h, k : Follows(toClient, h, k) <=>
                     Follows(Tail(toClient), h, k) \/ (m.header = h /\ Has(Tail(toClient), k))
  BY HasTail DEF ClientReceive, TypeInv, TypeOK
<1>4. Asked' = Asked
  BY <1>1, <1>2, AskedSame
<1>5. Acks'
  BY <1>1 DEF Acks, Acknowledgements
<1>6. Calm' <=> Calm
  BY <1>1 DEF Calm
<1>. HIDE DEF m
<1>7. Told' <=> Told
  BY <1>1, <1>2, <1>3 DEF Told
<1>8. ~(client'.paused /\ Has(toClient', "PAUSE_ACK")) /\ ~Follows(toClient', "PAUSE_ACK", "PAUSE_ACK")
  BY <1>1, <1>2, <1>3 DEF Rounds
<1>9. Rounds'
  BY <1>1, <1>4, <1>6, <1>7, <1>8 DEF Rounds
<1>. QED  BY <1>5, <1>9

\* What the coordinator takes from an engine has nothing to do with the client's
\* messages, and the other way round.
LEMMA RoundsCoordinate ==
  ASSUME TypeInv, Acks, Rounds, NEW x \in Names \cup {"client"}, Coordinate(x)
  PROVE  Acks' /\ Rounds'
<1>. DEFINE m == Head(toCoord[x])
            c == toCoord["client"]
            d == toCoord'["client"]
<1>1. /\ m \in Message
      /\ x = "client" => m.header \in FromClient
      /\ x \in Names => m.header \in FromEngine
      /\ \A y \in Names \cup {"client"} : y # x => toCoord'[y] = toCoord[y]
      /\ \A h : Has(toCoord[x], h) <=> m.header = h \/ Has(toCoord'[x], h)
      /\ \A h, k : Follows(toCoord[x], h, k) <=>
                     Follows(toCoord'[x], h, k) \/ (m.header = h /\ Has(toCoord'[x], k))
  BY Received
<1>2. /\ setup' = setup /\ client' = client /\ engine' = engine
      /\ RouteRequest(m) \/ Broadcast(m) \/ CollectPauseAck(x, m) \/ CollectStopAck(x, m) \/ ForwardReply(m)
  BY DEF Coordinate
<1>3. Asked' = Asked
  BY <1>2, AskedSame
<1>4. "client" \notin Names /\ Names # {} /\ coord \in CoordType
  <2>1. Engines \in Seq(Names) /\ Engines # << >> /\ "client" \notin Names
    BY CoordinatorAssumption
  <2>2. 1 \in 1 .. Len(Engines)
    BY <2>1, EmptySeq
  <2>3. Engines[1] \in Names
    BY <2>1, <2>2, ElementOfSeq
  <2>. QED  BY <2>1, <2>3 DEF TypeInv, TypeOK
<1>5. /\ {"PAUSE", "PAUSE_ACK", "STOP_ACK", "UNPAUSE", "SUSPEND", "RESUME", "STOP"} \subseteq Headers
  BY DEF Headers
<1>6. ASSUME m.header \notin {"PAUSE", "UNPAUSE", "PAUSE_ACK"}
      PROVE  /\ \A e \in Names :
                  /\ Has(toCoord'[e], "PAUSE_ACK") <=> Has(toCoord[e], "PAUSE_ACK")
                  /\ Follows(toCoord'[e], "PAUSE_ACK", "PAUSE_ACK") <=> Follows(toCoord[e], "PAUSE_ACK", "PAUSE_ACK")
             /\ Has(d, "PAUSE") <=> Has(c, "PAUSE")
             /\ Has(d, "UNPAUSE") <=> Has(c, "UNPAUSE")
             /\ Follows(d, "PAUSE", "PAUSE") <=> Follows(c, "PAUSE", "PAUSE")
             /\ Follows(d, "PAUSE", "UNPAUSE") <=> Follows(c, "PAUSE", "UNPAUSE")
  <2>1. \A e \in Names :
                  /\ Has(toCoord'[e], "PAUSE_ACK") <=> Has(toCoord[e], "PAUSE_ACK")
                  /\ Follows(toCoord'[e], "PAUSE_ACK", "PAUSE_ACK") <=> Follows(toCoord[e], "PAUSE_ACK", "PAUSE_ACK")
    <3>. SUFFICES ASSUME NEW e \in Names
                  PROVE  /\ Has(toCoord'[e], "PAUSE_ACK") <=> Has(toCoord[e], "PAUSE_ACK")
                         /\ Follows(toCoord'[e], "PAUSE_ACK", "PAUSE_ACK") <=> Follows(toCoord[e], "PAUSE_ACK", "PAUSE_ACK")
      OBVIOUS
    <3>. HIDE DEF m
    <3>1. CASE e = x
      BY <1>1, <1>6, <3>1
    <3>2. CASE e # x
      BY <1>1, <3>2
    <3>. QED  BY <3>1, <3>2
  <2>2. CASE x = "client"
    <3>. HIDE DEF m
    <3>. QED  BY <1>1, <1>6, <2>1, <2>2
  <2>3. CASE x # "client"
    <3>1. d = c
      BY <1>1, <2>3
    <3>. QED  BY <2>1, <3>1
  <2>. QED  BY <2>2, <2>3
<1>. HIDE DEF m, c, d
<1>7. ASSUME NEW h \in Headers, toEngine' = ToEveryEngine(h)
      PROVE  \A e \in Names :
               /\ \A k : Has(toEngine'[e], k) <=> Has(toEngine[e], k) \/ h = k
               /\ \A j, k : Follows(toEngine'[e], j, k) <=>
                              Follows(toEngine[e], j, k) \/ (Has(toEngine[e], j) /\ h = k)
  BY <1>7, SentToAll
<1>8. toClient' = Append(toClient, m) =>
        /\ Has(toClient', "PAUSE_ACK") <=> Has(toClient, "PAUSE_ACK") \/ m.header = "PAUSE_ACK"
        /\ Follows(toClient', "PAUSE_ACK", "PAUSE_ACK") <=>
             Follows(toClient, "PAUSE_ACK", "PAUSE_ACK") \/ (Has(toClient, "PAUSE_ACK") /\ m.header = "PAUSE_ACK")
  BY <1>1, SentToClient
<1>9. ASSUME NEW h \in Headers \ {"PAUSE", "PAUSE_ACK"}, toEngine' = toEngine \/ toEngine' = ToEveryEngine(h)
      PROVE  \A e \in Names :
               /\ Has(toEngine'[e], "PAUSE") <=> Has(toEngine[e], "PAUSE")
               /\ Has(toEngine'[e], "PAUSE_ACK") <=> Has(toEngine[e], "PAUSE_ACK")
               /\ Follows(toEngine'[e], "PAUSE", "PAUSE") <=> Follows(toEngine[e], "PAUSE", "PAUSE")
               /\ Follows(toEngine'[e], "PAUSE", "PAUSE_ACK") <=> Follows(toEngine[e], "PAUSE", "PAUSE_ACK")
  <2>1. CASE toEngine' = toEngine
    BY <2>1
  <2>2. CASE toEngine' = ToEveryEngine(h)
    BY <1>7, <2>2
  <2>. QED  BY <1>9, <2>1, <2>2
<1>10. CASE RouteRequest(m)
  <2>1. m.header = "SUBMIT_REQUEST" /\ toClient' = toClient
    BY <1>10 DEF RouteRequest
  <2>2. /\ coord'.pauseAcks = coord.pauseAcks
        /\ \A e \in Names :
               /\ Has(toEngine'[e], "PAUSE") <=> Has(toEngine[e], "PAUSE")
               /\ Has(toEngine'[e], "PAUSE_ACK") <=> Has(toEngine[e], "PAUSE_ACK")
               /\ Follows(toEngine'[e], "PAUSE", "PAUSE") <=> Follows(toEngine[e], "PAUSE", "PAUSE")
               /\ Follows(toEngine'[e], "PAUSE", "PAUSE_ACK") <=> Follows(toEngine[e], "PAUSE", "PAUSE_ACK")
    BY <1>1, <1>5, <1>10, Routed
  <2>3. Same
    BY <1>2, <1>3, <1>6, <2>1, <2>2 DEF Same, c, d
  <2>. QED  BY <2>3, Undisturbed
<1>11. CASE ForwardReply(m)
  <2>1. m.header = "ENGINE_REPLY" /\ toClient' = Append(toClient, m) /\ coord' = coord /\ toEngine' = toEngine
    BY <1>11 DEF ForwardReply
  <2>2. Same
    BY <1>2, <1>3, <1>6, <1>8, <2>1 DEF Same, c, d
  <2>. QED  BY <2>2, Undisturbed
<1>12. CASE CollectStopAck(x, m)
  <2>1. /\ m.header = "STOP_ACK"
        /\ toEngine' = toEngine \/ toEngine' = ToEveryEngine("STOP_ACK")
        /\ toClient' = toClient \/ toClient' = Append(toClient, m)
        /\ coord'.pauseAcks = coord.pauseAcks
    <3>1. CASE x \in coord.stopAcks
      BY <1>4, <1>12, <3>1 DEF CollectStopAck, CoordType
    <3>2. CASE x \notin coord.stopAcks
      BY <1>4, <1>12, <3>2 DEF CollectStopAck, CoordType
    <3>. QED  BY <3>1, <3>2
  <2>2. \A e \in Names :
               /\ Has(toEngine'[e], "PAUSE") <=> Has(toEngine[e], "PAUSE")
               /\ Has(toEngine'[e], "PAUSE_ACK") <=> Has(toEngine[e], "PAUSE_ACK")
               /\ Follows(toEngine'[e], "PAUSE", "PAUSE") <=> Follows(toEngine[e], "PAUSE", "PAUSE")
               /\ Follows(toEngine'[e], "PAUSE", "PAUSE_ACK") <=> Follows(toEngine[e], "PAUSE", "PAUSE_ACK")
    BY <1>5, <1>9, <2>1
  <2>3. Same
    BY <1>2, <1>3, <1>6, <1>8, <2>1, <2>2 DEF Same, c, d
  <2>. QED  BY <2>3, Undisturbed
<1>13. CASE Broadcast(m) /\ m.header \in {"SUSPEND", "RESUME", "STOP"}
  <2>1. /\ toEngine' = ToEveryEngine(m.header) /\ toClient' = toClient
        /\ coord'.pauseAcks = coord.pauseAcks
    BY <1>4, <1>13 DEF Broadcast, CoordType
  <2>2. m.header \in Headers \ {"PAUSE", "PAUSE_ACK"}
    BY <1>5, <1>13
  <2>3. \A e \in Names :
               /\ Has(toEngine'[e], "PAUSE") <=> Has(toEngine[e], "PAUSE")
               /\ Has(toEngine'[e], "PAUSE_ACK") <=> Has(toEngine[e], "PAUSE_ACK")
               /\ Follows(toEngine'[e], "PAUSE", "PAUSE") <=> Follows(toEngine[e], "PAUSE", "PAUSE")
               /\ Follows(toEngine'[e], "PAUSE", "PAUSE_ACK") <=> Follows(toEngine[e], "PAUSE", "PAUSE_ACK")
    BY <1>9, <2>1, <2>2
  <2>4. Same
    BY <1>2, <1>3, <1>6, <1>13, <2>1, <2>3 DEF Same, c, d
  <2>. QED  BY <2>4, Undisturbed
<1>14. ASSUME Broadcast(m) PROVE x = "client" /\ m.header \in Headers
  <2>1. m.header \notin FromEngine
    BY <1>14 DEF Broadcast, FromEngine
  <2>. QED  BY <1>1, <2>1 DEF Message
<1>15. ASSUME x = "client"
       PROVE  /\ \A e \in Names : toCoord'[e] = toCoord[e]
              /\ \A h : Has(c, h) <=> m.header = h \/ Has(d, h)
              /\ \A h, k : Follows(c, h, k) <=> Follows(d, h, k) \/ (m.header = h /\ Has(d, k))
  BY <1>1, <1>4, <1>15 DEF c, d
<1>16. CASE Broadcast(m) /\ m.header = "PAUSE"
  \* A pause reaches the engines when none is under way.
  <2>1. /\ toEngine' = ToEveryEngine("PAUSE") /\ toClient' = toClient
        /\ coord'.pauseAcks = coord.pauseAcks
    BY <1>4, <1>16 DEF Broadcast, CoordType
  <2>2. /\ Has(c, "PAUSE") /\ ~Has(d, "PAUSE") /\ ~Has(d, "UNPAUSE")
        /\ ~Has(c, "UNPAUSE")
        /\ ~Follows(d, "PAUSE", "PAUSE") /\ ~Follows(d, "PAUSE", "UNPAUSE")
    BY <1>14, <1>15, <1>16 DEF Rounds, c
  <2>3. Calm /\ coord.pauseAcks = {} /\ Asked /\ ~Told
    BY <2>2 DEF Rounds, c
  <2>4. \A e \in Names :
               /\ ~Has(toEngine[e], "PAUSE") /\ ~Has(toCoord'[e], "PAUSE_ACK")
               /\ Has(toEngine'[e], "PAUSE_ACK") <=> Has(toEngine[e], "PAUSE_ACK")
               /\ ~Follows(toEngine'[e], "PAUSE", "PAUSE")
               /\ ~Follows(toEngine'[e], "PAUSE", "PAUSE_ACK")
               /\ toCoord'[e] = toCoord[e]
    BY <1>5, <1>7, <1>14, <1>15, <1>16, <2>1, <2>3 DEF Calm, Acks, Acknowledgements
  <2>5. Acks'
    BY <1>2, <2>1, <2>3, <2>4 DEF Acks, Acknowledgements
  <2>6. ~Told'
    BY <1>2, <2>1, <2>3 DEF Told
  <2>7. Rounds'
    BY <1>2, <1>3, <1>4, <2>1, <2>2, <2>3, <2>6 DEF Rounds, d
  <2>. QED  BY <2>5, <2>7
<1>17. CASE Broadcast(m) /\ m.header = "UNPAUSE"
  <2>1. /\ toEngine' = ToEveryEngine("UNPAUSE") /\ toClient' = toClient
        /\ coord'.pauseAcks = {}
    BY <1>4, <1>17 DEF Broadcast, CoordType
  <2>2. /\ Has(c, "UNPAUSE") /\ (Has(d, "PAUSE") <=> Has(c, "PAUSE"))
        /\ Follows(d, "PAUSE", "PAUSE") <=> Follows(c, "PAUSE", "PAUSE")
        /\ Follows(d, "PAUSE", "UNPAUSE") <=> Follows(c, "PAUSE", "UNPAUSE")
    BY <1>14, <1>15, <1>17
  <2>3. Calm
    BY <2>2 DEF Rounds, c
  <2>4. \A e \in Names :
               /\ Has(toEngine'[e], "PAUSE") <=> Has(toEngine[e], "PAUSE")
               /\ Has(toEngine'[e], "PAUSE_ACK") <=> Has(toEngine[e], "PAUSE_ACK")
               /\ Follows(toEngine'[e], "PAUSE", "PAUSE") <=> Follows(toEngine[e], "PAUSE", "PAUSE")
               /\ Follows(toEngine'[e], "PAUSE", "PAUSE_ACK") <=> Follows(toEngine[e], "PAUSE", "PAUSE_ACK")
    BY <1>5, <1>9, <2>1
  <2>5. \A e \in Names : toCoord'[e] = toCoord[e] /\ engine'[e] = engine[e]
    BY <1>2, <1>14, <1>15, <1>17
  <2>6. Acks'
    BY <2>1, <2>4, <2>5 DEF Acks, Acknowledgements
  <2>7. Calm'
    BY <2>1, <2>3, <2>4, <2>5 DEF Calm
  <2>8. Told' <=> Told
    BY <1>2, <2>1 DEF Told
  <2>9. client'.paused = client.paused /\ toClient' = toClient
    BY <1>2, <2>1
  <2>10. Rounds'
    BY <1>3, <2>1, <2>2, <2>7, <2>8, <2>9 DEF Rounds, c, d
  <2>. QED  BY <2>6, <2>10
<1>18. CASE CollectPauseAck(x, m)
  <2>1. m.header = "PAUSE_ACK" /\ x \in Names /\ x # "client"
    BY <1>1, <1>4, <1>18 DEF CollectPauseAck, FromClient
  <2>2. /\ Has(toCoord[x], "PAUSE_ACK")
        /\ ~Has(toCoord'[x], "PAUSE_ACK") /\ ~Follows(toCoord'[x], "PAUSE_ACK", "PAUSE_ACK")
        /\ d = c
        /\ \A e \in Names : e # x => toCoord'[e] = toCoord[e]
    <3>1. Has(toCoord[x], "PAUSE_ACK") /\ ~Follows(toCoord[x], "PAUSE_ACK", "PAUSE_ACK")
      BY <1>1, <2>1 DEF Acks, Acknowledgements
    <3>2. ~Has(toCoord'[x], "PAUSE_ACK") /\ ~Follows(toCoord'[x], "PAUSE_ACK", "PAUSE_ACK")
      BY <1>1, <2>1, <3>1
    <3>3. d = c
      BY <1>1, <2>1 DEF c, d
    <3>. QED  BY <1>1, <3>1, <3>2, <3>3
  <2>3. /\ engine[x].receivedPause /\ x \notin coord.pauseAcks
        /\ ~Has(toEngine[x], "PAUSE_ACK") /\ ~Has(toEngine[x], "PAUSE")
    BY <2>1, <2>2 DEF Acks, Acknowledgements
  <2>4. coord.pauseAcks # Names
    BY <2>1, <2>3
  <2>5. ~Calm /\ Asked /\ ~Told /\ ~Has(c, "PAUSE") /\ ~Has(c, "UNPAUSE")
    <3>1. ~Calm
      BY <2>1, <2>2 DEF Calm
    <3>. QED  BY <3>1 DEF Rounds, c
  <2>6. coord'.pauseAcks = coord.pauseAcks \cup {x}
    BY <1>4, <1>18, <2>3 DEF CollectPauseAck, CoordType
  <2>7. ~client.paused /\ ~Has(toClient, "PAUSE_ACK") /\ ~Follows(toClient, "PAUSE_ACK", "PAUSE_ACK")
    BY <2>5 DEF Told, Rounds
  <2>8. CASE coord.pauseAcks \cup {x} # Names
    <3>1. toEngine' = toEngine /\ toClient' = toClient
      BY <1>18, <2>3, <2>8 DEF CollectPauseAck
    <3>2. Acks'
      <4>. SUFFICES ASSUME NEW e \in Names PROVE Acknowledgements(e)'
        BY DEF Acks
      <4>1. CASE e = x
        BY <1>2, <2>1, <2>2, <2>3, <2>6, <3>1, <4>1 DEF Acks, Acknowledgements
      <4>2. CASE e # x
        <5>1. e \in coord'.pauseAcks <=> e \in coord.pauseAcks
          BY <2>6, <4>2
        <5>2. Acknowledgements(e)
          BY DEF Acks
        <5>. QED  BY <1>2, <2>2, <2>4, <3>1, <4>2, <5>1, <5>2 DEF Acknowledgements
      <4>. QED  BY <4>1, <4>2
    <3>3. ~Told'
      BY <1>2, <2>5, <3>1 DEF Told
    <3>4. Rounds'
      BY <1>2, <1>3, <2>2, <2>5, <2>6, <2>7, <2>8, <3>1, <3>3 DEF Rounds, c, d
    <3>. QED  BY <3>2, <3>4
  <2>9. CASE coord.pauseAcks \cup {x} = Names
    \* Every engine has acknowledged, and none has anything of this round left.
    <3>1. toEngine' = ToEveryEngine("PAUSE_ACK") /\ toClient' = Append(toClient, m) /\ coord'.pauseAcks = Names
      BY <1>18, <2>3, <2>6, <2>9 DEF CollectPauseAck
    <3>2. ASSUME NEW e \in Names
          PROVE  /\ engine'[e].receivedPause
                 /\ ~Has(toCoord'[e], "PAUSE_ACK") /\ ~Has(toEngine[e], "PAUSE")
                 /\ ~Follows(toCoord'[e], "PAUSE_ACK", "PAUSE_ACK")
      <4>1. CASE e = x
        BY <1>2, <2>2, <2>3, <4>1
      <4>2. CASE e # x
        <5>1. e \in coord.pauseAcks /\ Acknowledgements(e)
          BY <2>9, <4>2 DEF Acks
        <5>. QED  BY <1>2, <2>2, <2>4, <4>2, <5>1 DEF Acknowledgements
      <4>. QED  BY <4>1, <4>2
    <3>3. \A e \in Names :
            /\ ~Has(toEngine'[e], "PAUSE")
            /\ ~Follows(toEngine'[e], "PAUSE", "PAUSE")
            /\ ~Follows(toEngine'[e], "PAUSE", "PAUSE_ACK")
      BY <1>5, <1>7, <3>1, <3>2, SMTT(30) DEF Acks, Acknowledgements
    <3>4. Acks'
      BY <3>1, <3>2, <3>3 DEF Acks, Acknowledgements
    <3>5. Calm'
      BY <3>1, <3>2, <3>3 DEF Calm
    <3>6. Has(toClient', "PAUSE_ACK") /\ ~Follows(toClient', "PAUSE_ACK", "PAUSE_ACK") /\ ~client'.paused
      BY <1>2, <1>8, <2>1, <2>7, <3>1
    <3>7. Rounds'
      BY <1>3, <2>2, <2>5, <3>5, <3>6 DEF Rounds, Told, c, d
    <3>. QED  BY <3>4, <3>7
  <2>. QED  BY <2>8, <2>9
<1>19. Broadcast(m) => m.header \in {"PAUSE", "UNPAUSE", "SUSPEND", "RESUME", "STOP"}
  BY DEF Broadcast
<1>. QED  BY <1>2, <1>10, <1>11, <1>12, <1>13, <1>16, <1>17, <1>18, <1>19

LEMMA RoundsDrain ==
  ASSUME TypeInv, Acks, Rounds, NEW e \in Names, Drain(e)
  PROVE  Acks' /\ Rounds'
<1>1. UNCHANGED << setup, client, coord, toClient >>
  BY DEF Drain
<1>2. /\ \A f \in Names : f # e => engine'[f] = engine[f] /\ toCoord'[f] = toCoord[f] /\ toEngine'[f] = toEngine[f]
      /\ toCoord'["client"] = toCoord["client"]
      /\ engine[e].receivedPause => engine'[e].receivedPause \/ Has(toEngine[e], "PAUSE_ACK")
      /\ \A h : ~Has(toEngine'[e], h)
      /\ \A h, k : ~Follows(toEngine'[e], h, k)
      /\ Has(toCoord'[e], "PAUSE_ACK") =>
              \/ Has(toCoord[e], "PAUSE_ACK")
              \/ /\ Has(toEngine[e], "PAUSE")
                 /\ engine'[e].receivedPause \/ Follows(toEngine[e], "PAUSE", "PAUSE_ACK")
      /\ Follows(toCoord'[e], "PAUSE_ACK", "PAUSE_ACK") =>
              \/ Follows(toCoord[e], "PAUSE_ACK", "PAUSE_ACK")
              \/ Follows(toEngine[e], "PAUSE", "PAUSE")
              \/ Has(toCoord[e], "PAUSE_ACK") /\ Has(toEngine[e], "PAUSE")
  BY Drained
<1>3. Acknowledgements(e)
  BY DEF Acks
<1>4. Acknowledgements(e)'
  BY <1>1, <1>2, <1>3 DEF Acknowledgements
<1>5. Acks'
  <2>. SUFFICES ASSUME NEW f \in Names, f # e PROVE Acknowledgements(f)'
    BY <1>4 DEF Acks
  <2>. QED  BY <1>1, <1>2 DEF Acks, Acknowledgements
<1>6. Calm => Calm'
  BY <1>1, <1>2 DEF Calm
<1>7. Asked' = Asked /\ Told' = Told
  BY <1>1, AskedSame DEF Told
<1>8. Rounds'
  BY <1>1, <1>2, <1>6, <1>7 DEF Rounds
<1>. QED  BY <1>5, <1>8

LEMMA RoundsElsewhere ==
  ASSUME TypeInv, Acks, Rounds,
         \/ \E e \in Names : \E done \in SUBSET Pending(e) : Step(e, done)
         \/ \E e \in Names : Obey(e)
         \/ \E g \in setup.groups : Reduce(g)
  PROVE  Acks' /\ Rounds'
<1>1. UNCHANGED << setup, client, coord, toEngine, toClient >>
  BY DEF Step, Obey, Reduce
<1>2. Asked' = Asked
  BY <1>1, AskedSame
<1>3. "PAUSE_ACK" \in Headers
  BY DEF Headers
<1>4. CASE \E e \in Names : \E done \in SUBSET Pending(e) : Step(e, done)
  <2>1. PICK e \in Names : \E done \in SUBSET Pending(e) : Step(e, done)
    BY <1>4
  <2>2. /\ \A f \in Names : f # e => engine'[f] = engine[f] /\ toCoord'[f] = toCoord[f]
        /\ toCoord'["client"] = toCoord["client"]
        /\ engine'[e].receivedPause = engine[e].receivedPause
        /\ Has(toCoord'[e], "PAUSE_ACK") <=> Has(toCoord[e], "PAUSE_ACK")
        /\ Follows(toCoord'[e], "PAUSE_ACK", "PAUSE_ACK") <=> Follows(toCoord[e], "PAUSE_ACK", "PAUSE_ACK")
    BY <1>3, <2>1, Stepped
  <2>3. Same
    BY <1>1, <1>2, <2>2 DEF Same
  <2>. QED  BY <2>3, Undisturbed
<1>5. CASE \E e \in Names : Obey(e)
  <2>1. \A f \in Names : engine'[f].receivedPause = engine[f].receivedPause
    BY <1>5, Obeyed
  <2>2. toCoord' = toCoord
    BY <1>5 DEF Obey
  <2>3. Same
    BY <1>1, <1>2, <2>1, <2>2 DEF Same
  <2>. QED  BY <2>3, Undisturbed
<1>6. CASE \E g \in setup.groups : Reduce(g)
  <2>1. \A f \in Names : engine'[f].receivedPause = engine[f].receivedPause
    BY <1>6, Reduced
  <2>2. toCoord' = toCoord
    BY <1>6 DEF Reduce
  <2>3. Same
    BY <1>1, <1>2, <2>1, <2>2 DEF Same
  <2>. QED  BY <2>3, Undisturbed
<1>. QED  BY <1>4, <1>5, <1>6

-----------------------------------------------------------------------------
(* The groups                                                              *)

\* An engine that nobody has paused, and that the acknowledgement under way
\* cannot pause, does not become paused while its group acts.
LEMMA GroupsStep ==
  ASSUME TypeInv, Acks, GroupsAwake, [Next]_vars
  PROVE  GroupsAwake'
<1>1. /\ setup \in Setups /\ UNION setup.groups = Names
      /\ \A g, h \in setup.groups : g # h => g \cap h = {}
  BY ProgramFacts, CoordinatorAssumption
<1>2. setup' = setup
  BY DEF Next, vars, ClientCall, ClientAwait, ClientReceive, Coordinate, Drain, Obey, Step, Reduce
<1>3. CASE engine' = engine
  BY <1>2, <1>3 DEF GroupsAwake, Awake
<1>4. ASSUME NEW e \in Names,
             \A f \in Names : f # e => engine'[f] = engine[f],
             engine'[e].pc # "act",
             Awake(e) => Awake(e)'
      PROVE  GroupsAwake'
  <2>. SUFFICES ASSUME NEW g \in setup.groups,
                       NEW f \in g, engine'[f].pc = "act" /\ engine'[f].groupWork
                PROVE  \E a \in g : Awake(a)'
    BY <1>2 DEF GroupsAwake
  <2>1. f # e /\ f \in Names /\ g \subseteq Names
    BY <1>1, <1>4
  <2>2. PICK a \in g : Awake(a)
    BY <1>4, <2>1 DEF GroupsAwake
  <2>3. Awake(a)'
    BY <1>4, <2>1, <2>2 DEF Awake
  <2>. QED  BY <2>3
<1>5. ASSUME NEW e \in Names, Drain(e) PROVE GroupsAwake'
  <2>1. /\ \A f \in Names : f # e => engine'[f] = engine[f]
        /\ engine[e].pc = "drain" /\ engine'[e].pc \in {"reduce", "failed"}
        /\ engine'[e].paused => engine[e].paused \/ Has(toEngine[e], "PAUSE_ACK")
    BY <1>5, Drained
  <2>2. Has(toEngine[e], "PAUSE_ACK") => engine[e].receivedPause
    BY DEF Acks, Acknowledgements
  <2>3. Awake(e) => Awake(e)'
    BY <2>1, <2>2 DEF Awake
  <2>. QED  BY <1>4, <2>1, <2>3
<1>6. ASSUME NEW e \in Names, Obey(e) PROVE GroupsAwake'
  <2>1. /\ \A f \in Names : f # e => engine'[f] = engine[f]
        /\ engine[e].pc = "act" /\ engine'[e].pc \in {"drain", "stopped"}
        /\ engine'[e].paused = engine[e].paused
        /\ engine'[e].receivedPause = engine[e].receivedPause
    BY <1>6, Obeyed
  <2>2. Awake(e) => Awake(e)'
    BY <2>1 DEF Awake
  <2>. QED  BY <1>4, <2>1, <2>2
<1>7. ASSUME NEW e \in Names, NEW done \in SUBSET Pending(e), Step(e, done) PROVE GroupsAwake'
  <2>1. /\ \A f \in Names : f # e => engine'[f] = engine[f]
        /\ engine[e].pc = "act" /\ engine'[e].pc \in {"drain", "failed"}
        /\ engine'[e].paused = engine[e].paused
        /\ engine'[e].receivedPause = engine[e].receivedPause
    BY <1>7, Stepped
  <2>2. Awake(e) => Awake(e)'
    BY <2>1 DEF Awake
  <2>. QED  BY <1>4, <2>1, <2>2
<1>8. ASSUME NEW g \in setup.groups, Reduce(g) PROVE GroupsAwake'
  <2>1. /\ \A e \in Names : /\ engine'[e].paused = engine[e].paused
                            /\ engine'[e].receivedPause = engine[e].receivedPause
        /\ \A e \in Names : e \notin g => engine'[e] = engine[e]
        /\ \A e \in Names : e \in g => /\ engine[e].pc = "reduce" /\ engine'[e].pc = "act"
                                       /\ engine'[e].groupWork = (\E f \in g : ClaimsWork(f))
    BY <1>8, Reduced
  <2>. SUFFICES ASSUME NEW h \in setup.groups,
                       NEW f \in h, engine'[f].pc = "act" /\ engine'[f].groupWork
                PROVE  \E a \in h : Awake(a)'
    BY <1>2 DEF GroupsAwake
  <2>2. g \subseteq Names /\ h \subseteq Names
    BY <1>1
  <2>3. CASE h = g
    <3>1. PICK a \in g : ClaimsWork(a)
      BY <2>1, <2>2, <2>3
    <3>2. ~engine[a].paused /\ ~engine[a].receivedPause
      BY <3>1 DEF ClaimsWork
    <3>3. Awake(a)'
      BY <2>1, <2>2, <3>2 DEF Awake
    <3>. QED  BY <2>3, <3>3
  <2>4. CASE h # g
    <3>1. \A a \in h : engine'[a] = engine[a]
      BY <1>1, <2>1, <2>2, <2>4
    <3>2. PICK a \in h : Awake(a)
      BY <3>1 DEF GroupsAwake
    <3>3. Awake(a)'
      BY <3>1, <3>2 DEF Awake
    <3>. QED  BY <3>3
  <2>. QED  BY <2>3, <2>4
<1>9. \/ engine' = engine
      \/ \E e \in Names : Drain(e) \/ Obey(e) \/ \E done \in SUBSET Pending(e) : Step(e, done)
      \/ \E g \in setup.groups : Reduce(g)
  BY DEF Next, vars, ClientCall, ClientAwait, ClientReceive, Coordinate
<1>. QED  BY <1>3, <1>5, <1>6, <1>7, <1>8, <1>9

-----------------------------------------------------------------------------
(* The theorem                                                             *)

LEMMA IInvInit == ASSUME Init PROVE IInv
<1>1. TypeInv
  BY InitType
<1>2. \A h, k : ~Has(<< >>, h) /\ ~Follows(<< >>, h, k)
  BY HasNone
<1>3. /\ \A e \in Names : /\ toEngine[e] = << >> /\ toCoord[e] = << >> /\ engine[e].pc = "drain"
      /\ toCoord["client"] = << >> /\ toClient = << >>
      /\ coord.pauseAcks = {} /\ client.at = 1 /\ ~client.paused
  BY DEF Init
<1>4. \A e \in Names : Acknowledgements(e)
  BY <1>2, <1>3 DEF Acknowledgements
<1>5. ~Asked /\ Awaited
  <2>1. DOMAIN setup.program = 1 .. Len(setup.program) /\ Len(setup.program) \in Nat
    BY <1>1, ProgramFacts
  <2>. QED  BY <1>3, <2>1 DEF Asked, Awaited
<1>6. Rounds
  BY <1>2, <1>3, <1>5 DEF Rounds, Calm, Told
<1>7. GroupsAwake
  <2>1. \A g \in setup.groups : g \subseteq Names
    BY <1>1, ProgramFacts, CoordinatorAssumption
  <2>. QED  BY <1>3, <2>1 DEF GroupsAwake
<1>. QED  BY <1>1, <1>4, <1>5, <1>6, <1>7 DEF IInv

LEMMA IInvStep == ASSUME ClientsAreCareful, IInv, [Next]_vars PROVE IInv'
<1>1. TypeInv /\ Acks /\ Rounds /\ Awaited /\ GroupsAwake
  BY DEF IInv, Acks
<1>2. TypeInv'
  BY <1>1, NextType
<1>3. Awaited' /\ GroupsAwake'
  BY <1>1, AwaitedStep, GroupsStep
<1>4. Acks' /\ Rounds'
  <2>1. CASE ClientCall
    BY <1>1, <2>1, RoundsCall
  <2>2. CASE ClientAwait
    BY <1>1, <2>2, RoundsAwait
  <2>3. CASE ClientReceive
    BY <1>1, <2>3, RoundsReceive
  <2>4. CASE \E x \in Names \cup {"client"} : Coordinate(x)
    BY <1>1, <2>4, RoundsCoordinate
  <2>5. CASE \E e \in Names : Drain(e)
    BY <1>1, <2>5, RoundsDrain
  <2>6. CASE \/ \E e \in Names : \E done \in SUBSET Pending(e) : Step(e, done)
             \/ \E e \in Names : Obey(e)
             \/ \E g \in setup.groups : Reduce(g)
    BY <1>1, <2>6, RoundsElsewhere
  <2>7. CASE UNCHANGED vars
    <3>1. Asked' = Asked
      BY <2>7, AskedSame DEF vars
    <3>2. Same
      BY <2>7, <3>1 DEF Same, vars
    <3>. QED  BY <1>1, <3>2, Undisturbed
  <2>. QED  BY <2>1, <2>2, <2>3, <2>4, <2>5, <2>6, <2>7 DEF Next
<1>. QED  BY <1>2, <1>3, <1>4 DEF IInv, Acks

LEMMA PausedOnceAll ==
  ASSUME GroupsAwake
  PROVE  PausedGroupRests
BY DEF GroupsAwake, PausedGroupRests, Awake

\* When the clients await every pause before they revoke it, no engine of an
\* expert parallel group acts on work any more once all of the group are paused,
\* for every number of engines, every grouping and every program
\* (schedule_requests, _ep_group_has_work).
THEOREM PausesAreObeyed == ClientsAreCareful => (Spec => []PausedGroupRests)
<1>. SUFFICES ASSUME ClientsAreCareful PROVE Spec => []PausedGroupRests
  OBVIOUS
<1>1. Init => IInv
  BY IInvInit
<1>2. IInv /\ [Next]_vars => IInv'
  BY IInvStep
<1>3. IInv => PausedGroupRests
  BY PausedOnceAll DEF IInv
<1>. QED  BY <1>1, <1>2, <1>3, PTL DEF Spec
=============================================================================

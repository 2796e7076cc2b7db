---------------------------- MODULE AgentProofs ----------------------------
(***************************************************************************)
(* The pipeline of module Agent shuts down without a send on a closed      *)
(* channel and without leaving a metric behind, for any number of inputs,  *)
(* service inputs and outputs and any capacity of the channels.            *)
(***************************************************************************)
EXTENDS Agent, SequenceTheorems, TLAPS

Elements(s) == {s[i] : i \in DOMAIN s}

\* Service inputs are started and stopped in order.
ServiceOrder ==
    /\ stopped <= started
    /\ \A s \in Service : /\ service[s] = "stopped" <=> s <= stopped
                          /\ service[s] = "off" <=> s > started

\* What Run has done by the time it is where it is.
StartOrder ==
    /\ run \in {"begin", "retry", "reconnect"} => started = 0
    /\ run = "connect" /\ connected < NOutputs => started = 0
    /\ run = "failed" => stopped = started
    /\ closer # "inputs" => /\ run \in {"running", "stopped"}
                            /\ \A i \in Input : input[i] = "done"
    /\ closer = "done" <=> "inputC" \in closed
    /\ closer = "done" => stopped = started
    /\ run = "stopped" => /\ closer = "done" /\ sink = "done"
                          /\ stage["processors"] = "done"
                          /\ stage["relay"] = "done"

\* A stage that is not configured does nothing.
Configured ==
    /\ ~hasProcessors => stage["processors"] = "done" /\ chan["procC"] = <<>>
    /\ ~hasAggregators =>
          /\ stage["adder"] = "done" /\ stage["relay"] = "done"
          /\ pusher = "done"
          /\ chan["aggregations"] = <<>> /\ chan["outputC"] = <<>>

\* A stage that is done has drained its source.
DoneIsDrained ==
    /\ hasProcessors /\ stage["processors"] = "done" => Drained("inputC")
    /\ hasAggregators /\ stage["adder"] = "done" => Drained(aggSource)
    /\ hasAggregators /\ stage["relay"] = "done" =>
          /\ Drained("aggregations")
          /\ stage["adder"] = "done"
    /\ sink # "receive" => Drained(outSource)

\* A channel that is closed has no sender left.
ClosedIsDone ==
    /\ "procC" \in closed => stage["processors"] = "done"
    /\ "aggregations" \in closed => pusher = "done"
    /\ "outputC" \in closed => stage["relay"] = "done" /\ stage["adder"] = "done"
    /\ pusher \in {"lastPush", "done"} => stage["adder"] = "done"
    /\ pusher = "done" => window = {}
    /\ pending > 0 => pusher \in {"push", "lastPush"}

\* A worker holds something exactly while it has something to do with it.
Holding ==
    /\ \A w \in Worker : held[w] = <<>> <=> stage[w] \in {"receive", "done"}
    /\ \A w \in Worker : stage[w] = "add" => w = "adder" /\ Len(held[w]) = 1

Somewhere(m) ==
    \/ m \in handed \/ m \in dropped
    \/ \E c \in Chan : m \in Elements(chan[c])
    \/ \E w \in Worker : m \in Elements(held[w])

\* No metric the inputs made has vanished.
Accounted == \A m \in 1 .. made : Somewhere(m)

IInv == /\ TypeOK /\ NeverSendsOnClosed
        /\ ServiceOrder /\ StartOrder
        /\ Configured /\ DoneIsDrained /\ ClosedIsDone
        /\ Holding /\ Accounted

-----------------------------------------------------------------------------
\* What the operations on a sequence do to its elements.
LEMMA ElementsOfSeq ==
    ASSUME NEW q \in Seq(Nat)
    PROVE  /\ Elements(<<>>) = {}
           /\ \A m \in Nat : /\ Append(q, m) \in Seq(Nat) /\ Append(q, m) # <<>>
                             /\ Elements(Append(q, m)) = Elements(q) \union {m}
           /\ q # <<>> => /\ Head(q) \in Nat /\ Tail(q) \in Seq(Nat)
                          /\ Elements(q) = {Head(q)} \union Elements(Tail(q))
<1>1. Elements(<<>>) = {}
  BY DEF Elements
<1>2. ASSUME NEW m \in Nat
      PROVE  /\ Append(q, m) \in Seq(Nat) /\ Append(q, m) # <<>>
             /\ Elements(Append(q, m)) = Elements(q) \union {m}
  <2>1. /\ Append(q, m) \in Seq(Nat) /\ Append(q, m) # <<>>
        /\ DOMAIN Append(q, m) = 1 .. Len(q) + 1
        /\ \A i \in 1 .. Len(q) : Append(q, m)[i] = q[i]
        /\ Append(q, m)[Len(q) + 1] = m
        /\ DOMAIN q = 1 .. Len(q) /\ Len(q) \in Nat
    BY AppendProperties, LenProperties
  <2> QED
    BY <2>1 DEF Elements
<1>3. ASSUME q # <<>>
      PROVE  /\ Head(q) \in Nat /\ Tail(q) \in Seq(Nat)
             /\ Elements(q) = {Head(q)} \union Elements(Tail(q))
  <2>1. /\ Head(q) \in Nat /\ Head(q) = q[1] /\ Tail(q) \in Seq(Nat)
        /\ Len(q) \in Nat \ {0} /\ DOMAIN q = 1 .. Len(q)
        /\ DOMAIN Tail(q) = 1 .. Len(q) - 1
        /\ \A i \in 1 .. Len(q) - 1 : Tail(q)[i] = q[i + 1]
    BY <1>3, HeadTailProperties, LenProperties, EmptySeq
  <2>2. ASSUME NEW i \in 1 .. Len(q), i # 1
        PROVE  i - 1 \in 1 .. Len(q) - 1 /\ Tail(q)[i - 1] = q[i]
    BY <2>1, <2>2
  <2>3. ASSUME NEW i \in 1 .. Len(q)
        PROVE  q[i] \in {Head(q)} \union Elements(Tail(q))
    <3>1. CASE i = 1
      BY <2>1, <3>1
    <3>2. CASE i # 1
      <4>1. i - 1 \in DOMAIN Tail(q) /\ Tail(q)[i - 1] = q[i]
        BY <2>1, <2>2, <3>2
      <4> QED
        BY Zenon, <4>1 DEF Elements
    <3> QED
      BY <3>1, <3>2
  <2>4. ASSUME NEW i \in 1 .. Len(q) - 1
        PROVE  Tail(q)[i] \in Elements(q)
    BY <2>1 DEF Elements
  <2>5. Head(q) \in Elements(q)
    BY <2>1 DEF Elements
  <2>6. Elements(Tail(q)) \subseteq Elements(q)
    BY <2>1, <2>4 DEF Elements
  <2>7. Elements(q) \subseteq {Head(q)} \union Elements(Tail(q))
    BY <2>1, <2>3 DEF Elements
  <2> QED
    BY <2>1, <2>5, <2>6, <2>7
<1> QED
  BY <1>1, <1>2, <1>3

LEMMA PutStep ==
    ASSUME TypeOK, NEW c \in Chan, NEW m \in Nat, c \notin closed, Put(c, m)
    PROVE  /\ chan' \in [Chan -> Seq(Nat)]
           /\ Elements(chan'[c]) = Elements(chan[c]) \union {m}
           /\ \A d \in Chan \ {c} : chan'[d] = chan[d]
           /\ UNCHANGED <<closed, panicked>>
<1>1. chan[c] \in Seq(Nat) /\ chan' = [chan EXCEPT ![c] = Append(chan[c], m)]
  BY DEF TypeOK, Put
<1>2. UNCHANGED closed /\ (panicked' = (panicked \/ FALSE)) /\ panicked \in BOOLEAN
  BY DEF TypeOK, Put
<1>3. panicked' = panicked
  BY <1>2
<1> QED
  BY <1>1, <1>2, <1>3, ElementsOfSeq DEF TypeOK

LEMMA TakeStep ==
    ASSUME TypeOK, NEW c \in Chan, Take(c)
    PROVE  /\ chan' \in [Chan -> Seq(Nat)]
           /\ Head(chan[c]) \in Nat
           /\ Elements(chan[c]) = {Head(chan[c])} \union Elements(chan'[c])
           /\ \A d \in Chan \ {c} : chan'[d] = chan[d]
           /\ chan[c] # <<>>
           /\ UNCHANGED <<closed, panicked>>
<1>1. chan[c] \in Seq(Nat) /\ chan[c] # <<>>
      /\ chan' = [chan EXCEPT ![c] = Tail(chan[c])]
      /\ UNCHANGED <<closed, panicked>>
  BY DEF TypeOK, Take
<1> QED
  BY <1>1, ElementsOfSeq DEF TypeOK

-----------------------------------------------------------------------------
LEMMA InitIInv == Init => IInv
<1> SUFFICES ASSUME Init PROVE IInv
  OBVIOUS
<1>1. TypeOK
  <2>1. <<>> \in Seq(Nat)
    BY EmptySeq
  <2>2. chan \in [Chan -> Seq(Nat)] /\ held \in [Worker -> Seq(Nat)]
    BY <2>1 DEF Init
  <2>3. stage \in [Worker -> {"receive", "add", "send", "done"}]
    BY DEF Init
  <2>4. /\ hasProcessors \in BOOLEAN /\ hasAggregators \in BOOLEAN
        /\ ctxDone \in BOOLEAN /\ panicked \in BOOLEAN
    BY Zenon DEF Init
  <2>5. pusher \in {"wait", "push", "lastPush", "done"}
    BY DEF Init
  <2>6. /\ connected \in 0 .. NOutputs /\ started \in 0 .. NServices
        /\ stopped \in 0 .. NServices /\ made \in Nat /\ pending \in 0 .. 1
    BY AgentConstants DEF Init
  <2>7. /\ service \in [Service -> {"off", "idle", "sending", "stopped"}]
        /\ input \in [Input -> {"sleep", "gather", "sending", "wait", "done"}]
    BY DEF Init
  <2> QED
    BY <2>2, <2>3, <2>4, <2>5, <2>6, <2>7 DEF Init, TypeOK
<1>2. ServiceOrder
  BY AgentConstants DEF Init, ServiceOrder, Service
<1>3. StartOrder
  BY DEF Init, StartOrder
<1>4. Configured
  BY DEF Init, Configured, Worker, Chan
<1>5. DoneIsDrained
  BY DEF Init, DoneIsDrained, Worker
<1>6. ClosedIsDone
  BY DEF Init, ClosedIsDone, Worker
<1>7. Holding
  BY DEF Init, Holding, Worker
<1>8. Accounted /\ NeverSendsOnClosed
  BY DEF Init, Accounted, NeverSendsOnClosed
<1> QED
  BY <1>1, <1>2, <1>3, <1>4, <1>5, <1>6, <1>7, <1>8 DEF IInv

\* The types after a step of the pipeline, from those of what it changes.
LEMMA TypeFrame ==
    ASSUME TypeOK,
           UNCHANGED <<config, ctxDone, startVars, inputVars, sinkVars>>,
           \/ /\ stage' \in [Worker -> {"receive", "add", "send", "done"}]
              /\ held' \in [Worker -> Seq(Nat)]
              /\ dropped' \subseteq Nat
           \/ UNCHANGED workerVars,
           chan' \in [Chan -> Seq(Nat)],
           closed' \subseteq Chan \/ UNCHANGED closed,
           panicked' \in BOOLEAN \/ UNCHANGED panicked,
           \/ pusher' \in {"wait", "push", "lastPush", "done"}
           \/ UNCHANGED pusher,
           window' \subseteq Nat \/ UNCHANGED window,
           pending' \in 0 .. 1
    PROVE  TypeOK'
<1> USE DEF TypeOK, config, startVars, inputVars, workerVars, sinkVars
<1>1. /\ hasProcessors' \in BOOLEAN /\ hasAggregators' \in BOOLEAN
      /\ ctxDone' \in BOOLEAN /\ panicked' \in BOOLEAN
  OBVIOUS
<1>2. /\ run' \in {"begin", "connect", "retry", "reconnect", "unwind", "running",
                   "failed", "stopped"}
      /\ connected' \in 0 .. NOutputs /\ started' \in 0 .. NServices
      /\ service' \in [Service -> {"off", "idle", "sending", "stopped"}]
      /\ input' \in [Input -> {"sleep", "gather", "sending", "wait", "done"}]
      /\ closer' \in {"inputs", "stopping", "done"}
      /\ stopped' \in 0 .. NServices
  OBVIOUS
<1>3. /\ stage' \in [Worker -> {"receive", "add", "send", "done"}]
      /\ held' \in [Worker -> Seq(Nat)]
      /\ dropped' \subseteq Nat
  BY Zenon
<1>4. /\ sink' \in {"receive", "flush", "done"}
      /\ made' \in Nat /\ handed' \subseteq Nat
  OBVIOUS
<1>5. /\ closed' \subseteq Chan /\ window' \subseteq Nat
      /\ pusher' \in {"wait", "push", "lastPush", "done"}
  BY ZenonT(30)
<1> QED
  BY <1>1, <1>2, <1>3, <1>4, <1>5

\* The parts of the invariant about the pipeline, when a step leaves it alone.
LEMMA PipelineFrame ==
    ASSUME IInv,
           UNCHANGED <<config, workerVars, pushVars, sinkVars, chanVars, made>>
    PROVE  /\ NeverSendsOnClosed' /\ Configured' /\ DoneIsDrained'
           /\ ClosedIsDone' /\ Holding' /\ Accounted'
<1> USE DEF config, workerVars, pushVars, sinkVars, chanVars
<1>1. NeverSendsOnClosed'
  BY DEF IInv, NeverSendsOnClosed
<1>2. Configured'
  BY DEF IInv, Configured
<1>3. DoneIsDrained'
  BY DEF IInv, DoneIsDrained, Drained, aggSource, outSource
<1>4. ClosedIsDone'
  BY DEF IInv, ClosedIsDone
<1>5. Holding'
  BY DEF IInv, Holding
<1>6. Accounted'
  BY DEF IInv, Accounted, Somewhere
<1> QED
  BY <1>1, <1>2, <1>3, <1>4, <1>5, <1>6

\* The parts about Run and the inputs, when a step is one of the pipeline.
LEMMA StartFrame ==
    ASSUME IInv, UNCHANGED <<startVars, service, input, closer, stopped>>,
           "inputC" \in closed' <=> "inputC" \in closed,
           run = "stopped" => UNCHANGED <<sink, stage>>
    PROVE  ServiceOrder' /\ StartOrder'
BY DEF IInv, ServiceOrder, StartOrder, startVars

-----------------------------------------------------------------------------
\* The steps of Run that start the agent, and the cancelling of its context.
LEMMA StartupStep == ASSUME IInv, Cancel \/ Startup PROVE IInv'
<1> USE DEF IInv, TypeOK
<1>1. /\ UNCHANGED <<config, workerVars, pushVars, sinkVars, chanVars, made>>
      /\ UNCHANGED <<input, closer, stopped>>
  BY DEF Cancel, Startup, Begin, ConnectOk, ConnectFails, StartOk, StartFails,
         Unwound, Go, inputVars
<1>2. TypeOK' /\ ServiceOrder' /\ StartOrder'
  <2> USE <1>1 DEF config, workerVars, pushVars, sinkVars, chanVars
  <2>1. CASE Cancel
    BY <2>1 DEF Cancel, startVars, inputVars, ServiceOrder, StartOrder
  <2>2. CASE Begin
    BY <2>2 DEF Begin, inputVars, ServiceOrder, StartOrder
  <2>3. CASE ConnectOk
    BY <2>3, AgentConstants DEF ConnectOk, inputVars, ServiceOrder, StartOrder
  <2>4. CASE ConnectFails
    BY <2>4 DEF ConnectFails, inputVars, ServiceOrder, StartOrder
  <2>5. CASE StartOk
    <3>1. started + 1 \in Service /\ started' = started + 1 /\ run = "connect"
      BY <2>5, AgentConstants DEF StartOk, Starting, Service
    <3>2. TypeOK'
      BY <2>5, <3>1, AgentConstants DEF StartOk, Service
    <3>3. ServiceOrder'
      BY <2>5, <3>1 DEF StartOk, ServiceOrder, Service
    <3>4. StartOrder'
      BY <2>5, <3>1 DEF StartOk, Starting, StartOrder
    <3> QED
      BY <3>2, <3>3, <3>4
  <2>6. CASE StartFails
    BY <2>6 DEF StartFails, Starting, inputVars, ServiceOrder, StartOrder
  <2>7. CASE Unwound
    BY <2>7 DEF Unwound, inputVars, ServiceOrder, StartOrder
  <2>8. CASE Go
    BY <2>8 DEF Go, Starting, inputVars, ServiceOrder, StartOrder
  <2> QED
    BY <2>1, <2>2, <2>3, <2>4, <2>5, <2>6, <2>7, <2>8 DEF Startup
<1> QED
  BY <1>1, <1>2, PipelineFrame

-----------------------------------------------------------------------------
\* The steps of the inputs that send nothing.
LEMMA InputStep ==
    ASSUME IInv,
           \/ \E s \in Service : ServiceBegins(s)
           \/ \E i \in Input : GatherMoves(i) \/ GatherStops(i)
           \/ StopService \/ InputsDone
    PROVE  IInv'
<1> USE DEF IInv, TypeOK
<1>1. UNCHANGED <<config, ctxDone, startVars, workerVars, pushVars, sinkVars,
                  chanVars, made>>
  BY DEF ServiceBegins, GatherMoves, GatherStops, StopService, InputsDone
<1>2. TypeOK' /\ ServiceOrder' /\ StartOrder'
  <2> USE <1>1 DEF config, startVars, workerVars, pushVars, sinkVars, chanVars
  <2>1. ASSUME NEW s \in Service, ServiceBegins(s)
        PROVE  TypeOK' /\ ServiceOrder' /\ StartOrder'
    <3>1. TypeOK'
      BY <2>1 DEF ServiceBegins
    <3>2. ServiceOrder'
      BY <2>1 DEF ServiceBegins, ServiceOrder
    <3>3. StartOrder'
      BY <2>1 DEF ServiceBegins, StartOrder
    <3> QED
      BY <3>1, <3>2, <3>3
  <2>2. ASSUME NEW i \in Input, GatherMoves(i) \/ GatherStops(i)
        PROVE  TypeOK' /\ ServiceOrder' /\ StartOrder'
    <3>1. /\ input' \in [Input -> {"sleep", "gather", "sending", "wait", "done"}]
          /\ input[i] # "done"
          /\ UNCHANGED <<service, closer, stopped>>
      BY Zenon, <2>2 DEF GatherMoves, GatherStops, GatherStep
    <3>2. closer = "inputs"
      BY <3>1 DEF StartOrder
    <3> QED
      BY <3>1, <3>2 DEF ServiceOrder, StartOrder
  <2>3. CASE StopService
    <3>1. /\ stopped + 1 \in Service /\ stopped' = stopped + 1
          /\ service' = [service EXCEPT ![stopped + 1] = "stopped"]
          /\ stopped < started
          /\ UNCHANGED <<input, closer>>
      BY <2>3, AgentConstants DEF StopService, Service
    <3>2. TypeOK'
      BY <3>1, AgentConstants DEF Service
    <3>3. ServiceOrder'
      BY <3>1 DEF ServiceOrder, Service
    <3>4. StartOrder'
      BY <2>3, <3>1 DEF StopService, StartOrder
    <3> QED
      BY <3>2, <3>3, <3>4
  <2>4. CASE InputsDone
    BY <2>4 DEF InputsDone, ServiceOrder, StartOrder
  <2> QED
    BY <2>1, <2>2, <2>3, <2>4
<1> QED
  BY <1>1, <1>2, PipelineFrame

\* A metric an input sends: inputC is open, because it is closed only when
\* every input is done and every service input is stopped.
LEMMA InputSends ==
    ASSUME IInv,
           \/ \E s \in Service : ServiceSends(s)
           \/ \E i \in Input : GatherSends(i)
    PROVE  IInv'
<1> USE DEF IInv, TypeOK
<1>1. /\ UNCHANGED <<config, ctxDone, startVars, closer, stopped, workerVars,
                     pushVars, sinkVars>>
      /\ Put("inputC", made + 1) /\ made' = made + 1
  BY DEF ServiceSends, GatherSends
<1>2. "inputC" \notin closed
  <2>1. ASSUME NEW s \in Service, ServiceSends(s) PROVE "inputC" \notin closed
    BY <2>1 DEF ServiceSends, ServiceOrder, StartOrder, Service
  <2>2. ASSUME NEW i \in Input, GatherSends(i) PROVE "inputC" \notin closed
    BY <2>2 DEF GatherSends, GatherStep, StartOrder
  <2> QED
    BY <2>1, <2>2
<1>3. /\ chan' \in [Chan -> Seq(Nat)]
      /\ Elements(chan'["inputC"]) = Elements(chan["inputC"]) \union {made + 1}
      /\ \A d \in Chan \ {"inputC"} : chan'[d] = chan[d]
      /\ UNCHANGED <<closed, panicked>>
  BY <1>1, <1>2, PutStep DEF Chan
<1>4. TypeOK' /\ ServiceOrder' /\ StartOrder'
  <2> USE <1>1, <1>2, <1>3 DEF config, startVars, workerVars, pushVars, sinkVars
  <2>1. ASSUME NEW s \in Service, ServiceSends(s)
        PROVE  TypeOK' /\ ServiceOrder' /\ StartOrder'
    <3>1. /\ service[s] = "sending"
          /\ service' = [service EXCEPT ![s] = "idle"]
          /\ UNCHANGED input
      BY <2>1 DEF ServiceSends
    <3>2. TypeOK'
      BY <3>1
    <3>3. ServiceOrder'
      BY <3>1 DEF ServiceOrder
    <3>4. StartOrder'
      BY <3>1 DEF StartOrder
    <3> QED
      BY <3>2, <3>3, <3>4
  <2>2. ASSUME NEW i \in Input, GatherSends(i)
        PROVE  TypeOK' /\ ServiceOrder' /\ StartOrder'
    <3>1. /\ input[i] = "sending"
          /\ input' = [input EXCEPT ![i] = "gather"]
          /\ UNCHANGED service
      BY <2>2 DEF GatherSends, GatherStep
    <3>2. TypeOK'
      BY <3>1
    <3>3. ServiceOrder'
      BY <3>1 DEF ServiceOrder
    <3>4. StartOrder'
      BY <3>1 DEF StartOrder
    <3> QED
      BY <3>2, <3>3, <3>4
  <2> QED
    BY <2>1, <2>2
<1>5. NeverSendsOnClosed' /\ ClosedIsDone' /\ Holding'
  BY <1>1, <1>3 DEF NeverSendsOnClosed, ClosedIsDone, Holding, workerVars, pushVars
<1>6. Configured' /\ DoneIsDrained'
  <2>1. Configured'
    BY <1>1, <1>3 DEF Configured, Chan, config, workerVars, pushVars
  <2>2. DoneIsDrained'
    BY <1>1, <1>2, <1>3 DEF DoneIsDrained, Drained, Chan, aggSource, outSource,
                             config, workerVars, sinkVars
  <2> QED
    BY <2>1, <2>2
<1>7. Accounted'
  <2> SUFFICES ASSUME NEW m \in 1 .. made + 1 PROVE Somewhere(m)'
    BY <1>1 DEF Accounted
  <2>1. CASE m = made + 1
    BY <1>3, <2>1 DEF Somewhere, Chan
  <2>2. CASE m \in 1 .. made
    <3>1. Somewhere(m)
      BY <2>2 DEF Accounted
    <3>2. \A c \in Chan : Elements(chan[c]) \subseteq Elements(chan'[c])
      BY Zenon, <1>3
    <3> QED
      BY <1>1, <3>1, <3>2 DEF Somewhere, workerVars, sinkVars
  <2> QED
    BY <2>1, <2>2
<1> QED
  BY <1>4, <1>5, <1>6, <1>7

LEMMA CloseInputStep == ASSUME IInv, CloseInput PROVE IInv'
<1> USE DEF IInv, TypeOK
<1>1. /\ UNCHANGED <<config, ctxDone, startVars, service, input, stopped, made,
                     workerVars, pushVars, sinkVars, chan, panicked>>
      /\ closer = "stopping" /\ stopped = started /\ closer' = "done"
      /\ closed' = closed \union {"inputC"}
  BY DEF CloseInput, Close
<1> USE <1>1 DEF config, startVars, workerVars, pushVars, sinkVars
<1>2. TypeOK'
  BY DEF Chan
<1>3. ServiceOrder' /\ StartOrder'
  BY DEF ServiceOrder, StartOrder
<1>4. Configured' /\ ClosedIsDone' /\ Holding' /\ NeverSendsOnClosed'
  BY DEF Configured, ClosedIsDone, Holding, NeverSendsOnClosed
<1>5. DoneIsDrained'
  BY DEF DoneIsDrained, Drained, aggSource, outSource
<1>6. Accounted'
  BY DEF Accounted, Somewhere
<1> QED
  BY <1>2, <1>3, <1>4, <1>5, <1>6

-----------------------------------------------------------------------------
\* A worker that has sent, received or disposed of something.
LEMMA BecomesStep ==
    ASSUME TypeOK, Holding, NEW w \in Worker, NEW out \in Seq(Nat),
           Becomes(w, out)
    PROVE  /\ held' \in [Worker -> Seq(Nat)]
           /\ stage' \in [Worker -> {"receive", "add", "send", "done"}]
           /\ held'[w] = out /\ stage'[w] \in {"receive", "send"}
           /\ \A v \in Worker \ {w} : held'[v] = held[v] /\ stage'[v] = stage[v]
           /\ Holding'
BY DEF TypeOK, Holding, Becomes

\* What applyProcessors returns for a metric holds it or drops it.
LEMMA AppliedIsSeq ==
    ASSUME NEW m \in Nat, NEW out \in applied(m)
    PROVE  out \in Seq(Nat) /\ (out = <<>> \/ m \in Elements(out))
<1>1. /\ <<>> \in Seq(Nat) /\ <<m>> \in Seq(Nat) /\ <<m, m>> \in Seq(Nat)
      /\ m \in Elements(<<m>>) /\ m \in Elements(<<m, m>>)
  BY DEF Elements
<1> QED
  BY Zenon, <1>1 DEF applied

\* The channels that workers read are channels.
LEMMA SourceIsChan ==
    /\ aggSource \in {"inputC", "procC"} /\ outSource \in Chan
    /\ source["processors"] = "inputC" /\ source["adder"] = aggSource
    /\ source["relay"] = "aggregations"
    /\ dest["processors"] = "procC" /\ dest["adder"] = "outputC"
    /\ dest["relay"] = "outputC"
    /\ hasProcessors => aggSource = "procC"
    /\ ~hasProcessors => aggSource = "inputC"
    /\ hasAggregators => outSource = "outputC"
    /\ ~hasAggregators => outSource = aggSource
BY DEF aggSource, outSource, source, dest, Chan

\* A drained channel stays drained when a step only takes from channels.
LEMMA DrainedByTake ==
    ASSUME IInv, NEW c \in Chan, Take(c), UNCHANGED config
    PROVE  /\ \A d \in Chan : Drained(d) => Drained(d)'
           /\ UNCHANGED <<aggSource, outSource, closed>>
           /\ Configured => /\ ~hasProcessors => chan'["procC"] = <<>>
                            /\ ~hasAggregators => /\ chan'["aggregations"] = <<>>
                                                  /\ chan'["outputC"] = <<>>
<1>1. /\ chan[c] # <<>> /\ \A d \in Chan \ {c} : chan'[d] = chan[d]
      /\ UNCHANGED closed
  BY TakeStep DEF IInv
<1>2. \A d \in Chan : Drained(d) => Drained(d)'
  BY <1>1 DEF Drained
<1>3. UNCHANGED <<aggSource, outSource>>
  BY DEF aggSource, outSource, config
<1> QED
  BY <1>1, <1>2, <1>3 DEF Configured, Chan

LEMMA ProcessStep ==
    ASSUME IInv, NEW w \in {"processors", "relay"}, Process(w)
    PROVE  IInv'
<1> DEFINE c == source[w]
           m == Head(chan[c])
<1>1. w \in Worker /\ c \in Chan
  BY SourceIsChan DEF Worker, Chan
<1>2. /\ Take(c) /\ stage[w] = "receive" /\ run = "running"
      /\ UNCHANGED <<config, ctxDone, startVars, inputVars, pushVars, sinkVars>>
  BY DEF Process
<1>3. /\ chan' \in [Chan -> Seq(Nat)] /\ m \in Nat
      /\ Elements(chan[c]) = {m} \union Elements(chan'[c])
      /\ \A d \in Chan \ {c} : chan'[d] = chan[d]
      /\ chan[c] # <<>>
      /\ UNCHANGED <<closed, panicked>>
  BY Zenon, <1>1, <1>2, TakeStep DEF IInv
<1>4. PICK out \in applied(m) :
         /\ Becomes(w, out)
         /\ dropped' = IF out = <<>> THEN dropped \union {m} ELSE dropped
  BY DEF Process
<1>5. out \in Seq(Nat) /\ (out = <<>> \/ m \in Elements(out))
  BY <1>3, <1>4, AppliedIsSeq
<1> HIDE DEF m, c
<1>6. /\ held' \in [Worker -> Seq(Nat)]
      /\ stage' \in [Worker -> {"receive", "add", "send", "done"}]
      /\ held'[w] = out /\ stage'[w] \in {"receive", "send"}
      /\ \A v \in Worker \ {w} : held'[v] = held[v] /\ stage'[v] = stage[v]
      /\ Holding'
  BY <1>1, <1>4, <1>5, BecomesStep DEF IInv
<1>7. TypeOK'
  BY <1>2, <1>3, <1>4, <1>6
     DEF IInv, TypeOK, config, startVars, inputVars, pushVars, sinkVars
<1>8. NeverSendsOnClosed' /\ ServiceOrder' /\ StartOrder'
  BY <1>2, <1>3, StartFrame DEF IInv, NeverSendsOnClosed, inputVars
<1>9. \A v \in Worker : stage'[v] = "done" <=> stage[v] = "done"
  BY <1>2, <1>6
<1>10. Configured' /\ DoneIsDrained' /\ ClosedIsDone'
  <2>1. /\ \A d \in Chan : Drained(d) => Drained(d)'
        /\ UNCHANGED <<aggSource, outSource, closed>>
        /\ ~hasProcessors => chan'["procC"] = <<>>
        /\ ~hasAggregators => /\ chan'["aggregations"] = <<>>
                              /\ chan'["outputC"] = <<>>
    BY <1>1, <1>2, DrainedByTake DEF IInv
  <2>2. Configured'
    BY <1>2, <1>9, <2>1 DEF IInv, Configured, Worker, config, pushVars
  <2>3. DoneIsDrained'
    BY <1>2, <1>9, <2>1, SourceIsChan
       DEF IInv, DoneIsDrained, Worker, Chan, config, sinkVars
  <2>4. ClosedIsDone'
    BY <1>2, <1>9, <2>1 DEF IInv, ClosedIsDone, Worker, pushVars
  <2> QED
    BY <2>2, <2>3, <2>4
<1>11. Accounted'
  <2>1. held[w] = <<>> /\ Elements(held[w]) = {}
    BY <1>1, <1>2 DEF IInv, Holding, Elements
  <2>2. ASSUME NEW x \in 1 .. made PROVE Somewhere(x)'
    <3>1. Somewhere(x)
      BY DEF IInv, Accounted
    <3>2. CASE x = m
      BY <1>1, <1>4, <1>5, <1>6, <3>2 DEF Somewhere
    <3>3. CASE x # m
      BY Zenon, <1>1, <1>2, <1>3, <1>4, <1>6, <2>1, <3>1, <3>3
         DEF Somewhere, sinkVars
    <3> QED
      BY <3>2, <3>3
  <2> QED
    BY <1>2, <2>2 DEF Accounted, inputVars
<1> QED
  BY <1>6, <1>7, <1>8, <1>10, <1>11 DEF IInv

LEMMA AdderTakesStep == ASSUME IInv, AdderTakes PROVE IInv'
<1> DEFINE c == aggSource
           m == Head(chan[c])
<1>1. c \in Chan /\ source["adder"] = c
  BY SourceIsChan DEF Chan
<1>2. /\ Take(c) /\ stage["adder"] = "receive" /\ run = "running"
      /\ UNCHANGED <<config, ctxDone, startVars, inputVars, pushVars, sinkVars>>
  BY <1>1 DEF AdderTakes
<1>3. /\ chan' \in [Chan -> Seq(Nat)] /\ m \in Nat
      /\ Elements(chan[c]) = {m} \union Elements(chan'[c])
      /\ \A d \in Chan \ {c} : chan'[d] = chan[d]
      /\ chan[c] # <<>>
      /\ UNCHANGED <<closed, panicked>>
  BY Zenon, <1>1, <1>2, TakeStep DEF IInv
<1>4. /\ <<m>> \in Seq(Nat) /\ <<m>> # <<>> /\ Len(<<m>>) = 1 /\ <<>> \in Seq(Nat)
      /\ m \in Elements(<<m>>)
  BY <1>3 DEF Elements
<1>5. PICK out \in Seq(Nat) :
         /\ \/ Becomes("adder", out)
            \/ /\ Len(out) = 1 /\ out # <<>>
               /\ held' = [held EXCEPT !["adder"] = out]
               /\ stage' = [stage EXCEPT !["adder"] = "add"]
         /\ \/ m \in Elements(out) /\ dropped' = dropped
            \/ dropped' = dropped \union {m}
  <2>1. CASE Original(m)
    BY Zenon, <1>4, <2>1 DEF Original
  <2>2. CASE /\ held' = [held EXCEPT !["adder"] = <<m>>]
             /\ stage' = [stage EXCEPT !["adder"] = "add"]
             /\ UNCHANGED dropped
    BY Zenon, <1>4, <2>2
  <2> QED
    BY <1>1, <2>1, <2>2 DEF AdderTakes
<1> HIDE DEF m, c
<1>6. /\ held' \in [Worker -> Seq(Nat)]
      /\ stage' \in [Worker -> {"receive", "add", "send", "done"}]
      /\ held'["adder"] = out /\ stage'["adder"] # "done"
      /\ \A v \in Worker \ {"adder"} : held'[v] = held[v] /\ stage'[v] = stage[v]
      /\ Holding'
  <2>1. CASE Becomes("adder", out)
    BY <2>1, BecomesStep DEF IInv, Worker
  <2>2. CASE /\ Len(out) = 1 /\ out # <<>>
             /\ held' = [held EXCEPT !["adder"] = out]
             /\ stage' = [stage EXCEPT !["adder"] = "add"]
    <3>1. /\ held' \in [Worker -> Seq(Nat)]
          /\ stage' \in [Worker -> {"receive", "add", "send", "done"}]
          /\ held'["adder"] = out /\ stage'["adder"] = "add"
          /\ \A v \in Worker \ {"adder"} :
                held'[v] = held[v] /\ stage'[v] = stage[v]
      BY <1>5, <2>2 DEF IInv, TypeOK, Worker
    <3>2. Holding'
      BY <2>2, <3>1 DEF IInv, Holding
    <3> QED
      BY <3>1, <3>2
  <2> QED
    BY <1>5, <2>1, <2>2
<1>7. \A v \in Worker : stage'[v] = "done" <=> stage[v] = "done"
  BY <1>2, <1>6
<1>8. TypeOK'
  BY ZenonT(30), <1>2, <1>3, <1>5, <1>6
     DEF IInv, TypeOK, config, startVars, inputVars, pushVars, sinkVars
<1>9. NeverSendsOnClosed' /\ ServiceOrder' /\ StartOrder'
  BY <1>2, <1>3, StartFrame DEF IInv, NeverSendsOnClosed, inputVars
<1>10. Configured' /\ DoneIsDrained' /\ ClosedIsDone'
  <2>1. /\ \A d \in Chan : Drained(d) => Drained(d)'
        /\ UNCHANGED <<aggSource, outSource, closed>>
        /\ ~hasProcessors => chan'["procC"] = <<>>
        /\ ~hasAggregators => /\ chan'["aggregations"] = <<>>
                              /\ chan'["outputC"] = <<>>
    BY Zenon, <1>1, <1>2, DrainedByTake DEF IInv
  <2>2. Configured'
    BY <1>2, <1>7, <2>1 DEF IInv, Configured, Worker, config, pushVars
  <2>3. DoneIsDrained'
    BY <1>2, <1>7, <2>1, SourceIsChan
       DEF IInv, DoneIsDrained, Worker, Chan, config, sinkVars
  <2>4. ClosedIsDone'
    BY <1>2, <1>7, <2>1 DEF IInv, ClosedIsDone, Worker, pushVars
  <2> QED
    BY <2>2, <2>3, <2>4
<1>11. Accounted'
  <2>1. Elements(held["adder"]) = {}
    BY <1>2 DEF IInv, Holding, Elements, Worker
  <2>2. ASSUME NEW x \in 1 .. made PROVE Somewhere(x)'
    <3>1. Somewhere(x)
      BY DEF IInv, Accounted
    <3>2. CASE x = m
      BY <1>5, <1>6, <3>2 DEF Somewhere, Worker
    <3>3. CASE x # m
      BY ZenonT(30), <1>2, <1>3, <1>5, <1>6, <2>1, <3>1, <3>3
         DEF Somewhere, sinkVars
    <3> QED
      BY <3>2, <3>3
  <2> QED
    BY <1>2, <2>2 DEF Accounted, inputVars
<1> QED
  BY <1>6, <1>8, <1>9, <1>10, <1>11 DEF IInv

LEMMA AdderAddsStep == ASSUME IInv, AdderAdds PROVE IInv'
<1> DEFINE m == held["adder"][1]
<1>1. /\ stage["adder"] = "add" /\ "adder" \in Worker
      /\ held["adder"] \in Seq(Nat) /\ Len(held["adder"]) = 1
  BY DEF AdderAdds, IInv, TypeOK, Holding, Worker
<1>2. m \in Nat /\ Elements(held["adder"]) = {m} /\ <<m>> \in Seq(Nat)
      /\ m \in Elements(<<m>>) /\ <<>> \in Seq(Nat)
  BY <1>1 DEF Elements
<1>3. /\ UNCHANGED <<config, ctxDone, startVars, inputVars, pusher, pending,
                     sinkVars, chanVars>>
      /\ window' \in {window, window \union {m}}
      /\ \/ Becomes("adder", <<m>>) /\ dropped' = dropped
         \/ Becomes("adder", <<>>) /\ dropped' = dropped \union {m}
  BY DEF AdderAdds, Original
<1>4. PICK out \in Seq(Nat) :
         /\ Becomes("adder", out)
         /\ \/ m \in Elements(out) /\ dropped' = dropped
            \/ dropped' = dropped \union {m}
  BY Zenon, <1>2, <1>3
<1> HIDE DEF m
<1>5. /\ held' \in [Worker -> Seq(Nat)]
      /\ stage' \in [Worker -> {"receive", "add", "send", "done"}]
      /\ held'["adder"] = out /\ stage'["adder"] \in {"receive", "send"}
      /\ \A v \in Worker \ {"adder"} : held'[v] = held[v] /\ stage'[v] = stage[v]
      /\ Holding'
  BY <1>1, <1>4, BecomesStep DEF IInv
<1>6. TypeOK'
  <2>1. dropped' \subseteq Nat /\ window' \subseteq Nat
    BY ZenonT(30), <1>2, <1>3, <1>4 DEF IInv, TypeOK
  <2>2. UNCHANGED <<config, ctxDone, startVars, inputVars, pusher, pending,
                    sinkVars, chanVars>>
    BY <1>3
  <2> QED
    BY <1>5, <2>1, <2>2
       DEF IInv, TypeOK, config, startVars, inputVars, sinkVars, chanVars
<1>7. run # "stopped"
  BY <1>1 DEF IInv, StartOrder, Configured, DoneIsDrained
<1>8. NeverSendsOnClosed' /\ ServiceOrder' /\ StartOrder'
  BY <1>3, <1>7, StartFrame DEF IInv, NeverSendsOnClosed, inputVars, chanVars
<1>9. Configured' /\ DoneIsDrained' /\ ClosedIsDone'
  <2> USE <1>1, <1>3, <1>5 DEF IInv, config, sinkVars, chanVars, Worker
  <2>1. Configured'
    BY DEF Configured
  <2>2. DoneIsDrained'
    BY DEF DoneIsDrained, Drained, aggSource, outSource
  <2>3. ClosedIsDone'
    BY DEF ClosedIsDone
  <2> QED
    BY <2>1, <2>2, <2>3
<1>10. Accounted'
  <2>1. ASSUME NEW x \in 1 .. made PROVE Somewhere(x)'
    <3>1. Somewhere(x)
      BY DEF IInv, Accounted
    <3>2. CASE x = m
      BY <1>1, <1>4, <1>5, <3>2 DEF Somewhere
    <3>3. CASE x # m
      BY ZenonT(30), <1>2, <1>3, <1>4, <1>5, <3>1, <3>3
         DEF Somewhere, sinkVars, chanVars
    <3> QED
      BY <3>2, <3>3
  <2> QED
    BY <1>3, <2>1 DEF Accounted, inputVars
<1> QED
  BY <1>5, <1>6, <1>8, <1>9, <1>10 DEF IInv

\* A worker sends: its destination is open, because whoever closes it waits for
\* the worker.
LEMMA WorkerSendsStep ==
    ASSUME IInv, NEW w \in Worker, WorkerSends(w)
    PROVE  IInv'
<1> DEFINE c == dest[w]
           m == Head(held[w])
<1>1. /\ stage[w] = "send" /\ Put(c, m) /\ Becomes(w, Tail(held[w]))
      /\ UNCHANGED <<config, ctxDone, startVars, inputVars, dropped, pushVars,
                     sinkVars>>
  BY DEF WorkerSends
<1>2. held[w] \in Seq(Nat) /\ held[w] # <<>>
  BY ZenonT(30), <1>1 DEF IInv, TypeOK, Holding
<1>3. /\ m \in Nat /\ Tail(held[w]) \in Seq(Nat)
      /\ Elements(held[w]) = {m} \union Elements(Tail(held[w]))
  BY <1>2, ElementsOfSeq
<1>4. c \in Chan /\ c \notin closed
  BY <1>1, SourceIsChan DEF IInv, ClosedIsDone, Worker, Chan
<1>5. /\ chan' \in [Chan -> Seq(Nat)]
      /\ Elements(chan'[c]) = Elements(chan[c]) \union {m}
      /\ \A d \in Chan \ {c} : chan'[d] = chan[d]
      /\ UNCHANGED <<closed, panicked>>
  BY Zenon, <1>1, <1>3, <1>4, PutStep DEF IInv
<1>6. /\ held' \in [Worker -> Seq(Nat)]
      /\ stage' \in [Worker -> {"receive", "add", "send", "done"}]
      /\ held'[w] = Tail(held[w]) /\ stage'[w] \in {"receive", "send"}
      /\ \A v \in Worker \ {w} : held'[v] = held[v] /\ stage'[v] = stage[v]
      /\ Holding'
  BY ZenonT(30), <1>1, <1>3, BecomesStep DEF IInv
<1>7. /\ \A v \in Worker : stage'[v] = "done" <=> stage[v] = "done"
      /\ c = "procC" => hasProcessors
      /\ c = "inputC" => FALSE
      /\ c # "procC" => hasAggregators
  BY <1>1, <1>6, SourceIsChan DEF IInv, Configured, Worker
<1> HIDE DEF m, c
<1>8. TypeOK'
  <2>1. TypeOK /\ dropped' \subseteq Nat /\ pending' \in 0 .. 1
    BY <1>1 DEF IInv, TypeOK, pushVars
  <2> QED
    BY <1>1, <1>5, <1>6, <2>1, TypeFrame DEF pushVars
<1>9. run # "stopped"
  BY <1>1, <1>7 DEF IInv, StartOrder, Configured, DoneIsDrained, Worker
<1>10. NeverSendsOnClosed' /\ ServiceOrder' /\ StartOrder'
  BY <1>1, <1>5, <1>9, StartFrame DEF IInv, NeverSendsOnClosed, inputVars
<1>11. Configured' /\ DoneIsDrained' /\ ClosedIsDone'
  <2>1. \A d \in Chan : Drained(d) => Drained(d)'
    BY <1>4, <1>5 DEF Drained
  <2>2. UNCHANGED <<aggSource, outSource>>
    BY <1>1 DEF aggSource, outSource, config
  <2>3. Configured'
    BY <1>1, <1>5, <1>7 DEF IInv, Configured, Worker, Chan, config, pushVars
  <2>4. DoneIsDrained'
    BY <1>1, <1>7, <2>1, <2>2, SourceIsChan
       DEF IInv, DoneIsDrained, Worker, Chan, config, sinkVars
  <2>5. ClosedIsDone'
    BY <1>1, <1>5, <1>7 DEF IInv, ClosedIsDone, Worker, pushVars
  <2> QED
    BY <2>3, <2>4, <2>5
<1>12. Accounted'
  <2>1. ASSUME NEW x \in 1 .. made PROVE Somewhere(x)'
    <3>1. Somewhere(x)
      BY DEF IInv, Accounted
    <3>2. CASE x = m
      BY <1>4, <1>5, <3>2 DEF Somewhere
    <3>3. CASE x # m
      BY Zenon, <1>1, <1>3, <1>4, <1>5, <1>6, <3>1, <3>3 DEF Somewhere, sinkVars
    <3> QED
      BY <3>2, <3>3
  <2> QED
    BY <1>1, <2>1 DEF Accounted, inputVars
<1> QED
  BY Zenon, <1>6, <1>8, <1>10, <1>11, <1>12 DEF IInv

-----------------------------------------------------------------------------
\* A worker ends when its source is closed and drained, and closes its own
\* destination unless another goroutine sends on it too.
LEMMA EndsStep ==
    ASSUME IInv, ProcessorsEnd \/ AdderEnds \/ RelayEnds
    PROVE  IInv'
<1>1. PICK w \in Worker :
         /\ Ends(w)
         /\ \/ w = "processors" /\ Close("procC")
            \/ w = "adder" /\ UNCHANGED chanVars
            \/ /\ w = "relay" /\ Close("outputC")
               /\ stage["adder"] = "done" /\ pusher = "done"
  BY DEF ProcessorsEnd, AdderEnds, RelayEnds, Worker
<1>2. /\ run = "running" /\ stage[w] = "receive" /\ Drained(source[w])
      /\ stage' = [stage EXCEPT ![w] = "done"]
      /\ UNCHANGED <<config, ctxDone, startVars, inputVars, held, dropped,
                     pushVars, sinkVars, chan, panicked>>
      /\ closed \subseteq closed' /\ closed' \subseteq closed \union {"procC", "outputC"}
  BY <1>1 DEF Ends, Close, chanVars
<1>3. /\ stage' \in [Worker -> {"receive", "add", "send", "done"}]
      /\ stage'[w] = "done" /\ \A v \in Worker \ {w} : stage'[v] = stage[v]
  BY <1>2 DEF IInv, TypeOK
<1>4. TypeOK'
  BY <1>2, <1>3
     DEF IInv, TypeOK, Chan, config, startVars, inputVars, pushVars, sinkVars
<1>5. NeverSendsOnClosed' /\ ServiceOrder' /\ StartOrder'
  BY <1>2, StartFrame DEF IInv, NeverSendsOnClosed, inputVars
<1>6. Configured'
  BY <1>2, <1>3 DEF IInv, Configured, Worker, config, pushVars
<1>7. DoneIsDrained'
  <2>1. \A d \in Chan : Drained(d) => Drained(d)'
    BY <1>2 DEF Drained
  <2>2. UNCHANGED <<aggSource, outSource>>
    BY <1>2 DEF aggSource, outSource, config
  <2> QED
    BY <1>1, <1>2, <1>3, <2>1, <2>2, SourceIsChan
       DEF IInv, DoneIsDrained, Worker, Chan, config, sinkVars
<1>8. ClosedIsDone'
  <2>1. \A v \in Worker : stage[v] = "done" => stage'[v] = "done"
    BY <1>3
  <2>2. "procC" \in closed' \ closed => w = "processors"
    BY <1>1 DEF Close, chanVars
  <2>3. "outputC" \in closed' \ closed => w = "relay" /\ stage["adder"] = "done"
    BY <1>1 DEF Close, chanVars
  <2> QED
    BY <1>2, <1>3, <2>1, <2>2, <2>3 DEF IInv, ClosedIsDone, Worker, pushVars
<1>9. Holding'
  BY <1>2, <1>3 DEF IInv, Holding
<1>10. Accounted'
  BY <1>2 DEF IInv, Accounted, Somewhere, inputVars, sinkVars
<1> QED
  BY <1>4, <1>5, <1>6, <1>7, <1>8, <1>9, <1>10 DEF IInv

\* The steps of a push; a send finds aggregations open because only the last
\* push, when it ends, lets it be closed.
LEMMA PushStep ==
    ASSUME IInv, PushPeriod \/ PushLast \/ PushSends \/ PushEnds
    PROVE  IInv'
<1> USE DEF IInv
<1>1. UNCHANGED <<config, ctxDone, startVars, inputVars, workerVars, sinkVars>>
  BY DEF PushPeriod, PushLast, PushBegins, PushSends, PushEnds
<1>2. CASE PushPeriod \/ PushLast
  <2>1. /\ UNCHANGED <<chanVars, window>> /\ pusher = "wait"
        /\ pusher' \in {"push", "lastPush"} /\ pending' \in 0 .. 1
        /\ pusher' = "lastPush" => stage["adder"] = "done"
    BY <1>2 DEF PushPeriod, PushLast, PushBegins
  <2>2. TypeOK'
    <3>1. chan' \in [Chan -> Seq(Nat)]
      BY <2>1 DEF TypeOK, chanVars
    <3> QED
      BY <1>1, <2>1, <3>1, TypeFrame DEF chanVars
  <2>3. ServiceOrder' /\ StartOrder' /\ NeverSendsOnClosed'
    BY <1>1, <2>1, StartFrame DEF NeverSendsOnClosed, inputVars, workerVars,
                                  sinkVars, chanVars
  <2>4. Configured' /\ DoneIsDrained' /\ Holding' /\ Accounted'
    BY <1>1, <2>1 DEF Configured, DoneIsDrained, Drained, aggSource, outSource,
                      Holding, Accounted, Somewhere, config, inputVars,
                      workerVars, sinkVars, chanVars
  <2>5. ClosedIsDone'
    BY <1>1, <2>1 DEF ClosedIsDone, workerVars, chanVars
  <2> QED
    BY <2>2, <2>3, <2>4, <2>5
<1>3. CASE PushSends
  <2>1. /\ Put("aggregations", Aggregate) /\ pending = 1 /\ pending' = 0
        /\ UNCHANGED <<pusher, window>> /\ pusher \in {"push", "lastPush"}
    <3>1. /\ Put("aggregations", Aggregate) /\ UNCHANGED <<pusher, window>>
          /\ pending > 0 /\ pending' = pending - 1
      BY <1>3 DEF PushSends
    <3>2. pending \in 0 .. 1
      BY DEF TypeOK
    <3>3. pusher \in {"push", "lastPush"}
      BY <3>1 DEF ClosedIsDone
    <3> QED
      BY <3>1, <3>2, <3>3
  <2>2. "aggregations" \notin closed /\ Aggregate \in Nat /\ hasAggregators
    BY <2>1 DEF ClosedIsDone, Aggregate, Configured
  <2>3. /\ chan' \in [Chan -> Seq(Nat)]
        /\ Elements(chan'["aggregations"])
             = Elements(chan["aggregations"]) \union {Aggregate}
        /\ \A d \in Chan \ {"aggregations"} : chan'[d] = chan[d]
        /\ UNCHANGED <<closed, panicked>>
    BY <2>1, <2>2, PutStep DEF Chan
  <2>4. TypeOK'
    <3>1. chan' \in [Chan -> Seq(Nat)] /\ pending' \in 0 .. 1
      BY <2>1, <2>3
    <3>2. UNCHANGED <<pusher, window, closed, panicked>>
      BY <2>1, <2>3
    <3> QED
      BY <1>1, <3>1, <3>2, TypeFrame
  <2>5. ServiceOrder' /\ StartOrder' /\ NeverSendsOnClosed'
    BY <1>1, <2>3, StartFrame DEF NeverSendsOnClosed, inputVars, workerVars,
                                  sinkVars
  <2>6. Configured' /\ ClosedIsDone' /\ Holding'
    BY <1>1, <2>1, <2>2, <2>3 DEF Configured, ClosedIsDone, Holding, Chan,
                                  config, workerVars
  <2>7. DoneIsDrained'
    <3>1. \A d \in Chan : Drained(d) => Drained(d)'
      BY <2>2, <2>3 DEF Drained
    <3>2. UNCHANGED <<aggSource, outSource>>
      BY <1>1 DEF aggSource, outSource, config
    <3> QED
      BY <1>1, <3>1, <3>2, SourceIsChan DEF DoneIsDrained, Chan, config,
                                            workerVars, sinkVars
  <2>8. Accounted'
    <3>1. \A c \in Chan : Elements(chan[c]) \subseteq Elements(chan'[c])
      BY Zenon, <2>3
    <3> QED
      BY <1>1, <3>1 DEF Accounted, Somewhere, inputVars, workerVars, sinkVars
  <2> QED
    BY <2>4, <2>5, <2>6, <2>7, <2>8
<1>4. CASE PushEnds
  <2>1. /\ window' = {} /\ UNCHANGED <<pending, chan, panicked>> /\ pending = 0
        /\ \/ pusher = "push" /\ pusher' = "wait" /\ closed' = closed
           \/ /\ pusher = "lastPush" /\ pusher' = "done"
              /\ closed' = closed \union {"aggregations"}
    BY <1>4 DEF PushEnds, Close, chanVars
  <2>2. TypeOK'
    <3>1. /\ chan' \in [Chan -> Seq(Nat)] /\ closed' \subseteq Chan
          /\ panicked' \in BOOLEAN /\ pending' \in 0 .. 1
      BY ZenonT(30), <2>1 DEF TypeOK, Chan
    <3>2. /\ pusher' \in {"wait", "push", "lastPush", "done"}
          /\ window' \subseteq Nat
      BY <2>1
    <3> QED
      BY <1>1, <3>1, <3>2, TypeFrame
  <2>3. ServiceOrder' /\ StartOrder' /\ NeverSendsOnClosed'
    BY <1>1, <2>1, StartFrame DEF NeverSendsOnClosed, inputVars, workerVars,
                                  sinkVars
  <2>4. Configured' /\ Holding' /\ Accounted'
    BY <1>1, <2>1 DEF Configured, Holding, Accounted, Somewhere, config,
                      inputVars, workerVars, sinkVars
  <2>5. DoneIsDrained'
    BY <1>1, <2>1 DEF DoneIsDrained, Drained, aggSource, outSource, config,
                      workerVars, sinkVars
  <2>6. ClosedIsDone'
    BY <1>1, <2>1 DEF ClosedIsDone, workerVars
  <2> QED
    BY <2>2, <2>3, <2>4, <2>5, <2>6
<1> QED
  BY <1>2, <1>3, <1>4

-----------------------------------------------------------------------------
LEMMA OutputsReceiveStep == ASSUME IInv, OutputsReceive PROVE IInv'
<1> DEFINE c == outSource
           m == Head(chan[c])
<1> USE DEF IInv
<1>1. c \in Chan
  BY SourceIsChan
<1>2. /\ Take(c) /\ run = "running" /\ handed' = handed \union {m}
      /\ UNCHANGED <<config, ctxDone, startVars, inputVars, workerVars, pushVars,
                     sink>>
  BY DEF OutputsReceive
<1>3. /\ chan' \in [Chan -> Seq(Nat)] /\ m \in Nat
      /\ Elements(chan[c]) = {m} \union Elements(chan'[c])
      /\ \A d \in Chan \ {c} : chan'[d] = chan[d]
      /\ UNCHANGED <<closed, panicked>>
  BY ZenonT(30), <1>1, <1>2, TakeStep
<1>4. /\ \A d \in Chan : Drained(d) => Drained(d)'
      /\ UNCHANGED <<aggSource, outSource, closed>>
      /\ ~hasProcessors => chan'["procC"] = <<>>
      /\ ~hasAggregators => /\ chan'["aggregations"] = <<>>
                            /\ chan'["outputC"] = <<>>
  BY Zenon, <1>1, <1>2, DrainedByTake
<1> HIDE DEF m, c
<1>5. TypeOK'
  BY <1>2, <1>3 DEF TypeOK, config, startVars, inputVars, workerVars, pushVars
<1>6. ServiceOrder' /\ StartOrder' /\ NeverSendsOnClosed'
  BY <1>2, <1>3, StartFrame DEF NeverSendsOnClosed, inputVars, workerVars
<1>7. Configured' /\ ClosedIsDone' /\ Holding'
  BY <1>2, <1>4 DEF Configured, ClosedIsDone, Holding, config, workerVars, pushVars
<1>8. DoneIsDrained'
  BY ZenonT(30), <1>2, <1>4, SourceIsChan
     DEF DoneIsDrained, Chan, config, workerVars
<1>9. Accounted'
  BY Zenon, <1>1, <1>2, <1>3 DEF Accounted, Somewhere, inputVars, workerVars
<1> QED
  BY <1>5, <1>6, <1>7, <1>8, <1>9

LEMMA OutputsEndStep ==
    ASSUME IInv, OutputsCancel \/ OutputsFlushed \/ Stop
    PROVE  IInv'
<1> USE DEF IInv
<1>1. /\ UNCHANGED <<config, ctxDone, started, inputVars, workerVars, pushVars,
                     handed, chanVars>>
      /\ \/ /\ UNCHANGED <<run, connected>> /\ run = "running"
            /\ sink = "receive" /\ sink' = "flush" /\ Drained(outSource)
         \/ UNCHANGED <<run, connected>> /\ sink = "flush" /\ sink' = "done"
         \/ /\ run = "running" /\ run' = "stopped" /\ connected' = 0
            /\ closer = "done" /\ UNCHANGED sink /\ sink = "done"
            /\ stage["processors"] = "done" /\ stage["relay"] = "done"
  BY DEF OutputsCancel, OutputsFlushed, Stop, startVars, sinkVars
<1>2. TypeOK'
  <2>1. /\ run' \in {"begin", "connect", "retry", "reconnect", "unwind", "running",
                     "failed", "stopped"}
        /\ connected' \in 0 .. NOutputs /\ started' \in 0 .. NServices
        /\ sink' \in {"receive", "flush", "done"}
    BY <1>1, AgentConstants DEF TypeOK
  <2>2. UNCHANGED <<config, ctxDone, inputVars, workerVars, pushVars, handed,
                    chanVars>>
    BY <1>1
  <2> QED
    BY <2>1, <2>2 DEF TypeOK, config, inputVars, workerVars, pushVars, chanVars
<1>3. ServiceOrder' /\ StartOrder'
  BY <1>1 DEF ServiceOrder, StartOrder, inputVars, workerVars, chanVars
<1>4. NeverSendsOnClosed' /\ Configured' /\ ClosedIsDone' /\ Holding' /\ Accounted'
  BY <1>1 DEF NeverSendsOnClosed, Configured, ClosedIsDone, Holding, Accounted,
              Somewhere, config, inputVars, workerVars, pushVars, chanVars
<1>5. DoneIsDrained'
  BY Zenon, <1>1
     DEF DoneIsDrained, Drained, aggSource, outSource, config, workerVars,
              chanVars
<1> QED
  BY <1>2, <1>3, <1>4, <1>5

LEMMA Inductive == IInv /\ [Next]_vars => IInv'
<1> SUFFICES ASSUME IInv, [Next]_vars PROVE IInv'
  OBVIOUS
<1>1. CASE UNCHANGED vars
  <2>1. TypeOK'
    BY ZenonT(30), <1>1, TypeFrame DEF vars, pushVars, chanVars, IInv, TypeOK
  <2>2. ServiceOrder' /\ StartOrder'
    BY <1>1, StartFrame DEF vars, inputVars, workerVars, sinkVars, chanVars
  <2> QED
    BY <1>1, <2>1, <2>2, PipelineFrame DEF IInv, vars, inputVars
<1>2. CASE Next
  <2>1. CASE Cancel \/ Startup
    BY <2>1, StartupStep
  <2>2. CASE Inputs
    BY <2>2, InputStep, InputSends, CloseInputStep DEF Inputs
  <2>3. CASE Processors
    BY <2>3, ProcessStep, WorkerSendsStep, EndsStep DEF Processors, Worker
  <2>4. CASE Aggregators
    BY <2>4, AdderTakesStep, AdderAddsStep, WorkerSendsStep, EndsStep
       DEF Aggregators, Worker
  <2>5. CASE Relay
    BY <2>5, ProcessStep, WorkerSendsStep, EndsStep DEF Relay, Worker
  <2>6. CASE PushPeriod \/ PushLast \/ PushSends \/ PushEnds
    BY <2>6, PushStep
  <2>7. CASE Outputs
    BY <2>7, OutputsReceiveStep, OutputsEndStep DEF Outputs
  <2>8. CASE \E s \in Service : ServiceBegins(s)
    BY <2>8, InputStep
  <2>9. CASE \E i \in Input : GatherMoves(i) \/ GatherSends(i) \/ GatherStops(i)
    BY <2>9, InputStep, InputSends
  <2> QED
    BY <1>2, <2>1, <2>2, <2>3, <2>4, <2>5, <2>6, <2>7, <2>8, <2>9 DEF Next
<1> QED
  BY <1>1, <1>2

LEMMA Invariance == Spec => []IInv
BY InitIInv, Inductive, PTL DEF Spec

-----------------------------------------------------------------------------
\* The state of Run and of its goroutines is well typed.
THEOREM TypeCorrect == Spec => []TypeOK
<1>1. IInv => TypeOK
  BY DEF IInv
<1> QED
  BY <1>1, Invariance, PTL

\* No goroutine of the agent sends on a channel that has been closed, however
\* many inputs and service inputs there are.
THEOREM NoSendOnClosed == Spec => []NeverSendsOnClosed
<1>1. IInv => NeverSendsOnClosed
  BY DEF IInv
<1> QED
  BY <1>1, Invariance, PTL

\* When Run returns nil every metric has reached the outputs or was dropped on
\* purpose, and neither a channel nor an aggregator holds anything.
THEOREM ShutdownIsClean == Spec => []NothingLeftBehind
<1>1. IInv => NothingLeftBehind
  <2> SUFFICES ASSUME IInv, run = "stopped"
               PROVE  /\ \A m \in 1 .. made : m \in handed \union dropped
                      /\ \A c \in Chan : chan[c] = <<>>
                      /\ window = {}
    BY DEF NothingLeftBehind
  <2>1. /\ stage["processors"] = "done" /\ stage["relay"] = "done"
        /\ stage["adder"] = "done" /\ sink = "done"
    BY DEF IInv, StartOrder, Configured, DoneIsDrained
  <2>2. \A w \in Worker : held[w] = <<>>
    BY <2>1 DEF IInv, Holding, Worker
  <2>3. /\ chan["inputC"] = <<>> /\ chan["procC"] = <<>>
        /\ chan["aggregations"] = <<>> /\ chan["outputC"] = <<>>
    BY <2>1, SourceIsChan DEF IInv, TypeOK, Configured, DoneIsDrained, Drained
  <2>4. window = {}
    <3>1. CASE hasAggregators
      BY <2>1, <3>1 DEF IInv, DoneIsDrained, ClosedIsDone, Drained
    <3>2. CASE ~hasAggregators
      BY <3>2 DEF IInv, Configured, ClosedIsDone
    <3> QED
      BY <3>1, <3>2 DEF IInv, TypeOK
  <2>5. \A c \in Chan : chan[c] = <<>>
    BY <2>3 DEF Chan
  <2>6. Elements(<<>>) = {}
    BY DEF Elements
  <2>7. \A m \in 1 .. made : m \in handed \union dropped
    BY <2>2, <2>5, <2>6 DEF IInv, Accounted, Somewhere
  <2> QED
    BY <2>4, <2>5, <2>7
<1> QED
  BY <1>1, Invariance, PTL

\* Run never returns with a service input it started still running.
THEOREM NoServiceLeft == Spec => []ServicesStopped
<1>1. IInv => ServicesStopped
  <2> SUFFICES ASSUME IInv, run \in {"failed", "stopped"}, NEW s \in Service
               PROVE  service[s] \in {"off", "stopped"}
    BY DEF ServicesStopped
  <2>1. stopped = started
    BY DEF IInv, StartOrder
  <2> QED
    BY <2>1 DEF IInv, TypeOK, ServiceOrder, Service
<1> QED
  BY <1>1, Invariance, PTL
=============================================================================

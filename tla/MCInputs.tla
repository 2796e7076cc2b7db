------------------------------ MODULE MCInputs ------------------------------
(***************************************************************************)
(* The Lotus input and its tipset source, the peer ID processor, the       *)
(* consumers of Kafka, MQTT and of a child process, and the delivery       *)
(* tracking the consumers rely on, model-checked in one run; with them a   *)
(* metric buffer that is overrun.  They share no state: a behaviour is a   *)
(* behaviour of one of them, which `part` names, while the others stay as  *)
(* they begin.                                                             *)
(***************************************************************************)
EXTENDS Tracking, Lotus, Tips, PeerId, KafkaConsumer, MqttConsumer, Execd

CONSTANTS Cap, BatchLimit, MaxMetrics, MaxBurst

VARIABLES
    part,
    buf, first, last, size, batchFirst, batchSize, batch, burst, added,
    accepted, rejected, bufferSize, bufferPanicked

Ring == INSTANCE MCBuffer WITH panicked <- bufferPanicked

ringVars == <<buf, first, last, size, batchFirst, batchSize, batch, burst, added,
              accepted, rejected, bufferSize, bufferPanicked>>

inputsVars == <<part, vars, lotusVars, tipsVars, peerVars, kafkaVars, mqttVars, execVars, ringVars>>

\* A part that stays as it begins begins in one way only.
InputsInit ==
    /\ part \in {"tracking", "lotus", "tips", "peerid", "kafka", "mqtt", "execd", "ring"}
    /\ Init /\ LotusInit /\ TipsInit /\ PeerInit /\ KafkaInit /\ MqttInit /\ ExecInit
    /\ Ring!BufferInit
    /\ part # "tips" => chain = <<>>
    /\ part # "peerid" => nodeId = NoPeer
    /\ part # "mqtt" => persistent

InputsNext ==
    /\ UNCHANGED part
    /\ \/ /\ part = "tracking" /\ Next
          /\ UNCHANGED <<lotusVars, tipsVars, peerVars, kafkaVars, mqttVars, execVars, ringVars>>
       \/ /\ part = "lotus" /\ LotusNext
          /\ UNCHANGED <<vars, tipsVars, peerVars, kafkaVars, mqttVars, execVars, ringVars>>
       \/ /\ part = "tips" /\ TipsNext
          /\ UNCHANGED <<vars, lotusVars, peerVars, kafkaVars, mqttVars, execVars, ringVars>>
       \/ /\ part = "peerid" /\ PeerNext
          /\ UNCHANGED <<vars, lotusVars, tipsVars, kafkaVars, mqttVars, execVars, ringVars>>
       \/ /\ part = "kafka" /\ KafkaNext
          /\ UNCHANGED <<vars, lotusVars, tipsVars, peerVars, mqttVars, execVars, ringVars>>
       \/ /\ part = "mqtt" /\ MqttNext
          /\ UNCHANGED <<vars, lotusVars, tipsVars, peerVars, kafkaVars, execVars, ringVars>>
       \/ /\ part = "execd" /\ ExecNext
          /\ UNCHANGED <<vars, lotusVars, tipsVars, peerVars, kafkaVars, mqttVars, ringVars>>
       \/ /\ part = "ring" /\ Ring!Next
          /\ UNCHANGED <<vars, lotusVars, tipsVars, peerVars, kafkaVars, mqttVars, execVars>>

\* The fairness of the part that moves.
InputsFairness ==
    \/ part = "tracking" /\ Fairness
    \/ part = "lotus" /\ LotusFairness
    \/ part \in {"tips", "peerid", "ring"}
    \/ part = "kafka" /\ KafkaFairness
    \/ part = "mqtt" /\ MqttFairness
    \/ part = "execd" /\ ExecFairness

InputsSpec == InputsInit /\ [][InputsNext]_inputsVars /\ InputsFairness

\* The closed form of Reject's rotation is its loop, the overrun ring included.
ClosedFormIsLoop == Ring!ClosedFormIsLoop
=============================================================================

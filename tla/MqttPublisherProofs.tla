-------------------------- MODULE MqttPublisherProofs --------------------------
(***************************************************************************)
(* Proofs about MqttPublisher, for any number of starts and of published   *)
(* messages, whatever the Paho library and the broker do.                  *)
(***************************************************************************)
EXTENDS MqttPublisher, TLAPS

Idle == "free"
Starting == {"created", "connect"}
Stopping == {"stopping", "waiting", "disconnected"}

(* The state has its types *)
MqttType ==
  /\ configured \in BOOLEAN /\ started \in BOOLEAN
  /\ client \in {"null", "live"}
  /\ connected \in BOOLEAN /\ disconnect_complete \in BOOLEAN
  /\ stats \in [accepted: Nat, acknowledged: Nat, unavailable: Nat, rejected: Nat]
  /\ pc \in {Idle, "sent", "destroyed"} \cup Starting \cup Stopping
  /\ inflight \in Nat
  /\ disconnecting \in BOOLEAN

(* Which handle there is at which point of which call *)
ClientInv ==
  /\ pc = Idle => client = IF started THEN "live" ELSE "null"
  /\ pc \in Starting \cup Stopping => client = "live" /\ ~started
  /\ pc = "sent" => client = "live" /\ started
  /\ pc = "destroyed" => client = "null" /\ ~started

(* connected_ may outlive the handle only until stop() clears it again *)
ConnectedInv == connected /\ client = "null" => pc = "destroyed"

(* What is sent is accepted, or about to be *)
SentInv ==
  stats.acknowledged + inflight <= stats.accepted + (IF pc = "sent" THEN 1 ELSE 0)

(* A disconnect is under way only from the call until the handle is gone *)
SignalInv ==
  /\ disconnecting => pc \in {"waiting", "disconnected"}
  /\ pc = "stopping" => ~disconnect_complete
  /\ pc = "waiting" => (disconnect_complete <=> ~disconnecting)

MqttInv == MqttType /\ ClientInv /\ ConnectedInv /\ SentInv /\ SignalInv

-----------------------------------------------------------------------------
(* The step of the invariant for the calls of configure() and start().     *)
LEMMA StartStepInv ==
  ASSUME MqttInv, Configure \/ StartCreate \/ StartStep
  PROVE  MqttInv'
<1> USE DEF MqttInv, MqttType, ClientInv, ConnectedInv, SentInv, SignalInv,
            Idle, Starting, Stopping, pahoVars, callVars
<1>1. CASE Configure
  BY <1>1 DEF Configure
<1>2. CASE StartCreate
  BY <1>2 DEF StartCreate, DiscardHandle
<1>3. CASE StartFail
  BY <1>3 DEF StartFail, Cleanup
<1>4. CASE StartConnect
  BY <1>4 DEF StartConnect
<1>5. CASE StartReturn
  BY <1>5 DEF StartReturn
<1> QED BY <1>1, <1>2, <1>3, <1>4, <1>5 DEF StartStep

(* The step of the invariant for publish().                                *)
LEMMA PublishStepInv ==
  ASSUME MqttInv, PublishRefuse \/ PublishSend \/ PublishReturn
  PROVE  MqttInv'
<1> USE DEF MqttInv, MqttType, ClientInv, ConnectedInv, SentInv, SignalInv,
            Idle, Starting, Stopping, pahoVars, callVars, Bump
<1>1. CASE PublishRefuse
  BY <1>1 DEF PublishRefuse
<1>2. CASE PublishSend
  BY <1>2 DEF PublishSend
<1>3. CASE PublishReturn
  BY <1>3 DEF PublishReturn
<1> QED BY <1>1, <1>2, <1>3

(* The step of the invariant for stop().                                   *)
LEMMA StopStepInv ==
  ASSUME MqttInv, Stop \/ StopStep
  PROVE  MqttInv'
<1> USE DEF MqttInv, MqttType, ClientInv, ConnectedInv, SentInv, SignalInv,
            Idle, Starting, Stopping, pahoVars, callVars
<1>1. CASE Stop
  BY <1>1 DEF Stop, ResetComplete
<1>2. CASE StopDisconnect
  BY <1>2 DEF StopDisconnect
<1>3. CASE StopWaited
  BY <1>3 DEF StopWaited
<1>4. CASE StopDestroy
  <2>1. stats' = stats /\ stats.acknowledged \in Nat /\ stats.accepted \in Nat
    BY <1>4 DEF StopDestroy
  <2>2. SentInv'
    BY <1>4, <2>1 DEF StopDestroy
  <2>3. MqttType' /\ ClientInv' /\ ConnectedInv' /\ SignalInv'
    BY <1>4, <2>1 DEF StopDestroy
  <2> QED BY <2>2, <2>3
<1>5. CASE StopReturn
  BY <1>5 DEF StopReturn, ClearConnected
<1> QED BY <1>1, <1>2, <1>3, <1>4, <1>5 DEF StopStep

(* The step of the invariant for the callbacks of the Paho threads, which  *)
(* may come at any point of a call.                                        *)
LEMMA CallbackStepInv ==
  ASSUME MqttInv, Callback
  PROVE  MqttInv'
<1> USE DEF MqttInv, MqttType, ClientInv, ConnectedInv, SentInv, SignalInv,
            Idle, Starting, Stopping, pahoVars, callVars, Live
<1>1. CASE OnConnected
  BY <1>1 DEF OnConnected
<1>2. CASE OnDisconnected
  BY <1>2 DEF OnDisconnected
<1>3. CASE OnPublishSuccess
  BY <1>3 DEF OnPublishSuccess, Bump
<1>4. CASE OnDisconnectComplete
  BY <1>4 DEF OnDisconnectComplete
<1> QED BY <1>1, <1>2, <1>3, <1>4 DEF Callback

(* The inductive invariant: at every point of start(), publish() and       *)
(* stop(), and whenever a callback comes, handle, flags, counters and      *)
(* disconnect signal fit together.                                         *)
THEOREM MqttInvariant == Spec => []MqttInv
<1>1. Init => MqttInv
  <2> SUFFICES ASSUME Init PROVE MqttInv
    OBVIOUS
  <2> USE DEF Init, Idle, Starting, Stopping
  <2>1. MqttType
    BY DEF MqttType
  <2>2. SentInv
    BY DEF SentInv
  <2>3. ClientInv /\ ConnectedInv /\ SignalInv
    BY DEF ClientInv, ConnectedInv, SignalInv
  <2> QED BY <2>1, <2>2, <2>3 DEF MqttInv
<1>2. MqttInv /\ [Next]_vars => MqttInv'
  <2> SUFFICES ASSUME MqttInv, [Next]_vars PROVE MqttInv'
    OBVIOUS
  <2>1. CASE UNCHANGED vars
    BY <2>1 DEF vars, pahoVars, MqttInv, MqttType, ClientInv, ConnectedInv,
                SentInv, SignalInv
  <2> QED BY <2>1, StartStepInv, PublishStepInv, StopStepInv, CallbackStepInv
          DEF Next
<1> QED BY <1>1, <1>2, PTL DEF Spec

-----------------------------------------------------------------------------
(* Between calls, connected is reported only while there is a client, even *)
(* if a reconnect callback comes while stop() waits (stop).                *)
THEOREM ConnectedOnlyWithClient == Spec => []ConnectedHasClient
<1>1. MqttInv => ConnectedHasClient
  BY DEF MqttInv, MqttType, ConnectedInv, ConnectedHasClient
<1> QED BY <1>1, MqttInvariant, PTL

(* Every way out of start() and stop() leaves a handle exactly if the      *)
(* publisher runs, so none leaks and none is destroyed twice.              *)
THEOREM NoClientLeaks == Spec => []NoClientLeak
<1>1. MqttInv => NoClientLeak
  BY DEF MqttInv, ClientInv, NoClientLeak, Idle
<1> QED BY <1>1, MqttInvariant, PTL

(* However callbacks and publish() interleave, no more messages are        *)
(* acknowledged than were accepted (publish, on_publish_success).          *)
THEOREM AcknowledgedAreAccepted == Spec => []AcknowledgedWasAccepted
<1>1. MqttInv => AcknowledgedWasAccepted
  BY DEF MqttInv, MqttType, SentInv, AcknowledgedWasAccepted
<1> QED BY <1>1, MqttInvariant, PTL

(* The wait of stop() sees the signal of its own disconnect, and of no     *)
(* other (stop, on_disconnect_success, on_disconnect_failure).             *)
THEOREM DisconnectSignalIsExact == Spec => []DisconnectSignalExact
<1>1. MqttInv => DisconnectSignalExact
  BY DEF MqttInv, SignalInv, DisconnectSignalExact
<1> QED BY <1>1, MqttInvariant, PTL
=============================================================================

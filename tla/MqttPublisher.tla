----------------------------- MODULE MqttPublisher -----------------------------
(***************************************************************************)
(* MqttEventPublisher of src/src/publisher/mqtt/mqtt_event_publisher.cpp.  *)
(* start(), publish() and stop() hold mutex_ throughout, so one of them    *)
(* runs at a time and pc says where; the callbacks come from the threads   *)
(* of the Paho library at any time in between and touch only atomics and   *)
(* disconnect_complete_.  The library and the broker are external: they    *)
(* are modelled by the return codes and callbacks this code handles.       *)
(***************************************************************************)
EXTENDS Naturals

CONSTANTS MaxStarts, MaxPublishes  \* bounds on the calls of start() and publish()

ASSUME MqttAssumption == MaxStarts \in Nat /\ MaxPublishes \in Nat

VARIABLES
  configured, started, client, connected, disconnect_complete,
  stats,                 \* accepted, acknowledged, unavailable, rejected
  pc,                    \* progress of the call that holds mutex_, or "free"
  link,                  \* external: the connection, as Paho sees it
  inflight,              \* external: messages sent and not acknowledged
  disconnecting,         \* external: a disconnect callback is outstanding
  starts, publishes      \* calls so far

callVars == <<starts, publishes>>
pahoVars == <<link, inflight, disconnecting>>
vars == <<configured, started, client, connected, disconnect_complete, stats,
          pc, pahoVars, callVars>>

Init ==
  /\ configured = FALSE /\ started = FALSE
  /\ client = "null"
  /\ connected = FALSE
  /\ disconnect_complete = FALSE
  /\ stats = [accepted |-> 0, acknowledged |-> 0, unavailable |-> 0, rejected |-> 0]
  /\ pc = "free"
  /\ link = "down" /\ inflight = 0 /\ disconnecting = FALSE
  /\ starts = 0 /\ publishes = 0

-----------------------------------------------------------------------------
(* configure() *)

Configure ==
  /\ pc = "free"
  /\ ~started
  /\ configured' = TRUE
  /\ UNCHANGED <<started, client, connected, disconnect_complete, stats, pc,
                 pahoVars, callVars>>

-----------------------------------------------------------------------------
(* start() *)

(* client_ = nullptr after a failed create: the handle is not destroyed *)
DiscardHandle == client' = "null"

(* MQTTAsync_create succeeds or fails *)
StartCreate ==
  /\ pc = "free"
  /\ starts < MaxStarts
  /\ configured /\ ~started
  /\ starts' = starts + 1
  /\ \/ client' = "live" /\ pc' = "created" /\ UNCHANGED connected
     \/ DiscardHandle /\ connected' = FALSE /\ UNCHANGED pc
  /\ UNCHANGED <<configured, started, disconnect_complete, stats, pahoVars,
                 publishes>>

(* Mutant: the handle is kept when start() fails *)
CleanupLeaks == UNCHANGED client

(* MQTTAsync_destroy of the cleanup lambda *)
Cleanup == client' = "null"

(* A callback cannot be set, or MQTTAsync_connect is refused *)
StartFail ==
  /\ pc = "created"
  /\ Cleanup
  /\ started' = FALSE
  /\ connected' = FALSE
  /\ pc' = "free"
  /\ UNCHANGED <<configured, disconnect_complete, stats, pahoVars, callVars>>

StartConnect ==
  /\ pc = "created"
  /\ link' = "connecting"
  /\ pc' = "connect"
  /\ UNCHANGED <<configured, started, client, connected, disconnect_complete,
                 stats, inflight, disconnecting, callVars>>

StartReturn ==
  /\ pc = "connect"
  /\ started' = TRUE
  /\ pc' = "free"
  /\ UNCHANGED <<configured, client, connected, disconnect_complete, stats,
                 pahoVars, callVars>>

-----------------------------------------------------------------------------
(* publish() *)

Bump(k) == stats' = [stats EXCEPT ![k] = @ + 1]

(* The payload is too large, which is found before mutex_ is taken, or     *)
(* there is no running client                                              *)
PublishRefuse ==
  /\ publishes < MaxPublishes
  /\ publishes' = publishes + 1
  /\ \/ Bump("rejected")
     \/ pc = "free" /\ (~started \/ client = "null") /\ Bump("unavailable")
  /\ UNCHANGED <<configured, started, client, connected, disconnect_complete,
                 pc, pahoVars, starts>>

(* MQTTAsync_send: Paho takes the message only while it is connected *)
PublishSend ==
  /\ pc = "free"
  /\ publishes < MaxPublishes
  /\ started /\ client # "null"
  /\ publishes' = publishes + 1
  /\ \/ link = "up" /\ inflight' = inflight + 1 /\ pc' = "sent" /\ UNCHANGED stats
     \/ Bump("unavailable") /\ UNCHANGED <<inflight, pc>>
     \/ Bump("rejected") /\ UNCHANGED <<inflight, pc>>
  /\ UNCHANGED <<configured, started, client, connected, disconnect_complete,
                 link, disconnecting, starts>>

(* Mutant: a message that was sent is not counted as accepted *)
PublishReturnUncounted ==
  /\ pc = "sent"
  /\ Bump("unavailable")
  /\ pc' = "free"
  /\ UNCHANGED <<configured, started, client, connected, disconnect_complete,
                 pahoVars, callVars>>

PublishReturn ==
  /\ pc = "sent"
  /\ Bump("accepted")
  /\ pc' = "free"
  /\ UNCHANGED <<configured, started, client, connected, disconnect_complete,
                 pahoVars, callVars>>

-----------------------------------------------------------------------------
(* stop() *)

(* Mutant: the signal of an earlier disconnect is not reset *)
KeepComplete == UNCHANGED disconnect_complete

ResetComplete == disconnect_complete' = FALSE

(* Without a client there is nothing to disconnect *)
Stop ==
  /\ pc = "free"
  /\ started' = FALSE
  /\ connected' = FALSE
  /\ \/ client = "null" /\ UNCHANGED <<disconnect_complete, pc>>
     \/ client # "null" /\ ResetComplete /\ pc' = "stopping"
  /\ UNCHANGED <<configured, client, stats, pahoVars, callVars>>

(* MQTTAsync_disconnect is accepted or not *)
StopDisconnect ==
  /\ pc = "stopping"
  /\ \/ pc' = "waiting" /\ disconnecting' = TRUE
     \/ pc' = "disconnected" /\ UNCHANGED disconnecting
  /\ UNCHANGED <<configured, started, client, connected, disconnect_complete,
                 stats, link, inflight, callVars>>

(* Mutant: stop() waits for the callback without a time limit *)
WaitForever == disconnect_complete

(* disconnect_cv_.wait_for ends when it is signalled, or after 1000 ms *)
WaitOver == TRUE

StopWaited ==
  /\ pc = "waiting"
  /\ WaitOver
  /\ pc' = "disconnected"
  /\ UNCHANGED <<configured, started, client, connected, disconnect_complete,
                 stats, pahoVars, callVars>>

(* MQTTAsync_destroy: no callback comes any more *)
StopDestroy ==
  /\ pc = "disconnected"
  /\ client' = "null"
  /\ link' = "down" /\ inflight' = 0 /\ disconnecting' = FALSE
  /\ pc' = "destroyed"
  /\ UNCHANGED <<configured, started, connected, disconnect_complete, stats,
                 callVars>>

(* Mutant: connected_ is cleared only when stop() begins *)
KeepConnected == UNCHANGED connected

ClearConnected == connected' = FALSE

StopReturn ==
  /\ pc = "destroyed"
  /\ ClearConnected
  /\ pc' = "free"
  /\ UNCHANGED <<configured, started, client, disconnect_complete, stats,
                 pahoVars, callVars>>

-----------------------------------------------------------------------------
(* Callbacks.  Paho reconnects by itself after a failure or a loss.        *)

Live == client = "live"

(* on_connect_success, on_reconnected *)
OnConnected ==
  /\ Live
  /\ link \in {"connecting", "lost"}
  /\ link' = "up"
  /\ connected' = TRUE
  /\ UNCHANGED <<configured, started, client, disconnect_complete, stats, pc,
                 inflight, disconnecting, callVars>>

(* on_connect_failure, on_connection_lost *)
OnDisconnected ==
  /\ Live
  /\ link \in {"connecting", "up"}
  /\ link' = "lost"
  /\ connected' = FALSE
  /\ UNCHANGED <<configured, started, client, disconnect_complete, stats, pc,
                 inflight, disconnecting, callVars>>

OnPublishSuccess ==
  /\ Live
  /\ inflight > 0
  /\ inflight' = inflight - 1
  /\ Bump("acknowledged")
  /\ UNCHANGED <<configured, started, client, connected, disconnect_complete,
                 pc, link, disconnecting, callVars>>

(* on_disconnect_success, on_disconnect_failure *)
OnDisconnectComplete ==
  /\ Live
  /\ disconnecting
  /\ disconnecting' = FALSE
  /\ disconnect_complete' = TRUE
  /\ link' = "closed"
  /\ UNCHANGED <<configured, started, client, connected, stats, pc, inflight,
                 callVars>>

StartStep == StartFail \/ StartConnect \/ StartReturn
StopStep == StopDisconnect \/ StopWaited \/ StopDestroy \/ StopReturn
Callback == OnConnected \/ OnDisconnected \/ OnPublishSuccess \/ OnDisconnectComplete

Next == \/ Configure \/ StartCreate \/ StartStep
        \/ PublishRefuse \/ PublishSend \/ PublishReturn
        \/ Stop \/ StopStep \/ Callback

Spec == Init /\ [][Next]_vars

(* The calls go on once they have begun; Paho and the broker may be silent *)
FairSpec == Spec /\ WF_vars(StartStep) /\ WF_vars(PublishReturn) /\ WF_vars(StopStep)

-----------------------------------------------------------------------------
(* Properties *)

(* "A connect/reconnect callback may have raced with the disconnect wait": *)
(* outside of stop(), connected is reported only while there is a client.  *)
ConnectedHasClient == pc = "free" /\ connected => client = "live"

(* start() and stop() leave no client behind that nothing would destroy,   *)
(* and no half-made one that must not be destroyed: between calls there is *)
(* a handle exactly while the publisher runs.                              *)
NoClientLeak == pc = "free" => client = IF started THEN "live" ELSE "null"

(* A message is counted as acknowledged only if it was sent, and as soon   *)
(* as publish() has returned, only if it was accepted.                     *)
AcknowledgedWasAccepted ==
  stats["acknowledged"] <= stats["accepted"] + (IF pc = "sent" THEN 1 ELSE 0)

(* While stop() waits, disconnect_complete_ says exactly whether the       *)
(* callback of this disconnect has come: a signal is neither lost nor left *)
(* over from an earlier stop().                                            *)
DisconnectSignalExact ==
  pc = "waiting" => (disconnect_complete <=> ~disconnecting)

(* stop() returns even if no disconnect callback ever comes.               *)
StopReturns == (pc = "stopping") ~> (pc = "free")
=============================================================================

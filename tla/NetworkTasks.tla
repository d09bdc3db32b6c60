----------------------------- MODULE NetworkTasks -----------------------------
(***************************************************************************)
(* The FreeRTOS tasks of main/main.c that bring the device online and keep *)
(* it there, seen through the event group they share.                      *)
(*                                                                         *)
(* prvNetworkHandlingTask waits for INIT_BIT or for a bit that reports a   *)
(* failure, consumes every such bit that is set, and for each one calls    *)
(* esp_wifi_connect or creates a one-shot task: prvGetPrivKeyTask,         *)
(* prvGetCertTask, prvTlsConnectionTask or prvMqttConnectionTask.  A       *)
(* one-shot task waits for the bits it depends on, does its work, sets one *)
(* bit with the outcome and deletes itself.  prvQuickConnectSendingTask    *)
(* publishes on the connection they leave behind.  The driver's events are *)
(* delivered by ESP-IDF's event task, which runs the handlers.             *)
(*                                                                         *)
(* What a task computes is a choice of outcome here: the credentials are   *)
(* in Provisioning.tla.  xUtilityOutputEventGroup is left out, these tasks *)
(* only write to it.                                                       *)
(***************************************************************************)
EXTENDS Naturals, Sequences, FiniteSets

CONSTANTS
  Copy,           \* tasks of one function that exist at the same time, a bound
  MqttStatus,     \* what eMqttConnect can return
  CreateCanFail   \* whether xTaskCreate can run out of heap

ASSUME MqttStatusAssumption ==
  MqttStatus \subseteq {"Success", "NoMemory", "SendOrRecvFailed", "Other"}

ASSUME CreateAssumption == CreateCanFail \in BOOLEAN

VARIABLES
  net,     \* xNetworkEventGroup, as the set of its set bits
  todo,    \* the jobs that the handling task has yet to do for the bits it got
  pc,      \* where each one-shot task is, "free" if there is no such task
  sender,  \* where prvQuickConnectSendingTask is
  pxTls,   \* xNetworkContext.pxTls: what the pointer points at
  wifi,    \* the station of the Wi-Fi driver
  dhcp,    \* the DHCP client of the station's interface
  evq,     \* events posted to the default event loop
  evt      \* where the event task is in prvWifiEventHandler

vars == <<net, todo, pc, sender, pxTls, wifi, dhcp, evq, evt>>

(***************************************************************************)
(* The bits, and the jobs of the handling task in the order in which one   *)
(* pass of its loop does them.                                             *)
(***************************************************************************)
Job == {"wifi", "key", "cert", "tls", "mqtt"}

Earlier == [wifi |-> {},
            key  |-> {"wifi"},
            cert |-> {"wifi", "key"},
            tls  |-> {"wifi", "key", "cert"},
            mqtt |-> {"wifi", "key", "cert", "tls"}]

FailBit == [wifi |-> "WIFI_DISCONNECTED",
            key  |-> "PRIV_KEY_FAIL",
            cert |-> "CERT_FAIL",
            tls  |-> "TLS_DISCONNECTED",
            mqtt |-> "MQTT_DISCONNECTED"]

WaitedBits == {"INIT", "WIFI_DISCONNECTED", "PRIV_KEY_FAIL", "CERT_FAIL",
               "TLS_DISCONNECTED", "MQTT_DISCONNECTED"}

Bit == WaitedBits \cup {"WIFI_CONNECTED", "IP_GOT", "PRIV_KEY_SUCCESS",
                        "CERT_SUCCESS", "TLS_CONNECTED", "MQTT_CONNECTED"}

FirstPc == [key |-> "key", cert |-> "cert", tls |-> "tls_wait", mqtt |-> "mqtt_wait"]

\* A one-shot task: its job, and which copy of the task it is.
Task == (DOMAIN FirstPc) \X Copy

KeyPc  == {"key"}
CertPc == {"cert", "cert_wait", "claim"}
TlsPc  == {"tls_wait", "tls_disconnect", "tls_init", "tls_connect"}
MqttPc == {"mqtt_wait", "mqtt_connect", "mqtt_clear", "mqtt_set"}

TypeOK ==
  /\ net \subseteq Bit
  /\ todo \subseteq Job
  /\ pc \in [Task -> {"free", "exit"} \cup KeyPc \cup CertPc \cup TlsPc \cup MqttPc]
  /\ sender \in {"delay", "wait", "publish", "clear", "set"}
  /\ pxTls \in {"null", "new", "open", "freed"}
  /\ wifi \in {"idle", "connecting", "connected"}
  /\ dhcp \in {"off", "discover", "bound"}
  /\ evq \in Seq({"connected", "disconnected", "got_ip"})
  /\ evt \in {"idle", "disc_set"}

(***************************************************************************)
(* Initially the handling task, created by app_main, has set INIT_BIT.     *)
(***************************************************************************)
Init ==
  /\ net = {"INIT"}
  /\ todo = {}
  /\ pc = [t \in Task |-> "free"]
  /\ sender = "delay"
  /\ pxTls = "null"
  /\ wifi = "idle"
  /\ dhcp = "off"
  /\ evq = <<>>
  /\ evt = "idle"

(***************************************************************************)
(* prvNetworkHandlingTask.  The wait returns with all the waited bits that *)
(* are set, and clears them in the same step.                              *)
(***************************************************************************)
\* Mutant: a chain of "else if", which does one job per wait.
HandlerWait_OneJob ==
  /\ todo = {}
  /\ net \cap WaitedBits # {}
  /\ LET jobs == {j \in Job : "INIT" \in net \/ FailBit[j] \in net}
     IN  todo' = {j \in jobs : jobs \cap Earlier[j] = {}}
  /\ net' = net \ WaitedBits
  /\ UNCHANGED <<pc, sender, pxTls, wifi, dhcp, evq, evt>>

HandlerWait ==
  /\ todo = {}
  /\ net \cap WaitedBits # {}
  /\ todo' = {j \in Job : "INIT" \in net \/ FailBit[j] \in net}
  /\ net' = net \ WaitedBits
  /\ UNCHANGED <<pc, sender, pxTls, wifi, dhcp, evq, evt>>

\* esp_wifi_connect starts a connection attempt.  Under ESP_ERROR_CHECK a
\* refusal resets the device: OneLiveStation says that there is no reason for
\* one, the station is idle.
HandlerWifi ==
  /\ "wifi" \in todo
  /\ wifi' = "connecting"
  /\ todo' = todo \ {"wifi"}
  /\ UNCHANGED <<net, pc, sender, pxTls, dhcp, evq, evt>>

\* xTaskCreate, whose result is not looked at: if it fails the job is lost.
Slot(j) == {j} \X Copy
FreeSlot(j) == CHOOSE t \in Slot(j) : pc[t] = "free"

HandlerCreate(j) ==
  /\ j \in todo
  /\ todo \cap Earlier[j] = {}
  /\ \E t \in Slot(j) : pc[t] = "free"
  /\ todo' = todo \ {j}
  /\ pc' = [pc EXCEPT ![FreeSlot(j)] = FirstPc[j]]
  /\ UNCHANGED <<net, sender, pxTls, wifi, dhcp, evq, evt>>

HandlerCreateFails(j) ==
  /\ j \in todo
  /\ todo \cap Earlier[j] = {}
  /\ CreateCanFail
  /\ todo' = todo \ {j}
  /\ UNCHANGED <<net, pc, sender, pxTls, wifi, dhcp, evq, evt>>

(***************************************************************************)
(* The one-shot tasks.  A task reports its outcome, and is still there,    *)
(* with a bit of the other event group to set and itself to delete, when   *)
(* the handling task, of a higher priority, creates the next one.          *)
(***************************************************************************)
Goto(t, l) == pc' = [pc EXCEPT ![t] = l]

Finish(t, bits) ==
  /\ Goto(t, "exit")
  /\ net' = net \cup bits

\* vTaskDelete, and the idle task that frees the memory.
Delete(t) ==
  /\ pc[t] = "exit"
  /\ Goto(t, "free")
  /\ UNCHANGED <<net, todo, sender, pxTls, wifi, dhcp, evq, evt>>

\* prvGetPrivKeyTask
KeyDone(t) ==
  /\ pc[t] = "key"
  /\ Finish(t, {"PRIV_KEY_SUCCESS"})
  /\ UNCHANGED <<todo, sender, pxTls, wifi, dhcp, evq, evt>>

\* Mutant: a bit nobody knows.
KeyFailed_WrongBit(t) ==
  /\ pc[t] = "key"
  /\ Finish(t, {"UTIL_PRIV_KEY_AND_CSR_FAIL"})
  /\ UNCHANGED <<todo, sender, pxTls, wifi, dhcp, evq, evt>>

KeyFailed(t) ==
  /\ pc[t] = "key"
  /\ Finish(t, {"PRIV_KEY_FAIL"})
  /\ UNCHANGED <<todo, sender, pxTls, wifi, dhcp, evq, evt>>

\* prvGetCertTask: a stored certificate ends it at once, otherwise it waits
\* for the key and an address and performs the claim.
CertStored(t) ==
  /\ pc[t] = "cert"
  /\ Finish(t, {"CERT_SUCCESS"})
  /\ UNCHANGED <<todo, sender, pxTls, wifi, dhcp, evq, evt>>

CertMissing(t) ==
  /\ pc[t] = "cert"
  /\ Goto(t, "cert_wait")
  /\ UNCHANGED <<net, todo, sender, pxTls, wifi, dhcp, evq, evt>>

CertWait(t) ==
  /\ pc[t] = "cert_wait"
  /\ {"PRIV_KEY_SUCCESS", "IP_GOT"} \subseteq net
  /\ Goto(t, "claim")
  /\ UNCHANGED <<net, todo, sender, pxTls, wifi, dhcp, evq, evt>>

ClaimDone(t) ==
  /\ pc[t] = "claim"
  /\ Finish(t, {"CERT_SUCCESS"})
  /\ UNCHANGED <<todo, sender, pxTls, wifi, dhcp, evq, evt>>

ClaimFailed(t) ==
  /\ pc[t] = "claim"
  /\ Finish(t, {"CERT_FAIL"})
  /\ UNCHANGED <<todo, sender, pxTls, wifi, dhcp, evq, evt>>

\* prvTlsConnectionTask
TlsWait(t) ==
  /\ pc[t] = "tls_wait"
  /\ {"PRIV_KEY_SUCCESS", "CERT_SUCCESS", "IP_GOT"} \subseteq net
  /\ Goto(t, "tls_disconnect")
  /\ UNCHANGED <<net, todo, sender, pxTls, wifi, dhcp, evq, evt>>

\* xTlsDisconnect frees the previous connection and keeps the pointer.
TlsDisconnect(t) ==
  /\ pc[t] = "tls_disconnect"
  /\ pxTls' = IF pxTls = "null" THEN "null" ELSE "freed"
  /\ Goto(t, "tls_init")
  /\ UNCHANGED <<net, todo, sender, wifi, dhcp, evq, evt>>

\* esp_tls_init allocates the next one, or returns NULL.
TlsInit(t) ==
  /\ pc[t] = "tls_init"
  /\ pxTls' \in {"new", "null"}
  /\ Goto(t, "tls_connect")
  /\ UNCHANGED <<net, todo, sender, wifi, dhcp, evq, evt>>

\* esp_tls_conn_new_sync, which fails when it is handed NULL.
TlsDone(t) ==
  /\ pc[t] = "tls_connect"
  /\ pxTls = "new"
  /\ pxTls' = "open"
  /\ Finish(t, {"TLS_CONNECTED"})
  /\ UNCHANGED <<todo, sender, wifi, dhcp, evq, evt>>

TlsFailed(t) ==
  /\ pc[t] = "tls_connect"
  /\ Finish(t, {"TLS_DISCONNECTED"})
  /\ UNCHANGED <<todo, sender, pxTls, wifi, dhcp, evq, evt>>

\* prvMqttConnectionTask
MqttWait(t) ==
  /\ pc[t] = "mqtt_wait"
  /\ "TLS_CONNECTED" \in net
  /\ Goto(t, "mqtt_connect")
  /\ UNCHANGED <<net, todo, sender, pxTls, wifi, dhcp, evq, evt>>

MqttDone(t) ==
  /\ pc[t] = "mqtt_connect"
  /\ "Success" \in MqttStatus
  /\ Finish(t, {"MQTT_CONNECTED"})
  /\ UNCHANGED <<todo, sender, pxTls, wifi, dhcp, evq, evt>>

MqttNoMemory(t) ==
  /\ pc[t] = "mqtt_connect"
  /\ "NoMemory" \in MqttStatus
  /\ Finish(t, {})
  /\ UNCHANGED <<todo, sender, pxTls, wifi, dhcp, evq, evt>>

MqttRefused(t) ==
  /\ pc[t] = "mqtt_connect"
  /\ "Other" \in MqttStatus
  /\ Finish(t, {"MQTT_DISCONNECTED"})
  /\ UNCHANGED <<todo, sender, pxTls, wifi, dhcp, evq, evt>>

\* A transport error: clear TLS_CONNECTED, then ask for both connections.
MqttTransportFailed(t) ==
  /\ pc[t] = "mqtt_connect"
  /\ "SendOrRecvFailed" \in MqttStatus
  /\ Goto(t, "mqtt_clear")
  /\ UNCHANGED <<net, todo, sender, pxTls, wifi, dhcp, evq, evt>>

\* Mutant: the failure is reported before the bit is cleared.
MqttClear_SetsFirst(t) ==
  /\ pc[t] = "mqtt_clear"
  /\ net' = net \cup {"TLS_DISCONNECTED", "MQTT_DISCONNECTED"}
  /\ Goto(t, "mqtt_set")
  /\ UNCHANGED <<todo, sender, pxTls, wifi, dhcp, evq, evt>>

MqttClear(t) ==
  /\ pc[t] = "mqtt_clear"
  /\ net' = net \ {"TLS_CONNECTED"}
  /\ Goto(t, "mqtt_set")
  /\ UNCHANGED <<todo, sender, pxTls, wifi, dhcp, evq, evt>>

MqttSet(t) ==
  /\ pc[t] = "mqtt_set"
  /\ Finish(t, {"TLS_DISCONNECTED", "MQTT_DISCONNECTED"})
  /\ UNCHANGED <<todo, sender, pxTls, wifi, dhcp, evq, evt>>

(***************************************************************************)
(* prvQuickConnectSendingTask                                              *)
(***************************************************************************)
SenderDelay ==
  /\ sender = "delay"
  /\ sender' = "wait"
  /\ UNCHANGED <<net, todo, pc, pxTls, wifi, dhcp, evq, evt>>

SenderWait ==
  /\ sender = "wait"
  /\ "MQTT_CONNECTED" \in net
  /\ sender' = "publish"
  /\ UNCHANGED <<net, todo, pc, pxTls, wifi, dhcp, evq, evt>>

SenderPublished ==
  /\ sender = "publish"
  /\ sender' = "delay"
  /\ UNCHANGED <<net, todo, pc, pxTls, wifi, dhcp, evq, evt>>

SenderPublishFailed ==
  /\ sender = "publish"
  /\ sender' = "clear"
  /\ UNCHANGED <<net, todo, pc, pxTls, wifi, dhcp, evq, evt>>

\* Mutants: only one of the two bits is cleared.
SenderClear_KeepsMqtt ==
  /\ sender = "clear"
  /\ net' = net \ {"TLS_CONNECTED"}
  /\ sender' = "set"
  /\ UNCHANGED <<todo, pc, pxTls, wifi, dhcp, evq, evt>>

SenderClear_KeepsTls ==
  /\ sender = "clear"
  /\ net' = net \ {"MQTT_CONNECTED"}
  /\ sender' = "set"
  /\ UNCHANGED <<todo, pc, pxTls, wifi, dhcp, evq, evt>>

SenderClear ==
  /\ sender = "clear"
  /\ net' = net \ {"TLS_CONNECTED", "MQTT_CONNECTED"}
  /\ sender' = "set"
  /\ UNCHANGED <<todo, pc, pxTls, wifi, dhcp, evq, evt>>

\* Mutant: the MQTT connection is forgotten.
SenderSet_TlsOnly ==
  /\ sender = "set"
  /\ net' = net \cup {"TLS_DISCONNECTED"}
  /\ sender' = "delay"
  /\ UNCHANGED <<todo, pc, pxTls, wifi, dhcp, evq, evt>>

SenderSet ==
  /\ sender = "set"
  /\ net' = net \cup {"TLS_DISCONNECTED", "MQTT_DISCONNECTED"}
  /\ sender' = "delay"
  /\ UNCHANGED <<todo, pc, pxTls, wifi, dhcp, evq, evt>>

(***************************************************************************)
(* The Wi-Fi driver and the interface of the station, external.  An        *)
(* address is reported by the TCP/IP task, for as long as the interface is *)
(* up: until the event task gets to the event that takes it down.          *)
(***************************************************************************)
WifiAssociate ==
  /\ wifi = "connecting"
  /\ wifi' = "connected"
  /\ evq' = Append(evq, "connected")
  /\ UNCHANGED <<net, todo, pc, sender, pxTls, dhcp, evt>>

WifiDisconnect ==
  /\ wifi # "idle"
  /\ wifi' = "idle"
  /\ evq' = Append(evq, "disconnected")
  /\ UNCHANGED <<net, todo, pc, sender, pxTls, dhcp, evt>>

DhcpBound ==
  /\ dhcp = "discover"
  /\ dhcp' = "bound"
  /\ evq' = Append(evq, "got_ip")
  /\ UNCHANGED <<net, todo, pc, sender, pxTls, wifi, evt>>

(***************************************************************************)
(* The event task: prvWifiEventHandler and prvIpEventHandler, after        *)
(* ESP-IDF's own handlers have taken the interface up or down.             *)
(***************************************************************************)
NextEvent(e) ==
  /\ evt = "idle"
  /\ evq # <<>>
  /\ Head(evq) = e
  /\ evq' = Tail(evq)

OnConnected ==
  /\ NextEvent("connected")
  /\ dhcp' = "discover"
  /\ net' = net \cup {"WIFI_CONNECTED"}
  /\ UNCHANGED <<todo, pc, sender, pxTls, wifi, evt>>

\* Mutant: the handler leaves WIFI_CONNECTED set.
OnDisconnected_KeepsBit ==
  /\ NextEvent("disconnected")
  /\ dhcp' = "off"
  /\ net' = net \ {"IP_GOT"}
  /\ evt' = "disc_set"
  /\ UNCHANGED <<todo, pc, sender, pxTls, wifi>>

OnDisconnected ==
  /\ NextEvent("disconnected")
  /\ dhcp' = "off"
  /\ net' = net \ {"WIFI_CONNECTED", "IP_GOT"}
  /\ evt' = "disc_set"
  /\ UNCHANGED <<todo, pc, sender, pxTls, wifi>>

\* Mutant: only the utility is told.
OnDisconnectedSet_UtilityOnly ==
  /\ evt = "disc_set"
  /\ evt' = "idle"
  /\ UNCHANGED <<net, todo, pc, sender, pxTls, wifi, dhcp, evq>>

OnDisconnectedSet ==
  /\ evt = "disc_set"
  /\ net' = net \cup {"WIFI_DISCONNECTED"}
  /\ evt' = "idle"
  /\ UNCHANGED <<todo, pc, sender, pxTls, wifi, dhcp, evq>>

OnGotIp ==
  /\ NextEvent("got_ip")
  /\ net' = net \cup {"IP_GOT"}
  /\ UNCHANGED <<todo, pc, sender, pxTls, wifi, dhcp, evt>>

(***************************************************************************)
(* The specification.                                                      *)
(***************************************************************************)
Handler == \/ HandlerWait \/ HandlerWifi
           \/ \E j \in DOMAIN FirstPc : HandlerCreate(j) \/ HandlerCreateFails(j)

KeyTask(t)  == KeyDone(t) \/ KeyFailed(t)
CertTask(t) == \/ CertStored(t) \/ CertMissing(t) \/ CertWait(t)
               \/ ClaimDone(t) \/ ClaimFailed(t)
TlsTask(t)  == \/ TlsWait(t) \/ TlsDisconnect(t) \/ TlsInit(t)
               \/ TlsDone(t) \/ TlsFailed(t)
MqttTask(t) == \/ MqttWait(t) \/ MqttDone(t) \/ MqttNoMemory(t)
               \/ MqttRefused(t) \/ MqttTransportFailed(t)
               \/ MqttClear(t) \/ MqttSet(t)

OneShot(t) == KeyTask(t) \/ CertTask(t) \/ TlsTask(t) \/ MqttTask(t) \/ Delete(t)

Sender == \/ SenderDelay \/ SenderWait \/ SenderPublished
          \/ SenderPublishFailed \/ SenderClear \/ SenderSet

Driver == WifiAssociate \/ WifiDisconnect \/ DhcpBound

EventTask == OnConnected \/ OnDisconnected \/ OnDisconnectedSet \/ OnGotIp

Next == Handler \/ (\E t \in Task : OneShot(t)) \/ Sender \/ Driver \/ EventTask

Spec == Init /\ [][Next]_vars

(***************************************************************************)
(* Fairness.  Every task is scheduled.  A task blocked in                  *)
(* xEventGroupWaitBits is released by the call that sets the last bit it   *)
(* waits for, even if another task clears that bit before it runs: strong  *)
(* fairness of the waits on bits that others clear.  The access point, the *)
(* claim service and the broker answer infinitely many of infinitely many  *)
(* attempts.  There is at most one task of a kind, so fairness of the kind *)
(* is fairness of the task.  An attempt of the station to connect has an   *)
(* outcome; nothing ever has to drop a station that is connected.          *)
(***************************************************************************)
AttemptEnds == wifi = "connecting" /\ (WifiAssociate \/ WifiDisconnect)

Scheduled ==
  /\ WF_vars(Handler)
  /\ WF_vars(EventTask)
  /\ WF_vars(Sender)
  /\ WF_vars(AttemptEnds)
  /\ \A t \in Task : WF_vars(OneShot(t))
  /\ SF_vars(\E t \in Task : CertWait(t))
  /\ SF_vars(\E t \in Task : TlsWait(t))

Answered ==
  /\ SF_vars(WifiAssociate)
  /\ SF_vars(DhcpBound)
  /\ SF_vars(\E t \in Task : KeyDone(t))
  /\ SF_vars(\E t \in Task : ClaimDone(t))
  /\ SF_vars(\E t \in Task : TlsInit(t) /\ pxTls' = "new")
  /\ SF_vars(\E t \in Task : TlsDone(t))
  /\ SF_vars(\E t \in Task : MqttDone(t))

FairSpec == Spec /\ Scheduled /\ Answered

(***************************************************************************)
(* Correctness.  Each job of the handling task is always in the hands of   *)
(* exactly one party.  The sums below count them: the bit that will make   *)
(* the handling task do it, the pass of the loop that is about to, the     *)
(* task or the driver at work on it, the bit that says it is done, or the  *)
(* party that has withdrawn that bit and is about to report the failure.   *)
(***************************************************************************)
One(p) == IF p THEN 1 ELSE 0

Running(pcs) == {t \in Task : pc[t] \in pcs}

AtMostOne(S) == \A x, y \in S : x = y

Due(j) == One("INIT" \in net) + One(FailBit[j] \in net) + One(j \in todo)

KeyHolders  == Due("key") + One(Running(KeyPc) # {}) + One("PRIV_KEY_SUCCESS" \in net)

CertHolders == Due("cert") + One(Running(CertPc) # {}) + One("CERT_SUCCESS" \in net)

\* The task that is about to report a failed connection, or the sending task.
Withdrawing == One(Running({"mqtt_set"}) # {}) + One(sender = "set")

TlsHolders  == Due("tls") + One(Running(TlsPc) # {}) + One("TLS_CONNECTED" \in net)
                 + Withdrawing

MqttHolders == Due("mqtt") + One(Running(MqttPc \ {"mqtt_set"}) # {})
                 + One("MQTT_CONNECTED" \in net) + Withdrawing

Disconnections == {i \in DOMAIN evq : evq[i] = "disconnected"}

WifiHolders == Due("wifi") + One(wifi # "idle") + One(Disconnections # {})
                 + One(evt = "disc_set")

\* No two tasks acquire the key, or the certificate, at the same time, and
\* none does while the other tasks use what it acquired: both are globals
\* that main.c reads and writes without a lock.
OneKeyTask  == AtMostOne(Running(KeyPc)) /\ KeyHolders <= 1
OneCertTask == AtMostOne(Running(CertPc)) /\ CertHolders <= 1

\* The station is asked to connect once per disconnection and never while it
\* is connecting or connected.
OneLiveStation == AtMostOne(Disconnections) /\ WifiHolders <= 1

\* However the failures of the TLS task, the MQTT task and the sending task
\* interleave with the passes of the handling task, there is one TLS
\* connection or attempt, and one MQTT connection or attempt.
OneTlsConnection  == AtMostOne(Running(TlsPc)) /\ TlsHolders <= 1
OneMqttConnection == AtMostOne(Running(MqttPc)) /\ MqttHolders <= 1

OneHolder == OneKeyTask /\ OneCertTask /\ OneLiveStation /\ OneTlsConnection /\ OneMqttConnection

\* xNetworkContext.pxTls is used by whoever runs esp_tls or coreMQTT on it.
\* The TLS task may free and replace it without a lock because nobody else
\* is using it then, and the others find an open connection behind it.
UsesTls == {"tls_disconnect", "tls_init", "tls_connect", "mqtt_connect"}

TlsExclusive ==
  /\ AtMostOne(Running(UsesTls))
  /\ sender = "publish" => pxTls = "open" /\ Running(UsesTls) = {}
  /\ \A t \in Task : /\ pc[t] = "mqtt_connect"   => pxTls = "open"
                     /\ pc[t] = "tls_disconnect" => pxTls # "freed"

\* The bits that the tasks wait for are never stale: TLS_CONNECTED stands on
\* an open connection made with an acquired key and certificate, and
\* MQTT_CONNECTED on TLS_CONNECTED.
BitsTruthful ==
  /\ "TLS_CONNECTED" \in net => /\ pxTls = "open"
                                /\ {"PRIV_KEY_SUCCESS", "CERT_SUCCESS"} \subseteq net
  /\ "MQTT_CONNECTED" \in net => "TLS_CONNECTED" \in net

\* "If a network task fails, this restarts it" (main.c:709-710): no job is
\* ever dropped, there is always somebody who has it.
NothingAbandoned ==
  /\ KeyHolders >= 1 /\ CertHolders >= 1
  /\ TlsHolders >= 1 /\ MqttHolders >= 1
  /\ WifiHolders >= 1

\* When the event task has nothing left to deliver, WIFI_CONNECTED says what
\* the driver's state is, whatever the handler was interleaved with.
WifiBitCurrent ==
  evq = <<>> /\ evt = "idle" => ("WIFI_CONNECTED" \in net <=> wifi = "connected")

\* The device keeps publishing, through any failure of the access point, the
\* claim, the TLS and MQTT connections, as long as attempts keep succeeding
\* now and then.
KeepsPublishing == []<>(sender = "publish")

\* A station that was dropped gets connected again.
WifiReturns == wifi = "idle" ~> wifi = "connected"
===============================================================================

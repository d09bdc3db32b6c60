-------------------------- MODULE NetworkTasksProofs --------------------------
(***************************************************************************)
(* Proofs about NetworkTasks.tla, for any number of tasks, every set of     *)
(* results of eMqttConnect and a heap that may run out or not.             *)
(*                                                                         *)
(* The counting invariants OneKeyTask, OneCertTask and OneLiveStation are  *)
(* inductive with TypeOK.  OneTlsConnection and OneMqttConnection are not  *)
(* without Links: a step that hands a job from one party to another takes  *)
(* it from the first only if the first had it, and for the two connections *)
(* that is known from what the other connection is doing.                  *)
(* CurrentWifiBit needs EventOrder besides, about the event queue.         *)
(***************************************************************************)
EXTENDS NetworkTasks, TLAPS

\* The bits a task or the sending task has seen stay set for as long as it
\* acts on them, and the pointer dangles only between two calls of the TLS
\* task.
Links ==
  /\ BitsTruthful
  /\ \A t \in Task :
       /\ pc[t] \in {"mqtt_connect", "mqtt_clear"} => "TLS_CONNECTED" \in net
       /\ pc[t] \in {"tls_disconnect", "tls_init", "tls_connect"} =>
            {"PRIV_KEY_SUCCESS", "CERT_SUCCESS"} \subseteq net
  /\ sender \in {"publish", "clear"} => "MQTT_CONNECTED" \in net
  /\ pxTls = "freed" => Running({"tls_init"}) # {}

\* The inductive invariant.
NetworkInv ==
  /\ TypeOK
  /\ OneKeyTask
  /\ OneCertTask
  /\ OneLiveStation
  /\ OneTlsConnection
  /\ OneMqttConnection
  /\ Links

USE DEF Job, WaitedBits, Bit, KeyPc, CertPc, TlsPc, MqttPc, FailBit, FirstPc, Earlier

\* xTaskCreate gets a task that does not exist yet.
LEMMA FreeSlotType ==
  ASSUME NEW j \in DOMAIN FirstPc, \E t \in Slot(j) : pc[t] = "free"
  PROVE  FreeSlot(j) \in Task /\ pc[FreeSlot(j)] = "free"
BY DEF FreeSlot, Slot, Task

\* The steps of the system, one task or handler at a time.
LEMMA NextCases ==
  ASSUME [Next]_vars
  PROVE  \/ HandlerWait
         \/ HandlerWifi
         \/ \E j \in DOMAIN FirstPc : HandlerCreate(j)
         \/ \E j \in DOMAIN FirstPc : HandlerCreateFails(j)
         \/ \E t \in Task : KeyTask(t)
         \/ \E t \in Task : CertTask(t)
         \/ \E t \in Task : TlsTask(t)
         \/ \E t \in Task : MqttTask(t)
         \/ \E t \in Task : Delete(t)
         \/ Sender
         \/ Driver
         \/ EventTask
         \/ UNCHANGED vars
BY DEF Next, Handler, OneShot

\* Every variable keeps its type.
LEMMA TypeStep ==
  ASSUME TypeOK, [Next]_vars
  PROVE  TypeOK'
<1> USE DEF TypeOK
<1>1. CASE HandlerWait
  BY <1>1 DEF HandlerWait
<1>2. CASE HandlerWifi
  BY <1>2 DEF HandlerWifi
<1>3. ASSUME NEW j \in DOMAIN FirstPc, HandlerCreate(j) PROVE TypeOK'
  <2>1. pc' \in [Task -> {"free", "exit"} \cup KeyPc \cup CertPc \cup TlsPc \cup MqttPc]
    <3>1. FirstPc[j] \in KeyPc \cup CertPc \cup TlsPc \cup MqttPc
      OBVIOUS
    <3> QED
      BY <1>3, <3>1, FreeSlotType DEF HandlerCreate
  <2> QED
    BY <1>3, <2>1 DEF HandlerCreate
<1>4. ASSUME NEW j \in DOMAIN FirstPc, HandlerCreateFails(j) PROVE TypeOK'
  BY <1>4 DEF HandlerCreateFails
<1>5. ASSUME NEW t \in Task, KeyTask(t) PROVE TypeOK'
  <2>1. CASE KeyDone(t)
    BY <2>1 DEF KeyDone, Goto, Finish
  <2>2. CASE KeyFailed(t)
    BY <2>2 DEF KeyFailed, Goto, Finish
  <2> QED
    BY <1>5, <2>1, <2>2 DEF KeyTask
<1>6. ASSUME NEW t \in Task, CertTask(t) PROVE TypeOK'
  <2>1. net' \subseteq Bit
    BY <1>6 DEF CertTask, CertStored, CertMissing, CertWait, ClaimDone,
                ClaimFailed, Goto, Finish
  <2>2. pc' \in [Task -> {"free", "exit"} \cup KeyPc \cup CertPc \cup TlsPc \cup MqttPc]
    BY <1>6 DEF CertTask, CertStored, CertMissing, CertWait, ClaimDone,
                ClaimFailed, Goto, Finish
  <2>3. UNCHANGED <<todo, sender, pxTls, wifi, dhcp, evq, evt>>
    BY <1>6 DEF CertTask, CertStored, CertMissing, CertWait, ClaimDone,
                ClaimFailed
  <2> QED
    BY <2>1, <2>2, <2>3
<1>7. ASSUME NEW t \in Task, TlsTask(t) PROVE TypeOK'
  <2>1. net' \subseteq Bit
    BY <1>7 DEF TlsTask, TlsWait, TlsDisconnect, TlsInit, TlsDone, TlsFailed, Finish
  <2>2. pc' \in [Task -> {"free", "exit"} \cup KeyPc \cup CertPc \cup TlsPc \cup MqttPc]
    BY <1>7 DEF TlsTask, TlsWait, TlsDisconnect, TlsInit, TlsDone, TlsFailed,
                Goto, Finish
  <2>3. pxTls' \in {"null", "new", "open", "freed"}
    BY <1>7 DEF TlsTask, TlsWait, TlsDisconnect, TlsInit, TlsDone, TlsFailed
  <2>4. UNCHANGED <<todo, sender, wifi, dhcp, evq, evt>>
    BY <1>7 DEF TlsTask, TlsWait, TlsDisconnect, TlsInit, TlsDone, TlsFailed
  <2> QED
    BY <2>1, <2>2, <2>3, <2>4
<1>8. ASSUME NEW t \in Task, MqttTask(t) PROVE TypeOK'
  <2>1. net' \subseteq Bit
    BY <1>8 DEF MqttTask, MqttWait, MqttDone, MqttNoMemory, MqttRefused,
                MqttTransportFailed, MqttClear, MqttSet, Goto, Finish
  <2>2. pc' \in [Task -> {"free", "exit"} \cup KeyPc \cup CertPc \cup TlsPc \cup MqttPc]
    BY <1>8 DEF MqttTask, MqttWait, MqttDone, MqttNoMemory, MqttRefused,
                MqttTransportFailed, MqttClear, MqttSet, Goto, Finish
  <2>3. UNCHANGED <<todo, sender, pxTls, wifi, dhcp, evq, evt>>
    BY <1>8 DEF MqttTask, MqttWait, MqttDone, MqttNoMemory, MqttRefused,
                MqttTransportFailed, MqttClear, MqttSet
  <2> QED
    BY <2>1, <2>2, <2>3
<1>9. ASSUME NEW t \in Task, Delete(t) PROVE TypeOK'
  BY <1>9 DEF Delete, Goto
<1>10. CASE Sender
  <2>1. CASE SenderDelay \/ SenderWait \/ SenderPublished \/ SenderPublishFailed
    BY <2>1 DEF SenderDelay, SenderWait, SenderPublished, SenderPublishFailed
  <2>2. CASE SenderClear
    BY <2>2 DEF SenderClear
  <2>3. CASE SenderSet
    BY <2>3 DEF SenderSet
  <2> QED
    BY <1>10, <2>1, <2>2, <2>3 DEF Sender
<1>11. CASE Driver
  <2>1. evq' \in Seq({"connected", "disconnected", "got_ip"})
    BY <1>11 DEF Driver, WifiAssociate, WifiDisconnect, DhcpBound
  <2>2. CASE WifiAssociate \/ WifiDisconnect
    BY <2>1, <2>2 DEF WifiAssociate, WifiDisconnect
  <2>3. CASE DhcpBound
    BY <2>1, <2>3 DEF DhcpBound
  <2> QED
    BY <1>11, <2>2, <2>3 DEF Driver
<1>12. CASE EventTask
  <2>1. evq' \in Seq({"connected", "disconnected", "got_ip"})
    BY <1>12 DEF EventTask, NextEvent, OnConnected, OnDisconnected,
                 OnDisconnectedSet, OnGotIp
  <2>2. net' \subseteq Bit
    BY <1>12 DEF EventTask, OnConnected, OnDisconnected, OnDisconnectedSet, OnGotIp
  <2>3. /\ dhcp' \in {"off", "discover", "bound"}
        /\ evt' \in {"idle", "disc_set"}
        /\ UNCHANGED <<todo, pc, sender, pxTls, wifi>>
    BY <1>12 DEF EventTask, OnConnected, OnDisconnected, OnDisconnectedSet, OnGotIp
  <2> QED
    BY <2>1, <2>2, <2>3
<1>13. CASE UNCHANGED vars
  BY <1>13 DEF vars
<1> QED
  BY <1>1, <1>2, <1>3, <1>4, <1>5, <1>6, <1>7, <1>8, <1>9, <1>10, <1>11, <1>12, <1>13, NextCases

\* The key job moves from hand to hand.
LEMMA KeyStep ==
  ASSUME TypeOK, OneKeyTask, [Next]_vars
  PROVE  OneKeyTask'
<1> USE DEF TypeOK, OneKeyTask, AtMostOne, Due, Running, One,
            KeyHolders
<1>1. CASE HandlerWait
  BY <1>1 DEF HandlerWait
<1>2. CASE HandlerWifi
  BY <1>2 DEF HandlerWifi
<1>3. ASSUME NEW j \in DOMAIN FirstPc, HandlerCreate(j) PROVE OneKeyTask'
  BY <1>3, FreeSlotType DEF HandlerCreate
<1>4. ASSUME NEW j \in DOMAIN FirstPc, HandlerCreateFails(j) PROVE OneKeyTask'
  BY <1>4 DEF HandlerCreateFails
<1>5. ASSUME NEW t \in Task, KeyTask(t) PROVE OneKeyTask'
  BY <1>5 DEF KeyTask, KeyDone, KeyFailed, Goto, Finish
<1>6. ASSUME NEW t \in Task, CertTask(t) PROVE OneKeyTask'
  BY <1>6 DEF CertTask, CertStored, CertMissing, CertWait, ClaimDone,
              ClaimFailed, Goto, Finish
<1>7. ASSUME NEW t \in Task, TlsTask(t) PROVE OneKeyTask'
  BY <1>7 DEF TlsTask, TlsWait, TlsDisconnect, TlsInit, TlsDone, TlsFailed,
              Goto, Finish
<1>8. ASSUME NEW t \in Task, MqttTask(t) PROVE OneKeyTask'
  BY <1>8 DEF MqttTask, MqttWait, MqttDone, MqttNoMemory, MqttRefused,
              MqttTransportFailed, MqttClear, MqttSet, Goto, Finish
<1>9. ASSUME NEW t \in Task, Delete(t) PROVE OneKeyTask'
  BY <1>9 DEF Delete, Goto
<1>10. CASE Sender
  BY <1>10 DEF Sender, SenderDelay, SenderWait, SenderPublished,
              SenderPublishFailed, SenderClear, SenderSet
<1>11. CASE Driver
  BY <1>11 DEF Driver, WifiAssociate, WifiDisconnect, DhcpBound
<1>12. CASE EventTask
  BY <1>12 DEF EventTask, NextEvent, OnConnected, OnDisconnected,
              OnDisconnectedSet, OnGotIp
<1>13. CASE UNCHANGED vars
  BY <1>13 DEF vars
<1> QED
  BY <1>1, <1>2, <1>3, <1>4, <1>5, <1>6, <1>7, <1>8, <1>9, <1>10, <1>11, <1>12, <1>13, NextCases

\* So does the certificate job.
LEMMA CertStep ==
  ASSUME TypeOK, OneCertTask, [Next]_vars
  PROVE  OneCertTask'
<1> USE DEF TypeOK, OneCertTask, AtMostOne, Due, Running, One,
            CertHolders
<1>1. CASE HandlerWait
  BY <1>1 DEF HandlerWait
<1>2. CASE HandlerWifi
  BY <1>2 DEF HandlerWifi
<1>3. ASSUME NEW j \in DOMAIN FirstPc, HandlerCreate(j) PROVE OneCertTask'
  BY <1>3, FreeSlotType DEF HandlerCreate
<1>4. ASSUME NEW j \in DOMAIN FirstPc, HandlerCreateFails(j) PROVE OneCertTask'
  BY <1>4 DEF HandlerCreateFails
<1>5. ASSUME NEW t \in Task, KeyTask(t) PROVE OneCertTask'
  BY <1>5 DEF KeyTask, KeyDone, KeyFailed, Goto, Finish
<1>6. ASSUME NEW t \in Task, CertTask(t) PROVE OneCertTask'
  BY <1>6 DEF CertTask, CertStored, CertMissing, CertWait, ClaimDone,
              ClaimFailed, Goto, Finish
<1>7. ASSUME NEW t \in Task, TlsTask(t) PROVE OneCertTask'
  BY <1>7 DEF TlsTask, TlsWait, TlsDisconnect, TlsInit, TlsDone, TlsFailed,
              Goto, Finish
<1>8. ASSUME NEW t \in Task, MqttTask(t) PROVE OneCertTask'
  BY <1>8 DEF MqttTask, MqttWait, MqttDone, MqttNoMemory, MqttRefused,
              MqttTransportFailed, MqttClear, MqttSet, Goto, Finish
<1>9. ASSUME NEW t \in Task, Delete(t) PROVE OneCertTask'
  BY <1>9 DEF Delete, Goto
<1>10. CASE Sender
  BY <1>10 DEF Sender, SenderDelay, SenderWait, SenderPublished,
              SenderPublishFailed, SenderClear, SenderSet
<1>11. CASE Driver
  BY <1>11 DEF Driver, WifiAssociate, WifiDisconnect, DhcpBound
<1>12. CASE EventTask
  BY <1>12 DEF EventTask, NextEvent, OnConnected, OnDisconnected,
              OnDisconnectedSet, OnGotIp
<1>13. CASE UNCHANGED vars
  BY <1>13 DEF vars
<1> QED
  BY <1>1, <1>2, <1>3, <1>4, <1>5, <1>6, <1>7, <1>8, <1>9, <1>10, <1>11, <1>12, <1>13, NextCases

\* So does the station, through the driver and the event queue.
LEMMA WifiStep ==
  ASSUME TypeOK, OneLiveStation, [Next]_vars
  PROVE  OneLiveStation'
<1> USE DEF TypeOK, OneLiveStation, AtMostOne, Due, Running, One,
            WifiHolders, Disconnections
<1>1. CASE HandlerWait
  BY <1>1 DEF HandlerWait
<1>2. CASE HandlerWifi
  BY <1>2 DEF HandlerWifi
<1>3. ASSUME NEW j \in DOMAIN FirstPc, HandlerCreate(j) PROVE OneLiveStation'
  BY <1>3, FreeSlotType DEF HandlerCreate
<1>4. ASSUME NEW j \in DOMAIN FirstPc, HandlerCreateFails(j) PROVE OneLiveStation'
  BY <1>4 DEF HandlerCreateFails
<1>5. ASSUME NEW t \in Task, KeyTask(t) PROVE OneLiveStation'
  BY <1>5 DEF KeyTask, KeyDone, KeyFailed, Goto, Finish
<1>6. ASSUME NEW t \in Task, CertTask(t) PROVE OneLiveStation'
  BY <1>6 DEF CertTask, CertStored, CertMissing, CertWait, ClaimDone,
              ClaimFailed, Goto, Finish
<1>7. ASSUME NEW t \in Task, TlsTask(t) PROVE OneLiveStation'
  BY <1>7 DEF TlsTask, TlsWait, TlsDisconnect, TlsInit, TlsDone, TlsFailed,
              Goto, Finish
<1>8. ASSUME NEW t \in Task, MqttTask(t) PROVE OneLiveStation'
  BY <1>8 DEF MqttTask, MqttWait, MqttDone, MqttNoMemory, MqttRefused,
              MqttTransportFailed, MqttClear, MqttSet, Goto, Finish
<1>9. ASSUME NEW t \in Task, Delete(t) PROVE OneLiveStation'
  BY <1>9 DEF Delete, Goto
<1>10. CASE Sender
  BY <1>10 DEF Sender, SenderDelay, SenderWait, SenderPublished,
              SenderPublishFailed, SenderClear, SenderSet
<1>11. CASE Driver
  <2>1. CASE WifiAssociate \/ DhcpBound
    <3>1. Disconnections' = Disconnections
      BY <2>1 DEF WifiAssociate, DhcpBound
    <3> QED
      BY <2>1, <3>1 DEF WifiAssociate, DhcpBound
  <2>2. CASE WifiDisconnect
    <3>1. Disconnections = {}
      BY <2>2 DEF WifiDisconnect
    <3>2. Disconnections' = {Len(evq) + 1}
      BY <2>2, <3>1 DEF WifiDisconnect
    <3> QED
      BY <2>2, <3>1, <3>2 DEF WifiDisconnect
  <2> QED
    BY <1>11, <2>1, <2>2 DEF Driver
<1>12. CASE EventTask
  <2>1. CASE OnConnected \/ OnGotIp
    <3>1. Disconnections' = {i - 1 : i \in Disconnections}
      BY <2>1 DEF OnConnected, OnGotIp, NextEvent
    <3>2. AtMostOne(Disconnections')
      BY <3>1
    <3>3. Disconnections' # {} => Disconnections # {}
      BY <3>1
    <3> QED
      BY <2>1, <3>2, <3>3 DEF OnConnected, OnGotIp
  <2>2. CASE OnDisconnected
    <3>1. 1 \in Disconnections
      BY <2>2 DEF OnDisconnected, NextEvent
    <3>2. Disconnections' = {}
      BY <2>2, <3>1 DEF OnDisconnected, NextEvent
    <3> QED
      BY <2>2, <3>1, <3>2 DEF OnDisconnected
  <2>3. CASE OnDisconnectedSet
    BY <2>3 DEF OnDisconnectedSet
  <2> QED
    BY <1>12, <2>1, <2>2, <2>3 DEF EventTask
<1>13. CASE UNCHANGED vars
  BY <1>13 DEF vars
<1> QED
  BY <1>1, <1>2, <1>3, <1>4, <1>5, <1>6, <1>7, <1>8, <1>9, <1>10, <1>11, <1>12, <1>13, NextCases

\* The TLS connection: the MQTT task and the sending task may take it too,
\* and Links says that they do so only when TLS_CONNECTED is theirs to clear.
LEMMA TlsStep ==
  ASSUME TypeOK, OneTlsConnection, OneMqttConnection, Links, [Next]_vars
  PROVE  OneTlsConnection'
<1> USE DEF TypeOK, OneTlsConnection, AtMostOne, Due, Running, One,
            TlsHolders, MqttHolders, Withdrawing, OneMqttConnection,
            Links, BitsTruthful
<1>1. CASE HandlerWait
  BY <1>1 DEF HandlerWait
<1>2. CASE HandlerWifi
  BY <1>2 DEF HandlerWifi
<1>3. ASSUME NEW j \in DOMAIN FirstPc, HandlerCreate(j) PROVE OneTlsConnection'
  BY <1>3, FreeSlotType DEF HandlerCreate
<1>4. ASSUME NEW j \in DOMAIN FirstPc, HandlerCreateFails(j) PROVE OneTlsConnection'
  BY <1>4 DEF HandlerCreateFails
<1>5. ASSUME NEW t \in Task, KeyTask(t) PROVE OneTlsConnection'
  BY <1>5 DEF KeyTask, KeyDone, KeyFailed, Goto, Finish
<1>6. ASSUME NEW t \in Task, CertTask(t) PROVE OneTlsConnection'
  BY <1>6 DEF CertTask, CertStored, CertMissing, CertWait, ClaimDone,
              ClaimFailed, Goto, Finish
<1>7. ASSUME NEW t \in Task, TlsTask(t) PROVE OneTlsConnection'
  BY <1>7 DEF TlsTask, TlsWait, TlsDisconnect, TlsInit, TlsDone, TlsFailed,
              Goto, Finish
<1>8. ASSUME NEW t \in Task, MqttTask(t) PROVE OneTlsConnection'
  BY <1>8 DEF MqttTask, MqttWait, MqttDone, MqttNoMemory, MqttRefused,
              MqttTransportFailed, MqttClear, MqttSet, Goto, Finish
<1>9. ASSUME NEW t \in Task, Delete(t) PROVE OneTlsConnection'
  BY <1>9 DEF Delete, Goto
<1>10. CASE Sender
  BY <1>10 DEF Sender, SenderDelay, SenderWait, SenderPublished,
              SenderPublishFailed, SenderClear, SenderSet
<1>11. CASE Driver
  BY <1>11 DEF Driver, WifiAssociate, WifiDisconnect, DhcpBound
<1>12. CASE EventTask
  BY <1>12 DEF EventTask, NextEvent, OnConnected, OnDisconnected,
              OnDisconnectedSet, OnGotIp
<1>13. CASE UNCHANGED vars
  BY <1>13 DEF vars
<1> QED
  BY <1>1, <1>2, <1>3, <1>4, <1>5, <1>6, <1>7, <1>8, <1>9, <1>10, <1>11, <1>12, <1>13, NextCases

\* The MQTT connection: the sending task takes it by clearing a bit that
\* Links says it has.
LEMMA MqttStep ==
  ASSUME TypeOK, OneTlsConnection, OneMqttConnection, Links, [Next]_vars
  PROVE  OneMqttConnection'
<1> USE DEF TypeOK, OneMqttConnection, AtMostOne, Due, Running, One,
            TlsHolders, MqttHolders, Withdrawing, OneTlsConnection,
            Links, BitsTruthful
<1>1. CASE HandlerWait
  BY <1>1 DEF HandlerWait
<1>2. CASE HandlerWifi
  BY <1>2 DEF HandlerWifi
<1>3. ASSUME NEW j \in DOMAIN FirstPc, HandlerCreate(j) PROVE OneMqttConnection'
  BY <1>3, FreeSlotType DEF HandlerCreate
<1>4. ASSUME NEW j \in DOMAIN FirstPc, HandlerCreateFails(j) PROVE OneMqttConnection'
  BY <1>4 DEF HandlerCreateFails
<1>5. ASSUME NEW t \in Task, KeyTask(t) PROVE OneMqttConnection'
  BY <1>5 DEF KeyTask, KeyDone, KeyFailed, Goto, Finish
<1>6. ASSUME NEW t \in Task, CertTask(t) PROVE OneMqttConnection'
  BY <1>6 DEF CertTask, CertStored, CertMissing, CertWait, ClaimDone,
              ClaimFailed, Goto, Finish
<1>7. ASSUME NEW t \in Task, TlsTask(t) PROVE OneMqttConnection'
  BY <1>7 DEF TlsTask, TlsWait, TlsDisconnect, TlsInit, TlsDone, TlsFailed,
              Goto, Finish
<1>8. ASSUME NEW t \in Task, MqttTask(t) PROVE OneMqttConnection'
  BY <1>8 DEF MqttTask, MqttWait, MqttDone, MqttNoMemory, MqttRefused,
              MqttTransportFailed, MqttClear, MqttSet, Goto, Finish
<1>9. ASSUME NEW t \in Task, Delete(t) PROVE OneMqttConnection'
  BY <1>9 DEF Delete, Goto
<1>10. CASE Sender
  BY <1>10 DEF Sender, SenderDelay, SenderWait, SenderPublished,
              SenderPublishFailed, SenderClear, SenderSet
<1>11. CASE Driver
  BY <1>11 DEF Driver, WifiAssociate, WifiDisconnect, DhcpBound
<1>12. CASE EventTask
  BY <1>12 DEF EventTask, NextEvent, OnConnected, OnDisconnected,
              OnDisconnectedSet, OnGotIp
<1>13. CASE UNCHANGED vars
  BY <1>13 DEF vars
<1> QED
  BY <1>1, <1>2, <1>3, <1>4, <1>5, <1>6, <1>7, <1>8, <1>9, <1>10, <1>11, <1>12, <1>13, NextCases

\* Nobody clears a bit under a party that acts on it: the party that could
\* would be a second holder of the connection.
LEMMA LinksStep ==
  ASSUME TypeOK, OneTlsConnection, OneMqttConnection, Links, [Next]_vars
  PROVE  Links'
<1> USE DEF TypeOK, Links, AtMostOne, Due, Running, One,
            TlsHolders, MqttHolders, Withdrawing, OneTlsConnection,
            OneMqttConnection, BitsTruthful
<1>1. CASE HandlerWait
  BY <1>1 DEF HandlerWait
<1>2. CASE HandlerWifi
  BY <1>2 DEF HandlerWifi
<1>3. ASSUME NEW j \in DOMAIN FirstPc, HandlerCreate(j) PROVE Links'
  BY <1>3, FreeSlotType DEF HandlerCreate
<1>4. ASSUME NEW j \in DOMAIN FirstPc, HandlerCreateFails(j) PROVE Links'
  BY <1>4 DEF HandlerCreateFails
<1>5. ASSUME NEW t \in Task, KeyTask(t) PROVE Links'
  BY <1>5 DEF KeyTask, KeyDone, KeyFailed, Goto, Finish
<1>6. ASSUME NEW t \in Task, CertTask(t) PROVE Links'
  BY <1>6 DEF CertTask, CertStored, CertMissing, CertWait, ClaimDone,
              ClaimFailed, Goto, Finish
<1>7. ASSUME NEW t \in Task, TlsTask(t) PROVE Links'
  BY <1>7 DEF TlsTask, TlsWait, TlsDisconnect, TlsInit, TlsDone, TlsFailed,
              Goto, Finish
<1>8. ASSUME NEW t \in Task, MqttTask(t) PROVE Links'
  BY <1>8 DEF MqttTask, MqttWait, MqttDone, MqttNoMemory, MqttRefused,
              MqttTransportFailed, MqttClear, MqttSet, Goto, Finish
<1>9. ASSUME NEW t \in Task, Delete(t) PROVE Links'
  BY <1>9 DEF Delete, Goto
<1>10. CASE Sender
  BY <1>10 DEF Sender, SenderDelay, SenderWait, SenderPublished,
              SenderPublishFailed, SenderClear, SenderSet
<1>11. CASE Driver
  BY <1>11 DEF Driver, WifiAssociate, WifiDisconnect, DhcpBound
<1>12. CASE EventTask
  BY <1>12 DEF EventTask, NextEvent, OnConnected, OnDisconnected,
              OnDisconnectedSet, OnGotIp
<1>13. CASE UNCHANGED vars
  BY <1>13 DEF vars
<1> QED
  BY <1>1, <1>2, <1>3, <1>4, <1>5, <1>6, <1>7, <1>8, <1>9, <1>10, <1>11, <1>12, <1>13, NextCases

\* The inductive invariant holds in every reachable state.
THEOREM NetworkInvariant == Spec => []NetworkInv
<1>1. Init => NetworkInv
  BY DEF Init, NetworkInv, TypeOK, OneKeyTask, OneCertTask, OneLiveStation,
         OneTlsConnection, OneMqttConnection, Links, BitsTruthful, KeyHolders,
         CertHolders, TlsHolders, MqttHolders, WifiHolders, Withdrawing,
         Disconnections, Due, Running, One, AtMostOne
<1>2. NetworkInv /\ [Next]_vars => NetworkInv'
  BY TypeStep, KeyStep, CertStep, WifiStep, TlsStep, MqttStep, LinksStep
  DEF NetworkInv
<1> QED
  BY <1>1, <1>2, PTL DEF Spec

\* Every variable has its type.
THEOREM TypeCorrect == Spec => []TypeOK
<1>1. NetworkInv => TypeOK
  BY DEF NetworkInv
<1> QED
  BY <1>1, NetworkInvariant, PTL

\* However many tasks the heap holds and whatever fails, the handling task
\* never has two tasks of the same job running, a task running beside the
\* result of an earlier one, or the station asked to connect twice.
THEOREM OneOfEach ==
  Spec => []OneHolder
<1>1. NetworkInv => OneHolder
  BY DEF NetworkInv, OneHolder
<1> QED
  BY <1>1, NetworkInvariant, PTL

\* A bit that tasks wait for is never stale.
THEOREM TruthfulBits == Spec => []BitsTruthful
<1>1. NetworkInv => BitsTruthful
  BY DEF NetworkInv, Links
<1> QED
  BY <1>1, NetworkInvariant, PTL

\* xNetworkContext.pxTls needs no lock: whoever uses it is alone, and what it
\* points at is what the user expects.
THEOREM ExclusiveTls == Spec => []TlsExclusive
<1>1. NetworkInv => TlsExclusive
  BY DEF NetworkInv, TypeOK, TlsExclusive, UsesTls, Links, BitsTruthful,
         OneTlsConnection, OneMqttConnection, TlsHolders, MqttHolders,
         Withdrawing, Due, Running, One, AtMostOne
<1> QED
  BY <1>1, NetworkInvariant, PTL

(***************************************************************************)
(* WifiBitCurrent is about an empty event queue only.  EventOrder says     *)
(* what the queue stands for: delivered in order, its events bring         *)
(* WIFI_CONNECTED to what the driver's state is now.                       *)
(***************************************************************************)
Connections == {i \in DOMAIN evq : evq[i] = "connected"}

\* A disconnection still queued comes after every connection it ends, and
\* without one the bit is what it should be or the queue is about to set it.
EventOrder ==
  /\ \A c \in Connections, d \in Disconnections : c < d
  /\ wifi = "connected" /\ Connections = {} => "WIFI_CONNECTED" \in net
  /\ wifi # "connected" /\ Disconnections = {} =>
       Connections = {} /\ "WIFI_CONNECTED" \notin net

\* Nobody but the event task writes WIFI_CONNECTED.
LEMMA WifiBitKept ==
  ASSUME TypeOK, [Next]_vars, ~Driver, ~EventTask
  PROVE  /\ evq' = evq
         /\ "WIFI_CONNECTED" \in net' <=> "WIFI_CONNECTED" \in net
         /\ wifi' = wifi \/ HandlerWifi
<1>1. CASE HandlerWait \/ HandlerWifi
  BY <1>1 DEF HandlerWait, HandlerWifi
<1>2. CASE \E j \in DOMAIN FirstPc : HandlerCreate(j) \/ HandlerCreateFails(j)
  BY <1>2 DEF HandlerCreate, HandlerCreateFails
<1>3. CASE \E t \in Task : KeyTask(t)
  BY <1>3 DEF KeyTask, KeyDone, KeyFailed, Finish
<1>4. CASE \E t \in Task : CertTask(t)
  BY <1>4 DEF CertTask, CertStored, CertMissing, CertWait, ClaimDone, ClaimFailed, Finish
<1>5. CASE \E t \in Task : TlsTask(t)
  BY <1>5 DEF TlsTask, TlsWait, TlsDisconnect, TlsInit, TlsDone, TlsFailed, Finish
<1>6. CASE \E t \in Task : MqttTask(t)
  BY <1>6 DEF MqttTask, MqttWait, MqttDone, MqttNoMemory, MqttRefused,
              MqttTransportFailed, MqttClear, MqttSet, Finish
<1>7. CASE \E t \in Task : Delete(t)
  BY <1>7 DEF Delete
<1>8. CASE Sender
  BY <1>8 DEF Sender, SenderDelay, SenderWait, SenderPublished, SenderPublishFailed,
              SenderClear, SenderSet
<1>9. CASE UNCHANGED vars
  BY <1>9 DEF vars
<1> QED
  BY <1>1, <1>2, <1>3, <1>4, <1>5, <1>6, <1>7, <1>8, <1>9, NextCases

\* OneLiveStation is why the queue never has a disconnection in front of a
\* connection: while one is queued the station is idle.
LEMMA EventOrderStep ==
  ASSUME TypeOK, OneLiveStation, EventOrder, [Next]_vars
  PROVE  EventOrder'
<1> USE DEF TypeOK, EventOrder
<1>1. /\ Disconnections # {} => wifi = "idle"
      /\ "wifi" \in todo => wifi = "idle" /\ Disconnections = {}
  BY DEF OneLiveStation, WifiHolders, Due, One
<1>2. CASE ~Driver /\ ~EventTask
  <2>1. Connections' = Connections /\ Disconnections' = Disconnections
    BY <1>2, WifiBitKept DEF Connections, Disconnections
  <2>2. CASE HandlerWifi
    BY <1>1, <1>2, <2>1, <2>2, WifiBitKept DEF HandlerWifi
  <2>3. CASE ~HandlerWifi
    BY <1>2, <2>1, <2>3, WifiBitKept
  <2> QED
    BY <2>2, <2>3
<1>3. CASE WifiAssociate
  <2>1. Disconnections = {} /\ Disconnections' = {}
    BY <1>1, <1>3 DEF WifiAssociate, Disconnections
  <2>2. Len(evq) + 1 \in Connections'
    BY <1>3 DEF WifiAssociate, Connections
  <2> QED
    BY <1>3, <2>1, <2>2 DEF WifiAssociate
<1>4. CASE WifiDisconnect
  <2>1. Disconnections = {} /\ Disconnections' = {Len(evq) + 1}
    BY <1>1, <1>4 DEF WifiDisconnect, Disconnections
  <2>2. Connections' = Connections /\ \A c \in Connections : c < Len(evq) + 1
    BY <1>4 DEF WifiDisconnect, Connections
  <2> QED
    BY <1>4, <2>1, <2>2 DEF WifiDisconnect
<1>5. CASE DhcpBound
  <2>1. Connections' = Connections /\ Disconnections' = Disconnections
    BY <1>5 DEF DhcpBound, Connections, Disconnections
  <2> QED
    BY <1>5, <2>1 DEF DhcpBound
<1>6. CASE OnConnected
  <2>1. wifi = "connected" \/ Disconnections # {}
    BY <1>6 DEF OnConnected, NextEvent, Connections
  <2>2. /\ Connections' = {i - 1 : i \in Connections \ {1}}
        /\ Disconnections' = {i - 1 : i \in Disconnections}
    BY <1>6 DEF OnConnected, NextEvent, Connections, Disconnections
  <2>3. \A i \in Connections \cup Disconnections : i \in Nat
    BY DEF Connections, Disconnections
  <2>4. \A c \in Connections', d \in Disconnections' : c < d
    BY <2>2, <2>3
  <2>5. wifi' = wifi /\ net' = net \cup {"WIFI_CONNECTED"}
    BY <1>6 DEF OnConnected
  <2> QED
    BY <1>1, <2>1, <2>2, <2>4, <2>5
<1>7. CASE OnDisconnected
  <2>1. 1 \in Disconnections /\ wifi = "idle"
    BY <1>1, <1>7 DEF OnDisconnected, NextEvent, Disconnections
  <2>2. Connections = {}
    BY <2>1 DEF Connections
  <2>3. Connections' = {}
    BY <1>7, <2>2 DEF OnDisconnected, NextEvent, Connections
  <2> QED
    BY <1>7, <2>1, <2>3 DEF OnDisconnected
<1>8. CASE OnDisconnectedSet
  <2>1. Connections' = Connections /\ Disconnections' = Disconnections
    BY <1>8 DEF OnDisconnectedSet, Connections, Disconnections
  <2> QED
    BY <1>8, <2>1 DEF OnDisconnectedSet
<1>9. CASE OnGotIp
  <2>1. /\ Connections' = {i - 1 : i \in Connections}
        /\ Disconnections' = {i - 1 : i \in Disconnections}
    BY <1>9 DEF OnGotIp, NextEvent, Connections, Disconnections
  <2>2. \A i \in Connections \cup Disconnections : i \in Nat
    BY DEF Connections, Disconnections
  <2>3. \A c \in Connections', d \in Disconnections' : c < d
    BY <2>1, <2>2
  <2>4. /\ Connections' = {} <=> Connections = {}
        /\ Disconnections' = {} <=> Disconnections = {}
    BY <2>1
  <2>5. wifi' = wifi /\ ("WIFI_CONNECTED" \in net' <=> "WIFI_CONNECTED" \in net)
    BY <1>9 DEF OnGotIp
  <2> QED
    BY <2>3, <2>4, <2>5
<1> QED
  BY <1>2, <1>3, <1>4, <1>5, <1>6, <1>7, <1>8, <1>9 DEF Driver, EventTask

\* Whatever the driver does while its events are under way, WIFI_CONNECTED is
\* right as soon as the last of them has been handled.
THEOREM CurrentWifiBit == Spec => []WifiBitCurrent
<1>1. Init => EventOrder
  BY DEF Init, EventOrder, Connections, Disconnections
<1>2. NetworkInv /\ EventOrder /\ [Next]_vars => EventOrder'
  BY EventOrderStep DEF NetworkInv
<1>3. EventOrder => WifiBitCurrent
  BY DEF EventOrder, WifiBitCurrent, Connections, Disconnections
<1> QED
  BY <1>1, <1>2, <1>3, NetworkInvariant, PTL DEF Spec

(***************************************************************************)
(* NothingAbandoned holds when xTaskCreate succeeds and eMqttConnect does  *)
(* not run out of buffer: these are the two outcomes the code only logs,   *)
(* or does not look at.                                                    *)
(***************************************************************************)

\* Every step leaves each job with somebody.
LEMMA HandedOver ==
  ASSUME NetworkInv, NothingAbandoned, ~CreateCanFail,
         "NoMemory" \notin MqttStatus, [Next]_vars
  PROVE  NothingAbandoned'
<1> USE DEF NetworkInv, TypeOK, NothingAbandoned, KeyHolders, CertHolders, TlsHolders,
            MqttHolders, WifiHolders, Withdrawing, Disconnections, Due, Running, One
<1>1. CASE HandlerWait
  BY <1>1 DEF HandlerWait
<1>2. CASE HandlerWifi
  BY <1>2 DEF HandlerWifi
<1>3. ASSUME NEW j \in DOMAIN FirstPc, HandlerCreate(j) PROVE NothingAbandoned'
  BY <1>3, FreeSlotType DEF HandlerCreate
<1>4. ASSUME NEW j \in DOMAIN FirstPc, HandlerCreateFails(j) PROVE NothingAbandoned'
  BY <1>4 DEF HandlerCreateFails
<1>5. ASSUME NEW t \in Task, KeyTask(t) PROVE NothingAbandoned'
  BY <1>5 DEF KeyTask, KeyDone, KeyFailed, Goto, Finish
<1>6. ASSUME NEW t \in Task, CertTask(t) PROVE NothingAbandoned'
  BY <1>6 DEF CertTask, CertStored, CertMissing, CertWait, ClaimDone,
              ClaimFailed, Goto, Finish
<1>7. ASSUME NEW t \in Task, TlsTask(t) PROVE NothingAbandoned'
  BY <1>7 DEF TlsTask, TlsWait, TlsDisconnect, TlsInit, TlsDone, TlsFailed,
              Goto, Finish
<1>8. ASSUME NEW t \in Task, MqttTask(t) PROVE NothingAbandoned'
  BY <1>8 DEF MqttTask, MqttWait, MqttDone, MqttNoMemory, MqttRefused,
              MqttTransportFailed, MqttClear, MqttSet, Goto, Finish
<1>9. ASSUME NEW t \in Task, Delete(t) PROVE NothingAbandoned'
  BY <1>9 DEF Delete, Goto
<1>10. CASE Sender
  BY <1>10 DEF Sender, SenderDelay, SenderWait, SenderPublished,
              SenderPublishFailed, SenderClear, SenderSet
<1>11. CASE Driver
  BY <1>11 DEF Driver, WifiAssociate, WifiDisconnect, DhcpBound
<1>12. CASE EventTask
  <2>1. CASE OnConnected \/ OnGotIp
    <3>1. ASSUME NEW i \in Disconnections
          PROVE  i - 1 \in Disconnections'
      <4>1. i \in 2..Len(evq) /\ evq' = Tail(evq)
        BY <2>1, <3>1 DEF OnConnected, OnGotIp, NextEvent
      <4>2. i - 1 \in 1..Len(evq') /\ evq'[i - 1] = evq[i]
        BY <4>1
      <4> QED
        BY <3>1, <4>1, <4>2
    <3>2. Disconnections # {} => Disconnections' # {}
      BY <3>1
    <3> QED
      BY <2>1, <3>2 DEF OnConnected, OnGotIp
  <2>2. CASE OnDisconnected
    BY <2>2 DEF OnDisconnected
  <2>3. CASE OnDisconnectedSet
    BY <2>3 DEF OnDisconnectedSet
  <2> QED
    BY <1>12, <2>1, <2>2, <2>3 DEF EventTask
<1>13. CASE UNCHANGED vars
  BY <1>13 DEF vars
<1> QED
  BY <1>1, <1>2, <1>3, <1>4, <1>5, <1>6, <1>7, <1>8, <1>9, <1>10, <1>11, <1>12, <1>13, NextCases

\* No job is ever dropped.
THEOREM NeverAbandoned ==
  ASSUME ~CreateCanFail, "NoMemory" \notin MqttStatus
  PROVE  Spec => []NothingAbandoned
<1>1. Init => NothingAbandoned
  BY DEF Init, NothingAbandoned, KeyHolders, CertHolders, TlsHolders, MqttHolders,
         WifiHolders, Withdrawing, Disconnections, Due, Running, One
<1>2. NetworkInv /\ NothingAbandoned /\ [Next]_vars => NothingAbandoned'
  BY HandedOver
<1> QED
  BY <1>1, <1>2, NetworkInvariant, PTL DEF Spec
===============================================================================

------------------------------ MODULE BootProofs ------------------------------
(***************************************************************************)
(* Theorems about Boot.tla, for any names, any clock and any number of     *)
(* boots.  Those about the identity assume a storage that can be read.     *)
(***************************************************************************)
EXTENDS Boot, TLAPS

\* Where app_main is when it has an identity.
Identified == {"groups", "UtilityOutput", "NetworkHandling", "Sending", "done"}

\* A task exists only once app_main has got to it.
Created == tasks # {} => pc \in {"NetworkHandling", "Sending", "done"}

\* What is stored, the node id first, and was printed.
Stored ==
  /\ nvs \in [thingname : ThingName \cup {NULL}, nodeid : {NodeId, NULL}]
  /\ nvs.thingname # NULL => nvs.nodeid = NodeId
  /\ NULL \notin printed

\* What app_main has in its hands, on its way to an identity.
InHand ==
  /\ pc = "nodeid" => pcThingName = nvs.thingname
  /\ pc = "check" => pcThingName = nvs.thingname /\ pcNodeId = nvs.nodeid
  /\ pc \in {"store_nodeid", "store_thingname"} =>
       /\ pcThingName \in ThingName /\ pcNodeId = NodeId
       /\ nvs.thingname = NULL
  /\ pc = "store_thingname" => nvs.nodeid = NodeId
  /\ pc \in Identified => pcThingName # NULL /\ nvs = [thingname |-> pcThingName, nodeid |-> NodeId]

IdentityInv == Created /\ Stored /\ InHand /\ IdentityKept

\* Only prvNetworkHandlingTask makes the station connect.
EventInv ==
  /\ Created
  /\ station \in {"connecting", "connected"} \/ event # NULL =>
       "network" \in groups /\ "NetworkHandling" \in tasks

LEMMA CreatedStep == Created /\ [Next]_vars => Created'
<1> SUFFICES ASSUME Created, [Next]_vars PROVE Created'
  OBVIOUS
<1> USE DEF Created
<1>1. CASE app_main
  BY <1>1 DEF app_main, GetConfigs, GetConfig, RegisterHandlers, vNetworkingInit,
     xSetWifiCredentials, GetThingName, GetNodeId, IdentityFound, Generate, GenerateFails,
     StoreNodeId, StoreThingName, StoreFails, CreateGroups, CreateTasks, CreateTask, Goto, world
<1>2. CASE Connect \/ DriverEvent \/ HandleEvent \/ PrintThingName
  BY <1>2 DEF Connect, DriverEvent, HandleEvent, PrintThingName
<1>3. CASE MqttWait \/ MqttWaitEnds \/ Tick
  BY <1>3 DEF MqttWait, MqttWaitEnds, Tick, world
<1>4. CASE Reset
  BY <1>4 DEF Reset
<1>5. CASE UNCHANGED vars
  BY <1>5 DEF vars, world
<1>. QED
  BY <1>1, <1>2, <1>3, <1>4, <1>5 DEF Next

LEMMA EventStep == EventInv /\ [Next]_vars => EventInv'
<1> SUFFICES ASSUME EventInv, [Next]_vars PROVE EventInv'
  OBVIOUS
<1>0. Created'
  BY CreatedStep DEF EventInv
<1> USE <1>0 DEF EventInv
<1>1. CASE vNetworkingInit
  BY <1>1 DEF vNetworkingInit, StartStation
<1>2. CASE CreateGroups
  <2>1. tasks = {}
    BY <1>2 DEF CreateGroups, Goto, Created
  <2>. QED
    BY <1>2, <2>1 DEF CreateGroups
<1>3. CASE CreateTasks
  BY <1>3 DEF CreateTasks, CreateTask
<1>4. CASE app_main /\ ~vNetworkingInit /\ ~CreateGroups /\ ~CreateTasks
  BY <1>4 DEF app_main, GetConfigs, GetConfig, RegisterHandlers, xSetWifiCredentials,
     GetThingName, GetNodeId, IdentityFound, Generate, GenerateFails, StoreNodeId,
     StoreThingName, StoreFails, world
<1>5. CASE Connect \/ DriverEvent \/ HandleEvent \/ PrintThingName
  BY <1>5 DEF Connect, DriverEvent, HandleEvent, PrintThingName
<1>6. CASE MqttWait \/ MqttWaitEnds \/ Tick
  BY <1>6 DEF MqttWait, MqttWaitEnds, Tick, world
<1>7. CASE Reset
  BY <1>7 DEF Reset
<1>8. CASE UNCHANGED vars
  BY <1>8 DEF vars, world
<1>. QED
  BY <1>1, <1>2, <1>3, <1>4, <1>5, <1>6, <1>7, <1>8 DEF Next

\* No event of the station reaches a handler before app_main is past the creation of
\* both event groups, nor without xNetworkEventGroup and the task that waits on it,
\* whatever is created and whatever is not.  That xUtilityOutputEventGroup was created
\* is not said: without memory for it an event may find it null, and HandleEvent aborts.
THEOREM Events == Spec => []EventsHaveGroup
<1>1. Init => EventInv
  BY DEF Init, EventInv, Created
<1>2. EventInv => EventsHaveGroup
  BY DEF EventInv, EventsHaveGroup, Created, GroupsCreated
<1>. QED
  BY <1>1, <1>2, EventStep, PTL DEF Spec

-------------------------------------------------------------------------------
(* The identity.                                                           *)

LEMMA IdentityStep ==
  ASSUME ~ReadsCanFail, IdentityInv, [Next]_vars
  PROVE  IdentityInv'
<1>0. Created'
  BY CreatedStep DEF IdentityInv
<1> USE <1>0 DEF IdentityInv, Identified
<1>1. CASE GetConfigs \/ RegisterHandlers \/ vNetworkingInit \/ xSetWifiCredentials \/ GenerateFails
  <2>1. UNCHANGED <<nvs, printed, tasks, pcThingName>> /\ pc' \notin Identified
    BY <1>1 DEF GetConfigs, GetConfig, RegisterHandlers, vNetworkingInit, xSetWifiCredentials,
       GenerateFails, Goto, identity, world
  <2>2. pc' \notin {"nodeid", "check", "store_nodeid", "store_thingname"}
    BY <1>1 DEF GetConfigs, GetConfig, RegisterHandlers, vNetworkingInit, xSetWifiCredentials,
       GenerateFails, Goto
  <2>. QED
    BY <2>1, <2>2 DEF Created, Stored, InHand, IdentityKept
<1>2. CASE GetThingName
  BY <1>2 DEF GetThingName, NvsGetStr, Goto, world, Created, Stored, InHand, IdentityKept
<1>3. CASE GetNodeId
  BY <1>3 DEF GetNodeId, NvsGetStr, Goto, world, Created, Stored, InHand, IdentityKept
<1>4. CASE IdentityFound
  <2>1. nvs = [thingname |-> pcThingName, nodeid |-> NodeId]
    BY <1>4 DEF IdentityFound, Goto, Stored, InHand
  <2>. QED
    BY <1>4, <2>1 DEF IdentityFound, Goto, identity, world, Created, Stored, InHand, IdentityKept
<1>5. CASE Generate
  <2>1. nvs.thingname = NULL
    BY <1>5, NameAssumption DEF Generate, Goto, Stored, InHand
  <2>. QED
    BY <1>5, <2>1 DEF Generate, Goto, world, Created, Stored, InHand, IdentityKept
<1>6. CASE StoreNodeId
  <2>1. nvs.thingname = NULL /\ nvs' = [thingname |-> NULL, nodeid |-> NodeId]
    BY <1>6 DEF StoreNodeId, Goto, Stored, InHand
  <2>2. printed = {} /\ tasks = {}
    BY <1>6, <2>1 DEF StoreNodeId, Goto, Created, IdentityKept, Stored
  <2>. QED
    BY <1>6, <2>1, <2>2 DEF StoreNodeId, Goto, identity, world, Stored, InHand, IdentityKept
<1>7. CASE StoreThingName
  <2>1. nvs.thingname = NULL /\ nvs' = [thingname |-> pcThingName, nodeid |-> NodeId]
    BY <1>7 DEF StoreThingName, Goto, Stored, InHand
  <2>2. printed = {} /\ tasks = {}
    BY <1>7, <2>1 DEF StoreThingName, Goto, Created, IdentityKept, Stored
  <2>3. pcThingName \in ThingName /\ pcThingName # NULL
    BY <1>7, NameAssumption DEF StoreThingName, Goto, InHand
  <2>. QED
    BY <1>7, <2>1, <2>2, <2>3 DEF StoreThingName, Goto, identity, world, Stored, InHand, IdentityKept
<1>8. CASE StoreFails
  BY <1>8 DEF StoreFails, Goto, identity, world, Created, Stored, InHand, IdentityKept
<1>9. CASE CreateGroups \/ CreateTasks
  BY <1>9 DEF CreateGroups, CreateTasks, CreateTask, Goto, identity, Stored, InHand, IdentityKept
<1>10. CASE PrintThingName
  BY <1>10 DEF PrintThingName, identity, Created, Stored, InHand, IdentityKept
<1>11. CASE Connect \/ DriverEvent \/ HandleEvent
  BY <1>11 DEF Connect, DriverEvent, HandleEvent, identity, Created, Stored, InHand, IdentityKept
<1>12. CASE MqttWait \/ MqttWaitEnds \/ Tick
  BY <1>12 DEF MqttWait, MqttWaitEnds, Tick, identity, world, Created, Stored, InHand, IdentityKept
<1>13. CASE Reset
  BY <1>13 DEF Reset, Stored, InHand, IdentityKept
<1>14. CASE UNCHANGED vars
  BY <1>14 DEF vars, identity, world, Created, Stored, InHand, IdentityKept
<1>. QED
  BY <1>1, <1>2, <1>3, <1>4, <1>5, <1>6, <1>7, <1>8, <1>9, <1>10, <1>11, <1>12, <1>13, <1>14
  DEF Next, app_main

\* On storage that can be read, the tasks run with the stored identity, and a
\* thing name that was printed is the device's through every boot.
THEOREM Identity ==
  ASSUME ~ReadsCanFail
  PROVE  Spec => []IdentityKept
<1>1. Init => IdentityInv
  BY DEF Init, IdentityInv, Created, Stored, InHand, IdentityKept, Identified
<1>2. IdentityInv /\ [Next]_vars => IdentityInv'
  BY IdentityStep
<1>3. IdentityInv => IdentityKept
  BY DEF IdentityInv
<1>. QED
  BY <1>1, <1>2, <1>3, PTL DEF Spec

-------------------------------------------------------------------------------
(* The clock.                                                              *)

\* A number is its remainder and a multiple of the modulus, in one way.
LEMMA Remainder ==
  ASSUME NEW a \in Int
  PROVE  (a % WORD) \in 0 .. WORD - 1 /\ \E k \in Int : a = k * WORD + (a % WORD)
<1>1. (a % WORD) \in 0 .. WORD - 1 /\ (a \div WORD) \in Int
  BY ClockAssumption
<1>2. a = ((a \div WORD) * WORD) + (a % WORD)
  BY ClockAssumption
<1>. QED
  BY <1>1, <1>2

LEMMA Unique ==
  ASSUME NEW q \in Int, NEW r \in 0 .. WORD - 1
  PROVE  (q * WORD + r) % WORD = r
  BY ClockAssumption

LEMMA Congruent ==
  ASSUME NEW q \in Int, NEW a \in Int
  PROVE  (q * WORD + a) % WORD = (a % WORD)
<1>1. PICK k \in Int : a = k * WORD + (a % WORD)
  BY Remainder
<1> DEFINE r == a % WORD
<1>2. r \in 0 .. WORD - 1 /\ a = k * WORD + r
  BY <1>1, Remainder
<1> HIDE DEF r
<1>3. q + k \in Int /\ q * WORD + a = (q + k) * WORD + r
  BY <1>2, ClockAssumption
<1>4. (q * WORD + a) % WORD = r
  BY <1>2, <1>3, Unique
<1>. QED
  BY <1>4 DEF r

\* A difference of readings is that of the numbers they are remainders of.
LEMMA Difference ==
  ASSUME NEW a \in Int, NEW b \in Int
  PROVE  ((a % WORD) - b) % WORD = ((a - b) % WORD)
<1>1. PICK k \in Int : a = k * WORD + (a % WORD)
  BY Remainder
<1> DEFINE r == a % WORD
<1>2. r \in Int /\ a = k * WORD + r
  BY <1>1, Remainder, ClockAssumption
<1> HIDE DEF r
<1>3. r - b \in Int /\ a - b = k * WORD + (r - b)
  BY <1>2, ClockAssumption
<1>4. (a - b) % WORD = ((r - b) % WORD)
  BY <1>3, Congruent
<1>. QED
  BY <1>4 DEF r

\* A tick makes a reading larger by its milliseconds, also where it wraps around.
LEMMA TickAdds ==
  ASSUME NEW t \in 0 .. WORD - 1, NEW origin \in 0 .. WORD - 1, NEW begin \in 0 .. WORD - 1,
         NEW w \in Nat, w + MILLISECONDS_PER_TICK < WORD,
         (prvMqttGetTimeMs(t, origin) - begin) % WORD = w
  PROVE  (prvMqttGetTimeMs((t + 1) % WORD, origin) - begin) % WORD = w + MILLISECONDS_PER_TICK
<1> DEFINE M == MILLISECONDS_PER_TICK
           u == (t + 1) % WORD
           a == (t * M - origin) - begin
           b == (u * M - origin) - begin
<1>1. M \in Int /\ t \in Int /\ origin \in Int /\ begin \in Int /\ WORD \in Nat \ {0}
  BY ClockAssumption
<1>2. PICK k \in Int : t + 1 = k * WORD + u
  <2>1. t + 1 \in Int
    BY <1>1
  <2>. QED
    BY <2>1, Remainder
<1>3. u \in Int
  BY <1>1, Remainder
<1> HIDE DEF M, u
<1>4. t * M \in Int /\ u * M \in Int
  BY <1>1, <1>3
<1>5. a \in Int /\ b \in Int
  BY <1>1, <1>4
<1>6. (a % WORD) = w
  <2>1. t * M - origin \in Int
    BY <1>1, <1>4
  <2>. QED
    BY <1>1, <2>1, Difference DEF prvMqttGetTimeMs, M
<1>7. PICK q \in Int : a = q * WORD + w
  BY <1>5, <1>6, Remainder
<1>8. u * M = t * M + M - (k * M) * WORD
  <2>1. u = (t + 1) - k * WORD
    BY <1>1, <1>2, <1>3
  <2>. QED
    BY <1>1, <2>1
<1>9. b = (q - k * M) * WORD + (w + M)
  <2>1. b = a + M - (k * M) * WORD
    BY <1>1, <1>4, <1>8
  <2>2. k * M \in Int
    BY <1>1
  <2>. QED
    BY <1>1, <1>7, <2>1, <2>2
<1>10. q - k * M \in Int /\ w + M \in 0 .. WORD - 1
  BY <1>1, ClockAssumption DEF M
<1>11. (b % WORD) = w + M
  BY <1>9, <1>10, Unique
<1>12. u * M - origin \in Int
  BY <1>1, <1>4
<1>. QED
  BY <1>1, <1>11, <1>12, Difference DEF prvMqttGetTimeMs, M, u

-------------------------------------------------------------------------------
(* Types, and the time that coreMQTT measures.                             *)

\* coreMQTT waits only while there are tasks.
ClockInv ==
  /\ TypeOK /\ EventInv
  /\ entry # NULL => tasks # {} /\ Elapsed = waited

LEMMA Reading ==
  ASSUME NEW t \in 0 .. WORD - 1, NEW origin \in 0 .. WORD - 1
  PROVE  prvMqttGetTimeMs(t, origin) \in 0 .. WORD - 1
<1>1. t * MILLISECONDS_PER_TICK \in Int
  BY ClockAssumption
<1>2. t * MILLISECONDS_PER_TICK - origin \in Int
  BY <1>1, ClockAssumption
<1>. QED
  BY <1>2, Remainder DEF prvMqttGetTimeMs

\* Without a look at the clock there are only the types to be shown.
LEMMA ClockKept ==
  ASSUME ClockInv, EventInv', TypeOK', UNCHANGED clock, tasks # {} => tasks' # {}
  PROVE  ClockInv'
<1>1. Elapsed' = Elapsed
  BY DEF clock, Elapsed
<1>2. entry' = entry /\ waited' = waited
  BY DEF clock
<1>. QED
  BY <1>1, <1>2 DEF ClockInv

LEMMA ClockStep ==
  ASSUME ClockInv, [Next]_vars
  PROVE  ClockInv'
<1>0. EventInv' /\ TypeOK
  BY EventStep DEF ClockInv
<1>1. CASE vNetworkingInit
  <2>1. entry = NULL
    BY <1>1 DEF ClockInv, vNetworkingInit, Goto, EventInv, Created
  <2>2. tick' \in 0 .. WORD - 1 /\ ulGlobalEntryTimeMs' \in 0 .. WORD - 1
    BY <1>0, <1>1, Reading DEF vNetworkingInit, TypeOK
  <2>3. TypeOK'
    BY <1>0, <1>1, <2>2 DEF vNetworkingInit, StartStation, Goto, identity, TypeOK
  <2>. QED
    BY <1>0, <1>1, <2>1, <2>3 DEF ClockInv, vNetworkingInit
<1>2. CASE GetConfigs \/ RegisterHandlers \/ xSetWifiCredentials \/ IdentityFound \/ GenerateFails \/ StoreFails
  <2>1. UNCHANGED <<provisioned, nvs, identity, world, clock>>
    BY <1>2 DEF GetConfigs, GetConfig, RegisterHandlers, xSetWifiCredentials, IdentityFound,
       GenerateFails, StoreFails
  <2>2. pc' \in {"wifiPass", "endpoint", "events", "networking", "thingname", "groups", "stopped",
                 "store_thingname"}
    BY <1>2 DEF GetConfigs, GetConfig, RegisterHandlers, xSetWifiCredentials, IdentityFound,
       GenerateFails, StoreFails, Goto
  <2>3. TypeOK'
    BY <1>0, <2>1, <2>2 DEF TypeOK, identity, world, clock
  <2>. QED
    BY <1>0, <2>1, <2>3, ClockKept DEF world
<1>3. CASE GetThingName \/ GetNodeId \/ Generate
  <2>1. UNCHANGED <<provisioned, nvs, world, clock>> /\ pc' \in {"nodeid", "check", "store_nodeid"}
    BY <1>3 DEF GetThingName, GetNodeId, Generate, Goto
  <2>2. pcThingName' \in ThingName \cup {NULL, Unread} /\ pcNodeId' \in {NodeId, NULL, Unread}
    BY <1>0, <1>3 DEF GetThingName, GetNodeId, Generate, NvsGetStr, TypeOK
  <2>3. TypeOK'
    BY <1>0, <2>1, <2>2 DEF TypeOK, world, clock
  <2>. QED
    BY <1>0, <2>1, <2>3, ClockKept DEF world
<1>4. CASE StoreNodeId \/ StoreThingName
  <2>1. nvs' \in [thingname : ThingName \cup {NULL, Unread}, nodeid : {NodeId, NULL, Unread}]
    BY <1>0, <1>4 DEF StoreNodeId, StoreThingName, TypeOK
  <2>2. UNCHANGED <<provisioned, identity, world, clock>> /\ pc' \in {"store_thingname", "groups"}
    BY <1>4 DEF StoreNodeId, StoreThingName, Goto
  <2>3. TypeOK'
    BY <1>0, <2>1, <2>2 DEF TypeOK, identity, world, clock
  <2>. QED
    BY <1>0, <2>2, <2>3, ClockKept DEF world
<1>5. CASE CreateGroups \/ CreateTasks
  <2>1. groups' \subseteq {"network", "utility"} /\ tasks \subseteq tasks'
    BY <1>0, <1>5 DEF CreateGroups, CreateTasks, CreateTask, TypeOK
  <2>2. tasks' \subseteq {"UtilityOutput", "NetworkHandling", "Sending"}
    BY <1>0, <1>5 DEF CreateGroups, CreateTasks, CreateTask, TypeOK
  <2>3. pc' \in {"UtilityOutput", "NetworkHandling", "Sending", "done"}
    BY <1>5 DEF CreateGroups, CreateTasks, CreateTask, Goto
  <2>4. UNCHANGED <<provisioned, nvs, identity, station, event, printed, clock>>
    BY <1>5 DEF CreateGroups, CreateTasks, CreateTask
  <2>5. TypeOK'
    BY <1>0, <2>1, <2>2, <2>3, <2>4 DEF TypeOK, identity, clock
  <2>. QED
    BY <1>0, <2>1, <2>4, <2>5, ClockKept
<1>6. CASE Connect \/ DriverEvent \/ HandleEvent \/ PrintThingName
  <2>1. UNCHANGED <<provisioned, nvs, identity, pc, groups, tasks, clock>>
    BY <1>6 DEF Connect, DriverEvent, HandleEvent, PrintThingName
  <2>2. /\ station' \in {"off", "started", "connecting", "connected"}
        /\ event' \in {NULL, "CONNECTED", "DISCONNECTED"}
        /\ printed' \subseteq ThingName \cup {NULL, Unread}
    BY <1>0, <1>6 DEF Connect, DriverEvent, HandleEvent, PrintThingName, TypeOK
  <2>3. TypeOK'
    BY <1>0, <2>1, <2>2 DEF TypeOK, identity, clock
  <2>. QED
    BY <1>0, <2>1, <2>3, ClockKept
<1>7. CASE MqttWait
  <2>1. tasks # {}
    BY <1>7 DEF ClockInv, MqttWait, EventInv
  <2>2. entry' \in 0 .. WORD - 1
    BY <1>0, <1>7, Reading DEF MqttWait, TypeOK
  <2>3. \A n \in Int : (n - n) % WORD = 0
    <3>1. 0 \in Int /\ 0 \in 0 .. WORD - 1 /\ 0 * WORD + 0 = 0
      BY ClockAssumption
    <3>2. (0 * WORD + 0) % WORD = 0
      BY <3>1, Unique
    <3>3. \A n \in Int : n - n = 0
      OBVIOUS
    <3>. QED
      BY <3>1, <3>2, <3>3
  <2>4. Elapsed' = 0
    <3>1. entry' \in Int
      BY <2>2, ClockAssumption
    <3>2. Elapsed' = (entry' - entry') % WORD
      BY <1>7 DEF MqttWait, Elapsed
    <3>. QED
      BY <2>3, <3>1, <3>2
  <2>5. 0 \in 0 .. Timeout + MILLISECONDS_PER_TICK - 1
    BY ClockAssumption
  <2>6. TypeOK'
    BY <1>0, <1>7, <2>2, <2>5 DEF TypeOK, MqttWait, identity, world
  <2>. QED
    BY <1>0, <1>7, <2>1, <2>4, <2>6 DEF ClockInv, MqttWait, world
<1>8. CASE MqttWaitEnds
  <2>1. 0 \in 0 .. Timeout + MILLISECONDS_PER_TICK - 1
    BY ClockAssumption
  <2>2. TypeOK'
    BY <1>0, <1>8, <2>1 DEF TypeOK, MqttWaitEnds, identity, world
  <2>. QED
    BY <1>0, <1>8, <2>2 DEF ClockInv, MqttWaitEnds
<1>9. CASE Tick
  <2>1. tick' \in 0 .. WORD - 1
    <3>1. tick + 1 \in Int
      BY <1>0, ClockAssumption DEF TypeOK
    <3>. QED
      BY <1>9, <3>1, Remainder DEF Tick
  <2>2. CASE entry = NULL
    <3>1. 0 \in 0 .. Timeout + MILLISECONDS_PER_TICK - 1
      BY ClockAssumption
    <3>2. TypeOK'
      BY <1>0, <1>9, <2>1, <2>2, <3>1 DEF TypeOK, Tick, identity, world
    <3>. QED
      BY <1>0, <1>9, <2>2, <3>2 DEF ClockInv, Tick
  <2>3. CASE entry # NULL
    <3>1. /\ entry \in 0 .. WORD - 1 /\ waited \in Nat /\ waited < Timeout
          /\ waited' = waited + MILLISECONDS_PER_TICK
      BY <1>0, <1>9, <2>3, ClockAssumption DEF ClockInv, TypeOK, Tick
    <3>2. waited + MILLISECONDS_PER_TICK < WORD
      BY <3>1, ClockAssumption
    <3>3. Elapsed' = waited'
      <4>1. Elapsed = waited /\ tick \in 0 .. WORD - 1 /\ ulGlobalEntryTimeMs \in 0 .. WORD - 1
        BY <1>0, <2>3 DEF ClockInv, TypeOK
      <4>2. tick' = (tick + 1) % WORD /\ UNCHANGED <<ulGlobalEntryTimeMs, entry>>
        BY <1>9 DEF Tick
      <4>. QED
        BY <3>1, <3>2, <4>1, <4>2, TickAdds DEF Elapsed
    <3>4. waited' \in 0 .. Timeout + MILLISECONDS_PER_TICK - 1
      BY <3>1, ClockAssumption
    <3>5. TypeOK'
      BY <1>0, <1>9, <2>1, <3>4 DEF TypeOK, Tick, identity, world
    <3>. QED
      BY <1>0, <1>9, <2>3, <3>3, <3>5 DEF ClockInv, Tick, world
  <2>. QED
    BY <2>2, <2>3
<1>10. CASE Reset
  <2>1. 0 \in 0 .. Timeout + MILLISECONDS_PER_TICK - 1 /\ 0 \in 0 .. WORD - 1
    BY ClockAssumption
  <2>2. TypeOK'
    BY <1>0, <1>10, <2>1 DEF TypeOK, Reset
  <2>. QED
    BY <1>0, <1>10, <2>2 DEF ClockInv, Reset
<1>11. CASE UNCHANGED vars
  <2>1. TypeOK'
    BY <1>0, <1>11 DEF TypeOK, vars, identity, world, clock
  <2>. QED
    BY <1>0, <1>11, <2>1, ClockKept DEF vars, world
<1>. QED
  BY <1>1, <1>2, <1>3, <1>4, <1>5, <1>6, <1>7, <1>8, <1>9, <1>10, <1>11 DEF Next, app_main

THEOREM ClockInvariant == Spec => []ClockInv
<1>1. Init => ClockInv
  <2>1. 0 \in 0 .. Timeout + MILLISECONDS_PER_TICK - 1 /\ 0 \in 0 .. WORD - 1
    BY ClockAssumption
  <2>. QED
    BY <2>1 DEF Init, ClockInv, TypeOK, EventInv, Created
<1>2. ClockInv /\ [Next]_vars => ClockInv'
  BY ClockStep
<1>. QED
  BY <1>1, <1>2, PTL DEF Spec

\* Every variable keeps its type, the length of a wait within its time-out among them.
THEOREM TypeCorrect == Spec => []TypeOK
<1>1. ClockInv => TypeOK
  BY DEF ClockInv
<1>. QED
  BY <1>1, ClockInvariant, PTL

\* For a word of any size and any length of a tick, coreMQTT measures its waits
\* exactly, whatever wraps around in between.
THEOREM Measured == Spec => []WaitsMeasured
<1>1. ClockInv => WaitsMeasured
  BY DEF ClockInv, WaitsMeasured
<1>. QED
  BY <1>1, ClockInvariant, PTL
===============================================================================

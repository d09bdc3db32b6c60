-------------------------------- MODULE Boot --------------------------------
(***************************************************************************)
(* The start of the device: app_main of main/main.c, with the identity it  *)
(* reads or generates, and vNetworkingInit of main/networking.c, with the  *)
(* clock it gives to coreMQTT.  The device can be reset at any moment; an  *)
(* abort (ESP_ERROR_CHECK, or an assertion of FreeRTOS) is a reset too.    *)
(*                                                                         *)
(* The storage, the Wi-Fi driver, the utility and coreMQTT are external.   *)
(***************************************************************************)
EXTENDS Integers

CONSTANTS
  ThingName,
  NodeId,                 \* made of the MAC address
  NULL,
  Unread,                 \* a buffer that was not written to
  ReadsCanFail,           \* whether prvNvsGetStr can fail for a stored string
  WORD,                   \* 2^32: the integers of the clock wrap there
  MILLISECONDS_PER_TICK,
  Timeout                 \* of a wait for an answer of the broker

ASSUME NameAssumption == NULL \notin ThingName \cup {NodeId} /\ Unread \notin ThingName \cup {NodeId}
ASSUME ReadsAssumption == ReadsCanFail \in BOOLEAN
ASSUME ClockAssumption ==
  /\ WORD \in Nat \ {0} /\ MILLISECONDS_PER_TICK \in 1 .. WORD
  /\ Timeout \in Nat /\ Timeout + MILLISECONDS_PER_TICK <= WORD

VARIABLES
  provisioned,          \* partition "nvs": the strings that the utility has flashed
  nvs,                  \* partition "runtime": the identity
  pcThingName, pcNodeId,
  pc,                   \* where app_main is
  groups,               \* the event groups that exist
  tasks,                \* the tasks that app_main has created
  station,              \* what the driver does
  event,                \* the event that the event task is about to handle
  printed,              \* every thing name that the utility was told of
  tick,
  ulGlobalEntryTimeMs,
  entry,                \* when coreMQTT has begun to wait, or NULL
  waited                \* how long ago that is

identity == <<pcThingName, pcNodeId>>
world == <<groups, tasks, station, event, printed>>
clock == <<tick, ulGlobalEntryTimeMs, entry, waited>>
vars == <<provisioned, nvs, identity, pc, world, clock>>

TypeOK ==
  /\ provisioned \subseteq {"wifiSsid", "wifiPass", "endpoint"}
  /\ nvs \in [thingname : ThingName \cup {NULL, Unread}, nodeid : {NodeId, NULL, Unread}]
  /\ pcThingName \in ThingName \cup {NULL, Unread}
  /\ pcNodeId \in {NodeId, NULL, Unread}
  /\ pc \in {"wifiSsid", "wifiPass", "endpoint", "events", "networking", "credentials",
             "thingname", "nodeid", "check", "store_nodeid", "store_thingname",
             "groups", "UtilityOutput", "NetworkHandling", "Sending", "done", "stopped"}
  /\ groups \subseteq {"network", "utility"}
  /\ tasks \subseteq {"UtilityOutput", "NetworkHandling", "Sending"}
  /\ station \in {"off", "started", "connecting", "connected"}
  /\ event \in {NULL, "CONNECTED", "DISCONNECTED"}
  /\ printed \subseteq ThingName \cup {NULL, Unread}
  /\ tick \in 0 .. WORD - 1
  /\ ulGlobalEntryTimeMs \in 0 .. WORD - 1
  /\ entry \in (0 .. WORD - 1) \cup {NULL}
  /\ waited \in 0 .. Timeout + MILLISECONDS_PER_TICK - 1

Init ==
  /\ provisioned \in SUBSET {"wifiSsid", "wifiPass", "endpoint"}
  /\ nvs = [thingname |-> NULL, nodeid |-> NULL]
  /\ pcThingName = NULL /\ pcNodeId = NULL
  /\ pc = "wifiSsid"
  /\ groups = {} /\ tasks = {} /\ station = "off" /\ event = NULL
  /\ printed = {}
  /\ tick = 0 /\ ulGlobalEntryTimeMs = 0 /\ entry = NULL /\ waited = 0

\* The utility may flash its partition before the device starts again.
Reset ==
  /\ provisioned' \in SUBSET {"wifiSsid", "wifiPass", "endpoint"}
  /\ pcThingName' = NULL /\ pcNodeId' = NULL
  /\ pc' = "wifiSsid"
  /\ groups' = {} /\ tasks' = {} /\ station' = "off" /\ event' = NULL
  /\ tick' = 0 /\ ulGlobalEntryTimeMs' = 0 /\ entry' = NULL /\ waited' = 0
  /\ UNCHANGED <<nvs, printed>>

-------------------------------------------------------------------------------
(* app_main.                                                               *)

Goto(from, to) == pc = from /\ pc' = to

\* prvNvsGetStr, as in Provisioning.tla.
NvsGetStr(stored) ==
  {stored} \cup (IF ReadsCanFail /\ stored # NULL THEN {NULL, Unread} ELSE {})

\* The strings that the device cannot do without.
GetConfig(name, next) ==
  /\ pc = name
  /\ \/ pc' = next /\ name \in provisioned
     \/ pc' = "stopped" /\ (name \in provisioned => ReadsCanFail)
  /\ UNCHANGED <<provisioned, nvs, identity, world, clock>>

GetConfigs ==
  \/ GetConfig("wifiSsid", "wifiPass")
  \/ GetConfig("wifiPass", "endpoint")
  \/ GetConfig("endpoint", "events")

RegisterHandlers ==
  /\ Goto("events", "networking")
  /\ UNCHANGED <<provisioned, nvs, identity, world, clock>>

\* Mutant: the station connects as soon as it is started.
StartStation_Connects == station' = "connecting"

StartStation == station' = "started"

\* Mutant: the clock stops at its origin instead of wrapping around.
prvMqttGetTimeMs_Saturates(ticks, origin) ==
  LET ms == (ticks * MILLISECONDS_PER_TICK) % WORD
  IN  IF ms < origin THEN 0 ELSE ms - origin

\* Mutant: nothing wraps around.
prvMqttGetTimeMs_Wide(ticks, origin) == ticks * MILLISECONDS_PER_TICK - origin

prvMqttGetTimeMs(ticks, origin) == (ticks * MILLISECONDS_PER_TICK - origin) % WORD

\* Starting has taken any time.
vNetworkingInit ==
  /\ Goto("networking", "credentials")
  /\ StartStation
  /\ tick' \in 0 .. WORD - 1
  /\ ulGlobalEntryTimeMs' = prvMqttGetTimeMs(tick', ulGlobalEntryTimeMs)
  /\ UNCHANGED <<provisioned, nvs, identity, groups, tasks, event, printed, entry, waited>>

xSetWifiCredentials ==
  /\ Goto("credentials", "thingname") \/ Goto("credentials", "stopped")
  /\ UNCHANGED <<provisioned, nvs, identity, world, clock>>

-------------------------------------------------------------------------------
(* prvAssignThingNameAndNodeId.                                            *)

GetThingName ==
  /\ Goto("thingname", "nodeid")
  /\ pcThingName' \in NvsGetStr(nvs.thingname)
  /\ UNCHANGED <<provisioned, nvs, pcNodeId, world, clock>>

GetNodeId ==
  /\ Goto("nodeid", "check")
  /\ pcNodeId' \in NvsGetStr(nvs.nodeid)
  /\ UNCHANGED <<provisioned, nvs, pcThingName, world, clock>>

IdentityFound ==
  /\ pcThingName # NULL /\ pcNodeId # NULL
  /\ Goto("check", "groups")
  /\ UNCHANGED <<provisioned, nvs, identity, world, clock>>

\* Either one is missing: both are made anew, the thing name with a random number.
Generate ==
  /\ pcThingName = NULL \/ pcNodeId = NULL
  /\ Goto("check", "store_nodeid")
  /\ pcNodeId' = NodeId
  /\ pcThingName' \in ThingName
  /\ UNCHANGED <<provisioned, nvs, world, clock>>

\* No MAC address, or no memory: app_main returns, and never looks at them again.
GenerateFails ==
  /\ pcThingName = NULL \/ pcNodeId = NULL
  /\ Goto("check", "stopped")
  /\ UNCHANGED <<provisioned, nvs, identity, world, clock>>

StoreNodeId ==
  /\ Goto("store_nodeid", "store_thingname")
  /\ nvs' = [nvs EXCEPT !.nodeid = pcNodeId]
  /\ UNCHANGED <<provisioned, identity, world, clock>>

StoreThingName ==
  /\ Goto("store_thingname", "groups")
  /\ nvs' = [nvs EXCEPT !.thingname = pcThingName]
  /\ UNCHANGED <<provisioned, identity, world, clock>>

\* Mutant: a node id that could not be stored is no reason to stop.
StoreFails_GoesOn ==
  /\ Goto("store_nodeid", "store_thingname") \/ Goto("store_thingname", "stopped")
  /\ UNCHANGED <<provisioned, nvs, identity, world, clock>>

StoreFails ==
  /\ Goto("store_nodeid", "stopped") \/ Goto("store_thingname", "stopped")
  /\ UNCHANGED <<provisioned, nvs, identity, world, clock>>

-------------------------------------------------------------------------------
(* The event groups and the tasks.  Whether there was memory for them is   *)
(* not looked at.                                                          *)

CreateGroups ==
  /\ Goto("groups", "UtilityOutput")
  /\ groups' \in SUBSET {"network", "utility"}
  /\ UNCHANGED <<provisioned, nvs, identity, tasks, station, event, printed, clock>>

CreateTask(name, next) ==
  /\ Goto(name, next)
  /\ tasks' \in {tasks, tasks \cup {name}}
  /\ UNCHANGED <<provisioned, nvs, identity, groups, station, event, printed, clock>>

CreateTasks ==
  \/ CreateTask("UtilityOutput", "NetworkHandling")
  \/ CreateTask("NetworkHandling", "Sending")
  \/ CreateTask("Sending", "done")

app_main ==
  \/ GetConfigs \/ RegisterHandlers \/ vNetworkingInit \/ xSetWifiCredentials
  \/ GetThingName \/ GetNodeId \/ IdentityFound \/ Generate \/ GenerateFails
  \/ StoreNodeId \/ StoreThingName \/ StoreFails
  \/ CreateGroups \/ CreateTasks

-------------------------------------------------------------------------------
(* What runs beside and after app_main.  Without its event group, a task   *)
(* or handler aborts the device.                                           *)

\* prvNetworkHandlingTask sets INIT_BIT first.
Connect ==
  /\ "NetworkHandling" \in tasks /\ "network" \in groups
  /\ station = "started" /\ station' = "connecting"
  /\ UNCHANGED <<provisioned, nvs, identity, pc, groups, tasks, event, printed, clock>>

DriverEvent ==
  /\ event = NULL
  /\ \/ station = "connecting" /\ station' = "connected" /\ event' = "CONNECTED"
     \/ station \in {"connecting", "connected"} /\ station' = "started" /\ event' = "DISCONNECTED"
  /\ UNCHANGED <<provisioned, nvs, identity, pc, groups, tasks, printed, clock>>

\* prvWifiEventHandler sets bits of both groups.
HandleEvent ==
  /\ event # NULL /\ groups = {"network", "utility"}
  /\ event' = NULL
  /\ UNCHANGED <<provisioned, nvs, identity, pc, groups, tasks, station, printed, clock>>

\* prvUtilityOutputTask sends the thing name.
PrintThingName ==
  /\ "UtilityOutput" \in tasks /\ "utility" \in groups
  /\ printed' = printed \cup {pcThingName}
  /\ UNCHANGED <<provisioned, nvs, identity, pc, groups, tasks, station, event, clock>>

\* coreMQTT waits for the broker, measuring the time from its first reading.
Elapsed == (prvMqttGetTimeMs(tick, ulGlobalEntryTimeMs) - entry) % WORD

MqttWait ==
  /\ station = "connected" /\ entry = NULL
  /\ entry' = prvMqttGetTimeMs(tick, ulGlobalEntryTimeMs)
  /\ waited' = 0
  /\ UNCHANGED <<provisioned, nvs, identity, pc, world, tick, ulGlobalEntryTimeMs>>

\* With an answer, or because Elapsed >= Timeout.
MqttWaitEnds ==
  /\ entry # NULL
  /\ entry' = NULL /\ waited' = 0
  /\ UNCHANGED <<provisioned, nvs, identity, pc, world, tick, ulGlobalEntryTimeMs>>

Tick ==
  /\ station = "connected"
  /\ entry # NULL => Elapsed < Timeout
  /\ tick' = (tick + 1) % WORD
  /\ waited' = IF entry = NULL THEN 0 ELSE waited + MILLISECONDS_PER_TICK
  /\ UNCHANGED <<provisioned, nvs, identity, pc, world, ulGlobalEntryTimeMs, entry>>

Next ==
  \/ app_main
  \/ Connect \/ DriverEvent \/ HandleEvent \/ PrintThingName
  \/ MqttWait \/ MqttWaitEnds \/ Tick
  \/ Reset

Spec == Init /\ [][Next]_vars

-------------------------------------------------------------------------------
(* Properties.                                                             *)

\* The tasks run with the stored identity, and a thing name that was printed for
\* the utility to register stays the device's, whichever of the two writes and of
\* the boots before were interrupted.
IdentityKept ==
  /\ tasks # {} => pcThingName # NULL /\ nvs = [thingname |-> pcThingName, nodeid |-> NodeId]
  /\ \A name \in printed : nvs = [thingname |-> name, nodeid |-> NodeId]

\* app_main is past the creation of both event groups.
GroupsCreated == pc \in {"UtilityOutput", "NetworkHandling", "Sending", "done"}

\* The handlers are registered before the event groups are created, but no event of
\* the station reaches them before app_main has created both, and none without
\* xNetworkEventGroup and the task that makes the station connect.  Without memory
\* for xUtilityOutputEventGroup it may: HandleEvent then aborts the device.
EventsHaveGroup ==
  event # NULL => GroupsCreated /\ "network" \in groups /\ "NetworkHandling" \in tasks

\* A wait for the broker has lasted as long as it seems to coreMQTT, wherever the
\* tick count and the clock wrap around.
WaitsMeasured == entry # NULL => Elapsed = waited
===============================================================================

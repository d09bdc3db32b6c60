----------------------------- MODULE UtilityOutput -----------------------------
(***************************************************************************)
(* prvUtilityOutputTask of main/main.c, which tells the QuickConnect       *)
(* utility on the serial line how the device is coming up, and the event   *)
(* group xUtilityOutputEventGroup through which it hears of it.            *)
(*                                                                         *)
(* The tasks it hears from are reduced to what they report: the key task   *)
(* and the certificate task report that they have started and how they     *)
(* ended, and are started again when they failed.  Between its reports the *)
(* certificate task waits for a key and an address, unless it finds a      *)
(* certificate in storage.  Provisioning.tla is shown to implement this    *)
(* specification.                                                          *)
(***************************************************************************)
EXTENDS TLAPS

VARIABLES
  util,      \* xUtilityOutputEventGroup, as the set of its set bits
  out,       \* the wait prvUtilityOutputTask is at
  blocked,   \* whether it is blocked in that wait
  got,       \* the bits the wait returned
  key,       \* what prvGetPrivKeyTask is at
  cert,      \* what prvGetCertTask is at
  notes,     \* outcomes that ending tasks have yet to set in util
  wifi,      \* whether the station is connected
  ip         \* whether it has an address

vars == <<util, out, blocked, got, key, cert, notes, wifi, ip>>

UtilWaits == [wifi     |-> {"WIFI_CONNECTED", "WIFI_DISCONNECTED"},
              key_gen  |-> {"PRIV_KEY_AND_CSR_GEN"},
              key_end  |-> {"PRIV_KEY_AND_CSR_SUCCESS", "PRIV_KEY_AND_CSR_FAIL"},
              cert_get |-> {"SELF_CLAIM_CERT_GET"},
              cert_end |-> {"SELF_CLAIM_CERT_SUCCESS", "SELF_CLAIM_CERT_FAIL"},
              done     |-> {}]

UtilBit == UNION {UtilWaits[w] : w \in DOMAIN UtilWaits}

TypeOK ==
  /\ util \subseteq UtilBit
  /\ out \in DOMAIN UtilWaits
  /\ blocked \in BOOLEAN
  /\ got \subseteq UtilBit
  /\ key \in {"start", "work", "end"}
  /\ cert \in {"start", "work", "get", "end"}
  /\ notes \subseteq UtilBit
  /\ wifi \in BOOLEAN
  /\ ip \in BOOLEAN

Init ==
  /\ util = {} /\ notes = {}
  /\ out = "wifi" /\ blocked = FALSE /\ got = {}
  /\ key = "start" /\ cert = "start"
  /\ wifi = FALSE /\ ip = FALSE

(***************************************************************************)
(* xEventGroupSetBits.  It releases prvUtilityOutputTask at once if that   *)
(* is blocked on one of the bits: the task is handed all the bits then     *)
(* set, and those it waited for are cleared (xClearOnExit).  Otherwise the *)
(* bits stay until it waits.                                               *)
(***************************************************************************)
SetUtil(bits) ==
  LET now == util \cup bits
      release == blocked /\ now \cap UtilWaits[out] # {}
  IN  /\ \/ release /\ util' = now \ UtilWaits[out] /\ got' = now /\ blocked' = FALSE
         \/ ~release /\ util' = now /\ UNCHANGED <<got, blocked>>
      /\ UNCHANGED out

(***************************************************************************)
(* prvUtilityOutputTask.  It waits with xEventGroupWaitBits, prints what   *)
(* it got and goes on to its next wait.                                    *)
(***************************************************************************)
\* Mutant: the wait clears every bit that is set.
UtilWait_ClearsAll ==
  /\ ~blocked /\ got = {} /\ out # "done"
  /\ \/ util \cap UtilWaits[out] # {} /\ got' = util /\ util' = {} /\ UNCHANGED blocked
     \/ util \cap UtilWaits[out] = {} /\ blocked' = TRUE /\ UNCHANGED <<util, got>>
  /\ UNCHANGED <<out, key, cert, notes, wifi, ip>>

UtilWait ==
  /\ ~blocked /\ got = {} /\ out # "done"
  /\ \/ /\ util \cap UtilWaits[out] # {}
        /\ got' = util
        /\ util' = util \ UtilWaits[out]
        /\ UNCHANGED blocked
     \/ /\ util \cap UtilWaits[out] = {}
        /\ blocked' = TRUE
        /\ UNCHANGED <<util, got>>
  /\ UNCHANGED <<out, key, cert, notes, wifi, ip>>

UtilGoto(w) ==
  /\ got # {}
  /\ out' = w
  /\ got' = {}
  /\ UNCHANGED <<util, blocked, key, cert, notes, wifi, ip>>

\* A disconnection is printed, a connection ends the loop.
UtilWifi == /\ out = "wifi"
            /\ UtilGoto(IF "WIFI_DISCONNECTED" \in got THEN "wifi" ELSE "key_gen")

UtilKeyGen  == out = "key_gen" /\ UtilGoto("key_end")
UtilKeyEnd  == out = "key_end" /\ UtilGoto("cert_get")
UtilCertGet == out = "cert_get" /\ UtilGoto("cert_end")

UtilCertFail ==
  /\ out = "cert_end" /\ "SELF_CLAIM_CERT_FAIL" \in got
  /\ UtilGoto("done")

\* Without a failure it prints the certificate and the thing name.
UtilCertPrint ==
  /\ out = "cert_end" /\ "SELF_CLAIM_CERT_FAIL" \notin got
  /\ UtilGoto("done")

UtilityTask == \/ UtilWait \/ UtilWifi \/ UtilKeyGen \/ UtilKeyEnd
               \/ UtilCertGet \/ UtilCertFail \/ UtilCertPrint

(***************************************************************************)
(* The tasks that report.  An outcome goes to the other event group first, *)
(* so the task can be started again before it is reported here.            *)
(***************************************************************************)
KeyStart ==
  /\ key = "start"
  /\ SetUtil({"PRIV_KEY_AND_CSR_GEN"})
  /\ key' = "work"
  /\ UNCHANGED <<cert, notes, wifi, ip>>

KeyEnd(b, next) ==
  /\ notes' = notes \cup {b}
  /\ key = "work" /\ key' = next
  /\ UNCHANGED <<util, out, blocked, got, cert, wifi, ip>>

\* Mutant: the bit of one group is set in the other.
KeyFail_WrongBit == KeyEnd("PRIV_KEY_FAIL", "start")

KeyOk   == KeyEnd("PRIV_KEY_AND_CSR_SUCCESS", "end")
KeyFail == KeyEnd("PRIV_KEY_AND_CSR_FAIL", "start")

CertStart ==
  /\ cert = "start"
  /\ SetUtil({"SELF_CLAIM_CERT_GET"})
  /\ cert' = "work"
  /\ UNCHANGED <<key, notes, wifi, ip>>

CertGoesOn ==
  /\ cert = "work" /\ cert' = "get"
  /\ UNCHANGED <<util, out, blocked, got, key, notes, wifi, ip>>

CertFound == CertGoesOn

\* PRIV_KEY_SUCCESS_BIT, which stays set, and IP_GOT_BIT, which does not.
CertWait == key = "end" /\ ip /\ CertGoesOn

CertEnd(b, next) ==
  /\ notes' = notes \cup {b}
  /\ cert = "get" /\ cert' = next
  /\ UNCHANGED <<util, out, blocked, got, key, wifi, ip>>

CertOk   == CertEnd("SELF_CLAIM_CERT_SUCCESS", "end")
CertFail == CertEnd("SELF_CLAIM_CERT_FAIL", "start")

Notify(b) ==
  /\ b \in notes
  /\ notes' = notes \ {b}
  /\ SetUtil({b})
  /\ UNCHANGED <<key, cert, wifi, ip>>

WifiConnected ==
  /\ ~wifi
  /\ wifi' = TRUE
  /\ SetUtil({"WIFI_CONNECTED"})
  /\ UNCHANGED <<key, cert, notes, ip>>

GotIp ==
  /\ wifi
  /\ ip' = TRUE
  /\ UNCHANGED <<util, out, blocked, got, key, cert, notes, wifi>>

\* Also what a failed attempt to connect ends with.
WifiDisconnected ==
  /\ wifi' = FALSE /\ ip' = FALSE
  /\ SetUtil({"WIFI_DISCONNECTED"})
  /\ UNCHANGED <<key, cert, notes>>

\* The device is reset and starts again.
Reset ==
  /\ util' = {} /\ notes' = {}
  /\ out' = "wifi" /\ blocked' = FALSE /\ got' = {}
  /\ key' = "start" /\ cert' = "start"
  /\ wifi' = FALSE /\ ip' = FALSE

Reports == \/ KeyStart \/ KeyOk \/ KeyFail
           \/ CertStart \/ CertFound \/ CertWait \/ CertOk \/ CertFail

Next == \/ UtilityTask \/ Reports
        \/ \E b \in notes : Notify(b)
        \/ WifiConnected \/ GotIp \/ WifiDisconnected \/ Reset

Spec == Init /\ [][Next]_vars

(***************************************************************************)
(* Fairness: the tasks are scheduled, the key task comes to an end, one    *)
(* way or the other, and so does a claim.  A certificate need not be in    *)
(* storage, and without one the certificate task is blocked for as long as *)
(* there is no key or no address; setting the second of the two bits       *)
(* releases it, even if the address is lost again before it runs, hence    *)
(* the strong fairness.  Neither success nor an address is assumed.        *)
(***************************************************************************)
Fairness ==
  /\ WF_vars(UtilityTask)
  /\ WF_vars(KeyStart \/ KeyOk \/ KeyFail)
  /\ WF_vars(CertStart)
  /\ SF_vars(CertWait)
  /\ WF_vars(CertOk \/ CertFail)
  /\ \A b \in UtilBit : WF_vars(Notify(b))

FairSpec == Spec /\ Fairness

(***************************************************************************)
(* Correctness.                                                            *)
(***************************************************************************)

\* No lost wake-up: when the task is blocked, nothing it waits for is set.
NoLostWakeup == blocked => util \cap UtilWaits[out] = {} /\ got = {}

\* What the utility has yet to be told is still on its way: an outcome of the
\* key task is set, about to be set, or to be reported by a task at work, for
\* as long as the task is at or before the wait for it.  The same goes for the
\* certificate.
OutcomeAhead(waits, bits, task) ==
  out \in waits => \/ task # "end"
                   \/ (util \cup notes) \cap bits # {}
                   \/ got \cap bits # {} /\ bits = UtilWaits[out]

NoReportLost ==
  /\ OutcomeAhead({"wifi", "key_gen", "key_end"}, UtilWaits["key_end"], key)
  /\ OutcomeAhead({"wifi", "key_gen", "key_end", "cert_get", "cert_end"},
                  UtilWaits["cert_end"], cert)

\* Once it knows of the connection the utility is told how the key came about
\* and that the certificate is being acquired; and how that ended too, if again
\* and again there are a key and an address to claim it with.  Or the device is
\* reset and the task is back at its first wait.
UtilityFollows ==
  /\ out = "key_gen" ~> out \in {"cert_end", "done", "wifi"}
  /\ []<>(key = "end" /\ ip) => (out = "key_gen" ~> out \in {"done", "wifi"})

\* "this retries until it does connect" (main.c:896-898): the task is not left
\* waiting for a station that is connected.
UtilityHearsOfWifi == out = "wifi" /\ blocked => ~wifi

(***************************************************************************)
(* Proofs.  There are no parameters, so the run of MCUtilityOutput.cfg is  *)
(* exhaustive; the proofs say why it passes, and carry over to             *)
(* Provisioning.tla, which implements this specification for any number of *)
(* keys and resets.                                                        *)
(***************************************************************************)

\* A blocked task has been handed nothing, so that a bit it waits for can only
\* be in the event group for as long as it is not blocked; NoLostWakeup is
\* inductive with that.
UtilityInv == TypeOK /\ NoLostWakeup /\ NoReportLost

\* The bits, wait by wait.
LEMMA Waits ==
  /\ DOMAIN UtilWaits = {"wifi", "key_gen", "key_end", "cert_get", "cert_end", "done"}
  /\ UtilWaits["wifi"] = {"WIFI_CONNECTED", "WIFI_DISCONNECTED"}
  /\ UtilWaits["key_gen"] = {"PRIV_KEY_AND_CSR_GEN"}
  /\ UtilWaits["key_end"] = {"PRIV_KEY_AND_CSR_SUCCESS", "PRIV_KEY_AND_CSR_FAIL"}
  /\ UtilWaits["cert_get"] = {"SELF_CLAIM_CERT_GET"}
  /\ UtilWaits["cert_end"] = {"SELF_CLAIM_CERT_SUCCESS", "SELF_CLAIM_CERT_FAIL"}
  /\ UtilWaits["done"] = {}
BY DEF UtilWaits

LEMMA Bits == UtilBit = {"WIFI_CONNECTED", "WIFI_DISCONNECTED", "PRIV_KEY_AND_CSR_GEN",
                         "PRIV_KEY_AND_CSR_SUCCESS", "PRIV_KEY_AND_CSR_FAIL",
                         "SELF_CLAIM_CERT_GET", "SELF_CLAIM_CERT_SUCCESS",
                         "SELF_CLAIM_CERT_FAIL"}
BY DEF UtilBit, UtilWaits

\* Bits are set: those that the released task waits for go to it, the others stay.
LEMMA SetUtilStep ==
  ASSUME TypeOK, NoLostWakeup, NEW bits \in SUBSET UtilBit, SetUtil(bits)
  PROVE  /\ out' = out /\ util' \subseteq UtilBit /\ got' \subseteq UtilBit
         /\ blocked' \in BOOLEAN
         /\ NoLostWakeup'
         /\ \A b \in util \cup bits : b \in util' \/ (b \in got' /\ b \in UtilWaits[out])
         /\ got # {} => got' = got
<1> DEFINE release == blocked /\ (util \cup bits) \cap UtilWaits[out] # {}
<1>1. CASE release
  <2>1. /\ util' = (util \cup bits) \ UtilWaits[out]
        /\ got' = util \cup bits
        /\ out' = out
    BY <1>1 DEF SetUtil
  <2>2. ~blocked'
    BY <1>1 DEF SetUtil
  <2>3. blocked' \in BOOLEAN
    BY <1>1 DEF SetUtil
  <2>4. got = {}
    BY <1>1 DEF NoLostWakeup
  <2> QED
    BY <2>1, <2>2, <2>3, <2>4 DEF TypeOK, NoLostWakeup
<1>2. CASE ~release
  <2>1. util' = util \cup bits /\ UNCHANGED <<got, blocked, out>>
    BY <1>2 DEF SetUtil
  <2>2. NoLostWakeup'
    BY <1>2, <2>1 DEF NoLostWakeup
  <2> QED
    BY <2>1, <2>2 DEF TypeOK
<1> QED
  BY <1>1, <1>2

\* A step of the task: it takes the bits it waits for, or moves on.
LEMMA TaskStep ==
  ASSUME UtilityInv, UtilityTask
  PROVE  UtilityInv'
<1> USE DEF UtilityInv, TypeOK, NoLostWakeup, NoReportLost, OutcomeAhead
<1>1. CASE UtilWait
  <2>1. CASE util \cap UtilWaits[out] # {}
    <3>1. ~blocked /\ got = {} /\ out # "done" /\ got' = util
          /\ util' = util \ UtilWaits[out] /\ UNCHANGED <<blocked, out, key, cert, notes, wifi, ip>>
      BY <1>1, <2>1 DEF UtilWait
    <3> QED
      BY <3>1, Waits
  <2>2. CASE util \cap UtilWaits[out] = {}
    <3>1. ~blocked /\ got = {} /\ out # "done" /\ blocked'
          /\ UNCHANGED <<util, got, out, key, cert, notes, wifi, ip>>
      BY <1>1, <2>2 DEF UtilWait
    <3>2. blocked' \in BOOLEAN
      BY <1>1, <2>2, Zenon DEF UtilWait
    <3> QED
      BY <2>2, <3>1, <3>2
  <2> QED
    BY <2>1, <2>2
<1>2. CASE UtilWifi
  BY <1>2, Waits DEF UtilWifi, UtilGoto
<1>3. CASE UtilKeyGen \/ UtilKeyEnd
  BY <1>3, Waits DEF UtilKeyGen, UtilKeyEnd, UtilGoto
<1>4. CASE UtilCertGet
  BY <1>4, Waits DEF UtilCertGet, UtilGoto
<1>5. CASE UtilCertFail \/ UtilCertPrint
  BY <1>5, Waits DEF UtilCertFail, UtilCertPrint, UtilGoto
<1> QED
  BY <1>1, <1>2, <1>3, <1>4, <1>5 DEF UtilityTask

\* An outcome stays on its way when bits are set and no task ends.
LEMMA OutcomeStep ==
  ASSUME UtilityInv, NEW bits \in SUBSET UtilBit, SetUtil(bits),
         notes \ bits \subseteq notes',
         key = "end" <=> key' = "end", cert = "end" <=> cert' = "end"
  PROVE  NoReportLost'
<1> USE DEF UtilityInv, NoReportLost, OutcomeAhead
<1>1. /\ out' = out
      /\ \A b \in util \cup bits : b \in util' \/ (b \in got' /\ b \in UtilWaits[out])
      /\ got # {} => got' = got
  BY SetUtilStep
<1>2. \A b \in util \cup notes : b \in util' \cup notes' \/ (b \in got' /\ b \in UtilWaits[out])
  BY <1>1
<1>3. \A b \in UtilWaits["key_end"] \cap UtilWaits[out] : UtilWaits[out] = UtilWaits["key_end"]
  BY Waits DEF TypeOK
<1>4. \A b \in UtilWaits["cert_end"] \cap UtilWaits[out] : UtilWaits[out] = UtilWaits["cert_end"]
  BY Waits DEF TypeOK
<1> QED
  BY <1>1, <1>2, <1>3, <1>4

\* A step of a task that reports, or of the station.
LEMMA ReportStep ==
  ASSUME UtilityInv,
         Reports \/ (\E b \in notes : Notify(b)) \/ WifiConnected \/ GotIp \/ WifiDisconnected
  PROVE  UtilityInv'
<1> USE DEF UtilityInv
<1>1. CASE KeyStart
  BY <1>1, Bits, SetUtilStep, OutcomeStep DEF KeyStart, TypeOK
<1>2. CASE KeyOk \/ KeyFail
  <2>1. UNCHANGED <<util, out, blocked, got, cert, wifi, ip>>
    BY <1>2 DEF KeyOk, KeyFail, KeyEnd
  <2>2. \/ notes' = notes \cup {"PRIV_KEY_AND_CSR_SUCCESS"} /\ key' = "end"
        \/ notes' = notes \cup {"PRIV_KEY_AND_CSR_FAIL"} /\ key' = "start"
    BY <1>2 DEF KeyOk, KeyFail, KeyEnd
  <2>3. TypeOK'
    BY <2>1, <2>2, Bits DEF TypeOK
  <2>4. NoLostWakeup'
    BY <2>1 DEF NoLostWakeup
  <2>5. NoReportLost'
    BY <2>1, <2>2, Waits DEF NoReportLost, OutcomeAhead
  <2> QED
    BY <2>3, <2>4, <2>5
<1>3. CASE CertStart
  BY <1>3, Bits, SetUtilStep, OutcomeStep DEF CertStart, TypeOK
<1>4. CASE CertOk \/ CertFail
  <2>1. UNCHANGED <<util, out, blocked, got, key, wifi, ip>>
    BY <1>4 DEF CertOk, CertFail, CertEnd
  <2>2. \/ notes' = notes \cup {"SELF_CLAIM_CERT_SUCCESS"} /\ cert' = "end"
        \/ notes' = notes \cup {"SELF_CLAIM_CERT_FAIL"} /\ cert' = "start"
    BY <1>4 DEF CertOk, CertFail, CertEnd
  <2>3. TypeOK'
    BY <2>1, <2>2, Bits DEF TypeOK
  <2>4. NoLostWakeup'
    BY <2>1 DEF NoLostWakeup
  <2>5. NoReportLost'
    BY <2>1, <2>2, Waits DEF NoReportLost, OutcomeAhead
  <2> QED
    BY <2>3, <2>4, <2>5
<1>5. ASSUME NEW b \in notes, Notify(b) PROVE UtilityInv'
  <2>1. b \in UtilBit
    BY DEF TypeOK
  <2> QED
    BY <1>5, <2>1, SetUtilStep, OutcomeStep DEF Notify, TypeOK
<1>6. CASE WifiConnected
  <2>1. SetUtil({"WIFI_CONNECTED"}) /\ UNCHANGED <<key, cert, notes, ip>>
    BY <1>6 DEF WifiConnected
  <2>2. wifi' \in BOOLEAN
    BY <1>6, Zenon DEF WifiConnected
  <2> QED
    BY <2>1, <2>2, Bits, SetUtilStep, OutcomeStep DEF TypeOK
<1>7. CASE WifiDisconnected
  <2>1. SetUtil({"WIFI_DISCONNECTED"}) /\ UNCHANGED <<key, cert, notes>>
    BY <1>7 DEF WifiDisconnected
  <2>2. wifi' \in BOOLEAN /\ ip' \in BOOLEAN
    BY <1>7, Zenon DEF WifiDisconnected
  <2> QED
    BY <2>1, <2>2, Bits, SetUtilStep, OutcomeStep DEF TypeOK
<1>8. CASE CertFound \/ CertWait
  <2>1. UNCHANGED <<util, out, blocked, got, key, notes, wifi, ip>>
    BY <1>8 DEF CertFound, CertWait, CertGoesOn
  <2>2. cert = "work" /\ cert' = "get"
    BY <1>8 DEF CertFound, CertWait, CertGoesOn
  <2>3. TypeOK'
    BY <2>1, <2>2 DEF TypeOK
  <2>4. NoLostWakeup' /\ NoReportLost'
    BY <2>1, <2>2 DEF NoLostWakeup, NoReportLost, OutcomeAhead
  <2> QED
    BY <2>3, <2>4
<1>9. CASE GotIp
  <2>1. UNCHANGED <<util, out, blocked, got, key, cert, notes, wifi>>
    BY <1>9 DEF GotIp
  <2>2. ip' \in BOOLEAN
    BY <1>9, Zenon DEF GotIp
  <2>3. TypeOK'
    BY <2>1, <2>2 DEF TypeOK
  <2>4. NoLostWakeup' /\ NoReportLost'
    BY <2>1 DEF NoLostWakeup, NoReportLost, OutcomeAhead
  <2> QED
    BY <2>3, <2>4
<1> QED
  BY <1>1, <1>2, <1>3, <1>4, <1>5, <1>6, <1>7, <1>8, <1>9 DEF Reports

\* The device starts without a report.
LEMMA StartState ==
  ASSUME util = {}, notes = {}, got = {}, out = "wifi", blocked = FALSE, wifi = FALSE,
         ip = FALSE, key = "start", cert = "start"
  PROVE  UtilityInv
<1>1. blocked \in BOOLEAN /\ wifi \in BOOLEAN /\ ip \in BOOLEAN /\ ~blocked
  BY Zenon
<1> QED
  BY <1>1, Waits DEF UtilityInv, TypeOK, NoLostWakeup, NoReportLost, OutcomeAhead

\* Whatever is reported while the task prints or is not yet waiting reaches its
\* next wait, and every outcome is on its way until the task gets to it.
THEOREM UtilityInvariant == Spec => []UtilityInv
<1>1. Init => UtilityInv
  BY StartState DEF Init
<1>2. UtilityInv /\ [Next]_vars => UtilityInv'
  <2>1. ASSUME UtilityInv, Reset PROVE UtilityInv'
    <3>1. /\ util' = {} /\ notes' = {} /\ got' = {} /\ out' = "wifi"
          /\ key' = "start" /\ cert' = "start"
      BY <2>1 DEF Reset
    <3>2. blocked' \in BOOLEAN /\ wifi' \in BOOLEAN /\ ip' \in BOOLEAN /\ ~blocked'
      BY <2>1, Zenon DEF Reset
    <3> QED
      BY <3>1, <3>2, Waits DEF UtilityInv, TypeOK, NoLostWakeup, NoReportLost, OutcomeAhead
  <2>2. ASSUME UtilityInv, UNCHANGED vars PROVE UtilityInv'
    BY <2>2 DEF vars, UtilityInv, TypeOK, NoLostWakeup, NoReportLost, OutcomeAhead
  <2> QED
    BY <2>1, <2>2, TaskStep, ReportStep DEF Next
<1> QED
  BY <1>1, <1>2, PTL DEF Spec

\* The types.
THEOREM TypeCorrect == Spec => []TypeOK
<1>1. UtilityInv => TypeOK
  BY DEF UtilityInv
<1> QED
  BY <1>1, UtilityInvariant, PTL

\* No lost wake-up and no lost report.
THEOREM NothingLost == Spec => [](NoLostWakeup /\ NoReportLost)
<1>1. UtilityInv => NoLostWakeup /\ NoReportLost
  BY DEF UtilityInv
<1> QED
  BY <1>1, UtilityInvariant, PTL
===============================================================================

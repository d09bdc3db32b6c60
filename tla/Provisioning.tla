----------------------------- MODULE Provisioning -----------------------------
(***************************************************************************)
(* How the device gets its credentials and hands them over (main/main.c).  *)
(*                                                                         *)
(* prvGetPrivKeyTask and prvGetCertTask run concurrently.  They share the  *)
(* globals pcDevKey, pcDevCert and pxSelfClaimData, find the credentials   *)
(* in non-volatile storage or create them, and report in two event groups. *)
(* prvUtilityOutputTask follows the second group and prints what happens   *)
(* on the serial line, the certificate in the end, for the QuickConnect    *)
(* utility to register.  The device may be reset at any time.              *)
(*                                                                         *)
(* NetworkTasks.tla shows that there is one task at work on the key and    *)
(* one on the certificate; here each has one program counter, and the      *)
(* handling task restarts it when its failure bit is set.                  *)
(*                                                                         *)
(* A private key is a member of Key.  A CSR and a certificate are named by *)
(* the private key they belong to.                                         *)
(***************************************************************************)

CONSTANTS
  Key,            \* private keys
  NULL,
  Unread,         \* a buffer that nothing was read into
  ReadsCanFail    \* whether prvNvsGetStr can fail for a stored string

ASSUME NullAssumption == NULL \notin Key /\ Unread \notin Key /\ NULL # Unread
ASSUME ReadsAssumption == ReadsCanFail \in BOOLEAN

VARIABLES
  \* non-volatile storage, partition "runtime"
  nvs,              \* what is stored under "key" and "certificate"
  \* globals of main.c and of the claiming component
  pcDevKey,
  pcDevCert,
  pxSelfClaimData,  \* what the pointer points at: "null", "live" or "freed"
  csr,              \* the key whose CSR is (or was) in *pxSelfClaimData
  \* tasks and event groups
  net,              \* xNetworkEventGroup
  util,             \* xUtilityOutputEventGroup
  key,              \* where prvGetPrivKeyTask is
  cert,             \* where prvGetCertTask is
  notes,            \* outcomes that ending tasks have yet to set in util
  out,              \* the wait prvUtilityOutputTask is at
  blocked,          \* whether it is blocked in that wait
  got,              \* the bits the wait returned
  \* the world
  wifi,             \* whether the station is connected
  registered        \* history: every certificate printed so far

globals == <<pcDevKey, pcDevCert, pxSelfClaimData, csr>>
utility == <<util, out, blocked, got>>
vars == <<nvs, globals, net, key, cert, notes, utility, wifi, registered>>

NetBit == {"PRIV_KEY_SUCCESS", "PRIV_KEY_FAIL", "CERT_SUCCESS", "CERT_FAIL", "IP_GOT"}

(***************************************************************************)
(* prvUtilityOutputTask and its event group are those of UtilityOutput.tla *)
(* for which a task that failed is about to start again.  All the key task *)
(* does in between is work; the certificate task works up to its wait for  *)
(* a key and an address, and then gets the certificate it claims or found. *)
(***************************************************************************)
Stage(task, failBit) ==
  IF task = "none" THEN IF failBit \in net THEN "start" ELSE "end"
  ELSE IF task = "start" THEN "start" ELSE "work"

CertStage == IF cert \in {"claim", "store", "ok", "fail"} THEN "get" ELSE Stage(cert, "CERT_FAIL")

U == INSTANCE UtilityOutput WITH key  <- Stage(key, "PRIV_KEY_FAIL"),
                                 cert <- CertStage,
                                 ip   <- "IP_GOT" \in net

Credential == Key \cup {NULL, Unread}

TypeOK ==
  /\ nvs \in [key : Credential, certificate : Credential]
  /\ pcDevKey \in Credential
  /\ pcDevCert \in Credential
  /\ pxSelfClaimData \in {"null", "live", "freed"}
  /\ csr \in Key \cup {NULL}
  /\ net \subseteq NetBit
  /\ util \subseteq U!UtilBit
  /\ key \in {"none", "start", "read_key", "read_cert", "check", "store", "ok", "fail"}
  /\ cert \in {"none", "start", "read", "check", "wait", "claim", "store", "ok", "fail"}
  /\ notes \subseteq U!UtilBit
  /\ out \in DOMAIN U!UtilWaits
  /\ blocked \in BOOLEAN
  /\ got \subseteq U!UtilBit
  /\ wifi \in BOOLEAN
  /\ registered \subseteq Credential

(***************************************************************************)
(* The state of a new device that app_main has started: the handling task  *)
(* has created the two tasks for INIT_BIT.                                 *)
(***************************************************************************)
Init ==
  /\ nvs = [key |-> NULL, certificate |-> NULL]
  /\ pcDevKey = NULL /\ pcDevCert = NULL
  /\ pxSelfClaimData = "null" /\ csr = NULL
  /\ net = {} /\ util = {} /\ notes = {}
  /\ key = "start" /\ cert = "start"
  /\ out = "wifi" /\ blocked = FALSE /\ got = {}
  /\ wifi = FALSE
  /\ registered = {}

\* prvNvsGetStr asks for the length of the string, allocates a buffer and reads
\* the string into it.  It returns NULL if the string is not stored or one of
\* the first steps fails, and the buffer as malloc left it if the last one does.
NvsGetStr(name) ==
  {nvs[name]} \cup (IF ReadsCanFail /\ nvs[name] # NULL THEN {NULL, Unread} ELSE {})

(***************************************************************************)
(* prvGetPrivKeyTask                                                       *)
(***************************************************************************)
KeyStart ==
  /\ key = "start"
  /\ U!SetUtil({"PRIV_KEY_AND_CSR_GEN"})
  /\ key' = "read_key"
  /\ UNCHANGED <<nvs, globals, net, cert, notes, wifi, registered>>

KeyReadKey ==
  /\ key = "read_key"
  /\ pcDevKey' \in NvsGetStr("key")
  /\ key' = "read_cert"
  /\ UNCHANGED <<nvs, pcDevCert, pxSelfClaimData, csr, net, cert, notes, utility, wifi, registered>>

\* Mutant: the certificate is left to prvGetCertTask, which has read it or not.
KeyReadCert_Skipped ==
  /\ key = "read_cert"
  /\ key' = "check"
  /\ UNCHANGED <<nvs, globals, net, cert, notes, utility, wifi, registered>>

\* The certificate is read into the global that prvGetCertTask writes too.
KeyReadCert ==
  /\ key = "read_cert"
  /\ pcDevCert' \in NvsGetStr("certificate")
  /\ key' = "check"
  /\ UNCHANGED <<nvs, pcDevKey, pxSelfClaimData, csr, net, cert, notes, utility, wifi, registered>>

KeyStored ==
  /\ key = "check"
  /\ pcDevKey # NULL /\ pcDevCert # NULL
  /\ key' = "ok"
  /\ UNCHANGED <<nvs, globals, net, cert, notes, utility, wifi, registered>>

\* esp_rmaker_self_claim_init generates a key and its CSR.  A generated key is
\* none of those that are still around.
FreshKeys ==
  Key \ ({nvs.key, nvs.certificate, pcDevKey, pcDevCert, csr} \cup registered)

KeyGenerate ==
  /\ key = "check"
  /\ pcDevKey = NULL \/ pcDevCert = NULL
  /\ \E k \in FreshKeys :
       /\ csr' = k
       /\ pcDevKey' = k
  /\ pxSelfClaimData' = "live"
  /\ key' = "store"
  /\ UNCHANGED <<nvs, pcDevCert, net, cert, notes, utility, wifi, registered>>

KeyGenerateFails ==
  /\ key = "check"
  /\ pcDevKey = NULL \/ pcDevCert = NULL
  /\ pxSelfClaimData' = "null"
  /\ csr' = NULL
  /\ key' = "fail"
  /\ UNCHANGED <<nvs, pcDevKey, pcDevCert, net, cert, notes, utility, wifi, registered>>

KeyStore ==
  /\ key = "store"
  /\ nvs' = [nvs EXCEPT !.key = pcDevKey]
  /\ key' = "ok"
  /\ UNCHANGED <<globals, net, cert, notes, utility, wifi, registered>>

KeyStoreFails ==
  /\ key = "store"
  /\ key' = "fail"
  /\ UNCHANGED <<nvs, globals, net, cert, notes, utility, wifi, registered>>

KeyOk ==
  /\ key = "ok"
  /\ net' = net \cup {"PRIV_KEY_SUCCESS"}
  /\ notes' = notes \cup {"PRIV_KEY_AND_CSR_SUCCESS"}
  /\ key' = "none"
  /\ UNCHANGED <<nvs, globals, cert, utility, wifi, registered>>

\* Mutant: the bit of one group is set in the other.
KeyFail_WrongBit ==
  /\ key = "fail"
  /\ net' = net \cup {"PRIV_KEY_AND_CSR_FAIL"}
  /\ notes' = notes \cup {"PRIV_KEY_AND_CSR_FAIL"}
  /\ key' = "none"
  /\ UNCHANGED <<nvs, globals, cert, utility, wifi, registered>>

\* Mutant: the utility is told of a success.
KeyFail_NotesSuccess ==
  /\ key = "fail"
  /\ net' = net \cup {"PRIV_KEY_FAIL"}
  /\ notes' = notes \cup {"PRIV_KEY_AND_CSR_SUCCESS"}
  /\ key' = "none"
  /\ UNCHANGED <<nvs, globals, cert, utility, wifi, registered>>

KeyFail ==
  /\ key = "fail"
  /\ net' = net \cup {"PRIV_KEY_FAIL"}
  /\ notes' = notes \cup {"PRIV_KEY_AND_CSR_FAIL"}
  /\ key' = "none"
  /\ UNCHANGED <<nvs, globals, cert, utility, wifi, registered>>

(***************************************************************************)
(* prvGetCertTask                                                          *)
(***************************************************************************)
CertStart ==
  /\ cert = "start"
  /\ U!SetUtil({"SELF_CLAIM_CERT_GET"})
  /\ cert' = "read"
  /\ UNCHANGED <<nvs, globals, net, key, notes, wifi, registered>>

CertRead ==
  /\ cert = "read"
  /\ pcDevCert' \in NvsGetStr("certificate")
  /\ cert' = "check"
  /\ UNCHANGED <<nvs, pcDevKey, pxSelfClaimData, csr, net, key, notes, utility, wifi, registered>>

CertCheck ==
  /\ cert = "check"
  /\ cert' = IF pcDevCert = NULL THEN "wait" ELSE "ok"
  /\ UNCHANGED <<nvs, globals, net, key, notes, utility, wifi, registered>>

\* Mutant: the claim waits for the address only.
CertWait_IpOnly ==
  /\ cert = "wait"
  /\ "IP_GOT" \in net
  /\ cert' = "claim"
  /\ UNCHANGED <<nvs, globals, net, key, notes, utility, wifi, registered>>

CertWait ==
  /\ cert = "wait"
  /\ {"PRIV_KEY_SUCCESS", "IP_GOT"} \subseteq net
  /\ cert' = "claim"
  /\ UNCHANGED <<nvs, globals, net, key, notes, utility, wifi, registered>>

(***************************************************************************)
(* esp_rmaker_self_claim_perform.  It frees the claim data it was handed   *)
(* unless the first of its two requests fails; main.c keeps the pointer.   *)
(* On freed data it may find the old contents or anything else.            *)
(***************************************************************************)
\* Mutant: nobody frees the data.
ClaimDone_Keeps ==
  /\ cert = "claim"
  /\ pxSelfClaimData # "null"
  /\ pcDevCert' = csr
  /\ cert' = "store"
  /\ UNCHANGED <<nvs, pcDevKey, pxSelfClaimData, csr, net, key, notes, utility, wifi, registered>>

ClaimDone ==
  /\ cert = "claim"
  /\ pxSelfClaimData # "null"
  /\ pcDevCert' = csr
  /\ pxSelfClaimData' = "freed"
  /\ cert' = "store"
  /\ UNCHANGED <<nvs, pcDevKey, csr, net, key, notes, utility, wifi, registered>>

\* So it fails without claim data, or when the first request does.
ClaimInitFails ==
  /\ cert = "claim"
  /\ cert' = "fail"
  /\ UNCHANGED <<nvs, globals, net, key, notes, utility, wifi, registered>>

ClaimVerifyFails ==
  /\ cert = "claim"
  /\ pxSelfClaimData # "null"
  /\ pxSelfClaimData' = "freed"
  /\ cert' = "fail"
  /\ UNCHANGED <<nvs, pcDevKey, pcDevCert, csr, net, key, notes, utility, wifi, registered>>

CertStore ==
  /\ cert = "store"
  /\ nvs' = [nvs EXCEPT !.certificate = pcDevCert]
  /\ cert' = "ok"
  /\ UNCHANGED <<globals, net, key, notes, utility, wifi, registered>>

\* Mutant: the result of prvNvsSetStr is ignored.
CertStoreFails_Ignored ==
  /\ cert = "store"
  /\ cert' = "ok"
  /\ UNCHANGED <<nvs, globals, net, key, notes, utility, wifi, registered>>

CertStoreFails ==
  /\ cert = "store"
  /\ cert' = "fail"
  /\ UNCHANGED <<nvs, globals, net, key, notes, utility, wifi, registered>>

CertOk ==
  /\ cert = "ok"
  /\ net' = net \cup {"CERT_SUCCESS"}
  /\ notes' = notes \cup {"SELF_CLAIM_CERT_SUCCESS"}
  /\ cert' = "none"
  /\ UNCHANGED <<nvs, globals, key, utility, wifi, registered>>

CertFail ==
  /\ cert = "fail"
  /\ net' = net \cup {"CERT_FAIL"}
  /\ notes' = notes \cup {"SELF_CLAIM_CERT_FAIL"}
  /\ cert' = "none"
  /\ UNCHANGED <<nvs, globals, key, utility, wifi, registered>>

(***************************************************************************)
(* A task that has reported to the network group goes on to report to the  *)
(* utility group.  The handling task may have restarted it by then.        *)
(***************************************************************************)
Notify(b) ==
  /\ b \in notes
  /\ U!SetUtil({b})
  /\ notes' = notes \ {b}
  /\ UNCHANGED <<nvs, globals, net, key, cert, wifi, registered>>

\* prvNetworkHandlingTask, for the two failure bits.
RestartKey ==
  /\ "PRIV_KEY_FAIL" \in net
  /\ net' = net \ {"PRIV_KEY_FAIL"}
  /\ key' = "start"
  /\ UNCHANGED <<nvs, globals, cert, notes, utility, wifi, registered>>

RestartCert ==
  /\ "CERT_FAIL" \in net
  /\ net' = net \ {"CERT_FAIL"}
  /\ cert' = "start"
  /\ UNCHANGED <<nvs, globals, key, notes, utility, wifi, registered>>

(***************************************************************************)
(* prvUtilityOutputTask                                                    *)
(***************************************************************************)
UtilReports ==
  /\ UNCHANGED <<nvs, globals, net, key, cert, notes, wifi, registered>>
  /\ \/ U!UtilWait \/ U!UtilWifi \/ U!UtilKeyGen \/ U!UtilKeyEnd
     \/ U!UtilCertGet \/ U!UtilCertFail

\* It reads the global without waiting for the task that wrote it to end.
UtilPrints ==
  /\ UNCHANGED <<nvs, globals, net, key, cert, notes, wifi>>
  /\ U!UtilCertPrint
  /\ registered' = registered \cup {pcDevCert}

(***************************************************************************)
(* The event task: the station's events, and the address it gets.          *)
(***************************************************************************)
WifiConnected ==
  /\ ~wifi
  /\ wifi' = TRUE
  /\ U!SetUtil({"WIFI_CONNECTED"})
  /\ UNCHANGED <<nvs, globals, net, key, cert, notes, registered>>

GotIp ==
  /\ wifi
  /\ net' = net \cup {"IP_GOT"}
  /\ UNCHANGED <<nvs, globals, key, cert, notes, utility, wifi, registered>>

\* Also what a failed attempt to connect ends with.
WifiDisconnected ==
  /\ wifi' = FALSE
  /\ net' = net \ {"IP_GOT"}
  /\ U!SetUtil({"WIFI_DISCONNECTED"})
  /\ UNCHANGED <<nvs, globals, key, cert, notes, registered>>

\* The device is reset and starts again: what is stored survives.
Reset ==
  /\ pcDevKey' = NULL /\ pcDevCert' = NULL
  /\ pxSelfClaimData' = "null" /\ csr' = NULL
  /\ net' = {} /\ util' = {} /\ notes' = {}
  /\ key' = "start" /\ cert' = "start"
  /\ out' = "wifi" /\ blocked' = FALSE /\ got' = {}
  /\ wifi' = FALSE
  /\ UNCHANGED <<nvs, registered>>

KeyTask == \/ KeyStart \/ KeyReadKey \/ KeyReadCert \/ KeyStored \/ KeyGenerate
           \/ KeyGenerateFails \/ KeyStore \/ KeyStoreFails \/ KeyOk \/ KeyFail

CertTask == \/ CertStart \/ CertRead \/ CertCheck \/ CertWait \/ ClaimDone
            \/ ClaimInitFails \/ ClaimVerifyFails \/ CertStore \/ CertStoreFails
            \/ CertOk \/ CertFail

Utility == UtilReports \/ UtilPrints

Next == \/ KeyTask \/ CertTask \/ (\E b \in U!UtilBit : Notify(b))
        \/ RestartKey \/ RestartCert \/ Utility
        \/ WifiConnected \/ GotIp \/ WifiDisconnected \/ Reset

Spec == Init /\ [][Next]_vars

(***************************************************************************)
(* Correctness.                                                            *)
(***************************************************************************)

\* When the network tasks are told that there are a key and a certificate,
\* both globals hold one, and the certificate is for that key: two tasks wrote
\* them, from storage or from a claim, after any resets and retries.
GlobalsMatch ==
  {"PRIV_KEY_SUCCESS", "CERT_SUCCESS"} \subseteq net =>
    /\ pcDevKey # NULL
    /\ pcDevCert = pcDevKey

\* The key that a claim is made for, and the TLS task uses, is the one that
\* the next boot will find.
KeyDurable == "PRIV_KEY_SUCCESS" \in net => pcDevKey # NULL /\ nvs.key = pcDevKey

\* Whatever a reset interrupted, a stored certificate is for the stored key.
StoredPair == nvs.certificate # NULL => nvs.certificate = nvs.key

\* Key and certificate belong together wherever they are, at any moment a reset
\* can strike.
CredentialsMatch == GlobalsMatch /\ KeyDurable /\ StoredPair

\* "acquires the private key from non-volatile storage, if a private key has
\* been stored" (main.c:447-450), "acquires the certificate from non-volatile
\* storage, if a certificate has been stored" (main.c:528-529): a complete
\* pair is never replaced.
StoredPairKept == [][nvs.key # NULL /\ nvs.certificate # NULL => nvs' = nvs]_vars

\* The certificate that was printed for the utility to register is the one
\* the device has stored, and keeps through every reset.
RegisteredKept == \A c \in registered : c # NULL /\ nvs = [key |-> c, certificate |-> c]

\* "using the code-signing request generated by prvGetKeyTask in
\* pxSelfClaimData" (main.c:529-531): when the certificate task makes its
\* claim, the request is there.
ClaimHasCsr == cert = "claim" => pxSelfClaimData = "live"

\* The serial protocol is the one UtilityOutput.tla specifies.
ImplementsUtilityOutput == U!Spec

\* The tasks use the self-claiming client within what Claiming.tla says of it: the
\* certificate of a claim is, until it is stored, that of the key whose request is
\* in the claim data, although another task writes pcDevCert too.  Claiming.tla
\* promises nothing of a claim from freed data, which ClaimHasCsr is about.
C == INSTANCE Claiming WITH data <- pxSelfClaimData,
                            result <- IF cert = "store" THEN pcDevCert ELSE NULL

ClaimFromFreed == cert = "claim" /\ pxSelfClaimData = "freed"

ImplementsClaiming == C!Init /\ [][C!Next \/ ClaimFromFreed]_(C!vars)
===============================================================================

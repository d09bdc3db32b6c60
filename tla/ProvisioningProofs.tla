-------------------------- MODULE ProvisioningProofs --------------------------
(***************************************************************************)
(* Proofs about Provisioning.tla, for any set of keys and any number of    *)
(* resets, on a device whose storage can be read (~ReadsCanFail: the run   *)
(* of MCProvisioningRead.cfg shows what a read that fails does).           *)
(***************************************************************************)
EXTENDS Provisioning, TLAPS

\* A task is there until it reports, with one bit.
KeyBits ==
  /\ key # "none" => "PRIV_KEY_SUCCESS" \notin net /\ "PRIV_KEY_FAIL" \notin net
  /\ "PRIV_KEY_SUCCESS" \in net => "PRIV_KEY_FAIL" \notin net

CertBits ==
  /\ cert # "none" => "CERT_SUCCESS" \notin net /\ "CERT_FAIL" \notin net
  /\ "CERT_SUCCESS" \in net => "CERT_FAIL" \notin net
  /\ cert \in {"claim", "store"} => "PRIV_KEY_SUCCESS" \in net

\* What the key task has in its hands, and that it stores a key only if there
\* is no certificate.
KeyWork ==
  /\ key \in {"read_cert", "check"} => pcDevKey = nvs.key
  /\ key = "check" => pcDevCert = nvs.certificate
  /\ key = "store" => nvs.certificate = NULL /\ pcDevKey # NULL
  /\ key = "ok" \/ "PRIV_KEY_SUCCESS" \in net => pcDevKey # NULL /\ nvs.key = pcDevKey

\* The request that a claim would make is for the key in pcDevKey.
Request ==
  /\ nvs.certificate # NULL /\ "PRIV_KEY_SUCCESS" \notin net => pxSelfClaimData = "null"
  /\ key \in {"store", "ok"} \/ "PRIV_KEY_SUCCESS" \in net =>
       pxSelfClaimData = "null" \/ csr = pcDevKey

\* What the certificate task has in its hands, and that it makes a claim only
\* if there is no certificate.
CertWork ==
  /\ cert = "check" => pcDevCert = nvs.certificate
  /\ cert \in {"wait", "claim", "store"} => nvs.certificate = NULL
  /\ cert = "store" => pcDevCert = pcDevKey
  /\ cert = "ok" \/ "CERT_SUCCESS" \in net =>
       nvs.certificate # NULL /\ pcDevCert = nvs.certificate

\* The utility group runs behind the network group.
Printed ==
  /\ "SELF_CLAIM_CERT_SUCCESS" \in util \cup notes \cup got => "CERT_SUCCESS" \in net
  /\ got # {} => got \cap U!UtilWaits[out] # {}

\* The inductive invariant, with TypeOK.
Agreed ==
  /\ KeyBits
  /\ CertBits
  /\ KeyWork
  /\ Request
  /\ CertWork
  /\ StoredPair
  /\ Printed
  /\ RegisteredKept

\* What a write leaves in storage.
LEMMA StoredRecord ==
  ASSUME TypeOK, NEW v \in Credential
  PROVE  /\ [nvs EXCEPT !.key = v] = [key |-> v, certificate |-> nvs.certificate]
         /\ [nvs EXCEPT !.certificate = v] = [key |-> nvs.key, certificate |-> v]
BY DEF TypeOK

\* What a read returns.
LEMMA ReadResult ==
  ASSUME TypeOK, NEW name \in {"key", "certificate"}
  PROVE  /\ NvsGetStr(name) \subseteq Credential
         /\ ~ReadsCanFail => NvsGetStr(name) = {nvs[name]}
BY DEF TypeOK, NvsGetStr, Credential

\* xEventGroupSetBits adds bits, or hands them all to the task it releases.
LEMMA SetUtilEffect ==
  ASSUME TypeOK, NEW bits \in SUBSET U!UtilBit, U!SetUtil(bits)
  PROVE  /\ out' = out
         /\ util' \subseteq util \cup bits
         /\ util' \subseteq U!UtilBit
         /\ got' \subseteq got \cup util \cup bits
         /\ got' \subseteq U!UtilBit
         /\ blocked' \in BOOLEAN
         /\ got' = got \/ got' \cap U!UtilWaits[out] # {}
BY DEF TypeOK, U!SetUtil

\* The bits of the utility group, written out.
LEMMA UtilBits ==
  U!UtilBit = {"WIFI_CONNECTED", "WIFI_DISCONNECTED", "PRIV_KEY_AND_CSR_GEN",
               "PRIV_KEY_AND_CSR_SUCCESS", "PRIV_KEY_AND_CSR_FAIL",
               "SELF_CLAIM_CERT_GET", "SELF_CLAIM_CERT_SUCCESS", "SELF_CLAIM_CERT_FAIL"}
BY DEF U!UtilBit, U!UtilWaits

\* A step of prvUtilityOutputTask takes bits it waits for, or goes on to its
\* next wait.
LEMMA UtilityEffect ==
  ASSUME TypeOK, Utility
  PROVE  /\ util' \subseteq util
         /\ got' \subseteq util \cup got
         /\ out' \in DOMAIN U!UtilWaits
         /\ blocked' \in BOOLEAN
         /\ got' # {} => got' \cap U!UtilWaits[out'] # {}
         /\ UNCHANGED <<nvs, globals, net, key, cert, notes, wifi>>
<1>1. UNCHANGED <<nvs, globals, net, key, cert, notes, wifi>>
  BY DEF Utility, UtilReports, UtilPrints
<1>2. CASE U!UtilWait
  BY <1>1, <1>2 DEF TypeOK, U!UtilWait
<1>3. CASE ~U!UtilWait
  <2>1. \E w \in DOMAIN U!UtilWaits : U!UtilGoto(w)
    BY <1>3 DEF Utility, UtilReports, UtilPrints, U!UtilWifi, U!UtilKeyGen,
                U!UtilKeyEnd, U!UtilCertGet, U!UtilCertFail, U!UtilCertPrint, U!UtilWaits
  <2> QED
    BY <1>1, <2>1 DEF TypeOK, U!UtilGoto
<1> QED
  BY <1>2, <1>3
\* The steps of the system, one task or handler at a time.
LEMMA NextCases ==
  ASSUME [Next]_vars
  PROVE  \/ KeyTask
         \/ CertTask
         \/ \E b \in U!UtilBit : Notify(b)
         \/ RestartKey
         \/ RestartCert
         \/ Utility
         \/ WifiConnected
         \/ GotIp
         \/ WifiDisconnected
         \/ Reset
         \/ UNCHANGED vars
BY DEF Next

\* Every variable keeps its type.
LEMMA TypeStep ==
  ASSUME TypeOK, [Next]_vars
  PROVE  TypeOK'
<1> USE DEF TypeOK, Credential, globals, utility, NetBit
<1>1. CASE KeyTask
  <2>1. CASE KeyStart
    BY <2>1, UtilBits, SetUtilEffect DEF KeyStart
  <2>2. CASE KeyReadKey
    BY <2>2, ReadResult DEF KeyReadKey
  <2>3. CASE KeyReadCert
    BY <2>3, ReadResult DEF KeyReadCert
  <2>4. CASE KeyStored
    BY <2>4 DEF KeyStored
  <2>5. CASE KeyGenerate
    BY <2>5 DEF KeyGenerate, FreshKeys
  <2>6. CASE KeyGenerateFails
    BY <2>6 DEF KeyGenerateFails
  <2>7. CASE KeyStore
    BY <2>7, StoredRecord DEF KeyStore
  <2>8. CASE KeyStoreFails
    BY <2>8 DEF KeyStoreFails
  <2>9. CASE KeyOk
    BY <2>9, UtilBits DEF KeyOk
  <2>10. CASE KeyFail
    BY <2>10, UtilBits DEF KeyFail
  <2> QED
    BY <1>1, <2>1, <2>2, <2>3, <2>4, <2>5, <2>6, <2>7, <2>8, <2>9, <2>10 DEF KeyTask
<1>2. CASE CertTask
  <2>1. CASE CertStart
    BY <2>1, UtilBits, SetUtilEffect DEF CertStart
  <2>2. CASE CertRead
    BY <2>2, ReadResult DEF CertRead
  <2>3. CASE CertCheck
    BY <2>3 DEF CertCheck
  <2>4. CASE CertWait
    BY <2>4 DEF CertWait
  <2>5. CASE ClaimDone
    BY <2>5 DEF ClaimDone
  <2>6. CASE ClaimInitFails
    BY <2>6 DEF ClaimInitFails
  <2>7. CASE ClaimVerifyFails
    BY <2>7 DEF ClaimVerifyFails
  <2>8. CASE CertStore
    BY <2>8, StoredRecord DEF CertStore
  <2>9. CASE CertStoreFails
    BY <2>9 DEF CertStoreFails
  <2>10. CASE CertOk
    BY <2>10, UtilBits DEF CertOk
  <2>11. CASE CertFail
    BY <2>11, UtilBits DEF CertFail
  <2> QED
    BY <1>2, <2>1, <2>2, <2>3, <2>4, <2>5, <2>6, <2>7, <2>8, <2>9, <2>10, <2>11 DEF CertTask
<1>3. ASSUME NEW b \in U!UtilBit, Notify(b) PROVE TypeOK'
  BY <1>3, UtilBits, SetUtilEffect DEF Notify
<1>4. CASE RestartKey
  BY <1>4 DEF RestartKey
<1>5. CASE RestartCert
  BY <1>5 DEF RestartCert
<1>6. CASE Utility
  <2>1. registered' \subseteq Credential
    BY <1>6 DEF Utility, UtilReports, UtilPrints
  <2>2. util' \subseteq U!UtilBit /\ got' \subseteq U!UtilBit
    BY <1>6, UtilityEffect
  <2>3. out' \in DOMAIN U!UtilWaits /\ blocked' \in BOOLEAN
    BY <1>6, UtilityEffect
  <2>4. UNCHANGED <<nvs, pcDevKey, pcDevCert, pxSelfClaimData, csr, net, key, cert, notes, wifi>>
    BY <1>6, UtilityEffect
  <2> QED
    BY <2>1, <2>2, <2>3, <2>4
<1>7. CASE WifiConnected
  BY <1>7, UtilBits, SetUtilEffect DEF WifiConnected
<1>8. CASE GotIp
  BY <1>8 DEF GotIp
<1>9. CASE WifiDisconnected
  <2>1. wifi' \in BOOLEAN
    BY <1>9, Zenon DEF WifiDisconnected
  <2>2. net' \subseteq NetBit
    BY <1>9 DEF WifiDisconnected
  <2>3. U!SetUtil({"WIFI_DISCONNECTED"}) /\ UNCHANGED <<nvs, globals, key, cert, notes, registered>>
    BY <1>9 DEF WifiDisconnected
  <2>4. {"WIFI_DISCONNECTED"} \in SUBSET U!UtilBit
    BY UtilBits
  <2>5. out' = out /\ util' \subseteq U!UtilBit /\ got' \subseteq U!UtilBit /\ blocked' \in BOOLEAN
    BY <2>3, <2>4, SetUtilEffect
  <2> QED
    BY <2>1, <2>2, <2>3, <2>5
<1>10. CASE Reset
  <2>1. out' \in DOMAIN U!UtilWaits
    BY <1>10 DEF Reset, U!UtilWaits
  <2>2. blocked' \in BOOLEAN /\ wifi' \in BOOLEAN
    BY <1>10, Zenon DEF Reset
  <2>3. net' \subseteq NetBit /\ util' \subseteq U!UtilBit /\ notes' \subseteq U!UtilBit /\ got' \subseteq U!UtilBit
    BY <1>10 DEF Reset
  <2> QED
    BY <1>10, <2>1, <2>2, <2>3 DEF Reset
<1>11. CASE UNCHANGED vars
  BY <1>11 DEF vars
<1> QED
  BY <1>1, <1>2, <1>3, <1>4, <1>5, <1>6, <1>7, <1>8, <1>9, <1>10, <1>11, NextCases

\* The tasks, the storage and the claim data stay in agreement.
LEMMA AgreedStep ==
  ASSUME ~ReadsCanFail, TypeOK, Agreed, [Next]_vars
  PROVE  Agreed'
<1> USE DEF Agreed, KeyBits, CertBits, KeyWork, Request, CertWork, StoredPair, Printed, RegisteredKept, TypeOK, Credential, globals, utility
<1>1. CASE KeyTask
  <2>1. CASE KeyStart
    BY <2>1, UtilBits, SetUtilEffect DEF KeyStart
  <2>2. CASE KeyReadKey
    BY <2>2, ReadResult DEF KeyReadKey
  <2>3. CASE KeyReadCert
    BY <2>3, ReadResult DEF KeyReadCert
  <2>4. CASE KeyStored
    BY <2>4 DEF KeyStored
  <2>5. CASE KeyGenerate
    BY <2>5 DEF KeyGenerate, FreshKeys
  <2>6. CASE KeyGenerateFails
    BY <2>6 DEF KeyGenerateFails
  <2>7. CASE KeyStore
    BY <2>7, StoredRecord DEF KeyStore
  <2>8. CASE KeyStoreFails
    BY <2>8 DEF KeyStoreFails
  <2>9. CASE KeyOk
    BY <2>9, UtilBits DEF KeyOk
  <2>10. CASE KeyFail
    BY <2>10, UtilBits DEF KeyFail
  <2> QED
    BY <1>1, <2>1, <2>2, <2>3, <2>4, <2>5, <2>6, <2>7, <2>8, <2>9, <2>10 DEF KeyTask
<1>2. CASE CertTask
  <2>1. CASE CertStart
    BY <2>1, UtilBits, SetUtilEffect DEF CertStart
  <2>2. CASE CertRead
    BY <2>2, ReadResult DEF CertRead
  <2>3. CASE CertCheck
    BY <2>3 DEF CertCheck
  <2>4. CASE CertWait
    BY <2>4 DEF CertWait
  <2>5. CASE ClaimDone
    BY <2>5 DEF ClaimDone
  <2>6. CASE ClaimInitFails
    BY <2>6 DEF ClaimInitFails
  <2>7. CASE ClaimVerifyFails
    BY <2>7 DEF ClaimVerifyFails
  <2>8. CASE CertStore
    BY <2>8, StoredRecord DEF CertStore
  <2>9. CASE CertStoreFails
    BY <2>9 DEF CertStoreFails
  <2>10. CASE CertOk
    BY <2>10, UtilBits DEF CertOk
  <2>11. CASE CertFail
    BY <2>11, UtilBits DEF CertFail
  <2> QED
    BY <1>2, <2>1, <2>2, <2>3, <2>4, <2>5, <2>6, <2>7, <2>8, <2>9, <2>10, <2>11 DEF CertTask
<1>3. ASSUME NEW b \in U!UtilBit, Notify(b) PROVE Agreed'
  BY <1>3, UtilBits, SetUtilEffect DEF Notify
<1>4. CASE RestartKey
  BY <1>4 DEF RestartKey
<1>5. CASE RestartCert
  BY <1>5 DEF RestartCert
<1>6. CASE Utility
  <2>1. UNCHANGED <<nvs, pcDevKey, pcDevCert, pxSelfClaimData, csr, net, key, cert, notes>>
    BY <1>6, UtilityEffect
  <2>2. KeyBits' /\ CertBits' /\ KeyWork' /\ Request' /\ CertWork' /\ StoredPair'
    BY <2>1
  <2>3. Printed'
    BY <1>6, <2>1, UtilityEffect
  <2>4. RegisteredKept'
    <3>1. CASE UtilReports
      BY <2>1, <3>1 DEF UtilReports
    <3>2. CASE UtilPrints
      <4>1. "SELF_CLAIM_CERT_SUCCESS" \in got
        BY <3>2 DEF UtilPrints, U!UtilCertPrint, U!UtilGoto, U!UtilWaits
      <4>2. nvs = [key |-> pcDevCert, certificate |-> pcDevCert] /\ pcDevCert # NULL
        BY <4>1
      <4> QED
        BY <2>1, <3>2, <4>2 DEF UtilPrints
    <3> QED
      BY <1>6, <3>1, <3>2 DEF Utility
  <2> QED
    BY <2>2, <2>3, <2>4
<1>7. CASE WifiConnected
  BY <1>7, UtilBits, SetUtilEffect DEF WifiConnected
<1>8. CASE GotIp
  BY <1>8 DEF GotIp
<1>9. CASE WifiDisconnected
  BY <1>9, UtilBits, SetUtilEffect DEF WifiDisconnected
<1>10. CASE Reset
  BY <1>10 DEF Reset
<1>11. CASE UNCHANGED vars
  BY <1>11 DEF vars
<1> QED
  BY <1>1, <1>2, <1>3, <1>4, <1>5, <1>6, <1>7, <1>8, <1>9, <1>10, <1>11, NextCases

\* The types of the initial state.
LEMMA InitType == Init => TypeOK
<1>1. Init => blocked \in BOOLEAN /\ wifi \in BOOLEAN
  BY Zenon DEF Init
<1>2. Init => out \in DOMAIN U!UtilWaits
  BY DEF Init, U!UtilWaits
<1>3. Init => /\ nvs \in [key : Credential, certificate : Credential]
              /\ pcDevKey \in Credential /\ pcDevCert \in Credential
              /\ pxSelfClaimData \in {"null", "live", "freed"}
              /\ csr \in Key \cup {NULL}
              /\ net \subseteq NetBit /\ util \subseteq U!UtilBit
              /\ notes \subseteq U!UtilBit /\ got \subseteq U!UtilBit
              /\ registered \subseteq Credential
              /\ key = "start" /\ cert = "start"
  BY DEF Init, Credential
<1> QED
  BY <1>1, <1>2, <1>3 DEF TypeOK

\* Provisioning.tla keeps its types, and its parts agree, through any number of
\* failures, retries and resets.
THEOREM ProvisioningInvariant ==
  ASSUME ~ReadsCanFail
  PROVE  Spec => [](TypeOK /\ Agreed)
<1>1. Init => TypeOK /\ Agreed
  <2>1. Init => TypeOK
    BY InitType
  <2>2. Init => Agreed
    BY DEF Init, Agreed, KeyBits, CertBits, KeyWork, Request, CertWork,
           StoredPair, Printed, RegisteredKept
  <2> QED
    BY <2>1, <2>2
<1>2. TypeOK /\ Agreed /\ [Next]_vars => (TypeOK /\ Agreed)'
  BY TypeStep, AgreedStep
<1> QED
  BY <1>1, <1>2, PTL DEF Spec

\* TypeOK needs no assumption on reads.
THEOREM TypeCorrect == Spec => []TypeOK
<1>1. TypeOK /\ [Next]_vars => TypeOK'
  BY TypeStep
<1> QED
  BY <1>1, InitType, PTL DEF Spec

\* The TLS task finds a key and a certificate that belong together, the key is
\* the stored one, and what is stored belongs together.
THEOREM Credentials ==
  ASSUME ~ReadsCanFail
  PROVE  Spec => []CredentialsMatch
<1>1. TypeOK /\ Agreed => CredentialsMatch
  BY DEF Agreed, CredentialsMatch, GlobalsMatch, KeyDurable, StoredPair, KeyWork, CertWork
<1> QED
  BY <1>1, ProvisioningInvariant, PTL

\* A certificate that the utility was given to register stays the device's.
THEOREM Registration ==
  ASSUME ~ReadsCanFail
  PROVE  Spec => []RegisteredKept
<1>1. Agreed => RegisteredKept
  BY DEF Agreed
<1> QED
  BY <1>1, ProvisioningInvariant, PTL

\* A complete pair in storage is never replaced.
THEOREM PairKept ==
  ASSUME ~ReadsCanFail
  PROVE  Spec => StoredPairKept
<1>1. ASSUME TypeOK, Agreed, [Next]_vars, nvs.key # NULL, nvs.certificate # NULL
      PROVE  nvs' = nvs
  <2>1. key # "store" /\ cert # "store"
    BY <1>1 DEF Agreed, KeyWork, CertWork
  <2>2. CASE KeyTask
    BY <2>1, <2>2 DEF KeyTask, KeyStart, KeyReadKey, KeyReadCert, KeyStored, KeyGenerate,
                      KeyGenerateFails, KeyStore, KeyStoreFails, KeyOk, KeyFail
  <2>3. CASE CertTask
    BY <2>1, <2>3 DEF CertTask, CertStart, CertRead, CertCheck, CertWait, ClaimDone,
                      ClaimInitFails, ClaimVerifyFails, CertStore, CertStoreFails, CertOk, CertFail
  <2>4. CASE \E b \in U!UtilBit : Notify(b)
    BY <2>4 DEF Notify
  <2>5. CASE RestartKey \/ RestartCert \/ Utility
    BY <2>5 DEF RestartKey, RestartCert, Utility, UtilReports, UtilPrints
  <2>6. CASE WifiConnected \/ GotIp \/ WifiDisconnected \/ Reset
    BY <2>6 DEF WifiConnected, GotIp, WifiDisconnected, Reset
  <2>7. CASE UNCHANGED vars
    BY <2>7 DEF vars
  <2> QED
    BY <1>1, <2>2, <2>3, <2>4, <2>5, <2>6, <2>7 DEF Next
<1>2. TypeOK /\ Agreed /\ [Next]_vars =>
        [nvs.key # NULL /\ nvs.certificate # NULL => nvs' = nvs]_vars
  BY <1>1
<1> QED
  BY <1>2, ProvisioningInvariant, PTL DEF Spec, StoredPairKept

\* The bits of the two tasks, whether reads fail or not.
LEMMA BitsStep ==
  ASSUME KeyBits, CertBits, [Next]_vars
  PROVE  (KeyBits /\ CertBits)'
<1> USE DEF KeyBits, CertBits, globals
<1>1. CASE KeyTask
  BY <1>1 DEF KeyTask, KeyStart, KeyReadKey, KeyReadCert, KeyStored, KeyGenerate,
              KeyGenerateFails, KeyStore, KeyStoreFails, KeyOk, KeyFail
<1>2. CASE CertTask
  BY <1>2 DEF CertTask, CertStart, CertRead, CertCheck, CertWait, ClaimDone,
              ClaimInitFails, ClaimVerifyFails, CertStore, CertStoreFails, CertOk, CertFail
<1>3. CASE \E b \in U!UtilBit : Notify(b)
  BY <1>3 DEF Notify
<1>4. CASE RestartKey \/ RestartCert \/ Utility
  BY <1>4 DEF RestartKey, RestartCert, Utility, UtilReports, UtilPrints
<1>5. CASE WifiConnected \/ GotIp \/ WifiDisconnected \/ Reset
  BY <1>5 DEF WifiConnected, GotIp, WifiDisconnected, Reset
<1>6. CASE UNCHANGED vars
  BY <1>6 DEF vars
<1> QED
  BY <1>1, <1>2, <1>3, <1>4, <1>5, <1>6 DEF Next

\* Every step of the device is one of UtilityOutput.tla's steps or leaves its
\* state alone.
LEMMA UtilitySimulation ==
  ASSUME KeyBits, CertBits, [Next]_vars
  PROVE  [U!Next]_U!vars
<1> USE DEF Stage, CertStage, globals, utility, U!vars
<1>1. CASE KeyStart
  BY <1>1 DEF KeyStart, U!Next, U!Reports, U!KeyStart
<1>2. CASE KeyReadKey \/ KeyReadCert \/ KeyStored \/ KeyGenerate \/ KeyGenerateFails
  BY <1>2 DEF KeyReadKey, KeyReadCert, KeyStored, KeyGenerate, KeyGenerateFails
<1>3. CASE KeyStore \/ KeyStoreFails
  BY <1>3 DEF KeyStore, KeyStoreFails
<1>4. CASE KeyOk
  BY <1>4 DEF KeyOk, KeyBits, U!Next, U!Reports, U!KeyOk, U!KeyEnd
<1>5. CASE KeyFail
  BY <1>5 DEF KeyFail, KeyBits, U!Next, U!Reports, U!KeyFail, U!KeyEnd
<1>6. CASE CertStart
  BY <1>6 DEF CertStart, U!Next, U!Reports, U!CertStart
<1>7. CASE CertRead \/ ClaimDone \/ ClaimInitFails
  BY <1>7 DEF CertRead, ClaimDone, ClaimInitFails
<1>8. CASE ClaimVerifyFails \/ CertStore \/ CertStoreFails
  BY <1>8 DEF ClaimVerifyFails, CertStore, CertStoreFails
<1>9. CASE CertOk
  BY <1>9 DEF CertOk, CertBits, U!Next, U!Reports, U!CertOk, U!CertEnd
<1>10. CASE CertFail
  BY <1>10 DEF CertFail, CertBits, U!Next, U!Reports, U!CertFail, U!CertEnd
<1>11. ASSUME NEW b \in U!UtilBit, Notify(b) PROVE U!Next
  BY <1>11 DEF Notify, U!Next, U!Notify
<1>12. CASE RestartKey
  BY <1>12 DEF RestartKey, KeyBits
<1>13. CASE RestartCert
  BY <1>13 DEF RestartCert, CertBits
<1>14. CASE Utility
  BY <1>14 DEF Utility, UtilReports, UtilPrints, U!Next, U!UtilityTask
<1>15. CASE WifiConnected
  BY <1>15 DEF WifiConnected, U!Next, U!WifiConnected
<1>16. CASE GotIp
  BY <1>16 DEF GotIp, U!Next, U!GotIp
<1>17. CASE WifiDisconnected
  BY <1>17 DEF WifiDisconnected, U!Next, U!WifiDisconnected
<1>18. CASE CertCheck
  BY <1>18 DEF CertCheck, U!Next, U!Reports, U!CertFound, U!CertGoesOn
<1>19. CASE CertWait
  BY <1>19 DEF CertWait, KeyBits, U!Next, U!Reports, U!CertWait, U!CertGoesOn
<1>20. CASE Reset
  BY <1>20 DEF Reset, U!Next, U!Reset
<1>21. CASE UNCHANGED vars
  BY <1>21 DEF vars
<1> QED
  BY <1>1, <1>2, <1>3, <1>4, <1>5, <1>6, <1>7, <1>8, <1>9, <1>10, <1>11, <1>12, <1>13,
     <1>14, <1>15, <1>16, <1>17, <1>18, <1>19, <1>20, <1>21 DEF Next, KeyTask, CertTask

\* The device implements the serial protocol of UtilityOutput.tla.
THEOREM UtilityRefinement == Spec => ImplementsUtilityOutput
<1>1. Init => U!Init /\ KeyBits /\ CertBits
  BY DEF Init, U!Init, Stage, CertStage, KeyBits, CertBits
<1>2. KeyBits /\ CertBits /\ [Next]_vars => (KeyBits /\ CertBits)' /\ [U!Next]_U!vars
  BY BitsStep, UtilitySimulation
<1> QED
  BY <1>1, <1>2, PTL DEF Spec, U!Spec, ImplementsUtilityOutput

(***************************************************************************)
(* The self-claiming client.                                               *)
(***************************************************************************)

\* The certificate that a claim has returned.
Result == IF cert = "store" THEN pcDevCert ELSE NULL

\* A step that is no concern of the client's.
LEMMA ClientStutters ==
  ASSUME UNCHANGED <<pxSelfClaimData, csr>>, Result' = Result
  PROVE  UNCHANGED C!vars
BY DEF C!vars, Result

\* Without a certificate to be stored, the key task makes claim data or leaves it.
LEMMA KeyTaskClaims ==
  ASSUME TypeOK, Agreed, KeyTask
  PROVE  [C!Next]_C!vars
<1>1. cert # "store" /\ cert' = cert
  BY DEF Agreed, KeyBits, CertBits, KeyTask, KeyStart, KeyReadKey, KeyReadCert, KeyStored,
         KeyGenerate, KeyGenerateFails, KeyStore, KeyStoreFails, KeyOk, KeyFail
<1>2. Result = NULL /\ Result' = NULL
  BY <1>1 DEF Result
<1>3. CASE KeyGenerate
  <2>1. \E k \in Key : C!Generated(k)
    BY <1>1, <1>3 DEF KeyGenerate, FreshKeys, C!Generated
  <2>. QED
    BY <2>1 DEF C!Next
<1>4. CASE KeyGenerateFails
  BY <1>1, <1>4 DEF KeyGenerateFails, C!GenerateFails, C!Next
<1>5. CASE ~KeyGenerate /\ ~KeyGenerateFails
  <2>1. UNCHANGED <<pxSelfClaimData, csr>>
    BY <1>5 DEF KeyTask, KeyStart, KeyReadKey, KeyReadCert, KeyStored, KeyStore, KeyStoreFails,
                KeyOk, KeyFail, globals
  <2>. QED
    BY <1>2, <2>1, ClientStutters
<1>. QED
  BY <1>3, <1>4, <1>5

\* The certificate task claims, maybe from freed data, and takes the certificate
\* to storage.
LEMMA CertTaskClaims ==
  ASSUME TypeOK, Agreed, CertTask
  PROVE  [C!Next \/ ClaimFromFreed]_C!vars
<1>1. CASE ClaimDone
  BY <1>1 DEF TypeOK, ClaimDone, C!Claimed, C!Next, ClaimFromFreed
<1>2. CASE ClaimVerifyFails
  BY <1>2 DEF TypeOK, ClaimVerifyFails, C!VerifyFails, C!Next, ClaimFromFreed
<1>3. CASE CertStore \/ CertStoreFails
  <2>1. pcDevCert # NULL
    BY <1>3 DEF CertStore, CertStoreFails, Agreed, CertBits, CertWork, KeyWork
  <2>. QED
    BY <1>3, <2>1 DEF CertStore, CertStoreFails, globals, C!Taken, C!Next
<1>4. CASE ~ClaimDone /\ ~ClaimVerifyFails /\ ~CertStore /\ ~CertStoreFails
  <2>1. UNCHANGED <<pxSelfClaimData, csr>> /\ cert # "store" /\ cert' # "store"
    BY <1>4 DEF CertTask, CertStart, CertRead, CertCheck, CertWait, ClaimInitFails, CertOk,
                CertFail, globals
  <2>. QED
    BY <2>1, ClientStutters DEF Result
<1>. QED
  BY <1>1, <1>2, <1>3, <1>4

LEMMA ClaimingStep ==
  ASSUME TypeOK, Agreed, [Next]_vars
  PROVE  [C!Next \/ ClaimFromFreed]_C!vars
<1>1. CASE (\E b \in U!UtilBit : Notify(b)) \/ RestartKey \/ Utility
           \/ WifiConnected \/ GotIp \/ WifiDisconnected \/ UNCHANGED vars
  <2>1. UNCHANGED <<pcDevCert, pxSelfClaimData, csr, cert>>
    BY <1>1 DEF Notify, RestartKey, Utility, UtilReports, UtilPrints, WifiConnected, GotIp,
                WifiDisconnected, vars, globals
  <2>. QED
    BY <2>1, ClientStutters DEF Result
<1>2. CASE RestartCert
  <2>1. UNCHANGED <<pxSelfClaimData, csr>> /\ cert # "store" /\ cert' # "store"
    BY <1>2 DEF RestartCert, Agreed, CertBits, globals
  <2>. QED
    BY <2>1, ClientStutters DEF Result
<1>3. CASE Reset
  BY <1>3 DEF Reset, C!Reset, C!Next
<1>. QED
  BY <1>1, <1>2, <1>3, KeyTaskClaims, CertTaskClaims, NextCases

\* On storage that can be read, key task and certificate task use the claiming
\* client as Claiming.tla promises it, but for claims from freed data: the
\* certificate that is stored is the one that was claimed, for the key of the
\* claim data.
THEOREM ClaimingRefinement ==
  ASSUME ~ReadsCanFail
  PROVE  Spec => ImplementsClaiming
<1>1. Init => C!Init
  BY DEF Init, C!Init
<1>2. TypeOK /\ Agreed /\ [Next]_vars => [C!Next \/ ClaimFromFreed]_C!vars
  BY ClaimingStep
<1>. QED
  BY <1>1, <1>2, ProvisioningInvariant, PTL DEF Spec, ImplementsClaiming
===============================================================================

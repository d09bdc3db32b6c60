-------------------------- MODULE SelfClaimProofs --------------------------
(***************************************************************************)
(* Theorems about SelfClaim.tla, for any number of keys, sessions and      *)
(* retries.                                                                *)
(*                                                                         *)
(* The conversions of PEM texts are recursive, and what they compute is    *)
(* left to the run self_claim; the theorems say what the client does with  *)
(* texts that survive them.  Every hypothesis about texts is one of the    *)
(* two below.                                                              *)
(***************************************************************************)
EXTENDS SelfClaim, TLAPS

\* The CSRs of different keys differ, fit the buffer of a CSR, are what the service
\* decodes, and an empty text is none of them.
CsrsSurvive ==
  /\ \A k \in Key : /\ Len(escape_new_line(CsrPem[k])) < MAX_CSR_SIZE
                    /\ Decoded(escape_new_line(CsrPem[k])) = Trimmed(CsrPem[k])
                    /\ Decoded(<<>>) # Trimmed(CsrPem[k])
  /\ \A k, l \in Key : Trimmed(CsrPem[k]) = Trimmed(CsrPem[l]) => k = l

\* So do the certificates, and the client decodes them within the buffer.
CertsSurvive ==
  /\ \A k \in Key : LET buf == unescape_new_line(Allocated(Encoded(CertPem[k])))
                    IN  CString(buf) = CertPem[k] /\ "behind" \notin ToSet(buf)
  /\ \A k, l \in Key : CertPem[k] = CertPem[l] => k = l

-------------------------------------------------------------------------------
(* The invariant.                                                          *)

\* Claim data as claim_task hands it over, and as it stays.
Complete(d) ==
  /\ d \in ClaimData /\ d.key \in Key
  /\ d.state >= PK_GENERATED
  /\ d.csr = escape_new_line(CsrPem[d.key])

\* claim_task works while the caller waits, on data of the last key.
Generation ==
  /\ task # "none" => caller = "wait"
  /\ caller = "wait" /\ "CLAIM_TASK" \in claim_event_group => task = "none"
  /\ task = "csr" => made.key \in Key /\ made.key = self_claim_private_key
  /\ caller = "wait" /\ (task = "set" \/ "CLAIM_TASK" \in claim_event_group) /\ made # NULL =>
       Complete(made) /\ made.key = self_claim_private_key

\* Claim data, or what is left of it after it was freed: never another key's CSR.
Remains(d) == d.key \in Key /\ d.csr \in {escape_new_line(CsrPem[d.key]), <<>>}

\* The data is that of the last key, unless a new one is being generated, and
\* complete as long as it is live.
OwnData ==
  /\ pxSelfClaimData # "null" =>
       Remains(cd) /\ (caller # "wait" => cd.key = self_claim_private_key)
  /\ pxSelfClaimData = "live" => Complete(cd)
  /\ caller \in {"send", "sent", "handle"} => pxSelfClaimData # "null"

\* The session that a document belongs to is open.
InSession(doc, reply) ==
  doc.auth_id # NULL /\ reply # NULL => issued[doc.auth_id] = reply

\* What is in the buffer, and on its way, in each half of a claim.
Exchange ==
  /\ path = "initiate" =>
       /\ caller \in {"send", "sent"} => cd.payload = NoFields
       /\ caller = "sent" /\ answer # NULL => answer \in Document /\ InSession(answer, answer.challenge)
       /\ caller = "handle" => InSession(cd.payload, cd.payload.challenge)
  /\ path = "verify" /\ caller \in {"send", "sent"} /\ cd.payload.auth_id # NULL =>
       cd.payload.csr \in {escape_new_line(CsrPem[cd.key]), <<>>}
  /\ path = "verify" /\ caller \in {"send", "sent"} /\ pxSelfClaimData = "live" =>
       /\ cd.payload.csr = cd.csr
       /\ caller = "send" \/ answer = NULL =>
            /\ cd.payload.auth_id # NULL
            /\ issued[cd.payload.auth_id] = cd.payload.response

\* A certificate on its way is that of the key, which the service has granted.
Certificate(doc) ==
  doc.certificate # NULL => cd.key \in granted /\ doc.certificate = Encoded(CertPem[cd.key])

Granted ==
  /\ path = "verify" /\ caller = "sent" /\ answer # NULL => answer \in Document /\ Certificate(answer)
  /\ path = "verify" /\ caller \in {"send", "sent", "handle"} => Certificate(cd.payload)
  /\ caller = "claimed" =>
       /\ cd.key \in granted /\ cd.key = self_claim_private_key
       /\ self_claim_certificate = unescape_new_line(Allocated(Encoded(CertPem[cd.key])))

Inv == TypeOK /\ Generation /\ OwnData /\ Exchange /\ Granted

-------------------------------------------------------------------------------
(* Types.                                                                  *)

LEMMA BlankTyped == NoFields \in Document /\ Blank \in ClaimData
  BY DEF NoFields, Document, Blank, ClaimData, CSR_GENERATED

LEMMA CsrTexts == \A k \in Key : escape_new_line(CsrPem[k]) \in EscapedCsr
  BY DEF EscapedCsr

LEMMA CertTexts == \A k \in Key : Encoded(CertPem[k]) \in EscapedCert
  BY DEF EscapedCert

LEMMA States == {PK_GENERATED, INIT, INIT_DONE, CSR_GENERATED} \subseteq 0 .. CSR_GENERATED
  BY DEF PK_GENERATED, INIT, INIT_DONE, CSR_GENERATED

\* Updates of claim data.
LEMMA DataUpdates ==
  ASSUME NEW d \in ClaimData
  PROVE  /\ \A s \in 0 .. CSR_GENERATED : [d EXCEPT !.state = s] \in ClaimData
         /\ \A p \in Document : [d EXCEPT !.payload = p] \in ClaimData
         /\ \A s \in 0 .. CSR_GENERATED, p \in Document :
              [d EXCEPT !.state = s, !.payload = p] \in ClaimData
         /\ \A k \in Key, s \in 0 .. CSR_GENERATED : [d EXCEPT !.key = k, !.state = s] \in ClaimData
         /\ \A s \in 0 .. CSR_GENERATED, t \in EscapedCsr :
              [d EXCEPT !.state = s, !.csr = t] \in ClaimData
         /\ [d EXCEPT !.csr = <<>>] \in ClaimData
  BY DEF ClaimData

\* The null that a failed read writes does not change the CSR.
LEMMA CsrKept ==
  ASSUME CsrsSurvive, Inv, ReadFails
  PROVE  cd' = cd
<1>1. Remains(cd) /\ cd \in ClaimData
  BY DEF ReadFails, Caller, Inv, OwnData, TypeOK
<1>2. Len(cd.csr) < MAX_CSR_SIZE
  BY <1>1, SizeAssumption DEF Remains, CsrsSurvive
<1>3. cd' = [cd EXCEPT !.csr = @]
  BY <1>2 DEF ReadFails
<1>. QED
  BY <1>1, <1>3 DEF ClaimData

LEMMA TypeStep ==
  ASSUME CsrsSurvive, Inv, [Next]_vars
  PROVE  TypeOK'
<1> USE BlankTyped, CsrTexts, CertTexts
<1>1. CASE CallInit BY <1>1 DEF CallInit, Caller, Inv, TypeOK, service
<1>2. CASE CallInitFails BY <1>2 DEF CallInitFails, Inv, TypeOK, service
<1>3. CASE TaskAlloc BY <1>3 DEF TaskAlloc, Task, Inv, TypeOK, service
<1>4. CASE TaskNoMemory BY <1>4 DEF TaskNoMemory, Reset, Started, Inv, TypeOK, service
<1>5. CASE GenerateKey
  <2>1. PICK k \in Key : made' = [made EXCEPT !.key = k, !.state = PK_GENERATED]
    BY <1>5 DEF GenerateKey
  <2>2. made \in ClaimData
    BY <1>5 DEF GenerateKey, Task, Inv, TypeOK
  <2>3. made' \in ClaimData
    BY <2>1, <2>2, DataUpdates, States
  <2>. QED
    BY <1>5, <2>3 DEF GenerateKey, Task, Inv, TypeOK, service
<1>6. CASE GenerateCsr
  <2>1. made \in ClaimData /\ made.key \in Key
    BY <1>6 DEF GenerateCsr, Task, Inv, TypeOK, Generation
  <2>2. made' \in ClaimData
    BY <1>6, <2>1, DataUpdates, States DEF GenerateCsr
  <2>. QED
    BY <1>6, <2>2 DEF GenerateCsr, Task, Inv, TypeOK, service
<1>7. CASE GenerateFails BY <1>7 DEF GenerateFails, Task, Inv, TypeOK, service
<1>8. CASE SetBits BY <1>8 DEF SetBits, Task, Inv, TypeOK, service
<1>9. CASE InitReturns
  <2>1. pxSelfClaimData' \in {"null", "live"} /\ cd' \in ClaimData
    BY <1>9 DEF InitReturns, Inv, TypeOK
  <2>2. task = "none"
    BY <1>9 DEF InitReturns, Caller, Inv, Generation
  <2>. QED
    BY <1>9, <2>1, <2>2 DEF InitReturns, Caller, Inv, TypeOK, service
<1>10. CASE PerformInit BY <1>10, DataUpdates DEF PerformInit, Perform, Caller, Inv, TypeOK
<1>11. CASE Send BY <1>11 DEF Send, Perform, Caller, Inv, TypeOK
<1>12. CASE SendFails BY <1>12 DEF SendFails, Fail, Perform, Caller, Inv, TypeOK
<1>13. CASE Refused BY <1>13, DataUpdates DEF Refused, Fail, Perform, Caller, Inv, TypeOK
<1>14. CASE Receive
  <2>1. PICK missing \in SUBSET {"auth_id", "challenge", "certificate"} :
          Received([f \in DOMAIN NoFields |-> IF f \in missing THEN NULL ELSE answer[f]])
    BY <1>14 DEF Receive
  <2>2. answer \in Document
    BY <2>1 DEF Received, Inv, TypeOK
  <2>3. [f \in DOMAIN NoFields |-> IF f \in missing THEN NULL ELSE answer[f]] \in Document
    BY <2>2 DEF Document, NoFields
  <2>4. cd' \in ClaimData
    BY <2>1, <2>3, DataUpdates DEF Received, Inv, TypeOK
  <2>. QED
    BY <2>1, <2>4 DEF Received, Perform, Caller, Inv, TypeOK
<1>15. CASE ReadFails
  <2>1. cd' = cd
    BY <1>15, CsrKept
  <2>. QED
    BY <1>15, <2>1 DEF ReadFails, Perform, Caller, Inv, TypeOK
<1>16. CASE HandleFails
  <2>1. cd' \in ClaimData
    BY <1>16, DataUpdates, States DEF HandleFails, Inv, TypeOK, ClaimData
  <2>. QED
    BY <1>16, <2>1 DEF HandleFails, Fail, Perform, Caller, Inv, TypeOK
<1>17. CASE handle_self_claim_init_response
  <2>1. cd \in ClaimData
    BY <1>17 DEF Inv, TypeOK
  <2>2. [NoFields EXCEPT !.auth_id = cd.payload.auth_id, !.response = cd.payload.challenge,
                         !.csr = cd.csr] \in Document
    BY <2>1 DEF ClaimData, Document, NoFields
  <2>3. cd' \in ClaimData
    BY <1>17, <2>1, <2>2, DataUpdates, States
    DEF handle_self_claim_init_response, InitHandled
  <2>. QED
    BY <1>17, <2>3 DEF handle_self_claim_init_response, InitHandled, Perform, Caller, Inv, TypeOK
<1>18. CASE handle_claim_verify_response
  <2>1. cd.payload.certificate \in EscapedCert
    BY <1>18 DEF handle_claim_verify_response, VerifyHandled, Inv, TypeOK, ClaimData, Document
  <2>. QED
    BY <1>18, <2>1
    DEF handle_claim_verify_response, VerifyHandled, Perform, Caller, Inv, TypeOK
<1>19. CASE Taken BY <1>19 DEF Taken, Perform, Caller, Inv, TypeOK
<1>20. CASE ServeInit
  <2>1. PICK a \in AuthId, c \in Challenge :
          /\ issued' = [issued EXCEPT ![a] = c]
          /\ answer' = [NoFields EXCEPT !.auth_id = a, !.challenge = c]
    BY <1>20 DEF ServeInit
  <2>2. answer' \in Document
    BY <2>1 DEF NoFields, Document
  <2>. QED
    BY <1>20, <2>1, <2>2 DEF ServeInit, client, Inv, TypeOK
<1>21. CASE ServeVerify
  <2>1. PICK k \in Key : /\ granted' = granted \cup {k}
                         /\ answer' = [NoFields EXCEPT !.certificate = Encoded(CertPem[k])]
    BY <1>21 DEF ServeVerify
  <2>2. answer' \in Document
    BY <2>1 DEF NoFields, Document
  <2>. QED
    BY <1>21, <2>1, <2>2 DEF ServeVerify, client, Inv, TypeOK
<1>22. CASE Reset BY <1>22 DEF Reset, Started, Inv, TypeOK
<1>23. CASE Overwritten
  <2>1. cd' \in ClaimData
    <3>1. cd \in ClaimData /\ NoFields \in Document
      BY DEF Inv, TypeOK
    <3>2. [cd EXCEPT !.csr = <<>>] \in ClaimData /\ [cd EXCEPT !.payload = NoFields] \in ClaimData
      BY <3>1, DataUpdates
    <3>. QED
      BY <1>23, <3>2, Zenon DEF Overwritten
  <2>. QED
    BY <1>23, <2>1 DEF Overwritten, Inv, TypeOK, service
<1>24. CASE UNCHANGED vars BY <1>24 DEF vars, client, service, Inv, TypeOK
<1>. QED
  BY <1>1, <1>2, <1>3, <1>4, <1>5, <1>6, <1>7, <1>8, <1>9, <1>10, <1>11, <1>12, <1>13, <1>14,
     <1>15, <1>16, <1>17, <1>18, <1>19, <1>20, <1>21, <1>22, <1>23, <1>24 DEF Next, ClaimTask, Claim

-------------------------------------------------------------------------------
(* The other parts of the invariant.                                       *)

LEMMA GenerationStep ==
  ASSUME CsrsSurvive, Inv, [Next]_vars
  PROVE  Generation'
<1> USE DEF Inv, Generation
<1>1. CASE CallInit BY <1>1 DEF CallInit, Caller
<1>2. CASE CallInitFails BY <1>2 DEF CallInitFails
<1>3. CASE TaskAlloc BY <1>3 DEF TaskAlloc, Task
<1>4. CASE GenerateKey
  <2>1. PICK k \in Key : made' = [made EXCEPT !.key = k, !.state = PK_GENERATED]
                         /\ self_claim_private_key' = k
    BY <1>4 DEF GenerateKey
  <2>2. made'.key = k
    BY <1>4, <2>1 DEF GenerateKey, Task, TypeOK, ClaimData
  <2>. QED
    BY <1>4, <2>1, <2>2 DEF GenerateKey, Task
<1>5. CASE GenerateCsr
  <2>1. Complete(made') /\ made'.key = self_claim_private_key'
    <3>1. made \in ClaimData /\ made.key \in Key /\ made.key = self_claim_private_key
      BY <1>5 DEF GenerateCsr, Task, TypeOK
    <3>2. made' \in ClaimData
      BY <1>5, <3>1, DataUpdates, States, CsrTexts DEF GenerateCsr
    <3>3. /\ made'.key = made.key /\ made'.state = CSR_GENERATED
          /\ made'.csr = escape_new_line(CsrPem[made.key])
      BY <1>5, <3>1 DEF GenerateCsr, ClaimData
    <3>. QED
      BY <1>5, <3>1, <3>2, <3>3 DEF GenerateCsr, Complete, CSR_GENERATED, PK_GENERATED
  <2>. QED
    BY <1>5, <2>1 DEF GenerateCsr, Task, Complete
<1>6. CASE GenerateFails BY <1>6 DEF GenerateFails, Task
<1>7. CASE SetBits BY <1>7 DEF SetBits, Task, Complete
<1>8. CASE InitReturns BY <1>8 DEF InitReturns, Caller
<1>9. CASE Claim \/ PerformInit
  <2>1. caller # "wait" /\ caller' # "wait" /\ task' = task
    BY <1>9 DEF Claim, Send, SendFails, Refused, Receive, Received, ReadFails, HandleFails,
                handle_self_claim_init_response, InitHandled, handle_claim_verify_response,
                VerifyHandled, Taken, PerformInit, Fail, Perform, Caller
  <2>. QED
    BY <2>1
<1>10. CASE ServeInit \/ ServeVerify
  BY <1>10 DEF ServeInit, ServeVerify, client, Complete
<1>11. CASE Overwritten BY <1>11 DEF Overwritten, Complete
<1>12. CASE Reset \/ TaskNoMemory BY <1>12 DEF TaskNoMemory, Reset, Started
<1>13. CASE UNCHANGED vars BY <1>13 DEF vars, client, Complete
<1>. QED
  BY <1>1, <1>2, <1>3, <1>4, <1>5, <1>6, <1>7, <1>8, <1>9, <1>10, <1>11, <1>12, <1>13
  DEF Next, ClaimTask

LEMMA OwnStep ==
  ASSUME CsrsSurvive, Inv, [Next]_vars
  PROVE  OwnData'
<1> USE DEF Inv, OwnData
<1>1. CASE CallInit BY <1>1 DEF CallInit, Caller, Complete, Remains
<1>2. CASE CallInitFails BY <1>2 DEF CallInitFails
<1>3. CASE ClaimTask /\ ~TaskNoMemory
  BY <1>3 DEF ClaimTask, TaskAlloc, GenerateKey, GenerateCsr, GenerateFails, SetBits, Task,
              Generation, Complete, Remains
<1>4. CASE InitReturns
  <2>1. made # NULL => Complete(made) /\ made.key = self_claim_private_key
    BY <1>4 DEF InitReturns, Caller, Generation
  <2>. QED
    BY <1>4, <2>1 DEF InitReturns, Caller, Complete, Remains
<1>5. CASE \/ PerformInit \/ Send \/ SendFails \/ Refused \/ Receive \/ HandleFails
           \/ handle_self_claim_init_response
  <2>1. cd \in ClaimData /\ cd' \in ClaimData /\ pxSelfClaimData # "null"
    BY <1>5, TypeStep DEF TypeOK, PerformInit, Send, SendFails, Refused, Receive, Received,
                          HandleFails, handle_self_claim_init_response, InitHandled, Caller
  <2>2. cd'.key = cd.key /\ cd'.csr = cd.csr
    BY <1>5, <2>1 DEF PerformInit, Send, SendFails, Refused, Receive, Received, HandleFails,
                      handle_self_claim_init_response, InitHandled, ClaimData
  <2>3. cd.state >= PK_GENERATED => cd'.state >= PK_GENERATED
    <3>1. CASE PerformInit \/ Send \/ SendFails \/ Refused \/ Receive
      BY <2>1, <3>1 DEF PerformInit, Send, SendFails, Refused, Receive, Received, ClaimData
    <3>2. CASE HandleFails
      BY <2>1, <3>2 DEF HandleFails, ClaimData, PK_GENERATED, INIT
    <3>3. CASE handle_self_claim_init_response
      BY <2>1, <3>3
      DEF handle_self_claim_init_response, InitHandled, ClaimData, PK_GENERATED, INIT_DONE
    <3>. QED
      BY <1>5, <3>1, <3>2, <3>3
  <2>4. pxSelfClaimData' \in {pxSelfClaimData, "freed"} /\ caller # "wait"
    BY <1>5 DEF PerformInit, Send, SendFails, Refused, Receive, Received, HandleFails, Fail,
                handle_self_claim_init_response, InitHandled, Caller
  <2>5. UNCHANGED self_claim_private_key
    BY <1>5 DEF PerformInit, Send, SendFails, Refused, Receive, Received, HandleFails, Fail,
                handle_self_claim_init_response, InitHandled, Perform
  <2>6. Remains(cd') /\ cd'.key = self_claim_private_key'
    BY <2>1, <2>2, <2>4, <2>5 DEF Remains
  <2>7. pxSelfClaimData' = "live" => Complete(cd')
    BY <2>1, <2>2, <2>3, <2>4 DEF Complete
  <2>. QED
    BY <2>1, <2>4, <2>6, <2>7
<1>6. CASE ReadFails BY <1>6, CsrKept DEF ReadFails, Perform, Caller
<1>7. CASE handle_claim_verify_response
  BY <1>7 DEF handle_claim_verify_response, VerifyHandled, Perform, Caller
<1>8. CASE Taken BY <1>8 DEF Taken, Perform, Caller, Complete, Remains
<1>9. CASE Overwritten
  <2>1. cd'.key = cd.key /\ cd'.csr \in {cd.csr, <<>>}
    BY <1>9 DEF Overwritten, TypeOK, ClaimData
  <2>. QED
    BY <1>9, <2>1 DEF Overwritten, Remains
<1>10. CASE ServeInit \/ ServeVerify
  BY <1>10 DEF ServeInit, ServeVerify, client, Complete, Remains
<1>11. CASE Reset \/ TaskNoMemory BY <1>11 DEF TaskNoMemory, Reset, Started
<1>12. CASE UNCHANGED vars BY <1>12 DEF vars, client, Complete, Remains
<1>. QED
  BY <1>1, <1>2, <1>3, <1>4, <1>5, <1>6, <1>7, <1>8, <1>9, <1>10, <1>11, <1>12 DEF Next, Claim

\* A document among the fields of which some are missing.
LEMMA PartOf ==
  ASSUME NEW missing \in SUBSET {"auth_id", "challenge", "certificate"}, NEW doc \in Document
  PROVE  LET part == [f \in DOMAIN NoFields |-> IF f \in missing THEN NULL ELSE doc[f]]
         IN  /\ part \in Document
             /\ part.auth_id \in {NULL, doc.auth_id}
             /\ part.challenge \in {NULL, doc.challenge}
             /\ part.certificate \in {NULL, doc.certificate}
  BY DEF Document, NoFields

\* The actions that leave the caller within an exchange.
LEMMA Within ==
  ASSUME CsrsSurvive, Inv, [Next]_vars, caller' \in {"send", "sent", "handle"}
  PROVE  \/ PerformInit \/ Send \/ Receive \/ ReadFails \/ handle_self_claim_init_response
         \/ ServeInit \/ ServeVerify \/ Overwritten
         \/ UNCHANGED vars
  BY DEF Next, Claim, ClaimTask, Inv, Generation, CallInit, CallInitFails, TaskAlloc, TaskNoMemory,
         Reset, Started, GenerateKey, GenerateCsr, GenerateFails, SetBits, Task, InitReturns,
         SendFails, Refused, HandleFails, handle_claim_verify_response, VerifyHandled, Taken, Caller

LEMMA ExchangeStep ==
  ASSUME CsrsSurvive, Inv, [Next]_vars
  PROVE  Exchange'
<1> USE DEF Inv, Exchange
<1>1. CASE caller' \notin {"send", "sent", "handle"} BY <1>1
<1>2. CASE PerformInit
  <2>1. cd'.payload = NoFields
    BY <1>2 DEF PerformInit, TypeOK, ClaimData
  <2>. QED
    BY <1>2, <2>1 DEF PerformInit, Caller
<1>3. CASE Send BY <1>3 DEF Send, Perform, Caller
<1>4. CASE Receive
  <2>1. PICK missing \in SUBSET {"auth_id", "challenge", "certificate"} :
          Received([f \in DOMAIN NoFields |-> IF f \in missing THEN NULL ELSE answer[f]])
    BY <1>4 DEF Receive
  <2>2. /\ cd'.payload.auth_id \in {NULL, answer.auth_id}
        /\ cd'.payload.challenge \in {NULL, answer.challenge}
    BY <2>1, PartOf DEF Received, TypeOK, ClaimData
  <2>. QED
    BY <2>1, <2>2 DEF Received, Perform, Caller, InSession
<1>5. CASE ReadFails
  BY <1>5, CsrKept DEF ReadFails, Perform, Caller, InSession, NoFields
<1>6. CASE handle_self_claim_init_response
  <2>1. /\ cd'.csr = cd.csr /\ cd'.payload.csr = cd.csr
        /\ cd'.payload.auth_id = cd.payload.auth_id /\ cd'.payload.response = cd.payload.challenge
    BY <1>6 DEF handle_self_claim_init_response, InitHandled, TypeOK, ClaimData, NoFields
  <2>2. cd'.key = cd.key /\ cd.csr \in {escape_new_line(CsrPem[cd.key]), <<>>}
    BY <1>6 DEF handle_self_claim_init_response, InitHandled, Caller, TypeOK, ClaimData, OwnData,
                Remains
  <2>. QED
    BY <1>6, <2>1, <2>2
    DEF handle_self_claim_init_response, InitHandled, Perform, Caller, InSession
<1>7. CASE ServeInit
  <2>1. PICK a \in AuthId, c \in Challenge :
          /\ issued' = [issued EXCEPT ![a] = c]
          /\ answer' = [NoFields EXCEPT !.auth_id = a, !.challenge = c]
    BY <1>7 DEF ServeInit
  <2>2. answer' \in Document /\ answer'.auth_id = a /\ answer'.challenge = c
    BY <2>1 DEF NoFields, Document
  <2>3. issued'[a] = c
    BY <2>1 DEF TypeOK
  <2>. QED
    BY <1>7, <2>2, <2>3 DEF ServeInit, client, InSession
<1>8. CASE ServeVerify
  <2>1. PICK k \in Key : answer' = [NoFields EXCEPT !.certificate = Encoded(CertPem[k])]
    BY <1>8 DEF ServeVerify
  <2>2. answer' \in Document
    BY <2>1, CertTexts DEF NoFields, Document
  <2>3. answer' # NULL
    BY <2>2, DocumentAssumption
  <2>. QED
    BY <1>8, <2>3 DEF ServeVerify, client
<1>9. CASE Overwritten
  <2>1. cd'.payload \in {cd.payload, NoFields} /\ cd'.key = cd.key
    BY <1>9 DEF Overwritten, TypeOK, ClaimData
  <2>. QED
    BY <1>9, <2>1 DEF Overwritten, service, InSession, NoFields
<1>10. CASE UNCHANGED vars BY <1>10 DEF vars, client, service, InSession
<1>. QED
  BY <1>1, <1>2, <1>3, <1>4, <1>5, <1>6, <1>7, <1>8, <1>9, <1>10, Within

LEMMA GrantedStep ==
  ASSUME CsrsSurvive, Inv, [Next]_vars
  PROVE  Granted'
<1> USE DEF Inv, Granted
<1>1. CASE handle_claim_verify_response
  <2>1. Certificate(cd.payload) /\ cd.key = self_claim_private_key
    BY <1>1 DEF handle_claim_verify_response, VerifyHandled, Caller, OwnData
  <2>. QED
    BY <1>1, <2>1 DEF handle_claim_verify_response, VerifyHandled, Perform, Caller, Certificate
<1>2. CASE /\ caller' \notin {"send", "sent", "handle"}
           /\ ~handle_claim_verify_response /\ ~Overwritten
  <2>1. CASE caller' # "claimed" BY <1>2, <2>1
  <2>2. CASE caller' = "claimed"
    <3>1. UNCHANGED vars
      BY <1>2, <2>2 DEF Next, Claim, ClaimTask, Generation, CallInit, CallInitFails, TaskAlloc,
         TaskNoMemory, Reset, Started, GenerateKey, GenerateCsr, GenerateFails, SetBits, Task,
         InitReturns, PerformInit, Send, SendFails, Refused, Receive, Received, ReadFails,
         HandleFails, handle_self_claim_init_response, InitHandled, Taken, Caller,
         ServeInit, ServeVerify, client
    <3>. QED
      BY <2>2, <3>1 DEF vars, client, service
  <2>. QED
    BY <2>1, <2>2
<1>3. CASE PerformInit BY <1>3 DEF PerformInit, Caller
<1>4. CASE Send BY <1>4 DEF Send, Perform, Caller, Certificate
<1>5. CASE Receive
  <2>1. PICK missing \in SUBSET {"auth_id", "challenge", "certificate"} :
          Received([f \in DOMAIN NoFields |-> IF f \in missing THEN NULL ELSE answer[f]])
    BY <1>5 DEF Receive
  <2>2. cd'.payload.certificate \in {NULL, answer.certificate} /\ cd'.key = cd.key
    BY <2>1, PartOf DEF Received, TypeOK, ClaimData
  <2>. QED
    BY <2>1, <2>2 DEF Received, Perform, Caller, Certificate
<1>6. CASE ReadFails
  BY <1>6, CsrKept DEF ReadFails, Perform, Caller, Certificate
<1>7. CASE handle_self_claim_init_response
  <2>1. cd'.payload.certificate = NULL
    BY <1>7 DEF handle_self_claim_init_response, InitHandled, TypeOK, ClaimData, NoFields
  <2>. QED
    BY <1>7, <2>1 DEF handle_self_claim_init_response, InitHandled, Perform, Caller, Certificate
<1>8. CASE ServeInit BY <1>8 DEF ServeInit, client
<1>9. CASE ServeVerify
  <2>1. PICK k \in Key : /\ Decoded(cd.payload.csr) = Trimmed(CsrPem[k])
                         /\ granted' = granted \cup {k}
                         /\ answer' = [NoFields EXCEPT !.certificate = Encoded(CertPem[k])]
    BY <1>9 DEF ServeVerify
  <2>2. cd.payload.csr \in {escape_new_line(CsrPem[cd.key]), <<>>} /\ cd.key \in Key
    BY <1>9 DEF ServeVerify, Exchange, OwnData, Remains
  <2>3. k = cd.key
    BY <2>1, <2>2 DEF CsrsSurvive
  <2>4. answer' \in Document /\ answer'.certificate = Encoded(CertPem[k])
    BY <2>1, CertTexts DEF NoFields, Document
  <2>. QED
    BY <1>9, <2>1, <2>3, <2>4 DEF ServeVerify, client, Certificate
<1>10. CASE Overwritten
  <2>1. cd'.payload.certificate \in {cd.payload.certificate, NULL} /\ cd'.key = cd.key
    BY <1>10 DEF Overwritten, TypeOK, ClaimData, NoFields
  <2>. QED
    BY <1>10, <2>1 DEF Overwritten, service, Certificate
<1>11. CASE UNCHANGED vars BY <1>11 DEF vars, client, service, Certificate
<1>. QED
  BY <1>1, <1>2, <1>3, <1>4, <1>5, <1>6, <1>7, <1>8, <1>9, <1>10, <1>11, Within

-------------------------------------------------------------------------------
(* Theorems.                                                               *)

LEMMA InitInv == Init => Inv
  BY BlankTyped DEF Init, Started, Inv, TypeOK, Generation, OwnData, Exchange, Granted, CSR_GENERATED

\* The invariant holds of the client on CSRs that survive.
THEOREM Invariant ==
  ASSUME CsrsSurvive
  PROVE  Spec => []Inv
<1>1. Inv /\ [Next]_vars => Inv'
  BY TypeStep, GenerationStep, OwnStep, ExchangeStep, GrantedStep DEF Inv
<1>. QED
  BY InitInv, <1>1, PTL DEF Spec

\* Every variable keeps its type, and claim_task its data.
THEOREM TypeCorrect ==
  ASSUME CsrsSurvive
  PROVE  Spec => []TypeOK
<1>1. Inv => TypeOK
  BY DEF Inv
<1>. QED
  BY Invariant, <1>1, PTL

\* Every request to verify from live data is acceptable, after any lost answers,
\* first requests that failed, and resets.
THEOREM Acceptable ==
  ASSUME CsrsSurvive
  PROVE  Spec => []AcceptableRequest
<1>1. Inv => AcceptableRequest
  BY DEF Inv, OwnData, Complete, Exchange, AcceptableRequest, CsrsSurvive
<1>. QED
  BY Invariant, <1>1, PTL

\* A certificate that is returned belongs to the key that was generated last.
THEOREM CertificateMatches ==
  ASSUME CsrsSurvive, CertsSurvive
  PROVE  Spec => []CertificateForKey
<1>1. Inv => CertificateForKey
  BY DEF Inv, TypeOK, Granted, CertificateForKey, CertsSurvive
<1>. QED
  BY Invariant, <1>1, PTL

\* The certified key, as the refinement reads it from the state.
LEMMA Certified ==
  ASSUME CertsSurvive, Inv
  PROVE  CertifiedKey = IF caller = "claimed" THEN cd.key ELSE NULL
<1>1. CASE caller # "claimed"
  BY <1>1 DEF CertifiedKey
<1>2. CASE caller = "claimed"
  <2>1. CString(self_claim_certificate) = CertPem[cd.key] /\ cd.key \in Key
    BY <1>2 DEF Inv, TypeOK, Granted, CertsSurvive
  <2>2. {k \in Key : CertPem[k] = CString(self_claim_certificate)} = {cd.key}
    BY <2>1 DEF CertsSurvive
  <2>. QED
    BY <1>2, <2>1, <2>2 DEF CertifiedKey
<1>. QED
  BY <1>1, <1>2

LEMMA RefinedInit == Init => C!Init
  BY DEF Init, Started, Blank, C!Init, CertifiedKey

Result == CertifiedKey = IF caller = "claimed" THEN cd.key ELSE NULL

LEMMA RefinedStep ==
  ASSUME CsrsSurvive, Inv, [Next]_vars, Result, Result'
  PROVE  [C!Next \/ ClaimFromFreed]_(C!vars)
<1> USE DEF Inv, Result
<1>1. CASE InitReturns
  <2>1. made # NULL => made.key \in Key
    BY <1>1 DEF InitReturns, Caller, Generation, Complete
  <2>2. CASE made # NULL
    <3>1. C!Generated(made.key)
      BY <1>1, <2>2 DEF InitReturns, Caller, C!Generated
    <3>. QED
      BY <2>1, <2>2, <3>1 DEF C!Next
  <2>3. CASE made = NULL
    BY <1>1, <2>3 DEF InitReturns, Caller, Blank, C!GenerateFails, C!Next
  <2>. QED
    BY <2>2, <2>3
<1>2. CASE CallInitFails
  BY <1>2 DEF CallInitFails, Blank, C!GenerateFails, C!Next
<1>3. CASE Reset \/ TaskNoMemory
  BY <1>3 DEF TaskNoMemory, Reset, Started, Blank, C!Reset, C!Next
<1>4. CASE handle_claim_verify_response
  <2>1. pxSelfClaimData \in {"live", "freed"}
    BY <1>4 DEF handle_claim_verify_response, VerifyHandled, Caller, OwnData, TypeOK
  <2>. QED
    BY <1>4, <2>1 DEF handle_claim_verify_response, VerifyHandled, Perform, Caller, C!Claimed, C!Next,
                      ClaimFromFreed
<1>5. CASE Taken
  <2>1. cd.key \in Key /\ cd.key # NULL
    BY <1>5, NullAssumption DEF Taken, Caller, Granted, TypeOK
  <2>. QED
    BY <1>5, <2>1 DEF Taken, Perform, Caller, C!Taken, C!Next
<1>6. CASE SendFails \/ Refused \/ HandleFails
  <2>1. pxSelfClaimData \in {"live", "freed"} /\ caller # "claimed" /\ caller' # "claimed"
    BY <1>6 DEF SendFails, Refused, HandleFails, Caller, OwnData, TypeOK
  <2>2. cd'.key = cd.key
    BY <1>6 DEF SendFails, Refused, HandleFails, TypeOK, ClaimData
  <2>3. CASE path = "verify"
    BY <1>6, <2>1, <2>2, <2>3 DEF SendFails, Refused, HandleFails, Fail, C!VerifyFails, C!Next, C!vars
  <2>4. CASE path # "verify"
    BY <1>6, <2>1, <2>2, <2>4 DEF SendFails, Refused, HandleFails, Fail, C!vars
  <2>. QED
    BY <2>3, <2>4
<1>7. CASE PerformInit \/ Send \/ Receive \/ ReadFails \/ handle_self_claim_init_response
  <2>1. caller # "claimed" /\ caller' # "claimed" /\ UNCHANGED pxSelfClaimData
    BY <1>7 DEF PerformInit, Send, Receive, Received, ReadFails, handle_self_claim_init_response,
                InitHandled, Caller
  <2>2. cd'.key = cd.key
    BY <1>7, CsrKept DEF PerformInit, Send, Receive, Received, handle_self_claim_init_response,
                         InitHandled, TypeOK, ClaimData
  <2>. QED
    BY <2>1, <2>2 DEF C!vars
<1>8. CASE Overwritten
  BY <1>8 DEF Overwritten, TypeOK, ClaimData, C!vars
<1>9. CASE CallInit \/ (ClaimTask /\ ~TaskNoMemory) \/ ServeInit \/ ServeVerify \/ UNCHANGED vars
  <2>1. UNCHANGED <<pxSelfClaimData, cd>>
    BY <1>9 DEF CallInit, ClaimTask, TaskAlloc, GenerateKey, GenerateCsr, GenerateFails, SetBits,
                Task, ServeInit, ServeVerify, client, vars
  <2>2. caller = "claimed" <=> caller' = "claimed"
    BY <1>9 DEF CallInit, Caller, ClaimTask, TaskAlloc, GenerateKey, GenerateCsr, GenerateFails,
                SetBits, Task, ServeInit, ServeVerify, client, vars
  <2>. QED
    BY <2>1, <2>2 DEF C!vars
<1>. QED
  BY <1>1, <1>2, <1>3, <1>4, <1>5, <1>6, <1>7, <1>8, <1>9 DEF Next, Claim, ClaimTask

\* The client implements Claiming, but for claims from freed data: a first exchange
\* that fails leaves the data as it is, a second one uses it up, and what it returns
\* is for the key in it.
THEOREM ClaimingRefinement ==
  ASSUME CsrsSurvive, CertsSurvive
  PROVE  Spec => ImplementsClaiming
<1>1. Inv => Result
  BY Certified DEF Result
<1>2. Inv /\ [Next]_vars /\ Result /\ Result' => [C!Next \/ ClaimFromFreed]_(C!vars)
  BY RefinedStep
<1>. QED
  BY Invariant, RefinedInit, <1>1, <1>2, PTL DEF Spec, ImplementsClaiming
===============================================================================

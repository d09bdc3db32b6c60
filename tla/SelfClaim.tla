------------------------------ MODULE SelfClaim ------------------------------
(***************************************************************************)
(* The self-claiming client,                                               *)
(* components/esp_rainmaker_self_claim/esp_rmaker_claim.c: the task that   *)
(* generates a key and a CSR and hands them to the caller that waits for   *)
(* it, and the two HTTP requests of a claim, which share one buffer for    *)
(* what is sent and what is received.                                      *)
(*                                                                         *)
(* The service, the network and the caller (main.c) are external.  Answers *)
(* can be lost, cut off, or be about something else; a claim that fails is *)
(* tried again; the device can be reset.                                   *)
(***************************************************************************)
EXTENDS Integers, SequencesExt

CONSTANTS
  Key, AuthId, Challenge, NULL,
  CsrPem,        \* the CSR and the certificate of each key, as PEM texts
  CertPem,
  MAX_CSR_SIZE

TextChar == {"x", "y", "n", "bslash", "nl"}

ASSUME NullAssumption == NULL \notin Key \cup AuthId \cup Challenge \cup Seq(TextChar)
ASSUME PemAssumption == CsrPem \in [Key -> Seq(TextChar)] /\ CertPem \in [Key -> Seq(TextChar)]
ASSUME SizeAssumption == MAX_CSR_SIZE \in Nat \ {0}

VARIABLES
  pxSelfClaimData,         \* what the caller's pointer points at
  cd,                      \* its claim data, also after it was freed
  made,                    \* the claim data that claim_task has made
  task,                    \* where claim_task is
  claim_event_group,       \* its bits, or NULL if it does not exist
  caller,                  \* where the caller is in a call of the client
  path,                    \* the request that is under way
  self_claim_private_key,
  self_claim_certificate,  \* what the buffer of the certificate holds
  issued,                  \* the service's open sessions: the challenge of each
  answer,                  \* the service's answer to the request under way
  granted                  \* keys that the service has issued a certificate for

client == <<pxSelfClaimData, cd, made, task, claim_event_group, caller, path,
            self_claim_private_key, self_claim_certificate>>
service == <<issued, answer, granted>>
vars == <<client, service>>

-------------------------------------------------------------------------------
(* Texts in a JSON string, where a newline is a backslash and an n.        *)

Encoded(text) ==
  FlattenSeq([i \in DOMAIN text |-> IF text[i] = "nl" THEN <<"bslash", "n">> ELSE <<text[i]>>])

Trimmed(text) == IF text # <<>> /\ Last(text) = "nl" THEN Front(text) ELSE text

escape_new_line(text) == Encoded(Trimmed(text))

\* The service decodes from left to right.
Decoded(text) ==
  LET from[i \in Nat] ==
        IF i > Len(text) THEN <<>>
        ELSE IF text[i] = "bslash" /\ i < Len(text)
        THEN <<IF text[i + 1] = "n" THEN "nl" ELSE text[i + 1]>> \o from[i + 2]
        ELSE <<text[i]>> \o from[i + 1]
  IN  from[1]

\* The character after an escape is copied whatever it is, also if that is the
\* terminating null, and the loop goes on behind it.
unescape_new_line(buf) ==
  LET at(i) == IF i <= Len(buf) THEN buf[i] ELSE "behind"
      from[i \in Nat] ==
        CASE at(i) \in {"nul", "behind"} -> <<at(i)>>
          [] at(i) = "bslash" -> IF at(i + 1) = "n" THEN <<"nl", at(i + 2)>> \o from[i + 3]
                                 ELSE <<at(i + 1)>> \o from[i + 2]
          [] OTHER -> <<at(i)>> \o from[i + 1]
  IN  from[1]

\* The string in a buffer.
CString(buf) == SubSeq(buf, 1, SelectInSeq(buf, LAMBDA ch : ch = "nul") - 1)

\* Mutant: there is room for one null.
Allocated_OneNull(text) == text \o <<"nul">>

\* handle_claim_verify_response gets one byte more than the string needs.
Allocated(text) == text \o <<"nul", "nul">>

-------------------------------------------------------------------------------
(* Claim data.  A document in payload is the fields that it has.           *)

PK_GENERATED == 1
INIT == 2
INIT_DONE == 3
CSR_GENERATED == 4

NoFields == [auth_id |-> NULL, challenge |-> NULL, response |-> NULL, csr |-> NULL,
             certificate |-> NULL]

Blank == [key |-> NULL, state |-> 0, csr |-> <<>>, payload |-> NoFields]

EscapedCsr == {escape_new_line(CsrPem[k]) : k \in Key}
EscapedCert == {Encoded(CertPem[k]) : k \in Key}

Document == [auth_id : AuthId \cup {NULL}, challenge : Challenge \cup {NULL},
             response : Challenge \cup {NULL}, csr : EscapedCsr \cup {<<>>, NULL},
             certificate : EscapedCert \cup {NULL}]

ASSUME DocumentAssumption == NULL \notin Document

ClaimData == [key : Key \cup {NULL}, state : 0 .. CSR_GENERATED, csr : EscapedCsr \cup {<<>>},
              payload : Document]

\* The task has claim data while it works on it.
TypeOK ==
  /\ pxSelfClaimData \in {"null", "live", "freed"}
  /\ cd \in ClaimData
  /\ made \in ClaimData \cup {NULL}
  /\ task \in {"key", "csr"} => made \in ClaimData
  /\ task \in {"none", "alloc", "key", "csr", "set"}
  /\ claim_event_group \in {NULL, {}, {"CLAIM_TASK"}}
  /\ caller \in {"idle", "wait", "send", "sent", "handle", "claimed"}
  /\ path \in {"initiate", "verify"}
  /\ self_claim_private_key \in Key \cup {NULL}
  /\ self_claim_certificate \in {<<>>} \cup {unescape_new_line(Allocated(t)) : t \in EscapedCert}
  /\ issued \in [AuthId -> Challenge \cup {NULL}]
  /\ answer \in Document \cup {NULL}
  /\ granted \subseteq Key

\* The device as it starts.
Started(px, data, new, t, group, call, p, sk, sc) ==
  /\ px = "null" /\ data = Blank /\ new = NULL
  /\ t = "none" /\ group = NULL /\ call = "idle" /\ p = "initiate"
  /\ sk = NULL /\ sc = <<>>

Init ==
  /\ Started(pxSelfClaimData, cd, made, task, claim_event_group, caller, path,
             self_claim_private_key, self_claim_certificate)
  /\ issued = [a \in AuthId |-> NULL]
  /\ answer = NULL /\ granted = {}

\* Power loss, or an abort.
Reset ==
  /\ Started(pxSelfClaimData', cd', made', task', claim_event_group', caller', path',
             self_claim_private_key', self_claim_certificate')
  /\ answer' = NULL
  /\ UNCHANGED <<issued, granted>>

-------------------------------------------------------------------------------
(* esp_rmaker_self_claim_init and claim_task.                              *)

Caller(from, to) == caller = from /\ caller' = to

CallInit ==
  /\ Caller("idle", "wait")
  /\ claim_event_group' = {}
  /\ task' = "alloc"
  /\ UNCHANGED <<pxSelfClaimData, cd, made, path, self_claim_private_key, self_claim_certificate,
                 service>>

\* No memory for the event group or for the task.
CallInitFails ==
  /\ caller = "idle"
  /\ pxSelfClaimData' = "null" /\ cd' = Blank
  /\ UNCHANGED <<made, task, claim_event_group, caller, path, self_claim_private_key,
                 self_claim_certificate, service>>

Task(from, to) ==
  /\ task = from /\ task' = to
  /\ UNCHANGED <<pxSelfClaimData, cd, caller, path, self_claim_certificate, service>>

TaskAlloc ==
  /\ Task("alloc", "key")
  /\ made' = Blank
  /\ UNCHANGED <<claim_event_group, self_claim_private_key>>

\* Mutant: a task that returns is simply gone.
TaskNoMemory_Gone ==
  /\ Task("alloc", "none")
  /\ UNCHANGED <<made, claim_event_group, self_claim_private_key>>

\* Mutant: the result of calloc is not looked at.
TaskNoMemory_Unchecked ==
  /\ Task("alloc", "key")
  /\ made' = NULL
  /\ UNCHANGED <<claim_event_group, self_claim_private_key>>

\* claim_task returns, which aborts the device.
TaskNoMemory == task = "alloc" /\ Reset

GenerateKey ==
  /\ Task("key", "csr")
  /\ \E k \in Key \ {self_claim_private_key, cd.key} :
       /\ made' = [made EXCEPT !.key = k, !.state = PK_GENERATED]
       /\ self_claim_private_key' = k
  /\ UNCHANGED claim_event_group

\* The CSR's newlines are escaped, in payload and back.
GenerateCsr ==
  /\ Task("csr", "set")
  /\ made' = [made EXCEPT !.state = CSR_GENERATED, !.csr = escape_new_line(CsrPem[made.key])]
  /\ UNCHANGED <<claim_event_group, self_claim_private_key>>

GenerateFails ==
  /\ Task("key", "set") \/ Task("csr", "set")
  /\ made' = NULL
  /\ UNCHANGED <<claim_event_group, self_claim_private_key>>

SetBits ==
  /\ Task("set", "none")
  /\ claim_event_group' = {"CLAIM_TASK"}
  /\ UNCHANGED <<made, self_claim_private_key>>

\* The pointer main.c had is overwritten.
InitReturns ==
  /\ claim_event_group = {"CLAIM_TASK"}
  /\ Caller("wait", "idle")
  /\ claim_event_group' = NULL
  /\ pxSelfClaimData' = IF made = NULL THEN "null" ELSE "live"
  /\ cd' = IF made = NULL THEN Blank ELSE made
  /\ made' = NULL
  /\ UNCHANGED <<task, path, self_claim_private_key, self_claim_certificate, service>>

-------------------------------------------------------------------------------
(* esp_rmaker_self_claim_perform.  Without data, or if there is no MAC     *)
(* address, it returns at once.  That the data is freed it cannot tell:    *)
(* main.c calls it again with the pointer that a claim has used up.        *)

Perform ==
  UNCHANGED <<made, task, claim_event_group, self_claim_private_key, issued, granted>>

PerformInit ==
  /\ pxSelfClaimData # "null" /\ cd.state >= PK_GENERATED
  /\ Caller("idle", "send")
  /\ path' = "initiate"
  /\ cd' = [cd EXCEPT !.payload = NoFields]
  /\ Perform /\ UNCHANGED <<pxSelfClaimData, self_claim_certificate, answer>>

\* The request in payload is written to a new connection.
Send ==
  /\ Caller("send", "sent")
  /\ answer' = NULL
  /\ Perform /\ UNCHANGED <<pxSelfClaimData, cd, path, self_claim_certificate>>

\* A failed exchange: only the second one uses the data up.
Fail ==
  /\ pxSelfClaimData' = IF path = "verify" THEN "freed" ELSE pxSelfClaimData
  /\ Perform /\ UNCHANGED <<path, self_claim_certificate, answer>>

SendFails == Caller("send", "idle") /\ UNCHANGED cd /\ Fail

\* No answer in time, one without a length, or with another status than 200: what
\* could be read of it is left in payload.
Refused ==
  /\ Caller("sent", "idle")
  /\ cd' = [cd EXCEPT !.payload = NoFields]
  /\ Fail

\* What is left of an answer that is cut off, or not the expected one, is taken
\* for a document without some of the fields.
Received(doc) ==
  /\ answer # NULL
  /\ Caller("sent", "handle")
  /\ cd' = [cd EXCEPT !.payload = doc]
  /\ Perform /\ UNCHANGED <<pxSelfClaimData, path, self_claim_certificate, answer>>

Receive ==
  \E missing \in SUBSET {"auth_id", "challenge", "certificate"} :
    Received([f \in DOMAIN NoFields |-> IF f \in missing THEN NULL ELSE answer[f]])

\* The read returns -1.  payload holds the request still, and the null that is
\* written to payload[-1] falls on the last byte of the CSR's buffer.
ReadFails ==
  /\ answer # NULL
  /\ Caller("sent", "handle")
  /\ cd' = [cd EXCEPT !.csr = IF Len(@) < MAX_CSR_SIZE THEN @ ELSE SubSeq(@, 1, MAX_CSR_SIZE - 1)]
  /\ Perform /\ UNCHANGED <<pxSelfClaimData, path, self_claim_certificate, answer>>

\* A field is missing or too long, the text is no document, or there is no memory.
HandleFails ==
  /\ Caller("handle", "idle")
  /\ cd' = [cd EXCEPT !.state = IF path = "initiate" THEN INIT ELSE @]
  /\ Fail

InitHandled(ok) ==
  /\ path = "initiate" /\ ok
  /\ Caller("handle", "send")
  /\ path' = "verify"
  /\ cd' = [cd EXCEPT !.state = INIT_DONE,
                      !.payload = [NoFields EXCEPT !.auth_id = cd.payload.auth_id,
                                                   !.response = cd.payload.challenge,
                                                   !.csr = cd.csr]]
  /\ Perform /\ UNCHANGED <<pxSelfClaimData, self_claim_certificate, answer>>

\* Mutant: only the result of the second look-up counts.
handle_self_claim_init_response_LastOnly == InitHandled(cd.payload.challenge # NULL)

handle_self_claim_init_response ==
  InitHandled(cd.payload.auth_id # NULL /\ cd.payload.challenge # NULL)

\* The data is freed once the certificate is there.
VerifyHandled(pointer) ==
  /\ path = "verify"
  /\ cd.payload.certificate # NULL
  /\ Caller("handle", "claimed")
  /\ self_claim_certificate' = unescape_new_line(Allocated(cd.payload.certificate))
  /\ pxSelfClaimData' = pointer
  /\ Perform /\ UNCHANGED <<cd, path, answer>>

\* Mutant: the data is kept.
handle_claim_verify_response_Keeps == VerifyHandled("live")

handle_claim_verify_response == VerifyHandled("freed")

\* Memory that was freed is used again: its CSR or its payload is overwritten, by
\* what is neither a CSR nor a document.  The damage that freeing it twice, or
\* writing to it, does to others is a Reset.
Overwritten ==
  /\ pxSelfClaimData = "freed"
  /\ cd' \in {[cd EXCEPT !.csr = <<>>], [cd EXCEPT !.payload = NoFields]}
  /\ UNCHANGED <<pxSelfClaimData, made, task, claim_event_group, caller, path,
                 self_claim_private_key, self_claim_certificate, service>>

\* main.c takes the certificate.
Taken ==
  /\ Caller("claimed", "idle")
  /\ Perform /\ UNCHANGED <<pxSelfClaimData, cd, path, self_claim_certificate, answer>>

-------------------------------------------------------------------------------
(* The service.                                                            *)

ServeInit ==
  /\ caller = "sent" /\ path = "initiate" /\ answer = NULL
  /\ \E a \in AuthId, c \in Challenge :
       /\ issued' = [issued EXCEPT ![a] = c]
       /\ answer' = [NoFields EXCEPT !.auth_id = a, !.challenge = c]
  /\ UNCHANGED <<client, granted>>

\* It grants what an open session asks for with the right response.
ServeVerify ==
  /\ caller = "sent" /\ path = "verify" /\ answer = NULL
  /\ LET request == cd.payload IN
     /\ request.auth_id # NULL /\ issued[request.auth_id] = request.response
     /\ \E k \in Key :
          /\ Decoded(request.csr) = Trimmed(CsrPem[k])
          /\ granted' = granted \cup {k}
          /\ answer' = [NoFields EXCEPT !.certificate = Encoded(CertPem[k])]
     /\ issued' = [issued EXCEPT ![request.auth_id] = NULL]
  /\ UNCHANGED client

-------------------------------------------------------------------------------
ClaimTask == TaskAlloc \/ TaskNoMemory \/ GenerateKey \/ GenerateCsr \/ GenerateFails \/ SetBits

Claim ==
  \/ Send \/ SendFails \/ Refused \/ Receive \/ ReadFails
  \/ HandleFails \/ handle_self_claim_init_response \/ handle_claim_verify_response
  \/ Taken

Next ==
  \/ CallInit \/ CallInitFails \/ ClaimTask \/ InitReturns
  \/ PerformInit \/ Claim \/ Overwritten
  \/ ServeInit \/ ServeVerify
  \/ Reset

Spec == Init /\ [][Next]_vars

\* The claim task and the caller are scheduled; an HTTP request ends, if need be
\* with a time-out.  The service need not answer.
Fairness == WF_vars(ClaimTask) /\ WF_vars(InitReturns) /\ WF_vars(Claim)

FairSpec == Spec /\ Fairness

-------------------------------------------------------------------------------
(* Properties.                                                             *)

\* A request to verify that is made from live data is one that the service grants:
\* it answers the challenge of a session that is open, also if an attempt to open one
\* failed before, and its CSR, through two conversions and a buffer shared with the
\* answers, is that of the key.  Of a request from freed data nothing can be said;
\* ClaimHasCsr of Provisioning.tla is about main.c making one.
AcceptableRequest ==
  pxSelfClaimData = "live" /\ path = "verify" /\ caller \in {"send", "sent"} =>
    /\ Decoded(cd.payload.csr) = Trimmed(CsrPem[cd.key])
    /\ caller = "send" \/ answer = NULL =>
         cd.payload.auth_id # NULL /\ issued[cd.payload.auth_id] = cd.payload.response

\* The certificate that a claim returns is the one the service has issued for the
\* key that esp_rmaker_self_claim_init returned, byte for byte, and the conversion
\* of its newlines in place has not left the buffer.
CertificateForKey ==
  caller = "claimed" =>
    /\ self_claim_private_key \in granted
    /\ CString(self_claim_certificate) = CertPem[self_claim_private_key]
    /\ "behind" \notin ToSet(self_claim_certificate)

\* The client keeps the promise of Claiming.tla: what a claim from live data leaves of
\* it, and whose certificate it returns.
CertifiedKey ==
  LET keys == {k \in Key : CertPem[k] = CString(self_claim_certificate)}
  IN  IF caller = "claimed" /\ keys # {} THEN CHOOSE k \in keys : TRUE ELSE NULL

C == INSTANCE Claiming WITH data <- pxSelfClaimData, csr <- cd.key, result <- CertifiedKey

ClaimFromFreed == pxSelfClaimData = "freed" /\ caller \in {"send", "sent", "handle"}

ImplementsClaiming == C!Init /\ [][C!Next \/ ClaimFromFreed]_(C!vars)

\* Every call returns, or the device is reset.
CallReturns == caller # "idle" ~> caller = "idle"
===============================================================================

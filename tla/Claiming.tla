------------------------------- MODULE Claiming -------------------------------
(***************************************************************************)
(* What the self-claiming client promises main.c: a key with a request for *)
(* its certificate, which can be claimed again while the first of the two  *)
(* exchanges with the service fails, and is used up by the second one,     *)
(* whether that succeeds or not.  Nothing is promised of a claim from data *)
(* that is used up.  SelfClaim.tla is the client, Provisioning.tla its     *)
(* user.                                                                   *)
(***************************************************************************)
CONSTANTS Key, NULL

VARIABLES
  data,    \* what main.c's pointer points at: "null", "live" or "freed"
  csr,     \* the key whose CSR is, or was, in the claim data
  result   \* the key whose certificate a claim has returned, until it is taken

vars == <<data, csr, result>>

Init == data = "null" /\ csr = NULL /\ result = NULL

\* esp_rmaker_self_claim_init returns claim data for a key, or NULL.
Generated(k) == data' = "live" /\ csr' = k /\ UNCHANGED result
GenerateFails == data' = "null" /\ csr' = NULL /\ UNCHANGED result

\* esp_rmaker_self_claim_perform returns.  A first exchange that fails changes nothing.
Claimed == data = "live" /\ data' = "freed" /\ result' = csr /\ UNCHANGED csr
VerifyFails == data = "live" /\ data' = "freed" /\ UNCHANGED <<csr, result>>

Taken == result # NULL /\ result' = NULL /\ UNCHANGED <<data, csr>>

Reset == data' = "null" /\ csr' = NULL /\ result' = NULL

Next == \/ \E k \in Key : Generated(k)
        \/ GenerateFails \/ Claimed \/ VerifyFails \/ Taken \/ Reset

Spec == Init /\ [][Next]_vars
===============================================================================

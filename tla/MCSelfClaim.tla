------------------------------ MODULE MCSelfClaim ------------------------------
(***************************************************************************)
(* SelfClaim.tla for TLC: PEM texts of two keys.                           *)
(***************************************************************************)
EXTENDS SelfClaim, TLC

CONSTANTS k1, k2

MCKey == {k1, k2}

\* Lines of one and two characters, with a newline at the end or without.
MCCsrPem == k1 :> <<"x", "nl", "y", "y", "nl">> @@ k2 :> <<"x", "n", "nl", "x", "nl">>
MCCertPem == k1 :> <<"x", "nl", "y", "nl">> @@ k2 :> <<"n", "n", "nl", "x">>
===============================================================================

--------------------------- MODULE MCJsonGenerator ---------------------------
(***************************************************************************)
(* JsonGenerator.tla for TLC.                                              *)
(***************************************************************************)
EXTENDS JsonGenerator

MCChar == Punctuation \cup {"n", "1", "4", "2", "s"}
MCNames == { <<"n">> }
MCLiterals == { <<"1">>, <<"4", "2">> }
MCStrings == { <<>>, <<"s">> }
MCObjects == { <<"{", "}">> }
===============================================================================

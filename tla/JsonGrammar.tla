----------------------------- MODULE JsonGrammar ------------------------------
(***************************************************************************)
(* JSON texts as RFC 8259 has them, objects and arrays, by a machine that  *)
(* reads a text from left to right: what the properties of JsonParser.tla  *)
(* mean by a document.  Nothing here is taken from the parser but the      *)
(* kinds of characters of Jsmn.tla.                                        *)
(*                                                                         *)
(* Which words and numbers there are is left open, and a string may hold   *)
(* any white space: a parser that is right for these texts is right for    *)
(* those of the RFC.                                                       *)
(***************************************************************************)
EXTENDS Jsmn

\* open: the objects and arrays that have begun and not ended; at: what may come
\* next; lex: what the next character may be a part of.
Reader == [open : Seq({"object", "array"}),
           at : {"start", "first", "value", "member", "name", "colon", "after", "error"},
           lex : {"none", "string", "escape", "hex1", "hex2", "hex3", "hex4", "primitive"}]

Start == [open |-> <<>>, at |-> "start", lex |-> "none"]
Whole == [open |-> <<>>, at |-> "after", lex |-> "none"]
Error == [open |-> <<>>, at |-> "error", lex |-> "none"]

Inside(s, kind) == s.open # <<>> /\ Last(s.open) = kind

\* A name or a value has ended.
Past(s) == [s EXCEPT !.at = IF s.at \in {"member", "name"} THEN "colon" ELSE "after", !.lex = "none"]

Enters(s, kind, at) == [open |-> Append(s.open, kind), at |-> at, lex |-> "none"]
Leaves(s) == [open |-> Front(s.open), at |-> "after", lex |-> "none"]

\* A character outside of strings and primitives.
Between(s, ch) ==
  CASE ch \in Space -> s
    [] ch = "{" /\ s.at \in {"start", "first", "value"} -> Enters(s, "object", "member")
    [] ch = "[" /\ s.at \in {"start", "first", "value"} -> Enters(s, "array", "first")
    [] ch = "}" /\ s.at \in {"member", "after"} /\ Inside(s, "object") -> Leaves(s)
    [] ch = "]" /\ s.at \in {"first", "after"} /\ Inside(s, "array") -> Leaves(s)
    [] ch = "," /\ s.at = "after" /\ Inside(s, "object") -> [s EXCEPT !.at = "name"]
    [] ch = "," /\ s.at = "after" /\ Inside(s, "array") -> [s EXCEPT !.at = "value"]
    [] ch = ":" /\ s.at = "colon" -> [s EXCEPT !.at = "value"]
    [] ch = "quote" /\ s.at \in {"first", "value", "member", "name"} -> [s EXCEPT !.lex = "string"]
    [] ch \in Primitive /\ s.at \in {"first", "value"} -> [s EXCEPT !.lex = "primitive"]
    [] OTHER -> Error

Hex(s, ch, next) == IF ch \in HexDigit THEN [s EXCEPT !.lex = next] ELSE Error

Read(s, ch) ==
  CASE s.lex = "none" -> Between(s, ch)
    [] s.lex = "string" -> CASE ch = "quote" -> Past(s)
                             [] ch = "bslash" -> [s EXCEPT !.lex = "escape"]
                             [] ch \in {"ctl", "nul"} -> Error
                             [] OTHER -> s
    [] s.lex = "escape" -> CASE ch \in Escaped -> [s EXCEPT !.lex = "string"]
                             [] ch = "u" -> [s EXCEPT !.lex = "hex4"]
                             [] OTHER -> Error
    [] s.lex = "hex4" -> Hex(s, ch, "hex3")
    [] s.lex = "hex3" -> Hex(s, ch, "hex2")
    [] s.lex = "hex2" -> Hex(s, ch, "hex1")
    [] s.lex = "hex1" -> Hex(s, ch, "string")
    [] s.lex = "primitive" -> CASE ch \in Delimiter -> Between(Past(s), ch)
                                [] ch \in {"1", "n", "a", "u"} -> s
                                [] OTHER -> Error

\* What has been read after each character.
Readings(text) ==
  LET r[p \in 0 .. Len(text)] == IF p = 0 THEN Start ELSE Read(r[p - 1], text[p])
  IN  r

IsDocument(text) == Readings(text)[Len(text)] = Whole

\* The beginning of a document, cut off before its end.
IsCut(text) == Readings(text)[Len(text)] \notin {Whole, Error}

\* The characters after the first from up to the first to, without the white space
\* that is not in a string.
Compact(text, from, to) ==
  LET r == Readings(text)
  IN  FlattenSeq([i \in 1 .. to - from |->
        IF text[from + i] \in Space /\ r[from + i - 1].lex # "string" THEN <<>> ELSE <<text[from + i]>>])
===============================================================================

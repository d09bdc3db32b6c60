--------------------------------- MODULE Jsmn ---------------------------------
(***************************************************************************)
(* components/json_parser/upstream/jsmn/jsmn.h as json_parser.c compiles   *)
(* it, with JSMN_STRICT and JSMN_PARENT_LINKS, and json_parse_start, which *)
(* runs it twice over a text: to count the tokens, and to fill the array   *)
(* it has allocated for that number.                                       *)
(*                                                                         *)
(* Every iteration of one of its loops is a step.  Positions are those of  *)
(* the code: the character at pos is js[pos + 1].  Tokens are numbered     *)
(* from 1, and 0 is the token -1 of the code; tokens holds the allocated   *)
(* ones, so that its length is toknext.                                    *)
(***************************************************************************)
EXTENDS Integers, SequencesExt, FiniteSetsExt

CONSTANT Inputs   \* the texts given to json_parse_start

\* One member for each kind of character: a space for all white space, "1" and
\* "n" for what a primitive may begin with, "ctl" for what is not printable.
Char == {"{", "}", "[", "]", ":", ",", "quote", "bslash", " ", "1", "n", "a", "u", "ctl", "nul"}

Space == {" "}
Opening == {"{", "["}
Closing == {"}", "]"}
Primitive == {"1", "n"}
Escaped == {"quote", "bslash", "n"}
HexDigit == {"1", "a"}
Delimiter == Space \cup Closing \cup {","}

NOMEM == -1
INVAL == -2
PART == -3

ASSUME InputsAssumption == Inputs \subseteq Seq(Char)

VARIABLES
  js,          \* the text
  pass,        \* "count", "fill", "done", "failed", "ended"
  pos,         \* parser->pos
  toksuper,    \* parser->toksuper
  tokens,      \* the tokens allocated so far
  num_tokens,  \* the size of the array
  count,       \* jsmn_parse's count
  loop,        \* which loop it is in
  start,       \* where the string or the primitive starts
  token,       \* where the search for the open bracket is
  ret          \* what jsmn_parse has returned

vars == <<js, pass, pos, toksuper, tokens, num_tokens, count, loop, start, token, ret>>

\* Positions are within the text, and an object or array that is open ends at -1.
Token == [type : {"object", "array", "string", "primitive"}, start : 0 .. Len(js),
          end : -1 .. Len(js), size : Nat, parent : Nat]

TypeOK ==
  /\ js \in Seq(Char)
  /\ pass \in {"count", "fill", "done", "failed", "ended"}
  /\ pos \in 0 .. Len(js) /\ start \in 0 .. Len(js)
  /\ toksuper \in Nat /\ token \in Nat
  /\ tokens \in Seq(Token)
  /\ num_tokens \in Nat /\ count \in Nat
  /\ loop \in {"main", "string", "primitive", "close", "returned"}
  /\ ret \in Int

\* json_parse_start has called jsmn_init and jsmn_parse for the first time.
Init ==
  /\ js \in Inputs
  /\ pass = "count"
  /\ pos = 0 /\ toksuper = 0 /\ start = 0 /\ token = 0
  /\ tokens = <<>> /\ num_tokens = 0
  /\ count = 0 /\ ret = 0
  /\ loop = "main"

-------------------------------------------------------------------------------
Filling == pass = "fill"

\* The text goes on at position p.
More(p) == p < Len(js) /\ js[p + 1] # "nul"
AtEnd == ~More(pos)
c == js[pos + 1]
Reading(l, chars) == loop = l /\ ~AtEnd /\ c \in chars

Return(r) ==
  /\ loop' = "returned" /\ ret' = r
  /\ UNCHANGED <<js, pass, pos, toksuper, tokens, num_tokens, count, start, token>>

\* The loop l goes on at position p.
GoOn(l, p) ==
  /\ loop' = l /\ pos' = p
  /\ UNCHANGED <<js, pass, num_tokens, start, token, ret>>

Skip(l, p) == GoOn(l, p) /\ UNCHANGED <<toksuper, tokens, count>>

\* jsmn_alloc_token has no token left.
Full == Filling /\ Len(tokens) >= num_tokens

\* The superior token has one of these types.
Under(types) == Filling /\ toksuper # 0 /\ tokens[toksuper].type \in types

\* A new token is a child of the superior one, whose size grows.
Linked(type, first, last, parent) ==
  Append(IF toksuper = 0 THEN tokens ELSE [tokens EXCEPT ![toksuper].size = @ + 1],
         [type |-> type, start |-> first, end |-> last, size |-> 0, parent |-> parent])

AddToken(type, first, last) ==
  IF Filling THEN tokens' = Linked(type, first, last, toksuper) ELSE UNCHANGED tokens

-------------------------------------------------------------------------------
(* jsmn_parse.                                                             *)

Open ==
  /\ Reading("main", Opening)
  /\ IF Full THEN Return(NOMEM)
     ELSE IF Under({"object"}) THEN Return(INVAL)
     ELSE /\ AddToken(IF c = "{" THEN "object" ELSE "array", pos, -1)
          /\ toksuper' = IF Filling THEN Len(tokens) + 1 ELSE toksuper
          /\ count' = count + 1
          /\ GoOn("main", pos + 1)

\* A closing bracket: the search for the open one begins at the last token.
Close ==
  /\ Reading("main", Closing)
  /\ IF ~Filling THEN Skip("main", pos + 1)
     ELSE IF tokens = <<>> THEN Return(INVAL)
     ELSE /\ token' = Len(tokens)
          /\ loop' = "close"
          /\ UNCHANGED <<js, pass, pos, toksuper, tokens, num_tokens, count, start, ret>>

IsOpen(t) == t.end = -1

Closes(t) == t.type = (IF c = "}" THEN "object" ELSE "array")

CloseFound ==
  /\ loop = "close" /\ IsOpen(tokens[token])
  /\ IF ~Closes(tokens[token]) THEN Return(INVAL)
     ELSE /\ tokens' = [tokens EXCEPT ![token].end = pos + 1]
          /\ toksuper' = tokens[token].parent
          /\ count' = count
          /\ GoOn("main", pos + 1)

\* A closed token: the search goes on with its parent.  At a root it ends, with
\* no error if the type is right and a colon has made something superior.
CloseUp ==
  /\ loop = "close" /\ ~IsOpen(tokens[token])
  /\ IF tokens[token].parent # 0
     THEN /\ token' = tokens[token].parent
          /\ UNCHANGED <<js, pass, pos, toksuper, tokens, num_tokens, count, loop, start, ret>>
     ELSE IF ~Closes(tokens[token]) \/ toksuper = 0 THEN Return(INVAL)
     ELSE Skip("main", pos + 1)

White == Reading("main", Space) /\ Skip("main", pos + 1)

SetSuper(super) ==
  /\ toksuper' = super
  /\ UNCHANGED <<tokens, count>>
  /\ GoOn("main", pos + 1)

\* Mutants: the first key of an object is taken for the last one; token numbers
\* are off by one.
Colon_FirstKey ==
  Reading("main", {":"}) /\ SetSuper(IF Under({"object"}) /\ toksuper < Len(tokens) THEN toksuper + 1 ELSE toksuper)
Colon_OffByOne == Reading("main", {":"}) /\ SetSuper(Len(tokens) - 1)

Colon == Reading("main", {":"}) /\ SetSuper(Len(tokens))

\* Mutant: the next member is a child of the last key.
Comma_StaysAtKey == Reading("main", {","}) /\ SetSuper(toksuper)

Comma ==
  /\ Reading("main", {","})
  /\ SetSuper(IF Under({"string", "primitive"}) THEN tokens[toksuper].parent ELSE toksuper)

\* The start of a string or of a primitive, which must not be a key.
Begin(l, p) ==
  /\ start' = pos /\ loop' = l /\ pos' = p
  /\ UNCHANGED <<js, pass, toksuper, tokens, num_tokens, count, token, ret>>

StringStart == Reading("main", {"quote"}) /\ Begin("string", pos + 1)

PrimitiveStart ==
  /\ Reading("main", Primitive)
  /\ IF Under({"object"}) \/ (Under({"string"}) /\ tokens[toksuper].size # 0)
     THEN Return(INVAL) ELSE Begin("primitive", pos)

Unexpected ==
  /\ Reading("main", Char \ (Opening \cup Closing \cup Space \cup Primitive \cup {":", ",", "quote"}))
  /\ Return(INVAL)

\* Mutant: open objects and arrays are not looked for.
End_NoCheck == loop = "main" /\ AtEnd /\ Return(count)

End ==
  /\ loop = "main" /\ AtEnd
  /\ Return(IF Filling /\ \E i \in DOMAIN tokens : IsOpen(tokens[i]) THEN PART ELSE count)

-------------------------------------------------------------------------------
(* jsmn_parse_string and jsmn_parse_primitive.                             *)

NewValue(type, first, next) ==
  IF Full THEN Return(NOMEM)
  ELSE /\ AddToken(type, first, pos)
       /\ count' = count + 1
       /\ UNCHANGED toksuper
       /\ GoOn("main", next)

StringEnd == Reading("string", {"quote"}) /\ NewValue("string", start + 1, pos + 1)

\* What follows a backslash, unless that is the last character.
IsEscape == c = "bslash" /\ pos + 1 < Len(js)

\* Four characters from position p on, or what is left of the text.
AfterHex(p) == LET after(q) == IF More(q) THEN q + 1 ELSE q
               IN  after(after(after(after(p))))

StringEscape ==
  /\ Reading("string", {"bslash"}) /\ IsEscape
  /\ LET escaped == js[pos + 2]
     IN  CASE escaped \in Escaped -> Skip("string", pos + 2)
           [] escaped = "u" ->
                IF \A p \in pos + 2 .. AfterHex(pos + 2) - 1 : js[p + 1] \in HexDigit
                THEN Skip("string", AfterHex(pos + 2)) ELSE Return(INVAL)
           [] OTHER -> Return(INVAL)

StringChar ==
  /\ Reading("string", Char \ {"quote"}) /\ ~IsEscape
  /\ Skip("string", pos + 1)

\* The delimiter is left to jsmn_parse.
PrimitiveEnd == Reading("primitive", Delimiter) /\ NewValue("primitive", start, pos)

PrimitiveChar ==
  /\ Reading("primitive", Char \ Delimiter)
  /\ IF c = "ctl" THEN Return(INVAL) ELSE Skip("primitive", pos + 1)

\* In strict mode a primitive needs a delimiter.
Partial == loop \in {"string", "primitive"} /\ AtEnd /\ Return(PART)

jsmn_parse ==
  /\ pass \in {"count", "fill"}
  /\ \/ Open \/ Close \/ CloseFound \/ CloseUp \/ White \/ Colon \/ Comma
     \/ StringStart \/ PrimitiveStart \/ Unexpected \/ End
     \/ StringEnd \/ StringEscape \/ StringChar \/ PrimitiveEnd \/ PrimitiveChar \/ Partial

-------------------------------------------------------------------------------
(* json_parse_start between and after the two passes.                      *)

Fill(size) ==
  /\ pass = "count" /\ loop = "returned" /\ ret > 0
  /\ pass' = (IF size > 0 THEN "fill" ELSE "failed")
  /\ num_tokens' = size
  /\ pos' = 0 /\ toksuper' = 0 /\ count' = 0 /\ ret' = 0 /\ loop' = "main"
  /\ UNCHANGED <<js, tokens, start, token>>

\* Mutant: the root is not counted.
StartFill_NoRoot(allocated) == Fill(IF allocated THEN ret - 1 ELSE 0)

\* calloc may fail.
StartFill(allocated) == Fill(IF allocated THEN ret ELSE 0)

\* jctx is cleared; the parser's own state is of no further use.
ParseFails ==
  /\ pass \in {"count", "fill"} /\ loop = "returned" /\ ret <= 0
  /\ pass' = "failed" /\ tokens' = <<>> /\ num_tokens' = 0
  /\ UNCHANGED <<js, pos, toksuper, count, loop, start, token, ret>>

ParseOk ==
  /\ pass = "fill" /\ loop = "returned" /\ ret > 0
  /\ pass' = "done"
  /\ UNCHANGED <<js, pos, toksuper, tokens, num_tokens, count, loop, start, token, ret>>

json_parse_start ==
  \/ jsmn_parse
  \/ \E allocated \in BOOLEAN : StartFill(allocated)
  \/ ParseFails
  \/ ParseOk

Spec == Init /\ [][json_parse_start]_vars
===============================================================================

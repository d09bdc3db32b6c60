------------------------------ MODULE JsonParser ------------------------------
(***************************************************************************)
(* components/json_parser/upstream/src/json_parser.c on the tokens of      *)
(* Jsmn.tla: look-ups by name and index, which walk the array by the sizes *)
(* of its tokens, and the calls that enter a nested object or array and    *)
(* leave it again by the tokens' parents.                                  *)
(*                                                                         *)
(* A text may have a key without a value behind it, and then the token     *)
(* after a key need not exist; what the memory there holds is any token.   *)
(***************************************************************************)
EXTENDS JsonGrammar

CONSTANT Names   \* names looked up

ASSUME NamesAssumption == Names \subseteq Seq(Char)

VARIABLES
  cur,   \* jctx->cur
  path   \* history: the tokens that have been entered and not left, and how

pvars == <<vars, cur, path>>

PInit == Init /\ cur = 0 /\ path = <<>>

PTypeOK ==
  /\ TypeOK
  /\ cur \in Nat
  /\ path \in Seq([how : {"obj", "arr"}, token : Nat])

-------------------------------------------------------------------------------
(* Look-ups.  They return a token, or 0 for NULL.                          *)

TextOf(t) == SubSeq(js, t.start + 1, t.end)

token_matches_str(i, str) == TextOf(tokens[i]) = str

\* Mutant: nested children are not stepped over.
json_skip_elem_Flat(i) == i + tokens[i].size

\* The last token of the element that begins with token i.
Skipped[i \in DOMAIN tokens] ==
  LET after[n \in 0 .. tokens[i].size] == IF n = 0 THEN i ELSE Skipped[after[n - 1] + 1]
  IN  after[tokens[i].size]

json_skip_elem(i) == Skipped[i]

\* Where the n-th child of token i is found (n \in Nat).
Child(i, n) ==
  LET at[m \in 0 .. n] == IF m = 0 THEN i + 1 ELSE json_skip_elem(at[m - 1]) + 1
  IN  at[n]

json_obj_search(name) ==
  LET found == {n \in 0 .. tokens[cur].size - 1 : token_matches_str(Child(cur, n), name)}
  IN  IF tokens[cur].type = "object" /\ found # {} THEN Child(cur, Min(found)) ELSE 0

\* The token after the key, if it is of the type.
json_obj_get_val_tok(name, type) ==
  LET key == json_obj_search(name)
  IN  IF key = 0 THEN {0}
      ELSE IF key = Len(tokens) THEN {0, key + 1}
      ELSE IF tokens[key + 1].type = type THEN {key + 1} ELSE {0}

json_arr_search(index) ==
  IF tokens[cur].type = "array" /\ index < tokens[cur].size THEN Child(cur, index) ELSE 0

json_arr_get_val_tok(index, type) ==
  LET tok == json_arr_search(index)
  IN  IF tok # 0 /\ tokens[tok].type = type THEN tok ELSE 0

\* The text of a token fits into size bytes.
json_tok_to_string(text, size) == Len(text) <= size - 1

\* The values that the getters of an object and of an array are about: json_..._bool,
\* ..._int, ..._int64 and ..._float convert a primitive, and the others copy a
\* string, or the text of an object or array, or give its length.
ObjValue(name, type) == {TextOf(tokens[tok]) : tok \in json_obj_get_val_tok(name, type) \ {0}}
ArrValue(index, type) == {TextOf(tokens[tok]) : tok \in {json_arr_get_val_tok(index, type)} \ {0}}

json_obj_get_str(name, type, size) == {t \in ObjValue(name, type) : json_tok_to_string(t, size)}
json_obj_get_strlen(name, type) == {Len(t) : t \in ObjValue(name, type)}
json_arr_get_str(index, size) == {t \in ArrValue(index, "string") : json_tok_to_string(t, size)}
json_arr_get_strlen(index) == {Len(t) : t \in ArrValue(index, "string")}

-------------------------------------------------------------------------------
(* Calls that move cur.  The others leave the context as it is.            *)

\* cur is a token and not what is behind the last one.
Usable == pass = "done" /\ cur \in DOMAIN tokens

Enter(how, tok) ==
  /\ tok # 0
  /\ cur' = tok
  /\ path' = Append(path, [how |-> how, token |-> tok])
  /\ UNCHANGED vars

\* json_obj_get_array, json_obj_get_object
ObjEnter(name, type) ==
  Usable /\ \E tok \in json_obj_get_val_tok(name, type) : Enter("obj", tok)

\* json_arr_get_array, json_arr_get_object
ArrEnter(index, type) == Usable /\ Enter("arr", json_arr_get_val_tok(index, type))

LeaveTo(how, tok) ==
  /\ Usable /\ path # <<>> /\ Last(path).how = how
  /\ cur' = tok
  /\ path' = Front(path)
  /\ UNCHANGED vars

Parent(i) == tokens[i].parent

\* Mutant: the key is taken for the object.
json_obj_leave_OneLevel == LeaveTo("obj", Parent(cur))

\* json_obj_leave_array, json_obj_leave_object: from the value to its key and
\* from there to the object.  Without a parent cur stays where it has got to.
json_obj_leave ==
  LeaveTo("obj", IF Parent(cur) = 0 THEN cur
                 ELSE IF Parent(Parent(cur)) = 0 THEN Parent(cur) ELSE Parent(Parent(cur)))

\* json_arr_leave_array, json_arr_leave_object
json_arr_leave == LeaveTo("arr", IF Parent(cur) = 0 THEN cur ELSE Parent(cur))

json_parse_end ==
  /\ pass = "done"
  /\ pass' = "ended"
  /\ tokens' = <<>> /\ num_tokens' = 0 /\ cur' = 0 /\ path' = <<>>
  /\ UNCHANGED <<js, pos, toksuper, count, loop, start, token, ret>>

Parse ==
  /\ json_parse_start
  /\ cur' = IF pass' = "done" THEN 1 ELSE 0
  /\ path' = path

Call ==
  \/ \E type \in {"object", "array"} :
       \/ \E name \in Names : ObjEnter(name, type)
       \/ \E index \in 0 .. Len(tokens) : ArrEnter(index, type)
  \/ json_obj_leave
  \/ json_arr_leave
  \/ json_parse_end

PNext == Parse \/ Call

PSpec == PInit /\ [][PNext]_pvars

-------------------------------------------------------------------------------
(* Properties.                                                             *)

Done == pass = "done"

\* The array that json_parse_start allocates from the count of the first pass is
\* exactly what the second pass fills, although only the second looks at the
\* structure of the text.
EnoughTokens ==
  /\ Filling /\ loop = "returned" => ret # NOMEM
  /\ Done => Len(tokens) = num_tokens

\* The tokens are a forest in preorder, whatever the text: the size of a token is
\* the number of tokens that name it as their parent, a parent comes before its
\* children, and between a token and its parent there are only tokens inside this
\* parent.
Preorder ==
  \A i \in DOMAIN tokens :
    /\ tokens[i].parent < i
    /\ \A j \in DOMAIN tokens : tokens[i].parent < j /\ j < i => tokens[j].parent >= tokens[i].parent
SizesAreChildren ==
  \A i \in DOMAIN tokens : tokens[i].size = Cardinality({j \in DOMAIN tokens : tokens[j].parent = i})
Forest == Preorder /\ SizesAreChildren

\* The tokens of a JSON document are the document: written down again from its
\* root, with separators where types and sizes call for them, they give its text
\* without white space.
Children(i) ==
  LET children == {j \in DOMAIN tokens : tokens[j].parent = i}
  IN  [n \in 1 .. Cardinality(children) |->
        CHOOSE k \in children : Cardinality({j \in children : j < k}) = n - 1]

Written[i \in DOMAIN tokens] ==
  LET parts == [n \in DOMAIN Children(i) |-> Written[Children(i)[n]]]
      list == FlattenSeq([n \in DOMAIN parts |-> IF n = 1 THEN parts[n] ELSE <<",">> \o parts[n]])
      text == TextOf(tokens[i])
  IN  CASE tokens[i].type = "object" -> <<"{">> \o list \o <<"}">>
        [] tokens[i].type = "array" -> <<"[">> \o list \o <<"]">>
        [] tokens[i].type = "primitive" -> text
        [] OTHER -> <<"quote">> \o text \o <<"quote">>
                    \o (IF parts = <<>> THEN <<>> ELSE <<":">> \o FlattenSeq(parts))

RoundTrip ==
  Done /\ IsDocument(js) => Written[1] = Compact(js, 0, Len(js))

\* A document is accepted unless there is no memory, and a text that ends too
\* early is not, wherever it is cut: half an answer of the claim service is never
\* taken for an answer.
AcceptsDocuments ==
  /\ Done => ~IsCut(js)
  /\ loop = "returned" /\ ret <= 0 => ~IsDocument(js)

\* In a document a look-up finds the first member of that name and its value,
\* whatever values and nested members before it are called, and nothing if there
\* is no such member; an index finds the element at this place.
LookupRight ==
  Usable /\ IsDocument(js) =>
    LET children == Children(cur)
        named(name) == {n \in DOMAIN children : TextOf(tokens[children[n]]) = name}
    IN  IF tokens[cur].type = "object"
        THEN \A name \in Names :
               LET key == IF named(name) = {} THEN 0 ELSE children[Min(named(name))]
               IN  /\ json_obj_search(name) = key
                   /\ key # 0 => {j \in DOMAIN tokens : tokens[j].parent = key} = {key + 1}
        ELSE \A index \in 0 .. Len(children) :
               json_arr_search(index) = IF index < Len(children) THEN children[index + 1] ELSE 0

\* The getters give the text of the value that was found, quotation marks aside,
\* and strings and nested objects and arrays need exactly one byte more than their
\* length, as handle_claim_verify_response allocates it.
Value(tok) == Compact(js, tokens[tok].start, tokens[tok].end)
Unquoted(text) == IF Head(text) = "quote" THEN SubSeq(text, 2, Len(text) - 1) ELSE text

ValuesRight ==
  Usable /\ IsDocument(js) =>
    /\ LookupRight
    /\ \A name \in Names, type \in {"string", "object", "array", "primitive"} :
         LET key == json_obj_search(name) IN
         /\ key # 0 => (ObjValue(name, type) # {} <=> tokens[key + 1].type = type)
         /\ \A tok \in json_obj_get_val_tok(name, type) \ {0} : Value(tok) = Unquoted(Written[tok])
         /\ \A l \in json_obj_get_strlen(name, type) :
              /\ json_obj_get_str(name, type, l) = {}
              /\ json_obj_get_str(name, type, l + 1) = ObjValue(name, type)
    /\ \A index \in 0 .. Len(tokens) :
         /\ LET tok == json_arr_get_val_tok(index, "string")
            IN  tok # 0 => Value(tok) = Unquoted(Written[tok])
         /\ \A l \in json_arr_get_strlen(index) :
              /\ json_arr_get_str(index, l) = {}
              /\ json_arr_get_str(index, l + 1) = ArrValue(index, "string")

\* Leaving an object or an array returns to the one it was entered from.
LeaveReturns ==
  Done /\ IsDocument(js) => cur = IF path = <<>> THEN 1 ELSE Last(path).token

===============================================================================

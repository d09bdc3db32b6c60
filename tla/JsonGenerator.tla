----------------------------- MODULE JsonGenerator -----------------------------
(***************************************************************************)
(* components/json_generator/upstream/json_generator.c, with which the     *)
(* claiming client builds its second request.  The caller hands it a       *)
(* buffer; text that does not fit is flushed to a callback or, without     *)
(* one, lost.  Without a buffer the generator only counts.                 *)
(*                                                                         *)
(* A call of the API is the list of strings it adds (pend), and each step  *)
(* of the loop of json_gen_add_to_str that moves one of them into the      *)
(* buffer is an action.  The calls made are the ones the header allows: an *)
(* element with a name in an object, one without in an array, one value at *)
(* the top, and nothing but more of it while a long string is open.        *)
(***************************************************************************)
EXTENDS Integers, SequencesExt

CONSTANTS
  Char,      \* the characters
  Names,     \* names of elements
  Literals,  \* what bool, int, float and null are formatted as
  Strings,   \* values of strings and parts of long strings
  Objects,   \* objects and arrays formatted by the caller
  Sizes,     \* sizes of buffers
  MaxText,   \* bound: no new element once the text is this long
  MaxDepth   \* bound: how deep objects and arrays are nested

Text == Seq(Char)

Punctuation == {"quote", ":", ",", "{", "}", "[", "]"}

ASSUME TextAssumption ==
  /\ Punctuation \subseteq Char
  /\ Names \subseteq Text
  /\ Literals \subseteq Text
  /\ Strings \subseteq Text
  /\ Objects \subseteq Text

ASSUME SizesAssumption == Sizes \subseteq Nat \ {0}

VARIABLES
  jstr,   \* json_gen_str_t; the length of buf stands for free_ptr
  buf,    \* the caller's buffer, up to free_ptr
  out,    \* all that the flush callback has been given
  pend,   \* strings the current call has yet to add
  rest,   \* what is left of the string being added
  rc,     \* what the last call returned
  text,   \* history: all that was to be added since json_gen_str_start
  doc     \* history: the objects and arrays that are open, the elements of
          \* each, and the long string that is open (<<>> if none)

vars == <<jstr, buf, out, pend, rest, rc, text, doc>>

Zero == [open |-> FALSE, has_buf |-> FALSE, buf_size |-> 0, flush_cb |-> FALSE,
         comma_req |-> FALSE, total_len |-> 0]

Frame == [kind : {"top", "object", "array"}, opener : Text, items : Seq(Text)]

TypeOK ==
  /\ jstr \in [open : BOOLEAN, has_buf : BOOLEAN, buf_size : Nat, flush_cb : BOOLEAN,
               comma_req : BOOLEAN, total_len : Nat]
  /\ buf \in Text
  /\ out \in Text
  /\ pend \in Seq(Text)
  /\ rest \in Text
  /\ rc \in Int
  /\ text \in Text
  /\ doc \in [open : Seq(Frame), long : Text]

Init ==
  /\ jstr = Zero
  /\ buf = <<>> /\ out = <<>> /\ text = <<>>
  /\ pend = <<>> /\ rest = <<>>
  /\ rc = 0
  /\ doc = [open |-> <<>>, long |-> <<>>]

-------------------------------------------------------------------------------
(* json_gen_add_to_str.                                                    *)

\* Mutant: the terminating null is forgotten.
json_gen_get_empty_len_NoNull == jstr.buf_size - Len(buf)

\* Mutant: two bytes are kept back.
json_gen_get_empty_len_KeepsTwo ==
  IF jstr.buf_size - Len(buf) > 2 THEN jstr.buf_size - Len(buf) - 2 ELSE 0

\* The room for text, which leaves a byte for the terminating null.
json_gen_get_empty_len == jstr.buf_size - Len(buf) - 1

\* A call has returned when nothing is left to add.
Idle == pend = <<>> /\ rest = <<>>

\* The entry: the string is counted, and copied only if there is a buffer.
Begin(total_len) ==
  /\ pend # <<>> /\ rest = <<>>
  /\ pend' = Tail(pend)
  /\ rest' = IF jstr.has_buf THEN Head(pend) ELSE <<>>
  /\ jstr' = [jstr EXCEPT !.total_len = total_len]
  /\ rc' = 0
  /\ text' = text \o Head(pend)
  /\ UNCHANGED <<buf, out, doc>>

\* Mutant: the length counts down, as what is left of the buffer.
AddStart_CountsDown == Begin(jstr.total_len - Len(Head(pend)))

AddStart == Begin(jstr.total_len + Len(Head(pend)))

\* One iteration of the loop: as much as there is room for is copied, and if
\* something is left the buffer is flushed, or the rest is dropped.
CopyLen == IF json_gen_get_empty_len > Len(rest) THEN Len(rest) ELSE json_gen_get_empty_len
Copied == buf \o SubSeq(rest, 1, CopyLen)
Left == SubSeq(rest, CopyLen + 1, Len(rest))

AddFits ==
  /\ rest # <<>> /\ Left = <<>>
  /\ buf' = Copied
  /\ rest' = <<>>
  /\ UNCHANGED <<jstr, out, pend, rc, text, doc>>

AddFlush ==
  /\ rest # <<>> /\ Left # <<>> /\ jstr.flush_cb
  /\ out' = out \o Copied
  /\ buf' = <<>>
  /\ rest' = Left
  /\ UNCHANGED <<jstr, pend, rc, text, doc>>

Drop(copied, error) ==
  /\ rest # <<>> /\ Left # <<>> /\ ~jstr.flush_cb
  /\ buf' = copied
  /\ rest' = <<>>
  /\ rc' = error
  /\ UNCHANGED <<jstr, out, pend, text, doc>>

\* Mutants: a string is not copied in part; the error is not returned.
AddDrop_WholeStrings == Drop(buf, -1)
AddDrop_NoError == Drop(Copied, rc)

AddDrop == Drop(Copied, -1)

-------------------------------------------------------------------------------
(* The document a correct sequence of calls describes.                     *)

\* A quotation mark, one character like the others.
Quote == <<"quote">>

\* A label is <<name>> in an object and <<>> elsewhere.
Key(label) == IF label = <<>> THEN <<>> ELSE Quote \o label[1] \o <<"quote", ":">>

Joined(items) ==
  FlattenSeq([i \in DOMAIN items |-> IF i = 1 THEN items[i] ELSE <<",">> \o items[i]])

\* The text of a document some of whose objects and arrays are still open:
\* elements are separated by commas, and so is an element that is not finished
\* from the finished ones before it.
Render(d) ==
  LET Separator(i) == IF d.open[i].items = <<>> THEN <<>> ELSE <<",">>
      Body(i) == d.open[i].opener \o Joined(d.open[i].items)
                 \o (IF i < Len(d.open) \/ d.long # <<>> THEN Separator(i) ELSE <<>>)
  IN  FlattenSeq([i \in DOMAIN d.open |-> Body(i)]) \o d.long

Depth == Len(doc.open)
Top == doc.open[Depth]

Item(d, element) == [d EXCEPT !.open[Len(d.open)].items = Append(@, element)]

-------------------------------------------------------------------------------
(* The API.                                                                *)

json_gen_str_start(has_buf, size, flush) ==
  /\ Idle /\ ~jstr.open
  /\ jstr' = [Zero EXCEPT !.open = TRUE, !.has_buf = has_buf, !.buf_size = size,
                          !.flush_cb = flush]
  /\ buf' = <<>> /\ out' = <<>> /\ text' = <<>>
  /\ rc' = 0
  /\ doc' = [open |-> <<[kind |-> "top", opener |-> <<>>, items |-> <<>>]>>, long |-> <<>>]
  /\ UNCHANGED <<pend, rest>>

\* The document is finished: its value is there and nothing is open.
Finished == Depth = 1 /\ Top.items # <<>>

End(flushed) ==
  /\ Idle /\ jstr.open /\ Finished
  /\ jstr' = Zero
  /\ out' = flushed
  /\ rc' = jstr.total_len + 1
  /\ UNCHANGED <<buf, pend, rest, text, doc>>

\* Mutant: what is still in the buffer is not flushed.
json_gen_str_end_NoFlush == End(out)

json_gen_str_end == End(IF jstr.has_buf /\ jstr.flush_cb THEN out \o buf ELSE out)

\* Every other call adds strings and says whether a comma is due afterwards.
Call(strings, comma_req) ==
  /\ Idle /\ jstr.open
  /\ pend' = strings
  /\ jstr' = [jstr EXCEPT !.comma_req = comma_req]
  /\ UNCHANGED <<buf, out, rest, rc, text>>

json_gen_handle_comma == IF jstr.comma_req THEN << <<",">> >> ELSE <<>>

json_gen_handle_name(label) ==
  IF label = <<>> THEN <<>> ELSE <<Quote, label[1], <<"quote", ":">> >>

\* Where a new element may be added, and with which labels.
Labels ==
  IF doc.long # <<>> \/ Len(text) >= MaxText THEN {}
  ELSE CASE Top.kind = "object" -> {<<n>> : n \in Names}
         [] Top.kind = "array" -> {<<>>}
         [] Top.kind = "top" -> IF Top.items = <<>> THEN {<<>>} ELSE {}

Element(label, strings) == json_gen_handle_comma \o json_gen_handle_name(label) \o strings

\* A value in an object or an array.
Value(label, strings) ==
  /\ Top.kind # "top"
  /\ label \in Labels
  /\ Call(Element(label, strings), TRUE)

\* json_gen_obj_set_bool, ..._int, ..._float, ..._null and json_gen_arr_set_...
SetLiteral(label, literal) ==
  /\ Value(label, <<literal>>)
  /\ doc' = Item(doc, Key(label) \o literal)

\* json_gen_obj_set_string, json_gen_arr_set_string
SetString(label, val) ==
  /\ Value(label, <<Quote, val, Quote>>)
  /\ doc' = Item(doc, Key(label) \o Quote \o val \o Quote)

\* json_gen_push_object_str, json_gen_push_array_str
PushStr(label, object_str) ==
  /\ Top.kind = "object"
  /\ Value(label, <<object_str>>)
  /\ doc' = Item(doc, Key(label) \o object_str)

\* json_gen_obj_start_long_string, json_gen_arr_start_long_string: val may be
\* NULL, which adds nothing, as the empty string does.
StartLongString(label, val) ==
  /\ Value(label, <<Quote, val>>)
  /\ doc' = [doc EXCEPT !.long = Key(label) \o Quote \o val]

json_gen_add_to_long_string(val) ==
  /\ doc.long # <<>> /\ Len(text) < MaxText
  /\ Call(<<val>>, jstr.comma_req)
  /\ doc' = [doc EXCEPT !.long = @ \o val]

json_gen_end_long_string ==
  /\ doc.long # <<>>
  /\ Call(<<Quote>>, jstr.comma_req)
  /\ doc' = Item([doc EXCEPT !.long = <<>>], doc.long \o Quote)

Opener(kind) == IF kind = "object" THEN <<"{">> ELSE <<"[">>
Closer(kind) == IF kind = "object" THEN <<"}">> ELSE <<"]">>

\* json_gen_push_object and json_gen_push_array with a label, json_gen_start_object
\* and json_gen_start_array without.
Push(kind, label) ==
  /\ label \in Labels
  /\ Depth <= MaxDepth
  /\ Call(Element(label, <<Opener(kind)>>), FALSE)
  /\ doc' = [doc EXCEPT !.open =
               Append(@, [kind |-> kind, opener |-> Key(label) \o Opener(kind), items |-> <<>>])]

Close(kind, comma_req) ==
  /\ doc.long = <<>> /\ Top.kind = kind
  /\ Call(<<Closer(kind)>>, comma_req)
  /\ doc' = Item([doc EXCEPT !.open = Front(@)],
                 Top.opener \o Joined(Top.items) \o Closer(kind))

\* Mutant: closing leaves comma_req as it is.
Pop_KeepsComma(kind) == Close(kind, jstr.comma_req)

\* json_gen_pop_object, json_gen_end_object, json_gen_pop_array, json_gen_end_array
Pop(kind) == Close(kind, TRUE)

-------------------------------------------------------------------------------
Start == \E has_buf, flush \in BOOLEAN, size \in Sizes : json_gen_str_start(has_buf, size, flush)

Label == {<<>>} \cup {<<n>> : n \in Names}

\* A call for an element of the document.
Build ==
  /\ jstr.open /\ Idle
  /\ \/ \E label \in Label :
          \/ \E literal \in Literals : SetLiteral(label, literal)
          \/ \E val \in Strings : SetString(label, val) \/ StartLongString(label, val)
          \/ \E object_str \in Objects : PushStr(label, object_str)
          \/ \E kind \in {"object", "array"} : Push(kind, label)
     \/ \E val \in Strings : json_gen_add_to_long_string(val)
     \/ json_gen_end_long_string
     \/ \E kind \in {"object", "array"} : Pop(kind)

Next == Start \/ Build \/ AddStart \/ AddFits \/ AddFlush \/ AddDrop \/ json_gen_str_end

Spec == Init /\ [][Next]_vars

\* A call that has been made is run to its end; the caller promises nothing.
Fairness == WF_vars(AddStart \/ AddFits \/ AddFlush \/ AddDrop)

FairSpec == Spec /\ Fairness

-------------------------------------------------------------------------------
(* Properties.                                                             *)

\* All of the text fits.
Fits == Len(text) < jstr.buf_size

\* The terminating null that json_gen_add_to_str and json_gen_str_end write at
\* free_ptr is within the buffer, whatever is copied before.
RoomForNull == jstr.has_buf => Len(buf) < jstr.buf_size

\* With a callback no character is lost, doubled or swapped at a boundary of
\* the buffer: what was flushed, what is in the buffer and what is left of the
\* string being copied are together all that was added.
NothingLost == jstr.has_buf /\ jstr.flush_cb => out \o buf \o rest = text

\* Without a callback the buffer holds as much of the text as fits, from its
\* beginning: text that came after a string that was cut is not put behind it.
LongestPrefix ==
  jstr.has_buf /\ ~jstr.flush_cb =>
    IF Len(buf) = jstr.buf_size - 1
    THEN SubSeq(text, 1, Len(buf)) = buf /\ Len(text) >= Len(buf)
    ELSE buf \o rest = text

\* Whatever the size of the buffer, it cuts the text at its end or nowhere.
TextKept == NothingLost /\ LongestPrefix

\* The flag comma_req puts commas exactly where the document needs them, over
\* all nestings of objects, arrays and long strings: whenever no call is under
\* way, the text is that of the document the calls describe.
WellFormed == Idle /\ jstr.open => text = Render(doc)

\* The return value of the call that finishes a document says whether the whole
\* document is in the buffer, although the ones of earlier calls are ignored.
LastCallTells == Idle /\ jstr.open /\ Finished /\ jstr.has_buf /\ ~jstr.flush_cb =>
                   (rc = 0 <=> Fits) /\ (Fits <=> buf = text)

\* Before the end of the document only full buffers are flushed, as the comment
\* of json_gen_add_to_str promises.
FullChunks ==
  [][jstr.open /\ jstr'.open /\ out' # out => Len(out') = Len(out) + jstr.buf_size - 1]_vars

\* json_gen_str_end returns the size of the whole document, also if it did not
\* fit or there was no buffer, and with a callback it has all been flushed.
Delivered ==
  [][jstr.open /\ ~jstr'.open =>
       /\ rc' = Len(text) + 1
       /\ jstr.has_buf /\ jstr.flush_cb => out' = text]_vars

\* There is no room for a character, and a callback that makes none.
Endless == jstr.has_buf /\ jstr.flush_cb /\ jstr.buf_size = 1 /\ rest # <<>>

\* A call returns, for the loop over the buffer ends: with a callback it does so
\* unless the buffer has one byte, which the null takes, and then never.
CallReturns ==
  /\ ~Idle ~> Idle \/ Endless
  /\ [][Endless => Endless']_vars
===============================================================================

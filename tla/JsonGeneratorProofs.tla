-------------------------- MODULE JsonGeneratorProofs --------------------------
(***************************************************************************)
(* Proofs about JsonGenerator.tla, for every set of strings, every size of *)
(* buffer, every nesting and every sequence of calls.                      *)
(*                                                                         *)
(* BufferInv says what the buffer holds and what has been flushed; it is   *)
(* inductive by itself, on what one iteration of the copying loop does     *)
(* (Iteration).  DocumentInv says that what was added and what the current *)
(* call has yet to add make up the text of the document; the four lemmas   *)
(* Render... compute what each kind of call appends to it, on the lemmas   *)
(* of SequenceLemmas.tla about the fold that renders it.  Tells, on both,  *)
(* follows the result of the call that finishes a document.                *)
(***************************************************************************)
EXTENDS JsonGenerator, SequenceLemmas

Types ==
  /\ jstr \in [open : BOOLEAN, has_buf : BOOLEAN, buf_size : Nat, flush_cb : BOOLEAN,
               comma_req : BOOLEAN, total_len : Nat]
  /\ buf \in Text /\ out \in Text /\ rest \in Text /\ text \in Text
  /\ pend \in Seq(Text)

\* Between documents nothing is under way; within one the length is counted,
\* and the loop runs over a buffer.
Counted ==
  /\ ~jstr.open => pend = <<>> /\ ~jstr.has_buf
  /\ ~jstr.has_buf => rest = <<>>
  /\ jstr.open => jstr.total_len = Len(text)

BufferInv == Types /\ Counted /\ RoomForNull /\ NothingLost /\ LongestPrefix

-------------------------------------------------------------------------------
(* Sequences.                                                              *)

LEMMA OneElement ==
  ASSUME NEW S, NEW x \in S
  PROVE  <<x>> \in Seq(S)
OBVIOUS

LEMMA TwoElements ==
  ASSUME NEW S, NEW x \in S, NEW y \in S
  PROVE  <<x, y>> \in Seq(S)
OBVIOUS

LEMMA Associative ==
  \A s, t, u \in Seq(Char) : (s \o t) \o u = s \o (t \o u)
BY ConcatAssociative

LEMMA PrefixOfConcat ==
  ASSUME NEW S, NEW s \in Seq(S), NEW t \in Seq(S), NEW n \in 0 .. Len(s)
  PROVE  SubSeq(s \o t, 1, n) = SubSeq(s, 1, n)
<1>1. CASE n = 0
  BY <1>1, SubSeqEmpty
<1>2. CASE n > 0
  <2>1. Len(s) \in Nat
    BY LenProperties
  <2>. QED
    BY <1>2, <2>1, SubSeqOfConcat1
<1>. QED
  BY <1>1, <1>2

LEMMA ConcatPrefix ==
  ASSUME NEW S, NEW s \in Seq(S), NEW t \in Seq(S)
  PROVE  SubSeq(s \o t, 1, Len(s)) = s
<1>1. Len(s) \in 0 .. Len(s)
  BY LenProperties
<1>. QED
  BY <1>1, PrefixOfConcat, SubSeqFull

LEMMA Split ==
  ASSUME NEW S, NEW s \in Seq(S), NEW k \in 0 .. Len(s)
  PROVE  /\ SubSeq(s, 1, k) \in Seq(S)
         /\ SubSeq(s, k + 1, Len(s)) \in Seq(S)
         /\ Len(SubSeq(s, 1, k)) = k
         /\ Len(SubSeq(s, k + 1, Len(s))) = Len(s) - k
         /\ SubSeq(s, 1, k) \o SubSeq(s, k + 1, Len(s)) = s
<1>1. Len(s) \in Nat /\ \A i \in 1 .. Len(s) : s[i] \in S
  BY LenProperties, ElementOfSeq
<1>2. \A i \in 1 .. k : s[i] \in S
  BY <1>1
<1>3. \A i \in k + 1 .. Len(s) : s[i] \in S
  BY <1>1
<1>4. SubSeq(s, 1, k) \in Seq(S) /\ Len(SubSeq(s, 1, k)) = k
  BY <1>1, <1>2, SubSeqProperties
<1>5. /\ SubSeq(s, k + 1, Len(s)) \in Seq(S)
      /\ Len(SubSeq(s, k + 1, Len(s))) = Len(s) - k
  <2>1. k + 1 \in Int /\ Len(s) \in Int
    BY <1>1
  <2>. QED
    BY <1>1, <1>3, <2>1, SubSeqProperties
<1>6. SubSeq(s, 1, k) \o SubSeq(s, k + 1, Len(s)) = SubSeq(s, 1, Len(s))
  <2>1. 1 \in 1 .. Len(s) + 1 /\ k \in 1 - 1 .. Len(s) /\ Len(s) \in k .. Len(s)
    BY <1>1
  <2>. QED
    BY <2>1, ConcatAdjacentSubSeq
<1>. QED
  BY <1>4, <1>5, <1>6, SubSeqFull

-------------------------------------------------------------------------------
(* One iteration of the loop: what is copied and what is left make up the  *)
(* string, what is copied fits, and if something is left the buffer is     *)
(* full.                                                                   *)

LEMMA Iteration ==
  ASSUME Types, jstr.has_buf, RoomForNull, rest # <<>>
  PROVE  /\ Copied \in Text /\ Left \in Text
         /\ Copied \o Left = buf \o rest
         /\ Len(Copied) < jstr.buf_size
         /\ Left # <<>> => Len(Copied) = jstr.buf_size - 1
         /\ Len(buf) = jstr.buf_size - 1 => Copied = buf /\ Left # <<>>
<1>. DEFINE taken == SubSeq(rest, 1, CopyLen)
<1>1. Len(rest) \in Nat /\ Len(rest) > 0 /\ Len(buf) \in Nat /\ jstr.buf_size \in Nat
  BY EmptySeq, LenProperties DEF Types, Text
<1>2. /\ CopyLen \in 0 .. Len(rest)
      /\ CopyLen = Len(rest) \/ CopyLen = jstr.buf_size - Len(buf) - 1
      /\ CopyLen <= jstr.buf_size - Len(buf) - 1
  BY <1>1 DEF CopyLen, json_gen_get_empty_len, RoomForNull
<1>3. /\ taken \in Text /\ Left \in Text
      /\ Len(taken) = CopyLen /\ Len(Left) = Len(rest) - CopyLen
      /\ taken \o Left = rest
  <2>1. rest \in Seq(Char)
    BY DEF Types, Text
  <2>2. ASSUME NEW k \in 0 .. Len(rest)
        PROVE  /\ SubSeq(rest, 1, k) \in Text /\ SubSeq(rest, k + 1, Len(rest)) \in Text
               /\ Len(SubSeq(rest, 1, k)) = k
               /\ Len(SubSeq(rest, k + 1, Len(rest))) = Len(rest) - k
               /\ SubSeq(rest, 1, k) \o SubSeq(rest, k + 1, Len(rest)) = rest
    BY <2>1, Split DEF Text
  <2>. QED
    BY <1>2, <2>2 DEF Left
<1>4. Copied \in Text /\ Len(Copied) = Len(buf) + CopyLen
  BY <1>3, ConcatProperties DEF Types, Text, Copied
<1>5. Copied \o Left = buf \o rest
  <2>1. buf \in Seq(Char) /\ taken \in Seq(Char) /\ Left \in Seq(Char)
    BY <1>3 DEF Types, Text
  <2>2. Copied = buf \o taken
    BY DEF Copied
  <2>. HIDE DEF taken
  <2>3. (buf \o taken) \o Left = buf \o (taken \o Left)
    BY <2>1, ConcatAssociative
  <2>. QED
    BY <1>3, <2>2, <2>3
<1>6. Left # <<>> => CopyLen # Len(rest)
  BY <1>1, <1>3, EmptySeq DEF Text
<1>7. ASSUME Len(buf) = jstr.buf_size - 1
      PROVE  Copied = buf /\ Left # <<>>
  <2>1. CopyLen = 0
    BY <1>1, <1>2, <1>7
  <2>2. taken = <<>>
    BY <1>3, <2>1, EmptySeq DEF Text
  <2>3. Left # <<>>
    BY <1>1, <1>3, <2>1, EmptySeq DEF Text
  <2>. QED
    BY <2>2, <2>3, ConcatEmptySeq DEF Types, Text, Copied
<1>8. Len(Copied) < jstr.buf_size
  BY <1>1, <1>2, <1>4
<1>9. Left # <<>> => Len(Copied) = jstr.buf_size - 1
  BY <1>1, <1>2, <1>4, <1>6
<1>. QED
  BY <1>3, <1>4, <1>5, <1>7, <1>8, <1>9
-------------------------------------------------------------------------------
(* The actions.  The calls that describe the document differ only in the   *)
(* strings they add.                                                       *)

LEMMA Pieces ==
  /\ Quote \in Text /\ <<"quote", ":">> \in Text /\ <<",">> \in Text
  /\ \A kind : Opener(kind) \in Text /\ Closer(kind) \in Text
<1>1. /\ "quote" \in Char /\ ":" \in Char /\ "," \in Char
      /\ "{" \in Char /\ "}" \in Char /\ "[" \in Char /\ "]" \in Char
  BY TextAssumption DEF Punctuation
<1>2. /\ <<"quote">> \in Text /\ <<",">> \in Text
      /\ <<"{">> \in Text /\ <<"}">> \in Text /\ <<"[">> \in Text /\ <<"]">> \in Text
  BY <1>1, OneElement DEF Text
<1>3. <<"quote", ":">> \in Text
  BY <1>1, TwoElements DEF Text
<1>. QED
  BY <1>2, <1>3 DEF Quote, Opener, Closer

LEMMA StringsOfElement ==
  ASSUME NEW label \in Label, NEW strings \in Seq(Text)
  PROVE  Element(label, strings) \in Seq(Text)
<1>1. json_gen_handle_comma \in Seq(Text)
  <2>1. << <<",">> >> \in Seq(Text)
    BY Pieces, OneElement
  <2>2. <<>> \in Seq(Text)
    BY EmptySeq
  <2>. QED
    BY <2>1, <2>2 DEF json_gen_handle_comma
<1>2. json_gen_handle_name(label) \in Seq(Text)
  <2>1. CASE label = <<>>
    BY <2>1 DEF json_gen_handle_name
  <2>2. CASE label # <<>>
    <3>1. label[1] \in Text
      BY <2>2, TextAssumption DEF Label
    <3>2. Quote \in Text /\ <<"quote", ":">> \in Text
      BY Pieces
    <3>3. ASSUME NEW x \in Text, NEW y \in Text, NEW z \in Text
          PROVE  <<x, y, z>> \in Seq(Text)
      OBVIOUS
    <3>. QED
      BY <2>2, <3>1, <3>2, <3>3 DEF json_gen_handle_name
  <2>. QED
    BY <2>1, <2>2
<1>3. json_gen_handle_comma \o json_gen_handle_name(label) \in Seq(Text)
  BY <1>1, <1>2, ConcatProperties
<1>. QED
  BY <1>3, ConcatProperties DEF Element

LEMMA BuildIsCall ==
  ASSUME Types, Build
  PROVE  \E strings \in Seq(Text), comma_req \in BOOLEAN : Call(strings, comma_req)
<1>. DEFINE Goal == \E strings \in Seq(Text), comma_req \in BOOLEAN : Call(strings, comma_req)
<1>1. jstr.comma_req \in BOOLEAN
  BY DEF Types
<1>2. Quote \in Text /\ <<Quote>> \in Seq(Text)
  BY Pieces, OneElement
<1>3. \A label \in Label, strings \in Seq(Text) : Value(label, strings) => Goal
  BY StringsOfElement DEF Value
<1>4. ASSUME NEW label \in Label, NEW literal \in Literals, SetLiteral(label, literal)
      PROVE  Goal
  <2>1. <<literal>> \in Seq(Text)
    BY TextAssumption
  <2>. QED
    BY <1>3, <1>4, <2>1 DEF SetLiteral
<1>5. ASSUME NEW label \in Label, NEW val \in Strings, SetString(label, val)
      PROVE  Goal
  <2>1. <<Quote, val, Quote>> \in Seq(Text)
    BY <1>2, TextAssumption
  <2>. QED
    BY <1>3, <1>5, <2>1 DEF SetString
<1>6. ASSUME NEW label \in Label, NEW val \in Strings, StartLongString(label, val)
      PROVE  Goal
  <2>1. <<Quote, val>> \in Seq(Text)
    BY <1>2, TextAssumption
  <2>. QED
    BY <1>3, <1>6, <2>1 DEF StartLongString
<1>7. ASSUME NEW label \in Label, NEW object_str \in Objects, PushStr(label, object_str)
      PROVE  Goal
  <2>1. <<object_str>> \in Seq(Text)
    BY TextAssumption
  <2>. QED
    BY <1>3, <1>7, <2>1 DEF PushStr
<1>8. ASSUME NEW label \in Label, NEW kind \in {"object", "array"}, Push(kind, label)
      PROVE  Goal
  <2>1. <<Opener(kind)>> \in Seq(Text)
    BY Pieces, OneElement
  <2>2. Element(label, <<Opener(kind)>>) \in Seq(Text)
    BY <2>1, StringsOfElement
  <2>. QED
    BY <1>8, <2>2 DEF Push
<1>9. ASSUME NEW val \in Strings, json_gen_add_to_long_string(val)
      PROVE  Goal
  <2>1. <<val>> \in Seq(Text)
    BY TextAssumption
  <2>. QED
    BY <1>1, <1>9, <2>1 DEF json_gen_add_to_long_string
<1>10. ASSUME json_gen_end_long_string
       PROVE  Goal
  BY <1>1, <1>2, <1>10 DEF json_gen_end_long_string
<1>11. ASSUME NEW kind \in {"object", "array"}, Pop(kind)
       PROVE  Goal
  <2>1. <<Closer(kind)>> \in Seq(Text)
    BY Pieces, OneElement
  <2>. QED
    BY <1>11, <2>1 DEF Pop, Close
<1>. QED
  BY <1>4, <1>5, <1>6, <1>7, <1>8, <1>9, <1>10, <1>11 DEF Build

LEMMA StartInv ==
  ASSUME BufferInv, Start
  PROVE  BufferInv'
<1>. PICK has_buf \in BOOLEAN, flush \in BOOLEAN, size \in Sizes :
       json_gen_str_start(has_buf, size, flush)
  BY DEF Start
<1>1. size \in Nat /\ size > 0
  BY SizesAssumption DEF json_gen_str_start
<1>2. jstr' = [open |-> TRUE, has_buf |-> has_buf, buf_size |-> size, flush_cb |-> flush,
               comma_req |-> FALSE, total_len |-> 0]
  BY DEF json_gen_str_start, Zero
<1>3. /\ buf' = <<>> /\ out' = <<>> /\ text' = <<>>
      /\ pend' = <<>> /\ rest' = <<>>
  BY DEF json_gen_str_start, Idle
<1>4. <<>> \in Text /\ Len(<<>>) = 0 /\ <<>> \o <<>> = <<>> /\ SubSeq(<<>>, 1, 0) = <<>>
  BY EmptySeq, ConcatEmptySeq, SubSeqEmpty DEF Text
<1>5. Types'
  BY <1>1, <1>2, <1>3, <1>4 DEF Types
<1>6. Counted' /\ RoomForNull'
  BY <1>1, <1>2, <1>3, <1>4 DEF Counted, RoomForNull
<1>7. NothingLost'
  BY <1>3, <1>4 DEF NothingLost
<1>8. LongestPrefix'
  BY <1>3, <1>4 DEF LongestPrefix
<1>. QED
  BY <1>5, <1>6, <1>7, <1>8 DEF BufferInv

LEMMA CallInv ==
  ASSUME BufferInv, NEW strings \in Seq(Text), NEW comma_req \in BOOLEAN,
         Call(strings, comma_req)
  PROVE  BufferInv'
<1>1. /\ jstr.open
      /\ jstr' = [jstr EXCEPT !.comma_req = comma_req]
      /\ pend' = strings
      /\ UNCHANGED <<buf, out, rest, text>>
  BY DEF Call
<1>2. Types'
  BY <1>1 DEF BufferInv, Types
<1>3. /\ jstr'.open = jstr.open /\ jstr'.has_buf = jstr.has_buf
      /\ jstr'.buf_size = jstr.buf_size /\ jstr'.flush_cb = jstr.flush_cb
      /\ jstr'.total_len = jstr.total_len
  BY <1>1 DEF BufferInv, Types
<1>4. Counted' /\ RoomForNull'
  BY <1>1, <1>3 DEF BufferInv, Counted, RoomForNull
<1>5. NothingLost' /\ LongestPrefix'
  BY <1>1, <1>3 DEF BufferInv, NothingLost, LongestPrefix
<1>. QED
  BY <1>2, <1>4, <1>5 DEF BufferInv

LEMMA AddStartInv ==
  ASSUME BufferInv, AddStart
  PROVE  BufferInv'
<1>. DEFINE str == Head(pend)
<1>1. /\ str \in Seq(Char)
      /\ Tail(pend) \in Seq(Text)
      /\ Len(str) \in Nat
  <2>1. pend \in Seq(Text) /\ pend # <<>>
    BY DEF BufferInv, Types, AddStart, Begin
  <2>2. Head(pend) \in Text /\ Tail(pend) \in Seq(Text)
    BY <2>1, HeadTailProperties
  <2>. QED
    BY <2>2, LenProperties DEF Text
<1>2. /\ jstr' = [jstr EXCEPT !.total_len = @ + Len(str)]
      /\ pend' = Tail(pend)
      /\ rest = <<>>
      /\ rest' = IF jstr.has_buf THEN str ELSE <<>>
      /\ text' = text \o str
      /\ buf' = buf /\ out' = out
  BY DEF AddStart, Begin
<1>. HIDE DEF str
<1>3. /\ jstr'.open = jstr.open /\ jstr'.has_buf = jstr.has_buf
      /\ jstr'.buf_size = jstr.buf_size /\ jstr'.flush_cb = jstr.flush_cb
      /\ jstr'.total_len = jstr.total_len + Len(str)
  BY <1>2 DEF BufferInv, Types
<1>4. /\ buf \in Seq(Char) /\ out \in Seq(Char) /\ text \in Seq(Char)
      /\ Len(buf) \in Nat /\ Len(text) \in Nat
  BY LenProperties DEF BufferInv, Types, Text
<1>5. text \o str \in Seq(Char) /\ Len(text \o str) = Len(text) + Len(str)
  BY <1>1, <1>4, ConcatProperties
<1>6. Types'
  <2>1. jstr' \in [open : BOOLEAN, has_buf : BOOLEAN, buf_size : Nat, flush_cb : BOOLEAN,
                   comma_req : BOOLEAN, total_len : Nat]
    <3>1. jstr.total_len + Len(str) \in Nat
      BY <1>1 DEF BufferInv, Types
    <3>2. jstr' = [jstr EXCEPT !.total_len = jstr.total_len + Len(str)]
      BY <1>2
    <3>. QED
      BY <3>1, <3>2 DEF BufferInv, Types
  <2>2. rest' \in Text
    <3>1. <<>> \in Seq(Char)
      BY EmptySeq
    <3>. QED
      BY <1>1, <1>2, <3>1 DEF Text
  <2>. QED
    BY <1>1, <1>2, <1>4, <1>5, <2>1, <2>2 DEF Types, Text
<1>7. Counted'
  <2>1. jstr.open
    BY DEF BufferInv, Counted, AddStart, Begin
  <2>. QED
    BY <1>2, <1>3, <1>5, <2>1 DEF BufferInv, Counted
<1>8. RoomForNull'
  BY <1>2, <1>3 DEF BufferInv, RoomForNull
<1>9. NothingLost'
  <2>. SUFFICES ASSUME jstr.has_buf, jstr.flush_cb
                PROVE  (out \o buf) \o str = text \o str
    BY <1>2, <1>3 DEF NothingLost
  <2>1. (out \o buf) \o <<>> = text
    BY <1>2 DEF BufferInv, NothingLost
  <2>2. out \o buf \in Seq(Char)
    BY <1>4, ConcatProperties
  <2>. QED
    BY <2>1, <2>2, ConcatEmptySeq
<1>10. LongestPrefix'
  <2>. SUFFICES ASSUME jstr.has_buf, ~jstr.flush_cb
                PROVE  IF Len(buf) = jstr.buf_size - 1
                       THEN /\ SubSeq(text \o str, 1, Len(buf)) = buf
                            /\ Len(text \o str) >= Len(buf)
                       ELSE buf \o str = text \o str
    BY <1>2, <1>3 DEF LongestPrefix
  <2>1. CASE Len(buf) = jstr.buf_size - 1
    <3>1. SubSeq(text, 1, Len(buf)) = buf /\ Len(text) >= Len(buf)
      BY <2>1 DEF BufferInv, LongestPrefix
    <3>2. Len(buf) \in 0 .. Len(text)
      BY <1>4, <3>1
    <3>3. SubSeq(text \o str, 1, Len(buf)) = SubSeq(text, 1, Len(buf))
      BY <1>1, <1>4, <3>2, PrefixOfConcat
    <3>. QED
      BY <1>1, <1>4, <1>5, <2>1, <3>1, <3>3
  <2>2. CASE Len(buf) # jstr.buf_size - 1
    <3>1. buf \o <<>> = text
      BY <1>2, <2>2 DEF BufferInv, LongestPrefix
    <3>. QED
      BY <1>4, <2>2, <3>1, ConcatEmptySeq
  <2>. QED
    BY <2>1, <2>2
<1>. QED
  BY <1>6, <1>7, <1>8, <1>9, <1>10 DEF BufferInv

LEMMA AddCopyInv ==
  ASSUME BufferInv, AddFits \/ AddFlush \/ AddDrop
  PROVE  BufferInv'
<1>1. rest # <<>> /\ jstr.has_buf
  BY DEF BufferInv, Counted, AddFits, AddFlush, AddDrop, Drop
<1>2. /\ Copied \in Seq(Char) /\ Left \in Seq(Char)
      /\ Copied \o Left = buf \o rest
      /\ Len(Copied) < jstr.buf_size
      /\ Left # <<>> => Len(Copied) = jstr.buf_size - 1
      /\ Len(buf) = jstr.buf_size - 1 => Copied = buf /\ Left # <<>>
  BY <1>1, Iteration DEF BufferInv, Text
<1>3. jstr' = jstr /\ pend' = pend /\ text' = text
  BY DEF AddFits, AddFlush, AddDrop, Drop
<1>4. /\ buf \in Seq(Char) /\ out \in Seq(Char) /\ text \in Seq(Char)
      /\ rest \in Seq(Char)
      /\ Len(buf) \in Nat /\ Len(text) \in Nat /\ Len(Copied) \in Nat
      /\ jstr.buf_size \in Nat
  BY <1>2, LenProperties DEF BufferInv, Types, Text
<1>5. CASE Left = <<>>
  <2>1. buf' = Copied /\ rest' = <<>> /\ out' = out
    BY <1>5 DEF AddFits, AddFlush, AddDrop, Drop
  <2>2. Copied = buf \o rest
    BY <1>2, <1>5, ConcatEmptySeq
  <2>3. Types'
    BY <1>2, <1>3, <2>1 DEF BufferInv, Types, Text
  <2>4. Counted' /\ RoomForNull'
    BY <1>2, <1>3, <2>1 DEF BufferInv, Counted, RoomForNull
  <2>5. NothingLost'
    <3>1. out \o (buf \o rest) = (out \o buf) \o rest
      BY <1>4, Associative
    <3>2. out \o Copied \in Seq(Char)
      BY <1>2, <1>4, ConcatProperties
    <3>3. (out \o Copied) \o <<>> = out \o Copied
      BY <3>2, ConcatEmptySeq
    <3>. QED
      BY <1>3, <2>1, <2>2, <3>1, <3>3 DEF BufferInv, NothingLost
  <2>6. LongestPrefix'
    <3>. SUFFICES ASSUME ~jstr.flush_cb
                  PROVE  Copied = text
      <4>1. SubSeq(text, 1, Len(text)) = text /\ text \o <<>> = text
        BY <1>4, SubSeqFull, ConcatEmptySeq
      <4>. QED
        BY <1>3, <1>4, <2>1, <4>1 DEF LongestPrefix
    <3>1. Len(buf) # jstr.buf_size - 1
      BY <1>2, <1>5
    <3>. QED
      BY <1>1, <2>2, <3>1 DEF BufferInv, LongestPrefix
  <2>. QED
    BY <2>3, <2>4, <2>5, <2>6 DEF BufferInv
<1>6. CASE Left # <<>> /\ jstr.flush_cb
  <2>1. out' = out \o Copied /\ buf' = <<>> /\ rest' = Left
    BY <1>6 DEF AddFits, AddFlush, AddDrop, Drop
  <2>2. out \o Copied \in Seq(Char) /\ <<>> \in Seq(Char) /\ Len(<<>>) = 0
    BY <1>2, <1>4, ConcatProperties, EmptySeq
  <2>3. Types'
    BY <1>2, <1>3, <2>1, <2>2 DEF BufferInv, Types, Text
  <2>4. Counted'
    BY <1>1, <1>3 DEF BufferInv, Counted
  <2>5. RoomForNull'
    BY <1>2, <1>3, <1>4, <2>1, <2>2 DEF RoomForNull
  <2>6. NothingLost'
    <3>1. (out \o Copied) \o <<>> = out \o Copied
      BY <2>2, ConcatEmptySeq
    <3>2. (out \o Copied) \o Left = out \o (Copied \o Left)
      <4>1. (out ++ Copied) ++ Left = out ++ (Copied ++ Left)
        BY <1>2, <1>4, JoinAssociative
      <4>. QED
        BY <4>1 DEF ++
    <3>3. out \o (buf \o rest) = (out \o buf) \o rest
      BY <1>4, Associative
    <3>. QED
      BY <1>2, <1>3, <2>1, <3>1, <3>2, <3>3 DEF BufferInv, NothingLost
  <2>7. LongestPrefix'
    BY <1>3, <1>6 DEF LongestPrefix
  <2>. QED
    BY <2>3, <2>4, <2>5, <2>6, <2>7 DEF BufferInv
<1>7. CASE Left # <<>> /\ ~jstr.flush_cb
  <2>1. buf' = Copied /\ rest' = <<>> /\ out' = out
    BY <1>7 DEF AddFits, AddFlush, AddDrop, Drop
  <2>2. Types'
    BY <1>2, <1>3, <2>1 DEF BufferInv, Types, Text
  <2>3. Counted' /\ RoomForNull'
    BY <1>2, <1>3, <2>1 DEF BufferInv, Counted, RoomForNull
  <2>4. NothingLost'
    BY <1>3, <1>7 DEF NothingLost
  <2>5. LongestPrefix'
    <3>. SUFFICES SubSeq(text, 1, Len(Copied)) = Copied /\ Len(text) >= Len(Copied)
      BY <1>2, <1>3, <1>7, <2>1 DEF LongestPrefix
    <3>1. CASE Len(buf) = jstr.buf_size - 1
      BY <1>1, <1>2, <1>7, <3>1 DEF BufferInv, LongestPrefix
    <3>2. CASE Len(buf) # jstr.buf_size - 1
      <4>1. Copied \o Left = text
        BY <1>1, <1>2, <1>7, <3>2 DEF BufferInv, LongestPrefix
      <4>2. SubSeq(Copied \o Left, 1, Len(Copied)) = Copied
        BY <1>2, ConcatPrefix
      <4>3. Len(Copied \o Left) = Len(Copied) + Len(Left) /\ Len(Left) \in Nat
        BY <1>2, ConcatProperties, LenProperties
      <4>. QED
        BY <1>4, <4>1, <4>2, <4>3
    <3>. QED
      BY <3>1, <3>2
  <2>. QED
    BY <2>2, <2>3, <2>4, <2>5 DEF BufferInv
<1>. QED
  BY <1>5, <1>6, <1>7

LEMMA EndInv ==
  ASSUME BufferInv, json_gen_str_end
  PROVE  BufferInv'
<1>1. /\ jstr' = Zero
      /\ pend' = <<>> /\ rest' = <<>>
      /\ buf' = buf /\ text' = text
      /\ out' = out \/ out' = out \o buf
  BY DEF json_gen_str_end, End, Idle
<1>2. out \o buf \in Text
  <2>1. buf \in Seq(Char) /\ out \in Seq(Char)
    BY DEF BufferInv, Types, Text
  <2>. QED
    BY <2>1, ConcatProperties DEF Text
<1>3. Types'
  <2>1. <<>> \in Text /\ <<>> \in Seq(Text)
    BY EmptySeq DEF Text
  <2>2. Zero \in [open : BOOLEAN, has_buf : BOOLEAN, buf_size : Nat, flush_cb : BOOLEAN,
                 comma_req : BOOLEAN, total_len : Nat]
    BY DEF Zero
  <2>. QED
    BY <1>1, <1>2, <2>1, <2>2 DEF BufferInv, Types
<1>4. ~jstr'.open /\ ~jstr'.has_buf
  BY <1>1 DEF Zero
<1>. QED
  BY <1>1, <1>3, <1>4 DEF BufferInv, Counted, RoomForNull, NothingLost, LongestPrefix

-------------------------------------------------------------------------------
(* The theorems.                                                           *)

LEMMA InitInv == Init => BufferInv
BY DEF Init, Zero, BufferInv, Types, Text, Counted, RoomForNull, NothingLost, LongestPrefix

LEMMA NextInv == BufferInv /\ [Next]_vars => BufferInv'
<1>. SUFFICES ASSUME BufferInv, [Next]_vars
              PROVE  BufferInv'
  OBVIOUS
<1>1. CASE Start
  BY <1>1, StartInv
<1>2. CASE Build
  BY <1>2, BuildIsCall, CallInv DEF BufferInv
<1>3. CASE AddStart
  BY <1>3, AddStartInv
<1>4. CASE AddFits \/ AddFlush \/ AddDrop
  BY <1>4, AddCopyInv
<1>5. CASE json_gen_str_end
  BY <1>5, EndInv
<1>6. CASE UNCHANGED vars
  BY <1>6 DEF vars, BufferInv, Types, Counted, RoomForNull, NothingLost, LongestPrefix
<1>. QED
  BY <1>1, <1>2, <1>3, <1>4, <1>5, <1>6 DEF Next

\* The invariant of the buffer holds in every reachable state.
THEOREM Invariant == Spec => []BufferInv
BY InitInv, NextInv, PTL DEF Spec

\* json_gen_add_to_str and json_gen_str_end write within the buffer.
THEOREM WithinBuffer == Spec => []RoomForNull
<1>1. BufferInv => RoomForNull
  BY DEF BufferInv
<1>. QED
  BY <1>1, Invariant, PTL

\* With a callback, what it was given and what the buffer holds is the text;
\* without one, the buffer holds the longest prefix of the text that fits.
THEOREM Complete == Spec => []TextKept
<1>1. BufferInv => TextKept
  BY DEF BufferInv, TextKept
<1>. QED
  BY <1>1, Invariant, PTL

\* Until the end of a document, whole buffers are flushed.
THEOREM Chunks == Spec => FullChunks
<1>. DEFINE A == jstr.open /\ jstr'.open /\ out' # out =>
                   Len(out') = Len(out) + jstr.buf_size - 1
<1>1. ASSUME BufferInv, Next
      PROVE  A
  <2>. SUFFICES ASSUME jstr.open, jstr'.open, out' # out
                PROVE  Len(out') = Len(out) + jstr.buf_size - 1
    OBVIOUS
  <2>1. AddFlush
    <3>1. ~Start
      BY DEF Start, json_gen_str_start
    <3>2. ~Build
      BY <1>1, BuildIsCall DEF BufferInv, Call
    <3>3. ~AddStart /\ ~AddFits /\ ~AddDrop
      BY DEF AddStart, Begin, AddFits, AddDrop, Drop
    <3>4. ~json_gen_str_end
      BY DEF json_gen_str_end, End, Zero
    <3>. QED
      BY <1>1, <3>1, <3>2, <3>3, <3>4 DEF Next
  <2>2. Left # <<>> /\ out' = out \o Copied /\ rest # <<>>
    BY <2>1 DEF AddFlush
  <2>3. jstr.has_buf
    BY <1>1, <2>2 DEF BufferInv, Counted
  <2>4. Copied \in Text /\ Len(Copied) = jstr.buf_size - 1
    BY <1>1, <2>2, <2>3, Iteration DEF BufferInv
  <2>5. out \in Text /\ Len(out) \in Nat /\ jstr.buf_size \in Nat
    BY <1>1, LenProperties DEF BufferInv, Types, Text
  <2>6. Len(out \o Copied) = Len(out) + Len(Copied)
    BY <2>4, <2>5, ConcatProperties DEF Text
  <2>. QED
    BY <2>2, <2>4, <2>5, <2>6
<1>2. BufferInv /\ [Next]_vars => [A]_vars
  BY <1>1
<1>. QED
  BY <1>2, Invariant, PTL DEF Spec, FullChunks

\* json_gen_str_end returns the size of the text and has flushed all of it.
THEOREM WholeText == Spec => Delivered
<1>. DEFINE A == jstr.open /\ ~jstr'.open =>
                   /\ rc' = Len(text) + 1
                   /\ jstr.has_buf /\ jstr.flush_cb => out' = text
<1>1. ASSUME BufferInv, Next
      PROVE  A
  <2>. SUFFICES ASSUME jstr.open, ~jstr'.open
                PROVE  /\ rc' = Len(text) + 1
                       /\ jstr.has_buf /\ jstr.flush_cb => out' = text
    OBVIOUS
  <2>1. json_gen_str_end
    <3>1. ~Start
      BY DEF Start, json_gen_str_start
    <3>2. ~Build
      BY <1>1, BuildIsCall DEF BufferInv, Types, Call
    <3>3. ~AddStart
      BY <1>1 DEF BufferInv, Types, AddStart, Begin
    <3>4. ~AddFits /\ ~AddFlush /\ ~AddDrop
      BY DEF AddFits, AddFlush, AddDrop, Drop
    <3>. QED
      BY <1>1, <3>1, <3>2, <3>3, <3>4 DEF Next
  <2>2. rc' = Len(text) + 1
    BY <1>1, <2>1 DEF BufferInv, Counted, json_gen_str_end, End
  <2>3. ASSUME jstr.has_buf, jstr.flush_cb
        PROVE  out' = text
    <3>1. out' = out \o buf /\ rest = <<>>
      BY <2>1, <2>3 DEF json_gen_str_end, End, Idle
    <3>2. out \o buf \in Seq(Char)
      BY <1>1, ConcatProperties DEF BufferInv, Types, Text
    <3>3. (out \o buf) \o <<>> = text
      BY <1>1, <2>3, <3>1 DEF BufferInv, NothingLost
    <3>. QED
      BY <3>1, <3>2, <3>3, ConcatEmptySeq
  <2>. QED
    BY <2>2, <2>3
<1>2. BufferInv /\ [Next]_vars => [A]_vars
  BY <1>1 DEF vars
<1>. QED
  BY <1>2, Invariant, PTL DEF Spec, Delivered

-------------------------------------------------------------------------------
(* The document.  All of its texts are joined with ++.                     *)

LEMMA TextAlgebra ==
  /\ <<>> \in Text
  /\ \A s, t \in Text : s ++ t \in Text
  /\ \A s, t, u \in Text : (s ++ t) ++ u = s ++ (t ++ u)
  /\ \A s \in Text : s ++ <<>> = s /\ <<>> ++ s = s
BY JoinType, JoinAssociative, JoinEmpty DEF Text

LEMMA FlattenText ==
  /\ FlattenSeq(<<>>) = <<>>
  /\ \A s \in Seq(Text) : FlattenSeq(s) \in Text
  /\ \A s \in Seq(Text), e \in Text : FlattenSeq(Append(s, e)) = FlattenSeq(s) ++ e
  /\ \A s \in Seq(Text) : s # <<>> => FlattenSeq(s) = Head(s) ++ FlattenSeq(Tail(s))
  /\ \A s, t \in Seq(Text) : FlattenSeq(s \o t) = FlattenSeq(s) ++ FlattenSeq(t)
  /\ \A x \in Text : FlattenSeq(<<x>>) = x
  /\ \A x, y \in Text : FlattenSeq(<<x, y>>) = x ++ y
  /\ \A x, y, z \in Text : FlattenSeq(<<x, y, z>>) = (x ++ y) ++ z
<1>1. FlattenSeq(<<>>) = <<>>
  BY FlattenEmpty
<1>2. \A s \in Seq(Seq(Char)) : FlattenSeq(s) \in Seq(Char)
  BY FlattenType
<1>3. \A s \in Seq(Seq(Char)), e \in Seq(Char) : FlattenSeq(Append(s, e)) = FlattenSeq(s) ++ e
  BY FlattenAppend
<1>4. \A s \in Seq(Seq(Char)) : s # <<>> => FlattenSeq(s) = Head(s) ++ FlattenSeq(Tail(s))
  BY FlattenHead
<1>5. \A s, t \in Seq(Seq(Char)) : FlattenSeq(s \o t) = FlattenSeq(s) ++ FlattenSeq(t)
  BY FlattenJoin
<1>6. /\ \A x \in Seq(Char) : FlattenSeq(<<x>>) = x
      /\ \A x, y \in Seq(Char) : FlattenSeq(<<x, y>>) = x ++ y
      /\ \A x, y, z \in Seq(Char) : FlattenSeq(<<x, y, z>>) = (x ++ y) ++ z
  BY FlattenShort
<1>. QED
  BY <1>1, <1>2, <1>3, <1>4, <1>5, <1>6 DEF Text

\* A comma is due behind a frame that has elements.
Separator(f) == IF f.items = <<>> THEN <<>> ELSE <<",">>
WithItem(f, element) == [f EXCEPT !.items = Append(@, element)]

\* A frame and its finished elements; the frames around the innermost one, up
\* to the element of theirs that is not finished.
Shown(f) == f.opener ++ Joined(f.items)
Frames(base) == [i \in DOMAIN base |-> Shown(base[i]) ++ Separator(base[i])]
Around(base) == FlattenSeq(Frames(base))

\* A document by the frames around the innermost one, that one, and the long
\* string.
Doc(base, top, long) == [open |-> Append(base, top), long |-> long]

LEMMA Commas ==
  /\ <<",">> \in Text
  /\ \A f : Separator(f) \in Text
BY Pieces, TextAlgebra DEF Separator

LEMMA JoinedEmpty == Joined(<<>>) = <<>>
<1>. DEFINE s == [i \in DOMAIN <<>> |-> IF i = 1 THEN <<>>[i] ELSE <<",">> \o <<>>[i]]
<1>1. s = <<>>
  OBVIOUS
<1>2. Joined(<<>>) = FlattenSeq(s)
  BY Zenon DEF Joined
<1>. QED
  BY <1>1, <1>2, FlattenEmpty

\* The elements with their commas, as a list of strings.
Parts(items) == [i \in DOMAIN items |-> IF i = 1 THEN items[i] ELSE <<",">> \o items[i]]

LEMMA FunctionIsSeq ==
  ASSUME NEW S, NEW n \in Nat, NEW f \in [1 .. n -> S]
  PROVE  f \in Seq(S) /\ Len(f) = n
OBVIOUS

LEMMA PartsAre ==
  ASSUME NEW items \in Seq(Text)
  PROVE  /\ Parts(items) \in Seq(Text)
         /\ Len(Parts(items)) = Len(items)
         /\ \A i \in 1 .. Len(items) :
              Parts(items)[i] = IF i = 1 THEN items[i] ELSE <<",">> ++ items[i]
<1>1. DOMAIN items = 1 .. Len(items) /\ Len(items) \in Nat
  BY LenProperties
<1>2. ASSUME NEW i \in 1 .. Len(items)
      PROVE  /\ Parts(items)[i] = IF i = 1 THEN items[i] ELSE <<",">> ++ items[i]
             /\ Parts(items)[i] \in Text
  <2>1. items[i] \in Text
    BY ElementOfSeq
  <2>2. <<",">> ++ items[i] \in Text
    BY <2>1, Commas, TextAlgebra
  <2>3. Parts(items)[i] = IF i = 1 THEN items[i] ELSE <<",">> ++ items[i]
    BY <1>1 DEF Parts, ++
  <2>. QED
    BY <2>1, <2>2, <2>3
<1>3. Parts(items) \in [1 .. Len(items) -> Text]
  <2>1. Parts(items) = [i \in 1 .. Len(items) |-> Parts(items)[i]]
    BY <1>1 DEF Parts
  <2>. QED
    BY <1>2, <2>1
<1>. HIDE DEF Parts
<1>. QED
  BY <1>1, <1>2, <1>3, FunctionIsSeq

\* One more element, behind a comma unless it is the first.
LEMMA JoinedAppend ==
  ASSUME NEW items \in Seq(Text), NEW e \in Text
  PROVE  Joined(Append(items, e)) =
           Joined(items) ++ ((IF items = <<>> THEN <<>> ELSE <<",">>) ++ e)
<1>. DEFINE n == Len(items)
            more == Append(items, e)
            last == IF n = 0 THEN e ELSE <<",">> ++ e
<1>1. /\ n \in Nat
      /\ more \in Seq(Text) /\ Len(more) = n + 1
      /\ \A i \in 1 .. n : more[i] = items[i]
      /\ more[n + 1] = e
  BY LenProperties, AppendProperties
<1>2. last \in Text
  BY Commas, TextAlgebra
<1>. HIDE DEF more, last
<1>3. /\ Parts(items) \in Seq(Text) /\ Len(Parts(items)) = n
      /\ Parts(more) \in Seq(Text) /\ Len(Parts(more)) = n + 1
      /\ \A i \in 1 .. n : Parts(more)[i] = Parts(items)[i]
      /\ Parts(more)[n + 1] = last
  <2>1. /\ Parts(items) \in Seq(Text) /\ Len(Parts(items)) = n
        /\ \A i \in 1 .. n :
             Parts(items)[i] = IF i = 1 THEN items[i] ELSE <<",">> ++ items[i]
    BY PartsAre
  <2>2. /\ Parts(more) \in Seq(Text) /\ Len(Parts(more)) = n + 1
        /\ \A i \in 1 .. n + 1 :
             Parts(more)[i] = IF i = 1 THEN more[i] ELSE <<",">> ++ more[i]
    <3>1. /\ Parts(more) \in Seq(Text) /\ Len(Parts(more)) = Len(more)
          /\ \A i \in 1 .. Len(more) :
               Parts(more)[i] = IF i = 1 THEN more[i] ELSE <<",">> ++ more[i]
      BY <1>1, PartsAre
    <3>. QED
      BY <1>1, <3>1
  <2>3. \A i \in 1 .. n : i \in 1 .. n + 1
    BY <1>1
  <2>4. \A i \in 1 .. n : Parts(more)[i] = Parts(items)[i]
    BY <1>1, <2>1, <2>2, <2>3
  <2>5. n + 1 \in 1 .. n + 1 /\ (n + 1 = 1 <=> n = 0)
    BY <1>1
  <2>6. Parts(more)[n + 1] = last
    BY <1>1, <2>2, <2>5 DEF last
  <2>. QED
    BY <2>1, <2>2, <2>4, <2>6
<1>4. Parts(more) = Append(Parts(items), last)
  <2>1. /\ Append(Parts(items), last) \in Seq(Text) /\ Len(Append(Parts(items), last)) = n + 1
        /\ \A i \in 1 .. n : Append(Parts(items), last)[i] = Parts(items)[i]
        /\ Append(Parts(items), last)[n + 1] = last
    BY <1>2, <1>3, AppendProperties
  <2>2. \A i \in 1 .. n + 1 : i \in 1 .. n \/ i = n + 1
    BY <1>1
  <2>3. \A i \in 1 .. Len(Parts(more)) : Parts(more)[i] = Append(Parts(items), last)[i]
    BY <1>3, <2>1, <2>2
  <2>. QED
    BY <1>3, <2>1, <2>3, SeqEqual
<1>5. last = (IF items = <<>> THEN <<>> ELSE <<",">>) ++ e
  <2>1. n = 0 <=> items = <<>>
    BY EmptySeq
  <2>2. <<>> ++ e = e
    BY TextAlgebra
  <2>. QED
    BY <2>1, <2>2 DEF last
<1>6. FlattenSeq(Parts(more)) = FlattenSeq(Parts(items)) ++ last
  BY <1>2, <1>3, <1>4, FlattenText
<1>7. Joined(more) = FlattenSeq(Parts(more)) /\ Joined(items) = FlattenSeq(Parts(items))
  BY Zenon DEF Joined, Parts
<1>. QED
  BY <1>5, <1>6, <1>7 DEF more

LEMMA JoinedType ==
  ASSUME NEW items \in Seq(Text)
  PROVE  Joined(items) \in Text
<1>1. Joined(items) = FlattenSeq(Parts(items))
  BY Zenon DEF Joined, Parts
<1>. QED
  BY <1>1, PartsAre, FlattenText

LEMMA ShownType ==
  ASSUME NEW f \in Frame
  PROVE  /\ f.opener \in Text /\ f.items \in Seq(Text)
         /\ Shown(f) \in Text
         /\ Shown(f) ++ Separator(f) \in Text
<1>1. f.opener \in Text /\ f.items \in Seq(Text)
  BY DEF Frame
<1>. QED
  BY <1>1, JoinedType, Commas, TextAlgebra DEF Shown

LEMMA FramesAre ==
  ASSUME NEW base \in Seq(Frame)
  PROVE  /\ Frames(base) \in Seq(Text)
         /\ Len(Frames(base)) = Len(base)
         /\ \A i \in 1 .. Len(base) : Frames(base)[i] = Shown(base[i]) ++ Separator(base[i])
<1>1. DOMAIN base = 1 .. Len(base) /\ Len(base) \in Nat
  BY LenProperties
<1>2. ASSUME NEW i \in 1 .. Len(base)
      PROVE  /\ Frames(base)[i] = Shown(base[i]) ++ Separator(base[i])
             /\ Frames(base)[i] \in Text
  <2>1. base[i] \in Frame
    BY ElementOfSeq
  <2>2. Frames(base)[i] = Shown(base[i]) ++ Separator(base[i])
    BY <1>1 DEF Frames
  <2>. QED
    BY <2>1, <2>2, ShownType
<1>3. Frames(base) \in [1 .. Len(base) -> Text]
  <2>1. Frames(base) = [i \in 1 .. Len(base) |-> Frames(base)[i]]
    BY <1>1 DEF Frames
  <2>. QED
    BY <1>2, <2>1
<1>. QED
  BY <1>1, <1>2, <1>3, FunctionIsSeq

LEMMA FramesAppend ==
  ASSUME NEW base \in Seq(Frame), NEW top \in Frame
  PROVE  Around(Append(base, top)) = Around(base) ++ (Shown(top) ++ Separator(top))
<1>. DEFINE n == Len(base)
            all == Append(base, top)
            last == Shown(top) ++ Separator(top)
<1>1. /\ n \in Nat
      /\ all \in Seq(Frame) /\ Len(all) = n + 1
      /\ \A i \in 1 .. n : all[i] = base[i]
      /\ all[n + 1] = top
  BY LenProperties, AppendProperties
<1>2. last \in Text
  BY ShownType
<1>. HIDE DEF all
<1>3. /\ Frames(base) \in Seq(Text) /\ Len(Frames(base)) = n
      /\ \A i \in 1 .. n : Frames(base)[i] = Shown(base[i]) ++ Separator(base[i])
      /\ Frames(all) \in Seq(Text) /\ Len(Frames(all)) = n + 1
      /\ \A i \in 1 .. n + 1 : Frames(all)[i] = Shown(all[i]) ++ Separator(all[i])
  <2>1. /\ Frames(all) \in Seq(Text) /\ Len(Frames(all)) = Len(all)
        /\ \A i \in 1 .. Len(all) : Frames(all)[i] = Shown(all[i]) ++ Separator(all[i])
    BY <1>1, FramesAre
  <2>. QED
    BY <1>1, <2>1, FramesAre
<1>4. /\ \A i \in 1 .. n : Frames(all)[i] = Frames(base)[i]
      /\ Frames(all)[n + 1] = last
  <2>1. \A i \in 1 .. n : i \in 1 .. n + 1
    BY <1>1
  <2>2. n + 1 \in 1 .. n + 1
    BY <1>1
  <2>. QED
    BY <1>1, <1>3, <2>1, <2>2
<1>. HIDE DEF last
<1>5. Frames(all) = Append(Frames(base), last)
  <2>1. /\ Append(Frames(base), last) \in Seq(Text) /\ Len(Append(Frames(base), last)) = n + 1
        /\ \A i \in 1 .. n : Append(Frames(base), last)[i] = Frames(base)[i]
        /\ Append(Frames(base), last)[n + 1] = last
    BY <1>2, <1>3, AppendProperties
  <2>2. \A i \in 1 .. n + 1 : i \in 1 .. n \/ i = n + 1
    BY <1>1
  <2>3. \A i \in 1 .. Len(Frames(all)) : Frames(all)[i] = Append(Frames(base), last)[i]
    BY <1>3, <1>4, <2>1, <2>2
  <2>. QED
    BY <1>3, <2>1, <2>3, SeqEqual
<1>6. FlattenSeq(Frames(all)) = FlattenSeq(Frames(base)) ++ last
  BY <1>2, <1>3, <1>5, FlattenText
<1>. QED
  BY <1>6 DEF Around, all, last

LEMMA AroundType ==
  ASSUME NEW base \in Seq(Frame)
  PROVE  Around(base) \in Text
BY FramesAre, FlattenText DEF Around

LEMMA AroundNothing == Around(<<>>) = <<>>
<1>1. Frames(<<>>) = <<>>
  BY DEF Frames
<1>. QED
  BY <1>1, FlattenEmpty DEF Around

\* The text of a document, by its frames.
LEMMA RenderDoc ==
  ASSUME NEW base \in Seq(Frame), NEW top \in Frame, NEW long \in Text
  PROVE  Render(Doc(base, top, long)) =
           (Around(base) ++ (Shown(top) ++ (IF long # <<>> THEN Separator(top) ELSE <<>>))) ++ long
<1>. DEFINE n == Len(base)
            all == Append(base, top)
            d == Doc(base, top, long)
            last == Shown(top) ++ (IF long # <<>> THEN Separator(top) ELSE <<>>)
            body == [i \in DOMAIN all |->
                       all[i].opener \o Joined(all[i].items)
                       \o (IF i < Len(all) \/ long # <<>>
                             THEN IF all[i].items = <<>> THEN <<>> ELSE <<",">>
                             ELSE <<>>)]
<1>1. /\ n \in Nat
      /\ all \in Seq(Frame) /\ Len(all) = n + 1 /\ DOMAIN all = 1 .. n + 1
      /\ \A i \in 1 .. n : all[i] = base[i]
      /\ all[n + 1] = top
  BY LenProperties, AppendProperties
<1>2. last \in Text
  BY ShownType, Commas, TextAlgebra
<1>3. Render(d) = FlattenSeq(body) \o long
  <2>1. d.open = all /\ d.long = long
    BY DEF Doc
  <2>. HIDE DEF d, all
  <2>. QED
    BY <2>1, Zenon DEF Render
<1>. HIDE DEF all, d
<1>4. ASSUME NEW i \in 1 .. n + 1
      PROVE  body[i] = Shown(all[i]) ++
                         (IF i < n + 1 \/ long # <<>> THEN Separator(all[i]) ELSE <<>>)
  BY <1>1 DEF Shown, Separator, ++
<1>5. body = [i \in 1 .. n + 1 |-> body[i]]
  BY <1>1
<1>. HIDE DEF body
<1>6. \A i \in 1 .. n : body[i] = Frames(base)[i]
  <2>. SUFFICES ASSUME NEW i \in 1 .. n
                PROVE  body[i] = Frames(base)[i]
    OBVIOUS
  <2>1. i \in 1 .. n + 1 /\ i < n + 1
    BY <1>1
  <2>. QED
    BY <1>1, <1>4, <2>1, FramesAre
<1>7. body[n + 1] = last
  <2>1. n + 1 \in 1 .. n + 1 /\ ~ (n + 1 < n + 1)
    BY <1>1
  <2>. QED
    BY <1>1, <1>4, <2>1
<1>. HIDE DEF last
<1>8. body = Append(Frames(base), last)
  <2>1. Frames(base) \in Seq(Text) /\ Len(Frames(base)) = n
    BY FramesAre
  <2>2. \A i \in 1 .. n + 1 : body[i] \in Text
    <3>1. \A i \in 1 .. n : Frames(base)[i] \in Text
      BY <2>1, ElementOfSeq
    <3>2. \A i \in 1 .. n + 1 : i \in 1 .. n \/ i = n + 1
      BY <1>1
    <3>. QED
      BY <1>2, <1>6, <1>7, <3>1, <3>2
  <2>3. body \in Seq(Text) /\ Len(body) = n + 1
    <3>1. body \in [1 .. n + 1 -> Text] /\ n + 1 \in Nat
      BY <1>1, <1>5, <2>2
    <3>. QED
      BY <3>1, FunctionIsSeq
  <2>4. /\ Append(Frames(base), last) \in Seq(Text) /\ Len(Append(Frames(base), last)) = n + 1
        /\ \A i \in 1 .. n : Append(Frames(base), last)[i] = Frames(base)[i]
        /\ Append(Frames(base), last)[n + 1] = last
    BY <1>2, <2>1, AppendProperties
  <2>5. \A i \in 1 .. n + 1 : i \in 1 .. n \/ i = n + 1
    BY <1>1
  <2>6. \A i \in 1 .. Len(body) : body[i] = Append(Frames(base), last)[i]
    BY <1>6, <1>7, <2>3, <2>4, <2>5
  <2>. QED
    BY <2>3, <2>4, <2>6, SeqEqual
<1>9. FlattenSeq(body) = Around(base) ++ last
  BY <1>2, <1>8, FramesAre, FlattenText DEF Around
<1>. QED
  BY <1>3, <1>9 DEF d, last, ++

\* What an element, more of a long string, a new frame and a closed one add.
LEMMA RenderPlain ==
  ASSUME NEW base \in Seq(Frame), NEW top \in Frame
  PROVE  /\ Render(Doc(base, top, <<>>)) = Around(base) ++ Shown(top)
         /\ Render(Doc(base, top, <<>>)) \in Text
<1>1. Around(base) \in Text /\ Shown(top) \in Text /\ <<>> \in Text
  BY AroundType, ShownType, TextAlgebra
<1>2. Render(Doc(base, top, <<>>)) = (Around(base) ++ (Shown(top) ++ <<>>)) ++ <<>>
  BY <1>1, RenderDoc
<1>. QED
  BY <1>1, <1>2, TextAlgebra

LEMMA RenderLong ==
  ASSUME NEW base \in Seq(Frame), NEW top \in Frame, NEW long \in Text, long # <<>>
  PROVE  Render(Doc(base, top, long)) = Render(Doc(base, top, <<>>)) ++ (Separator(top) ++ long)
<1>1. Around(base) \in Text /\ Shown(top) \in Text /\ Separator(top) \in Text
  BY AroundType, ShownType, Commas
<1>2. Render(Doc(base, top, long)) = (Around(base) ++ (Shown(top) ++ Separator(top))) ++ long
  BY RenderDoc
<1>. QED
  BY <1>1, <1>2, RenderPlain, TextAlgebra

LEMMA WithItemIs ==
  ASSUME NEW top \in Frame, NEW e \in Text
  PROVE  /\ WithItem(top, e) \in Frame
         /\ WithItem(top, e).kind = top.kind
         /\ WithItem(top, e).items # <<>>
         /\ Shown(WithItem(top, e)) = Shown(top) ++ (Separator(top) ++ e)
<1>1. top.opener \in Text /\ top.items \in Seq(Text)
  BY ShownType
<1>2. /\ WithItem(top, e) \in Frame
      /\ WithItem(top, e).kind = top.kind
      /\ WithItem(top, e).opener = top.opener
      /\ WithItem(top, e).items = Append(top.items, e)
  BY <1>1 DEF WithItem, Frame
<1>3. WithItem(top, e).items # <<>>
  BY <1>1, <1>2, AppendProperties
<1>4. Joined(Append(top.items, e)) = Joined(top.items) ++ (Separator(top) ++ e)
  BY <1>1, JoinedAppend DEF Separator
<1>5. Joined(top.items) \in Text /\ Separator(top) \in Text
  BY <1>1, JoinedType, Commas
<1>6. Shown(WithItem(top, e)) = top.opener ++ (Joined(top.items) ++ (Separator(top) ++ e))
  BY <1>2, <1>4 DEF Shown
<1>7. top.opener ++ (Joined(top.items) ++ (Separator(top) ++ e))
        = (top.opener ++ Joined(top.items)) ++ (Separator(top) ++ e)
  <2>1. Separator(top) ++ e \in Text
    BY <1>5, TextAlgebra
  <2>2. \A t, u \in Text : top.opener ++ (t ++ u) = (top.opener ++ t) ++ u
    BY <1>1, TextAlgebra
  <2>. QED
    BY <1>5, <2>1, <2>2
<1>. QED
  BY <1>2, <1>3, <1>6, <1>7 DEF Shown

LEMMA RenderItem ==
  ASSUME NEW base \in Seq(Frame), NEW top \in Frame, NEW e \in Text
  PROVE  Render(Doc(base, WithItem(top, e), <<>>)) =
           Render(Doc(base, top, <<>>)) ++ (Separator(top) ++ e)
<1>1. Around(base) \in Text /\ Shown(top) \in Text /\ Separator(top) \in Text
  BY AroundType, ShownType, Commas
<1>2. Render(Doc(base, WithItem(top, e), <<>>)) =
        Around(base) ++ (Shown(top) ++ (Separator(top) ++ e))
  BY WithItemIs, RenderPlain
<1>3. Separator(top) ++ e \in Text
  BY <1>1, TextAlgebra
<1>. QED
  BY <1>1, <1>2, <1>3, RenderPlain, TextAlgebra

LEMMA RenderInner ==
  ASSUME NEW base \in Seq(Frame), NEW top \in Frame, NEW inner \in Frame
  PROVE  Render(Doc(Append(base, top), inner, <<>>)) =
           Render(Doc(base, top, <<>>)) ++ (Separator(top) ++ Shown(inner))
<1>1. /\ Around(base) \in Text /\ Shown(top) \in Text /\ Separator(top) \in Text
      /\ Shown(inner) \in Text /\ Append(base, top) \in Seq(Frame)
  BY AroundType, ShownType, Commas, AppendProperties
<1>2. Render(Doc(Append(base, top), inner, <<>>)) =
        (Around(base) ++ (Shown(top) ++ Separator(top))) ++ Shown(inner)
  BY <1>1, RenderPlain, FramesAppend
<1>3. Shown(top) ++ Separator(top) \in Text
  BY <1>1, TextAlgebra
<1>. QED
  BY <1>1, <1>2, <1>3, RenderPlain, TextAlgebra

LEMMA ItemOf ==
  ASSUME NEW base \in Seq(Frame), NEW top \in Frame, NEW long \in Text, NEW e \in Text
  PROVE  Item(Doc(base, top, long), e) = Doc(base, WithItem(top, e), long)
<1>. DEFINE n == Len(base)
            all == Append(base, top)
            f == [all EXCEPT ![n + 1] = WithItem(top, e)]
<1>1. /\ n \in Nat
      /\ all \in Seq(Frame) /\ Len(all) = n + 1
      /\ \A i \in 1 .. n : all[i] = base[i]
      /\ all[n + 1] = top
  BY LenProperties, AppendProperties
<1>2. Item(Doc(base, top, long), e) = [open |-> f, long |-> long]
  <2>. DEFINE d == Doc(base, top, long)
  <2>1. d = [open |-> all, long |-> long] /\ d.open = all /\ d.long = long
    BY DEF Doc
  <2>. HIDE DEF all, d
  <2>2. Item(d, e) =
          [d EXCEPT !.open = [d.open EXCEPT ![Len(d.open)] = WithItem(d.open[Len(d.open)], e)]]
    BY DEF Item, WithItem
  <2>3. [d.open EXCEPT ![Len(d.open)] = WithItem(d.open[Len(d.open)], e)] = f
    BY <1>1, <2>1
  <2>4. [d EXCEPT !.open = f] = [open |-> f, long |-> long]
    <3>. HIDE DEF f
    <3>. QED
      BY <2>1
  <2>. HIDE DEF f
  <2>. QED
    BY <2>2, <2>3, <2>4 DEF d
<1>. HIDE DEF all
<1>3. f = Append(base, WithItem(top, e))
  <2>1. WithItem(top, e) \in Frame
    BY WithItemIs
  <2>2. /\ f \in Seq(Frame) /\ Len(f) = n + 1
        /\ \A i \in 1 .. n : f[i] = base[i]
        /\ f[n + 1] = WithItem(top, e)
    BY <1>1, <2>1
  <2>3. /\ Append(base, WithItem(top, e)) \in Seq(Frame)
        /\ Len(Append(base, WithItem(top, e))) = n + 1
        /\ \A i \in 1 .. n : Append(base, WithItem(top, e))[i] = base[i]
        /\ Append(base, WithItem(top, e))[n + 1] = WithItem(top, e)
    BY <2>1, AppendProperties
  <2>4. \A i \in 1 .. n + 1 : i \in 1 .. n \/ i = n + 1
    BY <1>1
  <2>. HIDE DEF f
  <2>5. \A i \in 1 .. Len(f) : f[i] = Append(base, WithItem(top, e))[i]
    BY <2>2, <2>3, <2>4
  <2>. QED
    BY <2>2, <2>3, <2>5, SeqEqual
<1>. QED
  BY <1>2, <1>3 DEF Doc

\* The strings of an element: the comma that is due, its name, and the rest.
LEMMA KeyText ==
  ASSUME NEW label \in Label
  PROVE  /\ Key(label) \in Text
         /\ json_gen_handle_name(label) \in Seq(Text)
         /\ FlattenSeq(json_gen_handle_name(label)) = Key(label)
<1>1. CASE label = <<>>
  BY <1>1, TextAlgebra, FlattenText, EmptySeq DEF Key, json_gen_handle_name
<1>2. CASE label # <<>>
  <2>1. label[1] \in Text /\ Quote \in Text /\ <<"quote", ":">> \in Text
    <3>1. label[1] \in Text
      BY <1>2, TextAssumption DEF Label
    <3>. QED
      BY <3>1, Pieces
  <2>2. Key(label) = (Quote ++ label[1]) ++ <<"quote", ":">>
    BY <1>2 DEF Key, ++
  <2>3. json_gen_handle_name(label) = <<Quote, label[1], <<"quote", ":">> >>
    BY <1>2 DEF json_gen_handle_name
  <2>4. \A x, y, z \in Text : <<x, y, z>> \in Seq(Text)
    OBVIOUS
  <2>5. (Quote ++ label[1]) ++ <<"quote", ":">> \in Text
    BY <2>1, TextAlgebra
  <2>6. FlattenSeq(<<Quote, label[1], <<"quote", ":">> >>) = (Quote ++ label[1]) ++ <<"quote", ":">>
    BY <2>1, FlattenText
  <2>7. <<Quote, label[1], <<"quote", ":">> >> \in Seq(Text)
    BY <2>1, <2>4
  <2>. QED
    BY <2>2, <2>3, <2>5, <2>6, <2>7
<1>. QED
  BY <1>1, <1>2

LEMMA ElementText ==
  ASSUME NEW label \in Label, NEW strings \in Seq(Text)
  PROVE  FlattenSeq(Element(label, strings)) =
           (IF jstr.comma_req THEN <<",">> ELSE <<>>) ++ (Key(label) ++ FlattenSeq(strings))
<1>. DEFINE comma == IF jstr.comma_req THEN <<",">> ELSE <<>>
            name == json_gen_handle_name(label)
<1>1. /\ json_gen_handle_comma \in Seq(Text)
      /\ FlattenSeq(json_gen_handle_comma) = comma
      /\ comma \in Text
  <2>1. << <<",">> >> \in Seq(Text) /\ <<>> \in Seq(Text)
    BY Pieces, OneElement, EmptySeq
  <2>. QED
    BY <2>1, Pieces, TextAlgebra, FlattenText DEF json_gen_handle_comma
<1>2. name \in Seq(Text) /\ FlattenSeq(name) = Key(label) /\ Key(label) \in Text
  BY KeyText
<1>3. Element(label, strings) = (json_gen_handle_comma \o name) \o strings
  BY DEF Element
<1>. HIDE DEF comma, name
<1>4. json_gen_handle_comma \o name \in Seq(Text)
  BY <1>1, <1>2, ConcatProperties
<1>5. FlattenSeq(Element(label, strings)) = (comma ++ Key(label)) ++ FlattenSeq(strings)
  <2>1. FlattenSeq(json_gen_handle_comma \o name) = comma ++ Key(label)
    BY <1>1, <1>2, FlattenText
  <2>2. \A s \in Seq(Text) : FlattenSeq(s \o strings) = FlattenSeq(s) ++ FlattenSeq(strings)
    BY FlattenText
  <2>. QED
    BY <1>3, <1>4, <2>1, <2>2
<1>6. FlattenSeq(strings) \in Text
  BY FlattenText
<1>. QED
  BY <1>1, <1>2, <1>5, <1>6, TextAlgebra DEF comma

-------------------------------------------------------------------------------
(* The invariant behind WellFormed.  A comma is due behind an element and   *)
(* within a long string, and what a call has yet to add brings the text to *)
(* that of the document, not only when the call has returned.              *)

Describes(base, top, long) ==
  /\ doc = Doc(base, top, long)
  /\ \A i \in DOMAIN base : base[i].kind = "top" <=> i = 1
  /\ top.kind = "top" <=> base = <<>>
  /\ long # <<>> => base # <<>>
  /\ jstr.comma_req <=> top.items # <<>> \/ long # <<>>
  /\ text ++ FlattenSeq(pend) = Render(doc)

DocumentInv ==
  /\ doc \in [open : Seq(Frame), long : Text]
  /\ jstr.open => \E base \in Seq(Frame), top \in Frame, long \in Text : Describes(base, top, long)

LEMMA DocIs ==
  ASSUME NEW base \in Seq(Frame), NEW top \in Frame, NEW long \in Text
  PROVE  /\ Doc(base, top, long) \in [open : Seq(Frame), long : Text]
         /\ Doc(base, top, long).open = Append(base, top)
         /\ Doc(base, top, long).long = long
         /\ Len(base) \in Nat
         /\ Len(Append(base, top)) = Len(base) + 1
         /\ Append(base, top)[Len(base) + 1] = top
BY AppendProperties, LenProperties DEF Doc

LEMMA Innermost ==
  ASSUME NEW base \in Seq(Frame), NEW top \in Frame, NEW long \in Text,
         doc = Doc(base, top, long)
  PROVE  /\ doc.open = Append(base, top) /\ doc.long = long
         /\ Depth = Len(base) + 1 /\ Top = top
         /\ Depth = 1 <=> base = <<>>
<1>1. doc.open = Append(base, top) /\ doc.long = long
  BY DocIs
<1>2. Depth = Len(base) + 1 /\ Top = top
  BY <1>1, DocIs DEF Depth, Top
<1>3. Len(base) \in Nat /\ (Len(base) = 0 <=> base = <<>>)
  BY EmptySeq, LenProperties
<1>. QED
  BY <1>1, <1>2, <1>3

LEMMA CallIs ==
  ASSUME Types, NEW strings \in Seq(Text), NEW comma_req \in BOOLEAN, Call(strings, comma_req),
         text ++ FlattenSeq(pend) = Render(doc)
  PROVE  /\ jstr.open /\ jstr'.open /\ jstr'.comma_req = comma_req
         /\ text' = text /\ pend' = strings
         /\ text = Render(doc)
         /\ pend = <<>> /\ rest' = <<>> /\ rest = <<>>
<1>1. /\ pend = <<>> /\ rest = <<>> /\ rest' = rest
      /\ jstr.open /\ jstr' = [jstr EXCEPT !.comma_req = comma_req]
      /\ text' = text /\ pend' = strings
  BY DEF Call, Idle
<1>2. text ++ <<>> = text
  BY TextAlgebra DEF Types
<1>3. jstr'.open /\ jstr'.comma_req = comma_req
  BY <1>1 DEF Types
<1>. QED
  BY <1>1, <1>2, <1>3, FlattenText

LEMMA LabelIs ==
  ASSUME NEW label \in Labels
  PROVE  doc.long = <<>>
BY DEF Labels

\* Calls that add a finished element to an object or an array.
LEMMA ValueDescribes ==
  ASSUME Types, NEW base \in Seq(Frame), NEW top \in Frame, NEW long \in Text,
         Describes(base, top, long),
         NEW label \in Label, NEW strings \in Seq(Text), Value(label, strings),
         NEW e \in Text, e = Key(label) ++ FlattenSeq(strings), doc' = Item(doc, e)
  PROVE  Describes(base, WithItem(top, e), <<>>)'
<1>1. doc = Doc(base, top, long) /\ text ++ FlattenSeq(pend) = Render(doc)
  BY DEF Describes
<1>2. long = <<>>
  BY <1>1, Innermost, LabelIs DEF Value
<1>3. Element(label, strings) \in Seq(Text) /\ Call(Element(label, strings), TRUE)
  BY StringsOfElement DEF Value
<1>4. /\ jstr'.comma_req = TRUE
      /\ text' = Render(doc) /\ pend' = Element(label, strings)
  BY <1>1, <1>3, CallIs
<1>5. doc' = Doc(base, WithItem(top, e), <<>>)
  BY <1>1, <1>2, ItemOf
<1>6. FlattenSeq(Element(label, strings)) = Separator(top) ++ e
  <2>1. (IF jstr.comma_req THEN <<",">> ELSE <<>>) = Separator(top)
    BY <1>2 DEF Describes, Separator
  <2>. QED
    BY <2>1, ElementText
<1>7. text' ++ FlattenSeq(pend') = Render(doc')
  BY <1>1, <1>2, <1>4, <1>5, <1>6, RenderItem
<1>. QED
  BY <1>4, <1>5, <1>7, WithItemIs DEF Describes

LEMMA StartLongDescribes ==
  ASSUME Types, NEW base \in Seq(Frame), NEW top \in Frame, NEW long \in Text,
         Describes(base, top, long),
         NEW label \in Label, NEW val \in Strings, StartLongString(label, val)
  PROVE  \E long2 \in Text : Describes(base, top, long2)'
<1>. DEFINE long2 == Key(label) ++ (Quote ++ val)
<1>1. doc = Doc(base, top, long) /\ text ++ FlattenSeq(pend) = Render(doc)
  BY DEF Describes
<1>2. Value(label, <<Quote, val>>) /\ doc' = [doc EXCEPT !.long = Key(label) \o Quote \o val]
  BY DEF StartLongString
<1>3. val \in Text /\ Quote \in Text /\ <<Quote, val>> \in Seq(Text)
  <2>1. val \in Text /\ Quote \in Text
    BY TextAssumption, Pieces
  <2>. QED
    BY <2>1
<1>4. FlattenSeq(<<Quote, val>>) = Quote ++ val
  BY <1>3, FlattenText
<1>5. long = <<>> /\ base # <<>>
  BY <1>1, <1>2, Innermost, LabelIs DEF Value, Describes
<1>6. Element(label, <<Quote, val>>) \in Seq(Text) /\ Call(Element(label, <<Quote, val>>), TRUE)
  BY <1>2, <1>3, StringsOfElement DEF Value
<1>7. /\ jstr'.comma_req = TRUE
      /\ text' = Render(doc) /\ pend' = Element(label, <<Quote, val>>)
  BY <1>1, <1>6, CallIs
<1>8. long2 \in Text /\ long2 # <<>>
  <2>1. Key(label) \in Text /\ Key(label) \in Seq(Char) /\ val \in Seq(Char) /\ Quote \in Seq(Char)
    BY <1>3, KeyText DEF Text
  <2>2. long2 \in Text
    BY <1>3, <2>1, TextAlgebra
  <2>3. Len(Quote ++ val) = 1 + Len(val) /\ Len(val) \in Nat /\ Quote ++ val \in Seq(Char)
    BY <2>1 DEF Quote, ++
  <2>4. /\ Len(Key(label) ++ (Quote ++ val)) = Len(Key(label)) + Len(Quote ++ val)
        /\ Len(Key(label)) \in Nat
    <3>1. \A s, t \in Seq(Char) : Len(s ++ t) = Len(s) + Len(t) /\ Len(s) \in Nat
      BY DEF ++
    <3>. QED
      BY <2>1, <2>3, <3>1
  <2>5. Len(long2) # 0
    BY <2>3, <2>4
  <2>. QED
    BY <2>2, <2>5
<1>9. doc' = Doc(base, top, long2)
  <2>1. Key(label) \o Quote \o val = (Key(label) ++ Quote) ++ val
    BY DEF ++
  <2>2. (Key(label) ++ Quote) ++ val = long2
    BY <1>3, KeyText, TextAlgebra
  <2>. HIDE DEF long2
  <2>. QED
    BY <1>1, <1>2, <2>1, <2>2 DEF Doc
<1>10. FlattenSeq(Element(label, <<Quote, val>>)) = Separator(top) ++ long2
  <2>1. (IF jstr.comma_req THEN <<",">> ELSE <<>>) = Separator(top)
    BY <1>5 DEF Describes, Separator
  <2>. QED
    BY <1>3, <1>4, <2>1, ElementText
<1>. HIDE DEF long2
<1>11. text' ++ FlattenSeq(pend') = Render(doc')
  BY <1>1, <1>5, <1>7, <1>8, <1>9, <1>10, RenderLong
<1>12. Describes(base, top, long2)'
  BY <1>5, <1>7, <1>8, <1>9, <1>11 DEF Describes
<1>. QED
  BY <1>8, <1>12

LEMMA AddLongDescribes ==
  ASSUME Types, NEW base \in Seq(Frame), NEW top \in Frame, NEW long \in Text,
         Describes(base, top, long),
         NEW val \in Strings, json_gen_add_to_long_string(val)
  PROVE  \E long2 \in Text : Describes(base, top, long2)'
<1>. DEFINE long2 == long ++ val
<1>1. doc = Doc(base, top, long) /\ text ++ FlattenSeq(pend) = Render(doc)
  BY DEF Describes
<1>2. long # <<>> /\ Call(<<val>>, jstr.comma_req) /\ doc' = [doc EXCEPT !.long = doc.long \o val]
  BY <1>1, Innermost DEF json_gen_add_to_long_string
<1>3. val \in Text /\ <<val>> \in Seq(Text) /\ jstr.comma_req \in BOOLEAN
  BY TextAssumption DEF Types
<1>4. /\ jstr'.comma_req = jstr.comma_req
      /\ text' = Render(doc) /\ pend' = <<val>>
  BY <1>1, <1>2, <1>3, CallIs
<1>5. long2 \in Text /\ long2 # <<>>
  <2>1. long \in Seq(Char) /\ val \in Seq(Char)
    BY <1>3 DEF Text
  <2>2. long \o val # <<>>
    BY <1>2, <2>1
  <2>. QED
    BY <1>3, <2>2, TextAlgebra DEF ++
<1>6. doc' = Doc(base, top, long2)
  <2>1. doc' = [doc EXCEPT !.long = long2]
    BY <1>1, <1>2, Innermost DEF ++
  <2>. HIDE DEF long2
  <2>. QED
    BY <1>1, <2>1 DEF Doc
<1>7. text' ++ FlattenSeq(pend') = Render(doc')
  <2>1. FlattenSeq(pend') = val
    BY <1>3, <1>4, FlattenText
  <2>2. /\ Render(doc) = Render(Doc(base, top, <<>>)) ++ (Separator(top) ++ long)
        /\ Render(doc') = Render(Doc(base, top, <<>>)) ++ (Separator(top) ++ long2)
    <3>. HIDE DEF long2
    <3>. QED
      BY <1>1, <1>2, <1>5, <1>6, RenderLong
  <2>3. /\ Render(Doc(base, top, <<>>)) \in Text /\ Separator(top) \in Text
        /\ Separator(top) ++ long \in Text
    BY RenderPlain, Commas, TextAlgebra
  <2>4. Separator(top) ++ (long ++ val) = (Separator(top) ++ long) ++ val
    BY <1>3, <2>3, TextAlgebra
  <2>. QED
    BY <1>3, <1>4, <2>1, <2>2, <2>3, <2>4, TextAlgebra
<1>. HIDE DEF long2
<1>8. Describes(base, top, long2)'
  BY <1>2, <1>4, <1>5, <1>6, <1>7 DEF Describes
<1>. QED
  BY <1>5, <1>8

LEMMA EndLongDescribes ==
  ASSUME Types, NEW base \in Seq(Frame), NEW top \in Frame, NEW long \in Text,
         Describes(base, top, long), json_gen_end_long_string
  PROVE  Describes(base, WithItem(top, long ++ Quote), <<>>)'
<1>1. doc = Doc(base, top, long) /\ text ++ FlattenSeq(pend) = Render(doc)
  BY DEF Describes
<1>2. /\ long # <<>> /\ Call(<<Quote>>, jstr.comma_req)
      /\ doc' = Item([doc EXCEPT !.long = <<>>], long ++ Quote)
  BY <1>1, Innermost DEF json_gen_end_long_string, ++
<1>3. Quote \in Text /\ <<Quote>> \in Seq(Text) /\ jstr.comma_req \in BOOLEAN
  BY Pieces, OneElement DEF Types
<1>4. /\ jstr'.comma_req = jstr.comma_req
      /\ text' = Render(doc) /\ pend' = <<Quote>>
  BY <1>1, <1>2, <1>3, CallIs
<1>5. long ++ Quote \in Text /\ <<>> \in Text
  BY <1>3, TextAlgebra
<1>6. doc' = Doc(base, WithItem(top, long ++ Quote), <<>>)
  <2>1. [doc EXCEPT !.long = <<>>] = Doc(base, top, <<>>)
    <3>1. \A a, l, m : [[open |-> a, long |-> l] EXCEPT !.long = m] = [open |-> a, long |-> m]
      OBVIOUS
    <3>. QED
      BY <1>1, <3>1, Zenon DEF Doc
  <2>. QED
    BY <1>2, <1>5, <2>1, ItemOf
<1>7. text' ++ FlattenSeq(pend') = Render(doc')
  <2>1. FlattenSeq(pend') = Quote
    BY <1>3, <1>4, FlattenText
  <2>2. /\ Render(doc) = Render(Doc(base, top, <<>>)) ++ (Separator(top) ++ long)
        /\ Render(doc') = Render(Doc(base, top, <<>>)) ++ (Separator(top) ++ (long ++ Quote))
    BY <1>1, <1>2, <1>5, <1>6, RenderLong, RenderItem
  <2>3. /\ Render(Doc(base, top, <<>>)) \in Text /\ Separator(top) \in Text
        /\ Separator(top) ++ long \in Text
    BY RenderPlain, Commas, TextAlgebra
  <2>4. Separator(top) ++ (long ++ Quote) = (Separator(top) ++ long) ++ Quote
    BY <1>3, <2>3, TextAlgebra
  <2>. QED
    BY <1>3, <1>4, <2>1, <2>2, <2>3, <2>4, TextAlgebra
<1>8. jstr'.comma_req
  BY <1>2, <1>4 DEF Describes
<1>. QED
  BY <1>5, <1>6, <1>7, <1>8, WithItemIs DEF Describes

\* A new object or array becomes the innermost frame.
LEMMA PushDescribes ==
  ASSUME Types, NEW base \in Seq(Frame), NEW top \in Frame, NEW long \in Text,
         Describes(base, top, long),
         NEW kind \in {"object", "array"}, NEW label \in Label, Push(kind, label)
  PROVE  \E inner \in Frame : inner.items = <<>> /\ Describes(Append(base, top), inner, <<>>)'
<1>. DEFINE opener == Key(label) ++ Opener(kind)
            inner == [kind |-> kind, opener |-> opener, items |-> <<>>]
            strings == Element(label, <<Opener(kind)>>)
<1>1. doc = Doc(base, top, long) /\ text ++ FlattenSeq(pend) = Render(doc)
  BY DEF Describes
<1>2. /\ label \in Labels /\ Call(strings, FALSE)
      /\ doc' = [doc EXCEPT !.open = Append(doc.open, inner)]
  BY DEF Push, ++
<1>3. Opener(kind) \in Text /\ <<Opener(kind)>> \in Seq(Text)
  BY Pieces, OneElement
<1>4. opener \in Text
  BY <1>3, KeyText, TextAlgebra
<1>5. strings \in Seq(Text)
  BY <1>3, StringsOfElement
<1>6. inner \in Frame /\ inner.kind = kind /\ inner.items = <<>> /\ inner.opener = opener
  <2>. HIDE DEF opener
  <2>. QED
    BY <1>4 DEF Frame
<1>7. long = <<>>
  BY <1>1, <1>2, Innermost, LabelIs
<1>8. /\ jstr'.comma_req = FALSE
      /\ text' = Render(doc) /\ pend' = strings
  <2>. HIDE DEF strings
  <2>. QED
    BY <1>1, <1>2, <1>5, CallIs
<1>9. FlattenSeq(strings) = Separator(top) ++ Shown(inner)
  <2>1. (IF jstr.comma_req THEN <<",">> ELSE <<>>) = Separator(top)
    BY <1>7 DEF Describes, Separator
  <2>2. FlattenSeq(<<Opener(kind)>>) = Opener(kind)
    BY <1>3, FlattenText
  <2>3. Shown(inner) = opener
    <3>. HIDE DEF opener, inner
    <3>. QED
      BY <1>4, <1>6, JoinedEmpty, TextAlgebra DEF Shown
  <2>. HIDE DEF inner
  <2>. QED
    BY <1>3, <2>1, <2>2, <2>3, ElementText
<1>. HIDE DEF inner, strings
<1>10. doc' = Doc(Append(base, top), inner, <<>>)
  <2>1. doc' = [doc EXCEPT !.open = Append(Append(base, top), inner)]
    BY <1>1, <1>2, Innermost
  <2>2. \A a, l, m : [[open |-> a, long |-> l] EXCEPT !.open = m] = [open |-> m, long |-> l]
    OBVIOUS
  <2>. QED
    BY <1>1, <1>7, <2>1, <2>2, Zenon DEF Doc
<1>11. text' ++ FlattenSeq(pend') = Render(doc')
  BY <1>1, <1>6, <1>7, <1>8, <1>9, <1>10, RenderInner
<1>12. \A i \in DOMAIN Append(base, top) : Append(base, top)[i].kind = "top" <=> i = 1
  <2>1. /\ Len(base) \in Nat /\ DOMAIN base = 1 .. Len(base)
        /\ DOMAIN Append(base, top) = 1 .. Len(base) + 1
        /\ \A i \in 1 .. Len(base) : Append(base, top)[i] = base[i]
        /\ Append(base, top)[Len(base) + 1] = top
    BY AppendProperties, LenProperties
  <2>2. Len(base) = 0 <=> base = <<>>
    BY EmptySeq
  <2>3. \A i \in 1 .. Len(base) + 1 : i \in 1 .. Len(base) \/ i = Len(base) + 1
    BY <2>1
  <2>4. Len(base) + 1 = 1 <=> Len(base) = 0
    BY <2>1
  <2>. QED
    BY <2>1, <2>2, <2>3, <2>4 DEF Describes
<1>13. Append(base, top) # <<>>
  BY AppendProperties
<1>14. Describes(Append(base, top), inner, <<>>)'
  BY <1>6, <1>8, <1>10, <1>11, <1>12, <1>13 DEF Describes
<1>. QED
  BY <1>6, <1>14

LEMMA FrontOfAppend ==
  ASSUME NEW S, NEW s \in Seq(S), NEW e \in S
  PROVE  Front(Append(s, e)) = s
<1>. DEFINE t == Append(s, e)
<1>1. /\ t \in Seq(S) /\ Len(t) = Len(s) + 1 /\ Len(s) \in Nat
      /\ \A i \in 1 .. Len(s) : t[i] = s[i]
  BY AppendProperties, LenProperties
<1>. HIDE DEF t
<1>2. Front(t) = [i \in 1 .. Len(s) |-> t[i]]
  BY <1>1 DEF Front
<1>3. s = [i \in 1 .. Len(s) |-> s[i]]
  OBVIOUS
<1>. QED
  BY <1>1, <1>2, <1>3 DEF t

\* A frame that is closed becomes an element of the one around it.
LEMMA PopDescribes ==
  ASSUME Types, NEW base \in Seq(Frame), NEW top \in Frame, NEW long \in Text,
         Describes(base, top, long),
         NEW kind \in {"object", "array"}, Pop(kind)
  PROVE  /\ \E outer \in Seq(Frame), around \in Frame, e \in Text :
              /\ base = Append(outer, around)
              /\ Describes(outer, WithItem(around, e), <<>>)'
         /\ pend' = <<Closer(kind)>>
<1>1. doc = Doc(base, top, long) /\ text ++ FlattenSeq(pend) = Render(doc)
  BY DEF Describes
<1>2. /\ long = <<>> /\ top.kind = kind
      /\ Call(<<Closer(kind)>>, TRUE)
      /\ doc' = Item([doc EXCEPT !.open = Front(doc.open)],
                     top.opener \o Joined(top.items) \o Closer(kind))
  BY <1>1, Innermost DEF Pop, Close
<1>3. base # <<>>
  BY <1>2 DEF Describes
<1>4. PICK outer \in Seq(Frame), around \in Frame : base = Append(outer, around)
  BY <1>3, SequenceEmptyOrAppend
<1>. DEFINE e == Shown(top) ++ Closer(kind)
<1>5. Closer(kind) \in Text /\ <<Closer(kind)>> \in Seq(Text)
  BY Pieces, OneElement
<1>6. e \in Text /\ Shown(top) \in Text
  BY <1>5, ShownType, TextAlgebra
<1>7. /\ jstr'.comma_req = TRUE
      /\ text' = Render(doc) /\ pend' = <<Closer(kind)>>
  BY <1>1, <1>2, <1>5, CallIs
<1>8. doc' = Doc(outer, WithItem(around, e), <<>>)
  <2>1. top.opener \o Joined(top.items) \o Closer(kind) = e
    BY DEF Shown, ++
  <2>2. Front(doc.open) = base
    <3>1. doc.open = Append(base, top)
      BY <1>1, Innermost
    <3>2. Front(Append(base, top)) = base
      BY FrontOfAppend
    <3>. QED
      BY <3>1, <3>2
  <2>3. [doc EXCEPT !.open = Front(doc.open)] = Doc(outer, around, <<>>)
    <3>1. \A a, l, m : [[open |-> a, long |-> l] EXCEPT !.open = m] = [open |-> m, long |-> l]
      OBVIOUS
    <3>2. [doc EXCEPT !.open = base] = [open |-> base, long |-> <<>>]
      <4>1. doc = [open |-> Append(base, top), long |-> <<>>]
        BY <1>1, <1>2, Zenon DEF Doc
      <4>. QED
        BY <3>1, <4>1, Zenon
    <3>. QED
      BY <1>4, <2>2, <3>2, Zenon DEF Doc
  <2>. HIDE DEF e
  <2>4. doc' = Item(Doc(outer, around, <<>>), e)
    BY <1>2, <2>1, <2>3
  <2>. QED
    BY <1>6, <2>4, TextAlgebra, ItemOf
<1>. HIDE DEF e
<1>9. text' ++ FlattenSeq(pend') = Render(doc')
  <2>1. FlattenSeq(pend') = Closer(kind)
    BY <1>5, <1>7, FlattenText
  <2>2. Render(doc) = Render(Doc(outer, around, <<>>)) ++ (Separator(around) ++ Shown(top))
    BY <1>1, <1>2, <1>4, RenderInner
  <2>3. Render(doc') = Render(Doc(outer, around, <<>>)) ++ (Separator(around) ++ e)
    BY <1>6, <1>8, RenderItem
  <2>4. /\ Render(Doc(outer, around, <<>>)) \in Text /\ Separator(around) \in Text
        /\ Separator(around) ++ Shown(top) \in Text
    BY <1>6, RenderPlain, Commas, TextAlgebra
  <2>5. Separator(around) ++ e = (Separator(around) ++ Shown(top)) ++ Closer(kind)
    BY <1>5, <1>6, <2>4, TextAlgebra DEF e
  <2>. QED
    BY <1>5, <1>7, <2>1, <2>2, <2>3, <2>4, <2>5, TextAlgebra
<1>10. /\ \A i \in DOMAIN outer : outer[i].kind = "top" <=> i = 1
       /\ around.kind = "top" <=> outer = <<>>
  <2>1. /\ Len(outer) \in Nat /\ DOMAIN outer = 1 .. Len(outer)
        /\ DOMAIN base = 1 .. Len(outer) + 1
        /\ \A i \in 1 .. Len(outer) : base[i] = outer[i]
        /\ base[Len(outer) + 1] = around
    BY <1>4, AppendProperties, LenProperties
  <2>2. Len(outer) = 0 <=> outer = <<>>
    BY EmptySeq
  <2>3. \A i \in 1 .. Len(outer) : i \in 1 .. Len(outer) + 1
    BY <2>1
  <2>4. Len(outer) + 1 \in 1 .. Len(outer) + 1 /\ (Len(outer) + 1 = 1 <=> Len(outer) = 0)
    BY <2>1
  <2>. QED
    BY <2>1, <2>2, <2>3, <2>4 DEF Describes
<1>11. Describes(outer, WithItem(around, e), <<>>)'
  BY <1>6, <1>7, <1>8, <1>9, <1>10, WithItemIs DEF Describes
<1>. QED
  BY <1>4, <1>6, <1>7, <1>11

\* A call that leaves only the document itself open has closed its outermost
\* object or array.
LEMMA BuildDescribes ==
  ASSUME Types, DocumentInv, Build
  PROVE  \E base \in Seq(Frame), top \in Frame, long \in Text :
           /\ Describes(base, top, long)'
           /\ base = <<>> => \E kind \in {"object", "array"} : pend' = <<Closer(kind)>>
<1>. DEFINE Goal == \E base \in Seq(Frame), top \in Frame, long \in Text :
                      /\ Describes(base, top, long)'
                      /\ base = <<>> => \E kind \in {"object", "array"} : pend' = <<Closer(kind)>>
<1>1. PICK base \in Seq(Frame), top \in Frame, long \in Text : Describes(base, top, long)
  BY DEF DocumentInv, Build
<1>2. doc = Doc(base, top, long) /\ <<>> \in Text
  BY <1>1, TextAlgebra DEF Describes
<1>3. ASSUME Top.kind # "top"
      PROVE  base # <<>>
  BY <1>1, <1>2, <1>3, Innermost DEF Describes
<1>4. ASSUME NEW label \in Label, NEW strings \in Seq(Text), Value(label, strings),
             doc' = Item(doc, Key(label) ++ FlattenSeq(strings))
      PROVE  Goal
  <2>. DEFINE e == Key(label) ++ FlattenSeq(strings)
  <2>1. e \in Text
    BY KeyText, FlattenText, TextAlgebra
  <2>2. base # <<>>
    BY <1>3, <1>4 DEF Value
  <2>. HIDE DEF e
  <2>3. Describes(base, WithItem(top, e), <<>>)'
    BY <1>1, <1>4, <2>1, ValueDescribes DEF e
  <2>4. WithItem(top, e) \in Frame
    BY <2>1, WithItemIs
  <2>. QED
    BY <1>2, <2>2, <2>3, <2>4
<1>5. ASSUME NEW label \in Label, NEW literal \in Literals, SetLiteral(label, literal)
      PROVE  Goal
  <2>1. literal \in Text /\ <<literal>> \in Seq(Text) /\ FlattenSeq(<<literal>>) = literal
    BY TextAssumption, OneElement, FlattenText
  <2>2. Value(label, <<literal>>) /\ doc' = Item(doc, Key(label) ++ FlattenSeq(<<literal>>))
    BY <1>5, <2>1 DEF SetLiteral, ++
  <2>. QED
    BY <1>4, <2>1, <2>2
<1>6. ASSUME NEW label \in Label, NEW val \in Strings, SetString(label, val)
      PROVE  Goal
  <2>1. Quote \in Text /\ val \in Text
    BY TextAssumption, Pieces
  <2>2. <<Quote, val, Quote>> \in Seq(Text)
    BY <2>1
  <2>3. FlattenSeq(<<Quote, val, Quote>>) = (Quote ++ val) ++ Quote
    BY <2>1, FlattenText
  <2>4. ((Key(label) ++ Quote) ++ val) ++ Quote = Key(label) ++ ((Quote ++ val) ++ Quote)
    <3>1. Key(label) \in Text /\ Quote ++ val \in Text
      BY <2>1, KeyText, TextAlgebra
    <3>. QED
      BY <2>1, <3>1, TextAlgebra
  <2>5. /\ Value(label, <<Quote, val, Quote>>)
        /\ doc' = Item(doc, ((Key(label) ++ Quote) ++ val) ++ Quote)
    BY <1>6 DEF SetString, ++
  <2>. QED
    BY <1>4, <2>2, <2>3, <2>4, <2>5
<1>7. ASSUME NEW label \in Label, NEW object_str \in Objects, PushStr(label, object_str)
      PROVE  Goal
  <2>1. /\ object_str \in Text /\ <<object_str>> \in Seq(Text)
        /\ FlattenSeq(<<object_str>>) = object_str
    BY TextAssumption, OneElement, FlattenText
  <2>2. Value(label, <<object_str>>) /\ doc' = Item(doc, Key(label) ++ FlattenSeq(<<object_str>>))
    BY <1>7, <2>1 DEF PushStr, ++
  <2>. QED
    BY <1>4, <2>1, <2>2
<1>8. ASSUME NEW label \in Label, NEW val \in Strings, StartLongString(label, val)
      PROVE  Goal
  <2>1. base # <<>>
    BY <1>3, <1>8 DEF StartLongString, Value
  <2>. QED
    BY <1>1, <1>8, <2>1, StartLongDescribes
<1>9. ASSUME NEW val \in Strings, json_gen_add_to_long_string(val)
      PROVE  Goal
  <2>1. base # <<>>
    BY <1>1, <1>2, <1>9, Innermost DEF json_gen_add_to_long_string, Describes
  <2>. QED
    BY <1>1, <1>9, <2>1, AddLongDescribes
<1>10. ASSUME json_gen_end_long_string
       PROVE  Goal
  <2>1. base # <<>>
    BY <1>1, <1>2, <1>10, Innermost DEF json_gen_end_long_string, Describes
  <2>2. long ++ Quote \in Text
    BY Pieces, TextAlgebra
  <2>. QED
    BY <1>1, <1>2, <1>10, <2>1, <2>2, EndLongDescribes, WithItemIs
<1>11. ASSUME NEW label \in Label, NEW kind \in {"object", "array"}, Push(kind, label)
       PROVE  Goal
  <2>1. Append(base, top) \in Seq(Frame) /\ Append(base, top) # <<>>
    BY AppendProperties
  <2>. QED
    BY <1>1, <1>2, <1>11, <2>1, PushDescribes
<1>12. ASSUME NEW kind \in {"object", "array"}, Pop(kind)
       PROVE  Goal
  <2>1. PICK outer \in Seq(Frame), around \in Frame, e \in Text :
          Describes(outer, WithItem(around, e), <<>>)'
    BY <1>1, <1>12, PopDescribes
  <2>2. pend' = <<Closer(kind)>>
    BY <1>1, <1>12, PopDescribes
  <2>. QED
    BY <1>2, <2>1, <2>2, WithItemIs
<1>. QED
  BY <1>5, <1>6, <1>7, <1>8, <1>9, <1>10, <1>11, <1>12 DEF Build

LEMMA DescribedDoc ==
  ASSUME NEW base \in Seq(Frame), NEW top \in Frame, NEW long \in Text, Describes(base, top, long)'
  PROVE  /\ doc' \in [open : Seq(Frame), long : Text]
         /\ Depth' = Len(base) + 1 /\ Top' = top
         /\ Finished' => base = <<>> /\ top.items # <<>>
<1>1. doc' = Doc(base, top, long)
  BY DEF Describes
<1>2. Depth' = Len(base) + 1 /\ Top' = top
  BY <1>1, DocIs DEF Depth, Top
<1>3. Len(base) \in Nat /\ (Len(base) = 0 <=> base = <<>>)
  BY EmptySeq, LenProperties
<1>. QED
  BY <1>1, <1>2, <1>3, DocIs DEF Finished

LEMMA StartDescribes ==
  ASSUME Types, Start
  PROVE  \E top \in Frame : top.items = <<>> /\ Describes(<<>>, top, <<>>)'
<1>. DEFINE top == [kind |-> "top", opener |-> <<>>, items |-> <<>>]
<1>1. /\ jstr'.comma_req = FALSE
      /\ pend' = <<>> /\ text' = <<>>
      /\ doc' = [open |-> <<top>>, long |-> <<>>]
  BY DEF Start, json_gen_str_start, Zero, Idle
<1>2. top \in Frame /\ <<>> \in Seq(Frame) /\ <<>> \in Text /\ <<>> \in Seq(Text)
  BY TextAlgebra DEF Frame
<1>3. top.kind = "top" /\ top.items = <<>> /\ top.opener = <<>>
  OBVIOUS
<1>. HIDE DEF top
<1>4. doc' = Doc(<<>>, top, <<>>)
  <2>1. Append(<<>>, top) = <<top>>
    OBVIOUS
  <2>. QED
    BY <1>1, <2>1 DEF Doc
<1>5. Shown(top) = <<>>
  BY <1>2, <1>3, JoinedEmpty, TextAlgebra DEF Shown
<1>6. Render(doc') = <<>>
  <2>1. Render(doc') = Around(<<>>) ++ Shown(top)
    BY <1>2, <1>4, RenderPlain, Zenon
  <2>2. <<>> ++ <<>> = <<>>
    BY TextAlgebra
  <2>. QED
    BY <1>5, <2>1, <2>2, AroundNothing, Zenon
<1>7. text' ++ FlattenSeq(pend') = <<>>
  BY <1>1, TextAlgebra, FlattenText
<1>8. \A i \in DOMAIN <<>> : <<>>[i].kind = "top" <=> i = 1
  OBVIOUS
<1>9. Describes(<<>>, top, <<>>)'
  BY <1>1, <1>3, <1>4, <1>6, <1>7, <1>8 DEF Describes
<1>. QED
  BY <1>2, <1>3, <1>9

\* While a call runs the document stays, and text moves from what is to be
\* added to what was added.
LEMMA AddDescribes ==
  ASSUME Types, NEW base \in Seq(Frame), NEW top \in Frame, NEW long \in Text,
         Describes(base, top, long), AddStart \/ AddFits \/ AddFlush \/ AddDrop
  PROVE  Describes(base, top, long)'
<1>1. doc' = doc /\ jstr'.comma_req = jstr.comma_req
  BY DEF AddStart, AddFits, AddFlush, AddDrop, Drop, Begin, Types
<1>2. text' ++ FlattenSeq(pend') = text ++ FlattenSeq(pend)
  <2>1. CASE AddStart
    <3>1. /\ pend \in Seq(Text) /\ pend # <<>>
          /\ pend' = Tail(pend) /\ text' = text ++ Head(pend)
      BY <2>1 DEF AddStart, Begin, Types, ++
    <3>2. /\ Head(pend) \in Text /\ Tail(pend) \in Seq(Text)
          /\ text \in Text
      BY <3>1, HeadTailProperties DEF Types
    <3>3. FlattenSeq(pend) = Head(pend) ++ FlattenSeq(Tail(pend)) /\ FlattenSeq(Tail(pend)) \in Text
      BY <3>1, <3>2, FlattenText
    <3>4. (text ++ Head(pend)) ++ FlattenSeq(Tail(pend))
            = text ++ (Head(pend) ++ FlattenSeq(Tail(pend)))
      BY <3>2, <3>3, TextAlgebra
    <3>. QED
      BY <3>1, <3>3, <3>4, Zenon
  <2>2. CASE AddFits \/ AddFlush \/ AddDrop
    BY <2>2 DEF AddFits, AddFlush, AddDrop, Drop
  <2>. QED
    BY <2>1, <2>2
<1>. QED
  BY <1>1, <1>2 DEF Describes

LEMMA DocumentInit == Init => DocumentInv
<1>1. <<>> \in Seq(Frame) /\ <<>> \in Text
  BY TextAlgebra
<1>. QED
  BY <1>1 DEF Init, Zero, DocumentInv

LEMMA DocumentStep ==
  ASSUME BufferInv, DocumentInv, [Next]_vars
  PROVE  DocumentInv'
<1>. USE DEF BufferInv
<1>1. CASE Start
  <2>1. PICK top \in Frame : Describes(<<>>, top, <<>>)'
    BY <1>1, StartDescribes
  <2>2. <<>> \in Seq(Frame) /\ <<>> \in Text
    BY TextAlgebra
  <2>. QED
    BY <2>1, <2>2, DescribedDoc DEF DocumentInv
<1>2. CASE Build
  <2>1. PICK base \in Seq(Frame), top \in Frame, long \in Text : Describes(base, top, long)'
    BY <1>2, BuildDescribes
  <2>. QED
    BY <2>1, DescribedDoc DEF DocumentInv
<1>3. CASE AddStart \/ AddFits \/ AddFlush \/ AddDrop
  <2>1. jstr.open /\ doc' = doc
    BY <1>3 DEF Counted, AddStart, AddFits, AddFlush, AddDrop, Drop, Begin
  <2>2. PICK base \in Seq(Frame), top \in Frame, long \in Text : Describes(base, top, long)
    BY <2>1 DEF DocumentInv
  <2>. QED
    BY <1>3, <2>1, <2>2, AddDescribes DEF DocumentInv
<1>4. CASE json_gen_str_end
  BY <1>4 DEF json_gen_str_end, End, Zero, DocumentInv
<1>5. CASE UNCHANGED vars
  BY <1>5 DEF vars, DocumentInv, Describes
<1>. QED
  BY <1>1, <1>2, <1>3, <1>4, <1>5 DEF Next

\* So does the one that ties the text to the document.
THEOREM DocumentInvariant == Spec => [](BufferInv /\ DocumentInv)
<1>1. BufferInv /\ DocumentInv /\ [Next]_vars => BufferInv' /\ DocumentInv'
  BY NextInv, DocumentStep
<1>. QED
  BY <1>1, InitInv, DocumentInit, PTL DEF Spec

\* Over all nestings of objects, arrays and long strings, whatever is added is
\* the text of the document that the calls describe.
THEOREM RightText == Spec => []WellFormed
<1>1. BufferInv /\ DocumentInv => WellFormed
  <2>. SUFFICES ASSUME BufferInv, DocumentInv, Idle, jstr.open
                PROVE  text = Render(doc)
    BY DEF WellFormed
  <2>1. text ++ FlattenSeq(pend) = Render(doc) /\ pend = <<>>
    BY DEF DocumentInv, Describes, Idle
  <2>2. text \in Text
    BY DEF BufferInv, Types
  <2>. QED
    BY <2>1, <2>2, FlattenText, TextAlgebra
<1>. QED
  BY <1>1, DocumentInvariant, PTL

LEMMA ResultStep ==
  ASSUME BufferInv, rc \in Int, [Next]_vars
  PROVE  rc' \in Int
<1>1. CASE Start
  BY <1>1 DEF Start, json_gen_str_start
<1>2. CASE Build
  BY <1>2, BuildIsCall DEF BufferInv, Call
<1>3. CASE AddStart \/ AddFits \/ AddFlush \/ AddDrop
  BY <1>3 DEF AddStart, AddFits, AddFlush, AddDrop, Drop, Begin
<1>4. CASE json_gen_str_end
  <2>1. rc' = jstr.total_len + 1 /\ jstr.total_len \in Nat
    BY <1>4 DEF json_gen_str_end, End, BufferInv, Types
  <2>. QED
    BY <2>1
<1>5. CASE UNCHANGED vars
  BY <1>5 DEF vars
<1>. QED
  BY <1>1, <1>2, <1>3, <1>4, <1>5 DEF Next

\* Every variable has its type.
THEOREM TypeCorrect == Spec => []TypeOK
<1>1. Init => rc \in Int
  BY DEF Init
<1>2. BufferInv /\ rc \in Int /\ [Next]_vars => (rc \in Int)'
  BY ResultStep
<1>3. BufferInv /\ DocumentInv /\ rc \in Int => TypeOK
  BY DEF BufferInv, Types, DocumentInv, TypeOK
<1>. QED
  BY <1>1, <1>2, <1>3, DocumentInvariant, PTL DEF Spec

-------------------------------------------------------------------------------
(* The invariant behind LastCallTells.  The result of a call is that of    *)
(* its last string, and the one that finishes the document adds a single   *)
(* bracket: an error it returns is not covered by a later string that is   *)
(* empty, and an earlier error does not survive it.                        *)

Tells ==
  /\ rest # <<>> => rc = 0
  /\ jstr.has_buf /\ ~jstr.flush_cb => Len(buf) + Len(rest) <= Len(text)
  /\ jstr.open /\ Finished =>
       /\ pend # <<>> => Len(pend) = 1 /\ Head(pend) # <<>>
       /\ jstr.has_buf /\ ~jstr.flush_cb /\ Idle => (rc = 0 <=> Fits)

LEMMA TellsInit == Init => Tells
BY DEF Init, Zero, Tells

LEMMA TellsStart ==
  ASSUME Types, Start
  PROVE  Tells'
<1>1. PICK top \in Frame : top.items = <<>> /\ Describes(<<>>, top, <<>>)'
  BY StartDescribes
<1>2. ~ Finished'
  <2>1. <<>> \in Seq(Frame) /\ <<>> \in Text
    BY TextAlgebra
  <2>. QED
    BY <1>1, <2>1, DescribedDoc
<1>3. buf' = <<>> /\ rest' = <<>> /\ text' = <<>>
  BY DEF Start, json_gen_str_start, Idle
<1>. QED
  BY <1>2, <1>3 DEF Tells

LEMMA TellsBuild ==
  ASSUME Types, DocumentInv, Tells, Build
  PROVE  Tells'
<1>1. PICK base \in Seq(Frame), top \in Frame, long \in Text :
        /\ Describes(base, top, long)'
        /\ base = <<>> => \E kind \in {"object", "array"} : pend' = <<Closer(kind)>>
  BY BuildDescribes
<1>2. Finished' => \E kind \in {"object", "array"} : pend' = <<Closer(kind)>>
  BY <1>1, DescribedDoc
<1>3. Finished' => pend' # <<>> /\ Len(pend') = 1 /\ Head(pend') # <<>>
  <2>1. \A kind : Closer(kind) # <<>>
    BY DEF Closer
  <2>2. \A x : <<x>> # <<>> /\ Len(<<x>>) = 1 /\ Head(<<x>>) = x
    OBVIOUS
  <2>. QED
    BY <1>2, <2>1, <2>2
<1>4. /\ rest' = <<>> /\ rest = <<>> /\ buf' = buf /\ text' = text
      /\ jstr'.has_buf = jstr.has_buf /\ jstr'.flush_cb = jstr.flush_cb
  BY BuildIsCall DEF Call, Idle, Types
<1>5. ~ (Finished' /\ Idle')
  BY <1>3 DEF Idle
<1>. QED
  BY <1>3, <1>4, <1>5 DEF Tells

LEMMA TellsAddStart ==
  ASSUME BufferInv, Tells, AddStart
  PROVE  Tells'
<1>1. /\ pend \in Seq(Text) /\ pend # <<>> /\ rest = <<>>
      /\ pend' = Tail(pend)
      /\ rest' = IF jstr.has_buf THEN Head(pend) ELSE <<>>
      /\ text' = text \o Head(pend)
      /\ rc' = 0 /\ buf' = buf /\ doc' = doc
      /\ jstr'.has_buf = jstr.has_buf /\ jstr'.flush_cb = jstr.flush_cb
      /\ jstr'.open = jstr.open
  BY DEF BufferInv, Types, AddStart, Begin
<1>2. Head(pend) \in Seq(Char) /\ text \in Seq(Char) /\ buf \in Seq(Char)
  BY <1>1, HeadTailProperties DEF BufferInv, Types, Text
<1>3. /\ Len(text') = Len(text) + Len(Head(pend))
      /\ Len(text) \in Nat /\ Len(Head(pend)) \in Nat /\ Len(buf) \in Nat
  BY <1>1, <1>2, ConcatProperties, LenProperties
<1>4. ASSUME jstr.has_buf, ~jstr.flush_cb
      PROVE  Len(buf') + Len(rest') <= Len(text')
  BY <1>1, <1>3, <1>4 DEF Tells
<1>5. ASSUME jstr.open, Finished
      PROVE  pend' = <<>> /\ (jstr.has_buf => rest' # <<>>)
  <2>1. Len(pend) = 1 /\ Head(pend) # <<>>
    BY <1>1, <1>5 DEF Tells
  <2>2. Tail(pend) = <<>>
    BY <1>1, <2>1, HeadTailProperties, EmptySeq
  <2>. QED
    BY <1>1, <2>1, <2>2
<1>6. Finished' <=> Finished
  BY <1>1 DEF Finished, Depth, Top
<1>. QED
  BY <1>1, <1>4, <1>5, <1>6 DEF Tells, Idle

LEMMA TellsAddCopy ==
  ASSUME BufferInv, Tells, AddFits \/ AddFlush \/ AddDrop
  PROVE  Tells'
<1>1. /\ rest # <<>> /\ jstr.has_buf /\ rc = 0
      /\ jstr' = jstr /\ pend' = pend /\ text' = text /\ doc' = doc
  BY DEF BufferInv, Counted, AddFits, AddFlush, AddDrop, Drop, Tells
<1>2. /\ Copied \in Seq(Char) /\ Left \in Seq(Char)
      /\ Copied \o Left = buf \o rest
      /\ Len(Copied) < jstr.buf_size
      /\ Left # <<>> => Len(Copied) = jstr.buf_size - 1
      /\ Len(buf) = jstr.buf_size - 1 => Copied = buf /\ Left # <<>>
  BY <1>1, Iteration DEF BufferInv, Text
<1>3. /\ buf \in Seq(Char) /\ rest \in Seq(Char) /\ jstr.buf_size \in Nat
      /\ Len(buf) \in Nat /\ Len(rest) \in Nat /\ Len(text) \in Nat
      /\ Len(Copied) \in Nat /\ Len(Left) \in Nat
      /\ Left # <<>> => Len(Left) > 0
  BY <1>2, LenProperties, EmptySeq DEF BufferInv, Types, Text
<1>4. Len(Copied) + Len(Left) = Len(buf) + Len(rest)
  <2>1. \A s, t \in Seq(Char) : Len(s \o t) = Len(s) + Len(t)
    BY ConcatProperties
  <2>. QED
    BY <1>2, <1>3, <2>1
<1>5. Finished' <=> Finished
  BY <1>1 DEF Finished, Depth, Top
<1>6. CASE AddFlush
  BY <1>1, <1>5, <1>6 DEF AddFlush, Tells, Idle
<1>7. CASE AddFits
  <2>1. /\ Left = <<>> /\ buf' = Copied /\ rest' = <<>> /\ rc' = rc
    BY <1>7 DEF AddFits
  <2>2. ASSUME ~jstr.flush_cb
        PROVE  Fits'
    <3>1. Copied = buf \o rest
      BY <1>2, <2>1, ConcatEmptySeq
    <3>2. buf \o rest = text
      BY <1>1, <1>2, <2>1, <2>2 DEF BufferInv, LongestPrefix
    <3>. QED
      BY <1>1, <1>2, <3>1, <3>2 DEF Fits
  <2>3. Len(buf') + Len(rest') = Len(buf) + Len(rest)
    BY <1>4, <2>1
  <2>. QED
    BY <1>1, <1>5, <2>1, <2>2, <2>3 DEF Tells
<1>8. CASE AddDrop
  <2>1. /\ Left # <<>> /\ ~jstr.flush_cb /\ buf' = Copied /\ rest' = <<>> /\ rc' = -1
    BY <1>8 DEF AddDrop, Drop
  <2>2. ~Fits'
    <3>1. Len(Copied) + Len(Left) <= Len(text)
      BY <1>1, <1>4, <2>1 DEF Tells
    <3>2. ~ (Len(text) < jstr.buf_size)
      BY <1>2, <1>3, <2>1, <3>1
    <3>. QED
      BY <1>1, <3>2 DEF Fits
  <2>3. Len(buf') + Len(rest') <= Len(text')
    BY <1>1, <1>3, <1>4, <2>1 DEF Tells
  <2>. QED
    BY <1>1, <1>5, <2>1, <2>2, <2>3 DEF Tells
<1>. QED
  BY <1>6, <1>7, <1>8

LEMMA TellsStep ==
  ASSUME BufferInv, DocumentInv, Tells, [Next]_vars
  PROVE  Tells'
<1>1. CASE Start
  BY <1>1, TellsStart DEF BufferInv
<1>2. CASE Build
  BY <1>2, TellsBuild DEF BufferInv
<1>3. CASE AddStart
  BY <1>3, TellsAddStart
<1>4. CASE AddFits \/ AddFlush \/ AddDrop
  BY <1>4, TellsAddCopy
<1>5. CASE json_gen_str_end
  BY <1>5 DEF json_gen_str_end, End, Zero, Idle, Tells
<1>6. CASE UNCHANGED vars
  BY <1>6 DEF vars, Tells, Finished, Depth, Top, Idle, Fits
<1>. QED
  BY <1>1, <1>2, <1>3, <1>4, <1>5, <1>6 DEF Next

\* Without a callback the call that finishes the document returns an error
\* exactly if the document does not fit, whatever earlier calls returned.
THEOREM LastCall == Spec => []LastCallTells
<1>1. BufferInv /\ DocumentInv /\ Tells /\ [Next]_vars => Tells'
  BY TellsStep
<1>2. BufferInv /\ Tells => LastCallTells
  <2>. SUFFICES ASSUME BufferInv, Tells, Idle, jstr.open, Finished, jstr.has_buf, ~jstr.flush_cb
                PROVE  (rc = 0 <=> Fits) /\ (Fits <=> buf = text)
    BY DEF LastCallTells
  <2>1. /\ buf \in Seq(Char) /\ text \in Seq(Char) /\ rest = <<>>
        /\ Len(buf) \in Nat /\ Len(text) \in Nat /\ jstr.buf_size \in Nat
        /\ Len(buf) < jstr.buf_size
    BY LenProperties DEF BufferInv, Types, Text, RoomForNull, Idle
  <2>2. CASE Len(buf) = jstr.buf_size - 1
    <3>1. SubSeq(text, 1, Len(buf)) = buf /\ Len(text) >= Len(buf)
      BY <2>2 DEF BufferInv, LongestPrefix
    <3>2. SubSeq(text, 1, Len(text)) = text
      BY <2>1, SubSeqFull
    <3>3. Len(text) < jstr.buf_size => Len(text) = Len(buf)
      BY <2>1, <2>2, <3>1
    <3>. QED
      BY <2>1, <3>1, <3>2, <3>3 DEF Fits, Tells
  <2>3. CASE Len(buf) # jstr.buf_size - 1
    <3>1. buf = text
      BY <2>1, <2>3, ConcatEmptySeq DEF BufferInv, LongestPrefix
    <3>. QED
      BY <2>1, <3>1 DEF Fits, Tells
  <2>. QED
    BY <2>2, <2>3
<1>. QED
  BY <1>1, <1>2, TellsInit, DocumentInvariant, PTL DEF Spec
===============================================================================

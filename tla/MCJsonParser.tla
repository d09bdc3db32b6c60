----------------------------- MODULE MCJsonParser -----------------------------
(***************************************************************************)
(* JsonParser.tla for TLC: the texts.                                      *)
(***************************************************************************)
EXTENDS JsonParser

Quoted(s) == <<"quote">> \o s \o <<"quote">>

MCNames == { <<"n">>, <<"n", "1">> }

\* Texts are lists of lexemes.
Lexemes == { <<x>> : x \in {"{", "}", "[", "]", ":", ",", "1"} } \cup { Quoted(<<"n">>) }

Simple == { << <<"1">> >>, << Quoted(<<"n">>) >> }

Member(value) == {<< Quoted(name), <<":">> >> \o value : name \in MCNames}
Members(values) == UNION {Member(value) : value \in values}
In(open, body, close) == << <<open>> >> \o body \o << <<close>> >>
Pair(x, y) == x \o << <<",">> >> \o y

\* Objects and arrays of up to two elements, the first from a and the second from b.
Nest(a, b) ==
  {In("{", m, "}") : m \in {<<>>} \cup Members(a)}
  \cup {In("{", Pair(x, y), "}") : x \in Members(a), y \in Members(b)}
  \cup {In("[", v, "]") : v \in {<<>>} \cup a}
  \cup {In("[", Pair(x, y), "]") : x \in a, y \in b}

Flat == Nest(Simple, Simple)
Nested == Nest(Flat, Simple) \cup Nest(Simple, Flat)

Spaced(lexemes) == FlattenSeq([i \in DOMAIN lexemes |-> lexemes[i] \o <<" ">>])

\* Strings of escapes, a quotation mark and a backslash at the end among them, and of
\* characters that mean something elsewhere.
Escapes == { <<"n", " ", "{", ",">>, <<"bslash", "quote">>, <<"n", "bslash", "bslash">>, <<"bslash", "u", "1", "a", "1", "a">>,
             <<"bslash", "quote", "n", "bslash", "bslash", "bslash", "quote">> }
Escaping == {In("[", << Quoted(e) >>, "]") : e \in Escapes}
            \cup {In("{", << Quoted(d), <<":">>, Quoted(e) >>, "}") : d \in Escapes, e \in Escapes}

MCDocuments == {FlattenSeq(d) : d \in Flat \cup Nested \cup Escaping} \cup {Spaced(d) : d \in Flat}

MCTruncated == UNION {{SubSeq(d, 1, n) : n \in 0 .. Len(d) - 1} :
                      d \in {FlattenSeq(f) : f \in Flat} \cup {<<"{">> \o Quoted(<<"bslash", "u", "1", "a", "1", "a">>)
                             \o <<":", "[", "1", ",">> \o Quoted(<<"bslash", "bslash">>) \o <<"]", "}">>}}

\* Any few lexemes, documents with a lexeme put in, and any short string.
Junk == {FlattenSeq(s) : s \in UNION {[1 .. n -> Lexemes] : n \in 0 .. 4}}
Inserted == UNION {{FlattenSeq(SubSeq(d, 1, i) \o <<l>> \o SubSeq(d, i + 1, Len(d))) :
                     i \in 0 .. Len(d), l \in Lexemes} : d \in Nest({<< <<"1">> >>}, {<< <<"1">> >>})}
StringChars == {"quote", "bslash", "u", "1", "a", "ctl", "nul"}
Strings == {<<"[">> \o Quoted(s) \o <<"]">> : s \in UNION {[1 .. n -> StringChars] : n \in 0 .. 3}}
             \cup {<<"[", "1", "ctl", "]">>}

ASSUME GrammarAssumption ==
  /\ \A d \in MCDocuments : IsDocument(d)
  /\ \A d \in MCTruncated : IsCut(d)

MCInputs == MCDocuments \cup MCTruncated \cup Junk \cup Inserted \cup Strings
===============================================================================

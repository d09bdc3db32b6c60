------------------------------ MODULE JsmnProofs ------------------------------
(***************************************************************************)
(* Proofs about Jsmn.tla and JsonParser.tla.                               *)
(*                                                                         *)
(* The first part is about every text that is given to json_parse_start, a *)
(* JSON document or not: the parser stays within it, the tokens are a      *)
(* forest, the array that the first pass has sized is what the second one  *)
(* fills, json_skip_elem steps over exactly one element and the look-ups   *)
(* find what they are asked for.                                           *)
(*                                                                         *)
(* The second part is about JSON documents, the texts that the grammar of  *)
(* JsonGrammar.tla accepts: both passes accept every one of them and       *)
(* nothing that is cut off, the tokens have its structure, and so every    *)
(* look-up in it is right and leaving an object or array returns to where  *)
(* it was entered from.                                                    *)
(*                                                                         *)
(* The third part is about where the tokens are in the text of a document: *)
(* between them there is nothing but brackets, commas, colons, quotation   *)
(* marks and white space, and so the tokens give the text back and the     *)
(* getters give the values that it writes.                                 *)
(***************************************************************************)
EXTENDS JsonParser, SequenceLemmas

\* Token s, or none, can still get children: it is on the way from the last token
\* to its root, so that all tokens after it are inside it.
OnPath(s) ==
  /\ s \in 0 .. Len(tokens)
  /\ \A k \in DOMAIN tokens : s < k => tokens[k].parent >= s

\* What jsmn_parse relies on in each of its loops.
Loops ==
  /\ loop = "string" => start < pos
  /\ loop = "primitive" => start <= pos
  /\ loop = "close" => pos < Len(js) /\ token # 0 /\ OnPath(token)

Parsing == pass \in {"count", "fill"}

ParserInv ==
  /\ TypeOK
  /\ Preorder
  /\ SizesAreChildren
  /\ Parsing => Loops /\ OnPath(toksuper)
  /\ pass = "count" => tokens = <<>>

-------------------------------------------------------------------------------
(* The array of tokens.                                                    *)

LEMMA TokenTypes ==
  ASSUME tokens \in Seq(Token)
  PROVE  /\ Len(tokens) \in Nat /\ DOMAIN tokens = 1 .. Len(tokens)
         /\ \A i \in 1 .. Len(tokens) :
              /\ tokens[i] \in Token
              /\ tokens[i].parent \in Nat /\ tokens[i].size \in Nat
<1>1. Len(tokens) \in Nat /\ DOMAIN tokens = 1 .. Len(tokens)
  BY LenProperties
<1>2. \A i \in 1 .. Len(tokens) : tokens[i] \in Token
  BY ElementOfSeq
<1>. QED
  BY <1>1, <1>2 DEF Token

\* The parent of a token on the way to the root is on this way.
LEMMA ParentOnPath ==
  ASSUME tokens \in Seq(Token), Preorder, NEW t \in DOMAIN tokens, OnPath(t)
  PROVE  OnPath(tokens[t].parent)
<1>. DEFINE p == tokens[t].parent
<1>1. /\ t \in 1 .. Len(tokens) /\ Len(tokens) \in Nat
      /\ \A k \in DOMAIN tokens : k \in 1 .. Len(tokens) /\ tokens[k].parent \in Nat
  BY TokenTypes
<1>2. p \in Nat /\ p < t
  BY <1>1 DEF Preorder
<1>3. ASSUME NEW k \in DOMAIN tokens, p < k
      PROVE  tokens[k].parent >= p
  <2>1. k \in 1 .. Len(tokens) /\ tokens[k].parent \in Nat
    BY <1>1
  <2>2. CASE k < t
    BY <1>3, <2>2 DEF Preorder
  <2>3. CASE k = t
    BY <2>3, <1>2
  <2>4. CASE k > t
    BY <1>1, <1>2, <2>1, <2>4 DEF OnPath
  <2>. QED
    BY <1>1, <2>1, <2>2, <2>3, <2>4
<1>. QED
  BY <1>1, <1>2, <1>3 DEF OnPath

\* The last token and the missing one.
LEMMA LastOnPath ==
  ASSUME tokens \in Seq(Token)
  PROVE  OnPath(Len(tokens))
BY TokenTypes DEF OnPath

\* A new token behind the others, as a child of the superior one.
LEMMA LinkedTokens ==
  ASSUME TypeOK, OnPath(toksuper), js' = js,
         NEW type \in {"object", "array", "string", "primitive"},
         NEW first \in 0 .. Len(js), NEW last \in -1 .. Len(js),
         tokens' = Linked(type, first, last, toksuper)
  PROVE  /\ tokens' \in Seq(Token')
         /\ DOMAIN tokens = 1 .. Len(tokens)
         /\ Len(tokens') = Len(tokens) + 1 /\ DOMAIN tokens' = 1 .. Len(tokens) + 1
         /\ \A i \in DOMAIN tokens :
              /\ tokens'[i].parent = tokens[i].parent
              /\ tokens'[i].size = IF i = toksuper THEN tokens[i].size + 1 ELSE tokens[i].size
         /\ tokens'[Len(tokens) + 1].parent = toksuper
         /\ tokens'[Len(tokens) + 1].size = 0
<1>. DEFINE new == [type |-> type, start |-> first, end |-> last, size |-> 0, parent |-> toksuper]
            old == IF toksuper = 0 THEN tokens ELSE [tokens EXCEPT ![toksuper].size = @ + 1]
<1>1. Token' = Token
  BY DEF Token
<1>2. tokens \in Seq(Token) /\ Len(tokens) \in Nat /\ DOMAIN tokens = 1 .. Len(tokens)
  BY TokenTypes DEF TypeOK
<1>3. \A i \in DOMAIN tokens : tokens[i] \in Token
  BY <1>2, TokenTypes
<1>4. toksuper \in 0 .. Len(tokens)
  BY DEF OnPath
<1>5. new \in Token
  BY DEF Token, TypeOK
<1>6. /\ old \in Seq(Token) /\ Len(old) = Len(tokens)
      /\ \A i \in DOMAIN tokens :
           /\ old[i].parent = tokens[i].parent
           /\ old[i].size = IF i = toksuper THEN tokens[i].size + 1 ELSE tokens[i].size
  <2>1. CASE toksuper = 0
    BY <1>2, <2>1
  <2>2. CASE toksuper # 0
    <3>. DEFINE e == [tokens[toksuper] EXCEPT !.size = @ + 1]
    <3>1. toksuper \in 1 .. Len(tokens)
      BY <1>2, <1>4, <2>2
    <3>2. tokens[toksuper] \in Token
      BY <1>2, <1>3, <3>1
    <3>3. e \in Token
      <4>1. tokens[toksuper].size \in Nat /\ tokens[toksuper].size + 1 \in Nat
        BY <3>2 DEF Token
      <4>2. \A s \in Nat : [tokens[toksuper] EXCEPT !.size = s] \in Token
        BY <3>2, Zenon DEF Token
      <4>. QED
        BY <4>1, <4>2, Zenon
    <3>4. old = [tokens EXCEPT ![toksuper] = e]
      BY <2>2
    <3>5. /\ old \in Seq(Token) /\ Len(old) = Len(tokens)
          /\ \A j \in 1 .. Len(tokens) : old[j] = IF j = toksuper THEN e ELSE tokens[j]
      BY <1>2, <3>1, <3>3, <3>4, ExceptSeq
    <3>6. e.parent = tokens[toksuper].parent /\ e.size = tokens[toksuper].size + 1
      BY <3>2 DEF Token
    <3>. QED
      BY <1>2, <3>5, <3>6
  <2>. QED
    BY <2>1, <2>2
<1>7. tokens' = Append(old, new)
  BY DEF Linked
<1>8. /\ tokens' \in Seq(Token) /\ Len(tokens') = Len(old) + 1
      /\ \A i \in 1 .. Len(old) : tokens'[i] = old[i]
      /\ tokens'[Len(old) + 1] = new
  <2>1. old \in Seq(Token)
    BY <1>6
  <2>. HIDE DEF old, new
  <2>. QED
    BY <1>5, <1>7, <2>1, AppendProperties
<1>9. DOMAIN tokens' = 1 .. Len(tokens) + 1
  BY <1>2, <1>6, <1>8, LenProperties
<1>10. new.parent = toksuper /\ new.size = 0
  OBVIOUS
<1>. HIDE DEF old, new
<1>. QED
  BY <1>1, <1>2, <1>6, <1>8, <1>9, <1>10

\* It keeps the forest, and can be the superior one itself, or leave that to its
\* parent.
LEMMA LinkedForest ==
  ASSUME TypeOK, Preorder, SizesAreChildren, OnPath(toksuper), js' = js,
         NEW type \in {"object", "array", "string", "primitive"},
         NEW first \in 0 .. Len(js), NEW last \in -1 .. Len(js),
         tokens' = Linked(type, first, last, toksuper)
  PROVE  /\ tokens' \in Seq(Token') /\ Preorder' /\ SizesAreChildren'
         /\ toksuper' \in {toksuper, Len(tokens) + 1} => OnPath(toksuper)'
<1>. DEFINE n == Len(tokens)
<1>1. /\ tokens' \in Seq(Token')
      /\ DOMAIN tokens = 1 .. n
      /\ Len(tokens') = n + 1 /\ DOMAIN tokens' = 1 .. n + 1
      /\ \A i \in 1 .. n :
           /\ tokens'[i].parent = tokens[i].parent
           /\ tokens'[i].size = IF i = toksuper THEN tokens[i].size + 1 ELSE tokens[i].size
      /\ tokens'[n + 1].parent = toksuper
      /\ tokens'[n + 1].size = 0
  BY LinkedTokens
<1>2. /\ n \in Nat /\ toksuper \in 0 .. n
      /\ \A i \in 1 .. n : tokens[i].parent \in Nat /\ tokens[i].size \in Nat /\ tokens[i].parent < i
      /\ \A k \in 1 .. n : toksuper < k => tokens[k].parent >= toksuper
  BY <1>1, TokenTypes DEF OnPath, Preorder, TypeOK
<1>. HIDE DEF n
<1>3. Preorder'
  <2>. SUFFICES ASSUME NEW i \in 1 .. n + 1
                PROVE  /\ tokens'[i].parent < i
                       /\ \A j \in 1 .. n + 1 : tokens'[i].parent < j /\ j < i =>
                                               tokens'[j].parent >= tokens'[i].parent
    BY <1>1 DEF Preorder
  <2>1. CASE i = n + 1
    BY <1>1, <1>2, <2>1
  <2>2. CASE i # n + 1
    <3>1. i \in 1 .. n
      BY <1>2, <2>2
    <3>2. \A j \in 1 .. n : tokens[i].parent < j /\ j < i => tokens[j].parent >= tokens[i].parent
      BY <1>1, <3>1 DEF Preorder
    <3>. QED
      BY <1>1, <1>2, <3>1, <3>2
  <2>. QED
    BY <2>1, <2>2
<1>4. SizesAreChildren'
  <2>. SUFFICES ASSUME NEW i \in 1 .. n + 1
                PROVE  tokens'[i].size = Cardinality({j \in 1 .. n + 1 : tokens'[j].parent = i})
    BY <1>1 DEF SizesAreChildren
  <2>. DEFINE K == {j \in 1 .. n : tokens[j].parent = i}
              L == {j \in 1 .. n + 1 : tokens'[j].parent = i}
  <2>1. CASE i = n + 1
    <3>1. L = {}
      BY <1>1, <1>2, <2>1
    <3>. QED
      BY <1>1, <2>1, <3>1, FS_EmptySet
  <2>2. CASE i # n + 1
    <3>1. i \in 1 .. n
      BY <1>2, <2>2
    <3>2. IsFiniteSet(K) /\ tokens[i].size = Cardinality(K)
      <4>1. n \in Int /\ 1 \in Int
        BY <1>2
      <4>2. IsFiniteSet(1 .. n)
        BY <4>1, FS_Interval
      <4>3. K \in SUBSET (1 .. n)
        OBVIOUS
      <4>4. IsFiniteSet(K)
        BY <4>2, <4>3, FS_Subset
      <4>5. K = {j \in DOMAIN tokens : tokens[j].parent = i} /\ i \in DOMAIN tokens
        BY <1>1, <3>1
      <4>6. tokens[i].size = Cardinality({j \in DOMAIN tokens : tokens[j].parent = i})
        BY <4>5 DEF SizesAreChildren
      <4>. QED
        BY <4>4, <4>5, <4>6
    <3>3. CASE i = toksuper
      <4>1. L = K \cup {n + 1} /\ n + 1 \notin K
        BY <1>1, <1>2, <3>3
      <4>2. Cardinality(L) = Cardinality(K) + 1
        BY <3>2, <4>1, FS_AddElement
      <4>. QED
        BY <1>1, <3>1, <3>2, <3>3, <4>2
    <3>4. CASE i # toksuper
      <4>1. L = K
        BY <1>1, <1>2, <3>4
      <4>. QED
        BY <1>1, <3>1, <3>2, <3>4, <4>1
    <3>. QED
      BY <3>3, <3>4
  <2>. QED
    BY <2>1, <2>2
<1>5. ASSUME toksuper' \in {toksuper, n + 1}
      PROVE  OnPath(toksuper)'
  <2>1. toksuper' \in 0 .. n + 1
    BY <1>2, <1>5
  <2>2. ASSUME NEW k \in 1 .. n + 1, toksuper' < k
        PROVE  tokens'[k].parent >= toksuper'
    <3>1. toksuper' = toksuper
      BY <1>2, <1>5, <2>2
    <3>2. CASE k = n + 1
      BY <1>1, <1>2, <3>1, <3>2
    <3>3. CASE k # n + 1
      <4>1. k \in 1 .. n
        BY <1>2, <3>3
      <4>. QED
        BY <1>1, <1>2, <2>2, <3>1, <4>1
    <3>. QED
      BY <3>2, <3>3
  <2>. QED
    BY <1>1, <2>1, <2>2 DEF OnPath
<1>. QED
  BY <1>1, <1>3, <1>4, <1>5 DEF n

-------------------------------------------------------------------------------
(* jsmn_parse.                                                             *)

\* An escape ends within the text.
LEMMA HexWithin ==
  ASSUME js \in Seq(Char), NEW p \in 0 .. Len(js)
  PROVE  AfterHex(p) \in p .. Len(js)
<1>1. Len(js) \in Nat
  BY LenProperties
<1>2. \A q \in p .. Len(js) : (IF More(q) THEN q + 1 ELSE q) \in p .. Len(js)
  BY <1>1 DEF More
<1>. QED
  BY <1>2 DEF AfterHex

\* Steps that leave the tokens as they are.
LEMMA SameTokens ==
  ASSUME ParserInv, Parsing, js' = js, pass' = pass, tokens' = tokens,
         TypeOK', Loops', OnPath(toksuper)'
  PROVE  ParserInv'
BY DEF ParserInv, Preorder, SizesAreChildren

LEMMA ReturnStep ==
  ASSUME ParserInv, Parsing, NEW r \in Int, Return(r)
  PROVE  ParserInv'
<1>1. TypeOK'
  BY DEF Return, ParserInv, TypeOK, Token
<1>2. Loops' /\ OnPath(toksuper)'
  BY DEF Return, ParserInv, Loops, OnPath
<1>. QED
  BY <1>1, <1>2, SameTokens DEF Return

\* The loop l goes on, with s as the superior token.
LEMMA GoOnStep ==
  ASSUME ParserInv, Parsing, NEW l \in {"main", "string", "primitive"},
         NEW p \in 0 .. Len(js), NEW s \in Nat, OnPath(s),
         GoOn(l, p), toksuper' = s, count' \in Nat, tokens' = tokens,
         l = "string" => start < p, l = "primitive" => start <= p
  PROVE  ParserInv'
<1>1. TypeOK'
  BY DEF GoOn, ParserInv, TypeOK, Token
<1>2. Loops' /\ OnPath(toksuper)'
  BY DEF GoOn, ParserInv, Loops, OnPath
<1>. QED
  BY <1>1, <1>2, SameTokens DEF GoOn

LEMMA SkipStep ==
  ASSUME ParserInv, Parsing, NEW l \in {"main", "string", "primitive"},
         NEW p \in 0 .. Len(js), Skip(l, p),
         l = "string" => start < p, l = "primitive" => start <= p
  PROVE  ParserInv'
<1>1. toksuper \in Nat /\ count \in Nat /\ OnPath(toksuper)
  BY DEF ParserInv, TypeOK
<1>. QED
  BY <1>1, GoOnStep DEF Skip

LEMMA BeginStep ==
  ASSUME ParserInv, Parsing, NEW l \in {"string", "primitive"},
         NEW p \in 0 .. Len(js), Begin(l, p),
         l = "string" => pos < p, l = "primitive" => pos <= p
  PROVE  ParserInv'
<1>1. TypeOK'
  BY DEF Begin, ParserInv, TypeOK, Token
<1>2. Loops' /\ OnPath(toksuper)'
  BY DEF Begin, ParserInv, Loops, OnPath
<1>. QED
  BY <1>1, <1>2, SameTokens DEF Begin

\* A token is added.
LEMMA AddStep ==
  ASSUME ParserInv, Parsing, NEW p \in 0 .. Len(js),
         NEW type \in {"object", "array", "string", "primitive"},
         NEW first \in 0 .. Len(js), NEW last \in -1 .. Len(js),
         AddToken(type, first, last), count' = count + 1, GoOn("main", p),
         toksuper' = toksuper \/ (Filling /\ toksuper' = Len(tokens) + 1)
  PROVE  ParserInv'
<1>1. TypeOK /\ Preorder /\ SizesAreChildren /\ OnPath(toksuper) /\ js' = js
  BY DEF ParserInv, GoOn
<1>2. CASE Filling
  <2>1. tokens' = Linked(type, first, last, toksuper)
    BY <1>2 DEF AddToken
  <2>2. /\ tokens' \in Seq(Token') /\ Preorder' /\ SizesAreChildren'
        /\ toksuper' \in {toksuper, Len(tokens) + 1} => OnPath(toksuper)'
    BY <1>1, <2>1, LinkedForest
  <2>3. Len(tokens) \in Nat
    BY <1>1, TokenTypes DEF TypeOK
  <2>4. TypeOK'
    BY <1>1, <2>2, <2>3 DEF TypeOK, GoOn
  <2>5. Loops' /\ pass' # "count"
    BY <1>2 DEF Loops, GoOn, Filling
  <2>. QED
    BY <2>2, <2>4, <2>5 DEF ParserInv
<1>3. CASE ~Filling
  <2>1. tokens' = tokens /\ toksuper' = toksuper
    BY <1>3 DEF AddToken
  <2>2. toksuper \in Nat /\ count' \in Nat
    BY <1>1 DEF TypeOK
  <2>. QED
    BY <1>1, <2>1, <2>2, GoOnStep
<1>. QED
  BY <1>2, <1>3

\* An object or array is closed, and the superior token is its parent.
LEMMA CloseStep ==
  ASSUME ParserInv, Parsing, CloseFound
  PROVE  ParserInv'
<1>1. CASE ~Closes(tokens[token])
  BY <1>1, ReturnStep DEF CloseFound, INVAL
<1>2. CASE Closes(tokens[token])
  <2>. DEFINE e == [tokens[token] EXCEPT !.end = pos + 1]
  <2>1. /\ tokens' = [tokens EXCEPT ![token] = e]
        /\ toksuper' = tokens[token].parent
        /\ loop' = "main" /\ pos' = pos + 1
        /\ UNCHANGED <<js, pass, num_tokens, start, token, ret, count>>
    BY <1>2 DEF GoOn, CloseFound
  <2>2. TypeOK /\ Preorder /\ SizesAreChildren /\ OnPath(token) /\ token # 0 /\ pos < Len(js)
    BY DEF ParserInv, Loops, CloseFound
  <2>3. /\ tokens \in Seq(Token) /\ Len(tokens) \in Nat /\ DOMAIN tokens = 1 .. Len(tokens)
        /\ token \in 1 .. Len(tokens) /\ tokens[token] \in Token
    BY <2>2, TokenTypes DEF OnPath, TypeOK
  <2>4. OnPath(tokens[token].parent)
    BY <2>2, <2>3, ParentOnPath
  <2>5. pos + 1 \in 0 .. Len(js)
    BY <2>2, LenProperties DEF TypeOK
  <2>6. e \in Token /\ e.parent = tokens[token].parent /\ e.size = tokens[token].size
    <3>1. pos + 1 \in -1 .. Len(js)
      BY <2>5
    <3>2. ASSUME NEW t \in Token
          PROVE  LET u == [t EXCEPT !.end = pos + 1]
                 IN  u \in Token /\ u.parent = t.parent /\ u.size = t.size
      BY <3>1 DEF Token
    <3>. QED
      BY <2>3, <3>2
  <2>. HIDE DEF e
  <2>7. /\ tokens' \in Seq(Token) /\ Len(tokens') = Len(tokens)
        /\ \A j \in 1 .. Len(tokens) : tokens'[j] = IF j = token THEN e ELSE tokens[j]
    BY <2>1, <2>3, <2>6, ExceptSeq
  <2>8. /\ DOMAIN tokens' = DOMAIN tokens /\ Len(tokens') = Len(tokens)
        /\ \A j \in DOMAIN tokens : /\ tokens'[j].parent = tokens[j].parent
                                   /\ tokens'[j].size = tokens[j].size
    BY <2>3, <2>6, <2>7, LenProperties
  <2>9. Token' = Token
    BY <2>1 DEF Token
  <2>10. TypeOK'
    BY <2>1, <2>2, <2>3, <2>5, <2>6, <2>7, <2>9 DEF TypeOK, Token
  <2>11. Preorder' /\ OnPath(toksuper)'
    BY <2>1, <2>2, <2>4, <2>8 DEF Preorder, OnPath
  <2>12. SizesAreChildren'
    <3>1. ASSUME NEW i \in DOMAIN tokens
          PROVE  {j \in DOMAIN tokens' : tokens'[j].parent = i} = {j \in DOMAIN tokens : tokens[j].parent = i}
      BY <2>8
    <3>. QED
      BY <2>2, <2>8, <3>1 DEF SizesAreChildren
  <2>13. Loops' /\ (pass' = "count" => tokens' = <<>>)
    <3>1. pass # "count"
      BY <2>3 DEF ParserInv
    <3>. QED
      BY <2>1, <3>1 DEF Loops
  <2>. QED
    BY <2>10, <2>11, <2>12, <2>13 DEF ParserInv
<1>. QED
  BY <1>1, <1>2

\* The search for the open object or array begins, and goes to the parent.
LEMMA SearchStep ==
  ASSUME ParserInv, Parsing, Close \/ CloseUp
  PROVE  ParserInv'
<1>1. /\ TypeOK /\ Preorder /\ OnPath(toksuper)
      /\ tokens \in Seq(Token) /\ Len(js) \in Nat
  BY LenProperties DEF ParserInv, TypeOK
<1>2. Len(tokens) \in Nat /\ OnPath(Len(tokens))
  BY <1>1, LastOnPath, TokenTypes
<1>3. pos < Len(js) /\ pos + 1 \in 0 .. Len(js)
  BY <1>1 DEF ParserInv, Loops, Close, CloseUp, Reading, AtEnd, More, TypeOK
<1>4. ASSUME NEW t \in Nat \ {0}, OnPath(t), token' = t, loop' = "close",
             UNCHANGED <<js, pass, pos, toksuper, tokens, num_tokens, count, start, ret>>
      PROVE  ParserInv'
  <2>1. TypeOK'
    BY <1>1, <1>4 DEF TypeOK, Token
  <2>2. Loops' /\ OnPath(toksuper)'
    BY <1>1, <1>3, <1>4 DEF Loops, OnPath
  <2>. QED
    BY <1>4, <2>1, <2>2, SameTokens
<1>5. CASE Close
  <2>1. CASE ~Filling
    BY <1>3, <1>5, <2>1, SkipStep DEF Close
  <2>2. CASE Filling /\ tokens = <<>>
    BY <1>5, <2>2, ReturnStep DEF Close, INVAL
  <2>3. CASE Filling /\ tokens # <<>>
    <3>1. Len(tokens) # 0
      BY <1>1, <2>3
    <3>. QED
      BY <1>2, <1>4, <1>5, <2>3, <3>1 DEF Close
  <2>. QED
    BY <2>1, <2>2, <2>3
<1>6. CASE CloseUp
  <2>1. token \in DOMAIN tokens /\ OnPath(token)
    BY <1>1, <1>6, TokenTypes DEF CloseUp, ParserInv, Loops, OnPath
  <2>2. OnPath(tokens[token].parent) /\ tokens[token].parent \in Nat
    BY <1>1, <2>1, ParentOnPath, TokenTypes
  <2>3. CASE tokens[token].parent # 0
    BY <1>4, <1>6, <2>2, <2>3 DEF CloseUp
  <2>4. CASE tokens[token].parent = 0
    <3>1. Return(INVAL) \/ Skip("main", pos + 1)
      BY <1>6, <2>4 DEF CloseUp
    <3>. QED
      BY <1>3, <3>1, ReturnStep, SkipStep DEF INVAL
  <2>. QED
    BY <2>3, <2>4
<1>. QED
  BY <1>5, <1>6

\* A string or a primitive ends.
LEMMA ValueStep ==
  ASSUME ParserInv, Parsing, StringEnd \/ PrimitiveEnd
  PROVE  ParserInv'
<1>1. TypeOK /\ Len(js) \in Nat
  BY LenProperties DEF ParserInv, TypeOK
<1>2. ASSUME NEW type \in {"string", "primitive"}, NEW first \in 0 .. Len(js),
             NEW next \in 0 .. Len(js), NewValue(type, first, next)
      PROVE  ParserInv'
  <2>1. CASE Full
    BY <1>2, <2>1, ReturnStep DEF NewValue, NOMEM
  <2>2. CASE ~Full
    <3>1. pos \in -1 .. Len(js)
      BY <1>1 DEF TypeOK
    <3>. QED
      BY <1>2, <2>2, <3>1, AddStep DEF NewValue
  <2>. QED
    BY <2>1, <2>2
<1>3. CASE StringEnd
  <2>1. start + 1 \in 0 .. Len(js) /\ pos + 1 \in 0 .. Len(js)
    BY <1>1, <1>3 DEF StringEnd, Reading, AtEnd, More, ParserInv, Loops, TypeOK
  <2>. QED
    BY <1>2, <1>3, <2>1 DEF StringEnd
<1>4. CASE PrimitiveEnd
  <2>1. start \in 0 .. Len(js) /\ pos \in 0 .. Len(js)
    BY <1>1 DEF TypeOK
  <2>. QED
    BY <1>2, <1>4, <2>1 DEF PrimitiveEnd
<1>. QED
  BY <1>3, <1>4

\* Colon and comma choose another superior token.
LEMMA SuperStep ==
  ASSUME ParserInv, Parsing, Colon \/ Comma
  PROVE  ParserInv'
<1>1. TypeOK /\ Preorder /\ OnPath(toksuper) /\ tokens \in Seq(Token) /\ Len(js) \in Nat
  BY LenProperties DEF ParserInv, TypeOK
<1>2. pos + 1 \in 0 .. Len(js)
  <2>1. ~AtEnd
    BY DEF Colon, Comma, Reading
  <2>. QED
    BY <1>1, <2>1 DEF AtEnd, More, TypeOK
<1>3. ASSUME NEW s \in Nat, OnPath(s), SetSuper(s)
      PROVE  ParserInv'
  <2>1. count' \in Nat /\ tokens' = tokens
    BY <1>1, <1>3 DEF SetSuper, TypeOK
  <2>. QED
    BY <1>2, <1>3, <2>1, GoOnStep DEF SetSuper
<1>4. CASE Colon
  <2>1. Len(tokens) \in Nat /\ OnPath(Len(tokens))
    BY <1>1, LastOnPath, TokenTypes
  <2>. QED
    BY <1>3, <1>4, <2>1 DEF Colon
<1>5. CASE Comma
  <2>1. CASE Under({"string", "primitive"})
    <3>1. toksuper \in DOMAIN tokens
      BY <1>1, <2>1, TokenTypes DEF Under, OnPath
    <3>2. OnPath(tokens[toksuper].parent) /\ tokens[toksuper].parent \in Nat
      BY <1>1, <3>1, ParentOnPath, TokenTypes
    <3>. QED
      BY <1>3, <1>5, <2>1, <3>2 DEF Comma
  <2>2. CASE ~Under({"string", "primitive"})
    BY <1>1, <1>3, <1>5, <2>2 DEF Comma, TypeOK
  <2>. QED
    BY <2>1, <2>2
<1>. QED
  BY <1>4, <1>5

LEMMA OpenStep ==
  ASSUME ParserInv, Parsing, Open
  PROVE  ParserInv'
<1>1. TypeOK /\ Len(js) \in Nat
  BY LenProperties DEF ParserInv, TypeOK
<1>2. CASE Full \/ Under({"object"})
  <2>1. Return(NOMEM) \/ Return(INVAL)
    BY <1>2 DEF Open
  <2>. QED
    BY <2>1, ReturnStep DEF NOMEM, INVAL
<1>3. CASE ~(Full \/ Under({"object"}))
  <2>1. PICK type \in {"object", "array"} :
          /\ AddToken(type, pos, -1)
          /\ toksuper' = IF Filling THEN Len(tokens) + 1 ELSE toksuper
          /\ count' = count + 1
          /\ GoOn("main", pos + 1)
    BY <1>3 DEF Open
  <2>2. pos \in 0 .. Len(js) /\ pos + 1 \in 0 .. Len(js) /\ -1 \in -1 .. Len(js)
    <3>1. ~AtEnd
      BY DEF Open, Reading
    <3>. QED
      BY <1>1, <3>1 DEF AtEnd, More, TypeOK
  <2>. QED
    BY <2>1, <2>2, AddStep
<1>. QED
  BY <1>2, <1>3

\* The remaining steps pass over characters, or give up.
LEMMA ScanStep ==
  ASSUME ParserInv, Parsing,
         \/ White \/ StringStart \/ PrimitiveStart \/ Unexpected \/ End
         \/ StringEscape \/ StringChar \/ PrimitiveChar \/ Partial
  PROVE  ParserInv'
<1>1. TypeOK /\ Len(js) \in Nat /\ Loops
  BY LenProperties DEF ParserInv, TypeOK
<1>2. ASSUME ~AtEnd
      PROVE  pos < Len(js) /\ pos + 1 \in 0 .. Len(js)
  BY <1>1, <1>2 DEF AtEnd, More, TypeOK
<1>3. CASE White
  BY <1>2, <1>3, SkipStep DEF White, Reading
<1>4. CASE StringStart
  <2>1. pos < pos + 1
    BY <1>1 DEF TypeOK
  <2>. QED
    BY <1>2, <1>4, <2>1, BeginStep DEF StringStart, Reading
<1>5. CASE PrimitiveStart
  <2>1. Return(INVAL) \/ Begin("primitive", pos)
    BY <1>5 DEF PrimitiveStart
  <2>2. pos \in 0 .. Len(js) /\ pos <= pos
    BY <1>1 DEF TypeOK
  <2>. QED
    BY <2>1, <2>2, ReturnStep, BeginStep DEF INVAL
<1>6. CASE Unexpected \/ Partial
  <2>1. Return(INVAL) \/ Return(PART)
    BY <1>6 DEF Unexpected, Partial
  <2>. QED
    BY <2>1, ReturnStep DEF INVAL, PART
<1>7. CASE End
  <2>1. count \in Int /\ PART \in Int
    BY <1>1 DEF TypeOK, PART
  <2>2. Return(PART) \/ Return(count)
    BY <1>7 DEF End
  <2>. QED
    BY <2>1, <2>2, ReturnStep
<1>8. CASE StringEscape
  <2>1. ~AtEnd /\ loop = "string" /\ start < pos /\ pos + 2 \in 0 .. Len(js) /\ start < pos + 2
    BY <1>1, <1>8 DEF StringEscape, Reading, IsEscape, Loops, TypeOK
  <2>2. AfterHex(pos + 2) \in pos + 2 .. Len(js)
    BY <1>1, <2>1, HexWithin DEF TypeOK
  <2>3. start < AfterHex(pos + 2) /\ AfterHex(pos + 2) \in 0 .. Len(js)
    BY <1>1, <2>1, <2>2 DEF TypeOK
  <2>4. Skip("string", pos + 2) \/ Skip("string", AfterHex(pos + 2)) \/ Return(INVAL)
    BY <1>8 DEF StringEscape
  <2>. QED
    BY <2>1, <2>3, <2>4, SkipStep, ReturnStep DEF INVAL
<1>9. CASE StringChar
  <2>1. start < pos + 1
    BY <1>1, <1>9 DEF StringChar, Reading, Loops, TypeOK
  <2>. QED
    BY <1>2, <1>9, <2>1, SkipStep DEF StringChar, Reading
<1>10. CASE PrimitiveChar
  <2>1. start <= pos + 1
    BY <1>1, <1>10 DEF PrimitiveChar, Reading, Loops, TypeOK
  <2>2. Return(INVAL) \/ Skip("primitive", pos + 1)
    BY <1>10 DEF PrimitiveChar
  <2>. QED
    BY <1>2, <1>10, <2>1, <2>2, SkipStep, ReturnStep DEF PrimitiveChar, Reading, INVAL
<1>. QED
  BY <1>3, <1>4, <1>5, <1>6, <1>7, <1>8, <1>9, <1>10

-------------------------------------------------------------------------------
(* json_parse_start and json_parse_end.                                    *)

LEMMA InitInv ==
  ASSUME PInit
  PROVE  ParserInv
<1>1. js \in Seq(Char) /\ Len(js) \in Nat
  BY InputsAssumption, LenProperties DEF PInit, Init
<1>2. TypeOK
  BY <1>1 DEF PInit, Init, TypeOK
<1>. QED
  BY <1>2 DEF PInit, Init, ParserInv, Preorder, SizesAreChildren, Loops, OnPath

LEMMA StepInv ==
  ASSUME ParserInv, [PNext]_pvars
  PROVE  ParserInv'
<1>1. CASE UNCHANGED vars
  BY <1>1 DEF vars, ParserInv, TypeOK, Token, Preorder, SizesAreChildren, Parsing, Loops, OnPath
<1>2. CASE jsmn_parse
  <2>1. Parsing
    BY <1>2 DEF jsmn_parse, Parsing
  <2>. QED
    BY <1>2, <2>1, OpenStep, SearchStep, CloseStep, SuperStep, ValueStep, ScanStep DEF jsmn_parse
<1>3. ASSUME NEW allocated \in BOOLEAN, StartFill(allocated)
      PROVE  ParserInv'
  <2>1. tokens = <<>> /\ tokens' = <<>> /\ js' = js /\ TypeOK /\ Len(js) \in Nat
    BY <1>3, LenProperties DEF StartFill, Fill, ParserInv, TypeOK
  <2>2. TypeOK'
    BY <1>3, <2>1 DEF StartFill, Fill, TypeOK, Token
  <2>. QED
    BY <1>3, <2>1, <2>2
    DEF StartFill, Fill, ParserInv, Preorder, SizesAreChildren, Loops, OnPath
<1>4. CASE ParseFails \/ json_parse_end
  <2>1. /\ tokens' = <<>> /\ num_tokens' = 0 /\ pass' \in {"failed", "ended"}
        /\ UNCHANGED <<js, pos, toksuper, count, loop, start, token, ret>>
    BY <1>4 DEF ParseFails, json_parse_end
  <2>2. TypeOK'
    BY <2>1 DEF ParserInv, TypeOK, Token
  <2>. QED
    BY <2>1, <2>2 DEF ParserInv, Preorder, SizesAreChildren, Parsing
<1>5. CASE ParseOk
  <2>1. UNCHANGED <<js, tokens>> /\ ~Parsing' /\ pass' # "count" /\ TypeOK'
    BY <1>5 DEF ParseOk, ParserInv, TypeOK, Token, Parsing
  <2>. QED
    BY <2>1 DEF ParserInv, Preorder, SizesAreChildren
<1>6. CASE Parse
  BY <1>2, <1>3, <1>4, <1>5, <1>6 DEF Parse, json_parse_start
<1>7. CASE Call
  BY <1>1, <1>4, <1>7 DEF Call, ObjEnter, ArrEnter, Enter, json_obj_leave, json_arr_leave, LeaveTo
<1>. QED
  BY <1>1, <1>6, <1>7 DEF PNext, pvars

THEOREM Invariant == PSpec => []ParserInv
BY InitInv, StepInv, PTL DEF PSpec

\* The parser reads no character behind the end of a text, and no token begins or
\* ends there.
THEOREM WithinText == PSpec => []TypeOK
<1>1. ParserInv => TypeOK
  BY DEF ParserInv
<1>. QED
  BY <1>1, Invariant, PTL

\* For every text, accepted or not, the tokens are a forest in preorder and their
\* sizes are the numbers of their children.
THEOREM TokensAreForest == PSpec => []Forest
<1>1. ParserInv => Forest
  BY DEF ParserInv, Forest
<1>. QED
  BY <1>1, Invariant, PTL
-------------------------------------------------------------------------------
(* The two passes.  Both read the text in the same way, except that the    *)
(* second one gives up where brackets and keys are out of place.           *)

\* Where a pass is: the search for an open bracket is a part of the main loop.
Places == [pos : 0 .. Len(js), loop : {"main", "string", "primitive"}, count : Nat]
At(p, l, n) == [pos |-> p, loop |-> l, count |-> n]
Here == At(pos, IF loop \in {"string", "primitive"} THEN loop ELSE "main", count)

\* The character at p takes a pass that is in loop l there and has counted n
\* tokens to t.
Reads(p, l, n, t) ==
  LET ch == js[p + 1]
      escape == ch = "bslash" /\ p + 1 < Len(js)
  IN  /\ More(p)
      /\ \/ l = "main" /\ ch \in Opening /\ t = At(p + 1, "main", n + 1)
         \/ l = "main" /\ ch \in Closing \cup Space \cup {":", ","} /\ t = At(p + 1, "main", n)
         \/ l = "main" /\ ch = "quote" /\ t = At(p + 1, "string", n)
         \/ l = "main" /\ ch \in Primitive /\ t = At(p, "primitive", n)
         \/ l = "string" /\ ch = "quote" /\ t = At(p + 1, "main", n + 1)
         \/ l = "string" /\ escape /\ js[p + 2] = "u" /\ t = At(AfterHex(p + 2), "string", n)
         \/ l = "string" /\ escape /\ js[p + 2] # "u" /\ t = At(p + 2, "string", n)
         \/ l = "string" /\ ch # "quote" /\ ~escape /\ t = At(p + 1, "string", n)
         \/ l = "primitive" /\ ch \in Delimiter /\ t = At(p, "main", n + 1)
         \/ l = "primitive" /\ ch \notin Delimiter /\ t = At(p + 1, "primitive", n)

Follows(s, t) == Reads(s.pos, s.loop, s.count, t)

AtEndOf(s) == s.loop = "main" /\ ~More(s.pos)

\* S are the places of a pass that has got to the place h.
Visited(S, h) ==
  /\ At(0, "main", 0) \in S /\ h \in S
  /\ \A s \in S : s.count <= h.count /\ (s = h \/ \E t \in S : Follows(s, t))

\* S are the places of a pass that has counted n tokens.
Counted(S, n) ==
  /\ At(0, "main", 0) \in S
  /\ \A s \in S : s.count <= n /\ ((AtEndOf(s) /\ s.count = n) \/ \E t \in S : Follows(s, t))

\* The second pass goes through the places of the first one.
SamePlaces ==
  \E S \in SUBSET Places :
    /\ pass = "count" /\ loop # "returned" => Visited(S, Here)
    /\ pass = "count" /\ loop = "returned" /\ ret > 0 => Counted(S, ret)
    /\ pass = "fill" => Counted(S, num_tokens) /\ (loop # "returned" => Here \in S)

TokensCounted ==
  /\ loop = "close" => Filling /\ ~AtEnd /\ c \in Closing
  /\ Filling => Len(tokens) = count
  /\ Filling /\ loop = "returned" => ret # NOMEM /\ (ret > 0 => count = num_tokens)
  /\ pass = "done" => Len(tokens) = num_tokens

PassesInv == ParserInv /\ SamePlaces /\ TokensCounted

\* A character takes a pass to one place only.
LEMMA OnePlace ==
  ASSUME NEW s, NEW t, NEW u, Follows(s, t), Follows(s, u)
  PROVE  t = u
<1>. DEFINE ch == js[s.pos + 1]
<1>1. CASE s.loop = "main"
  <2>1. CASE ch \in Opening
    BY <1>1, <2>1 DEF Follows, Reads, Opening, Closing, Space, Primitive
  <2>2. CASE ch \in Closing \cup Space \cup {":", ","}
    BY <1>1, <2>2 DEF Follows, Reads, Opening, Closing, Space, Primitive
  <2>3. CASE ch = "quote"
    BY <1>1, <2>3 DEF Follows, Reads, Opening, Closing, Space, Primitive
  <2>4. CASE ch \in Primitive
    BY <1>1, <2>4 DEF Follows, Reads, Opening, Closing, Space, Primitive
  <2>. QED
    BY <1>1, <2>1, <2>2, <2>3, <2>4 DEF Follows, Reads
<1>2. CASE s.loop = "string"
  BY <1>2 DEF Follows, Reads
<1>3. CASE s.loop = "primitive"
  BY <1>3 DEF Follows, Reads
<1>. QED
  BY <1>1, <1>2, <1>3 DEF Follows, Reads

LEMMA FollowsType ==
  ASSUME js \in Seq(Char), NEW s \in Places, NEW t, Follows(s, t)
  PROVE  t \in Places /\ t.count \in Nat /\ s.count <= t.count
<1>1. s.pos \in 0 .. Len(js) /\ s.count \in Nat /\ Len(js) \in Nat
  BY LenProperties DEF Places
<1>2. s.pos + 1 \in 0 .. Len(js)
  <2>1. More(s.pos)
    BY DEF Follows, Reads
  <2>. QED
    BY <1>1, <2>1 DEF More
<1>3. ASSUME NEW p \in 0 .. Len(js), NEW l \in {"main", "string", "primitive"},
             NEW n \in {s.count, s.count + 1}
      PROVE  At(p, l, n) \in Places /\ At(p, l, n).count = n
  BY <1>1, <1>3 DEF At, Places
<1>4. ASSUME s.pos + 1 < Len(js)
      PROVE  s.pos + 2 \in 0 .. Len(js) /\ AfterHex(s.pos + 2) \in 0 .. Len(js)
  <2>1. s.pos + 2 \in 0 .. Len(js)
    BY <1>1, <1>4
  <2>2. AfterHex(s.pos + 2) \in s.pos + 2 .. Len(js)
    BY <2>1, HexWithin
  <2>. QED
    BY <1>1, <2>1, <2>2
<1>5. \E p \in 0 .. Len(js), l \in {"main", "string", "primitive"}, n \in {s.count, s.count + 1} :
        t = At(p, l, n)
  BY <1>1, <1>2, <1>4 DEF Follows, Reads
<1>. QED
  BY <1>1, <1>3, <1>5

\* A step of jsmn_parse gives up or returns the count at the end of the text, or
\* goes on as the character there says.
Quits ==
  /\ loop' = "returned" /\ UNCHANGED <<js, pass, pos, tokens, num_tokens, count>>
  /\ \/ ret' \in {INVAL, PART}
     \/ ret' = NOMEM /\ Full /\ \E t : Follows(Here, t) /\ t.count = count + 1
     \/ ret' = count /\ AtEndOf(Here)

Moves ==
  /\ loop' # "returned" /\ UNCHANGED <<js, pass, num_tokens>>
  /\ Here' = Here \/ Follows(Here, Here')
  /\ Filling /\ Len(tokens) = count => Len(tokens') = count'
  /\ loop' = "close" => Filling /\ ~AtEnd' /\ c' \in Closing

LEMMA HereType ==
  ASSUME TypeOK
  PROVE  Here \in Places /\ Here.pos = pos /\ Here.count = count
BY DEF Here, At, Places, TypeOK

LEMMA HereReads ==
  ASSUME NEW t
  PROVE  Follows(Here, t) <=> Reads(pos, IF loop \in {"string", "primitive"} THEN loop ELSE "main", count, t)
BY DEF Here, At, Follows

LEMMA SkipMoves ==
  ASSUME TypeOK, NEW l \in {"main", "string", "primitive"}, NEW p, Skip(l, p),
         Follows(Here, At(p, l, count))
  PROVE  Moves
<1>1. Here' = At(p, l, count)
  BY DEF Here, Skip, GoOn
<1>. QED
  BY <1>1 DEF Moves, Skip, GoOn

LEMMA AddMoves ==
  ASSUME ParserInv, Parsing, NEW p,
         NEW type \in {"object", "array", "string", "primitive"},
         NEW first \in 0 .. Len(js), NEW last \in -1 .. Len(js),
         AddToken(type, first, last), count' = count + 1, GoOn("main", p),
         Follows(Here, At(p, "main", count + 1))
  PROVE  Moves
<1>1. Here' = At(p, "main", count + 1)
  BY DEF Here, GoOn
<1>2. ASSUME Filling
      PROVE  Len(tokens') = Len(tokens) + 1
  <2>1. tokens' = Linked(type, first, last, toksuper)
    BY <1>2 DEF AddToken
  <2>2. TypeOK /\ OnPath(toksuper) /\ js' = js
    BY DEF ParserInv, GoOn
  <2>. QED
    BY <2>1, <2>2, LinkedTokens
<1>. QED
  BY <1>1, <1>2 DEF Moves, GoOn

LEMMA ParseMoves ==
  ASSUME ParserInv, TokensCounted, jsmn_parse
  PROVE  Quits \/ Moves
<1>. USE DEF Reading
<1>1. /\ TypeOK /\ Parsing /\ Len(js) \in Nat /\ pos \in Nat /\ count \in Nat
      /\ tokens \in Seq(Token) /\ Len(tokens) \in Nat
      /\ ~AtEnd => More(pos) /\ pos \in 0 .. Len(js)
  BY LenProperties DEF ParserInv, jsmn_parse, Parsing, TypeOK, AtEnd
<1>2. ASSUME Return(INVAL) \/ Return(PART)
      PROVE  Quits
  BY <1>2 DEF Return, Quits
<1>3. CASE Open
  <2>1. CASE Full
    <3>1. Return(NOMEM) /\ Follows(Here, At(pos + 1, "main", count + 1))
      BY <1>1, <1>3, <2>1, HereReads DEF Open, Reads, c
    <3>. QED
      BY <2>1, <3>1 DEF Return, Quits, At
  <2>2. CASE ~Full /\ Under({"object"})
    BY <1>2, <1>3, <2>2 DEF Open
  <2>3. CASE ~Full /\ ~Under({"object"})
    <3>1. Follows(Here, At(pos + 1, "main", count + 1))
      BY <1>1, <1>3, HereReads DEF Open, Reads, c
    <3>2. PICK type \in {"object", "array"} :
            AddToken(type, pos, -1) /\ count' = count + 1 /\ GoOn("main", pos + 1)
      BY <1>3, <2>3 DEF Open
    <3>3. pos \in 0 .. Len(js) /\ -1 \in -1 .. Len(js)
      BY <1>1 DEF TypeOK
    <3>. QED
      BY <1>1, <3>1, <3>2, <3>3, AddMoves
  <2>. QED
    BY <2>1, <2>2, <2>3
<1>4. CASE Close
  <2>1. CASE ~Filling
    <3>1. Follows(Here, At(pos + 1, "main", count))
      BY <1>1, <1>4, HereReads DEF Close, Reads, c
    <3>. QED
      BY <1>1, <1>4, <2>1, <3>1, SkipMoves DEF Close
  <2>2. CASE Filling /\ tokens = <<>>
    BY <1>2, <1>4, <2>2 DEF Close
  <2>3. CASE Filling /\ tokens # <<>>
    BY <1>4, <2>3 DEF Close, Moves, Here, AtEnd, More, c
  <2>. QED
    BY <2>1, <2>2, <2>3
<1>5. ASSUME loop = "close"
      PROVE  Filling /\ Follows(Here, At(pos + 1, "main", count)) /\ ~AtEnd /\ c \in Closing
  BY <1>1, <1>5, HereReads DEF TokensCounted, Reads, c
<1>6. CASE CloseFound
  <2>1. CASE ~Closes(tokens[token])
    BY <1>2, <1>6, <2>1 DEF CloseFound
  <2>2. CASE Closes(tokens[token])
    <3>1. Len(tokens') = Len(tokens) /\ count' = count /\ GoOn("main", pos + 1)
      <4>1. tokens' = [tokens EXCEPT ![token].end = pos + 1] /\ count' = count /\ GoOn("main", pos + 1)
        BY <1>6, <2>2 DEF CloseFound
      <4>2. DOMAIN tokens' = DOMAIN tokens
        BY <4>1
      <4>3. tokens' \in Seq(Token')
        BY <1>1, CloseStep, <1>6 DEF ParserInv, TypeOK
      <4>. QED
        BY <1>1, <4>1, <4>2, <4>3, LenProperties
    <3>2. Here' = At(pos + 1, "main", count)
      BY <3>1 DEF Here, GoOn
    <3>. QED
      BY <1>5, <1>6, <3>1, <3>2 DEF CloseFound, Moves, GoOn
  <2>. QED
    BY <2>1, <2>2
<1>7. CASE CloseUp
  <2>1. CASE tokens[token].parent # 0
    BY <1>5, <1>7, <2>1 DEF CloseUp, Moves, Here, AtEnd, More, c
  <2>2. CASE tokens[token].parent = 0
    <3>1. Return(INVAL) \/ Skip("main", pos + 1)
      BY <1>7, <2>2 DEF CloseUp
    <3>. QED
      BY <1>1, <1>2, <1>5, <1>7, <3>1, SkipMoves DEF CloseUp
  <2>. QED
    BY <2>1, <2>2
<1>8. CASE White
  <2>1. Follows(Here, At(pos + 1, "main", count))
    BY <1>1, <1>8, HereReads DEF White, Reads, c
  <2>. QED
    BY <1>1, <1>8, <2>1, SkipMoves DEF White
<1>9. CASE Colon \/ Comma
  <2>1. Follows(Here, At(pos + 1, "main", count))
    BY <1>1, <1>9, HereReads DEF Colon, Comma, Reads, c
  <2>2. GoOn("main", pos + 1) /\ UNCHANGED <<tokens, count>>
    BY <1>9 DEF Colon, Comma, SetSuper
  <2>3. Here' = At(pos + 1, "main", count)
    BY <2>2 DEF Here, GoOn
  <2>. QED
    BY <2>1, <2>2, <2>3 DEF Moves, GoOn
<1>10. CASE StringStart
  <2>1. Follows(Here, At(pos + 1, "string", count))
    BY <1>1, <1>10, HereReads DEF StringStart, Reads, c
  <2>2. Here' = At(pos + 1, "string", count)
    BY <1>10 DEF Here, StringStart, Begin
  <2>. QED
    BY <1>10, <2>1, <2>2 DEF StringStart, Begin, Moves
<1>11. CASE PrimitiveStart
  <2>1. CASE Return(INVAL)
    BY <1>2, <2>1
  <2>2. CASE Begin("primitive", pos)
    <3>1. Follows(Here, At(pos, "primitive", count))
      BY <1>1, <1>11, HereReads DEF PrimitiveStart, Reads, c
    <3>2. Here' = At(pos, "primitive", count)
      BY <2>2 DEF Here, Begin
    <3>. QED
      BY <2>2, <3>1, <3>2 DEF Begin, Moves
  <2>. QED
    BY <1>11, <2>1, <2>2 DEF PrimitiveStart
<1>12. CASE Unexpected \/ Partial
  BY <1>2, <1>12 DEF Unexpected, Partial
<1>13. CASE End
  <2>1. AtEndOf(Here)
    BY <1>13 DEF End, AtEndOf, AtEnd, Here, At
  <2>2. Return(PART) \/ Return(count)
    BY <1>13 DEF End
  <2>. QED
    BY <1>2, <2>1, <2>2 DEF Return, Quits
<1>14. ASSUME NEW type \in {"string", "primitive"}, NEW first \in 0 .. Len(js), NEW next,
              NewValue(type, first, next), Follows(Here, At(next, "main", count + 1))
       PROVE  Quits \/ Moves
  <2>1. CASE Full
    BY <1>14, <2>1 DEF NewValue, Return, Quits, At
  <2>2. CASE ~Full
    <3>1. AddToken(type, first, pos) /\ count' = count + 1 /\ GoOn("main", next)
      BY <1>14, <2>2 DEF NewValue
    <3>2. pos \in -1 .. Len(js) /\ type \in {"object", "array", "string", "primitive"}
      BY <1>1 DEF TypeOK
    <3>. QED
      BY <1>1, <1>14, <3>1, <3>2, AddMoves
  <2>. QED
    BY <2>1, <2>2
<1>15. CASE StringEnd
  <2>1. Follows(Here, At(pos + 1, "main", count + 1))
    BY <1>1, <1>15, HereReads DEF StringEnd, Reads, c
  <2>2. start + 1 \in 0 .. Len(js)
    BY <1>1, <1>15 DEF StringEnd, AtEnd, More, ParserInv, Loops, TypeOK
  <2>. QED
    BY <1>14, <1>15, <2>1, <2>2 DEF StringEnd
<1>16. CASE PrimitiveEnd
  <2>1. Follows(Here, At(pos, "main", count + 1))
    BY <1>1, <1>16, HereReads DEF PrimitiveEnd, Reads, c
  <2>2. start \in 0 .. Len(js)
    BY <1>1 DEF TypeOK
  <2>. QED
    BY <1>14, <1>16, <2>1, <2>2 DEF PrimitiveEnd
<1>17. CASE StringEscape
  <2>1. loop = "string" /\ More(pos) /\ c = "bslash" /\ pos + 1 < Len(js)
    BY <1>1, <1>17 DEF StringEscape, IsEscape
  <2>2. \/ Return(INVAL)
        \/ js[pos + 2] = "u" /\ Skip("string", AfterHex(pos + 2))
        \/ js[pos + 2] # "u" /\ Skip("string", pos + 2)
    BY <1>17 DEF StringEscape, Escaped
  <2>3. /\ js[pos + 2] = "u" => Follows(Here, At(AfterHex(pos + 2), "string", count))
        /\ js[pos + 2] # "u" => Follows(Here, At(pos + 2, "string", count))
    BY <2>1, HereReads DEF Reads, c
  <2>. QED
    BY <1>1, <1>2, <2>2, <2>3, SkipMoves
<1>18. CASE StringChar
  <2>1. Follows(Here, At(pos + 1, "string", count))
    BY <1>1, <1>18, HereReads DEF StringChar, IsEscape, Reads, c
  <2>. QED
    BY <1>1, <1>18, <2>1, SkipMoves DEF StringChar
<1>19. CASE PrimitiveChar
  <2>1. Follows(Here, At(pos + 1, "primitive", count))
    BY <1>1, <1>19, HereReads DEF PrimitiveChar, Reads, c
  <2>2. Return(INVAL) \/ Skip("primitive", pos + 1)
    BY <1>19 DEF PrimitiveChar
  <2>. QED
    BY <1>1, <1>2, <2>1, <2>2, SkipMoves
<1>. QED
  BY <1>3, <1>4, <1>6, <1>7, <1>8, <1>9, <1>10, <1>11, <1>12, <1>13, <1>15, <1>16, <1>17,
     <1>18, <1>19 DEF jsmn_parse

LEMMA SameText ==
  ASSUME js' = js
  PROVE  /\ Places' = Places
         /\ \A S, n : Counted(S, n)' <=> Counted(S, n)
         /\ \A S : Visited(S, Here)' <=> Visited(S, Here')
<1>1. \A p : More(p)' <=> More(p)
  BY DEF More
<1>2. \A p : AfterHex(p)' = AfterHex(p)
  BY DEF AfterHex, More
<1>3. \A p, l, n, t : Reads(p, l, n, t)' <=> Reads(p, l, n, t)
  <2>. SUFFICES ASSUME NEW p, NEW l, NEW n, NEW t
                PROVE  Reads(p, l, n, t)' <=> Reads(p, l, n, t)
    OBVIOUS
  <2>1. More(p)' <=> More(p)
    BY <1>1
  <2>2. AfterHex(p + 2)' = AfterHex(p + 2)
    BY <1>2
  <2>3. At(AfterHex(p + 2), "string", n)' = At(AfterHex(p + 2), "string", n)
    BY <2>2 DEF At
  <2>. QED
    BY <2>1, <2>3 DEF Reads, At
<1>4. \A s, t : Follows(s, t)' <=> Follows(s, t)
  BY <1>3 DEF Follows
<1>5. \A s : AtEndOf(s)' <=> AtEndOf(s)
  BY <1>1 DEF AtEndOf
<1>6. Places' = Places
  BY DEF Places
<1>7. \A S, n : Counted(S, n)' <=> Counted(S, n)
  BY <1>4, <1>5 DEF Counted, At
<1>8. \A S : Visited(S, Here)' <=> Visited(S, Here')
  BY <1>4 DEF Visited, At
<1>. QED
  BY <1>6, <1>7, <1>8

LEMMA PassesInit ==
  ASSUME PInit
  PROVE  PassesInv
<1>1. ParserInv
  BY InitInv
<1>2. TokensCounted
  BY DEF PInit, Init, TokensCounted, Filling
<1>3. SamePlaces
  <2>1. Here = At(0, "main", 0) /\ Here \in Places /\ pass = "count" /\ ret = 0
    BY <1>1, HereType DEF PInit, Init, Here, ParserInv
  <2>2. Visited({Here}, Here)
    BY <2>1 DEF Visited, At
  <2>3. {Here} \in SUBSET Places
    BY <2>1
  <2>. QED
    BY <2>1, <2>2, <2>3 DEF SamePlaces
<1>. QED
  BY <1>1, <1>2, <1>3 DEF PassesInv

\* The set of places of a pass that goes on, and of one that has ended.
LEMMA VisitsNext ==
  ASSUME js \in Seq(Char), NEW S \in SUBSET Places, NEW h \in S, NEW t, Visited(S, h), Follows(h, t)
  PROVE  S \cup {t} \in SUBSET Places /\ Visited(S \cup {t}, t)
<1>1. t \in Places /\ t.count \in Nat /\ h.count <= t.count
  BY FollowsType
<1>2. \A s \in S : s.count \in Nat /\ s.count <= t.count
  BY <1>1 DEF Visited, Places
<1>3. ASSUME NEW s \in S
      PROVE  s = t \/ \E u \in S \cup {t} : Follows(s, u)
  BY DEF Visited
<1>. QED
  BY <1>1, <1>2, <1>3 DEF Visited

LEMMA VisitedAll ==
  ASSUME NEW S, NEW h, Visited(S, h), AtEndOf(h)
  PROVE  Counted(S, h.count)
BY DEF Visited, Counted

LEMMA ParsePasses ==
  ASSUME PassesInv, jsmn_parse
  PROVE  SamePlaces' /\ TokensCounted'
<1>1. /\ ParserInv /\ SamePlaces /\ TokensCounted /\ TypeOK /\ js \in Seq(Char)
      /\ count \in Nat /\ num_tokens \in Nat /\ ret \in Int
      /\ pass \in {"count", "fill"} /\ loop # "returned"
      /\ Here \in Places /\ Here.count = count
  BY HereType DEF PassesInv, ParserInv, TypeOK, jsmn_parse, Open, Close, CloseFound, CloseUp, White,
     Colon, Comma, StringStart, PrimitiveStart, Unexpected, End, StringEnd, StringEscape, StringChar,
     PrimitiveEnd, PrimitiveChar, Partial, Reading
<1>2. PICK S \in SUBSET Places :
        /\ pass = "count" => Visited(S, Here)
        /\ pass = "fill" => Counted(S, num_tokens) /\ Here \in S
  BY <1>1 DEF SamePlaces
<1>3. ASSUME pass = "fill"
      PROVE  /\ \A t : Follows(Here, t) => t \in S /\ t.count <= num_tokens
             /\ AtEndOf(Here) => count = num_tokens
             /\ count <= num_tokens
  <2>1. ASSUME NEW t, Follows(Here, t)
        PROVE  t \in S /\ t.count <= num_tokens
    <3>1. ~AtEndOf(Here)
      BY <2>1 DEF Follows, Reads, AtEndOf
    <3>2. PICK u \in S : Follows(Here, u)
      BY <1>2, <1>3, <3>1 DEF Counted
    <3>3. t = u
      BY <1>1, <2>1, <3>2, OnePlace
    <3>. QED
      BY <1>2, <1>3, <3>2, <3>3 DEF Counted
  <2>2. ASSUME AtEndOf(Here)
        PROVE  count = num_tokens
    BY <1>1, <1>2, <1>3, <2>2 DEF Counted, Follows, Reads, AtEndOf
  <2>3. count <= num_tokens
    BY <1>1, <1>2, <1>3 DEF Counted
  <2>. QED
    BY <2>1, <2>2, <2>3
<1>4. ASSUME NEW T, js' = js
      PROVE  /\ Places' = Places
             /\ \A n : Counted(T, n)' <=> Counted(T, n)
             /\ Visited(T, Here)' <=> Visited(T, Here')
  BY <1>4, SameText
<1>5. CASE Quits
  <2>1. /\ js' = js /\ pass' = pass /\ num_tokens' = num_tokens /\ tokens' = tokens /\ count' = count
        /\ loop' = "returned"
    BY <1>5 DEF Quits
  <2>2. Len(tokens) \in Nat
    BY <1>1, TokenTypes DEF TypeOK
  <2>3. TokensCounted'
    <3>1. ASSUME pass = "fill"
          PROVE  ret' # NOMEM /\ (ret' > 0 => count = num_tokens)
      <4>1. CASE ret' \in {INVAL, PART}
        BY <4>1 DEF INVAL, PART, NOMEM
      <4>2. CASE ret' = NOMEM /\ Full /\ \E t : Follows(Here, t) /\ t.count = count + 1
        <5>1. count + 1 <= num_tokens
          BY <1>3, <3>1, <4>2
        <5>2. Len(tokens) = count /\ Len(tokens) >= num_tokens
          BY <1>1, <3>1, <4>2 DEF TokensCounted, Filling, Full
        <5>. QED
          BY <1>1, <5>1, <5>2
      <4>3. CASE ret' = count /\ AtEndOf(Here)
        BY <1>1, <1>3, <3>1, <4>3 DEF NOMEM
      <4>. QED
        BY <1>5, <4>1, <4>2, <4>3 DEF Quits
    <3>. QED
      BY <1>1, <2>1, <3>1 DEF TokensCounted, Filling
  <2>4. ASSUME pass = "count", ret' > 0
        PROVE  Counted(S, ret')
    <3>1. ret' = count /\ AtEndOf(Here)
      BY <1>5, <2>4, <1>1 DEF Quits, INVAL, PART, NOMEM
    <3>. QED
      BY <1>1, <1>2, <2>4, <3>1, VisitedAll
  <2>5. Places' = Places /\ \A n : Counted(S, n)' <=> Counted(S, n)
    BY <1>4, <2>1
  <2>6. S \in SUBSET Places'
    BY <2>5
  <2>. QED
    BY <1>2, <2>1, <2>3, <2>4, <2>5, <2>6 DEF SamePlaces
<1>6. CASE Moves
  <2>1. /\ js' = js /\ pass' = pass /\ num_tokens' = num_tokens
        /\ loop' # "returned"
        /\ Here' = Here \/ Follows(Here, Here')
    BY <1>6 DEF Moves
  <2>2. TokensCounted'
    BY <1>1, <1>6 DEF Moves, TokensCounted, Filling
  <2>3. SamePlaces'
    <3>1. CASE pass = "fill"
      <4>1. Here' \in S
        BY <1>2, <1>3, <2>1, <3>1
      <4>2. Places' = Places /\ \A n : Counted(S, n)' <=> Counted(S, n)
        BY <1>4, <2>1
      <4>3. S \in SUBSET Places'
        BY <4>2
      <4>. QED
        BY <1>2, <2>1, <3>1, <4>1, <4>2, <4>3 DEF SamePlaces
    <3>2. CASE pass = "count"
      <4>1. PICK T \in SUBSET Places : Visited(T, Here')
        <5>1. CASE Here' = Here
          BY <1>2, <3>2, <5>1
        <5>2. CASE Follows(Here, Here')
          <6>1. Here \in S /\ Visited(S, Here)
            BY <1>2, <3>2 DEF Visited
          <6>. QED
            BY <1>1, <5>2, <6>1, VisitsNext
        <5>. QED
          BY <2>1, <5>1, <5>2
      <4>2. Places' = Places /\ (Visited(T, Here)' <=> Visited(T, Here'))
        BY <1>4, <2>1
      <4>3. T \in SUBSET Places'
        BY <4>2
      <4>. QED
        BY <2>1, <3>2, <4>1, <4>2, <4>3 DEF SamePlaces
    <3>. QED
      BY <1>1, <3>1, <3>2
  <2>. QED
    BY <2>2, <2>3
<1>. QED
  BY <1>1, <1>5, <1>6, ParseMoves

LEMMA PassesStep ==
  ASSUME PassesInv, [PNext]_pvars
  PROVE  PassesInv'
<1>1. ParserInv' /\ ParserInv /\ TypeOK
  BY StepInv DEF PassesInv, ParserInv
<1>2. CASE UNCHANGED vars
  <2>1. UNCHANGED <<js, pass, pos, tokens, num_tokens, count, loop, ret>>
    BY <1>2 DEF vars
  <2>2. TokensCounted'
    BY <2>1 DEF PassesInv, TokensCounted, Filling, AtEnd, More, c
  <2>3. PICK S \in SUBSET Places :
          /\ pass = "count" /\ loop # "returned" => Visited(S, Here)
          /\ pass = "count" /\ loop = "returned" /\ ret > 0 => Counted(S, ret)
          /\ pass = "fill" => Counted(S, num_tokens) /\ (loop # "returned" => Here \in S)
    BY DEF PassesInv, SamePlaces
  <2>4. Here' = Here
    BY <2>1 DEF Here, At
  <2>5. /\ Places' = Places
        /\ \A n : Counted(S, n)' <=> Counted(S, n)
        /\ (Visited(S, Here)' <=> Visited(S, Here'))
    BY <2>1, SameText
  <2>6. S \in SUBSET Places'
    BY <2>5
  <2>7. SamePlaces'
    BY <2>1, <2>3, <2>4, <2>5, <2>6 DEF SamePlaces
  <2>. QED
    BY <1>1, <2>2, <2>7 DEF PassesInv
<1>3. CASE jsmn_parse
  BY <1>1, <1>3, ParsePasses DEF PassesInv
<1>4. ASSUME NEW allocated \in BOOLEAN, StartFill(allocated)
      PROVE  PassesInv'
  <2>1. /\ pass = "count" /\ loop = "returned" /\ ret > 0
        /\ pass' = IF num_tokens' > 0 THEN "fill" ELSE "failed"
        /\ num_tokens' \in {0, ret}
        /\ pos' = 0 /\ count' = 0 /\ ret' = 0 /\ loop' = "main"
        /\ js' = js /\ tokens' = tokens
    BY <1>4 DEF StartFill, Fill
  <2>2. tokens = <<>>
    BY <1>1, <2>1 DEF ParserInv
  <2>3. TokensCounted'
    BY <2>1, <2>2 DEF TokensCounted, Filling
  <2>4. PICK S \in SUBSET Places : Counted(S, ret)
    BY <2>1 DEF PassesInv, SamePlaces
  <2>5. Here' = At(0, "main", 0)
    BY <2>1 DEF Here
  <2>6. pass' = "fill" => num_tokens' = ret
    BY <2>1
  <2>7. /\ S \in SUBSET Places'
        /\ \A n : Counted(S, n)' <=> Counted(S, n)
    BY <2>1, SameText
  <2>8. Counted(S, ret) => At(0, "main", 0) \in S
    BY DEF Counted
  <2>9. SamePlaces'
    <3>1. pass' # "count"
      BY <2>1
    <3>2. pass' = "fill" => Counted(S, num_tokens)' /\ (Here \in S)'
      BY <2>4, <2>5, <2>6, <2>7, <2>8
    <3>. QED
      BY <2>7, <3>1, <3>2 DEF SamePlaces
  <2>. QED
    BY <1>1, <2>3, <2>9 DEF PassesInv
<1>5. CASE ParseFails \/ json_parse_end
  <2>1. pass' \in {"failed", "ended"} /\ (loop' = "close" => loop = "close") /\ loop' = loop /\ pass \in {"count", "fill", "done"}
    BY <1>5 DEF ParseFails, json_parse_end
  <2>2. TokensCounted'
    BY <1>5, <2>1 DEF PassesInv, TokensCounted, ParseFails, json_parse_end, Filling
  <2>3. SamePlaces'
    BY <2>1 DEF SamePlaces
  <2>. QED
    BY <1>1, <2>2, <2>3 DEF PassesInv
<1>6. CASE ParseOk
  <2>1. SamePlaces'
    BY <1>6 DEF ParseOk, SamePlaces
  <2>2. TokensCounted'
    BY <1>6 DEF PassesInv, TokensCounted, ParseOk, Filling
  <2>. QED
    BY <1>1, <2>1, <2>2 DEF PassesInv
<1>7. CASE Parse
  BY <1>3, <1>4, <1>5, <1>6, <1>7 DEF Parse, json_parse_start
<1>8. CASE Call
  BY <1>2, <1>5, <1>8 DEF Call, ObjEnter, ArrEnter, Enter, json_obj_leave, json_arr_leave, LeaveTo
<1>. QED
  BY <1>2, <1>7, <1>8 DEF PNext, pvars

\* The second pass never asks for more tokens than the first one has counted, and
\* when a text is accepted it has used all of them.
THEOREM ArrayFits == PSpec => []EnoughTokens
<1>1. PSpec => []PassesInv
  BY PassesInit, PassesStep, PTL DEF PSpec
<1>2. PassesInv => EnoughTokens
  BY DEF PassesInv, TokensCounted, EnoughTokens, Done
<1>. QED
  BY <1>1, <1>2, PTL

-------------------------------------------------------------------------------
(* Look-ups.  json_skip_elem walks over the sizes of the tokens, and where *)
(* it gets to is what the tokens' parents say.                             *)

TypedForest == tokens \in Seq(Token) /\ Forest

\* Token l is the last one inside token i.
IsEnd(i, l) ==
  /\ l \in i .. Len(tokens)
  /\ \A k \in i + 1 .. l : tokens[k].parent >= i
  /\ l < Len(tokens) => tokens[l + 1].parent < i

EndOf(i) == CHOOSE l : IsEnd(i, l)

ChildrenOf(i) == {j \in DOMAIN tokens : tokens[j].parent = i}
ChildrenUpTo(i, l) == {j \in ChildrenOf(i) : j <= l}

\* Token l is where n children of token i have been stepped over.
Walked(i, n, l) ==
  /\ l \in i .. Len(tokens)
  /\ \A k \in i + 1 .. l : tokens[k].parent >= i
  /\ l < Len(tokens) => tokens[l + 1].parent <= i
  /\ Cardinality(ChildrenUpTo(i, l)) = n

\* The forest as numbers.
LEMMA ForestFacts ==
  ASSUME TypedForest
  PROVE  /\ Len(tokens) \in Nat /\ DOMAIN tokens = 1 .. Len(tokens)
         /\ \A i \in 1 .. Len(tokens) :
              tokens[i].parent \in Nat /\ tokens[i].size \in Nat /\ tokens[i].parent < i
         /\ \A i, j \in 1 .. Len(tokens) :
              tokens[i].parent < j /\ j < i => tokens[j].parent >= tokens[i].parent
         /\ \A i \in 1 .. Len(tokens) :
              IsFiniteSet(ChildrenOf(i)) /\ tokens[i].size = Cardinality(ChildrenOf(i))
<1>1. /\ Len(tokens) \in Nat /\ DOMAIN tokens = 1 .. Len(tokens)
      /\ \A i \in 1 .. Len(tokens) : tokens[i].parent \in Nat /\ tokens[i].size \in Nat
  BY TokenTypes DEF TypedForest
<1>2. Preorder /\ SizesAreChildren
  BY DEF TypedForest, Forest
<1>3. \A i, j \in 1 .. Len(tokens) :
        /\ tokens[i].parent < i
        /\ tokens[i].parent < j /\ j < i => tokens[j].parent >= tokens[i].parent
  BY <1>1, <1>2 DEF Preorder
<1>4. IsFiniteSet(1 .. Len(tokens))
  BY <1>1, FS_Interval
<1>5. ASSUME NEW i \in 1 .. Len(tokens)
      PROVE  IsFiniteSet(ChildrenOf(i)) /\ tokens[i].size = Cardinality(ChildrenOf(i))
  <2>1. ChildrenOf(i) \in SUBSET (1 .. Len(tokens))
    BY <1>1 DEF ChildrenOf
  <2>2. IsFiniteSet(ChildrenOf(i))
    BY <1>4, <2>1, FS_Subset
  <2>3. tokens[i].size = Cardinality(ChildrenOf(i))
    BY <1>1, <1>2 DEF SizesAreChildren, ChildrenOf
  <2>. QED
    BY <2>2, <2>3
<1>. QED
  BY <1>1, <1>3, <1>5

LEMMA EndExists ==
  ASSUME TypedForest, NEW i \in DOMAIN tokens
  PROVE  IsEnd(i, EndOf(i))
<1>. DEFINE N == Len(tokens)
            A == {l \in i .. N : l < N => tokens[l + 1].parent < i}
<1>1. N \in Nat /\ i \in 1 .. N /\ \A j \in 1 .. N : tokens[j].parent \in Nat
  BY ForestFacts
<1>2. A \in SUBSET Nat /\ N \in A
  BY <1>1
<1>3. PICK l \in A : \A m \in A : l <= m
  <2>. HIDE DEF A
  <2>. QED
    BY <1>2, LeastNatural
<1>4. ASSUME NEW k \in i + 1 .. l
      PROVE  tokens[k].parent >= i
  <2>1. k - 1 \in i .. N /\ k - 1 < l /\ k \in 1 .. N
    BY <1>1, <1>3, <1>4
  <2>2. k - 1 \notin A
    BY <1>1, <1>3, <2>1
  <2>3. ~ (tokens[k - 1 + 1].parent < i) /\ k - 1 + 1 = k
    BY <1>1, <2>1, <2>2
  <2>. QED
    BY <1>1, <2>1, <2>3
<1>5. IsEnd(i, l)
  BY <1>3, <1>4 DEF IsEnd
<1>. QED
  BY <1>5 DEF EndOf

LEMMA EndUnique ==
  ASSUME TypedForest, NEW i \in DOMAIN tokens, NEW l, IsEnd(i, l)
  PROVE  EndOf(i) = l
<1>1. ASSUME NEW m, NEW n, IsEnd(i, m), IsEnd(i, n), m < n
      PROVE  FALSE
  <2>1. Len(tokens) \in Nat /\ i \in 1 .. Len(tokens) /\ \A j \in 1 .. Len(tokens) : tokens[j].parent \in Nat
    BY ForestFacts
  <2>2. m \in i .. Len(tokens) /\ n \in i .. Len(tokens)
    BY <1>1 DEF IsEnd
  <2>3. m + 1 \in i + 1 .. n /\ m < Len(tokens) /\ m + 1 \in 1 .. Len(tokens)
    BY <1>1, <2>1, <2>2
  <2>4. tokens[m + 1].parent >= i /\ tokens[m + 1].parent < i
    BY <1>1, <2>3 DEF IsEnd
  <2>. QED
    BY <2>1, <2>3, <2>4
<1>2. IsEnd(i, EndOf(i)) /\ EndOf(i) \in Int /\ l \in Int
  <2>1. Len(tokens) \in Nat /\ i \in 1 .. Len(tokens)
    BY ForestFacts
  <2>. QED
    BY <2>1, EndExists DEF IsEnd
<1>. QED
  BY <1>1, <1>2

\* Nothing has been stepped over.
LEMMA WalkStart ==
  ASSUME TypedForest, NEW i \in DOMAIN tokens
  PROVE  Walked(i, 0, i)
<1>1. /\ Len(tokens) \in Nat /\ i \in 1 .. Len(tokens) /\ DOMAIN tokens = 1 .. Len(tokens)
      /\ \A j \in 1 .. Len(tokens) : tokens[j].parent \in Nat /\ tokens[j].parent < j
  BY ForestFacts
<1>2. ChildrenUpTo(i, i) = {}
  BY <1>1 DEF ChildrenUpTo, ChildrenOf
<1>3. Cardinality(ChildrenUpTo(i, i)) = 0
  BY <1>2, FS_EmptySet
<1>4. i < Len(tokens) => tokens[i + 1].parent <= i
  <2>. SUFFICES ASSUME i < Len(tokens)
                PROVE  tokens[i + 1].parent <= i
    OBVIOUS
  <2>1. i + 1 \in 1 .. Len(tokens)
    BY <1>1
  <2>. QED
    BY <1>1, <2>1
<1>. QED
  BY <1>1, <1>3, <1>4 DEF Walked

\* If not all children have been stepped over, the next token is one of them.
LEMMA NextChild ==
  ASSUME TypedForest, NEW i \in DOMAIN tokens, NEW n \in Nat, n < tokens[i].size,
         NEW l, Walked(i, n, l)
  PROVE  l + 1 \in DOMAIN tokens /\ tokens[l + 1].parent = i
<1>1. /\ Len(tokens) \in Nat /\ i \in 1 .. Len(tokens) /\ DOMAIN tokens = 1 .. Len(tokens)
      /\ \A j \in 1 .. Len(tokens) : tokens[j].parent \in Nat
      /\ \A j, k \in 1 .. Len(tokens) :
           tokens[j].parent < k /\ k < j => tokens[k].parent >= tokens[j].parent
      /\ tokens[i].size = Cardinality(ChildrenOf(i))
  BY ForestFacts
<1>2. l \in i .. Len(tokens)
  BY DEF Walked
<1>3. PICK child \in ChildrenOf(i) : ~ (child <= l)
  <2>1. ChildrenUpTo(i, l) # ChildrenOf(i)
    BY <1>1 DEF Walked
  <2>. QED
    BY <2>1 DEF ChildrenUpTo
<1>4. child \in 1 .. Len(tokens) /\ tokens[child].parent = i
  BY <1>1, <1>3 DEF ChildrenOf
<1>5. l + 1 \in 1 .. Len(tokens) /\ l < Len(tokens) /\ l + 1 <= child
  BY <1>1, <1>2, <1>3, <1>4
<1>6. tokens[l + 1].parent <= i
  BY <1>5 DEF Walked
<1>7. tokens[l + 1].parent >= i
  <2>1. CASE child = l + 1
    BY <1>1, <1>4, <2>1
  <2>2. CASE child # l + 1
    BY <1>1, <1>2, <1>4, <1>5, <2>2
  <2>. QED
    BY <2>1, <2>2
<1>. QED
  BY <1>1, <1>5, <1>6, <1>7

LEMMA WalkStep ==
  ASSUME TypedForest, NEW i \in DOMAIN tokens, NEW n \in Nat, n < tokens[i].size,
         NEW l, Walked(i, n, l)
  PROVE  Walked(i, n + 1, EndOf(l + 1))
<1>. DEFINE child == l + 1
            m == EndOf(child)
<1>1. /\ Len(tokens) \in Nat /\ i \in 1 .. Len(tokens) /\ DOMAIN tokens = 1 .. Len(tokens)
      /\ \A j \in 1 .. Len(tokens) : tokens[j].parent \in Nat
      /\ \A j, k \in 1 .. Len(tokens) :
           tokens[j].parent < k /\ k < j => tokens[k].parent >= tokens[j].parent
      /\ IsFiniteSet(ChildrenOf(i))
  BY ForestFacts
<1>2. l \in i .. Len(tokens) /\ \A k \in i + 1 .. l : tokens[k].parent >= i
  BY DEF Walked
<1>3. child \in 1 .. Len(tokens) /\ tokens[child].parent = i
  BY <1>1, NextChild
<1>4. IsEnd(child, m)
  BY <1>1, <1>3, EndExists
<1>5. /\ m \in child .. Len(tokens) /\ \A k \in child + 1 .. m : tokens[k].parent >= child
      /\ m < Len(tokens) => tokens[m + 1].parent < child
  BY <1>4 DEF IsEnd
<1>. HIDE DEF m
<1>6. ASSUME NEW k \in i + 1 .. m
      PROVE  tokens[k].parent >= i
  <2>1. k \in 1 .. Len(tokens)
    BY <1>1, <1>2, <1>5
  <2>2. k \in i + 1 .. l \/ k = child \/ k \in child + 1 .. m
    BY <1>1, <1>2, <1>5
  <2>. QED
    BY <1>1, <1>2, <1>3, <1>5, <2>1, <2>2
<1>7. ASSUME m < Len(tokens)
      PROVE  tokens[m + 1].parent <= i
  <2>1. m + 1 \in 1 .. Len(tokens) /\ child < m + 1 /\ tokens[m + 1].parent < child
    BY <1>1, <1>3, <1>5, <1>7
  <2>2. tokens[child].parent >= tokens[m + 1].parent
    BY <1>1, <1>3, <2>1
  <2>. QED
    BY <1>1, <1>3, <2>1, <2>2
<1>8. ChildrenUpTo(i, m) = ChildrenUpTo(i, l) \cup {child} /\ child \notin ChildrenUpTo(i, l)
  <2>1. ASSUME NEW j \in ChildrenUpTo(i, m)
        PROVE  j <= l \/ j = child
    <3>1. j \in 1 .. Len(tokens) /\ tokens[j].parent = i /\ j <= m
      BY <1>1 DEF ChildrenUpTo, ChildrenOf
    <3>2. j \notin child + 1 .. m
      BY <1>1, <1>2, <1>5, <3>1
    <3>. QED
      BY <1>1, <1>2, <1>5, <3>1, <3>2
  <2>2. child \in ChildrenUpTo(i, m) /\ child \notin ChildrenUpTo(i, l)
    BY <1>1, <1>2, <1>3, <1>5 DEF ChildrenUpTo, ChildrenOf
  <2>3. ASSUME NEW j \in ChildrenUpTo(i, l)
        PROVE  j \in ChildrenUpTo(i, m)
    BY <1>1, <1>2, <1>5 DEF ChildrenUpTo, ChildrenOf
  <2>4. \A j \in ChildrenUpTo(i, m) : j <= l => j \in ChildrenUpTo(i, l)
    BY DEF ChildrenUpTo
  <2>. QED
    BY <2>1, <2>2, <2>3, <2>4
<1>9. Cardinality(ChildrenUpTo(i, m)) = n + 1
  <2>1. IsFiniteSet(ChildrenUpTo(i, l))
    <3>1. ChildrenUpTo(i, l) \in SUBSET ChildrenOf(i)
      BY DEF ChildrenUpTo
    <3>. QED
      BY <1>1, <3>1, FS_Subset
  <2>2. Cardinality(ChildrenUpTo(i, l)) = n
    BY DEF Walked
  <2>. HIDE DEF child
  <2>. QED
    BY <1>8, <2>1, <2>2, FS_AddElement
<1>10. m \in i .. Len(tokens)
  BY <1>1, <1>2, <1>5
<1>. QED
  BY <1>6, <1>7, <1>9, <1>10 DEF Walked, m

\* When all children have been stepped over, that is the end.
LEMMA WalkEnd ==
  ASSUME TypedForest, NEW i \in DOMAIN tokens, NEW l, Walked(i, tokens[i].size, l)
  PROVE  IsEnd(i, l)
<1>1. /\ Len(tokens) \in Nat /\ i \in 1 .. Len(tokens) /\ DOMAIN tokens = 1 .. Len(tokens)
      /\ \A j \in 1 .. Len(tokens) : tokens[j].parent \in Nat
      /\ IsFiniteSet(ChildrenOf(i)) /\ tokens[i].size = Cardinality(ChildrenOf(i))
  BY ForestFacts
<1>2. l \in i .. Len(tokens) /\ Cardinality(ChildrenUpTo(i, l)) = Cardinality(ChildrenOf(i))
  BY <1>1 DEF Walked
<1>3. ChildrenUpTo(i, l) = ChildrenOf(i)
  <2>1. ChildrenUpTo(i, l) \in SUBSET ChildrenOf(i)
    BY DEF ChildrenUpTo
  <2>. QED
    BY <1>1, <1>2, <2>1, FS_Subset
<1>4. ASSUME l < Len(tokens)
      PROVE  tokens[l + 1].parent < i
  <2>1. l + 1 \in 1 .. Len(tokens) /\ ~ (l + 1 <= l)
    BY <1>1, <1>2, <1>4
  <2>2. tokens[l + 1].parent # i
    BY <1>1, <1>3, <2>1 DEF ChildrenUpTo, ChildrenOf
  <2>3. tokens[l + 1].parent <= i
    BY <1>4 DEF Walked
  <2>. QED
    BY <1>1, <2>1, <2>2, <2>3
<1>. QED
  BY <1>4 DEF Walked, IsEnd

\* The recursive functions of the walk are whatever satisfies these equations, if
\* something does: g gives the last token of each child.
Iterates(a, i, g, m) == a = [n \in 0 .. m |-> IF n = 0 THEN i ELSE g[a[n - 1] + 1]]

Skips(f) ==
  f = [i \in DOMAIN tokens |-> (CHOOSE a : Iterates(a, i, f, tokens[i].size))[tokens[i].size]]

LEMMA IteratesAt ==
  ASSUME NEW i \in Nat, NEW m \in Nat
  PROVE  \A g, a : Iterates(a, i, g, m) => a[0] = i /\ \A n \in 1 .. m : a[n] = g[a[n - 1] + 1]
<1>. SUFFICES ASSUME NEW g, NEW a, Iterates(a, i, g, m)
              PROVE  a[0] = i /\ \A n \in 1 .. m : a[n] = g[a[n - 1] + 1]
  OBVIOUS
<1>. DEFINE h == [k \in 0 .. m |-> IF k = 0 THEN i ELSE g[a[k - 1] + 1]]
<1>1. h[0] = i
  OBVIOUS
<1>2. \A n \in 1 .. m : h[n] = g[a[n - 1] + 1]
  OBVIOUS
<1>3. a = h
  BY Zenon DEF Iterates
<1>. HIDE DEF h
<1>. QED
  BY <1>1, <1>2, <1>3, Zenon

LEMMA IteratesExists ==
  ASSUME NEW i \in Nat, NEW g, NEW m \in Nat
  PROVE  \E a : Iterates(a, i, g, m)
<1>. DEFINE A == {n \in Nat : ~ \E a : Iterates(a, i, g, n)}
<1>. SUFFICES ASSUME A # {}
              PROVE  FALSE
  OBVIOUS
<1>1. A \in SUBSET Nat
  OBVIOUS
<1>2. PICK k \in A : \A n \in A : k <= n
  <2>. HIDE DEF A
  <2>. QED
    BY <1>1, LeastNatural
<1>3. k \in Nat /\ ~ \E a : Iterates(a, i, g, k)
  OBVIOUS
<1>4. k # 0
  <2>1. \A n \in 0 .. 0 : n = 0
    OBVIOUS
  <2>2. Iterates([n \in 0 .. 0 |-> i], i, g, 0)
    BY <2>1, Zenon DEF Iterates
  <2>. QED
    BY <1>3, <2>2
<1>5. PICK a : Iterates(a, i, g, k - 1)
  <2>1. k - 1 \in Nat /\ k - 1 \notin A
    BY <1>2, <1>3, <1>4
  <2>. QED
    BY <2>1
<1>. DEFINE b == [n \in 0 .. k |-> IF n = 0 THEN i ELSE g[a[n - 1] + 1]]
<1>6. \A n \in 0 .. k - 1 : a[n] = b[n]
  <2>. SUFFICES ASSUME NEW n \in 0 .. k - 1
                PROVE  a[n] = b[n]
    OBVIOUS
  <2>1. a[n] = IF n = 0 THEN i ELSE g[a[n - 1] + 1]
    <3>1. k - 1 \in Nat
      BY <1>3, <1>4
    <3>2. a[0] = i /\ \A j \in 1 .. k - 1 : a[j] = g[a[j - 1] + 1]
      <4>. HIDE DEF A, b
      <4>. QED
        BY <1>5, <3>1, IteratesAt
    <3>. QED
      BY <1>3, <3>2
  <2>2. b[n] = IF n = 0 THEN i ELSE g[a[n - 1] + 1]
    BY <1>3
  <2>. QED
    BY <2>1, <2>2
<1>7. Iterates(b, i, g, k)
  <2>1. \A n \in 0 .. k : (IF n = 0 THEN i ELSE g[a[n - 1] + 1]) = IF n = 0 THEN i ELSE g[b[n - 1] + 1]
    <3>. SUFFICES ASSUME NEW n \in 0 .. k, n # 0
                  PROVE  g[a[n - 1] + 1] = g[b[n - 1] + 1]
      BY Zenon
    <3>1. n - 1 \in 0 .. k - 1
      BY <1>3
    <3>2. a[n - 1] = b[n - 1]
      BY <1>6, <3>1, Zenon
    <3>. QED
      BY <3>2, Zenon
  <2>2. b = [n \in 0 .. k |-> IF n = 0 THEN i ELSE g[b[n - 1] + 1]]
    BY <2>1, Zenon
  <2>. QED
    BY <2>2, Zenon DEF Iterates
<1>. QED
  BY <1>3, <1>7

\* A walk over the children of a token, with the right g.
LEMMA Walks ==
  ASSUME TypedForest, NEW i \in DOMAIN tokens, NEW g,
         \A j \in DOMAIN tokens : j > i => g[j] = EndOf(j),
         NEW m \in 0 .. tokens[i].size, NEW a, Iterates(a, i, g, m)
  PROVE  \A n \in 0 .. m : Walked(i, n, a[n])
<1>. DEFINE A == {n \in 0 .. m : ~ Walked(i, n, a[n])}
<1>. SUFFICES ASSUME A # {}
              PROVE  FALSE
  OBVIOUS
<1>1. tokens[i].size \in Nat /\ m \in Nat /\ i \in Nat /\ Len(tokens) \in Nat
  BY ForestFacts
<1>2. A \in SUBSET Nat
  OBVIOUS
<1>3. PICK k \in A : \A n \in A : k <= n
  <2>. HIDE DEF A
  <2>. QED
    BY <1>2, LeastNatural
<1>4. k \in 0 .. m /\ ~ Walked(i, k, a[k])
  OBVIOUS
<1>5. /\ k = 0 => a[k] = i
      /\ k # 0 => a[k] = g[a[k - 1] + 1]
  <2>1. a[0] = i /\ \A n \in 1 .. m : a[n] = g[a[n - 1] + 1]
    <3>1. \A h, b : Iterates(b, i, h, m) => b[0] = i /\ \A n \in 1 .. m : b[n] = h[b[n - 1] + 1]
      BY <1>1, IteratesAt
    <3>. QED
      BY <3>1, Zenon
  <2>. QED
    BY <1>1, <1>4, <2>1
<1>6. CASE k = 0
  BY <1>4, <1>5, <1>6, WalkStart
<1>7. CASE k # 0
  <2>. DEFINE p == k - 1
              l == a[p]
  <2>1. p \in 0 .. m /\ p \notin A /\ p \in Nat /\ p < tokens[i].size /\ p + 1 = k
    BY <1>1, <1>3, <1>4, <1>7
  <2>2. Walked(i, p, l)
    BY <2>1
  <2>. HIDE DEF p, l
  <2>3. l + 1 \in DOMAIN tokens /\ Walked(i, p + 1, EndOf(l + 1))
    BY <2>1, <2>2, NextChild, WalkStep
  <2>4. l + 1 > i
    BY <1>1, <2>2 DEF Walked
  <2>5. a[k] = EndOf(l + 1)
    BY <1>5, <1>7, <2>3, <2>4 DEF p, l
  <2>. QED
    BY <1>4, <2>1, <2>3, <2>5
<1>. QED
  BY <1>6, <1>7

LEMMA WalkGivesEnd ==
  ASSUME TypedForest, NEW i \in DOMAIN tokens, NEW g,
         \A j \in DOMAIN tokens : j > i => g[j] = EndOf(j)
  PROVE  (CHOOSE a : Iterates(a, i, g, tokens[i].size))[tokens[i].size] = EndOf(i)
<1>. DEFINE m == tokens[i].size
            b == CHOOSE a : Iterates(a, i, g, m)
<1>1. m \in Nat /\ i \in Nat
  BY ForestFacts
<1>2. m \in 0 .. tokens[i].size
  BY <1>1
<1>3. Iterates(b, i, g, m)
  BY <1>1, IteratesExists
<1>. HIDE DEF b
<1>4. Walked(i, m, b[m])
  BY <1>2, <1>3, Walks
<1>5. IsEnd(i, b[m])
  BY <1>4, WalkEnd
<1>6. EndOf(i) = b[m]
  BY <1>5, EndUnique
<1>. QED
  BY <1>6 DEF b

LEMMA SkipsExists ==
  ASSUME TypedForest
  PROVE  \E f : Skips(f)
<1>. DEFINE f == [i \in DOMAIN tokens |-> EndOf(i)]
<1>1. \A i \in DOMAIN tokens :
        (CHOOSE a : Iterates(a, i, f, tokens[i].size))[tokens[i].size] = EndOf(i)
  <2>1. \A j \in DOMAIN tokens : f[j] = EndOf(j)
    OBVIOUS
  <2>. HIDE DEF f
  <2>. QED
    BY <2>1, WalkGivesEnd
<1>2. Skips(f)
  BY <1>1, Zenon DEF Skips
<1>. QED
  BY <1>2

LEMMA SkipsRight ==
  ASSUME TypedForest, NEW f, Skips(f)
  PROVE  \A i \in DOMAIN tokens : f[i] = EndOf(i)
<1>. DEFINE A == {n \in Nat : Len(tokens) - n \in DOMAIN tokens /\ f[Len(tokens) - n] # EndOf(Len(tokens) - n)}
<1>1. Len(tokens) \in Nat /\ DOMAIN tokens = 1 .. Len(tokens)
  BY ForestFacts
<1>2. ASSUME NEW i \in DOMAIN tokens, f[i] # EndOf(i)
      PROVE  Len(tokens) - i \in A
  <2>1. Len(tokens) - i \in Nat /\ Len(tokens) - (Len(tokens) - i) = i
    BY <1>1, <1>2
  <2>. QED
    BY <1>2, <2>1
<1>. SUFFICES ASSUME A # {}
              PROVE  FALSE
  BY <1>2
<1>3. A \in SUBSET Nat
  OBVIOUS
<1>4. PICK k \in A : \A n \in A : k <= n
  <2>. HIDE DEF A
  <2>. QED
    BY <1>3, LeastNatural
<1>. DEFINE i == Len(tokens) - k
<1>5. i \in DOMAIN tokens /\ f[i] # EndOf(i) /\ k \in Nat
  OBVIOUS
<1>6. \A j \in DOMAIN tokens : j > i => f[j] = EndOf(j)
  <2>. SUFFICES ASSUME NEW j \in DOMAIN tokens, j > i, f[j] # EndOf(j)
                PROVE  FALSE
    OBVIOUS
  <2>1. Len(tokens) - j \in A
    BY <1>2
  <2>2. k <= Len(tokens) - j
    BY <1>4, <2>1
  <2>. HIDE DEF A
  <2>. QED
    BY <1>1, <1>5, <2>2
<1>. HIDE DEF i
<1>7. (CHOOSE a : Iterates(a, i, f, tokens[i].size))[tokens[i].size] = EndOf(i)
  BY <1>5, <1>6, WalkGivesEnd
<1>8. f[i] = (CHOOSE a : Iterates(a, i, f, tokens[i].size))[tokens[i].size]
  <2>. DEFINE h == [j \in DOMAIN tokens |-> (CHOOSE a : Iterates(a, j, f, tokens[j].size))[tokens[j].size]]
  <2>1. h[i] = (CHOOSE a : Iterates(a, i, f, tokens[i].size))[tokens[i].size]
    BY <1>5
  <2>2. f = h
    BY Zenon DEF Skips
  <2>. QED
    BY <2>1, <2>2, Zenon
<1>. QED
  BY <1>5, <1>7, <1>8

\* json_skip_elem gives the last token of an element.
LEMMA SkippedIsEnd ==
  ASSUME TypedForest, NEW i \in DOMAIN tokens
  PROVE  json_skip_elem(i) = EndOf(i)
<1>. DEFINE f == CHOOSE f : Skips(f)
<1>1. Skips(f)
  BY SkipsExists
<1>2. Skipped = f
  BY DEF Skipped, Skips, Iterates
<1>. HIDE DEF f
<1>. QED
  BY <1>1, <1>2, SkipsRight DEF json_skip_elem

\* The walk of the look-ups from child to child.
Steps(at, i, n) == at = [m \in 0 .. n |-> IF m = 0 THEN i + 1 ELSE json_skip_elem(at[m - 1]) + 1]

LEMMA StepsAt ==
  ASSUME NEW i \in Nat, NEW n \in Nat
  PROVE  \A at : Steps(at, i, n) =>
           at[0] = i + 1 /\ \A m \in 1 .. n : at[m] = json_skip_elem(at[m - 1]) + 1
<1>. SUFFICES ASSUME NEW at, Steps(at, i, n)
              PROVE  at[0] = i + 1 /\ \A m \in 1 .. n : at[m] = json_skip_elem(at[m - 1]) + 1
  OBVIOUS
<1>. DEFINE h == [k \in 0 .. n |-> IF k = 0 THEN i + 1 ELSE json_skip_elem(at[k - 1]) + 1]
<1>1. h[0] = i + 1
  OBVIOUS
<1>2. \A m \in 1 .. n : h[m] = json_skip_elem(at[m - 1]) + 1
  OBVIOUS
<1>3. at = h
  BY Zenon DEF Steps
<1>. HIDE DEF h
<1>. QED
  BY <1>1, <1>2, <1>3, Zenon

LEMMA StepsExist ==
  ASSUME NEW i \in Nat, NEW n \in Nat
  PROVE  \E at : Steps(at, i, n)
<1>1. PICK a : Iterates(a, i, Skipped, n)
  BY IteratesExists
<1>2. a[0] = i /\ \A m \in 1 .. n : a[m] = Skipped[a[m - 1] + 1]
  BY <1>1, IteratesAt
<1>. DEFINE at == [m \in 0 .. n |-> a[m] + 1]
<1>3. \A m \in 0 .. n : a[m] + 1 = IF m = 0 THEN i + 1 ELSE json_skip_elem(at[m - 1]) + 1
  <2>. SUFFICES ASSUME NEW m \in 0 .. n
                PROVE  a[m] + 1 = IF m = 0 THEN i + 1 ELSE json_skip_elem(at[m - 1]) + 1
    OBVIOUS
  <2>1. CASE m = 0
    BY <1>2, <2>1
  <2>2. CASE m # 0
    <3>1. m \in 1 .. n /\ m - 1 \in 0 .. n
      BY <2>2
    <3>2. at[m - 1] = a[m - 1] + 1
      BY <3>1
    <3>3. a[m] = json_skip_elem(at[m - 1])
      BY <1>2, <3>1, <3>2 DEF json_skip_elem
    <3>. QED
      BY <2>2, <3>3
  <2>. QED
    BY <2>1, <2>2
<1>4. Steps(at, i, n)
  BY <1>3, Zenon DEF Steps
<1>. QED
  BY <1>4

LEMMA ChildWalk ==
  ASSUME TypedForest, NEW i \in DOMAIN tokens, NEW n \in 0 .. tokens[i].size
  PROVE  \E l : Walked(i, n, l) /\ Child(i, n) = l + 1
<1>. DEFINE at == CHOOSE at : Steps(at, i, n)
            A == {m \in 0 .. n : ~ \E l : Walked(i, m, l) /\ at[m] = l + 1}
<1>1. tokens[i].size \in Nat /\ n \in Nat /\ i \in Nat
  BY ForestFacts
<1>2. Child(i, n) = at[n]
  BY DEF Child, Steps
<1>3. Steps(at, i, n)
  BY <1>1, StepsExist
<1>. HIDE DEF at
<1>4. at[0] = i + 1 /\ \A m \in 1 .. n : at[m] = json_skip_elem(at[m - 1]) + 1
  BY <1>1, <1>3, StepsAt
<1>5. ASSUME A # {}
      PROVE  FALSE
  <2>1. A \in SUBSET Nat
    OBVIOUS
  <2>2. PICK k \in A : \A m \in A : k <= m
    <3>. HIDE DEF A
    <3>. QED
      BY <1>5, <2>1, LeastNatural
  <2>3. k \in 0 .. n /\ ~ \E l : Walked(i, k, l) /\ at[k] = l + 1
    OBVIOUS
  <2>4. CASE k = 0
    BY <1>4, <2>3, <2>4, WalkStart
  <2>5. CASE k # 0
    <3>. DEFINE p == k - 1
    <3>1. p \in 0 .. n /\ p \notin A /\ p \in Nat /\ p < tokens[i].size /\ p + 1 = k
      BY <1>1, <2>2, <2>3, <2>5
    <3>2. PICK l : Walked(i, p, l) /\ at[p] = l + 1
      BY <3>1
    <3>3. at[k] = json_skip_elem(at[p]) + 1
      BY <1>1, <1>4, <2>3, <2>5
    <3>. HIDE DEF p, A
    <3>4. l + 1 \in DOMAIN tokens /\ Walked(i, p + 1, EndOf(l + 1))
      BY <3>1, <3>2, NextChild, WalkStep
    <3>5. json_skip_elem(l + 1) = EndOf(l + 1)
      BY <3>4, SkippedIsEnd
    <3>. QED
      BY <2>3, <3>1, <3>2, <3>3, <3>4, <3>5
  <2>. QED
    BY <2>4, <2>5
<1>6. n \in 0 .. n
  BY <1>1
<1>. QED
  BY <1>2, <1>5, <1>6

\* Token k is the child of token i before which there are n others.
NthChild(i, n, k) ==
  /\ k \in ChildrenOf(i)
  /\ Cardinality({j \in ChildrenOf(i) : j < k}) = n

LEMMA ChildIsNth ==
  ASSUME TypedForest, NEW i \in DOMAIN tokens, NEW n \in 0 .. tokens[i].size - 1
  PROVE  NthChild(i, n, Child(i, n))
<1>1. /\ tokens[i].size \in Nat /\ n \in Nat /\ n < tokens[i].size /\ n \in 0 .. tokens[i].size
      /\ Len(tokens) \in Nat /\ DOMAIN tokens = 1 .. Len(tokens) /\ i \in Nat
  BY ForestFacts
<1>2. PICK l : Walked(i, n, l) /\ Child(i, n) = l + 1
  BY <1>1, ChildWalk
<1>3. l + 1 \in DOMAIN tokens /\ tokens[l + 1].parent = i
  BY <1>1, <1>2, NextChild
<1>4. {j \in ChildrenOf(i) : j < l + 1} = ChildrenUpTo(i, l)
  BY <1>1, <1>2 DEF ChildrenOf, ChildrenUpTo, Walked
<1>. QED
  BY <1>2, <1>3, <1>4 DEF NthChild, ChildrenOf, Walked

\* There is one such child only, and the order of the children is the order of
\* their numbers.
LEMMA NthOrder ==
  ASSUME TypedForest, NEW i \in DOMAIN tokens, NEW m \in Nat, NEW n \in Nat,
         NEW j, NthChild(i, m, j), NEW k, NthChild(i, n, k)
  PROVE  m < n <=> j < k
<1>1. /\ DOMAIN tokens = 1 .. Len(tokens) /\ IsFiniteSet(ChildrenOf(i))
      /\ j \in Nat /\ k \in Nat
  BY ForestFacts DEF NthChild, ChildrenOf
<1>. DEFINE Before(x) == {y \in ChildrenOf(i) : y < x}
<1>2. ASSUME NEW x \in ChildrenOf(i), NEW y \in ChildrenOf(i), x < y
      PROVE  Cardinality(Before(x)) < Cardinality(Before(y))
  <2>1. x \in Nat /\ y \in Nat /\ ChildrenOf(i) \subseteq Nat
    BY <1>1 DEF ChildrenOf
  <2>2. Before(x) \cup {x} \in SUBSET Before(y) /\ x \notin Before(x)
    BY <1>2, <2>1
  <2>3. IsFiniteSet(Before(x)) /\ IsFiniteSet(Before(y))
    <3>1. Before(x) \in SUBSET ChildrenOf(i) /\ Before(y) \in SUBSET ChildrenOf(i)
      OBVIOUS
    <3>. QED
      BY <1>1, <3>1, FS_Subset
  <2>. HIDE DEF Before
  <2>4. Cardinality(Before(x) \cup {x}) = Cardinality(Before(x)) + 1
    BY <2>2, <2>3, FS_AddElement
  <2>5. Cardinality(Before(x) \cup {x}) <= Cardinality(Before(y))
    BY <2>2, <2>3, FS_Subset
  <2>6. Cardinality(Before(x)) \in Nat /\ Cardinality(Before(y)) \in Nat
    BY <2>3, FS_CardinalityType
  <2>. QED
    BY <2>4, <2>5, <2>6
<1>3. j \in ChildrenOf(i) /\ k \in ChildrenOf(i) /\ Cardinality(Before(j)) = m /\ Cardinality(Before(k)) = n
  BY DEF NthChild
<1>. HIDE DEF Before
<1>4. j < k => m < n
  BY <1>2, <1>3
<1>5. k < j => n < m
  BY <1>2, <1>3
<1>6. j = k => m = n
  BY <1>3
<1>. QED
  BY <1>1, <1>4, <1>5, <1>6

\* Every child is found at its place.
LEMMA EveryChild ==
  ASSUME TypedForest, NEW i \in DOMAIN tokens, NEW k \in ChildrenOf(i)
  PROVE  \E n \in 0 .. tokens[i].size - 1 : Child(i, n) = k
<1>. DEFINE Before == {y \in ChildrenOf(i) : y < k}
            n == Cardinality(Before)
<1>1. /\ DOMAIN tokens = 1 .. Len(tokens) /\ Len(tokens) \in Nat
      /\ IsFiniteSet(ChildrenOf(i)) /\ tokens[i].size = Cardinality(ChildrenOf(i))
      /\ tokens[i].size \in Nat
  BY ForestFacts
<1>2. k \in Nat /\ ChildrenOf(i) \subseteq Nat
  BY <1>1 DEF ChildrenOf
<1>3. Before \in SUBSET ChildrenOf(i) /\ k \notin Before
  BY <1>2
<1>4. n \in Nat /\ n < tokens[i].size
  <2>. HIDE DEF Before
  <2>1. IsFiniteSet(Before) /\ n <= tokens[i].size
    BY <1>1, <1>3, FS_Subset
  <2>2. n # tokens[i].size
    <3>1. Before # ChildrenOf(i)
      BY <1>3
    <3>. QED
      BY <1>1, <1>3, <3>1, FS_Subset
  <2>3. n \in Nat
    BY <2>1, FS_CardinalityType
  <2>. QED
    BY <1>1, <2>1, <2>2, <2>3
<1>5. NthChild(i, n, k)
  BY DEF NthChild
<1>. HIDE DEF n
<1>6. n \in 0 .. tokens[i].size - 1 /\ NthChild(i, n, Child(i, n))
  BY <1>1, <1>4, ChildIsNth
<1>7. Child(i, n) \in Nat
  BY <1>2, <1>6 DEF NthChild
<1>8. ~ (n < n)
  BY <1>4
<1>9. ~ (k < Child(i, n)) /\ ~ (Child(i, n) < k)
  BY <1>4, <1>5, <1>6, <1>8, NthOrder
<1>. QED
  BY <1>2, <1>6, <1>7, <1>9

\* Token k is the first child of the current object whose text is the name, or
\* there is none and it is 0.
FirstNamed(name, k) ==
  LET named == {j \in ChildrenOf(cur) : token_matches_str(j, name)}
  IN  IF named = {} THEN k = 0 ELSE k \in named /\ \A j \in named : k <= j

SearchesRight ==
  Usable =>
    /\ tokens[cur].type = "object" => \A name : FirstNamed(name, json_obj_search(name))
    /\ tokens[cur].type = "array" =>
         \A index \in Nat :
           IF index < tokens[cur].size THEN NthChild(cur, index, json_arr_search(index))
           ELSE json_arr_search(index) = 0

LEMMA MinIsLeast ==
  ASSUME NEW A \in SUBSET Nat, A # {}
  PROVE  Min(A) \in A /\ \A n \in A : Min(A) <= n
BY LeastNatural DEF Min

LEMMA ObjSearch ==
  ASSUME TypedForest, cur \in DOMAIN tokens, tokens[cur].type = "object", NEW name
  PROVE  FirstNamed(name, json_obj_search(name))
<1>. DEFINE places == 0 .. tokens[cur].size - 1
            found == {n \in places : token_matches_str(Child(cur, n), name)}
            named == {j \in ChildrenOf(cur) : token_matches_str(j, name)}
<1>1. tokens[cur].size \in Nat /\ places \in SUBSET Nat /\ ChildrenOf(cur) \subseteq Nat
  BY ForestFacts DEF ChildrenOf
<1>2. json_obj_search(name) = IF found # {} THEN Child(cur, Min(found)) ELSE 0
  BY DEF json_obj_search
<1>3. \A n \in places : NthChild(cur, n, Child(cur, n))
  BY ChildIsNth
<1>4. \A j \in ChildrenOf(cur) : \E n \in places : Child(cur, n) = j
  BY EveryChild
<1>. HIDE DEF places
<1>5. CASE found = {}
  <2>1. named = {}
    BY <1>4, <1>5
  <2>. QED
    BY <1>2, <1>5, <2>1 DEF FirstNamed
<1>6. CASE found # {}
  <2>. DEFINE m == Min(found)
              k == Child(cur, m)
  <2>1. m \in found /\ \A n \in found : m <= n
    <3>1. found \in SUBSET Nat
      BY <1>1
    <3>. HIDE DEF found
    <3>. QED
      BY <1>6, <3>1, MinIsLeast
  <2>. HIDE DEF m
  <2>2. m \in places /\ m \in Nat /\ NthChild(cur, m, k) /\ token_matches_str(k, name)
    BY <1>1, <1>3, <2>1
  <2>3. k \in named
    BY <2>2 DEF NthChild
  <2>4. ASSUME NEW j \in named
        PROVE  k <= j
    <3>1. PICK n \in places : Child(cur, n) = j
      BY <1>4
    <3>2. n \in found /\ n \in Nat /\ NthChild(cur, n, j)
      BY <1>1, <1>3, <3>1
    <3>3. ~ (n < m)
      BY <2>1, <2>2, <3>2
    <3>. HIDE DEF k
    <3>4. ~ (j < k)
      BY <2>2, <3>2, <3>3, NthOrder
    <3>5. j \in Nat /\ k \in Nat
      BY <1>1, <2>3
    <3>. QED
      BY <3>4, <3>5
  <2>5. json_obj_search(name) = k
    BY <1>2, <1>6 DEF m
  <2>. QED
    BY <2>3, <2>4, <2>5 DEF FirstNamed
<1>. QED
  BY <1>5, <1>6

\* On every text that is accepted, a look-up by name finds the first member of that
\* name, and a look-up by index the element at this place: nested objects and arrays
\* are stepped over, however deep they are.
THEOREM LookupsRight == PSpec => []SearchesRight
<1>1. ParserInv => SearchesRight
  <2>. SUFFICES ASSUME ParserInv, Usable
                PROVE  /\ tokens[cur].type = "object" => \A name : FirstNamed(name, json_obj_search(name))
                       /\ tokens[cur].type = "array" =>
                            \A index \in Nat :
                              IF index < tokens[cur].size THEN NthChild(cur, index, json_arr_search(index))
                              ELSE json_arr_search(index) = 0
    BY DEF SearchesRight
  <2>1. TypedForest /\ cur \in DOMAIN tokens
    BY DEF ParserInv, TypeOK, TypedForest, Forest, Usable
  <2>2. ASSUME tokens[cur].type = "object"
        PROVE  \A name : FirstNamed(name, json_obj_search(name))
    BY <2>1, <2>2, ObjSearch
  <2>3. ASSUME tokens[cur].type = "array", NEW index \in Nat
        PROVE  IF index < tokens[cur].size THEN NthChild(cur, index, json_arr_search(index))
               ELSE json_arr_search(index) = 0
    <3>1. tokens[cur].size \in Nat
      BY <2>1, ForestFacts
    <3>2. CASE index < tokens[cur].size
      <4>1. index \in 0 .. tokens[cur].size - 1 /\ json_arr_search(index) = Child(cur, index)
        BY <2>3, <3>1, <3>2 DEF json_arr_search
      <4>. QED
        BY <2>1, <3>2, <4>1, ChildIsNth
    <3>3. CASE ~ (index < tokens[cur].size)
      BY <3>3 DEF json_arr_search
    <3>. QED
      BY <3>2, <3>3
  <2>. QED
    BY <2>2, <2>3
<1>. QED
  BY <1>1, Invariant, PTL

-------------------------------------------------------------------------------
(* The calls that move cur.                                                *)

Entry == [how : {"obj", "arr"}, token : Nat]
CursorInv == ParserInv /\ cur \in Nat /\ path \in Seq(Entry)

LEMMA SearchType ==
  ASSUME ParserInv, Usable
  PROVE  /\ \A name : json_obj_search(name) \in Nat
         /\ \A index \in Nat : json_arr_search(index) \in Nat
<1>1. TypedForest /\ cur \in DOMAIN tokens
  BY DEF ParserInv, TypeOK, TypedForest, Forest, Usable
<1>2. ChildrenOf(cur) \subseteq Nat /\ tokens[cur].size \in Nat
  BY <1>1, ForestFacts DEF ChildrenOf
<1>3. ASSUME NEW name
      PROVE  json_obj_search(name) \in Nat
  <2>1. CASE tokens[cur].type = "object"
    <3>1. FirstNamed(name, json_obj_search(name))
      BY <1>1, <2>1, ObjSearch
    <3>. QED
      BY <1>2, <3>1 DEF FirstNamed
  <2>2. CASE tokens[cur].type # "object"
    BY <2>2 DEF json_obj_search
  <2>. QED
    BY <2>1, <2>2
<1>4. ASSUME NEW index \in Nat
      PROVE  json_arr_search(index) \in Nat
  <2>1. CASE tokens[cur].type = "array" /\ index < tokens[cur].size
    <3>1. index \in 0 .. tokens[cur].size - 1 /\ json_arr_search(index) = Child(cur, index)
      BY <1>2, <2>1 DEF json_arr_search
    <3>. QED
      BY <1>1, <1>2, <3>1, ChildIsNth DEF NthChild
  <2>2. CASE ~ (tokens[cur].type = "array" /\ index < tokens[cur].size)
    BY <2>2 DEF json_arr_search
  <2>. QED
    BY <2>1, <2>2
<1>. QED
  BY <1>3, <1>4

LEMMA EnterType ==
  ASSUME CursorInv, NEW how \in {"obj", "arr"}, NEW tok \in Nat, Enter(how, tok)
  PROVE  cur' \in Nat /\ path' \in Seq(Entry)
<1>1. [how |-> how, token |-> tok] \in Entry
  BY DEF Entry
<1>2. path \in Seq(Entry)
  BY DEF CursorInv
<1>. QED
  BY <1>1, <1>2, AppendProperties DEF Enter

LEMMA LeaveType ==
  ASSUME CursorInv, NEW how, NEW tok \in Nat, LeaveTo(how, tok)
  PROVE  cur' \in Nat /\ path' \in Seq(Entry)
<1>1. path \in Seq(Entry) /\ path # <<>>
  BY DEF CursorInv, LeaveTo
<1>2. Front(path) \in Seq(Entry)
  <2>1. Len(path) \in Nat /\ \A i \in 1 .. Len(path) - 1 : path[i] \in Entry
    BY <1>1, LenProperties, ElementOfSeq
  <2>2. SubSeq(path, 1, Len(path) - 1) \in Seq(Entry)
    BY <2>1, SubSeqProperties
  <2>. QED
    BY <2>2 DEF Front
<1>. QED
  BY <1>2 DEF LeaveTo

LEMMA CursorStep ==
  ASSUME CursorInv, [PNext]_pvars
  PROVE  CursorInv'
<1>1. ParserInv /\ ParserInv' /\ cur \in Nat /\ path \in Seq(Entry)
  BY StepInv DEF CursorInv
<1>2. Usable => /\ tokens \in Seq(Token) /\ cur \in DOMAIN tokens
                /\ DOMAIN tokens = 1 .. Len(tokens) /\ Len(tokens) \in Nat
                /\ \A i \in DOMAIN tokens : tokens[i].parent \in Nat /\ tokens[i].parent < i
  BY <1>1, TokenTypes DEF ParserInv, TypeOK, Usable, Preorder
<1>3. CASE UNCHANGED pvars
  BY <1>1, <1>3 DEF CursorInv, pvars
<1>4. CASE Parse
  BY <1>1, <1>4 DEF CursorInv, Parse
<1>5. ASSUME NEW type, NEW name, ObjEnter(name, type)
      PROVE  CursorInv'
  <2>1. PICK tok \in json_obj_get_val_tok(name, type) : Usable /\ Enter("obj", tok)
    BY <1>5 DEF ObjEnter
  <2>2. json_obj_search(name) \in Nat
    BY <1>1, <2>1, SearchType
  <2>3. tok \in {0, json_obj_search(name) + 1}
    BY <2>1 DEF json_obj_get_val_tok
  <2>4. tok \in Nat
    BY <2>2, <2>3
  <2>. QED
    BY <1>1, <2>1, <2>4, EnterType DEF CursorInv
<1>6. ASSUME NEW type, NEW index \in Nat, ArrEnter(index, type)
      PROVE  CursorInv'
  <2>1. Usable /\ Enter("arr", json_arr_get_val_tok(index, type))
    BY <1>6 DEF ArrEnter
  <2>2. json_arr_search(index) \in Nat
    BY <1>1, <2>1, SearchType
  <2>3. json_arr_get_val_tok(index, type) \in Nat
    BY <2>2 DEF json_arr_get_val_tok
  <2>. QED
    BY <1>1, <2>1, <2>3, EnterType DEF CursorInv
<1>7. CASE json_obj_leave
  <2>. DEFINE p == Parent(cur)
              tok == IF p = 0 THEN cur ELSE IF Parent(p) = 0 THEN p ELSE Parent(p)
  <2>1. LeaveTo("obj", tok) /\ Usable
    BY <1>7 DEF json_obj_leave, LeaveTo
  <2>2. p \in Nat /\ (p # 0 => p \in DOMAIN tokens)
    BY <1>2, <2>1 DEF Parent
  <2>3. p # 0 => Parent(p) \in Nat
    BY <1>2, <2>1, <2>2 DEF Parent
  <2>4. tok \in Nat
    BY <1>1, <2>2, <2>3
  <2>. QED
    BY <1>1, <2>1, <2>4, LeaveType DEF CursorInv
<1>8. CASE json_arr_leave
  <2>. DEFINE tok == IF Parent(cur) = 0 THEN cur ELSE Parent(cur)
  <2>1. LeaveTo("arr", tok) /\ Usable
    BY <1>8 DEF json_arr_leave, LeaveTo
  <2>2. tok \in Nat
    BY <1>1, <1>2, <2>1 DEF Parent
  <2>. QED
    BY <1>1, <2>1, <2>2, LeaveType DEF CursorInv
<1>9. CASE json_parse_end
  BY <1>1, <1>9 DEF CursorInv, json_parse_end
<1>10. CASE Call
  <2>1. \A index \in 0 .. Len(tokens) : index \in Nat
    OBVIOUS
  <2>. QED
    BY <1>5, <1>6, <1>7, <1>8, <1>9, <1>10, <2>1 DEF Call
<1>. QED
  BY <1>3, <1>4, <1>10 DEF PNext

\* Whatever is looked up, entered and left, cur and the tokens entered are tokens.
THEOREM TypeCorrect == PSpec => []PTypeOK
<1>1. PInit => CursorInv
  <2>1. PInit => ParserInv
    BY InitInv
  <2>2. <<>> \in Seq(Entry)
    OBVIOUS
  <2>. QED
    BY <2>1, <2>2 DEF PInit, CursorInv
<1>2. CursorInv => PTypeOK
  BY DEF CursorInv, ParserInv, PTypeOK, Entry
<1>. QED
  BY <1>1, <1>2, CursorStep, PTL DEF PSpec

-------------------------------------------------------------------------------
(* What is read of a text.                                                 *)

\* The function in Readings is whatever satisfies this equation, if something does.
Scans(r, text, n) == r = [p \in 0 .. n |-> IF p = 0 THEN Start ELSE Read(r[p - 1], text[p])]

LEMMA ScansAt ==
  ASSUME NEW text, NEW n \in Nat
  PROVE  \A r : Scans(r, text, n) => r[0] = Start /\ \A p \in 1 .. n : r[p] = Read(r[p - 1], text[p])
<1>. SUFFICES ASSUME NEW r, Scans(r, text, n)
              PROVE  r[0] = Start /\ \A p \in 1 .. n : r[p] = Read(r[p - 1], text[p])
  OBVIOUS
<1>. DEFINE h == [p \in 0 .. n |-> IF p = 0 THEN Start ELSE Read(r[p - 1], text[p])]
<1>1. h[0] = Start
  OBVIOUS
<1>2. \A p \in 1 .. n : h[p] = Read(r[p - 1], text[p])
  OBVIOUS
<1>3. r = h
  BY Zenon DEF Scans
<1>. HIDE DEF h
<1>. QED
  BY <1>1, <1>2, <1>3, Zenon

LEMMA ScansExists ==
  ASSUME NEW text, NEW n \in Nat
  PROVE  \E r : Scans(r, text, n)
<1>. DEFINE A == {m \in Nat : ~ \E r : Scans(r, text, m)}
<1>. SUFFICES ASSUME A # {}
              PROVE  FALSE
  OBVIOUS
<1>1. A \in SUBSET Nat
  OBVIOUS
<1>2. PICK k \in A : \A m \in A : k <= m
  <2>. HIDE DEF A
  <2>. QED
    BY <1>1, LeastNatural
<1>3. k \in Nat /\ ~ \E r : Scans(r, text, k)
  OBVIOUS
<1>4. k # 0
  <2>1. \A p \in 0 .. 0 : p = 0
    OBVIOUS
  <2>2. Scans([p \in 0 .. 0 |-> Start], text, 0)
    BY <2>1, Zenon DEF Scans
  <2>. QED
    BY <1>3, <2>2
<1>5. PICK r : Scans(r, text, k - 1)
  <2>1. k - 1 \in Nat /\ k - 1 \notin A
    BY <1>2, <1>3, <1>4
  <2>. QED
    BY <2>1
<1>. DEFINE s == [p \in 0 .. k |-> IF p = 0 THEN Start ELSE Read(r[p - 1], text[p])]
<1>6. \A p \in 0 .. k - 1 : r[p] = s[p]
  <2>1. k - 1 \in Nat
    BY <1>3, <1>4
  <2>2. r[0] = Start /\ \A p \in 1 .. k - 1 : r[p] = Read(r[p - 1], text[p])
    <3>. HIDE DEF A, s
    <3>. QED
      BY <1>5, <2>1, ScansAt
  <2>. QED
    BY <1>3, <2>2
<1>7. Scans(s, text, k)
  <2>1. \A p \in 0 .. k : (IF p = 0 THEN Start ELSE Read(r[p - 1], text[p]))
                          = IF p = 0 THEN Start ELSE Read(s[p - 1], text[p])
    <3>. SUFFICES ASSUME NEW p \in 0 .. k, p # 0
                  PROVE  Read(r[p - 1], text[p]) = Read(s[p - 1], text[p])
      BY Zenon
    <3>1. p - 1 \in 0 .. k - 1
      BY <1>3
    <3>2. r[p - 1] = s[p - 1]
      BY <1>6, <3>1, Zenon
    <3>. QED
      BY <3>2, Zenon
  <2>2. s = [p \in 0 .. k |-> IF p = 0 THEN Start ELSE Read(s[p - 1], text[p])]
    BY <2>1, Zenon
  <2>. QED
    BY <2>2, Zenon DEF Scans
<1>. QED
  BY <1>3, <1>7

LEMMA ReadingsAt ==
  ASSUME NEW text, Len(text) \in Nat
  PROVE  /\ Readings(text)[0] = Start
         /\ \A p \in 1 .. Len(text) : Readings(text)[p] = Read(Readings(text)[p - 1], text[p])
<1>. DEFINE r == CHOOSE r : Scans(r, text, Len(text))
<1>1. Scans(r, text, Len(text))
  BY ScansExists
<1>2. Readings(text) = r
  BY DEF Readings, Scans
<1>. HIDE DEF r
<1>3. r[0] = Start /\ \A p \in 1 .. Len(text) : r[p] = Read(r[p - 1], text[p])
  BY <1>1, ScansAt
<1>. QED
  BY <1>2, <1>3, Zenon

\* What holds in a reader that starts with Start.
Sane(s) ==
  /\ s.at = "start" => s.open = <<>>
  /\ s.at = "first" => Inside(s, "array")
  /\ s.at \in {"member", "name", "colon"} => Inside(s, "object")
  /\ s.at = "value" => s.open # <<>>
  /\ s.at = "error" => s = Error
  /\ s.lex \notin {"none", "primitive"} => s.at \in {"first", "value", "member", "name"}
  /\ s.lex = "primitive" => s.at \in {"first", "value"}

Readers == {s \in Reader : Sane(s)}

\* An object or array is put on the others, and taken from them again.
LEMMA EntersType ==
  ASSUME NEW s \in Reader, NEW kind \in {"object", "array"}, NEW at \in {"member", "first"}
  PROVE  LET t == Enters(s, kind, at) IN
         /\ t \in Reader /\ t.at = at /\ t.lex = "none"
         /\ Len(t.open) = Len(s.open) + 1 /\ t.open[Len(s.open) + 1] = kind
         /\ \A k \in 1 .. Len(s.open) : t.open[k] = s.open[k]
         /\ \A x : Inside(t, x) <=> x = kind
         /\ t.open # <<>>
<1>. DEFINE t == Enters(s, kind, at)
<1>1. s.open \in Seq({"object", "array"})
  BY DEF Reader
<1>2. /\ t.open = Append(s.open, kind) /\ t.at = at /\ t.lex = "none"
      /\ t = [open |-> t.open, at |-> t.at, lex |-> t.lex]
  BY DEF Enters
<1>3. /\ t.open \in Seq({"object", "array"}) /\ t.open # <<>>
      /\ Len(t.open) = Len(s.open) + 1 /\ t.open[Len(s.open) + 1] = kind
      /\ \A k \in 1 .. Len(s.open) : t.open[k] = s.open[k]
  <2>. HIDE DEF t
  <2>. QED
    BY <1>1, <1>2, AppendProperties
<1>. HIDE DEF t
<1>4. t \in Reader
  BY <1>2, <1>3 DEF Reader
<1>5. \A x : Inside(t, x) <=> x = kind
  BY <1>3 DEF Inside, Last
<1>. QED
  BY <1>2, <1>3, <1>4, <1>5 DEF t

LEMMA LeavesType ==
  ASSUME NEW s \in Reader, s.open # <<>>
  PROVE  LET t == Leaves(s) IN
         /\ t \in Reader /\ t.at = "after" /\ t.lex = "none"
         /\ Len(s.open) \in Nat \ {0} /\ Len(t.open) = Len(s.open) - 1
         /\ \A k \in 1 .. Len(s.open) - 1 : t.open[k] = s.open[k]
<1>. DEFINE t == Leaves(s)
<1>1. s.open \in Seq({"object", "array"})
  BY DEF Reader
<1>2. /\ t.open = Front(s.open) /\ t.at = "after" /\ t.lex = "none"
      /\ t = [open |-> t.open, at |-> t.at, lex |-> t.lex]
  BY DEF Leaves
<1>3. Len(s.open) \in Nat \ {0}
  BY <1>1, LenProperties, EmptySeq
<1>4. PICK m \in Nat : m = Len(s.open) - 1
  BY <1>3
<1>5. t.open = SubSeq(s.open, 1, m)
  BY <1>2, <1>4 DEF Front
<1>6. /\ SubSeq(s.open, 1, m) \in Seq({"object", "array"}) /\ Len(SubSeq(s.open, 1, m)) = m
      /\ \A k \in 1 .. m : SubSeq(s.open, 1, m)[k] = s.open[k]
  <2>1. \A i \in 1 .. m : s.open[i] \in {"object", "array"}
    BY <1>1, <1>3, <1>4, ElementOfSeq
  <2>2. /\ SubSeq(s.open, 1, m) \in Seq({"object", "array"})
        /\ Len(SubSeq(s.open, 1, m)) = IF 1 <= m THEN m - 1 + 1 ELSE 0
        /\ \A i \in 1 .. m - 1 + 1 : SubSeq(s.open, 1, m)[i] = s.open[1 + i - 1]
    BY <2>1, <1>4, SubSeqProperties
  <2>3. \A i \in 1 .. m : i \in 1 .. m - 1 + 1 /\ 1 + i - 1 = i
    BY <1>4
  <2>. QED
    BY <1>4, <2>2, <2>3
<1>. HIDE DEF t
<1>7. t \in Reader
  BY <1>2, <1>5, <1>6 DEF Reader
<1>. QED
  BY <1>2, <1>3, <1>4, <1>5, <1>6, <1>7 DEF t

LEMMA PastType ==
  ASSUME NEW s \in Reader
  PROVE  /\ Past(s) \in Reader /\ Past(s).lex = "none" /\ Past(s).open = s.open
         /\ Past(s).at = IF s.at \in {"member", "name"} THEN "colon" ELSE "after"
BY DEF Past, Reader

\* What a character outside of strings and primitives does, if it is no error.
LEMMA BetweenRight ==
  ASSUME NEW s \in Reader, NEW ch \in Char, Between(s, ch) # Error
  PROVE  /\ ch \in {"{", "}", "[", "]", ":", ",", "quote", " ", "1", "n"}
         /\ ch = " " => Between(s, ch) = s
         /\ ch = "{" => s.at \in {"start", "first", "value"} /\ Between(s, ch) = Enters(s, "object", "member")
         /\ ch = "[" => s.at \in {"start", "first", "value"} /\ Between(s, ch) = Enters(s, "array", "first")
         /\ ch = "}" => s.at \in {"member", "after"} /\ Inside(s, "object") /\ Between(s, ch) = Leaves(s)
         /\ ch = "]" => s.at \in {"first", "after"} /\ Inside(s, "array") /\ Between(s, ch) = Leaves(s)
         /\ ch = "," => s.at = "after" /\ \/ Inside(s, "object") /\ Between(s, ch) = [s EXCEPT !.at = "name"]
                                          \/ Inside(s, "array") /\ Between(s, ch) = [s EXCEPT !.at = "value"]
         /\ ch = ":" => s.at = "colon" /\ Between(s, ch) = [s EXCEPT !.at = "value"]
         /\ ch = "quote" => s.at \in {"first", "value", "member", "name"} /\ Between(s, ch) = [s EXCEPT !.lex = "string"]
         /\ ch \in Primitive => s.at \in {"first", "value"} /\ Between(s, ch) = [s EXCEPT !.lex = "primitive"]
<1>1. ch \in {"{", "}", "[", "]", ":", ",", "quote", " ", "1", "n"}
  BY DEF Between, Char, Space, Primitive
<1>2. ch = " " => Between(s, ch) = s
  BY DEF Between, Space, Primitive
<1>3. ch = "{" => s.at \in {"start", "first", "value"} /\ Between(s, ch) = Enters(s, "object", "member")
  BY DEF Between, Space, Primitive
<1>4. ch = "[" => s.at \in {"start", "first", "value"} /\ Between(s, ch) = Enters(s, "array", "first")
  BY DEF Between, Space, Primitive
<1>5. ch = "}" => s.at \in {"member", "after"} /\ Inside(s, "object") /\ Between(s, ch) = Leaves(s)
  BY DEF Between, Space, Primitive
<1>6. ch = "]" => s.at \in {"first", "after"} /\ Inside(s, "array") /\ Between(s, ch) = Leaves(s)
  BY DEF Between, Space, Primitive
<1>7. ch = "," => s.at = "after" /\ \/ Inside(s, "object") /\ Between(s, ch) = [s EXCEPT !.at = "name"]
                                    \/ Inside(s, "array") /\ Between(s, ch) = [s EXCEPT !.at = "value"]
  BY DEF Between, Space, Primitive, Inside
<1>8. ch = ":" => s.at = "colon" /\ Between(s, ch) = [s EXCEPT !.at = "value"]
  BY DEF Between, Space, Primitive
<1>9. ch = "quote" => s.at \in {"first", "value", "member", "name"} /\ Between(s, ch) = [s EXCEPT !.lex = "string"]
  BY DEF Between, Space, Primitive
<1>10. ch \in Primitive => s.at \in {"first", "value"} /\ Between(s, ch) = [s EXCEPT !.lex = "primitive"]
  BY DEF Between, Space, Primitive
<1>. QED
  BY <1>1, <1>2, <1>3, <1>4, <1>5, <1>6, <1>7, <1>8, <1>9, <1>10

LEMMA ErrorStays ==
  ASSUME NEW ch \in Char
  PROVE  Read(Error, ch) = Error
<1>1. Error.lex = "none" /\ Error.at = "error"
  BY DEF Error
<1>2. Between(Error, ch) = Error
  BY <1>1 DEF Between
<1>. QED
  BY <1>1, <1>2 DEF Read

LEMMA ErrorType == Error \in Readers /\ Start \in Readers
<1>1. Error \in Reader /\ Start \in Reader
  BY DEF Error, Start, Reader
<1>2. Sane(Error) /\ Sane(Start)
  BY DEF Error, Start, Sane
<1>. QED
  BY <1>1, <1>2 DEF Readers

LEMMA BetweenType ==
  ASSUME NEW s \in Readers, NEW ch \in Char, s.lex = "none"
  PROVE  Between(s, ch) \in Readers
<1>. SUFFICES ASSUME Between(s, ch) # Error
              PROVE  Between(s, ch) \in Reader /\ Sane(Between(s, ch))
  BY ErrorType DEF Readers
<1>1. s \in Reader /\ Sane(s)
  BY DEF Readers
<1>2. ch \in {"{", "}", "[", "]", ":", ",", "quote", " "} \cup Primitive
  BY <1>1, BetweenRight DEF Primitive
<1>3. CASE ch = " "
  BY <1>1, <1>3, BetweenRight
<1>4. CASE ch = "{"
  <2>. DEFINE t == Enters(s, "object", "member")
  <2>1. t \in Reader /\ t.at = "member" /\ t.lex = "none" /\ Inside(t, "object")
    BY <1>1, EntersType
  <2>2. Between(s, ch) = t
    BY <1>1, <1>4, BetweenRight
  <2>. QED
    BY <2>1, <2>2 DEF Sane
<1>5. CASE ch = "["
  <2>. DEFINE t == Enters(s, "array", "first")
  <2>1. t \in Reader /\ t.at = "first" /\ t.lex = "none" /\ Inside(t, "array")
    BY <1>1, EntersType
  <2>2. Between(s, ch) = t
    BY <1>1, <1>5, BetweenRight
  <2>. QED
    BY <2>1, <2>2 DEF Sane
<1>6. CASE ch \in {"}", "]"}
  <2>1. Between(s, ch) = Leaves(s) /\ s.open # <<>>
    BY <1>1, <1>6, BetweenRight DEF Inside
  <2>2. Leaves(s) \in Reader /\ Leaves(s).at = "after" /\ Leaves(s).lex = "none"
    BY <1>1, <2>1, LeavesType
  <2>. QED
    BY <2>1, <2>2 DEF Sane
<1>7. CASE ch = ","
  <2>1. \/ Inside(s, "object") /\ Between(s, ch) = [s EXCEPT !.at = "name"]
        \/ Inside(s, "array") /\ Between(s, ch) = [s EXCEPT !.at = "value"]
    BY <1>1, <1>7, BetweenRight
  <2>. QED
    BY <1>1, <2>1 DEF Reader, Sane, Inside
<1>8. CASE ch = ":"
  <2>1. s.at = "colon" /\ Between(s, ch) = [s EXCEPT !.at = "value"]
    BY <1>1, <1>8, BetweenRight
  <2>. QED
    BY <1>1, <2>1 DEF Reader, Sane, Inside
<1>9. CASE ch = "quote"
  <2>1. s.at \in {"first", "value", "member", "name"} /\ Between(s, ch) = [s EXCEPT !.lex = "string"]
    BY <1>1, <1>9, BetweenRight
  <2>. QED
    BY <1>1, <2>1 DEF Reader, Sane, Inside
<1>10. CASE ch \in Primitive
  <2>1. s.at \in {"first", "value"} /\ Between(s, ch) = [s EXCEPT !.lex = "primitive"]
    BY <1>1, <1>10, BetweenRight
  <2>. QED
    BY <1>1, <2>1 DEF Reader, Sane, Inside
<1>. QED
  BY <1>2, <1>3, <1>4, <1>5, <1>6, <1>7, <1>8, <1>9, <1>10

\* A name or a value ends.
LEMMA PastSane ==
  ASSUME NEW s \in Readers, s.at \in {"first", "value", "member", "name"}
  PROVE  Past(s) \in Readers
<1>1. s \in Reader /\ Sane(s)
  BY DEF Readers
<1>2. /\ Past(s) \in Reader /\ Past(s).lex = "none" /\ Past(s).open = s.open
      /\ Past(s).at = IF s.at \in {"member", "name"} THEN "colon" ELSE "after"
  BY <1>1, PastType
<1>. QED
  BY <1>1, <1>2 DEF Readers, Sane, Inside

LEMMA ReadType ==
  ASSUME NEW s \in Readers, NEW ch \in Char
  PROVE  Read(s, ch) \in Readers
<1>1. s \in Reader /\ Sane(s)
  BY DEF Readers
<1>2. CASE s.lex = "none"
  BY <1>2, BetweenType DEF Read
<1>3. CASE s.lex \in {"string", "escape", "hex1", "hex2", "hex3", "hex4"}
  <2>1. s.at \in {"first", "value", "member", "name"}
    BY <1>1, <1>3 DEF Sane
  <2>2. ASSUME NEW l \in {"string", "escape", "hex1", "hex2", "hex3", "hex4"}
        PROVE  [s EXCEPT !.lex = l] \in Readers
    BY <1>1, <2>1 DEF Readers, Reader, Sane, Inside
  <2>3. Read(s, ch) \in {s, Error, Past(s)} \cup {[s EXCEPT !.lex = l] : l \in {"string", "escape", "hex1", "hex2", "hex3", "hex4"}}
    BY <1>3 DEF Read, Hex
  <2>4. Past(s) \in Readers
    BY <2>1, PastSane
  <2>. QED
    BY <2>2, <2>3, <2>4, ErrorType
<1>4. CASE s.lex = "primitive"
  <2>1. s.at \in {"first", "value"}
    BY <1>1, <1>4 DEF Sane
  <2>2. Past(s) \in Readers /\ Past(s).lex = "none"
    BY <1>1, <2>1, PastSane, PastType
  <2>3. Between(Past(s), ch) \in Readers
    BY <2>2, BetweenType
  <2>4. Read(s, ch) \in {s, Error, Between(Past(s), ch)}
    BY <1>4 DEF Read
  <2>. QED
    BY <2>3, <2>4, ErrorType
<1>. QED
  BY <1>1, <1>2, <1>3, <1>4 DEF Reader

LEMMA ReadingsType ==
  ASSUME NEW text \in Seq(Char), NEW p \in 0 .. Len(text)
  PROVE  Readings(text)[p] \in Readers
<1>. DEFINE r == Readings(text)
            A == {q \in 0 .. Len(text) : r[q] \notin Readers}
<1>1. Len(text) \in Nat /\ \A q \in 1 .. Len(text) : text[q] \in Char
  BY LenProperties, ElementOfSeq
<1>2. r[0] = Start /\ \A q \in 1 .. Len(text) : r[q] = Read(r[q - 1], text[q])
  BY <1>1, ReadingsAt
<1>. HIDE DEF r
<1>. SUFFICES ASSUME A # {}
              PROVE  FALSE
  BY DEF r
<1>3. A \in SUBSET Nat
  BY <1>1
<1>4. PICK k \in A : \A q \in A : k <= q
  <2>. HIDE DEF A
  <2>. QED
    BY <1>3, LeastNatural
<1>5. k \in 0 .. Len(text) /\ r[k] \notin Readers
  OBVIOUS
<1>6. k # 0
  BY <1>2, <1>5, ErrorType
<1>7. k - 1 \in 0 .. Len(text) /\ k \in 1 .. Len(text) /\ k - 1 \notin A
  BY <1>1, <1>4, <1>5, <1>6
<1>8. r[k - 1] \in Readers
  BY <1>7
<1>. HIDE DEF A
<1>9. Read(r[k - 1], text[k]) \in Readers
  BY <1>1, <1>7, <1>8, ReadType
<1>. QED
  BY <1>2, <1>5, <1>7, <1>9

\* A text that is not refused in the end is not refused before.
LEMMA NeverError ==
  ASSUME NEW text \in Seq(Char), Readings(text)[Len(text)] # Error, NEW p \in 0 .. Len(text)
  PROVE  Readings(text)[p] # Error
<1>. DEFINE r == Readings(text)
            A == {d \in Nat : p + d <= Len(text) /\ r[p + d] # Error}
<1>1. Len(text) \in Nat /\ \A q \in 1 .. Len(text) : text[q] \in Char
  BY LenProperties, ElementOfSeq
<1>2. \A q \in 1 .. Len(text) : r[q] = Read(r[q - 1], text[q])
  BY <1>1, ReadingsAt
<1>3. r[Len(text)] # Error
  OBVIOUS
<1>. HIDE DEF r
<1>. SUFFICES ASSUME r[p] = Error
              PROVE  FALSE
  BY DEF r
<1>4. Len(text) - p \in A
  BY <1>1, <1>3
<1>5. PICK k \in A : \A q \in A : k <= q
  <2>1. A \in SUBSET Nat /\ A # {}
    BY <1>4
  <2>. HIDE DEF A
  <2>. QED
    BY <2>1, LeastNatural
<1>6. k \in Nat /\ p + k <= Len(text) /\ r[p + k] # Error
  OBVIOUS
<1>7. k # 0
  BY <1>6
<1>8. /\ k - 1 \in Nat /\ p + (k - 1) <= Len(text) /\ k - 1 \notin A
      /\ p + k \in 1 .. Len(text) /\ p + k - 1 = p + (k - 1)
  BY <1>1, <1>5, <1>6, <1>7
<1>9. r[p + (k - 1)] = Error
  BY <1>8
<1>10. r[p + k] = Read(r[p + k - 1], text[p + k])
  BY <1>2, <1>8
<1>11. Read(Error, text[p + k]) = Error
  BY <1>1, <1>8, ErrorStays
<1>. QED
  BY <1>6, <1>8, <1>9, <1>10, <1>11

-------------------------------------------------------------------------------
(* What the parser has read, in a text that may be or become a document.   *)

R == Readings(js)
Alive == R[Len(js)] # Error

\* A primitive has ended where its delimiter has not been taken.
Settled(s) == IF s.lex = "primitive" THEN Past(s) ELSE s

\* How far the text has been read, without the string or primitive being scanned.
State == IF loop \in {"string", "primitive"} THEN R[start] ELSE Settled(R[pos])

Lexes ==
  /\ loop \in {"main", "close"} =>
       R[pos].lex = "none" \/ (R[pos].lex = "primitive" /\ ~AtEnd /\ c \in Delimiter)
  /\ loop = "string" =>
       /\ R[start].lex = "none" /\ R[start].at \in {"first", "value", "member", "name"}
       /\ js[start + 1] = "quote"
       /\ R[pos].lex # "none"
       /\ pos < Len(js) => R[pos] = [R[start] EXCEPT !.lex = "string"]
  /\ loop = "primitive" =>
       /\ R[start].lex = "none" /\ R[start].at \in {"first", "value"}
       /\ start < Len(js) /\ js[start + 1] \in Primitive
       /\ pos = start \/ R[pos] = [R[start] EXCEPT !.lex = "primitive"]

\* The text at every position, and after the character there.
LEMMA AliveReads ==
  ASSUME js \in Seq(Char), Alive, NEW p \in 0 .. Len(js)
  PROVE  /\ R[p] \in Readers /\ R[p] \in Reader /\ R[p] # Error
         /\ p < Len(js) => /\ js[p + 1] \in Char /\ js[p + 1] # "nul"
                           /\ R[p + 1] = Read(R[p], js[p + 1])
                           /\ R[p + 1] \in Readers /\ R[p + 1] # Error
<1>1. Len(js) \in Nat /\ \A q \in 1 .. Len(js) : js[q] \in Char
  BY LenProperties, ElementOfSeq
<1>2. \A q \in 0 .. Len(js) : R[q] \in Readers /\ R[q] # Error
  <2>1. Readings(js)[Len(js)] # Error
    BY DEF Alive, R
  <2>. QED
    BY <2>1, ReadingsType, NeverError DEF R
<1>3. R[p] \in Reader
  BY <1>2 DEF Readers
<1>4. ASSUME p < Len(js)
      PROVE  /\ js[p + 1] \in Char /\ js[p + 1] # "nul"
             /\ R[p + 1] = Read(R[p], js[p + 1])
             /\ R[p + 1] \in Readers /\ R[p + 1] # Error
  <2>1. p + 1 \in 1 .. Len(js) /\ p + 1 \in 0 .. Len(js) /\ p + 1 - 1 = p
    BY <1>1, <1>4
  <2>2. R[p + 1] = Read(R[p], js[p + 1])
    <3>1. \A q \in 1 .. Len(js) : R[q] = Read(R[q - 1], js[q])
      BY <1>1, ReadingsAt DEF R
    <3>. QED
      BY <2>1, <3>1
  <2>3. ASSUME NEW s \in Reader
        PROVE  Read(s, "nul") = Error
    <3>1. \A t : Between(t, "nul") = Error
      BY DEF Between, Space, Primitive
    <3>. QED
      BY <2>3, <3>1 DEF Read, Hex, Reader, Escaped, HexDigit
  <2>4. js[p + 1] # "nul"
    BY <1>2, <1>3, <2>1, <2>2, <2>3
  <2>. QED
    BY <1>1, <1>2, <2>1, <2>2, <2>4
<1>. QED
  BY <1>2, <1>3, <1>4

LEMMA AliveEnd ==
  ASSUME TypeOK, Alive
  PROVE  AtEnd <=> pos = Len(js)
<1>1. Len(js) \in Nat /\ pos \in 0 .. Len(js) /\ js \in Seq(Char)
  BY LenProperties DEF TypeOK
<1>2. pos < Len(js) => js[pos + 1] # "nul"
  BY <1>1, AliveReads
<1>. QED
  BY <1>1, <1>2 DEF AtEnd, More

LEMMA StateType ==
  ASSUME TypeOK, Alive
  PROVE  State \in Readers /\ State \in Reader /\ Sane(State)
<1>1. js \in Seq(Char) /\ pos \in 0 .. Len(js) /\ start \in 0 .. Len(js)
  BY DEF TypeOK
<1>2. R[pos] \in Readers /\ R[start] \in Readers
  BY <1>1, AliveReads
<1>3. R[pos].lex = "primitive" => Past(R[pos]) \in Readers
  BY <1>2, PastSane DEF Readers, Sane
<1>. QED
  BY <1>2, <1>3 DEF State, Settled, Readers

\* In the main loop the character at pos is read as one between strings and
\* primitives.
LEMMA MainReads ==
  ASSUME TypeOK, Alive, Lexes, loop \in {"main", "close"}, ~AtEnd
  PROVE  /\ State.lex = "none"
         /\ R[pos + 1] = Between(State, c) /\ Between(State, c) # Error
         /\ pos < Len(js) /\ c \in Char
<1>1. js \in Seq(Char) /\ pos \in 0 .. Len(js) /\ Len(js) \in Nat
  BY LenProperties DEF TypeOK
<1>2. pos < Len(js)
  BY <1>1, AliveEnd
<1>3. /\ R[pos] \in Reader /\ c \in Char
      /\ R[pos + 1] = Read(R[pos], c) /\ R[pos + 1] # Error
  BY <1>1, <1>2, AliveReads DEF c
<1>4. State = Settled(R[pos])
  BY DEF State
<1>5. CASE R[pos].lex = "none"
  BY <1>2, <1>3, <1>4, <1>5 DEF Settled, Read
<1>6. CASE R[pos].lex = "primitive" /\ c \in Delimiter
  <2>1. State = Past(R[pos])
    BY <1>4, <1>6 DEF Settled
  <2>2. State.lex = "none"
    BY <1>3, <2>1, PastType
  <2>3. R[pos + 1] = Between(State, c)
    BY <1>3, <1>6, <2>1 DEF Read, Delimiter, Space, Closing
  <2>. QED
    BY <1>2, <1>3, <2>2, <2>3
<1>. QED
  BY <1>5, <1>6 DEF Lexes

-------------------------------------------------------------------------------
(* The tokens and what has been read.                                      *)

\* A key and the value behind it stand for a member of the object above them.
Up(p) == IF p # 0 /\ tokens[p].type = "string" THEN tokens[p].parent ELSE p

\* The innermost object or array that is open.
Top == Up(toksuper)

IsKey(i) == tokens[i].type = "string" /\ tokens[i].parent # 0 /\ tokens[tokens[i].parent].type = "object"

\* The root is an object or array, the members of an object are strings, and only
\* they have a child besides objects and arrays, which follows them.
Formed ==
  \A i \in DOMAIN tokens : LET p == tokens[i].parent IN
    /\ p = 0 => i = 1 /\ tokens[i].type \in {"object", "array"}
    /\ p # 0 => /\ tokens[p].type # "primitive"
                /\ tokens[p].type = "object" => tokens[i].type = "string"
                /\ tokens[p].type = "string" => i = p + 1 /\ IsKey(p)

\* Every name has its value, but for one that has just been read.
Filled(s) ==
  \A i \in DOMAIN tokens : IsKey(i) =>
    /\ i < Len(tokens) => tokens[i + 1].parent = i
    /\ i = Len(tokens) => Inside(s, "object") /\ s.at \in {"colon", "value"}

\* The objects and arrays that have begun and not ended are the tokens nest.
Nested(s, nest) ==
  /\ nest \in [1 .. Len(s.open) -> DOMAIN tokens]
  /\ \A k \in 1 .. Len(s.open) :
       /\ IsOpen(tokens[nest[k]]) /\ tokens[nest[k]].type = s.open[k]
       /\ Up(tokens[nest[k]].parent) = IF k = 1 THEN 0 ELSE nest[k - 1]
  /\ \A j, k \in 1 .. Len(s.open) : j < k => nest[j] < nest[k]
  /\ \A i \in DOMAIN tokens : IsOpen(tokens[i]) => \E k \in 1 .. Len(s.open) : nest[k] = i
  /\ Top = IF s.open = <<>> THEN 0 ELSE nest[Len(s.open)]

\* The superior token is the innermost one, or the last name in it.
Superior(s) ==
  /\ s.at = "start" <=> Len(tokens) = 0
  /\ IF Inside(s, "object") /\ s.at \in {"value", "after"}
     THEN toksuper # 0 /\ IsKey(toksuper) /\ (s.at = "value" => toksuper = Len(tokens) /\ tokens[toksuper].size = 0)
     ELSE toksuper = Top
  /\ s.at = "colon" => /\ Len(tokens) # 0 /\ IsKey(Len(tokens))
                       /\ tokens[Len(tokens)].parent = Top /\ tokens[Len(tokens)].size = 0

Shape(s) == Formed /\ Filled(s) /\ (\E nest : Nested(s, nest)) /\ Superior(s)

\* The innermost token is open, of the kind that is read, and there is no other open
\* one after it.
LEMMA TopIs ==
  ASSUME TypeOK, NEW s \in Reader, Shape(s)
  PROVE  /\ s.open = <<>> => Top = 0 /\ \A i \in DOMAIN tokens : ~IsOpen(tokens[i])
         /\ s.open # <<>> =>
              /\ Top \in DOMAIN tokens /\ Top # 0 /\ IsOpen(tokens[Top])
              /\ tokens[Top].type = s.open[Len(s.open)] /\ tokens[Top].type \in {"object", "array"}
              /\ Inside(s, tokens[Top].type)
              /\ \A i \in DOMAIN tokens : IsOpen(tokens[i]) => i <= Top
         /\ \A kind : Inside(s, kind) => tokens[Top].type = kind /\ Top # 0
<1>1. PICK nest : Nested(s, nest)
  BY DEF Shape
<1>2. DOMAIN tokens = 1 .. Len(tokens) /\ Len(tokens) \in Nat
  BY TokenTypes DEF TypeOK
<1>3. s.open \in Seq({"object", "array"}) /\ Len(s.open) \in Nat
  BY LenProperties DEF Reader
<1>4. CASE s.open = <<>>
  <2>1. Len(s.open) = 0
    BY <1>4
  <2>. QED
    BY <1>1, <1>4, <2>1 DEF Nested, Inside
<1>5. CASE s.open # <<>>
  <2>1. Len(s.open) \in 1 .. Len(s.open)
    BY <1>3, <1>5, EmptySeq
  <2>2. Top = nest[Len(s.open)] /\ nest \in [1 .. Len(s.open) -> DOMAIN tokens]
    BY <1>1, <1>5 DEF Nested
  <2>3. Top \in DOMAIN tokens /\ Top # 0
    BY <1>2, <2>1, <2>2
  <2>4. IsOpen(tokens[Top]) /\ tokens[Top].type = s.open[Len(s.open)]
    BY <1>1, <2>1, <2>2 DEF Nested
  <2>5. s.open[Len(s.open)] \in {"object", "array"}
    BY <1>3, <2>1, ElementOfSeq
  <2>6. ASSUME NEW i \in DOMAIN tokens, IsOpen(tokens[i])
        PROVE  i <= Top
    <3>1. PICK k \in 1 .. Len(s.open) : nest[k] = i
      BY <1>1, <2>6 DEF Nested
    <3>2. k = Len(s.open) \/ nest[k] < nest[Len(s.open)]
      BY <1>1, <1>3, <2>1 DEF Nested
    <3>. QED
      BY <1>2, <2>2, <2>3, <3>1, <3>2
  <2>7. \A kind : Inside(s, kind) <=> tokens[Top].type = kind
    BY <1>5, <2>4 DEF Inside, Last
  <2>. QED
    BY <1>5, <2>3, <2>4, <2>5, <2>6, <2>7
<1>. QED
  BY <1>4, <1>5

\* The superior token where a value or a name may begin.
LEMMA SuperiorIs ==
  ASSUME ParserInv, NEW s \in Readers, Shape(s), s.at \in {"start", "first", "value", "member", "name"}
  PROVE  \/ s.at = "start" /\ toksuper = 0 /\ Len(tokens) = 0
         \/ /\ s.at \in {"first", "value"} /\ Inside(s, "array")
            /\ toksuper = Top /\ Top \in DOMAIN tokens /\ Top # 0 /\ tokens[Top].type = "array"
         \/ /\ s.at = "value" /\ Inside(s, "object")
            /\ toksuper = Len(tokens) /\ toksuper # 0 /\ toksuper \in DOMAIN tokens
            /\ IsKey(toksuper) /\ tokens[toksuper].size = 0
         \/ /\ s.at \in {"member", "name"} /\ Inside(s, "object")
            /\ toksuper = Top /\ Top \in DOMAIN tokens /\ Top # 0 /\ tokens[Top].type = "object"
<1>1. /\ DOMAIN tokens = 1 .. Len(tokens) /\ Len(tokens) \in Nat /\ s \in Reader /\ Sane(s) /\ TypeOK
      /\ Superior(s)
  BY TokenTypes DEF TypeOK, ParserInv, Readers, Shape
<1>2. CASE s.at = "start"
  <2>1. s.open = <<>> /\ Len(tokens) = 0
    BY <1>1, <1>2 DEF Sane, Superior
  <2>2. Top = 0
    BY <1>1, <2>1, TopIs
  <2>. QED
    BY <1>1, <1>2, <2>1, <2>2 DEF Superior
<1>3. CASE s.at # "start"
  <2>1. s.open # <<>>
    BY <1>1, <1>3 DEF Sane, Inside
  <2>2. /\ Top \in DOMAIN tokens /\ Top # 0 /\ tokens[Top].type \in {"object", "array"}
        /\ Inside(s, tokens[Top].type) /\ \A kind : Inside(s, kind) => tokens[Top].type = kind
    BY <1>1, <2>1, TopIs
  <2>3. CASE tokens[Top].type = "array"
    <3>1. ~Inside(s, "object") /\ Inside(s, "array")
      BY <2>2, <2>3
    <3>2. s.at \in {"first", "value"}
      BY <1>1, <1>3, <3>1 DEF Sane
    <3>. QED
      BY <1>1, <2>2, <2>3, <3>1, <3>2 DEF Superior
  <2>4. CASE tokens[Top].type = "object"
    <3>1. Inside(s, "object") /\ ~Inside(s, "array")
      BY <2>2, <2>4
    <3>2. s.at \in {"value", "member", "name"}
      BY <1>1, <1>3, <3>1 DEF Sane
    <3>3. CASE s.at = "value"
      <4>1. toksuper = Len(tokens) /\ toksuper # 0 /\ IsKey(toksuper) /\ tokens[toksuper].size = 0
        BY <1>1, <3>1, <3>3 DEF Superior
      <4>. QED
        BY <1>1, <3>1, <3>3, <4>1
    <3>4. CASE s.at \in {"member", "name"}
      BY <1>1, <2>2, <2>4, <3>1, <3>4 DEF Superior
    <3>. QED
      BY <3>2, <3>3, <3>4
  <2>. QED
    BY <2>2, <2>3, <2>4
<1>. QED
  BY <1>2, <1>3

\* A new token, and the old ones.
LEMMA NewToken ==
  ASSUME ParserInv, OnPath(toksuper), js' = js,
         NEW type \in {"object", "array", "string", "primitive"},
         NEW first \in 0 .. Len(js), NEW last \in -1 .. Len(js),
         tokens' = Linked(type, first, last, toksuper)
  PROVE  /\ Len(tokens) \in Nat /\ DOMAIN tokens = 1 .. Len(tokens)
         /\ Len(tokens') = Len(tokens) + 1 /\ DOMAIN tokens' = 1 .. Len(tokens) + 1
         /\ toksuper \in 0 .. Len(tokens)
         /\ \A i \in 1 .. Len(tokens) :
              /\ tokens[i].parent \in 0 .. i - 1
              /\ tokens'[i].type = tokens[i].type /\ tokens'[i].parent = tokens[i].parent
              /\ tokens'[i].start = tokens[i].start /\ tokens'[i].end = tokens[i].end
              /\ tokens'[i].size = IF i = toksuper THEN tokens[i].size + 1 ELSE tokens[i].size
         /\ tokens'[Len(tokens) + 1] =
              [type |-> type, start |-> first, end |-> last, size |-> 0, parent |-> toksuper]
<1>. DEFINE new == [type |-> type, start |-> first, end |-> last, size |-> 0, parent |-> toksuper]
            old == IF toksuper = 0 THEN tokens ELSE [tokens EXCEPT ![toksuper].size = @ + 1]
            n == Len(tokens)
<1>1. /\ tokens \in Seq(Token) /\ n \in Nat /\ DOMAIN tokens = 1 .. n
      /\ \A i \in 1 .. n : tokens[i] \in Token /\ tokens[i].parent \in 0 .. i - 1
  <2>1. tokens \in Seq(Token) /\ Preorder
    BY DEF ParserInv, TypeOK
  <2>2. /\ n \in Nat /\ DOMAIN tokens = 1 .. n
        /\ \A i \in 1 .. n : tokens[i] \in Token /\ tokens[i].parent \in Nat
    BY <2>1, TokenTypes
  <2>. QED
    BY <2>1, <2>2 DEF Preorder
<1>2. toksuper \in 0 .. n
  BY DEF OnPath
<1>3. tokens' = Append(old, new)
  BY DEF Linked
<1>4. /\ Len(old) = n
      /\ \A i \in 1 .. n :
           /\ old[i].type = tokens[i].type /\ old[i].parent = tokens[i].parent
           /\ old[i].start = tokens[i].start /\ old[i].end = tokens[i].end
           /\ old[i].size = IF i = toksuper THEN tokens[i].size + 1 ELSE tokens[i].size
  <2>1. CASE toksuper = 0
    BY <1>1, <2>1
  <2>2. CASE toksuper # 0
    <3>. DEFINE e == [tokens[toksuper] EXCEPT !.size = @ + 1]
    <3>1. toksuper \in 1 .. n /\ tokens[toksuper] \in Token
      BY <1>1, <1>2, <2>2
    <3>2. /\ e.type = tokens[toksuper].type /\ e.parent = tokens[toksuper].parent
          /\ e.start = tokens[toksuper].start /\ e.end = tokens[toksuper].end
          /\ e.size = tokens[toksuper].size + 1
      BY <3>1 DEF Token
    <3>3. old = [tokens EXCEPT ![toksuper] = e]
      BY <2>2
    <3>. HIDE DEF e, old
    <3>4. DOMAIN old = 1 .. n /\ \A i \in 1 .. n : old[i] = IF i = toksuper THEN e ELSE tokens[i]
      BY <1>1, <3>1, <3>3
    <3>5. Len(old) = n
      BY <1>1, <3>3
    <3>. QED
      BY <3>2, <3>4, <3>5
  <2>. QED
    BY <2>1, <2>2
<1>5. /\ Len(tokens') = n + 1 /\ DOMAIN tokens' = 1 .. n + 1
      /\ \A i \in 1 .. n : tokens'[i] = old[i]
      /\ tokens'[n + 1] = new
  <2>. HIDE DEF old, new
  <2>. QED
    BY <1>1, <1>3, <1>4
<1>. QED
  BY <1>1, <1>2, <1>4, <1>5

\* What a new token that starts in state s may be.
Fits(s, type) ==
  \/ type \in {"object", "array"} /\ s.at \in {"start", "first", "value"}
  \/ type = "primitive" /\ s.at \in {"first", "value"}
  \/ type = "string" /\ s.at \in {"first", "value", "member", "name"}

LEMMA NewFormed ==
  ASSUME ParserInv, OnPath(toksuper), js' = js, NEW s \in Readers, Shape(s),
         NEW type \in {"object", "array", "string", "primitive"}, Fits(s, type),
         NEW first \in 0 .. Len(js), NEW last \in -1 .. Len(js),
         tokens' = Linked(type, first, last, toksuper), NEW n, n = Len(tokens)
  PROVE  /\ Formed'
         /\ \A i \in 1 .. n : IsKey(i)' <=> IsKey(i)
         /\ IsKey(n + 1)' <=> s.at \in {"member", "name"}
         /\ \A p \in 0 .. n : Up(p)' = Up(p)
<1>1. /\ n \in Nat /\ DOMAIN tokens = 1 .. n /\ DOMAIN tokens' = 1 .. n + 1
      /\ toksuper \in 0 .. n
      /\ \A i \in 1 .. n :
           /\ tokens[i].parent \in 0 .. i - 1
           /\ tokens'[i].type = tokens[i].type /\ tokens'[i].parent = tokens[i].parent
      /\ tokens'[n + 1] = [type |-> type, start |-> first, end |-> last, size |-> 0, parent |-> toksuper]
  BY NewToken
<1>2. tokens'[n + 1].type = type /\ tokens'[n + 1].parent = toksuper
  BY <1>1
<1>3. Formed /\ TypeOK
  BY DEF Shape, ParserInv
<1>4. \/ s.at = "start" /\ toksuper = 0 /\ n = 0
      \/ s.at \in {"first", "value"} /\ toksuper # 0 /\ tokens[toksuper].type = "array"
      \/ s.at = "value" /\ toksuper = n /\ toksuper # 0 /\ IsKey(toksuper)
      \/ s.at \in {"member", "name"} /\ toksuper # 0 /\ tokens[toksuper].type = "object"
  <2>1. s.at \in {"start", "first", "value", "member", "name"}
    BY DEF Fits
  <2>. QED
    BY <2>1, SuperiorIs
<1>5. \A i \in 1 .. n : IsKey(i)' <=> IsKey(i)
  BY <1>1 DEF IsKey
<1>6. \A p \in 0 .. n : Up(p)' = Up(p)
  BY <1>1 DEF Up
<1>7. IsKey(n + 1)' <=> s.at \in {"member", "name"}
  <2>1. IsKey(n + 1)' <=> type = "string" /\ toksuper # 0 /\ tokens[toksuper].type = "object"
    <3>1. toksuper # 0 => tokens'[toksuper].type = tokens[toksuper].type
      BY <1>1
    <3>2. IsKey(n + 1)' <=> type = "string" /\ toksuper # 0 /\ tokens'[toksuper].type = "object"
      BY <1>2 DEF IsKey
    <3>. QED
      BY <3>1, <3>2
  <2>. QED
    BY <1>4, <2>1 DEF Fits, IsKey
<1>8. Formed'
  <2>. SUFFICES ASSUME NEW i \in 1 .. n + 1, NEW p, p = tokens'[i].parent
                PROVE  /\ p = 0 => i = 1 /\ tokens'[i].type \in {"object", "array"}
                       /\ p # 0 => /\ tokens'[p].type # "primitive"
                                   /\ tokens'[p].type = "object" => tokens'[i].type = "string"
                                   /\ tokens'[p].type = "string" => i = p + 1 /\ IsKey(p)'
    BY <1>1 DEF Formed
  <2>1. CASE i \in 1 .. n
    <3>1. /\ p = 0 => i = 1 /\ tokens[i].type \in {"object", "array"}
          /\ p # 0 => /\ tokens[p].type # "primitive"
                      /\ tokens[p].type = "object" => tokens[i].type = "string"
                      /\ tokens[p].type = "string" => i = p + 1 /\ IsKey(p)
      <4>1. i \in DOMAIN tokens /\ p = tokens[i].parent
        BY <1>1, <2>1
      <4>. QED
        BY <1>3, <4>1 DEF Formed
    <3>2. p # 0 => p \in 1 .. n
      BY <1>1, <2>1
    <3>. QED
      BY <1>1, <1>5, <2>1, <3>1, <3>2
  <2>2. CASE i = n + 1
    <3>1. p = toksuper /\ tokens'[i].type = type
      BY <1>2, <2>2
    <3>2. p # 0 => p \in 1 .. n /\ tokens'[p].type = tokens[p].type /\ (IsKey(p)' <=> IsKey(p))
      BY <1>1, <1>5, <3>1
    <3>3. CASE p = 0
      BY <1>1, <1>4, <2>2, <3>1, <3>3 DEF Fits
    <3>4. CASE p # 0
      BY <1>1, <1>4, <2>2, <3>1, <3>2, <3>4 DEF Fits, IsKey
    <3>. QED
      BY <3>3, <3>4
  <2>. QED
    BY <1>1, <2>1, <2>2
<1>. QED
  BY <1>5, <1>6, <1>7, <1>8

\* What is open stays open when there is a new token.
LEMMA OldNest ==
  ASSUME ParserInv, OnPath(toksuper), js' = js, NEW s \in Readers, Shape(s),
         NEW type \in {"object", "array", "string", "primitive"}, Fits(s, type),
         NEW first \in 0 .. Len(js), NEW last \in -1 .. Len(js),
         tokens' = Linked(type, first, last, toksuper), NEW n, n = Len(tokens),
         NEW nest, Nested(s, nest)
  PROVE  /\ nest \in [1 .. Len(s.open) -> 1 .. n]
         /\ \A k \in 1 .. Len(s.open) :
              /\ IsOpen(tokens'[nest[k]]) /\ tokens'[nest[k]].type = s.open[k]
              /\ Up(tokens[nest[k]].parent)' = IF k = 1 THEN 0 ELSE nest[k - 1]
         /\ \A j, k \in 1 .. Len(s.open) : j < k => nest[j] < nest[k]
         /\ \A i \in 1 .. n : IsOpen(tokens'[i]) => \E k \in 1 .. Len(s.open) : nest[k] = i
         /\ Top = IF s.open = <<>> THEN 0 ELSE nest[Len(s.open)]
<1>1. /\ n \in Nat /\ DOMAIN tokens = 1 .. n
      /\ \A i \in 1 .. n :
           /\ tokens[i].parent \in 0 .. i - 1
           /\ tokens'[i].type = tokens[i].type /\ tokens'[i].parent = tokens[i].parent
           /\ tokens'[i].end = tokens[i].end
  BY NewToken
<1>2. \A p \in 0 .. n : Up(p)' = Up(p)
  BY NewFormed
<1>3. /\ nest \in [1 .. Len(s.open) -> 1 .. n]
      /\ \A k \in 1 .. Len(s.open) :
           /\ IsOpen(tokens[nest[k]]) /\ tokens[nest[k]].type = s.open[k]
           /\ Up(tokens[nest[k]].parent) = IF k = 1 THEN 0 ELSE nest[k - 1]
      /\ \A j, k \in 1 .. Len(s.open) : j < k => nest[j] < nest[k]
      /\ \A i \in 1 .. n : IsOpen(tokens[i]) => \E k \in 1 .. Len(s.open) : nest[k] = i
      /\ Top = IF s.open = <<>> THEN 0 ELSE nest[Len(s.open)]
  BY <1>1 DEF Nested
<1>4. ASSUME NEW k \in 1 .. Len(s.open)
      PROVE  /\ IsOpen(tokens'[nest[k]]) /\ tokens'[nest[k]].type = s.open[k]
             /\ Up(tokens[nest[k]].parent)' = IF k = 1 THEN 0 ELSE nest[k - 1]
  <2>1. PICK i : i = nest[k]
    OBVIOUS
  <2>2. i \in 1 .. n
    BY <1>3, <2>1
  <2>3. /\ tokens'[i].type = tokens[i].type /\ tokens'[i].end = tokens[i].end
        /\ tokens'[i].parent = tokens[i].parent
    BY <1>1, <2>2
  <2>4. PICK p : p = tokens[i].parent
    OBVIOUS
  <2>5. p \in 0 .. n /\ Up(p)' = Up(p)
    BY <1>1, <1>2, <2>2, <2>4
  <2>6. Up(tokens[nest[k]].parent)' = Up(p)'
    BY <2>1, <2>3, <2>4 DEF Up
  <2>. QED
    BY <1>3, <2>1, <2>3, <2>4, <2>5, <2>6 DEF IsOpen
<1>5. \A i \in 1 .. n : IsOpen(tokens'[i]) <=> IsOpen(tokens[i])
  BY <1>1 DEF IsOpen
<1>. QED
  BY <1>3, <1>4, <1>5

\* A string or a primitive.
LEMMA ValueShape ==
  ASSUME ParserInv, OnPath(toksuper), js' = js, NEW s \in Readers, Shape(s),
         NEW type \in {"string", "primitive"}, Fits(s, type),
         NEW first \in 0 .. Len(js), NEW last \in 0 .. Len(js),
         tokens' = Linked(type, first, last, toksuper), toksuper' = toksuper
  PROVE  Shape(Past(s))'
<1>1. PICK n, top, t : n = Len(tokens) /\ top = toksuper /\ t = Past(s)
  OBVIOUS
<1>2. /\ n \in Nat /\ DOMAIN tokens = 1 .. n /\ DOMAIN tokens' = 1 .. n + 1 /\ Len(tokens') = n + 1
      /\ top \in 0 .. n
      /\ \A i \in 1 .. n :
           /\ tokens[i].parent \in 0 .. i - 1
           /\ tokens'[i].type = tokens[i].type /\ tokens'[i].parent = tokens[i].parent
           /\ tokens'[i].end = tokens[i].end
      /\ tokens'[n + 1] = [type |-> type, start |-> first, end |-> last, size |-> 0, parent |-> top]
  BY <1>1, NewToken
<1>3. tokens'[n + 1].parent = top /\ tokens'[n + 1].size = 0 /\ tokens'[n + 1].end # -1
  BY <1>2
<1>4. /\ Formed'
      /\ \A i \in 1 .. n : IsKey(i)' <=> IsKey(i)
      /\ IsKey(n + 1)' <=> s.at \in {"member", "name"}
      /\ \A p \in 0 .. n : Up(p)' = Up(p)
  BY <1>1, NewFormed
<1>5. /\ s \in Reader /\ t.open = s.open /\ s.at \in {"first", "value", "member", "name"}
      /\ t.at = IF s.at \in {"member", "name"} THEN "colon" ELSE "after"
      /\ \A kind : Inside(t, kind) <=> Inside(s, kind)
  BY <1>1, PastType DEF Fits, Readers, Inside
<1>6. \/ s.at \in {"first", "value"} /\ Inside(s, "array") /\ ~Inside(s, "object") /\ top = Top
      \/ s.at = "value" /\ Inside(s, "object") /\ top = n /\ top # 0 /\ IsKey(top)
      \/ s.at \in {"member", "name"} /\ Inside(s, "object") /\ top = Top
  <2>1. Inside(s, "array") => ~Inside(s, "object")
    BY DEF Inside
  <2>. QED
    BY <1>1, <1>5, <2>1, SuperiorIs
<1>7. Up(top)' = Top' /\ Top' = Top
  BY <1>1, <1>2, <1>4 DEF Top, Up
<1>8. Filled(t)'
  <2>. SUFFICES ASSUME NEW i \in 1 .. n + 1, IsKey(i)'
                PROVE  /\ i < n + 1 => tokens'[i + 1].parent = i
                       /\ i = n + 1 => Inside(t, "object") /\ t.at \in {"colon", "value"}
    BY <1>2 DEF Filled
  <2>1. CASE i = n + 1
    BY <1>2, <1>4, <1>5, <1>6, <2>1
  <2>2. CASE i < n
    <3>1. i \in 1 .. n /\ i \in DOMAIN tokens /\ i + 1 \in 1 .. n /\ IsKey(i)
      BY <1>2, <1>4, <2>2
    <3>2. tokens[i + 1].parent = i
      BY <1>1, <2>2, <3>1 DEF Shape, Filled
    <3>. QED
      BY <1>2, <2>2, <3>1, <3>2
  <2>3. CASE i = n
    <3>1. i \in DOMAIN tokens /\ IsKey(i)
      BY <1>2, <1>4, <2>3
    <3>2. Inside(s, "object") /\ s.at \in {"colon", "value"}
      BY <1>1, <2>3, <3>1 DEF Shape, Filled
    <3>3. top = n
      BY <1>5, <1>6, <3>2
    <3>. QED
      BY <1>2, <1>3, <2>3, <3>3
  <2>. QED
    BY <1>2, <2>1, <2>2, <2>3
<1>9. ASSUME NEW nest, Nested(s, nest)
      PROVE  Nested(t, nest)'
  <2>1. /\ nest \in [1 .. Len(s.open) -> 1 .. n]
        /\ \A k \in 1 .. Len(s.open) :
             /\ IsOpen(tokens'[nest[k]]) /\ tokens'[nest[k]].type = s.open[k]
             /\ Up(tokens[nest[k]].parent)' = IF k = 1 THEN 0 ELSE nest[k - 1]
        /\ \A j, k \in 1 .. Len(s.open) : j < k => nest[j] < nest[k]
        /\ \A i \in 1 .. n : IsOpen(tokens'[i]) => \E k \in 1 .. Len(s.open) : nest[k] = i
        /\ Top = IF s.open = <<>> THEN 0 ELSE nest[Len(s.open)]
    BY <1>1, <1>9, OldNest
  <2>2. nest \in [1 .. Len(t.open) -> 1 .. n + 1]
    BY <1>2, <1>5, <2>1
  <2>3. ~IsOpen(tokens'[n + 1])
    BY <1>3 DEF IsOpen
  <2>4. \A i \in 1 .. n + 1 : IsOpen(tokens'[i]) => \E k \in 1 .. Len(t.open) : nest[k] = i
    <3>1. \A i \in 1 .. n + 1 : i = n + 1 \/ i \in 1 .. n
      BY <1>2
    <3>2. Len(t.open) = Len(s.open)
      BY <1>5
    <3>. QED
      BY <2>1, <2>3, <3>1, <3>2
  <2>. QED
    BY <1>2, <1>5, <1>7, <2>1, <2>2, <2>4 DEF Nested
<1>10. Superior(t)'
  <2>1. t.at # "start" /\ Len(tokens') # 0
    BY <1>2, <1>5
  <2>2. IF Inside(t, "object") /\ t.at \in {"value", "after"}
        THEN toksuper' # 0 /\ IsKey(top)' ELSE toksuper' = Top'
    BY <1>1, <1>2, <1>4, <1>5, <1>6, <1>7
  <2>3. t.at = "colon" => IsKey(n + 1)' /\ tokens'[n + 1].parent = Top' /\ tokens'[n + 1].size = 0
    BY <1>3, <1>4, <1>5, <1>6, <1>7
  <2>4. IsKey(top)' <=> IsKey(toksuper)'
    BY <1>1 DEF IsKey
  <2>5. IsKey(n + 1)' <=> IsKey(Len(tokens))'
    BY <1>2 DEF IsKey
  <2>. QED
    BY <1>2, <1>5, <2>1, <2>2, <2>3, <2>4, <2>5 DEF Superior
<1>11. \E nest : Nested(s, nest)
  BY DEF Shape
<1>. QED
  BY <1>1, <1>4, <1>8, <1>9, <1>10, <1>11 DEF Shape

\* An object or array begins.
LEMMA OpenShape ==
  ASSUME ParserInv, OnPath(toksuper), js' = js, NEW s \in Readers, Shape(s),
         NEW kind \in {"object", "array"}, Fits(s, kind), NEW at \in {"member", "first"},
         NEW first \in 0 .. Len(js),
         tokens' = Linked(kind, first, -1, toksuper), toksuper' = Len(tokens) + 1
  PROVE  Shape(Enters(s, kind, at))'
<1>1. PICK n, m, top, t : n = Len(tokens) /\ m = n + 1 /\ top = toksuper /\ t = Enters(s, kind, at)
  OBVIOUS
<1>2. /\ n \in Nat /\ DOMAIN tokens = 1 .. n /\ DOMAIN tokens' = 1 .. m /\ Len(tokens') = m
      /\ top \in 0 .. n
      /\ \A i \in 1 .. n :
           /\ tokens[i].parent \in 0 .. i - 1
           /\ tokens'[i].type = tokens[i].type /\ tokens'[i].parent = tokens[i].parent
      /\ tokens'[m] = [type |-> kind, start |-> first, end |-> -1, size |-> 0, parent |-> top]
  BY <1>1, NewToken
<1>3. /\ tokens'[m].parent = top /\ tokens'[m].type = kind /\ IsOpen(tokens'[m])
      /\ m \in Nat /\ m # 0 /\ m \in 1 .. m /\ m \notin 1 .. n /\ \A i \in 1 .. m : i = m \/ i \in 1 .. n
  BY <1>1, <1>2 DEF IsOpen
<1>4. /\ Formed'
      /\ \A i \in 1 .. n : IsKey(i)' <=> IsKey(i)
      /\ \A p \in 0 .. n : Up(p)' = Up(p)
  BY <1>1, NewFormed
<1>5. /\ s \in Reader /\ s.at \in {"start", "first", "value"}
      /\ t.open # <<>> /\ t.at = at
      /\ Len(t.open) = Len(s.open) + 1 /\ t.open[Len(s.open) + 1] = kind
      /\ \A k \in 1 .. Len(s.open) : t.open[k] = s.open[k]
      /\ Len(s.open) \in Nat /\ (s.open = <<>> => Len(s.open) = 0) /\ (s.open # <<>> => Len(s.open) # 0)
  <2>1. s \in Reader /\ s.open \in Seq({"object", "array"}) /\ s.at \in {"start", "first", "value"}
    BY DEF Readers, Reader, Fits
  <2>2. Len(s.open) \in Nat /\ (s.open = <<>> <=> Len(s.open) = 0)
    BY <2>1, LenProperties, EmptySeq
  <2>. QED
    BY <1>1, <2>1, <2>2, EntersType
<1>6. Up(m)' = m /\ Top' = m
  BY <1>1, <1>2, <1>3 DEF Top, Up
<1>7. Filled(t)'
  <2>. SUFFICES ASSUME NEW i \in 1 .. m, IsKey(i)'
                PROVE  /\ i < m => tokens'[i + 1].parent = i
                       /\ i = m => Inside(t, "object") /\ t.at \in {"colon", "value"}
    BY <1>2 DEF Filled
  <2>1. i # m
    BY <1>3 DEF IsKey
  <2>2. i \in 1 .. n /\ i \in DOMAIN tokens /\ IsKey(i)
    BY <1>2, <1>3, <1>4, <2>1
  <2>3. CASE i < n
    <3>1. i + 1 \in 1 .. n
      BY <1>2, <2>2, <2>3
    <3>2. Filled(s)
      BY DEF Shape
    <3>3. tokens[i + 1].parent = i
      BY <1>1, <2>2, <2>3, <3>2 DEF Filled
    <3>. QED
      BY <1>2, <2>1, <3>1, <3>3
  <2>4. CASE i = n
    <3>1. Inside(s, "object") /\ s.at \in {"colon", "value"}
      BY <1>1, <2>2, <2>4 DEF Shape, Filled
    <3>2. ~Inside(s, "array") /\ s.at = "value"
      BY <1>5, <3>1 DEF Inside
    <3>3. top = n
      BY <1>1, <3>2, SuperiorIs
    <3>. QED
      BY <1>1, <1>3, <2>1, <2>4, <3>3
  <2>. QED
    BY <1>2, <2>1, <2>2, <2>3, <2>4
<1>8. ASSUME NEW nest, Nested(s, nest)
      PROVE  \E new : Nested(t, new)'
  <2>1. PICK l : l = Len(s.open)
    OBVIOUS
  <2>2. /\ nest \in [1 .. l -> 1 .. n]
        /\ \A k \in 1 .. l :
             /\ IsOpen(tokens'[nest[k]]) /\ tokens'[nest[k]].type = s.open[k]
             /\ Up(tokens[nest[k]].parent)' = IF k = 1 THEN 0 ELSE nest[k - 1]
        /\ \A j, k \in 1 .. l : j < k => nest[j] < nest[k]
        /\ \A i \in 1 .. n : IsOpen(tokens'[i]) => \E k \in 1 .. l : nest[k] = i
        /\ Top = IF s.open = <<>> THEN 0 ELSE nest[l]
    BY <1>1, <1>8, <2>1, OldNest
  <2>3. PICK new : new = [k \in 1 .. l + 1 |-> IF k = l + 1 THEN m ELSE nest[k]]
    OBVIOUS
  <2>4. /\ l \in Nat /\ l + 1 \in 1 .. l + 1
        /\ new[l + 1] = m
        /\ \A k \in 1 .. l : k \in 1 .. l + 1 /\ new[k] = nest[k] /\ new[k] \in 1 .. n
        /\ \A k \in 1 .. l + 1 : k = l + 1 \/ k \in 1 .. l
    <3>1. l \in Nat /\ l + 1 \in 1 .. l + 1
      BY <1>5, <2>1
    <3>2. \A k \in 1 .. l : k \in 1 .. l + 1 /\ k # l + 1
      BY <3>1
    <3>3. \A k \in 1 .. l + 1 : k = l + 1 \/ k \in 1 .. l
      BY <3>1
    <3>4. new[l + 1] = m /\ \A k \in 1 .. l : new[k] = nest[k]
      BY <2>3, <3>1, <3>2
    <3>5. \A k \in 1 .. l : nest[k] \in 1 .. n
      BY <2>2
    <3>. QED
      BY <3>1, <3>2, <3>3, <3>4, <3>5
  <2>5. new \in [1 .. l + 1 -> 1 .. m]
    <3>1. \A k \in 1 .. l + 1 : (IF k = l + 1 THEN m ELSE nest[k]) \in 1 .. m
      <4>1. \A i \in 1 .. n : i \in 1 .. m
        BY <1>1, <1>2
      <4>. QED
        BY <1>3, <2>2, <2>4, <4>1
    <3>. QED
      BY <2>3, <3>1, Zenon
  <2>6. Up(top)' = IF s.open = <<>> THEN 0 ELSE nest[l]
    <3>1. Up(top)' = Up(top)
      BY <1>2, <1>4
    <3>2. Up(top) = Top
      BY <1>1 DEF Top
    <3>. QED
      BY <2>2, <3>1, <3>2
  <2>7. ASSUME NEW k \in 1 .. l + 1
        PROVE  /\ IsOpen(tokens'[new[k]]) /\ tokens'[new[k]].type = t.open[k]
               /\ Up(tokens[new[k]].parent)' = IF k = 1 THEN 0 ELSE new[k - 1]
    <3>1. CASE k = l + 1
      <4>1. IsOpen(tokens'[new[k]]) /\ tokens'[new[k]].type = t.open[k]
        BY <1>3, <1>5, <2>1, <2>4, <3>1
      <4>2. Up(tokens[new[k]].parent)' = Up(top)'
        BY <1>3, <2>4, <3>1 DEF Up
      <4>3. k = 1 <=> s.open = <<>>
        BY <1>5, <2>1, <3>1
      <4>4. k # 1 => new[k - 1] = nest[l]
        BY <2>4, <3>1
      <4>. QED
        BY <2>6, <4>1, <4>2, <4>3, <4>4
    <3>2. CASE k \in 1 .. l
      <4>1. new[k] = nest[k] /\ t.open[k] = s.open[k]
        BY <1>5, <2>1, <2>4, <3>2
      <4>2. k # 1 => new[k - 1] = nest[k - 1]
        BY <2>4, <3>2
      <4>. QED
        BY <2>2, <3>2, <4>1, <4>2
    <3>. QED
      BY <2>4, <3>1, <3>2
  <2>8. \A j, k \in 1 .. l + 1 : j < k => new[j] < new[k]
    <3>. SUFFICES ASSUME NEW j \in 1 .. l + 1, NEW k \in 1 .. l + 1, j < k
                  PROVE  new[j] < new[k]
      OBVIOUS
    <3>1. j \in 1 .. l
      BY <2>4
    <3>2. CASE k = l + 1
      BY <1>1, <1>2, <2>4, <3>1, <3>2
    <3>3. CASE k \in 1 .. l
      BY <2>2, <2>4, <3>1, <3>3
    <3>. QED
      BY <2>4, <3>2, <3>3
  <2>9. \A i \in 1 .. m : IsOpen(tokens'[i]) => \E k \in 1 .. l + 1 : new[k] = i
    <3>. SUFFICES ASSUME NEW i \in 1 .. m, IsOpen(tokens'[i])
                  PROVE  \E k \in 1 .. l + 1 : new[k] = i
      OBVIOUS
    <3>1. CASE i = m
      BY <2>4, <3>1
    <3>2. CASE i \in 1 .. n
      BY <2>2, <2>4, <3>2
    <3>. QED
      BY <1>3, <3>1, <3>2
  <2>10. Top' = IF t.open = <<>> THEN 0 ELSE new[l + 1]
    BY <1>5, <1>6, <2>4
  <2>11. Len(t.open) = l + 1
    BY <1>5, <2>1
  <2>12. Nested(t, new)'
    BY <1>2, <2>5, <2>7, <2>8, <2>9, <2>10, <2>11 DEF Nested
  <2>. QED
    BY <2>12
<1>9. Superior(t)'
  BY <1>1, <1>2, <1>3, <1>5, <1>6 DEF Superior
<1>10. \E nest : Nested(s, nest)
  BY DEF Shape
<1>. QED
  BY <1>1, <1>4, <1>7, <1>8, <1>9, <1>10 DEF Shape

\* Characters that leave the tokens as they are.
LEMMA SameNest ==
  ASSUME ParserInv, NEW s \in Readers, Shape(s), tokens' = tokens, Top' = Top,
         NEW t, t.open = s.open
  PROVE  /\ Formed' /\ \E nest : Nested(t, nest)'
         /\ \A i : IsKey(i)' <=> IsKey(i)
<1>1. Formed' /\ \A i : IsKey(i)' <=> IsKey(i)
  BY DEF Shape, Formed, IsKey
<1>2. PICK nest : Nested(s, nest)
  BY DEF Shape
<1>3. Nested(t, nest)'
  BY <1>2 DEF Nested, Up
<1>. QED
  BY <1>1, <1>3

LEMMA SameShape ==
  ASSUME ParserInv, NEW s \in Readers, Shape(s), tokens' = tokens, toksuper' = toksuper
  PROVE  Shape(s)'
<1>1. Top' = Top
  BY DEF Top, Up
<1>2. Formed' /\ (\E nest : Nested(s, nest)') /\ \A i : IsKey(i)' <=> IsKey(i)
  BY <1>1, SameNest
<1>3. IsKey(Len(tokens))' <=> IsKey(Len(tokens))
  BY DEF IsKey
<1>4. IsKey(toksuper)' <=> IsKey(toksuper)
  BY DEF IsKey
<1>5. Filled(s)' /\ Superior(s)'
  BY <1>1, <1>2, <1>3, <1>4 DEF Shape, Filled, Superior
<1>. QED
  BY <1>2, <1>5 DEF Shape

LEMMA ColonShape ==
  ASSUME ParserInv, NEW s \in Readers, Shape(s), s.at = "colon",
         tokens' = tokens, toksuper' = Len(tokens)
  PROVE  Shape([s EXCEPT !.at = "value"])'
<1>1. PICK t, n : t = [s EXCEPT !.at = "value"] /\ n = Len(tokens)
  OBVIOUS
<1>2. s \in Reader /\ Sane(s) /\ DOMAIN tokens = 1 .. n /\ n \in Nat
  BY <1>1, TokenTypes DEF Readers, ParserInv, TypeOK
<1>3. /\ t.open = s.open /\ t.at = "value" /\ \A kind : Inside(t, kind) <=> Inside(s, kind)
      /\ Inside(s, "object")
  BY <1>1, <1>2 DEF Reader, Inside, Sane
<1>4. n # 0 /\ IsKey(n) /\ tokens[n].parent = Top /\ tokens[n].size = 0
  BY <1>1 DEF Shape, Superior
<1>5. Top' = Top
  <2>1. Top' = tokens[n].parent
    BY <1>1, <1>4 DEF Top, Up, IsKey
  <2>. QED
    BY <1>4, <2>1
<1>6. Formed' /\ (\E nest : Nested(t, nest)') /\ \A i : IsKey(i)' <=> IsKey(i)
  BY <1>3, <1>5, SameNest
<1>7. Filled(t)'
  <2>1. Filled(s)
    BY DEF Shape
  <2>. QED
    BY <1>3, <1>6, <2>1 DEF Filled
<1>8. IsKey(toksuper)' /\ tokens'[toksuper'].size = 0
  BY <1>1, <1>4 DEF IsKey
<1>9. Superior(t)'
  BY <1>1, <1>3, <1>4, <1>8 DEF Superior
<1>. QED
  BY <1>1, <1>6, <1>7, <1>9 DEF Shape

LEMMA CommaShape ==
  ASSUME ParserInv, NEW s \in Readers, Shape(s), s.at = "after", Filling,
         NEW at, \/ Inside(s, "object") /\ at = "name"
                 \/ Inside(s, "array") /\ at = "value",
         tokens' = tokens,
         toksuper' = IF Under({"string", "primitive"}) THEN tokens[toksuper].parent ELSE toksuper
  PROVE  Shape([s EXCEPT !.at = at])'
<1>1. PICK t : t = [s EXCEPT !.at = at]
  OBVIOUS
<1>2. s \in Reader /\ DOMAIN tokens = 1 .. Len(tokens) /\ Len(tokens) \in Nat /\ TypeOK
  BY TokenTypes DEF Readers, ParserInv, TypeOK
<1>3. t.open = s.open /\ t.at = at /\ \A kind : Inside(t, kind) <=> Inside(s, kind)
  BY <1>1, <1>2 DEF Reader, Inside
<1>4. \A kind : Inside(s, kind) => tokens[Top].type = kind /\ Top # 0
  BY <1>2, TopIs
<1>5. Superior(s) /\ Filled(s)
  BY DEF Shape
<1>6. toksuper' = Top /\ tokens[Top].type # "string"
  <2>1. CASE Inside(s, "object")
    <3>1. toksuper # 0 /\ IsKey(toksuper)
      BY <1>5, <2>1 DEF Superior
    <3>. QED
      BY <1>4, <2>1, <3>1 DEF IsKey, Under, Top, Up
  <2>2. CASE Inside(s, "array") /\ ~Inside(s, "object")
    <3>1. toksuper = Top
      BY <1>5, <2>2 DEF Superior
    <3>. QED
      BY <1>4, <2>2, <3>1 DEF Under
  <2>. QED
    BY <2>1, <2>2
<1>7. Top' = Top
  BY <1>6 DEF Top, Up
<1>8. Formed' /\ (\E nest : Nested(t, nest)') /\ \A i : IsKey(i)' <=> IsKey(i)
  BY <1>3, <1>7, SameNest
<1>9. Filled(t)'
  BY <1>3, <1>5, <1>8 DEF Filled
<1>10. at = "name" \/ ~Inside(s, "object")
  BY DEF Inside
<1>11. Superior(t)'
  BY <1>3, <1>5, <1>6, <1>7, <1>10 DEF Superior
<1>. QED
  BY <1>1, <1>8, <1>9, <1>11 DEF Shape

\* The innermost object or array ends.
LEMMA CloseShape ==
  ASSUME ParserInv, NEW s \in Readers, Shape(s), s.open # <<>>, s.at \notin {"colon", "value"},
         NEW last \in 0 .. Len(js), tokens' = [tokens EXCEPT ![Top].end = last],
         toksuper' = tokens[Top].parent
  PROVE  Shape(Leaves(s))'
<1>1. PICK t, n, top, p, l : /\ t = Leaves(s) /\ n = Len(tokens) /\ top = Top /\ p = tokens[top].parent
                             /\ l = Len(s.open)
  OBVIOUS
<1>2. /\ s \in Reader /\ DOMAIN tokens = 1 .. n /\ n \in Nat /\ TypeOK
      /\ \A i \in 1 .. n : tokens[i] \in Token /\ tokens[i].parent \in Nat /\ tokens[i].parent < i
  BY <1>1, TokenTypes DEF Readers, ParserInv, TypeOK, Preorder
<1>3. /\ t.at = "after" /\ l \in Nat \ {0} /\ Len(t.open) = l - 1
      /\ \A k \in 1 .. l - 1 : t.open[k] = s.open[k]
  BY <1>1, <1>2, LeavesType
<1>4. top \in 1 .. n /\ tokens[top].type \in {"object", "array"} /\ top # 0
  BY <1>1, <1>2, TopIs
<1>5. /\ DOMAIN tokens' = 1 .. n /\ Len(tokens') = n
      /\ \A i \in 1 .. n :
           /\ tokens'[i].type = tokens[i].type /\ tokens'[i].parent = tokens[i].parent
           /\ tokens'[i].end = IF i = top THEN last ELSE tokens[i].end
  <2>. DEFINE e == [tokens[top] EXCEPT !.end = last]
  <2>1. tokens' = [tokens EXCEPT ![top] = e]
    BY <1>1
  <2>2. e.type = tokens[top].type /\ e.parent = tokens[top].parent /\ e.end = last
    BY <1>2, <1>4 DEF Token
  <2>. HIDE DEF e
  <2>3. Len(tokens') = Len(tokens)
    BY <2>1
  <2>. QED
    BY <1>1, <1>2, <1>4, <2>1, <2>2, <2>3
<1>6. \A i \in 1 .. n : i = top \/ (IsOpen(tokens'[i]) <=> IsOpen(tokens[i]))
  BY <1>5 DEF IsOpen
<1>7. ~IsOpen(tokens'[top])
  BY <1>4, <1>5 DEF IsOpen
<1>8. \A i \in 1 .. n : IsKey(i)' <=> IsKey(i)
  BY <1>2, <1>5 DEF IsKey
<1>9. \A q \in 0 .. n : Up(q)' = Up(q)
  BY <1>5 DEF Up
<1>10. Formed /\ Filled(s)
  BY DEF Shape
<1>11. Formed'
  <2>. SUFFICES ASSUME NEW i \in 1 .. n, NEW q, q = tokens'[i].parent
                PROVE  /\ q = 0 => i = 1 /\ tokens'[i].type \in {"object", "array"}
                       /\ q # 0 => /\ tokens'[q].type # "primitive"
                                   /\ tokens'[q].type = "object" => tokens'[i].type = "string"
                                   /\ tokens'[q].type = "string" => i = q + 1 /\ IsKey(q)'
    BY <1>5 DEF Formed
  <2>1. q = tokens[i].parent /\ (q # 0 => q \in 1 .. n)
    BY <1>2, <1>5
  <2>2. /\ q = 0 => i = 1 /\ tokens[i].type \in {"object", "array"}
        /\ q # 0 => /\ tokens[q].type # "primitive"
                    /\ tokens[q].type = "object" => tokens[i].type = "string"
                    /\ tokens[q].type = "string" => i = q + 1 /\ IsKey(q)
    BY <1>2, <1>10, <2>1 DEF Formed
  <2>. QED
    BY <1>5, <1>8, <2>1, <2>2
<1>12. Filled(t)'
  <2>. SUFFICES ASSUME NEW i \in 1 .. n, IsKey(i)'
                PROVE  i < n /\ tokens'[i + 1].parent = i
    BY <1>5 DEF Filled
  <2>1. i \in DOMAIN tokens /\ IsKey(i)
    BY <1>2, <1>8
  <2>2. i # n
    BY <1>1, <1>10, <2>1 DEF Filled
  <2>3. i < n /\ i + 1 \in 1 .. n
    BY <1>2, <2>2
  <2>4. tokens[i + 1].parent = i
    BY <1>1, <1>10, <2>1, <2>3 DEF Filled
  <2>. QED
    BY <1>5, <2>3, <2>4
<1>13. PICK nest : Nested(s, nest)
  BY DEF Shape
<1>14. /\ nest \in [1 .. l -> 1 .. n]
       /\ \A k \in 1 .. l :
            /\ IsOpen(tokens[nest[k]]) /\ tokens[nest[k]].type = s.open[k]
            /\ Up(tokens[nest[k]].parent) = IF k = 1 THEN 0 ELSE nest[k - 1]
       /\ \A j, k \in 1 .. l : j < k => nest[j] < nest[k]
       /\ \A i \in 1 .. n : IsOpen(tokens[i]) => \E k \in 1 .. l : nest[k] = i
       /\ top = nest[l]
  BY <1>1, <1>2, <1>13 DEF Nested
<1>15. /\ l \in 1 .. l /\ \A k \in 1 .. l - 1 : k \in 1 .. l /\ k < l
       /\ \A k \in 1 .. l : k = l \/ k \in 1 .. l - 1
       /\ (t.open = <<>> <=> l = 1) /\ (l # 1 => l - 1 \in 1 .. l - 1)
  <2>1. t.open \in Seq({"object", "array"})
    BY <1>1, <1>2, LeavesType DEF Reader
  <2>2. t.open = <<>> <=> Len(t.open) = 0
    BY <2>1, EmptySeq
  <2>. QED
    BY <1>3, <2>2
<1>16. Up(p) = IF l = 1 THEN 0 ELSE nest[l - 1]
  BY <1>1, <1>14, <1>15
<1>17. p \in 0 .. n /\ Top' = Up(p)
  <2>1. p \in 0 .. n
    BY <1>1, <1>2, <1>4
  <2>2. Top' = Up(p)'
    BY <1>1 DEF Top, Up
  <2>. QED
    BY <1>9, <2>1, <2>2
<1>18. PICK new : new = [k \in 1 .. l - 1 |-> nest[k]]
  OBVIOUS
<1>19. Nested(t, new)'
  <2>1. new \in [1 .. l - 1 -> 1 .. n] /\ \A k \in 1 .. l - 1 : new[k] = nest[k] /\ new[k] \in 1 .. n /\ new[k] # top
    <3>1. \A k \in 1 .. l - 1 : nest[k] \in 1 .. n /\ nest[k] < top
      BY <1>14, <1>15
    <3>2. new \in [1 .. l - 1 -> 1 .. n] /\ \A k \in 1 .. l - 1 : new[k] = nest[k]
      BY <1>18, <3>1
    <3>. QED
      BY <1>4, <3>1, <3>2
  <2>2. ASSUME NEW k \in 1 .. l - 1
        PROVE  /\ IsOpen(tokens'[new[k]]) /\ tokens'[new[k]].type = t.open[k]
               /\ Up(tokens[new[k]].parent)' = IF k = 1 THEN 0 ELSE new[k - 1]
    <3>1. PICK i, q : i = nest[k] /\ q = tokens[i].parent
      OBVIOUS
    <3>2. i \in 1 .. n /\ i # top /\ i = new[k] /\ k \in 1 .. l /\ q \in 0 .. n
      BY <1>2, <1>15, <2>1, <3>1
    <3>0. /\ IsOpen(tokens[i]) /\ tokens[i].type = s.open[k]
          /\ Up(q) = IF k = 1 THEN 0 ELSE nest[k - 1]
      <4>1. k \in 1 .. l
        BY <3>2
      <4>. QED
        BY <1>14, <3>1, <4>1, Zenon
    <3>3. IsOpen(tokens'[i]) /\ tokens'[i].type = t.open[k]
      BY <1>3, <1>5, <1>6, <3>0, <3>2
    <3>4. Up(q)' = IF k = 1 THEN 0 ELSE nest[k - 1]
      BY <1>9, <3>0, <3>2
    <3>5. Up(tokens[new[k]].parent)' = Up(q)'
      BY <1>5, <3>1, <3>2 DEF Up
    <3>6. k # 1 => k - 1 \in 1 .. l - 1 /\ new[k - 1] = nest[k - 1]
      BY <1>3, <2>1
    <3>. QED
      BY <3>2, <3>3, <3>4, <3>5, <3>6
  <2>3. \A j, k \in 1 .. l - 1 : j < k => new[j] < new[k]
    BY <1>14, <1>15, <2>1
  <2>4. \A i \in 1 .. n : IsOpen(tokens'[i]) => \E k \in 1 .. l - 1 : new[k] = i
    <3>. SUFFICES ASSUME NEW i \in 1 .. n, IsOpen(tokens'[i])
                  PROVE  \E k \in 1 .. l - 1 : new[k] = i
      OBVIOUS
    <3>1. i # top /\ IsOpen(tokens[i])
      BY <1>6, <1>7
    <3>2. PICK k \in 1 .. l : nest[k] = i
      BY <1>14, <3>1
    <3>3. k \in 1 .. l - 1
      BY <1>14, <1>15, <3>1, <3>2
    <3>. QED
      BY <2>1, <3>2, <3>3
  <2>5. Top' = IF t.open = <<>> THEN 0 ELSE new[l - 1]
    BY <1>15, <1>16, <1>17, <2>1
  <2>. QED
    BY <1>3, <1>5, <2>1, <2>2, <2>3, <2>4, <2>5 DEF Nested
<1>20. Superior(t)'
  <2>1. p # 0 => p \in 1 .. n /\ tokens[p].type # "primitive" /\ tokens[p].type # "object"
                 /\ (tokens[p].type = "string" => IsKey(p))
    BY <1>1, <1>2, <1>4, <1>10, <1>17 DEF Formed
  <2>2. p = 0 => t.open = <<>>
    <3>1. l # 1 => nest[l - 1] # 0
      BY <1>2, <1>14, <1>15
    <3>. QED
      BY <1>15, <1>16, <3>1 DEF Up
  <2>3. t.open # <<>> => \A kind : Inside(t, kind) <=> tokens[Up(p)].type = kind
    <3>. SUFFICES ASSUME t.open # <<>>
                  PROVE  \A kind : Inside(t, kind) <=> tokens[Up(p)].type = kind
      OBVIOUS
    <3>1. l - 1 \in 1 .. l /\ l - 1 \in 1 .. l - 1 /\ Up(p) = nest[l - 1]
      BY <1>15, <1>16
    <3>2. tokens[Up(p)].type = t.open[l - 1]
      BY <1>3, <1>14, <3>1
    <3>. QED
      BY <1>3, <3>2 DEF Inside, Last
  <2>4. IF Inside(t, "object") THEN p # 0 /\ IsKey(p) ELSE p = Up(p)
    <3>1. CASE p # 0 /\ tokens[p].type = "string"
      <4>1. IsKey(p) /\ tokens[Up(p)].type = "object" /\ Up(p) # 0
        BY <2>1, <3>1 DEF IsKey, Up
      <4>2. t.open # <<>>
        BY <1>15, <1>16, <4>1
      <4>. QED
        BY <2>3, <3>1, <4>1, <4>2
    <3>2. CASE p # 0 /\ tokens[p].type # "string"
      <4>1. Up(p) = p
        BY <3>2 DEF Up
      <4>2. ~Inside(t, "object")
        BY <2>1, <2>3, <3>2, <4>1 DEF Inside
      <4>. QED
        BY <4>1, <4>2
    <3>3. CASE p = 0
      BY <2>2, <3>3 DEF Inside, Up
    <3>. QED
      BY <3>1, <3>2, <3>3
  <2>5. p # 0 /\ IsKey(p) => IsKey(toksuper)'
    <3>1. p # 0 /\ IsKey(p) => IsKey(p)'
      BY <1>8, <2>1
    <3>2. IsKey(p)' <=> IsKey(toksuper)'
      BY <1>1 DEF IsKey
    <3>. QED
      BY <3>1, <3>2
  <2>6. toksuper' = p /\ n # 0
    BY <1>1, <1>4
  <2>. QED
    BY <1>3, <1>5, <1>17, <2>4, <2>5, <2>6 DEF Superior
<1>. QED
  BY <1>1, <1>11, <1>12, <1>19, <1>20 DEF Shape

-------------------------------------------------------------------------------
(* A pass over a document.                                                 *)

\* In a loop of jsmn_parse.
Progress ==
  /\ Lexes /\ loop # "returned"
  /\ State.at # "start" => count > 0
  /\ Filling => \A s : s = State => Shape(s)
  /\ loop = "close" => \A i \in DOMAIN tokens : IsOpen(tokens[i]) => i <= token

\* What is known of a pass, as long as the text can still be a document.
DocumentInv ==
  /\ loop = "returned" /\ ret <= 0 => R[Len(js)] # Whole
  /\ Alive /\ Parsing => loop = "returned" \/ Progress
  /\ Alive /\ (Done \/ (Filling /\ loop = "returned" /\ ret > 0)) => R[Len(js)] = Whole /\ Shape(Whole)

LEMMA SameReadings ==
  ASSUME js' = js
  PROVE  R' = R /\ (Alive' <=> Alive)
BY DEF R, Alive

\* The main loop goes on in state t.
LEMMA MainGoesOn ==
  ASSUME js' = js, pass' = pass, loop' = "main",
         NEW p, pos' = p, NEW t, t = Settled(R[p]),
         R[p].lex = "none" \/ (R[p].lex = "primitive" /\ p < Len(js) /\ js[p + 1] \in Delimiter),
         t.at # "start" => count' > 0,
         Filling => Shape(t)'
  PROVE  Progress'
<1>1. R' = R
  BY SameReadings
<1>2. State' = t
  BY <1>1 DEF State, Settled
<1>3. Lexes'
  BY <1>1 DEF Lexes, AtEnd, More, c, Delimiter, Space, Closing
<1>4. (\A s : s = State => Shape(s))' <=> Shape(t)'
  BY <1>2
<1>. QED
  BY <1>2, <1>3, <1>4 DEF Progress, Filling

\* It does so after a character that is read.
LEMMA CharGoesOn ==
  ASSUME TypeOK, Alive, Lexes, loop \in {"main", "close"}, ~AtEnd,
         js' = js, pass' = pass, loop' = "main", pos' = pos + 1,
         NEW t, t = Between(State, c), t.lex = "none",
         t.at # "start" => count' > 0,
         Filling => Shape(t)'
  PROVE  Progress'
<1>1. PICK p : p = pos + 1
  OBVIOUS
<1>2. R[p] = t
  BY <1>1, MainReads
<1>3. t = Settled(R[p])
  BY <1>2 DEF Settled
<1>. QED
  BY <1>1, <1>2, <1>3, MainGoesOn

\* What Progress says, for a state that is named.
LEMMA ProgressIs ==
  ASSUME ParserInv, Alive, Parsing, Progress, NEW s, s = State
  PROVE  /\ TypeOK /\ js \in Seq(Char) /\ Len(js) \in Nat /\ pos \in 0 .. Len(js) /\ start \in 0 .. Len(js)
         /\ count \in Nat
         /\ s \in Readers /\ s \in Reader /\ Sane(s) /\ Lexes /\ OnPath(toksuper)
         /\ s.at # "start" => count > 0
         /\ Filling => Shape(s)
<1>1. TypeOK /\ OnPath(toksuper)
  BY DEF ParserInv
<1>2. js \in Seq(Char) /\ Len(js) \in Nat /\ pos \in 0 .. Len(js) /\ start \in 0 .. Len(js) /\ count \in Nat
  BY <1>1, LenProperties DEF TypeOK
<1>3. s \in Readers /\ s \in Reader /\ Sane(s)
  BY <1>1, StateType
<1>. QED
  BY <1>1, <1>2, <1>3 DEF Progress

LEMMA OpenProgress ==
  ASSUME ParserInv, Alive, Parsing, Progress, Open, ~ (loop' = "returned" /\ ret' = NOMEM)
  PROVE  Progress'
<1>1. PICK s : s = State
  OBVIOUS
<1>2. /\ TypeOK /\ js \in Seq(Char) /\ Len(js) \in Nat /\ pos \in 0 .. Len(js) /\ count \in Nat
      /\ s \in Readers /\ s \in Reader /\ Lexes /\ OnPath(toksuper) /\ (Filling => Shape(s))
  BY <1>1, ProgressIs
<1>3. loop = "main" /\ ~AtEnd /\ c \in {"{", "["}
  BY DEF Open, Reading, Opening
<1>4. /\ Between(s, c) # Error /\ c \in Char
  BY <1>1, <1>2, <1>3, MainReads
<1>. DEFINE kind == IF c = "{" THEN "object" ELSE "array"
            at == IF c = "{" THEN "member" ELSE "first"
<1>5. PICK k, a : k = kind /\ a = at
  OBVIOUS
<1>6. /\ s.at \in {"start", "first", "value"} /\ Between(s, c) = Enters(s, k, a)
      /\ k \in {"object", "array"} /\ a \in {"member", "first"}
  BY <1>2, <1>3, <1>4, <1>5, BetweenRight
<1>7. PICK t : t = Enters(s, k, a)
  OBVIOUS
<1>8. t.lex = "none"
  BY <1>2, <1>6, <1>7, EntersType
<1>9. ~Full
  BY DEF Open, Return
<1>10. ~Under({"object"})
  <2>. SUFFICES ASSUME Filling
                PROVE  ~ (toksuper # 0 /\ tokens[toksuper].type = "object")
    BY DEF Under
  <2>1. Shape(s)
    BY <1>2
  <2>. QED
    BY <1>2, <1>6, <2>1, SuperiorIs DEF IsKey
<1>11. /\ AddToken(k, pos, -1)
       /\ toksuper' = IF Filling THEN Len(tokens) + 1 ELSE toksuper
       /\ count' = count + 1 /\ loop' = "main" /\ pos' = pos + 1 /\ js' = js /\ pass' = pass
  BY <1>5, <1>9, <1>10 DEF Open, GoOn
<1>12. ASSUME Filling
       PROVE  Shape(t)'
  <2>1. tokens' = Linked(k, pos, -1, toksuper) /\ toksuper' = Len(tokens) + 1
    BY <1>11, <1>12 DEF AddToken
  <2>2. Fits(s, k)
    BY <1>6 DEF Fits
  <2>3. Shape(Enters(s, k, a))'
    BY <1>2, <1>6, <1>11, <1>12, <2>1, <2>2, OpenShape
  <2>4. Shape(t)' <=> Shape(Enters(s, k, a))'
    BY <1>7
  <2>. QED
    BY <2>3, <2>4
<1>13. count' > 0
  BY <1>2, <1>11
<1>. QED
  BY <1>1, <1>2, <1>3, <1>6, <1>7, <1>8, <1>11, <1>12, <1>13, CharGoesOn

LEMMA WhiteProgress ==
  ASSUME ParserInv, Alive, Parsing, Progress, White
  PROVE  Progress'
<1>1. PICK s : s = State
  OBVIOUS
<1>2. /\ TypeOK /\ s \in Readers /\ s \in Reader /\ Lexes /\ (Filling => Shape(s))
      /\ s.at # "start" => count > 0
  BY <1>1, ProgressIs
<1>3. /\ loop = "main" /\ ~AtEnd /\ c = " "
      /\ js' = js /\ pass' = pass /\ loop' = "main" /\ pos' = pos + 1
      /\ tokens' = tokens /\ toksuper' = toksuper /\ count' = count
  BY DEF White, Reading, Space, Skip, GoOn
<1>4. Between(s, c) # Error /\ c \in Char /\ s.lex = "none"
  BY <1>1, <1>2, <1>3, MainReads
<1>5. Between(s, c) = s
  BY <1>2, <1>3, <1>4, BetweenRight
<1>6. Filling => Shape(s)'
  BY <1>2, <1>3, SameShape
<1>. QED
  BY <1>1, <1>2, <1>3, <1>4, <1>5, <1>6, CharGoesOn

LEMMA ColonProgress ==
  ASSUME ParserInv, Alive, Parsing, Progress, Colon
  PROVE  Progress'
<1>1. PICK s : s = State
  OBVIOUS
<1>2. /\ TypeOK /\ s \in Readers /\ s \in Reader /\ Lexes /\ (Filling => Shape(s))
      /\ s.at # "start" => count > 0
  BY <1>1, ProgressIs
<1>3. /\ loop = "main" /\ ~AtEnd /\ c = ":"
      /\ js' = js /\ pass' = pass /\ loop' = "main" /\ pos' = pos + 1
      /\ tokens' = tokens /\ toksuper' = Len(tokens) /\ count' = count
  BY DEF Colon, Reading, SetSuper, GoOn
<1>4. Between(s, c) # Error /\ c \in Char /\ s.lex = "none"
  BY <1>1, <1>2, <1>3, MainReads
<1>5. PICK t : t = [s EXCEPT !.at = "value"]
  OBVIOUS
<1>6. s.at = "colon" /\ Between(s, c) = t
  BY <1>2, <1>3, <1>4, <1>5, BetweenRight
<1>7. t.lex = "none"
  BY <1>2, <1>4, <1>5 DEF Reader
<1>8. Filling => Shape(t)'
  <2>1. Filling => Shape([s EXCEPT !.at = "value"])'
    BY <1>2, <1>3, <1>6, ColonShape
  <2>2. Shape(t)' <=> Shape([s EXCEPT !.at = "value"])'
    BY <1>5
  <2>. QED
    BY <2>1, <2>2
<1>9. count' > 0
  BY <1>2, <1>3, <1>6
<1>. QED
  BY <1>1, <1>2, <1>3, <1>6, <1>7, <1>8, <1>9, CharGoesOn

LEMMA CommaProgress ==
  ASSUME ParserInv, Alive, Parsing, Progress, Comma
  PROVE  Progress'
<1>1. PICK s : s = State
  OBVIOUS
<1>2. /\ TypeOK /\ s \in Readers /\ s \in Reader /\ Lexes /\ (Filling => Shape(s))
      /\ s.at # "start" => count > 0
  BY <1>1, ProgressIs
<1>3. /\ loop = "main" /\ ~AtEnd /\ c = ","
      /\ js' = js /\ pass' = pass /\ loop' = "main" /\ pos' = pos + 1
      /\ tokens' = tokens /\ count' = count
      /\ toksuper' = IF Under({"string", "primitive"}) THEN tokens[toksuper].parent ELSE toksuper
  BY DEF Comma, Reading, SetSuper, GoOn
<1>4. Between(s, c) # Error /\ c \in Char /\ s.lex = "none"
  BY <1>1, <1>2, <1>3, MainReads
<1>5. /\ s.at = "after"
      /\ \/ Inside(s, "object") /\ Between(s, c) = [s EXCEPT !.at = "name"]
         \/ Inside(s, "array") /\ Between(s, c) = [s EXCEPT !.at = "value"]
  BY <1>2, <1>3, <1>4, BetweenRight
<1>6. PICK at, t : /\ \/ Inside(s, "object") /\ at = "name"
                      \/ Inside(s, "array") /\ at = "value"
                   /\ t = [s EXCEPT !.at = at] /\ Between(s, c) = t
  BY <1>5
<1>7. t.lex = "none"
  BY <1>2, <1>4, <1>6 DEF Reader
<1>8. Filling => Shape(t)'
  <2>1. Filling => Shape([s EXCEPT !.at = at])'
    BY <1>2, <1>3, <1>5, <1>6, CommaShape
  <2>2. Shape(t)' <=> Shape([s EXCEPT !.at = at])'
    BY <1>6
  <2>. QED
    BY <2>1, <2>2
<1>9. count' > 0
  BY <1>2, <1>3, <1>5
<1>. QED
  BY <1>1, <1>2, <1>3, <1>6, <1>7, <1>8, <1>9, CharGoesOn

\* A closing bracket that is read.
LEMMA ClosingIs ==
  ASSUME ParserInv, Alive, Parsing, Progress, loop \in {"main", "close"}, ~AtEnd, c \in Closing,
         NEW s, s = State
  PROVE  /\ Between(s, c) = Leaves(s) /\ s.open # <<>> /\ Leaves(s).lex = "none" /\ s.at \in {"member", "first", "after"}
         /\ Inside(s, IF c = "}" THEN "object" ELSE "array")
         /\ count > 0 /\ pos < Len(js)
<1>1. /\ TypeOK /\ s \in Readers /\ s \in Reader /\ Lexes
      /\ s.at # "start" => count > 0
  BY ProgressIs
<1>2. Between(s, c) # Error /\ c \in Char /\ pos < Len(js)
  BY <1>1, MainReads
<1>3. c \in {"}", "]"}
  BY DEF Closing
<1>4. /\ Between(s, c) = Leaves(s) /\ s.at \in {"member", "first", "after"}
      /\ Inside(s, IF c = "}" THEN "object" ELSE "array")
  BY <1>1, <1>2, <1>3, BetweenRight
<1>5. s.open # <<>>
  BY <1>4 DEF Inside
<1>6. Leaves(s).lex = "none"
  BY <1>1, <1>5, LeavesType
<1>. QED
  BY <1>1, <1>2, <1>4, <1>5, <1>6

LEMMA CloseProgress ==
  ASSUME ParserInv, Alive, Parsing, Progress, Close
  PROVE  Progress'
<1>1. PICK s, t : s = State /\ t = Leaves(s)
  OBVIOUS
<1>2. /\ TypeOK /\ s \in Readers /\ s \in Reader /\ Lexes /\ (Filling => Shape(s))
  BY <1>1, ProgressIs
<1>3. loop = "main" /\ ~AtEnd /\ c \in Closing
  BY DEF Close, Reading
<1>4. Between(s, c) = t /\ t.lex = "none" /\ s.at \in {"member", "first", "after"} /\ count > 0
  BY <1>1, <1>3, ClosingIs
<1>5. CASE ~Filling
  <2>1. js' = js /\ pass' = pass /\ loop' = "main" /\ pos' = pos + 1 /\ count' = count
    BY <1>5 DEF Close, Skip, GoOn
  <2>. QED
    BY <1>1, <1>2, <1>3, <1>4, <1>5, <2>1, CharGoesOn
<1>6. CASE Filling
  <2>1. tokens # <<>>
    <3>1. Len(tokens) # 0
      BY <1>2, <1>4, <1>6 DEF Shape, Superior
    <3>. QED
      BY <3>1
  <2>2. /\ token' = Len(tokens) /\ loop' = "close"
        /\ UNCHANGED <<js, pass, pos, toksuper, tokens, num_tokens, count, start, ret>>
    BY <1>6, <2>1 DEF Close
  <2>3. R' = R /\ State' = State
    <3>1. R' = R
      BY <2>2, SameReadings
    <3>. QED
      BY <1>3, <2>2, <3>1 DEF State
  <2>4. Lexes'
    BY <1>2, <1>3, <2>2, <2>3 DEF Lexes, AtEnd, More, c
  <2>5. (\A x : x = State => Shape(x))'
    <3>1. Shape(s)'
      <4>1. Shape(s)
        BY <1>2, <1>6
      <4>. QED
        BY <1>2, <2>2, <4>1, SameShape
    <3>. QED
      BY <1>1, <2>3, <3>1
  <2>6. \A i \in DOMAIN tokens' : i <= token'
    BY <1>2, <2>2, TokenTypes DEF TypeOK
  <2>. QED
    BY <1>4, <2>2, <2>3, <2>4, <2>5, <2>6 DEF Progress
<1>. QED
  BY <1>5, <1>6

\* The search for the innermost open token is at this one or at one inside it.
LEMMA SearchIs ==
  ASSUME ParserInv, TokensCounted, Alive, Parsing, Progress, loop = "close", NEW s, s = State
  PROVE  /\ Filling /\ ~AtEnd /\ c \in Closing
         /\ Top \in 1 .. Len(tokens) /\ IsOpen(tokens[Top])
         /\ tokens[Top].type = IF c = "}" THEN "object" ELSE "array"
         /\ \A i \in DOMAIN tokens : IsOpen(tokens[i]) => i <= Top
         /\ token \in 1 .. Len(tokens) /\ Len(tokens) \in Nat /\ Top <= token
         /\ OnPath(Top)
<1>1. Filling /\ ~AtEnd /\ c \in Closing
  BY DEF TokensCounted
<1>2. /\ TypeOK /\ s \in Reader /\ Shape(s) /\ OnPath(toksuper)
  BY <1>1, ProgressIs
<1>3. /\ s.open # <<>> /\ Inside(s, IF c = "}" THEN "object" ELSE "array")
  BY <1>1, ClosingIs
<1>4. /\ Top \in DOMAIN tokens /\ IsOpen(tokens[Top])
      /\ \A kind : Inside(s, kind) => tokens[Top].type = kind
      /\ \A i \in DOMAIN tokens : IsOpen(tokens[i]) => i <= Top
  BY <1>2, <1>3, TopIs
<1>5. DOMAIN tokens = 1 .. Len(tokens) /\ Len(tokens) \in Nat
  BY <1>2, TokenTypes DEF TypeOK
<1>6. token \in 1 .. Len(tokens)
  BY DEF ParserInv, Loops, OnPath
<1>7. Top <= token
  BY <1>4 DEF Progress
<1>8. OnPath(Top)
  <2>1. CASE toksuper # 0 /\ tokens[toksuper].type = "string"
    <3>1. toksuper \in DOMAIN tokens
      BY <1>2, <1>5, <2>1 DEF OnPath
    <3>2. OnPath(tokens[toksuper].parent)
      BY <1>2, <3>1, ParentOnPath DEF ParserInv, TypeOK
    <3>. QED
      BY <2>1, <3>2 DEF Top, Up
  <2>2. CASE ~ (toksuper # 0 /\ tokens[toksuper].type = "string")
    BY <1>2, <2>2 DEF Top, Up
  <2>. QED
    BY <2>1, <2>2
<1>. QED
  BY <1>1, <1>3, <1>4, <1>5, <1>6, <1>7, <1>8

LEMMA CloseUpProgress ==
  ASSUME ParserInv, TokensCounted, Alive, Parsing, Progress, CloseUp
  PROVE  Progress'
<1>1. PICK s : s = State
  OBVIOUS
<1>2. loop = "close" /\ ~IsOpen(tokens[token])
  BY DEF CloseUp
<1>3. /\ TypeOK /\ s \in Readers /\ Lexes /\ (Filling => Shape(s)) /\ (s.at # "start" => count > 0)
  BY <1>1, ProgressIs
<1>4. /\ Filling /\ Top \in 1 .. Len(tokens) /\ IsOpen(tokens[Top])
      /\ \A i \in DOMAIN tokens : IsOpen(tokens[i]) => i <= Top
      /\ token \in 1 .. Len(tokens) /\ Len(tokens) \in Nat /\ Top <= token
      /\ OnPath(Top)
  BY <1>1, <1>2, SearchIs
<1>5. DOMAIN tokens = 1 .. Len(tokens) /\ tokens[token].parent \in Nat
  BY <1>3, <1>4, TokenTypes DEF TypeOK
<1>6. Top < token
  BY <1>2, <1>4
<1>7. tokens[token].parent >= Top /\ tokens[token].parent # 0
  BY <1>4, <1>5, <1>6 DEF OnPath
<1>8. /\ token' = tokens[token].parent
      /\ UNCHANGED <<js, pass, pos, toksuper, tokens, num_tokens, count, loop, start, ret>>
  BY <1>7 DEF CloseUp
<1>9. R' = R /\ State' = State
  <2>1. R' = R
    BY <1>8, SameReadings
  <2>. QED
    BY <1>8, <2>1 DEF State
<1>10. Lexes'
  BY <1>3, <1>8, <1>9 DEF Lexes, AtEnd, More, c
<1>11. (\A x : x = State => Shape(x))'
  <2>1. Shape(s)'
    <3>1. Shape(s)
      BY <1>3, <1>4
    <3>. QED
      BY <1>3, <1>8, <3>1, SameShape
  <2>. QED
    BY <1>1, <1>9, <2>1
<1>12. \A i \in DOMAIN tokens' : IsOpen(tokens'[i]) => i <= token'
  BY <1>4, <1>5, <1>7, <1>8
<1>. QED
  BY <1>1, <1>3, <1>8, <1>9, <1>10, <1>11, <1>12 DEF Progress

LEMMA CloseFoundProgress ==
  ASSUME ParserInv, TokensCounted, Alive, Parsing, Progress, CloseFound
  PROVE  Progress'
<1>1. PICK s, t : s = State /\ t = Leaves(s)
  OBVIOUS
<1>2. loop = "close" /\ IsOpen(tokens[token])
  BY DEF CloseFound
<1>3. /\ TypeOK /\ s \in Readers /\ Lexes /\ (Filling => Shape(s)) /\ Len(js) \in Nat /\ pos \in 0 .. Len(js)
  BY <1>1, ProgressIs
<1>4. /\ Filling /\ ~AtEnd /\ c \in Closing /\ Top \in 1 .. Len(tokens)
      /\ tokens[Top].type = IF c = "}" THEN "object" ELSE "array"
      /\ \A i \in DOMAIN tokens : IsOpen(tokens[i]) => i <= Top
      /\ token \in 1 .. Len(tokens) /\ Len(tokens) \in Nat /\ Top <= token
  BY <1>1, <1>2, SearchIs
<1>5. DOMAIN tokens = 1 .. Len(tokens)
  BY <1>3, TokenTypes DEF TypeOK
<1>6. token = Top
  <2>1. token <= Top
    BY <1>2, <1>4, <1>5
  <2>2. Top \in 1 .. Len(tokens) /\ token \in 1 .. Len(tokens) /\ Len(tokens) \in Nat /\ Top <= token
    BY <1>4, Zenon
  <2>. QED
    BY <2>1, <2>2
<1>7. /\ Between(s, c) = t /\ t.lex = "none" /\ s.open # <<>> /\ s.at \in {"member", "first", "after"}
      /\ count > 0 /\ pos < Len(js)
  BY <1>1, <1>2, <1>4, ClosingIs
<1>8. /\ tokens' = [tokens EXCEPT ![Top].end = pos + 1]
      /\ toksuper' = tokens[Top].parent
      /\ count' = count /\ loop' = "main" /\ pos' = pos + 1 /\ js' = js /\ pass' = pass
  <2>1. Closes(tokens[token])
    BY <1>4, <1>6 DEF Closes
  <2>. QED
    BY <1>6, <2>1 DEF CloseFound, GoOn
<1>9. Shape(t)'
  <2>1. pos + 1 \in 0 .. Len(js)
    BY <1>3, <1>7
  <2>2. Shape(Leaves(s))'
    BY <1>3, <1>4, <1>7, <1>8, <2>1, CloseShape
  <2>3. Shape(t)' <=> Shape(Leaves(s))'
    BY <1>1
  <2>. QED
    BY <2>2, <2>3
<1>. QED
  BY <1>1, <1>2, <1>3, <1>4, <1>7, <1>8, <1>9, CharGoesOn

\* A string or a primitive is being scanned.
LEMMA ScanGoesOn ==
  ASSUME ParserInv, Alive, Parsing, Progress, js' = js, pass' = pass, loop' \in {"string", "primitive"},
         UNCHANGED <<toksuper, tokens, count>>, State' = State, Lexes'
  PROVE  Progress'
<1>1. PICK s : s = State
  OBVIOUS
<1>2. s \in Readers /\ (Filling => Shape(s)) /\ (s.at # "start" => count > 0)
  BY <1>1, ProgressIs
<1>3. Filling => Shape(s)'
  BY <1>2, SameShape
<1>4. (\A x : x = State => Shape(x))' <=> Shape(s)'
  BY <1>1
<1>. QED
  BY <1>1, <1>2, <1>3, <1>4 DEF Progress, Filling

\* What a string or a primitive starts with.
LEMMA Starts ==
  ASSUME ParserInv, Alive, Parsing, Progress, loop = "main", ~AtEnd, c \notin Delimiter
  PROVE  /\ State = R[pos] /\ R[pos].lex = "none" /\ R[pos] \in Readers /\ R[pos] \in Reader
         /\ c \in Char /\ pos < Len(js)
         /\ R[pos + 1] = Between(R[pos], c) /\ Between(R[pos], c) # Error
<1>1. TypeOK /\ Lexes /\ pos \in 0 .. Len(js) /\ js \in Seq(Char)
  BY ProgressIs
<1>2. R[pos].lex = "none"
  BY <1>1 DEF Lexes
<1>3. State = R[pos]
  BY <1>2 DEF State, Settled
<1>4. R[pos] \in Readers /\ R[pos] \in Reader
  BY <1>1, AliveReads
<1>. QED
  BY <1>1, <1>2, <1>3, <1>4, MainReads

LEMMA StringStartProgress ==
  ASSUME ParserInv, Alive, Parsing, Progress, StringStart
  PROVE  Progress'
<1>1. /\ loop = "main" /\ ~AtEnd /\ c = "quote"
      /\ start' = pos /\ loop' = "string" /\ pos' = pos + 1
      /\ UNCHANGED <<js, pass, toksuper, tokens, count>>
  BY DEF StringStart, Reading, Begin
<1>2. /\ State = R[pos] /\ R[pos].lex = "none" /\ R[pos] \in Readers /\ R[pos] \in Reader
      /\ c \in Char /\ pos < Len(js)
      /\ R[pos + 1] = Between(R[pos], c) /\ Between(R[pos], c) # Error
  BY <1>1, Starts DEF Delimiter, Space, Closing
<1>3. R[pos].at \in {"first", "value", "member", "name"} /\ R[pos + 1] = [R[pos] EXCEPT !.lex = "string"]
  BY <1>1, <1>2, BetweenRight
<1>4. R' = R
  BY <1>1, SameReadings
<1>5. State' = State
  BY <1>1, <1>2, <1>4 DEF State
<1>6. R[pos + 1].lex # "none"
  BY <1>2, <1>3 DEF Reader
<1>7. Lexes'
  BY <1>1, <1>2, <1>3, <1>4, <1>6 DEF Lexes, c
<1>. QED
  BY <1>1, <1>5, <1>7, ScanGoesOn

LEMMA PrimitiveStartProgress ==
  ASSUME ParserInv, Alive, Parsing, Progress, PrimitiveStart
  PROVE  Progress'
<1>1. loop = "main" /\ ~AtEnd /\ c \in Primitive
  BY DEF PrimitiveStart, Reading
<1>2. /\ State = R[pos] /\ R[pos].lex = "none" /\ R[pos] \in Readers /\ R[pos] \in Reader
      /\ c \in Char /\ pos < Len(js)
      /\ R[pos + 1] = Between(R[pos], c) /\ Between(R[pos], c) # Error
  BY <1>1, Starts DEF Primitive, Delimiter, Space, Closing
<1>3. R[pos].at \in {"first", "value"}
  BY <1>1, <1>2, BetweenRight
<1>4. ~Under({"object"}) /\ ~ (Under({"string"}) /\ tokens[toksuper].size # 0)
  <2>. SUFFICES ASSUME Filling
                PROVE  toksuper # 0 => tokens[toksuper].type # "object"
                                       /\ (tokens[toksuper].type = "string" => tokens[toksuper].size = 0)
    BY DEF Under
  <2>1. PICK s : s = R[pos]
    OBVIOUS
  <2>2. Shape(s)
    BY <1>2, <2>1 DEF Progress
  <2>. QED
    BY <1>2, <1>3, <2>1, <2>2, SuperiorIs DEF IsKey
<1>5. /\ start' = pos /\ loop' = "primitive" /\ pos' = pos
      /\ UNCHANGED <<js, pass, toksuper, tokens, count>>
  BY <1>4 DEF PrimitiveStart, Begin
<1>6. R' = R
  BY <1>5, SameReadings
<1>7. State' = State
  BY <1>2, <1>5, <1>6 DEF State
<1>8. Lexes'
  BY <1>1, <1>2, <1>3, <1>5, <1>6 DEF Lexes, c
<1>. QED
  BY <1>5, <1>7, <1>8, ScanGoesOn

LEMMA NothingUnexpected ==
  ASSUME ParserInv, Alive, Parsing, Progress, Unexpected
  PROVE  FALSE
<1>1. /\ loop = "main" /\ ~AtEnd
      /\ c \notin (Opening \cup Closing \cup Space \cup Primitive \cup {":", ",", "quote"})
  BY DEF Unexpected, Reading
<1>2. /\ R[pos] \in Reader /\ c \in Char /\ Between(R[pos], c) # Error
  BY <1>1, Starts DEF Delimiter
<1>. QED
  BY <1>1, <1>2, BetweenRight DEF Opening, Closing, Space, Primitive

\* What a string being scanned is.
LEMMA ScanIs ==
  ASSUME ParserInv, Alive, Parsing, Progress, loop \in {"string", "primitive"}, NEW s, s = State
  PROVE  /\ s = R[start] /\ s \in Readers /\ s \in Reader /\ s.lex = "none"
         /\ Len(js) \in Nat /\ pos \in 0 .. Len(js) /\ start \in 0 .. Len(js) /\ js \in Seq(Char)
         /\ loop = "string" => /\ s.at \in {"first", "value", "member", "name"} /\ start < pos
                               /\ R[pos].lex # "none"
                               /\ pos < Len(js) => R[pos] = [s EXCEPT !.lex = "string"]
         /\ loop = "primitive" => /\ s.at \in {"first", "value"} /\ start <= pos
                                  /\ start < Len(js) /\ js[start + 1] \in Primitive
                                  /\ pos = start \/ R[pos] = [s EXCEPT !.lex = "primitive"]
         /\ ~AtEnd => /\ pos < Len(js) /\ c \in Char
                      /\ R[pos + 1] = Read(R[pos], c) /\ R[pos + 1] # Error
<1>1. /\ Lexes /\ s \in Readers /\ s \in Reader /\ TypeOK
      /\ Len(js) \in Nat /\ pos \in 0 .. Len(js) /\ start \in 0 .. Len(js) /\ js \in Seq(Char)
  BY ProgressIs
<1>2. s = R[start]
  BY DEF State
<1>3. ~AtEnd => pos < Len(js)
  BY <1>1, AliveEnd
<1>4. ~AtEnd => c \in Char /\ R[pos + 1] = Read(R[pos], c) /\ R[pos + 1] # Error
  BY <1>1, <1>3, AliveReads DEF c
<1>. QED
  BY <1>1, <1>2, <1>3, <1>4 DEF Lexes, ParserInv, Loops

\* A string or a primitive ends.
LEMMA ValueProgress ==
  ASSUME ParserInv, Alive, Parsing, Progress, loop \in {"string", "primitive"},
         ~ (loop' = "returned" /\ ret' = NOMEM),
         NEW s, s = State, NEW type \in {"string", "primitive"}, Fits(s, type),
         NEW first \in 0 .. Len(js), NEW next, NewValue(type, first, next),
         Past(s) = Settled(R[next]),
         R[next].lex = "none" \/ (R[next].lex = "primitive" /\ next < Len(js) /\ js[next + 1] \in Delimiter)
  PROVE  Progress'
<1>1. PICK t : t = Past(s)
  OBVIOUS
<1>2. ~Full
  BY DEF NewValue, Return
<1>3. /\ AddToken(type, first, pos) /\ count' = count + 1 /\ toksuper' = toksuper
      /\ loop' = "main" /\ pos' = next /\ js' = js /\ pass' = pass
  BY <1>2 DEF NewValue, GoOn
<1>4. /\ s \in Readers /\ OnPath(toksuper) /\ count \in Nat /\ pos \in 0 .. Len(js)
      /\ Filling => Shape(s)
  BY ProgressIs
<1>5. Filling => Shape(t)'
  <2>. SUFFICES ASSUME Filling
                PROVE  Shape(t)'
    OBVIOUS
  <2>1. tokens' = Linked(type, first, pos, toksuper)
    BY <1>3 DEF AddToken
  <2>2. Shape(Past(s))'
    BY <1>3, <1>4, <2>1, ValueShape
  <2>3. Shape(t)' <=> Shape(Past(s))'
    BY <1>1
  <2>. QED
    BY <2>2, <2>3
<1>6. count' > 0
  BY <1>3, <1>4
<1>. QED
  BY <1>1, <1>3, <1>5, <1>6, MainGoesOn

LEMMA StringEndProgress ==
  ASSUME ParserInv, Alive, Parsing, Progress, StringEnd, ~ (loop' = "returned" /\ ret' = NOMEM)
  PROVE  Progress'
<1>1. PICK s, p : s = State /\ p = pos + 1
  OBVIOUS
<1>2. loop = "string" /\ ~AtEnd /\ c = "quote" /\ NewValue("string", start + 1, p)
  BY <1>1 DEF StringEnd, Reading
<1>3. /\ s \in Reader /\ s.at \in {"first", "value", "member", "name"}
      /\ Len(js) \in Nat /\ pos \in 0 .. Len(js) /\ start \in 0 .. Len(js) /\ start < pos
      /\ pos < Len(js) /\ R[pos] = [s EXCEPT !.lex = "string"] /\ R[p] = Read(R[pos], c)
  BY <1>1, <1>2, ScanIs
<1>4. R[p] = Past(s)
  <2>1. R[pos].lex = "string" /\ Past(R[pos]) = Past(s)
    BY <1>3 DEF Past, Reader
  <2>. QED
    BY <1>2, <1>3, <2>1 DEF Read
<1>5. R[p].lex = "none"
  BY <1>3, <1>4, PastType
<1>6. Past(s) = Settled(R[p])
  BY <1>4, <1>5 DEF Settled
<1>7. start + 1 \in 0 .. Len(js) /\ Fits(s, "string")
  BY <1>3 DEF Fits
<1>. QED
  BY <1>1, <1>2, <1>5, <1>6, <1>7, ValueProgress

LEMMA PrimitiveEndProgress ==
  ASSUME ParserInv, Alive, Parsing, Progress, PrimitiveEnd, ~ (loop' = "returned" /\ ret' = NOMEM)
  PROVE  Progress'
<1>1. PICK s : s = State
  OBVIOUS
<1>2. loop = "primitive" /\ ~AtEnd /\ c \in Delimiter /\ NewValue("primitive", start, pos)
  BY DEF PrimitiveEnd, Reading
<1>3. /\ s \in Reader /\ s.at \in {"first", "value"}
      /\ Len(js) \in Nat /\ pos \in 0 .. Len(js) /\ start \in 0 .. Len(js)
      /\ pos < Len(js) /\ js[start + 1] \in Primitive
      /\ pos = start \/ R[pos] = [s EXCEPT !.lex = "primitive"]
  BY <1>1, <1>2, ScanIs
<1>4. R[pos] = [s EXCEPT !.lex = "primitive"]
  BY <1>2, <1>3 DEF c, Primitive, Delimiter, Space, Closing
<1>5. R[pos].lex = "primitive" /\ Past(R[pos]) = Past(s)
  BY <1>3, <1>4 DEF Past, Reader
<1>6. Past(s) = Settled(R[pos]) /\ js[pos + 1] \in Delimiter /\ Fits(s, "primitive")
  BY <1>2, <1>3, <1>5 DEF Settled, c, Fits
<1>. QED
  BY <1>1, <1>2, <1>3, <1>5, <1>6, ValueProgress

LEMMA PrimitiveCharProgress ==
  ASSUME ParserInv, Alive, Parsing, Progress, PrimitiveChar
  PROVE  Progress'
<1>1. PICK s, p : s = State /\ p = pos + 1
  OBVIOUS
<1>2. loop = "primitive" /\ ~AtEnd /\ c \notin Delimiter
  BY DEF PrimitiveChar, Reading
<1>3. /\ s \in Reader /\ s.at \in {"first", "value"} /\ s.lex = "none" /\ s = R[start]
      /\ start < Len(js) /\ js[start + 1] \in Primitive
      /\ pos = start \/ R[pos] = [s EXCEPT !.lex = "primitive"]
      /\ c \in Char /\ R[p] = Read(R[pos], c) /\ R[p] # Error
  BY <1>1, <1>2, ScanIs
<1>4. c # "ctl" /\ R[p] = [s EXCEPT !.lex = "primitive"]
  <2>1. CASE pos = start
    <3>1. c \in Primitive /\ R[p] = Between(s, c)
      BY <1>3, <2>1 DEF c, Read
    <3>2. s \in Reader /\ c \in Char /\ Between(s, c) # Error
      BY <1>3, <3>1
    <3>3. Between(s, c) = [s EXCEPT !.lex = "primitive"]
      BY <3>1, <3>2, BetweenRight
    <3>. QED
      BY <3>1, <3>3 DEF Primitive
  <2>2. CASE R[pos] = [s EXCEPT !.lex = "primitive"]
    <3>1. R[pos].lex = "primitive"
      BY <1>3, <2>2 DEF Reader
    <3>. QED
      BY <1>2, <1>3, <2>2, <3>1 DEF Read
  <2>. QED
    BY <1>3, <2>1, <2>2
<1>5. /\ loop' = "primitive" /\ pos' = p /\ start' = start
      /\ UNCHANGED <<js, pass, toksuper, tokens, count>>
  BY <1>1, <1>4 DEF PrimitiveChar, Skip, GoOn
<1>6. R' = R
  BY <1>5, SameReadings
<1>7. State' = State
  BY <1>2, <1>5, <1>6 DEF State
<1>8. Lexes'
  BY <1>3, <1>4, <1>5, <1>6 DEF Lexes
<1>. QED
  BY <1>5, <1>7, <1>8, ScanGoesOn

\* The string goes on.
LEMMA StringGoesOn ==
  ASSUME ParserInv, Alive, Parsing, Progress, loop = "string", NEW s, s = State, NEW p, Skip("string", p),
         R[p].lex # "none", p < Len(js) => R[p] = [s EXCEPT !.lex = "string"]
  PROVE  Progress'
<1>1. /\ loop' = "string" /\ pos' = p /\ start' = start
      /\ UNCHANGED <<js, pass, toksuper, tokens, count>>
  BY DEF Skip, GoOn
<1>2. R' = R
  BY <1>1, SameReadings
<1>3. State' = State
  BY <1>1, <1>2 DEF State
<1>4. s = R[start] /\ Lexes
  BY ScanIs, ProgressIs
<1>5. Lexes'
  BY <1>1, <1>2, <1>4 DEF Lexes
<1>. QED
  BY <1>1, <1>3, <1>5, ScanGoesOn

LEMMA StringCharProgress ==
  ASSUME ParserInv, Alive, Parsing, Progress, StringChar
  PROVE  Progress'
<1>1. PICK s, p : s = State /\ p = pos + 1
  OBVIOUS
<1>2. loop = "string" /\ ~AtEnd /\ c # "quote" /\ Skip("string", p) /\ (c = "bslash" => p >= Len(js))
  <2>1. Len(js) \in Nat /\ pos \in Nat
    BY ProgressIs, LenProperties
  <2>. QED
    BY <1>1, <2>1 DEF StringChar, Reading, IsEscape
<1>3. /\ s \in Reader /\ Len(js) \in Nat /\ pos \in 0 .. Len(js)
      /\ pos < Len(js) /\ R[pos] = [s EXCEPT !.lex = "string"]
      /\ c \in Char /\ R[p] = Read(R[pos], c) /\ R[p] # Error
  BY <1>1, <1>2, ScanIs
<1>4. R[pos].lex = "string" /\ [R[pos] EXCEPT !.lex = "escape"].lex = "escape"
  BY <1>3 DEF Reader
<1>5. CASE c = "bslash"
  <2>1. R[p].lex = "escape"
    BY <1>3, <1>4, <1>5 DEF Read
  <2>. QED
    BY <1>1, <1>2, <1>3, <1>5, <2>1, StringGoesOn
<1>6. CASE c # "bslash"
  <2>1. R[p] = R[pos]
    BY <1>2, <1>3, <1>4, <1>6 DEF Read
  <2>. QED
    BY <1>1, <1>2, <1>3, <1>4, <2>1, StringGoesOn
<1>. QED
  BY <1>5, <1>6

\* The digits after \u, as far as the text goes.
LEMMA HexReads ==
  ASSUME TypeOK, Alive, NEW s \in Reader, NEW p \in 0 .. Len(js), p < Len(js)
  PROVE  /\ R[p] = [s EXCEPT !.lex = "hex4"] => js[p + 1] \in HexDigit /\ R[p + 1] = [s EXCEPT !.lex = "hex3"]
         /\ R[p] = [s EXCEPT !.lex = "hex3"] => js[p + 1] \in HexDigit /\ R[p + 1] = [s EXCEPT !.lex = "hex2"]
         /\ R[p] = [s EXCEPT !.lex = "hex2"] => js[p + 1] \in HexDigit /\ R[p + 1] = [s EXCEPT !.lex = "hex1"]
         /\ R[p] = [s EXCEPT !.lex = "hex1"] => js[p + 1] \in HexDigit /\ R[p + 1] = [s EXCEPT !.lex = "string"]
<1>1. js[p + 1] \in Char /\ R[p + 1] = Read(R[p], js[p + 1]) /\ R[p + 1] # Error
  BY AliveReads DEF TypeOK
<1>2. \A l, k : R[p] = [s EXCEPT !.lex = l] => R[p].lex = l /\ [R[p] EXCEPT !.lex = k] = [s EXCEPT !.lex = k]
  BY DEF Reader
<1>3. R[p] = [s EXCEPT !.lex = "hex4"] => js[p + 1] \in HexDigit /\ R[p + 1] = [s EXCEPT !.lex = "hex3"]
  BY <1>1, <1>2 DEF Read, Hex
<1>4. R[p] = [s EXCEPT !.lex = "hex3"] => js[p + 1] \in HexDigit /\ R[p + 1] = [s EXCEPT !.lex = "hex2"]
  BY <1>1, <1>2 DEF Read, Hex
<1>5. R[p] = [s EXCEPT !.lex = "hex2"] => js[p + 1] \in HexDigit /\ R[p + 1] = [s EXCEPT !.lex = "hex1"]
  BY <1>1, <1>2 DEF Read, Hex
<1>6. R[p] = [s EXCEPT !.lex = "hex1"] => js[p + 1] \in HexDigit /\ R[p + 1] = [s EXCEPT !.lex = "string"]
  BY <1>1, <1>2 DEF Read, Hex
<1>. QED
  BY <1>3, <1>4, <1>5, <1>6

LEMMA HexEscape ==
  ASSUME TypeOK, Alive, NEW s \in Reader, NEW p \in 0 .. Len(js), R[p] = [s EXCEPT !.lex = "hex4"]
  PROVE  /\ \A q \in p .. AfterHex(p) - 1 : js[q + 1] \in HexDigit
         /\ R[AfterHex(p)].lex # "none"
         /\ AfterHex(p) < Len(js) => R[AfterHex(p)] = [s EXCEPT !.lex = "string"]
<1>. DEFINE after(q) == IF More(q) THEN q + 1 ELSE q
<1>1. js \in Seq(Char) /\ Len(js) \in Nat
  BY LenProperties DEF TypeOK
<1>2. \A q \in 0 .. Len(js) : after(q) = IF q < Len(js) THEN q + 1 ELSE q
  BY <1>1, AliveReads DEF More
<1>3. \A l \in {"hex4", "hex3", "hex2", "hex1", "string"} : [s EXCEPT !.lex = l].lex = l
  BY DEF Reader
<1>4. PICK p1, p2, p3, p4 : p1 = after(p) /\ p2 = after(p1) /\ p3 = after(p2) /\ p4 = after(p3)
  OBVIOUS
<1>5. AfterHex(p) = p4
  BY <1>4 DEF AfterHex
<1>. HIDE DEF after
<1>6. /\ p1 \in 0 .. Len(js) /\ p1 = IF p < Len(js) THEN p + 1 ELSE p
      /\ p2 \in 0 .. Len(js) /\ p2 = IF p1 < Len(js) THEN p1 + 1 ELSE p1
      /\ p3 \in 0 .. Len(js) /\ p3 = IF p2 < Len(js) THEN p2 + 1 ELSE p2
      /\ p4 \in 0 .. Len(js) /\ p4 = IF p3 < Len(js) THEN p3 + 1 ELSE p3
  BY <1>1, <1>2, <1>4
<1>8. ASSUME p < Len(js)
      PROVE  js[p + 1] \in HexDigit /\ R[p1] = [s EXCEPT !.lex = "hex3"]
  <2>1. p1 = p + 1
    BY <1>6, <1>8
  <2>. QED
    BY <1>8, <2>1, HexReads
<1>9. ASSUME p1 < Len(js)
      PROVE  js[p1 + 1] \in HexDigit /\ R[p2] = [s EXCEPT !.lex = "hex2"]
  <2>1. p < Len(js) /\ p1 \in 0 .. Len(js) /\ p2 = p1 + 1
    BY <1>6, <1>9
  <2>. QED
    BY <1>8, <1>9, <2>1, HexReads
<1>10. ASSUME p2 < Len(js)
       PROVE  js[p2 + 1] \in HexDigit /\ R[p3] = [s EXCEPT !.lex = "hex1"]
  <2>1. p1 < Len(js) /\ p2 \in 0 .. Len(js) /\ p3 = p2 + 1
    BY <1>6, <1>10
  <2>. QED
    BY <1>9, <1>10, <2>1, HexReads
<1>11. ASSUME p3 < Len(js)
       PROVE  js[p3 + 1] \in HexDigit /\ R[p4] = [s EXCEPT !.lex = "string"]
  <2>1. p2 < Len(js) /\ p3 \in 0 .. Len(js) /\ p4 = p3 + 1
    BY <1>6, <1>11
  <2>. QED
    BY <1>10, <1>11, <2>1, HexReads
<1>12. \A q \in p .. p4 - 1 : q \in {p, p1, p2, p3} /\ q < Len(js)
  BY <1>1, <1>6
<1>13. \A q \in p .. p4 - 1 : js[q + 1] \in HexDigit
  BY <1>8, <1>9, <1>10, <1>11, <1>12
<1>14. p4 < Len(js) => p3 < Len(js)
  BY <1>1, <1>6
<1>15. R[p4].lex # "none"
  <2>1. CASE p3 < Len(js)
    BY <1>3, <1>11, <2>1
  <2>2. CASE p3 = Len(js) /\ p2 < Len(js)
    <3>1. p4 = p3
      BY <1>6, <2>2
    <3>. QED
      BY <1>3, <1>10, <2>2, <3>1
  <2>3. CASE p2 = Len(js) /\ p1 < Len(js)
    <3>1. p4 = p2
      BY <1>6, <2>3
    <3>. QED
      BY <1>3, <1>9, <2>3, <3>1
  <2>4. CASE p1 = Len(js) /\ p < Len(js)
    <3>1. p4 = p1
      BY <1>6, <2>4
    <3>. QED
      BY <1>3, <1>8, <2>4, <3>1
  <2>5. CASE p = Len(js)
    <3>1. p4 = p
      BY <1>6, <2>5
    <3>. QED
      BY <1>3, <3>1
  <2>. QED
    BY <1>1, <1>6, <2>1, <2>2, <2>3, <2>4, <2>5
<1>. QED
  BY <1>5, <1>11, <1>13, <1>14, <1>15

LEMMA StringEscapeProgress ==
  ASSUME ParserInv, Alive, Parsing, Progress, StringEscape
  PROVE  Progress'
<1>1. PICK s, e : s = State /\ e = js[pos + 2]
  OBVIOUS
<1>2. loop = "string" /\ ~AtEnd /\ c = "bslash" /\ pos + 1 < Len(js)
  BY DEF StringEscape, Reading, IsEscape
<1>3. /\ s \in Reader /\ Len(js) \in Nat /\ pos \in 0 .. Len(js) /\ js \in Seq(Char) /\ TypeOK
      /\ R[pos] = [s EXCEPT !.lex = "string"] /\ R[pos + 1] = Read(R[pos], c)
  BY <1>1, <1>2, ScanIs, ProgressIs
<1>4. \A l \in {"string", "escape", "hex4"} : [s EXCEPT !.lex = l].lex = l
  BY <1>3 DEF Reader
<1>5. R[pos + 1] = [s EXCEPT !.lex = "escape"]
  <2>1. R[pos].lex = "string" /\ [R[pos] EXCEPT !.lex = "escape"] = [s EXCEPT !.lex = "escape"]
    BY <1>3 DEF Reader
  <2>. QED
    BY <1>2, <1>3, <2>1 DEF Read
<1>6. e \in Char /\ R[pos + 2] = Read(R[pos + 1], e) /\ R[pos + 2] # Error /\ pos + 2 \in 0 .. Len(js)
  <2>1. PICK q : q = pos + 1
    OBVIOUS
  <2>2. q \in 0 .. Len(js) /\ q < Len(js) /\ q + 1 = pos + 2
    BY <1>2, <1>3, <2>1
  <2>3. js[q + 1] \in Char /\ R[q + 1] = Read(R[q], js[q + 1]) /\ R[q + 1] # Error
    BY <1>3, <2>2, AliveReads
  <2>. QED
    BY <1>1, <1>3, <2>1, <2>2, <2>3
<1>7. \/ e \in Escaped /\ R[pos + 2] = [s EXCEPT !.lex = "string"]
      \/ e = "u" /\ e \notin Escaped /\ R[pos + 2] = [s EXCEPT !.lex = "hex4"]
  <2>1. /\ R[pos + 1].lex = "escape"
        /\ [R[pos + 1] EXCEPT !.lex = "string"] = [s EXCEPT !.lex = "string"]
        /\ [R[pos + 1] EXCEPT !.lex = "hex4"] = [s EXCEPT !.lex = "hex4"]
    BY <1>3, <1>5 DEF Reader
  <2>. QED
    BY <1>6, <2>1 DEF Read, Escaped
<1>8. CASE e \in Escaped
  <2>1. Skip("string", pos + 2)
    BY <1>1, <1>8 DEF StringEscape, Escaped
  <2>2. R[pos + 2] = [s EXCEPT !.lex = "string"]
    BY <1>7, <1>8
  <2>. QED
    BY <1>1, <1>2, <1>4, <2>1, <2>2, StringGoesOn
<1>9. CASE e = "u"
  <2>1. PICK q : q = AfterHex(pos + 2)
    OBVIOUS
  <2>2. R[pos + 2] = [s EXCEPT !.lex = "hex4"]
    BY <1>7, <1>9 DEF Escaped
  <2>3. /\ \A p \in pos + 2 .. AfterHex(pos + 2) - 1 : js[p + 1] \in HexDigit
        /\ R[q].lex # "none" /\ (q < Len(js) => R[q] = [s EXCEPT !.lex = "string"])
    BY <1>3, <1>6, <2>1, <2>2, HexEscape
  <2>4. Skip("string", q)
    BY <1>1, <1>9, <2>1, <2>3 DEF StringEscape, Escaped
  <2>. QED
    BY <1>1, <1>2, <2>3, <2>4, StringGoesOn
<1>. QED
  BY <1>7, <1>8, <1>9

\* A text that is read to the end is a document, or the beginning of one.
LEMMA EndStep ==
  ASSUME ParserInv, TokensCounted, Alive, Parsing, Progress, End \/ Partial
  PROVE  DocumentInv'
<1>1. PICK s, l : s = State /\ l = Len(js)
  OBVIOUS
<1>2. /\ TypeOK /\ s \in Readers /\ s \in Reader /\ Sane(s) /\ Lexes /\ count \in Nat /\ Len(js) \in Nat
      /\ (Filling => Shape(s)) /\ (s.at # "start" => count > 0)
  BY <1>1, ProgressIs DEF Sane
<1>3. AtEnd /\ pos = l
  BY <1>1, <1>2, AliveEnd DEF End, Partial
<1>4. PICK r : r = ret' /\ Return(r)
  BY DEF End, Partial, Return
<1>5. /\ js' = js /\ pass' = pass /\ loop' = "returned" /\ ret' = r
      /\ UNCHANGED <<tokens, toksuper>>
  BY <1>4 DEF Return
<1>6. R' = R
  BY <1>5, SameReadings
<1>7. CASE Partial
  <2>1. r = PART /\ loop \in {"string", "primitive"}
    BY <1>4, <1>7 DEF Partial, Return
  <2>2. R[l].lex # "none"
    <3>1. CASE loop = "string"
      BY <1>2, <1>3, <3>1 DEF Lexes
    <3>2. CASE loop = "primitive"
      <4>1. /\ start < Len(js) /\ (pos = start \/ R[pos] = [s EXCEPT !.lex = "primitive"]) /\ l = Len(js)
        BY <1>1, <3>2, ScanIs
      <4>2. R[l] = [s EXCEPT !.lex = "primitive"]
        BY <1>2, <1>3, <4>1
      <4>. QED
        BY <1>2, <4>2 DEF Reader
    <3>. QED
      BY <2>1, <3>1, <3>2
  <2>3. R[l] # Whole
    BY <2>2 DEF Whole
  <2>. QED
    BY <1>1, <1>5, <1>6, <2>1, <2>3 DEF DocumentInv, PART, Parsing, Filling, Done
<1>8. CASE End
  <2>1. loop = "main" /\ r = (IF Filling /\ \E i \in DOMAIN tokens : IsOpen(tokens[i]) THEN PART ELSE count)
    BY <1>4, <1>8 DEF End, Return
  <2>2. s = R[l] /\ s.lex = "none" /\ s # Error
    <3>1. R[l].lex = "none"
      BY <1>2, <1>3, <2>1 DEF Lexes
    <3>2. s = R[l]
      BY <1>1, <1>3, <2>1, <3>1 DEF State, Settled
    <3>. QED
      BY <1>1, <3>1, <3>2 DEF Alive
  <2>3. ASSUME r <= 0
        PROVE  s # Whole
    <3>1. CASE r = PART
      <4>1. Filling /\ \E i \in DOMAIN tokens : IsOpen(tokens[i])
        BY <1>2, <2>1, <3>1 DEF PART
      <4>2. s.open # <<>>
        BY <1>2, <4>1, TopIs
      <4>. QED
        BY <4>2 DEF Whole
    <3>2. CASE r = count
      BY <1>2, <2>3, <3>2 DEF Whole
    <3>. QED
      BY <2>1, <3>1, <3>2
  <2>4. ASSUME Filling, r > 0
        PROVE  s = Whole /\ Shape(Whole)'
    <3>1. r = count /\ \A i \in DOMAIN tokens : ~IsOpen(tokens[i])
      BY <2>1, <2>4 DEF PART
    <3>2. Shape(s)
      BY <1>2, <2>4
    <3>3. s.open = <<>>
      BY <1>2, <3>1, <3>2, TopIs
    <3>4. s.at # "start"
      BY <2>4, <3>1, <3>2 DEF Shape, Superior, TokensCounted
    <3>5. s.at = "after"
      BY <1>2, <2>2, <3>3, <3>4 DEF Sane, Inside, Reader
    <3>6. s = Whole
      BY <1>2, <2>2, <3>3, <3>5 DEF Reader, Whole
    <3>7. Shape(s)'
      BY <1>2, <1>5, <3>2, SameShape
    <3>8. Shape(s)' <=> Shape(Whole)'
      BY <3>6
    <3>. QED
      BY <3>6, <3>7, <3>8
  <2>. QED
    BY <1>1, <1>5, <1>6, <2>2, <2>3, <2>4 DEF DocumentInv, Done, Filling, Parsing
<1>. QED
  BY <1>7, <1>8

LEMMA ParseStep ==
  ASSUME PassesInv, PassesInv', DocumentInv, jsmn_parse
  PROVE  DocumentInv'
<1>1. ParserInv /\ TokensCounted /\ Parsing
  BY DEF PassesInv, jsmn_parse, Parsing
<1>2. loop # "returned"
  BY DEF jsmn_parse, Open, Close, CloseFound, CloseUp, White, Colon, Comma, StringStart, PrimitiveStart,
         Unexpected, End, StringEnd, StringEscape, StringChar, PrimitiveEnd, PrimitiveChar, Partial, Reading
<1>3. js' = js /\ pass' = pass
  BY DEF jsmn_parse, Open, Close, CloseFound, CloseUp, White, Colon, Comma, StringStart, PrimitiveStart,
         Unexpected, End, StringEnd, StringEscape, StringChar, PrimitiveEnd, PrimitiveChar, Partial,
         Return, GoOn, Skip, SetSuper, Begin, NewValue
<1>4. R' = R /\ (Alive' <=> Alive)
  BY <1>3, SameReadings
<1>5. CASE ~Alive
  <2>1. R[Len(js)] # Whole
    BY <1>5 DEF Alive, Error, Whole
  <2>. QED
    BY <1>3, <1>4, <1>5, <2>1 DEF DocumentInv
<1>6. CASE Alive
  <2>1. Progress
    BY <1>1, <1>2, <1>6 DEF DocumentInv
  <2>2. ~ (loop' = "returned" /\ ret' = NOMEM)
    <3>1. CASE Filling
      BY <1>3, <3>1 DEF PassesInv, TokensCounted, Filling
    <3>2. CASE ~Filling /\ loop' = "returned"
      <4>1. ~Full /\ count \in Nat
        BY <1>1, <3>2 DEF Full, ParserInv, TypeOK
      <4>2. CASE Open \/ StringEnd \/ PrimitiveEnd
        BY <1>2, <3>2, <4>1, <4>2 DEF Open, StringEnd, PrimitiveEnd, NewValue, Return, GoOn, INVAL, NOMEM
      <4>3. CASE Close \/ CloseFound \/ CloseUp \/ White \/ Colon \/ Comma
        BY <1>2, <3>2, <4>3 DEF Close, CloseFound, CloseUp, White, Colon, Comma, Return, GoOn, Skip, SetSuper, INVAL, NOMEM
      <4>4. CASE StringStart \/ PrimitiveStart \/ Unexpected \/ StringEscape \/ StringChar \/ PrimitiveChar
        <5>1. Return(INVAL) \/ loop' \in {"string", "primitive"}
          <6>1. CASE StringStart \/ PrimitiveStart \/ Unexpected \/ StringChar \/ PrimitiveChar
            BY <6>1 DEF StringStart, PrimitiveStart, Unexpected, StringChar, PrimitiveChar, GoOn, Skip, Begin
          <6>2. CASE StringEscape
            BY <6>2 DEF StringEscape, GoOn, Skip
          <6>. QED
            BY <4>4, <6>1, <6>2
        <5>. QED
          BY <3>2, <5>1 DEF Return, INVAL, NOMEM
      <4>5. CASE End \/ Partial
        BY <3>2, <4>1, <4>5 DEF End, Partial, Return, PART, NOMEM
      <4>. QED
        BY <4>2, <4>3, <4>4, <4>5 DEF jsmn_parse
    <3>. QED
      BY <3>1, <3>2
  <2>3. CASE End \/ Partial
    BY <1>1, <1>6, <2>1, <2>3, EndStep
  <2>4. CASE ~ (End \/ Partial)
    <3>1. Progress'
      BY <1>1, <1>6, <2>1, <2>2, <2>4, OpenProgress, CloseProgress, CloseFoundProgress, CloseUpProgress,
         WhiteProgress, ColonProgress, CommaProgress, StringStartProgress, PrimitiveStartProgress,
         NothingUnexpected, StringEndProgress, StringEscapeProgress, StringCharProgress,
         PrimitiveEndProgress, PrimitiveCharProgress DEF jsmn_parse
    <3>2. loop' # "returned"
      BY <3>1 DEF Progress
    <3>. QED
      BY <1>1, <1>3, <3>1, <3>2 DEF DocumentInv, Parsing, Done, Filling
  <2>. QED
    BY <2>3, <2>4
<1>. QED
  BY <1>5, <1>6

\* At the beginning of a pass nothing has been read.
LEMMA PassStarts ==
  ASSUME js \in Seq(Char), pos = 0, loop = "main", tokens = <<>>, toksuper = 0
  PROVE  Progress
<1>1. R[0] = Start
  <2>1. Len(js) \in Nat
    BY LenProperties
  <2>. QED
    BY <2>1, ReadingsAt DEF R
<1>2. Start.lex = "none" /\ Start.at = "start" /\ Start.open = <<>>
  BY DEF Start
<1>3. State = Start
  BY <1>1, <1>2 DEF State, Settled
<1>4. Lexes
  BY <1>1, <1>2 DEF Lexes
<1>5. Shape(Start)
  <2>1. Len(tokens) = 0 /\ DOMAIN tokens = {} /\ Len(Start.open) = 0 /\ 1 .. 0 = {}
    BY <1>2
  <2>2. Top = 0
    BY DEF Top, Up
  <2>3. Nested(Start, [k \in 1 .. 0 |-> 0])
    BY <1>2, <2>1, <2>2 DEF Nested
  <2>4. Formed /\ Filled(Start)
    BY <2>1 DEF Formed, Filled
  <2>5. Superior(Start)
    BY <1>2, <2>1, <2>2 DEF Superior, Inside
  <2>. QED
    BY <2>3, <2>4, <2>5 DEF Shape
<1>. QED
  BY <1>2, <1>3, <1>4, <1>5 DEF Progress

LEMMA DocumentInit ==
  ASSUME PInit
  PROVE  DocumentInv
<1>1. ParserInv
  BY InitInv
<1>2. Progress
  BY <1>1, PassStarts DEF PInit, Init, ParserInv, TypeOK
<1>. QED
  BY <1>2 DEF PInit, Init, DocumentInv, Done, Filling

LEMMA DocumentStep ==
  ASSUME PassesInv, PassesInv', DocumentInv, [PNext]_pvars
  PROVE  DocumentInv'
<1>1. ParserInv /\ ParserInv' /\ js \in Seq(Char)
  BY DEF PassesInv, ParserInv, TypeOK
<1>2. ASSUME js' = js, loop' = loop, ret' = ret, ~Parsing', ~Done'
      PROVE  DocumentInv'
  <2>1. R' = R /\ (Alive' <=> Alive)
    BY <1>2, SameReadings
  <2>. QED
    BY <1>2, <2>1 DEF DocumentInv, Parsing, Filling
<1>3. ASSUME js' = js, tokens' = tokens, toksuper' = toksuper, loop' = loop, ret' = ret,
             Alive, Shape(Whole), R[Len(js)] = Whole
      PROVE  R'[Len(js)] = Whole /\ Shape(Whole)'
  <2>1. Whole \in Readers
    BY DEF Whole, Readers, Reader, Sane
  <2>2. R' = R
    BY <1>3, SameReadings
  <2>. QED
    BY <1>1, <1>3, <2>1, <2>2, SameShape
<1>4. CASE UNCHANGED vars
  <2>1. /\ js' = js /\ pass' = pass /\ pos' = pos /\ toksuper' = toksuper /\ tokens' = tokens
        /\ count' = count /\ loop' = loop /\ start' = start /\ token' = token /\ ret' = ret
    BY <1>4 DEF vars
  <2>2. R' = R /\ (Alive' <=> Alive)
    BY <2>1, SameReadings
  <2>3. ASSUME Alive, Parsing, Progress
        PROVE  Progress'
    <3>1. PICK s : s = State
      OBVIOUS
    <3>2. s \in Readers /\ (Filling => Shape(s))
      BY <1>1, <2>3, <3>1, ProgressIs
    <3>3. Filling => Shape(s)'
      BY <1>1, <2>1, <3>2, SameShape
    <3>4. State' = State
      BY <2>1, <2>2 DEF State
    <3>5. (\A x : x = State => Shape(x))' <=> Shape(s)'
      BY <3>1, <3>4
    <3>6. Lexes'
      BY <2>1, <2>2, <2>3 DEF Progress, Lexes, AtEnd, More, c
    <3>. QED
      BY <2>1, <2>3, <3>3, <3>4, <3>5, <3>6 DEF Progress, Filling
  <2>. QED
    BY <1>3, <2>1, <2>2, <2>3 DEF DocumentInv, Parsing, Filling, Done
<1>5. CASE jsmn_parse
  BY <1>5, ParseStep
<1>6. ASSUME NEW allocated \in BOOLEAN, StartFill(allocated)
      PROVE  DocumentInv'
  <2>1. /\ js' = js /\ tokens' = tokens /\ pass = "count" /\ pass' \in {"fill", "failed"}
        /\ pos' = 0 /\ toksuper' = 0 /\ loop' = "main"
    BY <1>6 DEF StartFill, Fill
  <2>2. tokens' = <<>>
    BY <1>1, <2>1 DEF ParserInv
  <2>3. Progress'
    <3>1. (/\ js \in Seq(Char) /\ pos = 0 /\ loop = "main" /\ tokens = <<>> /\ toksuper = 0)'
      BY <1>1, <2>1, <2>2
    <3>. QED
      BY <3>1, PassStarts, PTL
  <2>. QED
    BY <2>1, <2>3 DEF DocumentInv, Done
<1>7. CASE ParseFails
  BY <1>2, <1>7 DEF ParseFails, Parsing, Done
<1>8. CASE ParseOk
  <2>1. /\ Filling /\ loop = "returned" /\ ret > 0 /\ pass' = "done"
        /\ js' = js /\ tokens' = tokens /\ toksuper' = toksuper /\ loop' = loop /\ ret' = ret
    BY <1>8 DEF ParseOk, Filling
  <2>2. Alive' <=> Alive
    BY <2>1, SameReadings
  <2>3. ret \in Int
    BY <1>1 DEF ParserInv, TypeOK
  <2>. QED
    BY <1>3, <2>1, <2>2, <2>3 DEF DocumentInv, Parsing, Filling, Done
<1>9. CASE Call
  <2>1. UNCHANGED vars \/ json_parse_end
    BY <1>9 DEF Call, ObjEnter, ArrEnter, Enter, json_obj_leave, json_arr_leave, LeaveTo
  <2>. QED
    BY <1>2, <1>4, <2>1 DEF json_parse_end, Parsing, Done
<1>. QED
  BY <1>4, <1>5, <1>6, <1>7, <1>8, <1>9 DEF PNext, Parse, json_parse_start, pvars

\* The inductive invariant of the parser on documents.
DocumentsInv == PassesInv /\ DocumentInv

\* Both passes of json_parse_start keep it, whatever is called after them.
THEOREM DocumentsInvariant == PSpec => []DocumentsInv
<1>1. PInit => DocumentsInv
  BY PassesInit, DocumentInit DEF DocumentsInv
<1>2. DocumentsInv /\ [PNext]_pvars => DocumentsInv'
  BY PassesStep, DocumentStep DEF DocumentsInv
<1>. QED
  BY <1>1, <1>2, PTL DEF PSpec

\* Every document is accepted if there is memory for its tokens, wherever its white
\* space is and however deep it is nested, and no text that is cut off is.
THEOREM Accepting == PSpec => []AcceptsDocuments
<1>1. DocumentsInv => AcceptsDocuments
  <2>. SUFFICES ASSUME DocumentInv
                PROVE  /\ Done => R[Len(js)] \in {Whole, Error}
                       /\ loop = "returned" /\ ret <= 0 => R[Len(js)] # Whole
    BY DEF DocumentsInv, AcceptsDocuments, IsCut, IsDocument, R
  <2>. QED
    BY DEF DocumentInv, Alive
<1>. QED
  BY <1>1, DocumentsInvariant, PTL

-------------------------------------------------------------------------------
(* Look-ups in a document.                                                 *)

LEMMA KeyChild ==
  ASSUME TypedForest, Formed, Filled(Whole), NEW i \in DOMAIN tokens, IsKey(i)
  PROVE  ChildrenOf(i) = {i + 1}
<1>1. DOMAIN tokens = 1 .. Len(tokens) /\ Len(tokens) \in Nat
  BY ForestFacts
<1>2. i < Len(tokens) /\ tokens[i + 1].parent = i
  BY <1>1 DEF Filled, Whole, Inside
<1>3. i + 1 \in DOMAIN tokens
  BY <1>1, <1>2
<1>4. \A j \in DOMAIN tokens : tokens[j].parent = i => j = i + 1
  BY <1>1 DEF Formed, IsKey
<1>. QED
  BY <1>2, <1>3, <1>4 DEF ChildrenOf

LEMMA DocumentFacts ==
  ASSUME DocumentsInv, Done, IsDocument(js)
  PROVE  /\ ParserInv /\ TypedForest /\ Shape(Whole) /\ Formed /\ R[Len(js)] = Whole /\ Alive
         /\ DOMAIN tokens = 1 .. Len(tokens) /\ Len(tokens) \in Nat /\ 1 \in DOMAIN tokens
         /\ tokens[1].type \in {"object", "array"} /\ tokens[1].parent = 0
         /\ \A i \in DOMAIN tokens : ~IsOpen(tokens[i])
         /\ \A i \in DOMAIN tokens : IsKey(i) => ChildrenOf(i) = {i + 1}
<1>1. ParserInv /\ TypedForest /\ TypeOK
  BY DEF DocumentsInv, PassesInv, ParserInv, TypeOK, TypedForest, Forest
<1>2. R[Len(js)] = Whole /\ Alive
  BY DEF IsDocument, R, Alive, Whole, Error
<1>3. Shape(Whole) /\ Formed /\ Filled(Whole)
  BY <1>2 DEF DocumentsInv, DocumentInv, Shape
<1>4. Whole \in Reader /\ Whole.open = <<>> /\ Whole.at = "after"
  BY DEF Whole, Reader
<1>5. /\ DOMAIN tokens = 1 .. Len(tokens) /\ Len(tokens) \in Nat
      /\ \A i \in DOMAIN tokens : tokens[i].parent \in Nat /\ tokens[i].parent < i
  BY <1>1, ForestFacts
<1>6. 1 \in DOMAIN tokens
  <2>1. Len(tokens) # 0
    BY <1>3, <1>4 DEF Shape, Superior
  <2>. QED
    BY <1>5, <2>1
<1>7. tokens[1].parent = 0 /\ tokens[1].type \in {"object", "array"}
  BY <1>3, <1>5, <1>6 DEF Formed
<1>8. \A i \in DOMAIN tokens : ~IsOpen(tokens[i])
  BY <1>1, <1>3, <1>4, TopIs
<1>9. \A i \in DOMAIN tokens : IsKey(i) => ChildrenOf(i) = {i + 1}
  BY <1>1, <1>3, KeyChild
<1>. QED
  BY <1>1, <1>2, <1>3, <1>5, <1>6, <1>7, <1>8, <1>9

\* The children of a token in order.
LEMMA ChildrenAre ==
  ASSUME TypedForest, NEW i \in DOMAIN tokens
  PROVE  /\ DOMAIN Children(i) = 1 .. tokens[i].size /\ Len(Children(i)) = tokens[i].size
         /\ tokens[i].size \in Nat
         /\ \A n \in 1 .. tokens[i].size : n - 1 \in 0 .. tokens[i].size - 1
                                           /\ Children(i)[n] = Child(i, n - 1) /\ Children(i)[n] \in ChildrenOf(i)
<1>. DEFINE pick(n) == CHOOSE k \in ChildrenOf(i) : Cardinality({j \in ChildrenOf(i) : j < k}) = n - 1
<1>1. tokens[i].size \in Nat /\ tokens[i].size = Cardinality(ChildrenOf(i))
  BY ForestFacts DEF ChildrenOf, TypedForest, Forest, SizesAreChildren
<1>2. Children(i) = [n \in 1 .. tokens[i].size |-> pick(n)]
  BY <1>1 DEF Children, ChildrenOf
<1>3. ASSUME NEW n \in 1 .. tokens[i].size
      PROVE  n - 1 \in 0 .. tokens[i].size - 1 /\ pick(n) = Child(i, n - 1) /\ pick(n) \in ChildrenOf(i)
  <2>1. PICK m \in Nat : m = n - 1 /\ m \in 0 .. tokens[i].size - 1
    BY <1>1
  <2>2. NthChild(i, m, Child(i, m))
    BY <2>1, ChildIsNth
  <2>3. \A k : NthChild(i, m, k) => k = Child(i, m)
    <3>. SUFFICES ASSUME NEW k, NthChild(i, m, k)
                  PROVE  k = Child(i, m)
      OBVIOUS
    <3>1. ~ (k < Child(i, m)) /\ ~ (Child(i, m) < k)
      BY <2>1, <2>2, NthOrder
    <3>2. k \in Nat /\ Child(i, m) \in Nat
      BY <2>2, ForestFacts DEF NthChild, ChildrenOf
    <3>. QED
      BY <3>1, <3>2
  <2>4. \A k : NthChild(i, m, k) <=> k \in ChildrenOf(i) /\ Cardinality({j \in ChildrenOf(i) : j < k}) = m
    BY DEF NthChild
  <2>5. pick(n) = Child(i, m) /\ pick(n) \in ChildrenOf(i)
    <3>1. \E k \in ChildrenOf(i) : Cardinality({j \in ChildrenOf(i) : j < k}) = n - 1
      BY <2>1, <2>2, <2>4
    <3>2. pick(n) \in ChildrenOf(i) /\ Cardinality({j \in ChildrenOf(i) : j < pick(n)}) = n - 1
      BY <3>1
    <3>. HIDE DEF pick
    <3>. QED
      BY <2>1, <2>3, <2>4, <3>2
  <2>. QED
    BY <2>1, <2>5
<1>. HIDE DEF pick
<1>4. DOMAIN Children(i) = 1 .. tokens[i].size /\ Len(Children(i)) = tokens[i].size
  BY <1>1, <1>2
<1>. QED
  BY <1>1, <1>2, <1>3, <1>4

\* A look-up by name or index in a document, from an object or array.
LEMMA LooksUp ==
  ASSUME DocumentsInv, Usable, IsDocument(js), tokens[cur].type \in {"object", "array"}
  PROVE  LookupRight
<1>. DEFINE size == tokens[cur].size
            children == Children(cur)
<1>1. Done /\ cur \in DOMAIN tokens
  BY DEF Usable, Done
<1>2. TypedForest /\ Formed /\ \A i \in DOMAIN tokens : IsKey(i) => ChildrenOf(i) = {i + 1}
  BY <1>1, DocumentFacts
<1>3. /\ DOMAIN children = 1 .. size /\ Len(children) = size /\ size \in Nat
      /\ \A n \in 1 .. size : n - 1 \in 0 .. size - 1 /\ children[n] = Child(cur, n - 1) /\ children[n] \in ChildrenOf(cur)
  BY <1>1, <1>2, ChildrenAre
<1>4. ASSUME tokens[cur].type = "object", NEW name,
             NEW named, named = {n \in 1 .. size : TextOf(tokens[children[n]]) = name},
             NEW key, key = IF named = {} THEN 0 ELSE children[Min(named)]
      PROVE  /\ json_obj_search(name) = key
             /\ key # 0 => {j \in DOMAIN tokens : tokens[j].parent = key} = {key + 1}
  <2>1. PICK found : found = {n \in 0 .. size - 1 : token_matches_str(Child(cur, n), name)}
    OBVIOUS
  <2>2. json_obj_search(name) = IF found # {} THEN Child(cur, Min(found)) ELSE 0
    BY <1>4, <2>1 DEF json_obj_search
  <2>. HIDE DEF size, children
  <2>3. \A n \in 1 .. size : n \in named <=> n - 1 \in found
    BY <1>3, <1>4, <2>1 DEF token_matches_str
  <2>4. \A n \in 0 .. size - 1 : n + 1 \in 1 .. size /\ n + 1 - 1 = n
    BY <1>3
  <2>5. named \subseteq 1 .. size /\ found \subseteq 0 .. size - 1 /\ named \in SUBSET Nat /\ found \in SUBSET Nat
    BY <1>3, <1>4, <2>1
  <2>6. CASE named = {}
    <3>1. found = {}
      BY <2>3, <2>4, <2>5, <2>6
    <3>. QED
      BY <1>4, <2>2, <2>6, <3>1
  <2>7. CASE named # {}
    <3>1. Min(named) \in named /\ \A n \in named : Min(named) <= n
      BY <2>5, <2>7, MinIsLeast
    <3>2. PICK m : m = Min(named)
      OBVIOUS
    <3>3. m \in 1 .. size /\ m - 1 \in found
      BY <2>3, <2>5, <3>1, <3>2
    <3>4. Min(found) \in found /\ \A n \in found : Min(found) <= n
      BY <2>5, <3>3, MinIsLeast
    <3>5. PICK l : l = Min(found)
      OBVIOUS
    <3>6. l \in 0 .. size - 1 /\ l + 1 \in named
      <4>1. l \in found /\ l \in 0 .. size - 1
        BY <2>5, <3>4, <3>5
      <4>2. PICK x : x = l + 1
        OBVIOUS
      <4>3. x \in 1 .. size /\ x - 1 \in found
        BY <2>4, <4>1, <4>2
      <4>. QED
        BY <2>3, <4>1, <4>2, <4>3
    <3>7. l <= m - 1 /\ m <= l + 1
      BY <3>1, <3>2, <3>3, <3>4, <3>5, <3>6
    <3>8. l = m - 1
      BY <1>3, <3>3, <3>6, <3>7
    <3>9. json_obj_search(name) = key /\ key \in ChildrenOf(cur)
      BY <1>3, <1>4, <2>2, <2>7, <3>2, <3>3, <3>5, <3>8
    <3>10. IsKey(key) /\ key \in DOMAIN tokens
      <4>1. key \in DOMAIN tokens /\ tokens[key].parent = cur /\ cur # 0
        BY <1>1, <1>2, <3>9, ForestFacts DEF ChildrenOf
      <4>2. tokens[key].type = "string"
        BY <1>2, <1>4, <4>1 DEF Formed
      <4>. QED
        BY <1>4, <4>1, <4>2 DEF IsKey
    <3>. QED
      BY <1>2, <3>9, <3>10 DEF ChildrenOf
  <2>. QED
    BY <2>6, <2>7
<1>5. ASSUME tokens[cur].type = "array", NEW index \in 0 .. Len(children)
      PROVE  json_arr_search(index) = IF index < Len(children) THEN children[index + 1] ELSE 0
  <2>1. index < size => index + 1 \in 1 .. size /\ index + 1 - 1 = index
    BY <1>3, <1>5
  <2>. QED
    BY <1>3, <1>5, <2>1 DEF json_arr_search
<1>6. CASE tokens[cur].type = "object"
  <2>1. \A name \in Names :
          LET named == {n \in DOMAIN children : TextOf(tokens[children[n]]) = name}
              key == IF named = {} THEN 0 ELSE children[Min(named)]
          IN  /\ json_obj_search(name) = key
              /\ key # 0 => {j \in DOMAIN tokens : tokens[j].parent = key} = {key + 1}
    <3>. SUFFICES ASSUME NEW name \in Names,
                         NEW named, named = {n \in DOMAIN children : TextOf(tokens[children[n]]) = name},
                         NEW key, key = IF named = {} THEN 0 ELSE children[Min(named)]
                  PROVE  /\ json_obj_search(name) = key
                         /\ key # 0 => {j \in DOMAIN tokens : tokens[j].parent = key} = {key + 1}
      OBVIOUS
    <3>1. named = {n \in 1 .. size : TextOf(tokens[children[n]]) = name}
      BY <1>3
    <3>. QED
      BY <1>4, <1>6, <3>1
  <2>. QED
    BY <1>6, <2>1 DEF LookupRight
<1>7. CASE tokens[cur].type = "array"
  BY <1>5, <1>7 DEF LookupRight
<1>. QED
  BY <1>6, <1>7

-------------------------------------------------------------------------------
(* Entering and leaving.                                                   *)

\* What a token that has been entered says about where it was entered from: the
\* array is its parent, and the object the parent of its key.
Entered(e, from) ==
  /\ from \in Nat \ {0}
  /\ e.token \in DOMAIN tokens /\ tokens[e.token].type \in {"object", "array"}
  /\ e.how = "arr" => Parent(e.token) = from
  /\ e.how = "obj" => Parent(e.token) # 0 /\ Parent(Parent(e.token)) = from

\* The token behind the first n entries of the path.
Reached(n) == IF n = 0 THEN 1 ELSE path[n].token

\* In a document the path is the way from the root to the token that was entered last.
PathInv ==
  /\ pass # "done" => path = <<>>
  /\ Done /\ IsDocument(js) =>
       cur = Reached(Len(path)) /\ \A n \in 1 .. Len(path) : Entered(path[n], Reached(n - 1))

\* In a document cur is always an object or array.
LEMMA CurIs ==
  ASSUME DocumentsInv, CursorInv, PathInv, Done, IsDocument(js)
  PROVE  cur \in DOMAIN tokens /\ cur # 0 /\ tokens[cur].type \in {"object", "array"}
<1>1. path \in Seq(Entry) /\ Len(path) \in Nat
  BY LenProperties DEF CursorInv
<1>2. CASE Len(path) = 0
  BY <1>2, DocumentFacts DEF PathInv, Reached
<1>3. CASE Len(path) # 0
  <2>1. Len(path) \in 1 .. Len(path)
    BY <1>1, <1>3
  <2>2. cur = path[Len(path)].token /\ Entered(path[Len(path)], Reached(Len(path) - 1))
    BY <1>3, <2>1 DEF PathInv, Reached
  <2>3. 0 \notin DOMAIN tokens
    BY DocumentFacts
  <2>. QED
    BY <2>2, <2>3 DEF Entered
<1>. QED
  BY <1>2, <1>3

LEMMA EnterPath ==
  ASSUME CursorInv, PathInv, Done, IsDocument(js), NEW how \in {"obj", "arr"}, NEW tok \in Nat,
         Enter(how, tok), Entered([how |-> how, token |-> tok], cur)
  PROVE  PathInv'
<1>. DEFINE e == [how |-> how, token |-> tok]
<1>1. path \in Seq(Entry) /\ Len(path) \in Nat /\ e \in Entry
  BY LenProperties DEF CursorInv, Entry
<1>2. e.token = tok
  OBVIOUS
<1>. HIDE DEF e
<1>3. /\ path' = Append(path, e) /\ cur' = tok /\ UNCHANGED vars
      /\ Entered(e, cur)
  BY DEF Enter, e
<1>4. /\ Len(path') = Len(path) + 1
      /\ \A i \in 1 .. Len(path) : path'[i] = path[i]
      /\ path'[Len(path) + 1] = e
  BY <1>1, <1>3, AppendProperties
<1>5. /\ cur = Reached(Len(path))
      /\ \A n \in 1 .. Len(path) : Entered(path[n], Reached(n - 1))
  BY DEF PathInv
<1>6. \A n \in 0 .. Len(path) : Reached(n)' = Reached(n)
  BY <1>1, <1>4 DEF Reached
<1>7. (cur = Reached(Len(path)))'
  BY <1>1, <1>2, <1>3, <1>4 DEF Reached
<1>8. ASSUME NEW n \in 1 .. Len(path) + 1
      PROVE  Entered(path[n], Reached(n - 1))'
  <2>1. n - 1 \in 0 .. Len(path)
    BY <1>1
  <2>2. Reached(n - 1)' = Reached(n - 1)
    BY <1>6, <2>1
  <2>3. CASE n = Len(path) + 1
    <3>1. Reached(n - 1) = cur /\ path'[n] = e
      BY <1>1, <1>4, <1>5, <2>3
    <3>2. Entered(path'[n], Reached(n - 1)')
      BY <1>3, <2>2, <3>1
    <3>. QED
      BY <1>3, <3>2 DEF Entered, Parent, vars
  <2>4. CASE n # Len(path) + 1
    <3>1. n \in 1 .. Len(path) /\ path'[n] = path[n]
      BY <1>1, <1>4, <2>4
    <3>2. Entered(path'[n], Reached(n - 1)')
      BY <1>5, <2>2, <3>1
    <3>. QED
      BY <1>3, <3>2 DEF Entered, Parent, vars
  <2>. QED
    BY <2>3, <2>4
<1>9. pass' = "done"
  BY <1>3 DEF vars, Done
<1>. QED
  BY <1>4, <1>7, <1>8, <1>9 DEF PathInv

LEMMA LeavePath ==
  ASSUME CursorInv, PathInv, Done, IsDocument(js), NEW how, NEW tok, LeaveTo(how, tok),
         tok = Reached(Len(path) - 1)
  PROVE  PathInv'
<1>1. path \in Seq(Entry) /\ Len(path) \in Nat /\ path # <<>>
  BY LenProperties DEF CursorInv, LeaveTo
<1>2. PICK m \in Nat : m = Len(path) - 1
  <2>1. Len(path) # 0
    BY <1>1, EmptySeq
  <2>. QED
    BY <1>1, <2>1
<1>3. path' = SubSeq(path, 1, m) /\ cur' = tok /\ UNCHANGED vars
  BY <1>2 DEF LeaveTo, Front
<1>4. /\ Len(path') = m
      /\ \A i \in 1 .. m : path'[i] = path[i]
  <2>1. \A i \in 1 .. m : path[i] \in Entry
    BY <1>1, <1>2, ElementOfSeq
  <2>2. /\ Len(SubSeq(path, 1, m)) = IF 1 <= m THEN m - 1 + 1 ELSE 0
        /\ \A i \in 1 .. m - 1 + 1 : SubSeq(path, 1, m)[i] = path[1 + i - 1]
    BY <1>2, <2>1, SubSeqProperties
  <2>3. Len(SubSeq(path, 1, m)) = m
    BY <1>2, <2>2
  <2>4. \A i \in 1 .. m : i \in 1 .. m - 1 + 1 /\ 1 + i - 1 = i
    BY <1>2
  <2>. QED
    BY <1>3, <2>2, <2>3, <2>4
<1>5. /\ cur = Reached(Len(path))
      /\ \A n \in 1 .. Len(path) : Entered(path[n], Reached(n - 1))
  BY DEF PathInv
<1>6. \A n \in 0 .. m : Reached(n)' = Reached(n)
  BY <1>2, <1>4 DEF Reached
<1>7. (cur = Reached(Len(path)))'
  <2>1. Reached(m)' = Reached(m) /\ tok = Reached(m)
    BY <1>2, <1>6
  <2>. QED
    BY <1>3, <1>4, <2>1
<1>8. ASSUME NEW n \in 1 .. m
      PROVE  Entered(path[n], Reached(n - 1))'
  <2>1. n - 1 \in 0 .. m /\ n \in 1 .. Len(path)
    BY <1>1, <1>2
  <2>2. Reached(n - 1)' = Reached(n - 1) /\ path'[n] = path[n]
    BY <1>4, <1>6, <2>1
  <2>3. Entered(path'[n], Reached(n - 1)')
    BY <1>5, <2>1, <2>2
  <2>. QED
    BY <1>3, <2>3 DEF Entered, Parent, vars
<1>9. pass' = "done"
  BY <1>3 DEF vars, Done
<1>. QED
  BY <1>4, <1>7, <1>8, <1>9 DEF PathInv

LEMMA PathStep ==
  ASSUME DocumentsInv, CursorInv, PathInv, [PNext]_pvars
  PROVE  PathInv'
<1>1. ParserInv /\ cur \in Nat /\ path \in Seq(Entry) /\ Len(path) \in Nat
  BY LenProperties DEF CursorInv
<1>2. CASE UNCHANGED pvars
  BY <1>2 DEF PathInv, pvars, vars, Done, Reached, Entered, Parent
<1>3. CASE Parse
  <2>1. pass \in {"count", "fill"} /\ path' = path
    BY <1>3 DEF Parse, json_parse_start, jsmn_parse, StartFill, Fill, ParseFails, ParseOk
  <2>2. path' = <<>>
    BY <2>1 DEF PathInv
  <2>3. pass' = "done" => cur' = 1
    BY <1>3 DEF Parse
  <2>. QED
    BY <2>2, <2>3 DEF PathInv, Done, Reached
<1>4. CASE json_parse_end
  BY <1>4 DEF json_parse_end, PathInv, Done
<1>5. ASSUME Usable, IsDocument(js)
      PROVE  /\ Done /\ LookupRight
             /\ DOMAIN tokens = 1 .. Len(tokens) /\ cur \in Nat \ {0} /\ TypedForest /\ cur \in DOMAIN tokens
  <2>1. TypedForest
    BY <1>1 DEF ParserInv, TypeOK, TypedForest, Forest
  <2>2. LookupRight
    BY <1>5, CurIs, LooksUp DEF Usable, Done
  <2>. QED
    BY <1>5, <2>1, <2>2, ForestFacts DEF Usable, Done
<1>6. ASSUME UNCHANGED vars, path' \in Seq(Entry), ~IsDocument(js), Usable
      PROVE  PathInv'
  BY <1>6 DEF PathInv, vars, Usable
<1>7. ASSUME NEW type \in {"object", "array"}, NEW name \in Names, ObjEnter(name, type)
      PROVE  PathInv'
  <2>1. PICK tok \in json_obj_get_val_tok(name, type) : Usable /\ Enter("obj", tok)
    BY <1>7 DEF ObjEnter
  <2>2. CASE ~IsDocument(js)
    BY <2>1, <2>2 DEF Enter, PathInv, vars, Usable
  <2>3. CASE IsDocument(js)
    <3>. DEFINE key == json_obj_search(name)
    <3>1. tok = key + 1 /\ key # 0 /\ tok # 0
      BY <2>1 DEF json_obj_get_val_tok, Enter
    <3>2. tokens[cur].type = "object"
      BY <3>1 DEF json_obj_search
    <3>3. {j \in DOMAIN tokens : tokens[j].parent = key} = {key + 1}
      BY <1>5, <2>1, <2>3, <3>1, <3>2 DEF LookupRight
    <3>4. key \in ChildrenOf(cur)
      <4>1. FirstNamed(name, key)
        BY <1>5, <2>1, <2>3, <3>2, ObjSearch
      <4>. QED
        BY <3>1, <4>1 DEF FirstNamed
    <3>. HIDE DEF key
    <3>5. key \in Nat /\ tok \in Nat /\ Parent(tok) = key /\ Parent(key) = cur
      BY <1>5, <2>1, <2>3, <3>1, <3>3, <3>4 DEF ChildrenOf, Parent
    <3>6. tok \in DOMAIN tokens /\ tokens[tok].type = type
      <4>1. tok \in DOMAIN tokens /\ tok # Len(tokens) + 1
        BY <1>5, <2>1, <2>3, <3>1, <3>3
      <4>. QED
        BY <2>1, <3>1, <4>1 DEF json_obj_get_val_tok, key
    <3>7. Entered([how |-> "obj", token |-> tok], cur)
      BY <1>5, <1>7, <2>1, <2>3, <3>1, <3>5, <3>6 DEF Entered
    <3>. QED
      BY <1>5, <2>1, <2>3, <3>5, <3>7, EnterPath
  <2>. QED
    BY <2>2, <2>3
<1>8. ASSUME NEW type \in {"object", "array"}, NEW index \in Nat, ArrEnter(index, type)
      PROVE  PathInv'
  <2>. DEFINE tok == json_arr_get_val_tok(index, type)
  <2>1. Usable /\ Enter("arr", tok)
    BY <1>8 DEF ArrEnter
  <2>2. CASE ~IsDocument(js)
    BY <2>1, <2>2 DEF Enter, PathInv, vars, Usable
  <2>3. CASE IsDocument(js)
    <3>1. tok # 0
      BY <2>1 DEF Enter
    <3>2. tok = json_arr_search(index)
      BY <3>1 DEF json_arr_get_val_tok
    <3>3. tokens[cur].type = "array" /\ index < tokens[cur].size /\ tok = Child(cur, index)
      BY <3>1, <3>2 DEF json_arr_search
    <3>4. tokens[cur].size \in Nat
      BY <1>5, <2>1, <2>3, ForestFacts
    <3>5. index \in 0 .. tokens[cur].size - 1
      BY <3>3, <3>4
    <3>6. NthChild(cur, index, tok)
      BY <1>5, <2>1, <2>3, <3>3, <3>5, ChildIsNth
    <3>7. tok \in Nat /\ tok \in DOMAIN tokens /\ Parent(tok) = cur /\ tokens[tok].type = type
      <4>1. tok \in Nat /\ tok \in DOMAIN tokens /\ Parent(tok) = cur
        BY <1>5, <2>1, <2>3, <3>6 DEF NthChild, ChildrenOf, Parent
      <4>2. tokens[tok].type = type
        BY <3>1 DEF json_arr_get_val_tok
      <4>. QED
        BY <4>1, <4>2
    <3>. HIDE DEF tok
    <3>8. Entered([how |-> "arr", token |-> tok], cur)
      BY <1>5, <1>8, <2>1, <2>3, <3>1, <3>7 DEF Entered
    <3>. QED
      BY <1>5, <2>1, <2>3, <3>7, <3>8, EnterPath
  <2>. QED
    BY <2>2, <2>3
<1>9. ASSUME NEW how, NEW tok, LeaveTo(how, tok), IsDocument(js)
      PROVE  /\ Done /\ path # <<>> /\ path[Len(path)].how = how
             /\ cur = path[Len(path)].token
             /\ Entered(path[Len(path)], Reached(Len(path) - 1))
  <2>1. Usable /\ path # <<>> /\ path[Len(path)].how = how
    BY <1>9 DEF LeaveTo, Last
  <2>2. Len(path) # 0
    BY <1>1, <2>1, EmptySeq
  <2>3. Len(path) \in 1 .. Len(path)
    BY <1>1, <2>2
  <2>. QED
    BY <1>9, <2>1, <2>2, <2>3 DEF PathInv, Reached, Usable, Done
<1>10. CASE json_obj_leave
  <2>. DEFINE tok == IF Parent(cur) = 0 THEN cur
                     ELSE IF Parent(Parent(cur)) = 0 THEN Parent(cur) ELSE Parent(Parent(cur))
  <2>1. LeaveTo("obj", tok)
    BY <1>10 DEF json_obj_leave
  <2>2. CASE ~IsDocument(js)
    BY <2>1, <2>2 DEF LeaveTo, PathInv, vars, Usable
  <2>3. CASE IsDocument(js)
    <3>1. Done /\ tok = Reached(Len(path) - 1)
      BY <1>9, <2>1, <2>3 DEF Entered
    <3>. QED
      BY <2>1, <2>3, <3>1, LeavePath
  <2>. QED
    BY <2>2, <2>3
<1>11. CASE json_arr_leave
  <2>. DEFINE tok == IF Parent(cur) = 0 THEN cur ELSE Parent(cur)
  <2>1. LeaveTo("arr", tok)
    BY <1>11 DEF json_arr_leave
  <2>2. CASE ~IsDocument(js)
    BY <2>1, <2>2 DEF LeaveTo, PathInv, vars, Usable
  <2>3. CASE IsDocument(js)
    <3>1. Done /\ tok = Reached(Len(path) - 1)
      BY <1>9, <2>1, <2>3 DEF Entered
    <3>. QED
      BY <2>1, <2>3, <3>1, LeavePath
  <2>. QED
    BY <2>2, <2>3
<1>12. CASE Call
  <2>1. \A index \in 0 .. Len(tokens) : index \in Nat
    OBVIOUS
  <2>. QED
    BY <1>4, <1>7, <1>8, <1>10, <1>11, <1>12, <2>1 DEF Call
<1>. QED
  BY <1>2, <1>3, <1>12 DEF PNext

\* The inductive invariant with the calls that move cur.
RoamingInv == DocumentsInv /\ CursorInv /\ PathInv

\* The calls that enter and leave objects and arrays keep it.
THEOREM RoamingInvariant == PSpec => []RoamingInv
<1>1. PInit => CursorInv
  <2>1. PInit => ParserInv
    BY InitInv
  <2>2. <<>> \in Seq(Entry)
    OBVIOUS
  <2>. QED
    BY <2>1, <2>2 DEF PInit, CursorInv
<1>2. PInit => PathInv
  BY DEF PInit, Init, PathInv, Done
<1>. QED
  BY <1>1, <1>2, DocumentsInvariant, CursorStep, PathStep, PTL DEF PSpec, RoamingInv

\* In a document every look-up is right, after any sequence of calls: by name it finds
\* the first member of that name, which has a value, and by index the element there.
THEOREM LookingUp == PSpec => []LookupRight
<1>1. RoamingInv => LookupRight
  <2>. SUFFICES ASSUME RoamingInv, Usable, IsDocument(js)
                PROVE  LookupRight
    BY DEF LookupRight
  <2>1. tokens[cur].type \in {"object", "array"}
    BY CurIs DEF RoamingInv, Usable, Done
  <2>. QED
    BY <2>1, LooksUp DEF RoamingInv
<1>. QED
  BY <1>1, RoamingInvariant, PTL

\* In a document leaving returns to what was entered from, after any sequence of
\* calls and at any depth.
THEOREM LeavingReturns == PSpec => []LeaveReturns
<1>1. RoamingInv => LeaveReturns
  <2>. SUFFICES ASSUME PathInv, CursorInv, Done, IsDocument(js)
                PROVE  cur = IF path = <<>> THEN 1 ELSE Last(path).token
    BY DEF LeaveReturns, RoamingInv
  <2>1. path = <<>> <=> Len(path) = 0
    BY EmptySeq DEF CursorInv
  <2>. QED
    BY <2>1 DEF PathInv, Reached, Last
<1>. QED
  BY <1>1, RoamingInvariant, PTL

-------------------------------------------------------------------------------
(* The tokens and the text.                                                *)

\* The text between two positions is w when it is written without white space.
Gap(x, a, b, w) ==
  a \in 0 .. Len(x) /\ b \in 0 .. Len(x) /\ a <= b /\ Compact(x, a, b) = w

\* The character behind position q, unless it is white space outside of strings.
Kept(x, q) == IF x[q] \in Space /\ Readings(x)[q - 1].lex # "string" THEN <<>> ELSE <<x[q]>>

LEMMA CompactIs ==
  ASSUME NEW x \in Seq(Char), NEW a \in 0 .. Len(x), NEW b \in 0 .. Len(x), a <= b
  PROVE  /\ Compact(x, a, b) = FlattenSeq([i \in 1 .. b - a |-> Kept(x, a + i)])
         /\ [i \in 1 .. b - a |-> Kept(x, a + i)] \in Seq(Seq(Char))
         /\ Compact(x, a, b) \in Seq(Char)
<1>. DEFINE k == [i \in 1 .. b - a |-> Kept(x, a + i)]
<1>1. Len(x) \in Nat /\ b - a \in Nat /\ \A q \in 1 .. Len(x) : x[q] \in Char
  BY LenProperties, ElementOfSeq
<1>2. Compact(x, a, b) = FlattenSeq(k)
  BY DEF Compact, Kept
<1>3. ASSUME NEW i \in 1 .. b - a
      PROVE  Kept(x, a + i) \in Seq(Char)
  <2>1. x[a + i] \in Char
    BY <1>1
  <2>2. <<>> \in Seq(Char) /\ <<x[a + i]>> \in Seq(Char)
    BY <2>1
  <2>. QED
    BY <2>2, Zenon DEF Kept
<1>4. k \in Seq(Seq(Char))
  <2>1. k \in [1 .. b - a -> Seq(Char)]
    BY <1>3
  <2>. HIDE DEF k
  <2>. QED
    BY <1>1, <2>1, IsASeq
<1>. HIDE DEF k
<1>5. FlattenSeq(k) \in Seq(Char)
  BY <1>4, FlattenType
<1>. QED
  BY <1>2, <1>4, <1>5 DEF k

LEMMA GapNone ==
  ASSUME NEW x \in Seq(Char), NEW a \in 0 .. Len(x)
  PROVE  Gap(x, a, a, <<>>)
<1>1. Len(x) \in Nat /\ a - a = 0 /\ a <= a
  BY LenProperties
<1>2. Compact(x, a, a) = FlattenSeq([i \in 1 .. a - a |-> Kept(x, a + i)])
  BY <1>1, CompactIs
<1>3. [i \in 1 .. a - a |-> Kept(x, a + i)] = <<>>
  BY <1>1
<1>4. Compact(x, a, a) = <<>>
  BY <1>2, <1>3, FlattenEmpty
<1>. QED
  BY <1>1, <1>4 DEF Gap

LEMMA GapOne ==
  ASSUME NEW x \in Seq(Char), NEW a \in 0 .. Len(x), a < Len(x)
  PROVE  Gap(x, a, a + 1, Kept(x, a + 1)) /\ Kept(x, a + 1) \in Seq(Char)
<1>1. PICK b : b = a + 1
  OBVIOUS
<1>2. Len(x) \in Nat /\ b \in 0 .. Len(x) /\ a <= b /\ b - a = 1
  BY <1>1, LenProperties
<1>. DEFINE k == [i \in 1 .. b - a |-> Kept(x, a + i)]
<1>3. Compact(x, a, b) = FlattenSeq(k) /\ k \in Seq(Seq(Char))
  BY <1>2, CompactIs
<1>4. k = <<Kept(x, a + 1)>>
  BY <1>2
<1>. HIDE DEF k
<1>5. Kept(x, a + 1) \in Seq(Char)
  <2>1. 1 \in 1 .. Len(k)
    BY <1>4
  <2>2. k[1] \in Seq(Char)
    BY <1>3, <2>1, ElementOfSeq
  <2>. QED
    BY <1>4, <2>2
<1>6. Compact(x, a, b) = Kept(x, a + 1)
  BY <1>3, <1>4, <1>5, FlattenShort
<1>. QED
  BY <1>1, <1>2, <1>5, <1>6 DEF Gap

\* Parts of the text, one behind the other.
LEMMA GapJoin ==
  ASSUME NEW x \in Seq(Char), NEW a, NEW b, NEW d, NEW v, NEW w, Gap(x, a, b, v), Gap(x, b, d, w)
  PROVE  /\ Gap(x, a, d, v ++ w)
         /\ v \in Seq(Char) /\ w \in Seq(Char)
<1>1. /\ Len(x) \in Nat /\ a \in 0 .. Len(x) /\ b \in 0 .. Len(x) /\ d \in 0 .. Len(x) /\ a <= b /\ b <= d
      /\ Compact(x, a, b) = v /\ Compact(x, b, d) = w
  BY LenProperties DEF Gap
<1>2. a <= d
  BY <1>1
<1>. DEFINE f == [i \in 1 .. b - a |-> Kept(x, a + i)]
            g == [i \in 1 .. d - b |-> Kept(x, b + i)]
            h == [i \in 1 .. d - a |-> Kept(x, a + i)]
<1>3. /\ v = FlattenSeq(f) /\ f \in Seq(Seq(Char)) /\ v \in Seq(Char)
      /\ w = FlattenSeq(g) /\ g \in Seq(Seq(Char)) /\ w \in Seq(Char)
      /\ Compact(x, a, d) = FlattenSeq(h) /\ h \in Seq(Seq(Char))
  BY <1>1, <1>2, CompactIs
<1>4. h = f \o g
  <2>1. /\ Len(f) = b - a /\ Len(g) = d - b /\ Len(h) = d - a
        /\ b - a \in Nat /\ d - b \in Nat /\ (b - a) + (d - b) = d - a
    BY <1>1
  <2>2. \A i \in 1 .. d - a : i <= b - a \/ (i - (b - a) \in 1 .. d - b /\ b + (i - (b - a)) = a + i)
    BY <1>1
  <2>3. \A i \in 1 .. d - a : h[i] = IF i <= b - a THEN f[i] ELSE g[i - (b - a)]
    BY <1>1, <2>2
  <2>. HIDE DEF f, g, h
  <2>4. /\ f \o g \in Seq(Seq(Char)) /\ Len(f \o g) = Len(f) + Len(g)
        /\ \A i \in 1 .. Len(f) + Len(g) : (f \o g)[i] = IF i <= Len(f) THEN f[i] ELSE g[i - Len(f)]
    BY <1>3, ConcatProperties
  <2>5. PICK k : k = f \o g
    OBVIOUS
  <2>6. k \in Seq(Seq(Char)) /\ Len(h) = Len(k) /\ \A i \in 1 .. Len(h) : h[i] = k[i]
    BY <2>1, <2>3, <2>4, <2>5
  <2>7. h = k
    BY <1>3, <2>6, SeqEqual
  <2>. QED
    BY <2>5, <2>7
<1>. HIDE DEF f, g, h
<1>5. Compact(x, a, d) = v ++ w
  BY <1>3, <1>4, FlattenJoin
<1>. QED
  BY <1>1, <1>2, <1>3, <1>5 DEF Gap

LEMMA GapOn ==
  ASSUME NEW x \in Seq(Char), NEW a, NEW b, NEW d, NEW w, Gap(x, a, b, w), Gap(x, b, d, <<>>)
  PROVE  Gap(x, a, d, w)
<1>1. Gap(x, a, d, w ++ <<>>) /\ w \in Seq(Char)
  BY GapJoin
<1>2. w ++ <<>> = w
  BY <1>1, JoinEmpty
<1>. QED
  BY <1>1, <1>2

LEMMA GapThen ==
  ASSUME NEW x \in Seq(Char), NEW a, NEW b, NEW d, NEW w, Gap(x, a, b, <<>>), Gap(x, b, d, w)
  PROVE  Gap(x, a, d, w)
<1>1. Gap(x, a, d, <<>> ++ w) /\ w \in Seq(Char)
  BY GapJoin
<1>2. <<>> ++ w = w
  BY <1>1, JoinEmpty
<1>. QED
  BY <1>1, <1>2

\* A single character.
LEMMA GapChar ==
  ASSUME NEW x \in Seq(Char), NEW a \in 0 .. Len(x), a < Len(x)
  PROVE  /\ x[a + 1] \notin Space => Gap(x, a, a + 1, <<x[a + 1]>>)
         /\ Readings(x)[a].lex # "string" /\ x[a + 1] \in Space => Gap(x, a, a + 1, <<>>)
<1>1. Gap(x, a, a + 1, Kept(x, a + 1))
  BY GapOne
<1>2. PICK q : q = a + 1
  OBVIOUS
<1>5. q - 1 = a
  BY <1>2, LenProperties
<1>3. x[a + 1] \notin Space => Kept(x, a + 1) = <<x[a + 1]>>
  BY Zenon DEF Kept
<1>4. Readings(x)[a].lex # "string" /\ x[a + 1] \in Space => Kept(x, a + 1) = <<>>
  <2>1. Readings(x)[q - 1].lex # "string" /\ x[q] \in Space => Kept(x, q) = <<>>
    BY Zenon DEF Kept
  <2>. QED
    BY <1>2, <1>5, <2>1, Zenon
<1>. QED
  BY <1>1, <1>3, <1>4

\* There is no white space outside of strings.
Plain(x, a, b) == \A q \in a + 1 .. b : x[q] \notin Space \/ Readings(x)[q - 1].lex = "string"

LEMMA PlainGap ==
  ASSUME NEW x \in Seq(Char), NEW a \in 0 .. Len(x), NEW b \in 0 .. Len(x), a <= b, Plain(x, a, b)
  PROVE  Gap(x, a, b, SubSeq(x, a + 1, b))
<1>. DEFINE A == {n \in 0 .. b - a : ~Gap(x, a, a + n, SubSeq(x, a + 1, a + n))}
<1>1. Len(x) \in Nat /\ b - a \in Nat /\ a + (b - a) = b
  BY LenProperties
<1>2. CASE A = {}
  <2>1. PICK n : n = b - a
    OBVIOUS
  <2>2. n \in 0 .. b - a
    BY <1>1, <2>1
  <2>3. n \notin A
    BY <1>2
  <2>. QED
    BY <1>1, <2>1, <2>2, <2>3
<1>3. CASE A # {}
  <2>1. A \in SUBSET Nat
    OBVIOUS
  <2>2. PICK n \in A : \A m \in A : n <= m
    <3>. HIDE DEF A
    <3>. QED
      BY <1>3, <2>1, LeastNatural
  <2>3. n \in 0 .. b - a /\ ~Gap(x, a, a + n, SubSeq(x, a + 1, a + n))
    OBVIOUS
  <2>4. n # 0
    <3>1. SubSeq(x, a + 1, a + 0) = <<>> /\ a + 0 = a
      BY <1>1
    <3>. QED
      BY <2>3, <3>1, GapNone
  <2>5. PICK m, p, q : m = n - 1 /\ p = a + m /\ q = a + n
    OBVIOUS
  <2>6. m \in 0 .. b - a /\ p \in 0 .. Len(x) /\ p < Len(x) /\ q = p + 1 /\ q \in a + 1 .. b /\ m \notin A
    <3>1. n \in 0 .. b - a
      BY <2>3
    <3>2. m \in 0 .. b - a /\ m < n /\ n \in Nat
      BY <1>1, <2>4, <2>5, <3>1
    <3>3. p \in 0 .. Len(x) /\ p < Len(x) /\ q = p + 1 /\ q \in a + 1 .. b
      BY <1>1, <2>4, <2>5, <3>1
    <3>4. m \notin A
      <4>1. m \in A => n <= m
        BY <2>2
      <4>2. m \in Nat
        BY <3>2
      <4>. HIDE DEF A
      <4>. QED
        BY <3>2, <4>1, <4>2
    <3>. QED
      BY <3>2, <3>3, <3>4
  <2>7. Gap(x, a, p, SubSeq(x, a + 1, p))
    BY <2>5, <2>6
  <2>. HIDE DEF A
  <2>8. Gap(x, p, q, <<x[q]>>)
    <3>1. Gap(x, p, p + 1, Kept(x, p + 1))
      BY <2>6, GapOne
    <3>2. x[q] \notin Space \/ Readings(x)[q - 1].lex = "string"
      BY <2>6 DEF Plain
    <3>3. Kept(x, q) = <<x[q]>>
      BY <3>2, Zenon DEF Kept
    <3>. QED
      BY <2>6, <3>1, <3>3
  <2>9. Gap(x, a, q, SubSeq(x, a + 1, p) ++ <<x[q]>>)
    BY <2>7, <2>8, GapJoin
  <2>10. SubSeq(x, a + 1, p) ++ <<x[q]>> = SubSeq(x, a + 1, q)
    <3>1. a + 1 \in 1 .. Len(x) /\ q \in a + 1 .. Len(x) /\ q - 1 = p
      BY <1>1, <2>5, <2>6
    <3>2. SubSeq(x, a + 1, q) = SubSeq(x, a + 1, q - 1) \o <<x[q]>>
      BY <3>1, SubSeqRecursiveSecond
    <3>. QED
      BY <3>1, <3>2 DEF ++
  <2>. QED
    BY <2>3, <2>5, <2>9, <2>10
<1>. QED
  BY <1>2, <1>3

\* Where a token and its own text begin and end, with the quotation marks; that of an
\* object or array is its first bracket.
Bracket(e) == e.type \in {"object", "array"}
First(e) == IF e.type = "string" THEN e.start - 1 ELSE e.start
Stop(e) == IF e.type = "string" THEN e.end + 1 ELSE e.end
Lead(e) == IF Bracket(e) THEN e.start + 1 ELSE Stop(e)
Opener(e) == IF e.type = "object" THEN <<"{">> ELSE <<"[">>
Closer(e) == IF e.type = "object" THEN <<"}">> ELSE <<"]">>

Own(x, e) ==
  /\ Bracket(e) => Gap(x, e.start, e.start + 1, Opener(e))
  /\ ~Bracket(e) => e.end # -1 /\ Gap(x, e.start, e.end, SubSeq(x, e.start + 1, e.end))
  /\ e.type = "primitive" => e.start < e.end /\ x[e.start + 1] \in Primitive
  /\ e.type = "string" => Gap(x, e.start - 1, e.start, <<"quote">>) /\ Gap(x, e.end, e.end + 1, <<"quote">>)

\* Where the element that begins with token k of t ends, that of a key with its
\* value, and that the text from there to q is w.
Named(t, k) == t[k].type = "string" /\ t[k].parent # 0 /\ t[t[k].parent].type = "object"
Ended(t, k) == t[k].end # -1 /\ (Named(t, k) => k < Len(t) /\ t[k + 1].end # -1)
After(t, k) == IF Named(t, k) THEN Stop(t[k + 1]) ELSE Stop(t[k])
Since(x, t, k, q, w) == Ended(t, k) /\ Gap(x, After(t, k), q, w)

\* Token k is the last child of p before token j.
Childless(t, p, j) == \A k \in 1 .. j - 1 : t[k].parent # p
Youngest(t, k, p, j) == k \in 1 .. j - 1 /\ t[k].parent = p /\ \A l \in k + 1 .. j - 1 : t[l].parent # p

\* What is between token p, or its last child before token j, and q.
Spans(x, t, p, j, q, w, v) ==
  /\ Childless(t, p, j) => Gap(x, Lead(t[p]), q, w)
  /\ \A k : Youngest(t, k, p, j) => Since(x, t, k, q, v)

Before(x, t, j) ==
  LET p == t[j].parent
  IN  IF p = 0 THEN Gap(x, 0, First(t[j]), <<>>)
      ELSE Spans(x, t, p, j, First(t[j]), IF t[p].type = "string" THEN <<":">> ELSE <<>>, <<",">>)

Ending(x, t, i) ==
  Bracket(t[i]) /\ t[i].end # -1 => Spans(x, t, i, Len(t) + 1, t[i].end, Closer(t[i]), Closer(t[i]))

\* The tokens t are where they should be in the text x.
Told(x, t) == \A i \in 1 .. Len(t) : Own(x, t[i]) /\ Before(x, t, i) /\ Ending(x, t, i)

\* What is between the tokens and q, in state s; p is the innermost open token.
Now(x, t, p, s, q) ==
  LET n == Len(t) IN
  /\ s.at = "start" => Gap(x, 0, q, <<>>)
  /\ s.at \in {"first", "member"} => Childless(t, p, n + 1) /\ Gap(x, Lead(t[p]), q, <<>>)
  /\ s.at = "colon" => Gap(x, Lead(t[n]), q, <<>>)
  /\ s.at = "value" /\ Inside(s, "object") => Gap(x, Lead(t[n]), q, <<":">>)
  /\ s.at = "name" \/ (s.at = "value" /\ Inside(s, "array")) =>
       \E k : Youngest(t, k, p, n + 1) /\ Since(x, t, k, q, <<",">>)
  /\ s.at = "after" => \E k : Youngest(t, k, p, n + 1) /\ Since(x, t, k, q, <<>>)

-------------------------------------------------------------------------------
(* What stays as it is told.                                               *)

\* The tokens t, of which some may end, and others behind them.
Longer(t, u) ==
  /\ Len(t) \in Nat /\ Len(u) \in Nat /\ Len(t) <= Len(u)
  /\ \A i \in 1 .. Len(t) :
       /\ t[i].parent \in 0 .. i - 1
       /\ u[i].type = t[i].type /\ u[i].parent = t[i].parent /\ u[i].start = t[i].start
       /\ t[i].end # -1 => u[i].end = t[i].end

LEMMA SinceStays ==
  ASSUME NEW x, NEW t, NEW u, Longer(t, u), NEW k \in 1 .. Len(t), NEW q, NEW w, Since(x, t, k, q, w)
  PROVE  Since(x, u, k, q, w)
<1>1. /\ Len(t) \in Nat /\ Len(u) \in Nat /\ Len(t) <= Len(u)
      /\ t[k].parent \in 0 .. k - 1
      /\ u[k].type = t[k].type /\ u[k].parent = t[k].parent
      /\ t[k].end # -1 => u[k].end = t[k].end
  BY DEF Longer
<1>2. t[k].end # -1 /\ (Named(t, k) => k < Len(t) /\ t[k + 1].end # -1) /\ Gap(x, After(t, k), q, w)
  BY DEF Since, Ended
<1>3. Named(u, k) <=> Named(t, k)
  <2>1. t[k].parent # 0 => t[k].parent \in 1 .. Len(t)
    BY <1>1
  <2>2. t[k].parent # 0 => u[t[k].parent].type = t[t[k].parent].type
    BY <2>1 DEF Longer
  <2>. QED
    BY <1>1, <2>2 DEF Named
<1>4. CASE Named(t, k)
  <2>1. PICK l : l = k + 1
    OBVIOUS
  <2>2. l \in 1 .. Len(t) /\ t[l].end # -1 /\ k < Len(u)
    BY <1>1, <1>2, <1>4, <2>1
  <2>3. u[l].type = t[l].type /\ u[l].end = t[l].end
    BY <2>2 DEF Longer
  <2>4. Stop(u[l]) = Stop(t[l])
    BY <2>3 DEF Stop
  <2>5. After(u, k) = After(t, k)
    BY <1>3, <1>4, <2>1, <2>4 DEF After
  <2>6. Ended(u, k)
    BY <1>1, <1>2, <2>1, <2>2, <2>3 DEF Ended
  <2>. QED
    BY <1>2, <2>5, <2>6 DEF Since
<1>5. CASE ~Named(t, k)
  <2>1. Stop(u[k]) = Stop(t[k])
    BY <1>1, <1>2 DEF Stop
  <2>2. After(u, k) = After(t, k)
    BY <1>3, <1>5, <2>1 DEF After
  <2>3. Ended(u, k)
    BY <1>1, <1>2, <1>3, <1>5 DEF Ended
  <2>. QED
    BY <1>2, <2>2, <2>3 DEF Since
<1>. QED
  BY <1>4, <1>5

\* No child of p begins between the tokens j and m.
LEMMA SpansStays ==
  ASSUME NEW x, NEW t, NEW u, Longer(t, u),
         NEW p \in 1 .. Len(t), Bracket(t[p]) \/ t[p].end # -1,
         NEW j \in 1 .. Len(t) + 1, NEW m \in j .. Len(u) + 1, \A l \in j .. m - 1 : u[l].parent # p,
         NEW q, NEW w, NEW v, Spans(x, t, p, j, q, w, v)
  PROVE  Spans(x, u, p, m, q, w, v)
<1>1. /\ Len(t) \in Nat /\ Len(u) \in Nat /\ Len(t) <= Len(u)
      /\ \A i \in 1 .. Len(t) : u[i].parent = t[i].parent
  BY DEF Longer
<1>2. Lead(u[p]) = Lead(t[p])
  BY DEF Longer, Lead, Bracket, Stop
<1>3. ASSUME Childless(u, p, m)
      PROVE  Gap(x, Lead(u[p]), q, w)
  <2>1. \A k \in 1 .. j - 1 : k \in 1 .. m - 1 /\ k \in 1 .. Len(t)
    BY <1>1
  <2>2. Childless(t, p, j)
    BY <1>1, <1>3, <2>1 DEF Childless
  <2>. QED
    BY <1>2, <2>2 DEF Spans
<1>4. ASSUME NEW k, Youngest(u, k, p, m)
      PROVE  Since(x, u, k, q, v)
  <2>1. k \in 1 .. m - 1 /\ u[k].parent = p /\ \A l \in k + 1 .. m - 1 : u[l].parent # p
    BY <1>4 DEF Youngest
  <2>2. k \in 1 .. j - 1 /\ k \in 1 .. Len(t)
    BY <1>1, <2>1
  <2>3. \A l \in k + 1 .. j - 1 : l \in k + 1 .. m - 1 /\ l \in 1 .. Len(t)
    BY <1>1, <2>2
  <2>4. Youngest(t, k, p, j)
    BY <1>1, <2>1, <2>2, <2>3 DEF Youngest
  <2>5. Since(x, t, k, q, v)
    BY <2>4 DEF Spans
  <2>. QED
    BY <2>2, <2>5, SinceStays
<1>. QED
  BY <1>3, <1>4 DEF Spans

\* The old tokens, if no new one is a child of what has ended.
LEMMA ToldStays ==
  ASSUME NEW x, NEW t, NEW u, Longer(t, u), Told(x, t), NEW i \in 1 .. Len(t)
  PROVE  /\ Own(x, u[i]) /\ Before(x, u, i)
         /\ t[i].end # -1 /\ (\A l \in Len(t) + 1 .. Len(u) : u[l].parent # i) => Ending(x, u, i)
<1>1. Own(x, t[i]) /\ Before(x, t, i) /\ Ending(x, t, i)
  BY DEF Told
<1>2. /\ Len(t) \in Nat /\ Len(u) \in Nat /\ Len(t) <= Len(u)
      /\ t[i].parent \in 0 .. i - 1 /\ u[i].type = t[i].type /\ u[i].parent = t[i].parent
      /\ u[i].start = t[i].start /\ (t[i].end # -1 => u[i].end = t[i].end)
  BY DEF Longer
<1>3. Bracket(u[i]) <=> Bracket(t[i])
  BY <1>2 DEF Bracket
<1>4. Own(x, u[i])
  <2>1. CASE Bracket(t[i])
    <3>1. Bracket(u[i]) /\ u[i].type \notin {"primitive", "string"}
      BY <1>3, <2>1 DEF Bracket
    <3>2. Opener(u[i]) = Opener(t[i])
      BY <1>2 DEF Opener
    <3>. QED
      BY <1>1, <1>2, <2>1, <3>1, <3>2 DEF Own
  <2>2. CASE ~Bracket(t[i])
    <3>1. u[i].end = t[i].end
      BY <1>1, <1>2, <2>2 DEF Own
    <3>. QED
      BY <1>1, <1>2, <1>3, <2>2, <3>1 DEF Own
  <2>. QED
    BY <2>1, <2>2
<1>5. Before(x, u, i)
  <2>1. PICK p, q : p = t[i].parent /\ q = First(t[i])
    OBVIOUS
  <2>2. u[i].parent = p /\ First(u[i]) = q
    BY <1>2, <2>1 DEF First
  <2>3. CASE p = 0
    BY <1>1, <2>1, <2>2, <2>3 DEF Before
  <2>4. CASE p # 0
    <3>1. p \in 1 .. Len(t) /\ i \in 1 .. Len(t) + 1 /\ i \in i .. Len(u) + 1 /\ i .. i - 1 = {}
      BY <1>2, <2>1, <2>4
    <3>2. PICK w : w = IF t[p].type = "string" THEN <<":">> ELSE <<>>
      OBVIOUS
    <3>3. Spans(x, t, p, i, q, w, <<",">>)
      BY <1>1, <2>1, <2>4, <3>2 DEF Before
    <3>4. Own(x, t[p])
      BY <3>1 DEF Told
    <3>5. Bracket(t[p]) \/ t[p].end # -1
      BY <3>4 DEF Own
    <3>6. Spans(x, u, p, i, q, w, <<",">>)
      BY <3>1, <3>3, <3>5, SpansStays
    <3>7. u[p].type = t[p].type
      BY <3>1 DEF Longer
    <3>. QED
      BY <2>2, <2>4, <3>2, <3>6, <3>7 DEF Before
  <2>. QED
    BY <2>3, <2>4
<1>6. ASSUME t[i].end # -1, \A l \in Len(t) + 1 .. Len(u) : u[l].parent # i
      PROVE  Ending(x, u, i)
  <2>. SUFFICES ASSUME Bracket(u[i])
                PROVE  Spans(x, u, i, Len(u) + 1, u[i].end, Closer(u[i]), Closer(u[i]))
    BY DEF Ending
  <2>1. PICK j, m, q, w : j = Len(t) + 1 /\ m = Len(u) + 1 /\ q = t[i].end /\ w = Closer(t[i])
    OBVIOUS
  <2>2. u[i].end = q /\ Closer(u[i]) = w
    BY <1>2, <1>6, <2>1 DEF Closer
  <2>3. Spans(x, t, i, j, q, w, w)
    BY <1>1, <1>3, <1>6, <2>1 DEF Ending
  <2>4. j \in 1 .. Len(t) + 1 /\ m \in j .. Len(u) + 1 /\ (\A l \in j .. m - 1 : u[l].parent # i)
    BY <1>2, <1>6, <2>1
  <2>5. Spans(x, u, i, m, q, w, w)
    BY <1>6, <2>3, <2>4, SpansStays
  <2>. QED
    BY <2>1, <2>2, <2>5
<1>. QED
  BY <1>4, <1>5, <1>6

-------------------------------------------------------------------------------
(* What is told of the next token, and of what ends.                       *)

\* There is one youngest child.
LEMMA OneYoungest ==
  ASSUME NEW t, NEW p, NEW j \in Nat, NEW k, NEW l, Youngest(t, k, p, j), Youngest(t, l, p, j)
  PROVE  k = l
BY DEF Youngest

LEMMA SpansFirst ==
  ASSUME NEW x, NEW t, NEW p, NEW j, NEW q, NEW w, NEW v, Childless(t, p, j), Gap(x, Lead(t[p]), q, w)
  PROVE  Spans(x, t, p, j, q, w, v)
BY DEF Spans, Childless, Youngest

LEMMA SpansNext ==
  ASSUME NEW x, NEW t, NEW p, NEW j \in Nat, NEW q, NEW w, NEW v, NEW k, Youngest(t, k, p, j), Since(x, t, k, q, v)
  PROVE  Spans(x, t, p, j, q, w, v)
<1>1. ~Childless(t, p, j)
  BY DEF Childless, Youngest
<1>2. \A l : Youngest(t, l, p, j) => l = k
  BY OneYoungest
<1>. QED
  BY <1>1, <1>2 DEF Spans

LEMMA SinceThen ==
  ASSUME NEW x \in Seq(Char), NEW t, NEW k, NEW q, NEW r, NEW w, Since(x, t, k, q, <<>>), Gap(x, q, r, w)
  PROVE  Since(x, t, k, r, w)
BY GapThen DEF Since

LEMMA SinceOn ==
  ASSUME NEW x \in Seq(Char), NEW t, NEW k, NEW q, NEW r, NEW w, Since(x, t, k, q, w), Gap(x, q, r, <<>>)
  PROVE  Since(x, t, k, r, w)
BY GapOn DEF Since

\* White space.
LEMMA NowMoves ==
  ASSUME NEW x \in Seq(Char), NEW t, NEW p, NEW s, NEW q, NEW r, Now(x, t, p, s, q), Gap(x, q, r, <<>>)
  PROVE  Now(x, t, p, s, r)
<1>1. \A a, w : Gap(x, a, q, w) => Gap(x, a, r, w)
  BY GapOn
<1>2. \A k, w : Since(x, t, k, q, w) => Since(x, t, k, r, w)
  BY SinceOn
<1>. QED
  BY <1>1, <1>2 DEF Now

\* A colon and a comma.
LEMMA NowColon ==
  ASSUME NEW x \in Seq(Char), NEW t, NEW p, NEW s \in Readers, NEW q, NEW r, Now(x, t, p, s, q),
         s.at = "colon", Gap(x, q, r, <<":">>)
  PROVE  Now(x, t, p, [s EXCEPT !.at = "value"], r)
<1>1. PICK n, u : n = Len(t) /\ u = [s EXCEPT !.at = "value"]
  OBVIOUS
<1>2. Gap(x, Lead(t[n]), q, <<>>)
  BY <1>1 DEF Now
<1>3. Gap(x, Lead(t[n]), r, <<":">>)
  BY <1>2, GapThen
<1>4. u.at = "value" /\ u.open = s.open /\ Inside(s, "object")
  BY <1>1 DEF Readers, Reader, Sane
<1>5. ~Inside(u, "array")
  BY <1>4 DEF Inside
<1>. QED
  BY <1>1, <1>3, <1>4, <1>5 DEF Now

LEMMA NowComma ==
  ASSUME NEW x \in Seq(Char), NEW t, NEW p, NEW s \in Readers, NEW q, NEW r, Now(x, t, p, s, q),
         s.at = "after", Gap(x, q, r, <<",">>),
         NEW at, \/ Inside(s, "object") /\ at = "name"
                 \/ Inside(s, "array") /\ at = "value"
  PROVE  Now(x, t, p, [s EXCEPT !.at = at], r)
<1>1. PICK n, u : n = Len(t) + 1 /\ u = [s EXCEPT !.at = at]
  OBVIOUS
<1>2. PICK k : Youngest(t, k, p, n) /\ Since(x, t, k, q, <<>>)
  BY <1>1 DEF Now
<1>3. Since(x, t, k, r, <<",">>)
  BY <1>2, SinceThen
<1>4. u.at = at /\ u.open = s.open /\ at \in {"name", "value"}
  BY <1>1 DEF Readers, Reader
<1>5. at = "value" => ~Inside(u, "object")
  BY <1>4 DEF Inside
<1>. QED
  BY <1>1, <1>2, <1>3, <1>4, <1>5 DEF Now

\* Where the next token goes in state s; p is the innermost open token.
Placed(t, p, s, sp) ==
  \/ s.at = "start" /\ sp = 0
  \/ s.at \in {"first", "value"} /\ Inside(s, "array") /\ sp = p /\ p \in 1 .. Len(t) /\ t[p].type = "array"
  \/ s.at = "value" /\ Inside(s, "object") /\ sp = Len(t) /\ sp # 0 /\ Named(t, sp) /\ t[sp].parent = p
  \/ s.at \in {"member", "name"} /\ sp = p /\ p \in 1 .. Len(t) /\ t[p].type = "object"

\* The tokens t and a new one.
Added(t, u, e) ==
  /\ Longer(t, u) /\ Len(u) = Len(t) + 1 /\ u[Len(u)] = e
  /\ \A i \in 1 .. Len(t) : u[i].end = t[i].end
  /\ e.parent \in 0 .. Len(t)
  /\ e.parent # 0 /\ Bracket(t[e.parent]) => t[e.parent].end = -1

LEMMA ToldBefore ==
  ASSUME NEW x \in Seq(Char), NEW t, NEW u, NEW e, Added(t, u, e), NEW s, NEW p,
         Placed(t, p, s, e.parent), Now(x, t, p, s, First(e))
  PROVE  Before(x, u, Len(u))
<1>1. PICK n, j, sp, q : n = Len(t) /\ j = n + 1 /\ sp = e.parent /\ q = First(e)
  OBVIOUS
<1>2. /\ Longer(t, u) /\ n \in Nat /\ Len(u) = j /\ j \in Nat /\ u[j] = e /\ sp \in 0 .. n /\ j - 1 = n
      /\ \A i \in 1 .. n : t[i].parent \in 0 .. i - 1 /\ u[i].type = t[i].type /\ u[i].parent = t[i].parent
      /\ \A i \in 1 .. n : u[i].start = t[i].start /\ u[i].end = t[i].end
  BY <1>1 DEF Added, Longer
<1>3. CASE sp = 0
  <2>1. s.at = "start"
    BY <1>1, <1>3 DEF Placed
  <2>2. Gap(x, 0, q, <<>>)
    BY <1>1, <2>1 DEF Now
  <2>. QED
    BY <1>1, <1>2, <1>3, <2>2 DEF Before
<1>4. CASE sp # 0
  <2>1. sp \in 1 .. n /\ u[sp].type = t[sp].type /\ Lead(u[sp]) = Lead(t[sp])
    BY <1>2, <1>4 DEF Lead, Bracket, Stop
  <2>2. PICK w : w = IF u[sp].type = "string" THEN <<":">> ELSE <<>>
    OBVIOUS
  <2>. SUFFICES Spans(x, u, sp, j, q, w, <<",">>)
    BY <1>1, <1>2, <1>4, <2>2 DEF Before
  <2>3. CASE s.at \in {"first", "member"}
    <3>1. sp = p /\ w = <<>>
      BY <1>1, <1>4, <2>1, <2>2, <2>3 DEF Placed
    <3>2. Childless(t, p, j) /\ Gap(x, Lead(t[p]), q, <<>>)
      BY <1>1, <2>3 DEF Now
    <3>3. Childless(u, p, j)
      BY <1>2, <3>2 DEF Childless
    <3>. QED
      BY <2>1, <3>1, <3>2, <3>3, SpansFirst
  <2>4. CASE s.at = "name" \/ (s.at = "value" /\ Inside(s, "array"))
    <3>1. sp = p /\ w = <<>>
      <4>1. ~ (Inside(s, "array") /\ Inside(s, "object"))
        BY DEF Inside
      <4>. QED
        BY <1>1, <1>4, <2>1, <2>2, <2>4, <4>1 DEF Placed
    <3>2. PICK k : Youngest(t, k, p, j) /\ Since(x, t, k, q, <<",">>)
      BY <1>1, <2>4 DEF Now
    <3>3. k \in 1 .. n /\ Youngest(u, k, p, j)
      <4>1. k \in 1 .. j - 1 /\ t[k].parent = p /\ \A l \in k + 1 .. j - 1 : t[l].parent # p
        BY <3>2 DEF Youngest
      <4>2. k \in 1 .. n /\ u[k].parent = p
        BY <1>2, <4>1
      <4>3. \A l \in k + 1 .. j - 1 : l \in 1 .. n
        BY <1>2, <4>2
      <4>4. \A l \in k + 1 .. j - 1 : u[l].parent # p
        BY <1>2, <4>1, <4>3
      <4>. QED
        BY <4>1, <4>2, <4>4 DEF Youngest
    <3>4. Since(x, u, k, q, <<",">>)
      BY <1>1, <1>2, <3>2, <3>3, SinceStays
    <3>. QED
      BY <1>2, <3>1, <3>3, <3>4, SpansNext
  <2>5. CASE s.at = "value" /\ Inside(s, "object")
    <3>1. sp = n /\ Named(t, sp)
      <4>1. ~ (Inside(s, "array") /\ Inside(s, "object"))
        BY DEF Inside
      <4>. QED
        BY <1>1, <1>4, <2>5, <4>1 DEF Placed
    <3>2. w = <<":">>
      BY <2>1, <2>2, <3>1 DEF Named
    <3>3. Gap(x, Lead(t[n]), q, <<":">>)
      BY <1>1, <2>5 DEF Now
    <3>4. Childless(u, n, j)
      BY <1>2 DEF Childless
    <3>. QED
      BY <2>1, <3>1, <3>2, <3>3, <3>4, SpansFirst
  <2>. QED
    BY <1>1, <1>4, <2>3, <2>4, <2>5 DEF Placed
<1>. QED
  BY <1>3, <1>4

\* A string or primitive is told when it has ended, an object or array when it has begun.
LEMMA ToldNew ==
  ASSUME NEW x \in Seq(Char), NEW t, NEW u, NEW e, Added(t, u, e), NEW s, NEW p,
         Placed(t, p, s, e.parent), Told(x, t), Now(x, t, p, s, First(e)),
         Own(x, e), Bracket(e) => e.end = -1
  PROVE  Told(x, u)
<1>1. PICK n, j : n = Len(t) /\ j = n + 1
  OBVIOUS
<1>2. /\ Longer(t, u) /\ n \in Nat /\ Len(u) = j /\ u[j] = e
      /\ \A i \in 1 .. n : u[i].type = t[i].type /\ u[i].end = t[i].end
      /\ e.parent # 0 /\ Bracket(t[e.parent]) => t[e.parent].end = -1
  BY <1>1 DEF Added, Longer
<1>3. ASSUME NEW i \in 1 .. n
      PROVE  Own(x, u[i]) /\ Before(x, u, i) /\ Ending(x, u, i)
  <2>1. Own(x, u[i]) /\ Before(x, u, i)
    BY <1>1, <1>2, ToldStays
  <2>2. Ending(x, u, i)
    <3>1. CASE Bracket(t[i]) /\ t[i].end # -1
      <4>1. \A l \in n + 1 .. Len(u) : l = j
        BY <1>1, <1>2
      <4>2. u[j].parent # i
        BY <1>2, <3>1
      <4>. QED
        BY <1>1, <1>2, <3>1, <4>1, <4>2, ToldStays
    <3>2. CASE ~ (Bracket(t[i]) /\ t[i].end # -1)
      BY <1>2, <3>2 DEF Ending, Bracket
    <3>. QED
      BY <3>1, <3>2
  <2>. QED
    BY <2>1, <2>2
<1>4. Own(x, u[j]) /\ Ending(x, u, j)
  BY <1>2 DEF Ending
<1>5. Before(x, u, j)
  BY <1>2, ToldBefore
<1>6. \A i \in 1 .. Len(u) : i \in 1 .. n \/ i = j
  BY <1>1, <1>2
<1>. QED
  BY <1>3, <1>4, <1>5, <1>6 DEF Told

LEMMA NowAfter ==
  ASSUME NEW x \in Seq(Char), NEW t, NEW u, NEW e, Added(t, u, e), NEW s \in Reader, NEW p,
         Placed(t, p, s, e.parent), Told(x, t), Own(x, e), ~Bracket(e),
         s.at \in {"first", "value", "member", "name"}, s.at \in {"member", "name"} => e.type = "string"
  PROVE  Now(x, u, p, Past(s), Stop(e))
<1>1. PICK n, j, r : n = Len(t) /\ j = n + 1 /\ r = Stop(e)
  OBVIOUS
<1>2. /\ Longer(t, u) /\ n \in Nat /\ Len(u) = j /\ j \in Nat /\ u[j] = e /\ e.parent \in 0 .. n
      /\ \A i \in 1 .. n : t[i].parent \in 0 .. i - 1 /\ u[i].type = t[i].type /\ u[i].parent = t[i].parent
      /\ \A i \in 1 .. n : u[i].end = t[i].end
  BY <1>1 DEF Added, Longer
<1>3. e.end # -1 /\ r \in 0 .. Len(x)
  BY <1>1 DEF Own, Gap, Stop
<1>4. Gap(x, r, r, <<>>)
  BY <1>3, GapNone
<1>5. Past(s).at = IF s.at \in {"member", "name"} THEN "colon" ELSE "after"
  BY PastType
<1>6. CASE s.at \in {"member", "name"}
  <2>1. Past(s).at = "colon"
    BY <1>5, <1>6
  <2>2. Lead(u[j]) = r
    BY <1>1, <1>2, <1>6 DEF Lead, Bracket
  <2>. QED
    BY <1>1, <1>2, <1>4, <2>1, <2>2 DEF Now
<1>7. CASE s.at \in {"first", "value"}
  <2>1. Past(s).at = "after"
    BY <1>5, <1>7
  <2>2. \E k : Youngest(u, k, p, j + 1) /\ Since(x, u, k, r, <<>>)
    <3>1. CASE e.parent = p /\ p \in 1 .. n /\ t[p].type = "array"
      <4>1. Youngest(u, j, p, j + 1)
        <5>1. j + 1 - 1 = j /\ j \in 1 .. j
          BY <1>1, <1>2
        <5>3. \A l \in j + 1 .. j : FALSE
          BY <1>2
        <5>2. u[j].parent = p
          BY <1>2, <3>1
        <5>. QED
          BY <5>1, <5>2, <5>3 DEF Youngest
      <4>2. ~Named(u, j)
        BY <1>2, <3>1 DEF Named
      <4>3. Since(x, u, j, r, <<>>)
        BY <1>1, <1>2, <1>3, <1>4, <4>2 DEF Since, Ended, After
      <4>. QED
        BY <4>1, <4>3
    <3>2. CASE e.parent = n /\ n # 0 /\ Named(t, n) /\ t[n].parent = p
      <4>1. n \in 1 .. n /\ Own(x, t[n])
        BY <1>1, <1>2, <3>2 DEF Told
      <4>2. t[n].type = "string" /\ p \in 1 .. n /\ t[p].type = "object" /\ p # n
        BY <1>2, <3>2, <4>1 DEF Named
      <4>3. Youngest(u, n, p, j + 1)
        BY <1>1, <1>2, <3>2, <4>1, <4>2 DEF Youngest
      <4>4. Named(u, n)
        <5>1. p # 0
          BY <1>2, <4>2
        <5>2. u[n].type = "string" /\ u[n].parent = p /\ u[p].type = "object"
          BY <1>2, <3>2, <4>1, <4>2
        <5>. QED
          BY <5>1, <5>2, Zenon DEF Named
      <4>5. u[n].end # -1
        BY <1>2, <4>1, <4>2 DEF Own, Bracket
      <4>6. Ended(u, n) /\ After(u, n) = r
        BY <1>1, <1>2, <1>3, <4>4, <4>5 DEF Ended, After
      <4>7. Since(x, u, n, r, <<>>)
        BY <1>4, <4>6 DEF Since
      <4>. QED
        BY <4>3, <4>7
    <3>. QED
      BY <1>1, <1>7, <3>1, <3>2 DEF Placed
  <2>. QED
    BY <1>1, <1>2, <2>1, <2>2 DEF Now
<1>. QED
  BY <1>6, <1>7

LEMMA NowInside ==
  ASSUME NEW x \in Seq(Char), NEW t, NEW u, NEW e, Added(t, u, e), Own(x, e), Bracket(e),
         NEW s, s.at \in {"first", "member"}
  PROVE  Now(x, u, Len(u), s, e.start + 1)
<1>1. PICK j, r : j = Len(u) /\ r = e.start + 1
  OBVIOUS
<1>2. /\ j \in Nat /\ j - 1 = Len(t) /\ j = Len(t) + 1 /\ u[j] = e /\ e.parent \in 0 .. j - 1
      /\ \A i \in 1 .. j - 1 : u[i].parent \in 0 .. i - 1
  <2>1. PICK n : n = Len(t)
    OBVIOUS
  <2>2. /\ n \in Nat /\ j = n + 1 /\ u[j] = e /\ e.parent \in 0 .. n
        /\ \A i \in 1 .. n : u[i].parent \in 0 .. i - 1
    BY <1>1, <2>1 DEF Added, Longer
  <2>3. j \in Nat /\ j - 1 = n
    BY <2>2
  <2>. QED
    BY <2>1, <2>2, <2>3
<1>3. \A k \in 1 .. j : u[k].parent # j
  BY <1>2
<1>4. Childless(u, j, j + 1)
  BY <1>2, <1>3 DEF Childless
<1>5. r \in 0 .. Len(x) /\ Lead(u[j]) = r
  BY <1>1, <1>2 DEF Own, Gap, Lead
<1>6. Gap(x, r, r, <<>>)
  BY <1>5, GapNone
<1>. QED
  BY <1>1, <1>4, <1>5, <1>6 DEF Now

\* An object or array i ends at z.
Closed(t, u, i, z) ==
  /\ Longer(t, u) /\ Len(u) = Len(t)
  /\ i \in 1 .. Len(t) /\ Bracket(t[i]) /\ t[i].end = -1 /\ u[i].end = z
  /\ \A l \in 1 .. Len(t) : l # i => u[l].end = t[l].end

LEMMA ToldClosed ==
  ASSUME NEW x \in Seq(Char), NEW t, NEW u, NEW i, NEW z, Closed(t, u, i, z), Told(x, t),
         NEW s \in Readers, NEW q, Now(x, t, i, s, q), s.at \in {"first", "member", "after"},
         Gap(x, q, z, Closer(t[i]))
  PROVE  Told(x, u)
<1>1. PICK n, w : n = Len(t) /\ w = Closer(t[i])
  OBVIOUS
<1>2. /\ Longer(t, u) /\ n \in Nat /\ Len(u) = n /\ i \in 1 .. n /\ u[i].end = z
      /\ n + 1 \in Nat
      /\ \A l \in 1 .. n : u[l].type = t[l].type /\ u[l].parent = t[l].parent /\ (l # i => u[l].end = t[l].end)
  BY <1>1 DEF Closed, Longer
<1>3. Spans(x, t, i, n + 1, z, w, w)
  <2>1. CASE s.at \in {"first", "member"}
    <3>1. Childless(t, i, n + 1) /\ Gap(x, Lead(t[i]), q, <<>>)
      BY <1>1, <2>1 DEF Now
    <3>2. Gap(x, Lead(t[i]), z, w)
      BY <1>1, <3>1, GapThen
    <3>. QED
      BY <3>1, <3>2, SpansFirst
  <2>2. CASE s.at = "after"
    <3>1. PICK k : Youngest(t, k, i, n + 1) /\ Since(x, t, k, q, <<>>)
      BY <1>1, <2>2 DEF Now
    <3>2. Since(x, t, k, z, w)
      BY <1>1, <3>1, SinceThen
    <3>. QED
      BY <1>2, <3>1, <3>2, SpansNext
  <2>. QED
    BY <2>1, <2>2
<1>4. Spans(x, u, i, n + 1, z, w, w)
  <2>1. n + 1 \in 1 .. Len(t) + 1 /\ n + 1 \in n + 1 .. Len(u) + 1 /\ i \in 1 .. Len(t)
    BY <1>1, <1>2
  <2>2. n + 1 - 1 = n
    BY <1>2
  <2>3. \A l \in n + 1 .. n + 1 - 1 : FALSE
    BY <1>2
  <2>4. Bracket(t[i])
    BY DEF Closed
  <2>. QED
    BY <1>2, <1>3, <2>1, <2>3, <2>4, SpansStays
<1>5. Closer(u[i]) = w
  BY <1>1, <1>2 DEF Closer
<1>6. ASSUME NEW l \in 1 .. n
      PROVE  Own(x, u[l]) /\ Before(x, u, l) /\ Ending(x, u, l)
  <2>1. Own(x, u[l]) /\ Before(x, u, l)
    BY <1>1, <1>2, ToldStays
  <2>2. CASE l = i
    BY <1>2, <1>4, <1>5, <2>1, <2>2 DEF Ending
  <2>3. CASE l # i /\ t[l].end # -1
    <3>1. \A k \in n + 1 .. n : FALSE
      BY <1>2
    <3>. QED
      BY <1>1, <1>2, <2>1, <2>3, <3>1, ToldStays
  <2>4. CASE l # i /\ t[l].end = -1
    <3>1. u[l].end = -1
      BY <1>2, <2>4
    <3>. QED
      BY <2>1, <3>1 DEF Ending
  <2>. QED
    BY <2>2, <2>3, <2>4
<1>. QED
  BY <1>2, <1>6 DEF Told

LEMMA NowClosed ==
  ASSUME NEW x \in Seq(Char), NEW t, NEW u, NEW i, NEW z, Closed(t, u, i, z), z \in 0 .. Len(x),
         \A l \in i + 1 .. Len(t) : t[l].parent >= i,
         NEW p, NEW s, s.at = "after", Told(x, t),
         \/ t[i].parent = p
         \/ t[i].parent = i - 1 /\ i # 1 /\ Named(t, i - 1) /\ t[i - 1].parent = p
  PROVE  Now(x, u, p, s, z)
<1>1. PICK n : n = Len(t)
  OBVIOUS
<1>2. /\ Longer(t, u) /\ n \in Nat /\ Len(u) = n /\ i \in 1 .. n /\ u[i].end = z /\ n + 1 - 1 = n
      /\ \A l \in 1 .. n : u[l].type = t[l].type /\ u[l].parent = t[l].parent /\ t[l].parent \in 0 .. l - 1
      /\ Bracket(u[i]) /\ u[i].type # "string"
  BY <1>1 DEF Closed, Longer, Bracket
<1>3. z # -1 /\ Gap(x, z, z, <<>>)
  <2>1. Len(x) \in Nat
    BY LenProperties
  <2>. QED
    BY <2>1, GapNone
<1>4. Stop(u[i]) = z
  BY <1>2 DEF Stop
<1>5. \A l \in i + 1 .. n : l \in 1 .. n /\ u[l].parent >= i /\ u[l].parent \in Nat
  <2>1. ASSUME NEW l \in i + 1 .. n
        PROVE  l \in 1 .. n /\ u[l].parent >= i /\ u[l].parent \in Nat
    <3>1. l \in 1 .. n
      BY <1>2
    <3>2. t[l].parent >= i
      BY <1>1
    <3>3. u[l].parent = t[l].parent /\ t[l].parent \in 0 .. l - 1
      BY <1>2, <3>1
    <3>4. t[l].parent \in Nat
      BY <3>1, <3>3
    <3>. QED
      BY <3>1, <3>2, <3>3, <3>4
  <2>. QED
    BY <2>1
<1>6. CASE t[i].parent = p
  <2>1. p \in 0 .. i - 1 /\ u[i].parent = p
    BY <1>2, <1>6
  <2>2. \A l \in i + 1 .. n : u[l].parent # p
    BY <1>2, <1>5, <2>1
  <2>3. Youngest(u, i, p, n + 1)
    BY <1>2, <2>1, <2>2 DEF Youngest
  <2>4. ~Named(u, i)
    BY <1>2 DEF Named
  <2>5. Since(x, u, i, z, <<>>)
    BY <1>2, <1>3, <1>4, <2>4 DEF Since, Ended, After
  <2>. QED
    BY <1>2, <2>3, <2>5 DEF Now
<1>7. CASE t[i].parent = i - 1 /\ i # 1 /\ Named(t, i - 1) /\ t[i - 1].parent = p
  <2>1. PICK k : k = i - 1
    OBVIOUS
  <2>2. k \in 1 .. n /\ k + 1 = i /\ k < n /\ u[i].parent = k /\ u[k].parent = p /\ p \in 0 .. k - 1
    BY <1>2, <1>7, <2>1
  <2>3. \A l \in k + 1 .. n : u[l].parent # p
    <3>1. ASSUME NEW l \in k + 1 .. n
          PROVE  u[l].parent # p
      <4>1. l = i \/ l \in i + 1 .. n
        BY <1>2, <2>2
      <4>. QED
        BY <1>2, <1>5, <2>2, <4>1
    <3>. QED
      BY <3>1
  <2>4. Youngest(u, k, p, n + 1)
    BY <1>2, <2>2, <2>3 DEF Youngest
  <2>5. Named(u, k)
    <3>1. p \in 1 .. n /\ t[k].type = "string" /\ t[p].type = "object"
      BY <1>2, <1>7, <2>1, <2>2 DEF Named
    <3>. QED
      BY <1>2, <2>2, <3>1 DEF Named
  <2>6. u[k].end # -1
    <3>1. t[k].type = "string" /\ Own(x, t[k])
      BY <1>1, <1>7, <2>1, <2>2 DEF Named, Told
    <3>2. k # i /\ t[k].end # -1
      BY <2>2, <3>1 DEF Own, Bracket
    <3>. QED
      BY <1>1, <2>2, <3>2 DEF Closed
  <2>7. Since(x, u, k, z, <<>>)
    BY <1>2, <1>3, <1>4, <2>2, <2>5, <2>6 DEF Since, Ended, After
  <2>. QED
    BY <1>2, <2>4, <2>7 DEF Now
<1>. QED
  BY <1>6, <1>7

-------------------------------------------------------------------------------
(* The tokens of the second pass are where they should be.                 *)

\* What has been read, without the string or primitive being scanned.
Place == IF loop \in {"string", "primitive"} THEN start ELSE pos

Telling ==
  \A x, t, p, s, q : x = js /\ t = tokens /\ p = Top /\ s = State /\ q = Place => Told(x, t) /\ Now(x, t, p, s, q)

\* Of what is being scanned no white space is outside of a string.
Scanning ==
  /\ loop = "string" => start < pos /\ Plain(js, start + 1, pos)
  /\ loop = "primitive" => Plain(js, start, pos)

Answered == \A x, t : x = js /\ t = tokens => Told(x, t) /\ Now(x, t, 0, Whole, Len(x))

TextInv ==
  Alive =>
    /\ Filling /\ loop # "returned" => Telling /\ Scanning
    /\ Done \/ (Filling /\ loop = "returned" /\ ret > 0) => Answered

LEMMA FillingParses == Filling => Parsing
BY DEF Filling, Parsing

LEMMA TellingIs ==
  ASSUME Telling, NEW x, NEW t, NEW p, NEW s, NEW q, x = js, t = tokens, p = Top, s = State, q = Place
  PROVE  Told(x, t) /\ Now(x, t, p, s, q)
BY DEF Telling

LEMMA TellsOn ==
  ASSUME NEW x, NEW t, NEW p, NEW s, NEW q, x = js', t = tokens', p = Top', s = State', q = Place',
         Told(x, t), Now(x, t, p, s, q)
  PROVE  Telling'
BY DEF Telling

\* The state and the place after a step of the main loop.
LEMMA MainIs ==
  ASSUME js' = js, loop' = "main", NEW p, pos' = p
  PROVE  State' = Settled(R[p]) /\ Place' = p
<1>1. R' = R
  BY SameReadings
<1>. QED
  BY <1>1 DEF State, Settled, Place

LEMMA CharIs ==
  ASSUME TypeOK, Alive, Lexes, loop \in {"main", "close"}, ~AtEnd, js' = js, loop' = "main", pos' = pos + 1,
         NEW t, t = Between(State, c), t.lex = "none"
  PROVE  /\ State' = t /\ Place' = pos + 1 /\ Place = pos /\ pos \in 0 .. Len(js) /\ pos < Len(js)
         /\ js \in Seq(Char) /\ c \in Char /\ R[pos].lex # "string"
<1>1. PICK p : p = pos + 1
  OBVIOUS
<1>2. R[p] = t /\ pos < Len(js) /\ c \in Char
  BY <1>1, MainReads
<1>3. State' = Settled(R[p]) /\ Place' = p
  BY <1>1, MainIs
<1>4. State' = t
  BY <1>2, <1>3 DEF Settled
<1>5. R[pos].lex # "string"
  BY DEF Lexes
<1>. QED
  BY <1>1, <1>2, <1>3, <1>4, <1>5 DEF Place, TypeOK

\* The text that is one character.
LEMMA CharGap ==
  ASSUME TypeOK, Alive, Lexes, loop \in {"main", "close"}, ~AtEnd, js' = js, loop' = "main", pos' = pos + 1,
         NEW t, t = Between(State, c), t.lex = "none", NEW x, x = js, NEW q, q = Place
  PROVE  /\ c \notin Space => Gap(x, q, Place', <<c>>)
         /\ c \in Space => Gap(x, q, Place', <<>>)
<1>1. /\ Place' = q + 1 /\ q = pos /\ q \in 0 .. Len(x) /\ q < Len(x) /\ x \in Seq(Char)
      /\ R[q].lex # "string" /\ R = Readings(x)
  BY CharIs DEF R
<1>2. c = x[q + 1]
  BY <1>1 DEF c
<1>. QED
  BY <1>1, <1>2, GapChar

LEMMA SameTop ==
  ASSUME tokens' = tokens, toksuper' = toksuper
  PROVE  Top' = Top
BY DEF Top, Up

LEMMA WhiteTells ==
  ASSUME ParserInv, Alive, Filling, Progress, Telling, White
  PROVE  Telling'
<1>1. PICK x, t, p, s, q, r : x = js /\ t = tokens /\ p = Top /\ s = State /\ q = Place /\ r = pos + 1
  OBVIOUS
<1>2. TypeOK /\ s \in Readers /\ s \in Reader /\ Lexes /\ x \in Seq(Char)
  BY <1>1, FillingParses, ProgressIs
<1>3. /\ loop = "main" /\ ~AtEnd /\ c = " "
      /\ js' = js /\ pass' = pass /\ loop' = "main" /\ pos' = pos + 1
      /\ tokens' = tokens /\ toksuper' = toksuper
  BY DEF White, Reading, Space, Skip, GoOn
<1>4. Between(s, c) # Error /\ c \in Char /\ s.lex = "none"
  BY <1>1, <1>2, <1>3, MainReads
<1>5. Between(s, c) = s
  BY <1>2, <1>3, <1>4, BetweenRight
<1>6. State' = s /\ Place' = r /\ Gap(x, q, r, <<>>)
  BY <1>1, <1>2, <1>3, <1>4, <1>5, CharIs, CharGap DEF Space
<1>7. Told(x, t) /\ Now(x, t, p, s, q)
  BY <1>1, TellingIs
<1>8. Now(x, t, p, s, r)
  BY <1>2, <1>6, <1>7, NowMoves
<1>. QED
  BY <1>1, <1>3, <1>6, <1>7, <1>8, SameTop, TellsOn

LEMMA ColonTells ==
  ASSUME ParserInv, Alive, Filling, Progress, Telling, Colon
  PROVE  Telling'
<1>1. PICK x, t, p, s, q, r, v : /\ x = js /\ t = tokens /\ p = Top /\ s = State /\ q = Place /\ r = pos + 1
                                 /\ v = [s EXCEPT !.at = "value"]
  OBVIOUS
<1>2. TypeOK /\ s \in Readers /\ s \in Reader /\ Lexes /\ x \in Seq(Char) /\ Shape(s)
  BY <1>1, FillingParses, ProgressIs
<1>3. /\ loop = "main" /\ ~AtEnd /\ c = ":"
      /\ js' = js /\ pass' = pass /\ loop' = "main" /\ pos' = pos + 1
      /\ tokens' = tokens /\ toksuper' = Len(tokens)
  BY DEF Colon, Reading, SetSuper, GoOn
<1>4. Between(s, c) # Error /\ c \in Char /\ s.lex = "none"
  BY <1>1, <1>2, <1>3, MainReads
<1>5. s.at = "colon" /\ Between(s, c) = v
  BY <1>1, <1>2, <1>3, <1>4, BetweenRight
<1>6. v.lex = "none"
  BY <1>1, <1>2, <1>4 DEF Reader
<1>7. State' = v /\ Place' = r /\ Gap(x, q, r, <<":">>)
  BY <1>1, <1>2, <1>3, <1>5, <1>6, CharIs, CharGap DEF Space
<1>8. Told(x, t) /\ Now(x, t, p, s, q)
  BY <1>1, TellingIs
<1>9. Now(x, t, p, v, r)
  BY <1>1, <1>2, <1>5, <1>7, <1>8, NowColon
<1>10. Top' = p
  <2>1. Len(tokens) # 0 /\ IsKey(Len(tokens)) /\ tokens[Len(tokens)].parent = Top
    BY <1>2, <1>5 DEF Shape, Superior
  <2>2. Top' = tokens[Len(tokens)].parent
    BY <1>3, <2>1 DEF Top, Up, IsKey
  <2>. QED
    BY <1>1, <2>1, <2>2
<1>. QED
  BY <1>1, <1>3, <1>7, <1>8, <1>9, <1>10, TellsOn

LEMMA CommaTells ==
  ASSUME ParserInv, Alive, Filling, Progress, Telling, Comma
  PROVE  Telling'
<1>1. PICK x, t, p, s, q, r : x = js /\ t = tokens /\ p = Top /\ s = State /\ q = Place /\ r = pos + 1
  OBVIOUS
<1>2. TypeOK /\ s \in Readers /\ s \in Reader /\ Lexes /\ x \in Seq(Char) /\ Shape(s)
  BY <1>1, FillingParses, ProgressIs
<1>3. /\ loop = "main" /\ ~AtEnd /\ c = ","
      /\ js' = js /\ pass' = pass /\ loop' = "main" /\ pos' = pos + 1
      /\ tokens' = tokens
      /\ toksuper' = IF Under({"string", "primitive"}) THEN tokens[toksuper].parent ELSE toksuper
  BY DEF Comma, Reading, SetSuper, GoOn
<1>4. Between(s, c) # Error /\ c \in Char /\ s.lex = "none"
  BY <1>1, <1>2, <1>3, MainReads
<1>5. /\ s.at = "after"
      /\ \/ Inside(s, "object") /\ Between(s, c) = [s EXCEPT !.at = "name"]
         \/ Inside(s, "array") /\ Between(s, c) = [s EXCEPT !.at = "value"]
  BY <1>2, <1>3, <1>4, BetweenRight
<1>6. PICK at, v : /\ \/ Inside(s, "object") /\ at = "name"
                      \/ Inside(s, "array") /\ at = "value"
                   /\ v = [s EXCEPT !.at = at] /\ Between(s, c) = v
  BY <1>5
<1>7. v.lex = "none"
  BY <1>2, <1>4, <1>6 DEF Reader
<1>8. State' = v /\ Place' = r /\ Gap(x, q, r, <<",">>)
  <2>1. v = Between(State, c) /\ c \notin Space
    BY <1>1, <1>3, <1>6 DEF Space
  <2>2. State' = v /\ Place' = r
    BY <1>1, <1>2, <1>3, <1>7, <2>1, CharIs
  <2>3. Gap(x, q, Place', <<c>>)
    BY <1>1, <1>2, <1>3, <1>7, <2>1, CharGap
  <2>. QED
    BY <1>3, <2>2, <2>3
<1>9. Told(x, t) /\ Now(x, t, p, s, q)
  BY <1>1, TellingIs
<1>10. Now(x, t, p, v, r)
  <2>1. Now(x, t, p, [s EXCEPT !.at = at], r)
    BY <1>2, <1>5, <1>6, <1>8, <1>9, NowComma
  <2>. QED
    BY <1>6, <2>1
<1>11. Top' = p
  <2>1. Top # 0 /\ tokens[Top].type \in {"object", "array"}
    <3>1. s.open # <<>>
      BY <1>6 DEF Inside
    <3>. QED
      BY <1>2, <3>1, TopIs
  <2>2. CASE toksuper # 0 /\ tokens[toksuper].type = "string"
    <3>1. toksuper' = Top
      BY <1>3, <2>2 DEF Under, Top, Up
    <3>. QED
      BY <1>1, <1>3, <2>1, <3>1 DEF Top, Up
  <2>3. CASE ~ (toksuper # 0 /\ tokens[toksuper].type = "string")
    <3>1. toksuper = Top
      BY <2>3 DEF Top, Up
    <3>2. toksuper' = Top
      BY <1>3, <2>1, <3>1 DEF Under
    <3>. QED
      BY <1>1, <1>3, <2>1, <3>2 DEF Top, Up
  <2>. QED
    BY <2>2, <2>3
<1>. QED
  BY <1>1, <1>3, <1>8, <1>9, <1>10, <1>11, TellsOn

\* The search for the open bracket.
LEMMA SearchTells ==
  ASSUME ParserInv, TokensCounted, Alive, Filling, Progress, Telling, Close \/ CloseUp, loop' # "returned"
  PROVE  Telling'
<1>1. loop \in {"main", "close"} /\ loop' = "close" /\ UNCHANGED <<js, pos, start, tokens, toksuper>>
  <2>1. CASE Close
    BY <2>1 DEF Close, Reading, Return
  <2>2. CASE CloseUp
    <3>1. PICK s : s = State
      OBVIOUS
    <3>2. loop = "close" /\ ~IsOpen(tokens[token])
      BY <2>2 DEF CloseUp
    <3>3. TypeOK
      BY <3>1, FillingParses, ProgressIs
    <3>4. /\ Top \in 1 .. Len(tokens) /\ IsOpen(tokens[Top])
          /\ token \in 1 .. Len(tokens) /\ Len(tokens) \in Nat /\ Top <= token
          /\ OnPath(Top)
      BY <3>1, <3>2, FillingParses, SearchIs
    <3>5. Top < token
      BY <3>2, <3>4
    <3>6. tokens[token].parent # 0
      <4>1. DOMAIN tokens = 1 .. Len(tokens) /\ tokens[token].parent \in Nat
        BY <3>3, <3>4, TokenTypes DEF TypeOK
      <4>2. tokens[token].parent >= Top
        BY <3>4, <3>5, <4>1 DEF OnPath
      <4>. QED
        BY <3>4, <4>1, <4>2
    <3>. QED
      BY <2>2, <3>2, <3>6 DEF CloseUp
  <2>. QED
    BY <2>1, <2>2
<1>2. R' = R /\ Top' = Top
  BY <1>1, SameReadings, SameTop
<1>3. State' = State /\ Place' = Place
  BY <1>1, <1>2 DEF State, Place
<1>. QED
  BY <1>1, <1>2, <1>3 DEF Telling

\* The innermost object or array ends.
LEMMA CloseTells ==
  ASSUME ParserInv, TokensCounted, Alive, Filling, Progress, Telling, CloseFound
  PROVE  Telling'
<1>1. PICK x, t, p, s, q, r, v : /\ x = js /\ t = tokens /\ p = Top /\ s = State /\ q = Place /\ r = pos + 1
                                 /\ v = Leaves(s)
  OBVIOUS
<1>2. loop = "close" /\ IsOpen(tokens[token])
  BY DEF CloseFound
<1>3. /\ TypeOK /\ s \in Readers /\ Lexes /\ Shape(s) /\ Len(js) \in Nat /\ pos \in 0 .. Len(js) /\ x \in Seq(Char)
  BY <1>1, FillingParses, ProgressIs
<1>4. /\ ~AtEnd /\ c \in Closing /\ p \in 1 .. Len(t)
      /\ t[p].type = IF c = "}" THEN "object" ELSE "array"
      /\ \A i \in DOMAIN tokens : IsOpen(tokens[i]) => i <= p
      /\ token \in 1 .. Len(t) /\ Len(t) \in Nat /\ p <= token
      /\ IsOpen(t[p]) /\ OnPath(p)
  BY <1>1, <1>2, FillingParses, SearchIs
<1>5. DOMAIN tokens = 1 .. Len(t)
  BY <1>1, <1>3, TokenTypes DEF TypeOK
<1>6. token = p
  <2>1. token <= p
    BY <1>1, <1>2, <1>4, <1>5
  <2>2. p \in 1 .. Len(t) /\ token \in 1 .. Len(t) /\ Len(t) \in Nat /\ p <= token
    BY <1>4, Zenon
  <2>. QED
    BY <2>1, <2>2
<1>7. Between(s, c) = v /\ v.lex = "none" /\ s.open # <<>> /\ s.at \in {"member", "first", "after"}
  BY <1>1, <1>2, <1>4, FillingParses, ClosingIs
<1>8. /\ tokens' = [tokens EXCEPT ![token].end = pos + 1]
      /\ toksuper' = tokens[token].parent
      /\ loop' = "main" /\ pos' = pos + 1 /\ js' = js
  <2>1. Closes(tokens[token])
    BY <1>1, <1>4, <1>6 DEF Closes
  <2>. QED
    BY <2>1 DEF CloseFound, GoOn
<1>9. PICK u, n : u = tokens' /\ n = Len(t)
  OBVIOUS
<1>20. n \in Nat /\ p \in 1 .. n /\ DOMAIN t = 1 .. n /\ t \in Seq(Token)
  BY <1>1, <1>3, <1>4, <1>5, <1>9 DEF TypeOK
<1>21. \A i \in 1 .. n : t[i] \in Token /\ t[i].parent \in 0 .. i - 1
  <2>1. tokens \in Seq(Token) /\ Preorder
    BY <1>3 DEF TypeOK, ParserInv
  <2>2. \A i \in 1 .. n : t[i] \in Token /\ t[i].parent \in Nat
    BY <1>1, <1>9, <2>1, TokenTypes
  <2>3. \A i \in 1 .. n : t[i].parent < i
    BY <1>1, <1>20, <2>1 DEF Preorder
  <2>. QED
    BY <1>20, <2>2, <2>3
<1>10. Closed(t, u, p, r)
  <2>2. PICK e : e = [t[p] EXCEPT !.end = r]
    OBVIOUS
  <2>3. /\ e.type = t[p].type /\ e.parent = t[p].parent /\ e.start = t[p].start /\ e.end = r
    BY <1>20, <1>21, <2>2 DEF Token
  <2>4. u = [t EXCEPT ![p] = e]
    BY <1>1, <1>6, <1>8, <1>9, <2>2
  <2>5. Len(u) = n /\ \A i \in 1 .. n : u[i] = IF i = p THEN e ELSE t[i]
    BY <1>9, <1>20, <2>4
  <2>6. t[p].end = -1 /\ Bracket(t[p])
    BY <1>4 DEF IsOpen, Bracket
  <2>7. Longer(t, u)
    <3>1. \A i \in 1 .. n : /\ u[i].type = t[i].type /\ u[i].parent = t[i].parent /\ u[i].start = t[i].start
                            /\ t[i].end # -1 => u[i].end = t[i].end
      BY <2>3, <2>5, <2>6
    <3>. QED
      BY <1>9, <1>20, <1>21, <2>5, <3>1 DEF Longer
  <2>. QED
    BY <1>9, <1>20, <2>3, <2>5, <2>6, <2>7 DEF Closed
<1>11. State' = v /\ Place' = r /\ Gap(x, q, r, <<c>>) /\ r \in 0 .. Len(x)
  <2>1. v = Between(State, c) /\ c \notin Space /\ loop \in {"main", "close"}
    BY <1>1, <1>2, <1>4, <1>7 DEF Space, Closing
  <2>2. State' = v /\ Place' = r
    BY <1>1, <1>3, <1>4, <1>7, <1>8, <2>1, CharIs
  <2>3. Gap(x, q, Place', <<c>>)
    BY <1>1, <1>3, <1>4, <1>7, <1>8, <2>1, CharGap
  <2>. QED
    BY <2>2, <2>3 DEF Gap
<1>12. Told(x, t) /\ Now(x, t, p, s, q)
  BY <1>1, TellingIs
<1>13. Closer(t[p]) = <<c>>
  BY <1>4 DEF Closer, Closing
<1>14. Told(x, u)
  BY <1>3, <1>7, <1>10, <1>11, <1>12, <1>13, ToldClosed
<1>15. PICK w : w = Top'
  OBVIOUS
<1>16. \/ t[p].parent = w
       \/ t[p].parent = p - 1 /\ p # 1 /\ Named(t, p - 1) /\ t[p - 1].parent = w
  <2>1. PICK k : k = t[p].parent
    OBVIOUS
  <2>2. toksuper' = k /\ k \in 0 .. p - 1
    BY <1>1, <1>6, <1>8, <1>20, <1>21, <2>1
  <2>3. w = IF k # 0 /\ u[k].type = "string" THEN u[k].parent ELSE k
    BY <1>9, <1>15, <2>2 DEF Top, Up
  <2>4. CASE k # 0 /\ u[k].type = "string"
    <3>1. k \in 1 .. n /\ u[k].type = t[k].type /\ u[k].parent = t[k].parent
      <4>1. k \in 1 .. n
        BY <1>20, <2>2, <2>4
      <4>. QED
        BY <1>9, <1>10, <4>1 DEF Closed, Longer
    <3>2. p = k + 1 /\ IsKey(k)
      BY <1>1, <1>3, <1>20, <2>1, <2>4, <3>1 DEF Shape, Formed
    <3>3. Named(t, k)
      BY <1>1, <3>2 DEF IsKey, Named
    <3>4. k = p - 1 /\ p # 1
      BY <1>20, <3>1, <3>2
    <3>. QED
      BY <2>1, <2>3, <2>4, <3>1, <3>3, <3>4
  <2>. QED
    BY <2>1, <2>3, <2>4
<1>17. \A l \in p + 1 .. Len(t) : t[l].parent >= p
  <2>1. \A l \in 1 .. n : p < l => t[l].parent >= p
    BY <1>1, <1>4, <1>20 DEF OnPath
  <2>2. \A l \in p + 1 .. n : l \in 1 .. n /\ p < l
    BY <1>20
  <2>. QED
    BY <1>9, <2>1, <2>2
<1>18. v.at = "after"
  BY <1>1 DEF Leaves
<1>19. Now(x, u, w, v, r)
  BY <1>3, <1>10, <1>11, <1>12, <1>16, <1>17, <1>18, NowClosed
<1>. QED
  BY <1>1, <1>8, <1>9, <1>11, <1>14, <1>15, <1>19, TellsOn

\* A new token, where it is allowed.
LEMMA AddedIs ==
  ASSUME ParserInv, OnPath(toksuper), js' = js,
         NEW s \in Readers, Shape(s), s.at \in {"start", "first", "value", "member", "name"},
         NEW type \in {"object", "array", "string", "primitive"},
         NEW first \in 0 .. Len(js), NEW last \in -1 .. Len(js),
         tokens' = Linked(type, first, last, toksuper),
         NEW t, NEW u, NEW p, NEW e, t = tokens, u = tokens', p = Top,
         e = [type |-> type, start |-> first, end |-> last, size |-> 0, parent |-> toksuper]
  PROVE  Added(t, u, e) /\ Placed(t, p, s, e.parent) /\ Len(u) = Len(t) + 1
<1>1. PICK n, sp : n = Len(t) /\ sp = toksuper
  OBVIOUS
<1>2. /\ n \in Nat /\ DOMAIN t = 1 .. n /\ Len(u) = n + 1 /\ sp \in 0 .. n
      /\ \A i \in 1 .. n :
           /\ t[i].parent \in 0 .. i - 1
           /\ u[i].type = t[i].type /\ u[i].parent = t[i].parent
           /\ u[i].start = t[i].start /\ u[i].end = t[i].end
      /\ u[n + 1] = e
  BY <1>1, NewToken
<1>3. e.parent = sp
  BY <1>1
<1>4. \/ s.at = "start" /\ sp = 0 /\ n = 0
      \/ /\ s.at \in {"first", "value"} /\ Inside(s, "array")
         /\ sp = p /\ p \in 1 .. n /\ p # 0 /\ t[p].type = "array"
      \/ /\ s.at = "value" /\ Inside(s, "object")
         /\ sp = n /\ sp # 0 /\ sp \in 1 .. n /\ Named(t, sp) /\ t[sp].type = "string" /\ t[sp].parent = p
      \/ /\ s.at \in {"member", "name"} /\ Inside(s, "object")
         /\ sp = p /\ p \in 1 .. n /\ p # 0 /\ t[p].type = "object"
  BY <1>1, <1>2, SuperiorIs DEF IsKey, Named, Top, Up
<1>5. Placed(t, p, s, e.parent)
  BY <1>1, <1>3, <1>4 DEF Placed
<1>6. Longer(t, u)
  BY <1>1, <1>2 DEF Longer
<1>7. ASSUME sp # 0, Bracket(t[sp])
      PROVE  t[sp].end = -1
  <2>1. sp = p /\ (Inside(s, "array") \/ Inside(s, "object"))
    BY <1>4, <1>7 DEF Bracket
  <2>2. s.open # <<>> /\ s \in Reader /\ TypeOK
    BY <2>1 DEF Inside, Readers, ParserInv
  <2>3. IsOpen(tokens[Top])
    BY <2>2, TopIs
  <2>. QED
    BY <2>1, <2>3 DEF IsOpen
<1>. QED
  BY <1>1, <1>2, <1>3, <1>5, <1>6, <1>7 DEF Added

LEMMA OpenTells ==
  ASSUME ParserInv, Alive, Filling, Progress, Telling, Open, ~ (loop' = "returned" /\ ret' = NOMEM)
  PROVE  Telling'
<1>1. PICK x, t, p, s, q, r, k, a, v :
        /\ x = js /\ t = tokens /\ p = Top /\ s = State /\ q = Place /\ r = pos + 1
        /\ k = (IF c = "{" THEN "object" ELSE "array") /\ a = (IF c = "{" THEN "member" ELSE "first")
        /\ v = Enters(s, k, a)
  OBVIOUS
<1>2. /\ TypeOK /\ x \in Seq(Char) /\ Len(js) \in Nat /\ pos \in 0 .. Len(js)
      /\ s \in Readers /\ s \in Reader /\ Lexes /\ OnPath(toksuper) /\ Shape(s)
  BY <1>1, FillingParses, ProgressIs
<1>3. loop = "main" /\ ~AtEnd /\ c \in {"{", "["}
  BY DEF Open, Reading, Opening
<1>4. /\ Between(s, c) # Error /\ c \in Char
  BY <1>1, <1>2, <1>3, MainReads
<1>6. /\ s.at \in {"start", "first", "value"} /\ Between(s, c) = v
      /\ k \in {"object", "array"} /\ a \in {"member", "first"}
  BY <1>1, <1>2, <1>3, <1>4, BetweenRight
<1>8. v.lex = "none" /\ v.at = a
  BY <1>1 DEF Enters
<1>9. ~Full
  BY DEF Open, Return
<1>10. ~Under({"object"})
  BY <1>1, <1>2, <1>6, SuperiorIs DEF IsKey, Under
<1>11. /\ tokens' = Linked(k, pos, -1, toksuper)
       /\ toksuper' = Len(tokens) + 1
       /\ loop' = "main" /\ pos' = pos + 1 /\ js' = js
  BY <1>1, <1>9, <1>10 DEF Open, GoOn, AddToken
<1>12. PICK u, e : /\ u = tokens'
                   /\ e = [type |-> k, start |-> pos, end |-> -1, size |-> 0, parent |-> toksuper]
  OBVIOUS
<1>13. Added(t, u, e) /\ Placed(t, p, s, e.parent) /\ Len(u) = Len(t) + 1
  <2>1. -1 \in -1 .. Len(js) /\ ParserInv /\ k \in {"object", "array", "string", "primitive"}
    BY <1>2, <1>6
  <2>2. s.at \in {"start", "first", "value", "member", "name"} /\ Shape(s) /\ s \in Readers
    BY <1>2, <1>6
  <2>3. pos \in 0 .. Len(js) /\ OnPath(toksuper) /\ js' = js /\ tokens' = Linked(k, pos, -1, toksuper)
    BY <1>2, <1>11
  <2>. QED
    <3>1. t = tokens /\ p = Top
      BY <1>1
    <3>. QED
      BY <1>12, <2>1, <2>2, <2>3, <3>1, AddedIs
<1>14. State' = v /\ Place' = r /\ Gap(x, q, r, <<c>>) /\ q = pos
  <2>1. v = Between(State, c) /\ c \notin Space /\ loop \in {"main", "close"}
    BY <1>1, <1>3, <1>6 DEF Space
  <2>2. State' = v /\ Place' = r /\ q = pos
    BY <1>1, <1>2, <1>3, <1>8, <1>11, <2>1, CharIs
  <2>3. Gap(x, q, Place', <<c>>)
    BY <1>1, <1>2, <1>3, <1>8, <1>11, <2>1, CharGap
  <2>. QED
    BY <2>2, <2>3
<1>15. Told(x, t) /\ Now(x, t, p, s, q)
  BY <1>1, TellingIs
<1>16. Bracket(e) /\ e.end = -1 /\ First(e) = q /\ e.start = q /\ e.start + 1 = r /\ Opener(e) = <<c>>
       /\ e.type \notin {"string", "primitive"}
  BY <1>1, <1>3, <1>6, <1>12, <1>14 DEF Bracket, First, Opener
<1>17. Own(x, e)
  BY <1>14, <1>16 DEF Own
<1>18. Told(x, u)
  BY <1>2, <1>13, <1>15, <1>16, <1>17, ToldNew
<1>19. Now(x, u, Len(u), v, r)
  BY <1>2, <1>6, <1>8, <1>13, <1>16, <1>17, NowInside
<1>20. Top' = Len(u)
  <2>1. u[Len(u)].type = k /\ toksuper' = Len(u)
    <3>1. u[Len(u)] = e
      BY <1>13 DEF Added
    <3>2. e.type = k
      BY <1>12
    <3>3. toksuper' = Len(u)
      <4>1. toksuper' = Len(t) + 1
        BY <1>1, <1>11
      <4>. QED
        BY <1>13, <4>1
    <3>. QED
      BY <3>1, <3>2, <3>3
  <2>. QED
    BY <1>6, <1>12, <2>1 DEF Top, Up
<1>. QED
  BY <1>1, <1>11, <1>12, <1>14, <1>18, <1>19, <1>20, TellsOn

\* A string or a primitive begins: nothing has been read but what is being scanned.
LEMMA BeginTells ==
  ASSUME ParserInv, Alive, Filling, Progress, Telling, StringStart \/ PrimitiveStart, loop' # "returned"
  PROVE  Telling' /\ Scanning'
<1>1. loop = "main" /\ ~AtEnd /\ c \notin Delimiter
  BY DEF StringStart, PrimitiveStart, Reading, Primitive, Delimiter, Space, Closing
<1>2. /\ start' = pos /\ loop' \in {"string", "primitive"} /\ UNCHANGED <<js, toksuper, tokens>>
      /\ pos' = IF loop' = "string" THEN pos + 1 ELSE pos
  BY DEF StringStart, PrimitiveStart, Begin, Return
<1>3. State = R[pos] /\ pos < Len(js)
  BY <1>1, FillingParses, Starts
<1>4. R' = R /\ Top' = Top
  BY <1>2, SameReadings, SameTop
<1>5. State' = State /\ Place' = Place
  BY <1>1, <1>2, <1>3, <1>4 DEF State, Place
<1>6. Telling'
  BY <1>2, <1>4, <1>5 DEF Telling
<1>7. Scanning'
  <2>1. pos \in Nat
    BY DEF ParserInv, TypeOK
  <2>2. PICK a, b : a = pos /\ b = pos + 1
    OBVIOUS
  <2>3. \A x : Plain(x, a, a) /\ Plain(x, b, b)
    BY <2>1, <2>2 DEF Plain
  <2>. QED
    BY <1>2, <2>1, <2>2, <2>3 DEF Scanning
<1>. QED
  BY <1>6, <1>7

\* What has been scanned ends.
LEMMA ValueTells ==
  ASSUME ParserInv, Alive, Filling, Progress, Telling, loop \in {"string", "primitive"},
         ~ (loop' = "returned" /\ ret' = NOMEM),
         NEW type \in {"string", "primitive"}, NEW first \in 0 .. Len(js), NEW next, NewValue(type, first, next),
         NEW s, s = State, s.at \in {"member", "name"} => type = "string",
         Past(s) = Settled(R[next]),
         NEW x, x = js, NEW e, e = [type |-> type, start |-> first, end |-> pos, size |-> 0, parent |-> toksuper],
         Own(x, e), First(e) = start, Stop(e) = next
  PROVE  Telling'
<1>1. PICK t, p, q, v : t = tokens /\ p = Top /\ q = Place /\ v = Past(s)
  OBVIOUS
<1>2. /\ s \in Readers /\ OnPath(toksuper) /\ pos \in 0 .. Len(js) /\ x \in Seq(Char) /\ Shape(s) /\ s \in Reader
      /\ s.at \in {"first", "value", "member", "name"}
  BY FillingParses, ProgressIs, ScanIs
<1>3. ~Full
  BY DEF NewValue, Return
<1>4. /\ tokens' = Linked(type, first, pos, toksuper) /\ toksuper' = toksuper
      /\ loop' = "main" /\ pos' = next /\ js' = js
  BY <1>3 DEF NewValue, GoOn, AddToken
<1>5. PICK u : u = tokens'
  OBVIOUS
<1>6. Added(t, u, e) /\ Placed(t, p, s, e.parent) /\ Len(u) = Len(t) + 1
  <2>1. pos \in -1 .. Len(js) /\ type \in {"object", "array", "string", "primitive"}
    BY <1>2
  <2>. QED
    BY <1>1, <1>2, <1>4, <1>5, <2>1, AddedIs
<1>7. State' = v /\ Place' = next
  BY <1>1, <1>4, MainIs
<1>8. Told(x, t) /\ Now(x, t, p, s, First(e))
  <2>1. q = First(e)
    BY <1>1 DEF Place
  <2>2. Told(x, t) /\ Now(x, t, p, s, q)
    BY <1>1, TellingIs
  <2>. QED
    BY <2>1, <2>2
<1>9. ~Bracket(e)
  BY DEF Bracket
<1>10. Told(x, u)
  BY <1>2, <1>6, <1>8, <1>9, ToldNew
<1>11. Now(x, u, p, v, next)
  <2>1. s.at \in {"member", "name"} => e.type = "string"
    OBVIOUS
  <2>. QED
    BY <1>1, <1>2, <1>6, <1>8, <1>9, <2>1, NowAfter
<1>12. Top' = p
  <2>1. PICK n, k : n = Len(t) /\ k = toksuper
    OBVIOUS
  <2>2. k \in 0 .. n /\ n \in Nat
    BY <1>1, <1>2, <1>6, <2>1 DEF OnPath, Added, Longer
  <2>3. k # 0 => u[k].type = t[k].type /\ u[k].parent = t[k].parent
    <3>1. k # 0 => k \in 1 .. n
      BY <2>2
    <3>. QED
      BY <1>6, <2>1, <3>1 DEF Added, Longer
  <2>. QED
    BY <1>1, <1>4, <1>5, <2>1, <2>3 DEF Top, Up
<1>. QED
  BY <1>4, <1>5, <1>7, <1>10, <1>11, <1>12, TellsOn

LEMMA StringEndTells ==
  ASSUME ParserInv, Alive, Filling, Progress, Telling, Scanning, StringEnd, ~ (loop' = "returned" /\ ret' = NOMEM)
  PROVE  Telling'
<1>1. PICK s, p, x, e, a, b : /\ s = State /\ p = pos + 1 /\ x = js /\ a = start + 1 /\ b = pos
        /\ e = [type |-> "string", start |-> a, end |-> b, size |-> 0, parent |-> toksuper]
  OBVIOUS
<1>2. loop = "string" /\ ~AtEnd /\ c = "quote" /\ NewValue("string", a, p)
  BY <1>1 DEF StringEnd, Reading
<1>3. /\ s \in Reader /\ s.at \in {"first", "value", "member", "name"}
      /\ Len(js) \in Nat /\ pos \in 0 .. Len(js) /\ start \in 0 .. Len(js) /\ start < pos
      /\ pos < Len(js) /\ R[pos] = [s EXCEPT !.lex = "string"] /\ R[p] = Read(R[pos], c) /\ x \in Seq(Char)
  BY <1>1, <1>2, FillingParses, ScanIs
<1>4. R[p] = Past(s)
  <2>1. R[pos].lex = "string" /\ Past(R[pos]) = Past(s)
    BY <1>3 DEF Past, Reader
  <2>. QED
    BY <1>2, <1>3, <2>1 DEF Read
<1>5. R[p].lex = "none"
  BY <1>3, <1>4, PastType
<1>6. Past(s) = Settled(R[p])
  BY <1>4, <1>5 DEF Settled
<1>7. a \in 0 .. Len(x) /\ b \in 0 .. Len(x) /\ a <= b /\ a - 1 = start /\ b < Len(x) /\ b + 1 = p /\ b # -1
  BY <1>1, <1>3
<1>8. Gap(x, a, b, SubSeq(x, a + 1, b))
  <2>1. Plain(x, a, b)
    BY <1>1, <1>2 DEF Scanning
  <2>. QED
    BY <1>3, <1>7, <2>1, PlainGap
<1>9. Gap(x, start, a, <<"quote">>)
  <2>1. js[start + 1] = "quote"
    BY <1>2 DEF Progress, Lexes
  <2>2. start < Len(x) /\ start \in 0 .. Len(x)
    BY <1>1, <1>3
  <2>3. x[start + 1] = "quote" /\ x[start + 1] \notin Space
    BY <1>1, <2>1 DEF Space
  <2>4. Gap(x, start, start + 1, <<x[start + 1]>>)
    BY <1>3, <2>2, <2>3, GapChar
  <2>. QED
    BY <1>1, <2>3, <2>4
<1>10. Gap(x, b, p, <<"quote">>)
  <2>1. x[b + 1] = "quote" /\ x[b + 1] \notin Space
    BY <1>1, <1>2 DEF c, Space
  <2>2. Gap(x, b, b + 1, <<x[b + 1]>>)
    BY <1>3, <1>7, <2>1, GapChar
  <2>. QED
    BY <1>7, <2>1, <2>2
<1>11. Own(x, e)
  BY <1>1, <1>7, <1>8, <1>9, <1>10 DEF Own, Bracket
<1>12. First(e) = start /\ Stop(e) = p
  BY <1>1, <1>7 DEF First, Stop
<1>. QED
  BY <1>1, <1>2, <1>6, <1>7, <1>11, <1>12, ValueTells

LEMMA PrimitiveEndTells ==
  ASSUME ParserInv, Alive, Filling, Progress, Telling, Scanning, PrimitiveEnd, ~ (loop' = "returned" /\ ret' = NOMEM)
  PROVE  Telling'
<1>1. PICK s, x, e, a, b : /\ s = State /\ x = js /\ a = start /\ b = pos
        /\ e = [type |-> "primitive", start |-> a, end |-> b, size |-> 0, parent |-> toksuper]
  OBVIOUS
<1>2. loop = "primitive" /\ ~AtEnd /\ c \in Delimiter /\ NewValue("primitive", a, b)
  BY <1>1 DEF PrimitiveEnd, Reading
<1>3. /\ s \in Reader /\ s.at \in {"first", "value"}
      /\ Len(js) \in Nat /\ pos \in 0 .. Len(js) /\ start \in 0 .. Len(js) /\ start <= pos /\ start < Len(js)
      /\ pos < Len(js) /\ js[start + 1] \in Primitive /\ x \in Seq(Char)
      /\ pos = start \/ R[pos] = [s EXCEPT !.lex = "primitive"]
  BY <1>1, <1>2, FillingParses, ScanIs
<1>4. pos # start
  BY <1>2, <1>3 DEF c, Primitive, Delimiter, Space, Closing
<1>5. R[pos].lex = "primitive" /\ Past(R[pos]) = Past(s)
  BY <1>3, <1>4 DEF Past, Reader
<1>6. Past(s) = Settled(R[b])
  BY <1>1, <1>5 DEF Settled
<1>7. a \in 0 .. Len(x) /\ b \in 0 .. Len(x) /\ a < b /\ a <= b /\ b # -1
  BY <1>1, <1>3, <1>4
<1>8. Gap(x, a, b, SubSeq(x, a + 1, b))
  <2>1. Plain(x, a, b)
    BY <1>1, <1>2 DEF Scanning
  <2>. QED
    BY <1>3, <1>7, <2>1, PlainGap
<1>9. Own(x, e)
  BY <1>1, <1>3, <1>7, <1>8 DEF Own, Bracket
<1>10. First(e) = start /\ Stop(e) = b
  BY <1>1 DEF First, Stop
<1>. QED
  BY <1>1, <1>2, <1>3, <1>6, <1>7, <1>9, <1>10, ValueTells

\* A string or a primitive goes on, without white space that is not in the string.
LEMMA ScansOn ==
  ASSUME ParserInv, Alive, Filling, Progress, Telling, Scanning, loop \in {"string", "primitive"},
         NEW p, Skip(loop, p), pos <= p, p \in Nat,
         \A q \in pos .. p - 1 : js[q + 1] \notin Space \/ R[q].lex = "string"
  PROVE  Telling' /\ Scanning'
<1>1. /\ loop' = loop /\ pos' = p /\ start' = start /\ UNCHANGED <<js, toksuper, tokens>>
  BY DEF Skip, GoOn
<1>2. R' = R /\ Top' = Top
  BY <1>1, SameReadings, SameTop
<1>3. State' = State /\ Place' = Place
  BY <1>1, <1>2 DEF State, Place
<1>4. Telling'
  BY <1>1, <1>2, <1>3 DEF Telling
<1>5. pos \in Nat /\ start \in Nat
  BY DEF ParserInv, TypeOK
<1>6. ASSUME NEW a \in Nat, Plain(js, a, pos)
      PROVE  Plain(js, a, p)
  <2>1. ASSUME NEW q \in a + 1 .. p, q \notin a + 1 .. pos
        PROVE  js[q] \notin Space \/ Readings(js)[q - 1].lex = "string"
    <3>1. PICK k : k = q - 1
      OBVIOUS
    <3>2. k \in pos .. p - 1 /\ k + 1 = q
      BY <1>5, <2>1, <3>1
    <3>3. js[k + 1] \notin Space \/ R[k].lex = "string"
      BY <3>2
    <3>. QED
      BY <3>1, <3>2, <3>3 DEF R
  <2>. QED
    BY <1>6, <2>1 DEF Plain
<1>7. Scanning'
  <2>1. loop = "string" => start < p
    BY <1>5 DEF Scanning
  <2>2. loop = "string" => Plain(js, start + 1, p)
    BY <1>5, <1>6 DEF Scanning
  <2>3. loop = "primitive" => Plain(js, start, p)
    BY <1>5, <1>6 DEF Scanning
  <2>4. PICK x : x = js
    OBVIOUS
  <2>5. PICK a, b : a = start /\ b = start + 1
    OBVIOUS
  <2>. QED
    BY <1>1, <2>1, <2>2, <2>3, <2>4, <2>5 DEF Scanning
<1>. QED
  BY <1>4, <1>7

LEMMA PrimitiveCharTells ==
  ASSUME ParserInv, Alive, Filling, Progress, Telling, Scanning, PrimitiveChar, loop' # "returned"
  PROVE  Telling' /\ Scanning'
<1>1. loop = "primitive" /\ ~AtEnd /\ c \notin Delimiter /\ Skip("primitive", pos + 1)
  BY DEF PrimitiveChar, Reading, Return
<1>2. pos \in Nat
  BY DEF ParserInv, TypeOK
<1>3. PICK p : p = pos + 1
  OBVIOUS
<1>4. \A q \in pos .. p - 1 : q = pos
  BY <1>2, <1>3
<1>5. js[pos + 1] \notin Space
  BY <1>1 DEF c, Delimiter
<1>6. pos <= p /\ p \in Nat
  BY <1>2, <1>3
<1>. QED
  BY <1>1, <1>3, <1>4, <1>5, <1>6, ScansOn

LEMMA StringCharTells ==
  ASSUME ParserInv, Alive, Filling, Progress, Telling, Scanning, StringChar
  PROVE  Telling' /\ Scanning'
<1>1. loop = "string" /\ ~AtEnd /\ Skip("string", pos + 1)
  BY DEF StringChar, Reading
<1>2. PICK s, p : s = State /\ p = pos + 1
  OBVIOUS
<1>3. s \in Reader /\ pos \in 0 .. Len(js) /\ pos < Len(js) /\ R[pos] = [s EXCEPT !.lex = "string"]
  BY <1>1, <1>2, FillingParses, ScanIs
<1>4. R[pos].lex = "string"
  BY <1>3 DEF Reader
<1>5. pos <= p /\ p \in Nat /\ \A q \in pos .. p - 1 : q = pos
  BY <1>2, <1>3
<1>. QED
  BY <1>1, <1>2, <1>4, <1>5, ScansOn

LEMMA StringEscapeTells ==
  ASSUME ParserInv, Alive, Filling, Progress, Telling, Scanning, StringEscape, loop' # "returned"
  PROVE  Telling' /\ Scanning'
<1>1. PICK s, e, p : s = State /\ e = js[pos + 2] /\ p = pos + 2
  OBVIOUS
<1>2. loop = "string" /\ ~AtEnd /\ c = "bslash" /\ pos + 1 < Len(js)
  BY DEF StringEscape, Reading, IsEscape
<1>3. /\ s \in Reader /\ Len(js) \in Nat /\ pos \in 0 .. Len(js) /\ js \in Seq(Char) /\ TypeOK
      /\ R[pos] = [s EXCEPT !.lex = "string"] /\ R[pos + 1] = Read(R[pos], c)
  BY <1>1, <1>2, FillingParses, ScanIs, ProgressIs
<1>4. R[pos].lex = "string"
  BY <1>3 DEF Reader
<1>5. \A q \in pos .. p - 1 : q = pos \/ q = pos + 1
  BY <1>1, <1>3
<1>6. e \in Escaped \/ e = "u"
  BY <1>1 DEF StringEscape, Return
<1>7. js[pos + 1 + 1] = e /\ e \notin Space /\ pos <= p /\ p \in Nat /\ p \in 0 .. Len(js)
  <2>1. pos + 1 + 1 = p /\ pos <= p /\ p \in Nat /\ p \in 0 .. Len(js)
    BY <1>1, <1>2, <1>3
  <2>2. js[pos + 1 + 1] = e
    BY <1>1, <2>1
  <2>3. e \notin Space
    BY <1>6 DEF Escaped, Space
  <2>. QED
    BY <2>1, <2>2, <2>3
<1>8. CASE e \in Escaped
  <2>1. Skip("string", p)
    BY <1>1, <1>8 DEF StringEscape, Escaped
  <2>2. \A q \in pos .. p - 1 : js[q + 1] \notin Space \/ R[q].lex = "string"
    BY <1>4, <1>5, <1>7
  <2>. QED
    BY <1>2, <1>7, <2>1, <2>2, ScansOn
<1>9. CASE e = "u" /\ e \notin Escaped
  <2>1. PICK r : r = AfterHex(p)
    OBVIOUS
  <2>2. Skip("string", r) /\ \A q \in p .. r - 1 : js[q + 1] \in HexDigit
    BY <1>1, <1>9, <2>1 DEF StringEscape, Return, Escaped
  <2>3. r \in Nat /\ p <= r
    BY <1>7, <2>1 DEF AfterHex
  <2>4. \A q \in pos .. r - 1 : q \in pos .. p - 1 \/ q \in p .. r - 1
    BY <1>3, <1>7, <2>3
  <2>5. \A q \in pos .. r - 1 : js[q + 1] \notin Space \/ R[q].lex = "string"
    BY <1>4, <1>5, <1>7, <2>2, <2>4 DEF HexDigit, Space
  <2>. QED
    BY <1>2, <1>3, <1>7, <2>2, <2>3, <2>5, ScansOn
<1>. QED
  BY <1>6, <1>8, <1>9

\* The second pass has read a document.
LEMMA EndTells ==
  ASSUME ParserInv, Alive, Filling, Progress, Telling, DocumentInv', End \/ Partial, ret' > 0
  PROVE  Answered'
<1>1. PICK s, l : s = State /\ l = Len(js)
  OBVIOUS
<1>2. TypeOK /\ s \in Reader /\ Lexes /\ Shape(s)
  BY <1>1, FillingParses, ProgressIs
<1>3. /\ loop = "main" /\ AtEnd
      /\ loop' = "returned" /\ UNCHANGED <<js, pass, tokens, toksuper>>
  <2>1. ~Partial
    BY DEF Partial, Return, PART
  <2>. QED
    BY <2>1 DEF End, Return
<1>4. pos = l
  BY <1>1, <1>2, <1>3, AliveEnd
<1>5. R' = R /\ Alive'
  BY <1>3, SameReadings
<1>6. R[l] = Whole
  <2>1. Filling'
    BY <1>3 DEF Filling
  <2>. QED
    BY <1>1, <1>3, <1>5, <2>1 DEF DocumentInv
<1>7. s = Whole
  BY <1>1, <1>3, <1>4, <1>6 DEF State, Settled, Whole
<1>8. Top = 0
  BY <1>2, <1>7, TopIs DEF Whole
<1>9. Place = l
  BY <1>3, <1>4 DEF Place
<1>10. Answered
  BY <1>1, <1>7, <1>8, <1>9 DEF Answered, Telling
<1>. QED
  BY <1>3, <1>10 DEF Answered

\* When a pass returns otherwise, it has failed.
LEMMA OnlyEndSucceeds ==
  ASSUME jsmn_parse, loop # "returned", loop' = "returned", ~ (End \/ Partial)
  PROVE  ret' <= 0
<1>1. CASE Open \/ StringEnd \/ PrimitiveEnd
  BY <1>1 DEF Open, StringEnd, PrimitiveEnd, NewValue, Return, GoOn, INVAL, NOMEM
<1>2. CASE Close \/ CloseFound \/ CloseUp \/ White \/ Colon \/ Comma
  BY <1>2 DEF Close, CloseFound, CloseUp, White, Colon, Comma, Return, GoOn, Skip, SetSuper, INVAL, NOMEM
<1>3. CASE StringStart \/ PrimitiveStart \/ Unexpected
  <2>1. CASE StringStart
    BY <2>1 DEF StringStart, Begin
  <2>2. CASE PrimitiveStart \/ Unexpected
    <3>1. Return(INVAL)
      BY <2>2 DEF PrimitiveStart, Unexpected, Begin
    <3>. QED
      BY <3>1 DEF Return, INVAL
  <2>. QED
    BY <1>3, <2>1, <2>2
<1>5. CASE StringChar \/ PrimitiveChar
  BY <1>5 DEF StringChar, PrimitiveChar, GoOn, Skip, Return, INVAL
<1>4. CASE StringEscape
  BY <1>4 DEF StringEscape, GoOn, Skip, Return, INVAL
<1>. QED
  BY <1>1, <1>2, <1>3, <1>4, <1>5 DEF jsmn_parse

LEMMA ParseTells ==
  ASSUME PassesInv, PassesInv', DocumentInv, DocumentInv', TextInv, jsmn_parse
  PROVE  TextInv'
<1>1. ParserInv /\ TokensCounted /\ Parsing
  BY DEF PassesInv, jsmn_parse, Parsing
<1>2. loop # "returned"
  BY DEF jsmn_parse, Open, Close, CloseFound, CloseUp, White, Colon, Comma, StringStart, PrimitiveStart,
         Unexpected, End, StringEnd, StringEscape, StringChar, PrimitiveEnd, PrimitiveChar, Partial, Reading
<1>3. js' = js /\ pass' = pass
  BY DEF jsmn_parse, Open, Close, CloseFound, CloseUp, White, Colon, Comma, StringStart, PrimitiveStart,
         Unexpected, End, StringEnd, StringEscape, StringChar, PrimitiveEnd, PrimitiveChar, Partial,
         Return, GoOn, Skip, SetSuper, Begin, NewValue
<1>4. R' = R /\ (Alive' <=> Alive) /\ ~Done' /\ (Filling' <=> Filling)
  BY <1>1, <1>3, SameReadings DEF Parsing, Done, Filling
<1>5. SUFFICES ASSUME Alive, Filling
               PROVE  /\ loop' # "returned" => Telling' /\ Scanning'
                      /\ loop' = "returned" /\ ret' > 0 => Answered'
  BY <1>4 DEF TextInv
<1>6. Progress /\ Telling /\ Scanning
  BY <1>1, <1>2, <1>5 DEF DocumentInv, TextInv
<1>7. CASE loop' = "returned" /\ ret' > 0
  <2>2. End \/ Partial
    <3>1. ret' \in Int
      BY DEF PassesInv, ParserInv, TypeOK
    <3>. QED
      BY <1>2, <1>7, <3>1, OnlyEndSucceeds
  <2>. QED
    BY <1>1, <1>5, <1>6, <1>7, <2>2, EndTells
<1>8. CASE loop' # "returned"
  <2>1. loop' \in {"main", "close"} => Scanning'
    BY DEF Scanning
  <2>2. CASE StringStart \/ PrimitiveStart
    BY <1>1, <1>5, <1>6, <1>8, <2>2, BeginTells
  <2>3. CASE StringChar
    BY <1>1, <1>5, <1>6, <1>8, <2>3, StringCharTells
  <2>4. CASE StringEscape
    BY <1>1, <1>5, <1>6, <1>8, <2>4, StringEscapeTells
  <2>5. CASE PrimitiveChar
    BY <1>1, <1>5, <1>6, <1>8, <2>5, PrimitiveCharTells
  <2>6. CASE White \/ Colon \/ Comma
    <3>1. loop' = "main"
      BY <2>6 DEF White, Colon, Comma, Skip, SetSuper, GoOn
    <3>. QED
      BY <1>1, <1>5, <1>6, <2>1, <2>6, <3>1, WhiteTells, ColonTells, CommaTells
  <2>7. CASE Close \/ CloseUp
    <3>1. loop' \in {"main", "close"}
      BY <1>8, <2>7 DEF Close, CloseUp, Skip, GoOn, Return
    <3>. QED
      BY <1>1, <1>5, <1>6, <1>8, <2>1, <2>7, <3>1, SearchTells
  <2>8. CASE CloseFound
    <3>1. loop' = "main"
      BY <1>8, <2>8 DEF CloseFound, GoOn, Return
    <3>. QED
      BY <1>1, <1>5, <1>6, <2>1, <2>8, <3>1, CloseTells
  <2>9. CASE Open \/ StringEnd \/ PrimitiveEnd
    <3>1. loop' = "main"
      BY <1>8, <2>9 DEF Open, StringEnd, PrimitiveEnd, NewValue, GoOn, Return
    <3>. QED
      BY <1>1, <1>5, <1>6, <1>8, <2>1, <2>9, <3>1, OpenTells, StringEndTells, PrimitiveEndTells
  <2>10. ~ (Unexpected \/ End \/ Partial)
    BY <1>8 DEF Unexpected, End, Partial, Return
  <2>. QED
    BY <2>2, <2>3, <2>4, <2>5, <2>6, <2>7, <2>8, <2>9, <2>10 DEF jsmn_parse
<1>. QED
  BY <1>7, <1>8

LEMMA TextInit ==
  ASSUME PInit
  PROVE  TextInv
BY DEF PInit, Init, TextInv, Done, Filling

LEMMA TextStep ==
  ASSUME PassesInv, PassesInv', DocumentInv, DocumentInv', TextInv, [PNext]_pvars
  PROVE  TextInv'
<1>1. ParserInv /\ ParserInv' /\ js \in Seq(Char)
  BY DEF PassesInv, ParserInv, TypeOK
<1>2. ASSUME js' = js, tokens' = tokens
      PROVE  (Alive' <=> Alive) /\ (Answered' <=> Answered)
  BY <1>2, SameReadings DEF Answered
<1>3. CASE UNCHANGED vars
  <2>1. /\ js' = js /\ pass' = pass /\ pos' = pos /\ toksuper' = toksuper /\ tokens' = tokens
        /\ loop' = loop /\ start' = start /\ ret' = ret
    BY <1>3 DEF vars
  <2>2. R' = R /\ Top' = Top
    BY <2>1, SameReadings, SameTop
  <2>3. State' = State /\ Place' = Place
    BY <2>1, <2>2 DEF State, Place
  <2>4. (Telling' <=> Telling) /\ (Scanning' <=> Scanning)
    BY <2>1, <2>2, <2>3 DEF Telling, Scanning
  <2>5. (Done' <=> Done) /\ (Filling' <=> Filling)
    BY <2>1 DEF Done, Filling
  <2>. QED
    BY <1>2, <2>1, <2>4, <2>5 DEF TextInv
<1>4. CASE jsmn_parse
  BY <1>4, ParseTells
<1>5. ASSUME NEW allocated \in BOOLEAN, StartFill(allocated)
      PROVE  TextInv'
  <2>1. /\ js' = js /\ tokens' = tokens /\ pass = "count" /\ pass' \in {"fill", "failed"}
        /\ pos' = 0 /\ toksuper' = 0 /\ loop' = "main"
    BY <1>5 DEF StartFill, Fill
  <2>2. PICK x, t : x = js /\ t = tokens
    OBVIOUS
  <2>3. t = <<>> /\ x \in Seq(Char) /\ Len(x) \in Nat
    BY <1>1, <2>1, <2>2, LenProperties DEF ParserInv
  <2>4. R[0] = Start
    BY <2>2, <2>3, ReadingsAt DEF R
  <2>5. State' = Start /\ Place' = 0
    BY <2>1, <2>4, MainIs DEF Settled, Start
  <2>6. Told(x, t)
    BY <2>3 DEF Told
  <2>7. Gap(x, 0, 0, <<>>)
    BY <2>3, GapNone
  <2>8. \A p : Now(x, t, p, Start, 0)
    BY <2>7 DEF Now, Start
  <2>9. Telling'
    <3>1. PICK p : p = Top'
      OBVIOUS
    <3>. QED
      BY <2>1, <2>2, <2>5, <2>6, <2>8, <3>1, TellsOn
  <2>10. Scanning'
    BY <2>1 DEF Scanning
  <2>. QED
    BY <2>1, <2>9, <2>10 DEF TextInv, Done
<1>6. CASE ParseFails
  BY <1>6 DEF ParseFails, TextInv, Filling, Done
<1>7. CASE ParseOk
  <2>1. /\ Filling /\ loop = "returned" /\ ret > 0 /\ pass' = "done"
        /\ js' = js /\ tokens' = tokens /\ loop' = loop
    BY <1>7 DEF ParseOk, Filling
  <2>. QED
    BY <1>2, <2>1 DEF TextInv, Filling, Done
<1>8. CASE Call
  <2>1. UNCHANGED vars \/ json_parse_end
    BY <1>8 DEF Call, ObjEnter, ArrEnter, Enter, json_obj_leave, json_arr_leave, LeaveTo
  <2>2. CASE json_parse_end
    BY <2>2 DEF json_parse_end, TextInv, Done, Filling
  <2>. QED
    BY <1>3, <2>1, <2>2
<1>. QED
  BY <1>3, <1>4, <1>5, <1>6, <1>7, <1>8 DEF PNext, Parse, json_parse_start, pvars

\* Where the tokens are, for every document.
LEMMA TextInvariant == PSpec => [](DocumentsInv /\ TextInv)
<1>1. PInit => TextInv
  BY TextInit
<1>2. DocumentsInv /\ DocumentsInv' /\ TextInv /\ [PNext]_pvars => TextInv'
  BY TextStep DEF DocumentsInv
<1>. QED
  BY <1>1, <1>2, DocumentsInvariant, PTL DEF PSpec

-------------------------------------------------------------------------------
(* A document is what its tokens give when they are written down: from the *)
(* last token to the first, for an element is written with those inside it. *)

Document == DocumentsInv /\ TextInv /\ Done /\ IsDocument(js)

\* The element that begins with token i, without white space, is w.
Spelled(i, w) == Gap(js, First(tokens[i]), After(tokens, i), w)

\* What Written says of token i, if g has what it says of the others.
Parts(g, i) == [n \in DOMAIN Children(i) |-> g[Children(i)[n]]]
Commas(parts) == [n \in DOMAIN parts |-> IF n = 1 THEN parts[n] ELSE <<",">> \o parts[n]]
Body(g, i) ==
  CASE tokens[i].type = "object" -> <<"{">> \o FlattenSeq(Commas(Parts(g, i))) \o <<"}">>
    [] tokens[i].type = "array" -> <<"[">> \o FlattenSeq(Commas(Parts(g, i))) \o <<"]">>
    [] tokens[i].type = "primitive" -> TextOf(tokens[i])
    [] OTHER -> <<"quote">> \o TextOf(tokens[i]) \o <<"quote">>
                \o (IF Parts(g, i) = <<>> THEN <<>> ELSE <<":">> \o FlattenSeq(Parts(g, i)))

Writes(g) == g = [i \in DOMAIN tokens |-> Body(g, i)]

LEMMA WrittenIs == Written = CHOOSE g : Writes(g)
BY DEF Written, Writes, Body, Commas, Parts

LEMMA DocumentIs ==
  ASSUME Document
  PROVE  /\ js \in Seq(Char) /\ Len(js) \in Nat
         /\ TypedForest /\ Formed /\ Told(js, tokens) /\ Now(js, tokens, 0, Whole, Len(js))
         /\ Len(tokens) \in Nat /\ DOMAIN tokens = 1 .. Len(tokens) /\ 1 \in DOMAIN tokens
         /\ tokens[1].parent = 0
         /\ \A i \in DOMAIN tokens :
              /\ tokens[i].type \in {"object", "array", "string", "primitive"}
              /\ tokens[i].parent \in Nat /\ tokens[i].parent < i
              /\ tokens[i].end # -1
              /\ IsKey(i) => ChildrenOf(i) = {i + 1}
              /\ Named(tokens, i) <=> IsKey(i)
<1>1. /\ ParserInv /\ TypedForest /\ Formed
      /\ DOMAIN tokens = 1 .. Len(tokens) /\ Len(tokens) \in Nat /\ 1 \in DOMAIN tokens
      /\ tokens[1].parent = 0
      /\ \A i \in DOMAIN tokens : ~IsOpen(tokens[i])
      /\ \A i \in DOMAIN tokens : IsKey(i) => ChildrenOf(i) = {i + 1}
      /\ Alive
  BY DocumentFacts DEF Document
<1>2. js \in Seq(Char) /\ Len(js) \in Nat
  BY <1>1, LenProperties DEF ParserInv, TypeOK
<1>3. Told(js, tokens) /\ Now(js, tokens, 0, Whole, Len(js))
  <2>1. Answered
    BY <1>1 DEF Document, TextInv
  <2>. QED
    BY <2>1 DEF Answered
<1>4. ASSUME NEW i \in DOMAIN tokens
      PROVE  /\ tokens[i].type \in {"object", "array", "string", "primitive"}
             /\ tokens[i].parent \in Nat /\ tokens[i].parent < i
             /\ tokens[i].end # -1
             /\ Named(tokens, i) <=> IsKey(i)
  <2>1. tokens[i] \in Token
    BY <1>1 DEF TypedForest
  <2>2. tokens[i].parent \in Nat /\ tokens[i].parent < i
    BY <1>1, ForestFacts
  <2>3. Own(js, tokens[i])
    BY <1>1, <1>3 DEF Told
  <2>4. tokens[i].type \in {"object", "array", "string", "primitive"}
    BY <2>1 DEF Token
  <2>5. tokens[i].end # -1
    <3>1. CASE Bracket(tokens[i])
      <4>1. tokens[i].start # -1
        BY <1>2, <2>3, <3>1 DEF Own, Gap
      <4>. QED
        BY <1>1, <4>1 DEF IsOpen
    <3>2. CASE ~Bracket(tokens[i])
      BY <2>3, <3>2 DEF Own
    <3>. QED
      BY <3>1, <3>2
  <2>. QED
    BY <2>2, <2>4, <2>5 DEF Named, IsKey
<1>. QED
  BY <1>1, <1>2, <1>3, <1>4

\* The children of a token in order, and none between them.
LEMMA ChildOrder ==
  ASSUME TypedForest, NEW i \in DOMAIN tokens
  PROVE  /\ \A a, b \in 1 .. tokens[i].size : a < b <=> Children(i)[a] < Children(i)[b]
         /\ \A k \in ChildrenOf(i) : \E n \in 1 .. tokens[i].size : Children(i)[n] = k
<1>1. /\ tokens[i].size \in Nat
      /\ \A n \in 1 .. tokens[i].size : n - 1 \in 0 .. tokens[i].size - 1
                                        /\ Children(i)[n] = Child(i, n - 1)
  BY ChildrenAre
<1>2. ASSUME NEW a \in 1 .. tokens[i].size, NEW b \in 1 .. tokens[i].size
      PROVE  a < b <=> Children(i)[a] < Children(i)[b]
  <2>1. PICK m, n : m = a - 1 /\ n = b - 1
    OBVIOUS
  <2>2. m \in Nat /\ n \in Nat /\ m \in 0 .. tokens[i].size - 1 /\ n \in 0 .. tokens[i].size - 1 /\ (a < b <=> m < n)
    BY <1>1, <2>1
  <2>3. NthChild(i, m, Child(i, m)) /\ NthChild(i, n, Child(i, n))
    BY <2>2, ChildIsNth
  <2>4. m < n <=> Child(i, m) < Child(i, n)
    BY <2>2, <2>3, NthOrder
  <2>. QED
    BY <1>1, <2>1, <2>2, <2>4
<1>3. ASSUME NEW k \in ChildrenOf(i)
      PROVE  \E n \in 1 .. tokens[i].size : Children(i)[n] = k
  <2>1. PICK m \in 0 .. tokens[i].size - 1 : Child(i, m) = k
    BY EveryChild
  <2>2. PICK n : n = m + 1
    OBVIOUS
  <2>3. n \in 1 .. tokens[i].size /\ n - 1 = m
    BY <1>1, <2>2
  <2>. QED
    BY <1>1, <2>1, <2>3
<1>. QED
  BY <1>2, <1>3

LEMMA ChildrenApart ==
  ASSUME TypedForest, NEW i \in DOMAIN tokens
  PROVE  /\ tokens[i].size = 0 => Childless(tokens, i, Len(tokens) + 1)
         /\ tokens[i].size # 0 => Childless(tokens, i, Children(i)[1])
         /\ \A n \in 1 .. tokens[i].size :
              /\ Children(i)[n] \in DOMAIN tokens /\ Children(i)[n] > i
              /\ tokens[Children(i)[n]].parent = i
              /\ n < tokens[i].size => Youngest(tokens, Children(i)[n], i, Children(i)[n + 1])
              /\ n = tokens[i].size => Youngest(tokens, Children(i)[n], i, Len(tokens) + 1)
<1>. DEFINE size == tokens[i].size
            ch == Children(i)
<1>1. /\ size \in Nat /\ Len(tokens) \in Nat /\ DOMAIN tokens = 1 .. Len(tokens) /\ i \in Nat
      /\ \A n \in 1 .. size : ch[n] \in ChildrenOf(i)
      /\ \A j \in DOMAIN tokens : tokens[j].parent < j
  BY ForestFacts, ChildrenAre
<1>2. /\ \A a, b \in 1 .. size : a < b <=> ch[a] < ch[b]
      /\ \A k \in ChildrenOf(i) : \E n \in 1 .. size : ch[n] = k
  BY ChildOrder
<1>. HIDE DEF size, ch
<1>3. \A n \in 1 .. size : ch[n] \in 1 .. Len(tokens) /\ tokens[ch[n]].parent = i /\ ch[n] > i
  BY <1>1 DEF ChildrenOf
<1>4. \A k \in 1 .. Len(tokens) : tokens[k].parent = i => \E n \in 1 .. size : ch[n] = k
  BY <1>1, <1>2 DEF ChildrenOf
<1>5. size = 0 => Childless(tokens, i, Len(tokens) + 1)
  BY <1>1, <1>4 DEF Childless
<1>6. size # 0 => Childless(tokens, i, ch[1])
  <2>. SUFFICES ASSUME size # 0, NEW k \in 1 .. ch[1] - 1, tokens[k].parent = i
                PROVE  FALSE
    BY DEF Childless
  <2>1. 1 \in 1 .. size /\ ch[1] \in 1 .. Len(tokens)
    BY <1>1, <1>3
  <2>2. k \in 1 .. Len(tokens) /\ k < ch[1]
    BY <1>1, <2>1
  <2>3. PICK n \in 1 .. size : ch[n] = k
    BY <1>4, <2>2
  <2>4. n < 1
    BY <1>2, <2>1, <2>2, <2>3
  <2>. QED
    BY <1>1, <2>4
<1>7. ASSUME NEW n \in 1 .. size, n < size
      PROVE  Youngest(tokens, ch[n], i, ch[n + 1])
  <2>1. PICK m : m = n + 1
    OBVIOUS
  <2>2. m \in 1 .. size /\ n < m /\ n \in Nat
    BY <1>1, <1>7, <2>1
  <2>3. ch[n] < ch[m] /\ ch[n] \in 1 .. Len(tokens) /\ ch[m] \in 1 .. Len(tokens)
    BY <1>2, <1>3, <2>2
  <2>4. ASSUME NEW l \in ch[n] + 1 .. ch[m] - 1, tokens[l].parent = i
        PROVE  FALSE
    <3>1. l \in 1 .. Len(tokens) /\ ch[n] < l /\ l < ch[m]
      BY <1>1, <2>3, <2>4
    <3>2. PICK j \in 1 .. size : ch[j] = l
      BY <1>4, <2>4, <3>1
    <3>3. n < j /\ j < m
      BY <1>2, <2>2, <3>1, <3>2
    <3>. QED
      BY <1>1, <2>1, <2>2, <3>3
  <2>5. ch[n] \in 1 .. ch[m] - 1
    BY <2>3
  <2>. QED
    BY <1>3, <2>1, <2>4, <2>5 DEF Youngest
<1>8. size # 0 => Youngest(tokens, ch[size], i, Len(tokens) + 1)
  <2>. SUFFICES ASSUME size # 0
                PROVE  Youngest(tokens, ch[size], i, Len(tokens) + 1)
    OBVIOUS
  <2>1. size \in 1 .. size /\ ch[size] \in 1 .. Len(tokens)
    BY <1>1, <1>3
  <2>2. ASSUME NEW l \in ch[size] + 1 .. Len(tokens) + 1 - 1, tokens[l].parent = i
        PROVE  FALSE
    <3>1. l \in 1 .. Len(tokens) /\ ch[size] < l
      BY <1>1, <2>1, <2>2
    <3>2. PICK j \in 1 .. size : ch[j] = l
      BY <1>4, <2>2, <3>1
    <3>3. size < j
      BY <1>2, <2>1, <3>1, <3>2
    <3>. QED
      BY <1>1, <3>3
  <2>3. ch[size] \in 1 .. Len(tokens) + 1 - 1
    BY <1>1, <2>1
  <2>. QED
    BY <1>3, <2>1, <2>2, <2>3 DEF Youngest
<1>. QED
  BY <1>1, <1>3, <1>5, <1>6, <1>7, <1>8 DEF size, ch

LEMMA SpelledType ==
  ASSUME Document, NEW i, NEW w, Spelled(i, w)
  PROVE  w \in Seq(Char)
BY DocumentIs, CompactIs DEF Spelled, Gap

\* The text of a token that is not an object or array.
LEMMA TextGap ==
  ASSUME Document, NEW i \in DOMAIN tokens, ~Bracket(tokens[i])
  PROVE  /\ Gap(js, tokens[i].start, tokens[i].end, TextOf(tokens[i]))
         /\ TextOf(tokens[i]) \in Seq(Char)
<1>1. js \in Seq(Char) /\ Own(js, tokens[i])
  BY DocumentIs DEF Told
<1>2. Gap(js, tokens[i].start, tokens[i].end, TextOf(tokens[i]))
  BY <1>1 DEF Own, TextOf
<1>. QED
  BY <1>1, <1>2, CompactIs DEF Gap

LEMMA PrimitiveSpelled ==
  ASSUME Document, NEW i \in DOMAIN tokens, tokens[i].type = "primitive", NEW g
  PROVE  Spelled(i, Body(g, i))
<1>1. Body(g, i) = TextOf(tokens[i])
  BY DEF Body
<1>2. After(tokens, i) = tokens[i].end /\ First(tokens[i]) = tokens[i].start
  BY DEF After, Named, Stop, First
<1>. QED
  BY <1>1, <1>2, TextGap DEF Spelled, Bracket

\* A string with its quotation marks.
LEMMA QuotedGap ==
  ASSUME Document, NEW i \in DOMAIN tokens, tokens[i].type = "string"
  PROVE  /\ TextOf(tokens[i]) \in Seq(Char)
         /\ Gap(js, First(tokens[i]), Stop(tokens[i]), (<<"quote">> ++ TextOf(tokens[i])) ++ <<"quote">>)
<1>1. js \in Seq(Char) /\ Own(js, tokens[i])
  BY DocumentIs DEF Told
<1>2. PICK a, b : a = tokens[i].start /\ b = tokens[i].end
  OBVIOUS
<1>3. Gap(js, a - 1, a, <<"quote">>) /\ Gap(js, b, b + 1, <<"quote">>)
  BY <1>1, <1>2 DEF Own
<1>4. Gap(js, a, b, TextOf(tokens[i])) /\ TextOf(tokens[i]) \in Seq(Char)
  BY <1>2, TextGap DEF Bracket
<1>5. Gap(js, a - 1, b, <<"quote">> ++ TextOf(tokens[i]))
  BY <1>1, <1>3, <1>4, GapJoin
<1>6. Gap(js, a - 1, b + 1, (<<"quote">> ++ TextOf(tokens[i])) ++ <<"quote">>)
  BY <1>1, <1>3, <1>5, GapJoin
<1>. QED
  BY <1>2, <1>4, <1>6 DEF First, Stop

LEMMA Marks ==
  /\ <<"quote">> \in Seq(Char) /\ <<":">> \in Seq(Char) /\ <<",">> \in Seq(Char)
  /\ <<"{">> \in Seq(Char) /\ <<"}">> \in Seq(Char) /\ <<"[">> \in Seq(Char) /\ <<"]">> \in Seq(Char)
<1>1. \A ch \in Char : <<ch>> \in Seq(Char)
  OBVIOUS
<1>2. {"quote", ":", ",", "{", "}", "[", "]"} \subseteq Char
  BY DEF Char
<1>. QED
  BY <1>1, <1>2, Zenon

\* A string that is not a name has no children.
LEMMA NoParts ==
  ASSUME Document, NEW i \in DOMAIN tokens, tokens[i].type = "string", ~IsKey(i), NEW g
  PROVE  Parts(g, i) = <<>>
<1>1. ChildrenOf(i) = {}
  <2>. SUFFICES ASSUME NEW j \in DOMAIN tokens, tokens[j].parent = i
                PROVE  FALSE
    BY DEF ChildrenOf
  <2>1. i # 0
    BY DocumentIs
  <2>. QED
    BY <2>1, DocumentIs DEF Formed
<1>2. tokens[i].size = 0
  BY <1>1, DocumentIs, ForestFacts, FS_EmptySet
<1>3. DOMAIN Children(i) = 1 .. 0
  BY <1>2, DocumentIs, ChildrenAre
<1>. QED
  BY <1>3 DEF Parts

LEMMA StringSpelled ==
  ASSUME Document, NEW i \in DOMAIN tokens, tokens[i].type = "string", ~IsKey(i), NEW g
  PROVE  /\ Spelled(i, Body(g, i))
         /\ Body(g, i) = (<<"quote">> ++ TextOf(tokens[i])) ++ <<"quote">>
<1>1. PICK w : w = (<<"quote">> ++ TextOf(tokens[i])) ++ <<"quote">>
  OBVIOUS
<1>2. Gap(js, First(tokens[i]), Stop(tokens[i]), w) /\ TextOf(tokens[i]) \in Seq(Char)
  BY <1>1, QuotedGap
<1>3. After(tokens, i) = Stop(tokens[i])
  BY DocumentIs DEF After
<1>4. Spelled(i, w)
  BY <1>2, <1>3 DEF Spelled
<1>5. w \in Seq(Char)
  BY <1>4, SpelledType
<1>6. Body(g, i) = <<"quote">> \o TextOf(tokens[i]) \o <<"quote">> \o <<>>
  <2>1. Parts(g, i) = <<>>
    BY NoParts
  <2>. QED
    BY <2>1, Zenon DEF Body
<1>7. Body(g, i) = w ++ <<>>
  BY <1>1, <1>6 DEF ++
<1>8. Body(g, i) = w
  BY <1>5, <1>7, JoinEmpty
<1>. QED
  BY <1>1, <1>4, <1>8

\* A name, its colon and its value.
LEMMA KeySpelled ==
  ASSUME Document, NEW i \in DOMAIN tokens, IsKey(i), NEW g,
         \A j \in DOMAIN tokens : j > i => Spelled(j, g[j])
  PROVE  Spelled(i, Body(g, i))
<1>1. /\ js \in Seq(Char) /\ TypedForest /\ Told(js, tokens) /\ i \in Nat
      /\ ChildrenOf(i) = {i + 1} /\ tokens[i].type = "string" /\ Named(tokens, i)
      /\ DOMAIN tokens = 1 .. Len(tokens)
  BY DocumentIs DEF IsKey
<1>2. PICK k : k = i + 1
  OBVIOUS
<1>3. k \in DOMAIN tokens /\ tokens[k].parent = i /\ i # 0 /\ k > i
  BY <1>1, <1>2 DEF ChildrenOf
<1>4. Gap(js, Stop(tokens[i]), First(tokens[k]), <<":">>)
  <2>1. Before(js, tokens, k)
    BY <1>1, <1>3 DEF Told
  <2>2. Spans(js, tokens, i, k, First(tokens[k]), <<":">>, <<",">>)
    BY <1>1, <1>3, <2>1 DEF Before
  <2>3. Childless(tokens, i, k)
    <3>1. \A l \in 1 .. k - 1 : l \in DOMAIN tokens /\ l < i + 1 /\ l \in Nat
      BY <1>1, <1>2, <1>3
    <3>2. \A l \in DOMAIN tokens : tokens[l].parent \in Nat /\ tokens[l].parent < l
      BY DocumentIs
    <3>. QED
      BY <1>1, <3>1, <3>2 DEF Childless
  <2>4. Lead(tokens[i]) = Stop(tokens[i])
    BY <1>1 DEF Lead, Bracket
  <2>. QED
    BY <2>2, <2>3, <2>4 DEF Spans
<1>5. Spelled(k, g[k]) /\ g[k] \in Seq(Char)
  BY <1>3, SpelledType
<1>6. After(tokens, k) = Stop(tokens[k]) /\ After(tokens, i) = Stop(tokens[k])
  <2>1. ~Named(tokens, k)
    BY <1>1, <1>3 DEF Named
  <2>. QED
    BY <1>1, <1>2, <2>1 DEF After
<1>7. PICK q, text, w, f, v : /\ q = <<"quote">> /\ text = TextOf(tokens[i]) /\ w = (q ++ text) ++ q
                              /\ f = g[k] /\ v = <<":">>
  OBVIOUS
<1>8. Gap(js, First(tokens[i]), Stop(tokens[i]), w) /\ text \in Seq(Char)
  BY <1>1, <1>7, QuotedGap
<1>9. Gap(js, First(tokens[k]), Stop(tokens[k]), f)
  BY <1>5, <1>6, <1>7 DEF Spelled
<1>10. Gap(js, Stop(tokens[i]), Stop(tokens[k]), v ++ f)
  BY <1>1, <1>4, <1>7, <1>9, GapJoin
<1>11. Spelled(i, w ++ (v ++ f))
  <2>1. Gap(js, First(tokens[i]), Stop(tokens[k]), w ++ (v ++ f))
    BY <1>1, <1>8, <1>10, GapJoin
  <2>. QED
    BY <1>6, <2>1 DEF Spelled
<1>12. Parts(g, i) = <<f>>
  <2>1. tokens[i].size = 1
    <3>1. tokens[i].size = Cardinality({k})
      BY <1>1, <1>2, ForestFacts
    <3>. QED
      BY <3>1, FS_Singleton
  <2>2. DOMAIN Children(i) = 1 .. 1 /\ Children(i)[1] \in ChildrenOf(i)
    <3>1. PICK m : m = tokens[i].size
      OBVIOUS
    <3>2. DOMAIN Children(i) = 1 .. m /\ \A n \in 1 .. m : Children(i)[n] \in ChildrenOf(i)
      BY <1>1, <3>1, ChildrenAre
    <3>. QED
      BY <2>1, <3>1, <3>2
  <2>3. Children(i)[1] = k
    BY <1>1, <1>2, <2>2
  <2>4. \A n \in 1 .. 1 : n = 1
    OBVIOUS
  <2>5. Parts(g, i) = [n \in 1 .. 1 |-> f]
    BY <1>7, <2>2, <2>3, <2>4, Zenon DEF Parts
  <2>. QED
    BY <2>5
<1>13. FlattenSeq(Parts(g, i)) = f
  BY <1>5, <1>7, <1>12, FlattenShort
<1>14. Body(g, i) = ((q \o text) \o q) \o (v \o f)
  <2>1. Parts(g, i) # <<>>
    BY <1>12
  <2>. QED
    BY <1>1, <1>7, <1>13, <2>1, Zenon DEF Body
<1>15. Body(g, i) = w ++ (v ++ f)
  BY <1>7, <1>14, Zenon DEF ++
<1>. QED
  BY <1>11, <1>15

LEMMA OnlyOne ==
  ASSUME NEW S, NEW s \in Seq(S), Len(s) = 1
  PROVE  s = <<s[1]>>
<1>1. PICK e : e = s[1]
  OBVIOUS
<1>2. e \in S
  <2>1. 1 \in 1 .. Len(s)
    OBVIOUS
  <2>. QED
    BY <1>1, <2>1, ElementOfSeq
<1>3. <<e>> \in Seq(S) /\ Len(<<e>>) = 1 /\ <<e>>[1] = e
  BY <1>2
<1>4. s = <<e>>
  BY <1>1, <1>3, SeqEqual
<1>. QED
  BY <1>1, <1>4

\* The children of an object or array, up to the m-th.
LEMMA PartsSpelled ==
  ASSUME Document, NEW i \in DOMAIN tokens, Bracket(tokens[i]), NEW g,
         \A j \in DOMAIN tokens : j > i => Spelled(j, g[j])
  PROVE  LET L == Commas(Parts(g, i)) IN
         /\ L \in Seq(Seq(Char)) /\ Len(L) = tokens[i].size
         /\ \A m \in 1 .. tokens[i].size :
              Gap(js, Lead(tokens[i]), After(tokens, Children(i)[m]), FlattenSeq(SubSeq(L, 1, m)))
<1>. DEFINE size == tokens[i].size
            ch == Children(i)
            P == Parts(g, i)
            L == Commas(P)
            Upto(m) == Gap(js, Lead(tokens[i]), After(tokens, ch[m]), FlattenSeq(SubSeq(L, 1, m)))
            A == {m \in 1 .. size : ~Upto(m)}
<1>1. /\ js \in Seq(Char) /\ TypedForest /\ Told(js, tokens) /\ i \in Nat /\ size \in Nat
      /\ DOMAIN tokens = 1 .. Len(tokens) /\ DOMAIN ch = 1 .. size
      /\ tokens[i].type # "string" /\ i # 0
  BY DocumentIs, ChildrenAre DEF Bracket
<1>2. /\ size # 0 => Childless(tokens, i, ch[1])
      /\ \A n \in 1 .. size :
           /\ ch[n] \in DOMAIN tokens /\ ch[n] > i /\ tokens[ch[n]].parent = i
           /\ n < size => Youngest(tokens, ch[n], i, ch[n + 1])
  BY <1>1, ChildrenApart
<1>. HIDE DEF size, ch
<1>3. DOMAIN P = 1 .. size /\ \A n \in 1 .. size : P[n] = g[ch[n]]
  BY <1>1, Zenon DEF ch, Parts
<1>. HIDE DEF P
<1>4. L = [n \in 1 .. size |-> IF n = 1 THEN P[n] ELSE <<",">> ++ P[n]]
  BY <1>3, Zenon DEF Commas, ++
<1>5. /\ 1 \in 1 .. size => L[1] = g[ch[1]]
      /\ \A n \in 1 .. size : n # 1 => L[n] = <<",">> ++ g[ch[n]]
  <2>. DEFINE M == [n \in 1 .. size |-> IF n = 1 THEN P[n] ELSE <<",">> ++ P[n]]
  <2>1. \A n \in 1 .. size : M[n] = IF n = 1 THEN P[n] ELSE <<",">> ++ P[n]
    BY Zenon
  <2>2. L = M
    BY <1>4
  <2>. HIDE DEF M, L
  <2>3. \A n \in 1 .. size : L[n] = IF n = 1 THEN P[n] ELSE <<",">> ++ P[n]
    BY <2>1, <2>2, Zenon
  <2>. QED
    BY <1>3, <2>3, Zenon
<1>6. \A n \in 1 .. size : Spelled(ch[n], g[ch[n]]) /\ g[ch[n]] \in Seq(Char)
  BY <1>2, SpelledType
<1>7. \A n \in 1 .. size : L[n] \in Seq(Char)
  <2>. SUFFICES ASSUME NEW n \in 1 .. size
                PROVE  L[n] \in Seq(Char)
    OBVIOUS
  <2>. HIDE DEF L
  <2>1. CASE n = 1
    BY <1>5, <1>6, <2>1
  <2>2. CASE n # 1
    <3>1. <<",">> ++ g[ch[n]] \in Seq(Char)
      BY <1>6, Marks, JoinType
    <3>. QED
      BY <1>5, <2>2, <3>1
  <2>. QED
    BY <2>1, <2>2
<1>8. L \in Seq(Seq(Char)) /\ Len(L) = size
  <2>1. L = [n \in 1 .. size |-> L[n]]
    BY <1>4
  <2>. HIDE DEF L
  <2>2. L \in [1 .. size -> Seq(Char)]
    BY <1>7, <2>1
  <2>. QED
    BY <1>1, <2>2, IsASeq
<1>. HIDE DEF L
<1>9. ASSUME NEW m \in 1 .. size, m = 1
      PROVE  Upto(m)
  <2>1. SubSeq(L, 1, 1) = <<L[1]>> /\ 1 \in 1 .. size
    <3>1. 1 \in 1 .. Len(L) /\ 1 \in 1 .. size
      BY <1>1, <1>8, <1>9
    <3>2. /\ SubSeq(L, 1, 1) \in Seq(Seq(Char)) /\ Len(SubSeq(L, 1, 1)) = 1
          /\ SubSeq(L, 1, 1)[1] = L[1]
      BY <1>8, <3>1, SubSeqProperties
    <3>3. PICK s \in Seq(Seq(Char)) : s = SubSeq(L, 1, 1)
      BY <3>2
    <3>4. s = <<s[1]>>
      <4>1. Len(s) = 1
        BY <3>2, <3>3
      <4>. QED
        BY <4>1, OnlyOne
    <3>. QED
      BY <3>1, <3>2, <3>3, <3>4
  <2>2. FlattenSeq(SubSeq(L, 1, 1)) = g[ch[1]]
    BY <1>5, <1>7, <2>1, FlattenShort
  <2>3. Spans(js, tokens, i, ch[1], First(tokens[ch[1]]), <<>>, <<",">>)
    <3>1. Before(js, tokens, ch[1])
      BY <1>1, <1>2, <2>1 DEF Told
    <3>. QED
      BY <1>1, <1>2, <2>1, <3>1 DEF Before
  <2>4. Childless(tokens, i, ch[1])
    BY <1>1, <1>2, <2>1
  <2>5. Gap(js, Lead(tokens[i]), First(tokens[ch[1]]), <<>>)
    BY <2>3, <2>4 DEF Spans
  <2>6. Gap(js, First(tokens[ch[1]]), After(tokens, ch[1]), g[ch[1]])
    BY <1>6, <2>1 DEF Spelled
  <2>7. Gap(js, Lead(tokens[i]), After(tokens, ch[1]), g[ch[1]])
    BY <1>1, <2>5, <2>6, GapThen
  <2>. QED
    BY <1>9, <2>2, <2>7
<1>10. ASSUME NEW m \in 1 .. size, NEW l \in 1 .. size, l = m + 1, Upto(m)
       PROVE  Upto(l)
  <2>1. PICK a, b, u : a = ch[m] /\ b = ch[l] /\ u = FlattenSeq(SubSeq(L, 1, m))
    OBVIOUS
  <2>2. l # 1 /\ m < size /\ l - 1 = m /\ l \in 1 .. Len(L) /\ 1 \in 1 .. Len(L) /\ m \in 1 .. Len(L)
    BY <1>1, <1>8, <1>10
  <2>3. b \in DOMAIN tokens /\ tokens[b].parent = i /\ Youngest(tokens, a, i, b)
    BY <1>2, <1>10, <2>1, <2>2
  <2>4. Spans(js, tokens, i, b, First(tokens[b]), <<>>, <<",">>)
    <3>1. Before(js, tokens, b)
      BY <1>1, <2>3 DEF Told
    <3>. QED
      BY <1>1, <2>3, <3>1 DEF Before
  <2>5. Gap(js, After(tokens, a), First(tokens[b]), <<",">>)
    BY <2>3, <2>4 DEF Spans, Since
  <2>6. Gap(js, First(tokens[b]), After(tokens, b), g[b])
    BY <1>6, <2>1 DEF Spelled
  <2>7. Gap(js, After(tokens, a), After(tokens, b), <<",">> ++ g[b])
    BY <1>1, <2>5, <2>6, GapJoin
  <2>8. Gap(js, Lead(tokens[i]), After(tokens, a), u)
    BY <1>10, <2>1
  <2>9. Gap(js, Lead(tokens[i]), After(tokens, b), u ++ L[l])
    <3>1. L[l] = <<",">> ++ g[b]
      BY <1>5, <2>1, <2>2
    <3>. QED
      BY <1>1, <2>7, <2>8, <3>1, GapJoin
  <2>10. FlattenSeq(SubSeq(L, 1, l)) = u ++ L[l]
    <3>1. SubSeq(L, 1, l) = SubSeq(L, 1, l - 1) \o <<L[l]>>
      BY <1>8, <2>2, SubSeqRecursiveSecond
    <3>2. PICK s : s = SubSeq(L, 1, m)
      OBVIOUS
    <3>3. s \in Seq(Seq(Char))
      BY <1>8, <2>2, <3>2, SubSeqProperties
    <3>4. SubSeq(L, 1, l) = Append(s, L[l])
      BY <1>7, <2>2, <3>1, <3>2, <3>3, AppendIsConcat
    <3>5. FlattenSeq(Append(s, L[l])) = FlattenSeq(s) ++ L[l]
      BY <1>7, <3>3, FlattenAppend
    <3>. QED
      BY <2>1, <3>2, <3>4, <3>5
  <2>. QED
    BY <2>1, <2>9, <2>10
<1>11. A = {}
  <2>. SUFFICES ASSUME A # {}
                PROVE  FALSE
    OBVIOUS
  <2>1. A \in SUBSET Nat
    OBVIOUS
  <2>2. PICK k \in A : \A n \in A : k <= n
    <3>. HIDE DEF A
    <3>. QED
      BY <2>1, LeastNatural
  <2>3. k \in 1 .. size /\ ~Upto(k)
    OBVIOUS
  <2>4. k # 1
    BY <1>9, <2>3
  <2>5. PICK m : m = k - 1
    OBVIOUS
  <2>6. m \in 1 .. size /\ k = m + 1 /\ ~(k <= m)
    BY <1>1, <2>3, <2>4, <2>5
  <2>7. Upto(m)
    BY <2>2, <2>6
  <2>. HIDE DEF Upto
  <2>. QED
    BY <1>10, <2>3, <2>6, <2>7
<1>12. \A m \in 1 .. size : Upto(m)
  BY <1>11
<1>. QED
  BY <1>8, <1>12 DEF size, ch, P, L

LEMMA BracketSpelled ==
  ASSUME Document, NEW i \in DOMAIN tokens, Bracket(tokens[i]), NEW g,
         \A j \in DOMAIN tokens : j > i => Spelled(j, g[j])
  PROVE  /\ Spelled(i, Body(g, i))
         /\ \E list \in Seq(Char) : Body(g, i) = (Opener(tokens[i]) ++ list) ++ Closer(tokens[i])
<1>. DEFINE size == tokens[i].size
            ch == Children(i)
            L == Commas(Parts(g, i))
<1>1. /\ js \in Seq(Char) /\ Len(js) \in Nat /\ TypedForest /\ Told(js, tokens) /\ Len(tokens) \in Nat
      /\ DOMAIN tokens = 1 .. Len(tokens) /\ tokens[i].end # -1 /\ size \in Nat
  BY DocumentIs, ForestFacts
<1>2. PICK a, b, q, v : a = tokens[i].start /\ b = tokens[i].end /\ q = Opener(tokens[i]) /\ v = Closer(tokens[i])
  OBVIOUS
<1>3. Gap(js, a, a + 1, q) /\ Spans(js, tokens, i, Len(tokens) + 1, b, v, v)
  BY <1>1, <1>2 DEF Told, Own, Ending
<1>4. /\ size = 0 => Childless(tokens, i, Len(tokens) + 1)
      /\ \A n \in 1 .. size : n = size => Youngest(tokens, ch[n], i, Len(tokens) + 1)
  BY <1>1, ChildrenApart
<1>5. /\ L \in Seq(Seq(Char)) /\ Len(L) = size
      /\ \A m \in 1 .. size : Gap(js, Lead(tokens[i]), After(tokens, ch[m]), FlattenSeq(SubSeq(L, 1, m)))
  BY PartsSpelled
<1>6. Lead(tokens[i]) = a + 1 /\ First(tokens[i]) = a /\ After(tokens, i) = b
  BY <1>2 DEF Lead, First, After, Stop, Named, Bracket
<1>. HIDE DEF size, ch
<1>7. PICK s, list : s = L /\ list = FlattenSeq(s)
  OBVIOUS
<1>8. Body(g, i) = q \o list \o v
  <2>. HIDE DEF L
  <2>1. tokens[i].type = "object" => Body(g, i) = <<"{">> \o FlattenSeq(L) \o <<"}">>
    BY Zenon DEF Body, L
  <2>2. tokens[i].type = "array" => Body(g, i) = <<"[">> \o FlattenSeq(L) \o <<"]">>
    <3>1. "array" # "object"
      OBVIOUS
    <3>. QED
      BY <3>1, Zenon DEF Body, L
  <2>3. tokens[i].type = "object" => q = <<"{">> /\ v = <<"}">>
    BY <1>2 DEF Opener, Closer
  <2>4. tokens[i].type = "array" => q = <<"[">> /\ v = <<"]">>
    BY <1>2 DEF Opener, Closer
  <2>. QED
    BY <1>7, <2>1, <2>2, <2>3, <2>4, Zenon DEF Bracket
<1>. HIDE DEF L
<1>9. list \in Seq(Char)
  BY <1>5, <1>7, FlattenType
<1>10. Gap(js, a + 1, b, list ++ v)
  <2>1. CASE size = 0
    <3>1. list = <<>>
      <4>1. s = <<>>
        BY <1>5, <1>7, <2>1, EmptySeq
      <4>. QED
        BY <1>7, <4>1, FlattenEmpty
    <3>2. Gap(js, a + 1, b, v)
      BY <1>3, <1>4, <1>6, <2>1 DEF Spans
    <3>3. v \in Seq(Char)
      BY <1>1, <3>2, CompactIs DEF Gap
    <3>. QED
      BY <3>1, <3>2, <3>3, JoinEmpty
  <2>2. CASE size # 0
    <3>1. size \in 1 .. size
      BY <1>1, <2>2
    <3>2. PICK e : e = After(tokens, ch[size])
      OBVIOUS
    <3>3. Gap(js, e, b, v)
      BY <1>3, <1>4, <3>1, <3>2 DEF Spans, Since
    <3>4. SubSeq(s, 1, size) = s
      <4>1. s \in Seq(Seq(Char)) /\ Len(s) = size
        BY <1>5, <1>7
      <4>2. PICK u : u = SubSeq(s, 1, size)
        OBVIOUS
      <4>3. /\ u \in Seq(Seq(Char)) /\ Len(u) = size
            /\ \A n \in 1 .. size : u[n] = s[n]
        <5>1. 1 \in 1 .. Len(s) + 1 /\ size \in 0 .. Len(s)
          BY <1>1, <3>1, <4>1
        <5>2. /\ SubSeq(s, 1, size) \in Seq(Seq(Char))
              /\ Len(SubSeq(s, 1, size)) = IF 1 <= size THEN size - 1 + 1 ELSE 0
              /\ \A n \in 1 .. size - 1 + 1 : SubSeq(s, 1, size)[n] = s[1 + n - 1]
          BY <4>1, <5>1, SubSeqProperties
        <5>3. size - 1 + 1 = size /\ 1 <= size /\ \A n \in 1 .. size : 1 + n - 1 = n
          BY <1>1, <3>1
        <5>. QED
          BY <4>2, <5>2, <5>3
      <4>4. u = s
        BY <4>1, <4>3, SeqEqual
      <4>. QED
        BY <4>2, <4>4
    <3>5. Gap(js, a + 1, e, list)
      <4>1. Gap(js, Lead(tokens[i]), e, FlattenSeq(SubSeq(s, 1, size)))
        BY <1>5, <1>7, <3>1, <3>2
      <4>. QED
        BY <1>6, <1>7, <3>4, <4>1
    <3>. QED
      BY <1>1, <3>3, <3>5, GapJoin
  <2>. QED
    BY <2>1, <2>2
<1>11. Gap(js, a, b, q ++ (list ++ v)) /\ q \in Seq(Char)
  BY <1>1, <1>3, <1>10, GapJoin
<1>12. v \in Seq(Char)
  BY <1>2, Marks DEF Closer
<1>13. Body(g, i) = (q ++ list) ++ v
  BY <1>8, Zenon DEF ++
<1>14. Body(g, i) = q ++ (list ++ v)
  BY <1>9, <1>11, <1>12, <1>13, JoinAssociative
<1>15. Spelled(i, Body(g, i))
  BY <1>6, <1>11, <1>14 DEF Spelled
<1>. QED
  BY <1>2, <1>9, <1>13, <1>15

LEMMA BodySpelled ==
  ASSUME Document, NEW i \in DOMAIN tokens, NEW g,
         \A j \in DOMAIN tokens : j > i => Spelled(j, g[j])
  PROVE  Spelled(i, Body(g, i))
<1>1. tokens[i].type \in {"object", "array", "string", "primitive"}
  BY DocumentIs
<1>2. CASE tokens[i].type = "primitive"
  BY <1>2, PrimitiveSpelled
<1>3. CASE tokens[i].type = "string" /\ IsKey(i)
  BY <1>3, KeySpelled
<1>4. CASE tokens[i].type = "string" /\ ~IsKey(i)
  BY <1>4, StringSpelled
<1>5. CASE Bracket(tokens[i])
  BY <1>5, BracketSpelled
<1>. QED
  BY <1>1, <1>2, <1>3, <1>4, <1>5 DEF Bracket

\* From the last token to the first.
LEMMA Backwards ==
  ASSUME Document, NEW S, \A i \in DOMAIN tokens : (\A j \in DOMAIN tokens : j > i => j \in S) => i \in S
  PROVE  DOMAIN tokens \subseteq S
<1>1. Len(tokens) \in Nat /\ DOMAIN tokens = 1 .. Len(tokens)
  BY DocumentIs
<1>2. PICK n : n = Len(tokens)
  OBVIOUS
<1>. DEFINE A == {m \in Nat : n - m \in 1 .. n /\ n - m \notin S}
<1>3. ASSUME NEW i \in 1 .. n, i \notin S
      PROVE  n - i \in A
  <2>1. n - i \in Nat /\ n - (n - i) = i
    BY <1>1, <1>2, <1>3
  <2>. QED
    BY <1>3, <2>1
<1>. SUFFICES ASSUME A # {}
              PROVE  FALSE
  BY <1>1, <1>2, <1>3
<1>4. A \in SUBSET Nat
  OBVIOUS
<1>5. PICK k \in A : \A m \in A : k <= m
  <2>. HIDE DEF A
  <2>. QED
    BY <1>4, LeastNatural
<1>6. PICK i : i = n - k
  OBVIOUS
<1>7. i \in 1 .. n /\ i \notin S /\ k \in Nat
  BY <1>6
<1>8. \A j \in 1 .. n : j > i => j \in S
  <2>. SUFFICES ASSUME NEW j \in 1 .. n, j > i, j \notin S
                PROVE  FALSE
    OBVIOUS
  <2>1. n - j \in A
    BY <1>3
  <2>2. k <= n - j
    BY <1>5, <2>1
  <2>. HIDE DEF A
  <2>. QED
    BY <1>1, <1>2, <1>6, <1>7, <2>2
<1>. QED
  BY <1>1, <1>2, <1>7, <1>8

\* Written is the function that Writes describes: there is one, and it is right.
LEMMA WritesAt ==
  ASSUME NEW g, Writes(g), NEW i \in DOMAIN tokens
  PROVE  g[i] = Body(g, i)
<1>. DEFINE h == [j \in DOMAIN tokens |-> Body(g, j)]
<1>1. h[i] = Body(g, i)
  BY Zenon
<1>2. g = h
  BY Zenon DEF Writes
<1>. QED
  BY <1>1, <1>2, Zenon

LEMMA WritesExists ==
  ASSUME Document
  PROVE  \E g : Writes(g)
<1>. DEFINE f == [i \in DOMAIN tokens |-> Compact(js, First(tokens[i]), After(tokens, i))]
            S == {i \in DOMAIN tokens : Spelled(i, f[i])}
<1>1. \A i \in DOMAIN tokens : f[i] = Compact(js, First(tokens[i]), After(tokens, i))
  BY Zenon
<1>2. ASSUME NEW i \in DOMAIN tokens, \A j \in DOMAIN tokens : j > i => j \in S
      PROVE  Spelled(i, f[i]) /\ f[i] = Body(f, i)
  <2>1. \A j \in DOMAIN tokens : j > i => Spelled(j, f[j])
    BY <1>2
  <2>. HIDE DEF f
  <2>2. Spelled(i, Body(f, i))
    BY <2>1, BodySpelled
  <2>3. f[i] = Body(f, i)
    BY <1>1, <2>2 DEF Spelled, Gap
  <2>. QED
    BY <2>2, <2>3
<1>3. DOMAIN tokens \subseteq S
  <2>1. \A i \in DOMAIN tokens : (\A j \in DOMAIN tokens : j > i => j \in S) => i \in S
    BY <1>2
  <2>. HIDE DEF S
  <2>. QED
    BY <2>1, Backwards
<1>4. \A i \in DOMAIN tokens : f[i] = Body(f, i)
  BY <1>2, <1>3
<1>. DEFINE k == [i \in DOMAIN tokens |-> Body(f, i)]
<1>5. f = k
  <2>. DEFINE F(i) == Compact(js, First(tokens[i]), After(tokens, i))
  <2>1. \A i \in DOMAIN tokens : F(i) = Body(f, i)
    BY <1>1, <1>4
  <2>. QED
    BY <2>1, Zenon
<1>6. Writes(f)
  BY <1>5, Zenon DEF Writes
<1>. QED
  BY <1>6

LEMMA WritesRight ==
  ASSUME Document, NEW g, Writes(g)
  PROVE  \A i \in DOMAIN tokens : Spelled(i, g[i])
<1>. DEFINE S == {i \in DOMAIN tokens : Spelled(i, g[i])}
<1>1. ASSUME NEW i \in DOMAIN tokens, \A j \in DOMAIN tokens : j > i => j \in S
      PROVE  i \in S
  <2>1. \A j \in DOMAIN tokens : j > i => Spelled(j, g[j])
    BY <1>1
  <2>2. Spelled(i, Body(g, i)) /\ g[i] = Body(g, i)
    BY <2>1, BodySpelled, WritesAt
  <2>. QED
    BY <2>2
<1>2. DOMAIN tokens \subseteq S
  <2>. HIDE DEF S
  <2>. QED
    BY <1>1, Backwards
<1>. QED
  BY <1>2

\* What is written of a token is the text of its element.
LEMMA WrittenSpelled ==
  ASSUME Document
  PROVE  Writes(Written) /\ \A i \in DOMAIN tokens : Spelled(i, Written[i])
<1>1. Writes(Written)
  BY WritesExists, WrittenIs
<1>. QED
  BY <1>1, WritesRight

\* The root is all of the text.
LEMMA RootIsAll ==
  ASSUME Document
  PROVE  Written[1] = Compact(js, 0, Len(js))
<1>. DEFINE n == Len(tokens)
<1>1. /\ js \in Seq(Char) /\ Len(js) \in Nat /\ Told(js, tokens) /\ Now(js, tokens, 0, Whole, Len(js))
      /\ Formed /\ n \in Nat /\ DOMAIN tokens = 1 .. n /\ 1 \in DOMAIN tokens /\ tokens[1].parent = 0
  BY DocumentIs
<1>2. Gap(js, 0, First(tokens[1]), <<>>)
  BY <1>1 DEF Told, Before
<1>3. Gap(js, First(tokens[1]), After(tokens, 1), Written[1])
  BY <1>1, WrittenSpelled DEF Spelled
<1>4. Gap(js, After(tokens, 1), Len(js), <<>>)
  <2>1. PICK k : Youngest(tokens, k, 0, n + 1) /\ Since(js, tokens, k, Len(js), <<>>)
    BY <1>1 DEF Now, Whole
  <2>2. k \in 1 .. n /\ tokens[k].parent = 0
    BY <1>1, <2>1 DEF Youngest
  <2>3. k = 1
    BY <1>1, <2>2 DEF Formed
  <2>. QED
    BY <2>1, <2>3 DEF Since
<1>5. Gap(js, 0, After(tokens, 1), Written[1])
  BY <1>1, <1>2, <1>3, GapThen
<1>6. Gap(js, 0, Len(js), Written[1])
  BY <1>1, <1>4, <1>5, GapOn
<1>. QED
  BY <1>6 DEF Gap

\* In every document, however it is nested and wherever its white space is, the tokens
\* with their types, sizes and order say all that the text says.
THEOREM TokensAreDocument == PSpec => []RoundTrip
<1>1. DocumentsInv /\ TextInv => RoundTrip
  BY RootIsAll DEF RoundTrip, Document
<1>. QED
  BY <1>1, TextInvariant, PTL

-------------------------------------------------------------------------------
(* The getters.                                                            *)

\* A text between two characters.
LEMMA Framed ==
  ASSUME NEW S, NEW c1, NEW text, NEW c2, NEW w, w = (<<c1>> ++ text) ++ <<c2>>,
         c1 \in S, c2 \in S, text \in Seq(S)
  PROVE  w \in Seq(S) /\ w[1] = c1 /\ Len(w) = Len(text) + 2 /\ SubSeq(w, 2, Len(w) - 1) = text
<1>1. PICK q, v, s : q = <<c1>> /\ v = <<c2>> /\ s = q \o text
  OBVIOUS
<1>2. q \in Seq(S) /\ Len(q) = 1 /\ q[1] = c1 /\ v \in Seq(S) /\ Len(v) = 1
  BY <1>1
<1>3. Len(text) \in Nat
  BY LenProperties
<1>4. /\ s \in Seq(S) /\ Len(s) = Len(q) + Len(text)
      /\ \A i \in 1 .. Len(q) + Len(text) : s[i] = IF i <= Len(q) THEN q[i] ELSE text[i - Len(q)]
  <2>1. /\ q \o text \in Seq(S) /\ Len(q \o text) = Len(q) + Len(text)
        /\ \A i \in 1 .. Len(q) + Len(text) : (q \o text)[i] = IF i <= Len(q) THEN q[i] ELSE text[i - Len(q)]
    BY <1>2, ConcatProperties
  <2>. QED
    BY <1>1, <2>1
<1>5. /\ w \in Seq(S) /\ Len(w) = Len(s) + Len(v)
      /\ \A i \in 1 .. Len(s) + Len(v) : w[i] = IF i <= Len(s) THEN s[i] ELSE v[i - Len(s)]
  <2>1. /\ s \o v \in Seq(S) /\ Len(s \o v) = Len(s) + Len(v)
        /\ \A i \in 1 .. Len(s) + Len(v) : (s \o v)[i] = IF i <= Len(s) THEN s[i] ELSE v[i - Len(s)]
    <3>1. s \in Seq(S) /\ v \in Seq(S)
      BY <1>2, <1>4
    <3>. QED
      BY <3>1, ConcatProperties
  <2>2. w = s \o v
    BY <1>1 DEF ++
  <2>. QED
    BY <2>1, <2>2
<1>6. Len(w) = Len(text) + 2
  BY <1>2, <1>3, <1>4, <1>5
<1>7. w[1] = c1
  <2>1. 1 \in 1 .. Len(s) + Len(v) /\ 1 <= Len(s) /\ 1 \in 1 .. Len(q) + Len(text) /\ 1 <= Len(q)
    BY <1>2, <1>3, <1>4
  <2>. QED
    BY <1>2, <1>4, <1>5, <2>1
<1>8. \A i \in 1 .. Len(text) : w[i + 1] = text[i]
  <2>. SUFFICES ASSUME NEW i \in 1 .. Len(text)
                PROVE  w[i + 1] = text[i]
    OBVIOUS
  <2>1. PICK k : k = i + 1
    OBVIOUS
  <2>2. k \in 1 .. Len(s) + Len(v) /\ k <= Len(s) /\ k \in 1 .. Len(q) + Len(text) /\ ~(k <= Len(q)) /\ k - Len(q) = i
    BY <1>2, <1>3, <1>4, <2>1
  <2>3. w[k] = text[i]
    BY <1>4, <1>5, <2>2
  <2>. QED
    BY <2>1, <2>3
<1>9. PICK n, m, u : n = Len(text) /\ m = n + 1 /\ u = SubSeq(w, 2, m)
  OBVIOUS
<1>10. n \in Nat /\ m = Len(w) - 1 /\ 2 \in 1 .. Len(w) + 1 /\ m \in 2 - 1 .. Len(w) /\ m - 2 + 1 = n
  BY <1>3, <1>6, <1>9
<1>11. u \in Seq(S) /\ Len(u) = n /\ \A i \in 1 .. n : u[i] = text[i]
  <2>1. /\ SubSeq(w, 2, m) \in Seq(S)
        /\ Len(SubSeq(w, 2, m)) = IF 2 <= m THEN m - 2 + 1 ELSE 0
        /\ \A i \in 1 .. m - 2 + 1 : SubSeq(w, 2, m)[i] = w[2 + i - 1]
    <3>1. \A i \in 2 .. m : i \in 1 .. Len(w)
      BY <1>10
    <3>2. \A i \in 2 .. m : w[i] \in S
      BY <1>5, <3>1, ElementOfSeq
    <3>3. 2 \in Int /\ m \in Int
      BY <1>9, <1>10
    <3>. QED
      BY <3>2, <3>3, SubSeqProperties
  <2>2. (2 <= m) \/ n = 0
    BY <1>9, <1>10
  <2>3. \A i \in 1 .. n : 2 + i - 1 = i + 1
    BY <1>10
  <2>4. Len(u) = n
    BY <1>9, <1>10, <2>1, <2>2
  <2>5. \A i \in 1 .. n : u[i] = w[i + 1]
    BY <1>9, <1>10, <2>1, <2>3
  <2>. QED
    BY <1>8, <1>9, <2>1, <2>4, <2>5
<1>12. u = text
  BY <1>9, <1>11, SeqEqual
<1>. QED
  BY <1>5, <1>6, <1>7, <1>9, <1>10, <1>12

\* The text of a token that is not a name is that of its element.
LEMMA ValueIs ==
  ASSUME Document, NEW i \in DOMAIN tokens, ~IsKey(i)
  PROVE  Value(i) = Unquoted(Written[i]) /\ Len(TextOf(tokens[i])) \in Nat
<1>1. /\ js \in Seq(Char) /\ Len(js) \in Nat /\ ~Named(tokens, i) /\ Told(js, tokens)
      /\ tokens[i].type \in {"object", "array", "string", "primitive"}
  BY DocumentIs
<1>2. PICK w : w = Written[i]
  OBVIOUS
<1>3. Spelled(i, w) /\ w = Body(Written, i) /\ \A j \in DOMAIN tokens : j > i => Spelled(j, Written[j])
  BY <1>2, WrittenSpelled, WritesAt
<1>4. CASE tokens[i].type = "string"
  <2>1. PICK text : text = TextOf(tokens[i])
    OBVIOUS
  <2>2. w = (<<"quote">> ++ text) ++ <<"quote">>
    BY <1>3, <1>4, <2>1, StringSpelled
  <2>3. Gap(js, tokens[i].start, tokens[i].end, text) /\ text \in Seq(Char)
    BY <1>4, <2>1, TextGap DEF Bracket
  <2>4. "quote" \in Char
    BY DEF Char
  <2>5. w \in Seq(Char) /\ Len(w) = Len(text) + 2 /\ w[1] = "quote" /\ SubSeq(w, 2, Len(w) - 1) = text
    <3>1. text \in Seq(Char)
      BY <2>3
    <3>. QED
      BY <2>2, <2>4, <3>1, Framed
  <2>8. Head(w) = "quote"
    <3>1. w \in Seq(Char) /\ Len(w) # 0 /\ w[1] = "quote"
      BY <2>3, <2>5, LenProperties
    <3>. QED
      BY <3>1
  <2>6. Unquoted(w) = text
    BY <2>5, <2>8, Zenon DEF Unquoted
  <2>7. Value(i) = text
    BY <2>3 DEF Value, Gap
  <2>. QED
    BY <1>2, <2>1, <2>3, <2>6, <2>7, LenProperties
<1>5. CASE tokens[i].type # "string"
  <2>1. First(tokens[i]) = tokens[i].start /\ After(tokens, i) = tokens[i].end
    BY <1>1, <1>5 DEF First, After, Stop
  <2>2. Value(i) = w /\ Gap(js, tokens[i].start, tokens[i].end, w)
    BY <1>3, <2>1 DEF Spelled, Value, Gap
  <2>3. Head(w) # "quote"
    <3>1. CASE Bracket(tokens[i])
      <4>1. PICK list \in Seq(Char) : w = (Opener(tokens[i]) ++ list) ++ Closer(tokens[i])
        BY <1>3, <3>1, BracketSpelled
      <4>2. {"{", "[", "}", "]"} \subseteq Char
        BY DEF Char
      <4>3. PICK d, e : Opener(tokens[i]) = <<d>> /\ Closer(tokens[i]) = <<e>> /\ d \in Char /\ e \in Char /\ d # "quote"
        <5>1. PICK a, b, x, y : a = "{" /\ b = "}" /\ x = "[" /\ y = "]"
          BY Zenon
        <5>2. Opener(tokens[i]) = (IF tokens[i].type = "object" THEN <<a>> ELSE <<x>>)
          BY <5>1, Zenon DEF Opener
        <5>3. Closer(tokens[i]) = (IF tokens[i].type = "object" THEN <<b>> ELSE <<y>>)
          BY <5>1, Zenon DEF Closer
        <5>4. {a, b, x, y} \subseteq Char /\ a # "quote" /\ x # "quote"
          BY <4>2, <5>1, Zenon
        <5>. QED
          BY <5>2, <5>3, <5>4
      <4>4. w = (<<d>> ++ list) ++ <<e>>
        BY <4>1, <4>3, Zenon
      <4>5. d \in Char /\ e \in Char /\ list \in Seq(Char)
        BY <4>1, <4>3
      <4>6. w \in Seq(Char) /\ Len(w) = Len(list) + 2 /\ w[1] = d
        BY <4>4, <4>5, Framed
      <4>7. w \in Seq(Char) /\ Len(w) # 0 /\ w[1] = d
        BY <4>5, <4>6, LenProperties
      <4>8. Head(w) = d
        BY <4>7
      <4>. QED
        BY <4>3, <4>8
    <3>2. CASE tokens[i].type = "primitive"
      <4>1. PICK a, b : a = tokens[i].start /\ b = tokens[i].end
        OBVIOUS
      <4>2. Own(js, tokens[i])
        BY <1>1 DEF Told
      <4>3. /\ a < b /\ js[a + 1] \in Primitive
            /\ a \in 0 .. Len(js) /\ b \in 0 .. Len(js)
        BY <2>2, <3>2, <4>1, <4>2 DEF Own, Gap
      <4>4. w = SubSeq(js, a + 1, b)
        BY <1>3, <3>2, <4>1 DEF Body, TextOf
      <4>5. PICK m : m = a + 1
        OBVIOUS
      <4>6. m \in Int /\ b \in Int /\ m <= b /\ 1 \in 1 .. b - m + 1 /\ b - m + 1 \in Nat /\ b - m + 1 # 0
        BY <1>1, <4>3, <4>5
      <4>7. \A j \in m .. b : j \in 1 .. Len(js)
        BY <1>1, <4>3, <4>5
      <4>8. \A j \in m .. b : js[j] \in Char
        BY <1>1, <4>7, ElementOfSeq
      <4>9. /\ SubSeq(js, m, b) \in Seq(Char) /\ Len(SubSeq(js, m, b)) = b - m + 1
            /\ SubSeq(js, m, b)[1] = js[m + 1 - 1]
        BY <4>6, <4>8, SubSeqProperties
      <4>10. w \in Seq(Char) /\ Len(w) # 0 /\ w[1] = js[m + 1 - 1]
        BY <4>4, <4>5, <4>6, <4>9
      <4>11. m + 1 - 1 = m
        BY <4>6
      <4>12. Head(w) = w[1]
        BY <4>10
      <4>13. "quote" \notin Primitive
        BY DEF Primitive
      <4>. QED
        BY <4>3, <4>5, <4>10, <4>11, <4>12, <4>13
    <3>. QED
      BY <1>1, <1>5, <3>1, <3>2 DEF Bracket
  <2>4. Unquoted(w) = w
    BY <2>3, Zenon DEF Unquoted
  <2>5. Len(TextOf(tokens[i])) \in Nat
    <3>1. PICK a, b : a = tokens[i].start /\ b = tokens[i].end
      OBVIOUS
    <3>2. a \in 0 .. Len(js) /\ b \in 0 .. Len(js)
      BY <2>2, <3>1 DEF Gap
    <3>3. PICK m : m = a + 1
      OBVIOUS
    <3>4. m \in Int /\ b \in Int /\ \A j \in m .. b : j \in 1 .. Len(js)
      BY <1>1, <3>2, <3>3
    <3>5. \A j \in m .. b : js[j] \in Char
      BY <1>1, <3>4, ElementOfSeq
    <3>6. SubSeq(js, m, b) \in Seq(Char)
      BY <3>4, <3>5, SubSeqProperties
    <3>7. TextOf(tokens[i]) = SubSeq(js, m, b)
      BY <3>1, <3>3 DEF TextOf
    <3>. QED
      BY <3>6, <3>7, LenProperties
  <2>. QED
    BY <1>2, <2>2, <2>4, <2>5
<1>. QED
  BY <1>4, <1>5

\* The key that a look-up by name gives in a document has its value behind it, and
\* neither it nor an element of an array is a name.
LEMMA KeysHaveValues ==
  ASSUME Document, Usable, NEW name, json_obj_search(name) # 0
  PROVE  /\ json_obj_search(name) + 1 \in DOMAIN tokens /\ ~IsKey(json_obj_search(name) + 1)
         /\ json_obj_search(name) \in Nat /\ json_obj_search(name) # Len(tokens)
<1>1. /\ TypedForest /\ Formed /\ cur \in DOMAIN tokens /\ DOMAIN tokens = 1 .. Len(tokens) /\ Len(tokens) \in Nat
      /\ \A i \in DOMAIN tokens : IsKey(i) => ChildrenOf(i) = {i + 1}
  BY DocumentIs DEF Usable
<1>2. PICK key : key = json_obj_search(name)
  OBVIOUS
<1>3. tokens[cur].type = "object"
  BY DEF json_obj_search
<1>4. key \in ChildrenOf(cur)
  BY <1>1, <1>2, <1>3, ObjSearch DEF FirstNamed
<1>5. key \in DOMAIN tokens /\ tokens[key].parent = cur /\ cur # 0
  BY <1>1, <1>4 DEF ChildrenOf
<1>6. tokens[key].type = "string"
  BY <1>1, <1>3, <1>5 DEF Formed
<1>7. IsKey(key)
  BY <1>3, <1>5, <1>6 DEF IsKey
<1>8. PICK tok : tok = key + 1
  OBVIOUS
<1>9. tok \in DOMAIN tokens /\ tokens[tok].parent = key
  BY <1>1, <1>5, <1>7, <1>8 DEF ChildrenOf
<1>10. ~IsKey(tok)
  BY <1>6, <1>9 DEF IsKey
<1>. QED
  BY <1>1, <1>2, <1>5, <1>8, <1>9, <1>10

LEMMA ElementsAreNoNames ==
  ASSUME Document, Usable, NEW index \in Nat, json_arr_search(index) # 0
  PROVE  json_arr_search(index) \in DOMAIN tokens /\ ~IsKey(json_arr_search(index))
<1>1. TypedForest /\ cur \in DOMAIN tokens /\ tokens[cur].size \in Nat
  BY DocumentIs, ForestFacts DEF Usable
<1>2. tokens[cur].type = "array" /\ index < tokens[cur].size /\ json_arr_search(index) = Child(cur, index)
  BY DEF json_arr_search
<1>3. index \in 0 .. tokens[cur].size - 1
  BY <1>1, <1>2
<1>4. Child(cur, index) \in ChildrenOf(cur)
  BY <1>1, <1>3, ChildIsNth DEF NthChild
<1>. QED
  BY <1>2, <1>4 DEF ChildrenOf, IsKey

\* A text is copied into a buffer of one byte more than its length and no smaller one.
LEMMA OneByteMore ==
  ASSUME NEW S, S = {} \/ (\E text : S = {text} /\ Len(text) \in Nat)
  PROVE  \A l \in {Len(t) : t \in S} :
           /\ {t \in S : json_tok_to_string(t, l)} = {}
           /\ {t \in S : json_tok_to_string(t, l + 1)} = S
<1>1. CASE S = {}
  BY <1>1
<1>2. CASE S # {}
  <2>1. PICK text : S = {text} /\ Len(text) \in Nat
    BY <1>2
  <2>2. PICK l : l = Len(text)
    OBVIOUS
  <2>3. \A m \in {Len(t) : t \in S} : m = l
    BY <2>1, <2>2
  <2>4. ~json_tok_to_string(text, l) /\ json_tok_to_string(text, l + 1)
    <3>1. l \in Nat /\ ~(l <= l - 1) /\ l <= l + 1 - 1
      BY <2>1, <2>2
    <3>. QED
      BY <2>2, <3>1 DEF json_tok_to_string
  <2>5. {t \in S : json_tok_to_string(t, l)} = {} /\ {t \in S : json_tok_to_string(t, l + 1)} = S
    BY <2>1, <2>4, Zenon
  <2>. QED
    BY <2>3, <2>5
<1>. QED
  BY <1>1, <1>2

\* The getters of an object, and those of an array.
LEMMA ObjValues ==
  ASSUME Document, Usable, NEW name, NEW type
  PROVE  LET key == json_obj_search(name) IN
         /\ key # 0 => (ObjValue(name, type) # {} <=> tokens[key + 1].type = type)
         /\ \A tok \in json_obj_get_val_tok(name, type) \ {0} : Value(tok) = Unquoted(Written[tok])
         /\ \A l \in json_obj_get_strlen(name, type) :
              /\ json_obj_get_str(name, type, l) = {}
              /\ json_obj_get_str(name, type, l + 1) = ObjValue(name, type)
<1>1. PICK key, tok : key = json_obj_search(name) /\ tok = key + 1
  OBVIOUS
<1>2. PICK V : V = json_obj_get_val_tok(name, type) \ {0}
  OBVIOUS
<1>3. key # 0 => /\ tok \in DOMAIN tokens /\ ~IsKey(tok) /\ tok # 0
                 /\ V = IF tokens[tok].type = type THEN {tok} ELSE {}
  <2>. SUFFICES ASSUME key # 0
                PROVE  /\ tok \in DOMAIN tokens /\ ~IsKey(tok) /\ tok # 0
                       /\ V = IF tokens[tok].type = type THEN {tok} ELSE {}
    OBVIOUS
  <2>1. tok \in DOMAIN tokens /\ ~IsKey(tok) /\ key \in Nat /\ key # Len(tokens)
    BY <1>1, KeysHaveValues
  <2>2. tok # 0
    BY <1>1, <2>1
  <2>3. json_obj_get_val_tok(name, type) = IF tokens[tok].type = type THEN {tok} ELSE {0}
    BY <1>1, <2>1 DEF json_obj_get_val_tok
  <2>. QED
    BY <1>2, <2>1, <2>2, <2>3
<1>4. key = 0 => V = {}
  BY <1>1, <1>2 DEF json_obj_get_val_tok
<1>5. ObjValue(name, type) = {TextOf(tokens[v]) : v \in V}
  BY <1>2 DEF ObjValue
<1>6. \A v \in V : Value(v) = Unquoted(Written[v]) /\ Len(TextOf(tokens[v])) \in Nat
  BY <1>3, <1>4, ValueIs
<1>7. V = {} \/ V = {tok}
  BY <1>3, <1>4
<1>8. PICK S : S = ObjValue(name, type)
  OBVIOUS
<1>9. S = {} \/ (\E text : S = {text} /\ Len(text) \in Nat)
  <2>1. CASE V = {}
    BY <1>5, <1>8, <2>1
  <2>2. CASE V = {tok}
    <3>1. S = {TextOf(tokens[tok])}
      BY <1>5, <1>8, <2>2
    <3>. QED
      BY <1>6, <2>2, <3>1
  <2>. QED
    BY <1>7, <2>1, <2>2
<1>10. \A l \in {Len(t) : t \in S} :
         /\ {t \in S : json_tok_to_string(t, l)} = {}
         /\ {t \in S : json_tok_to_string(t, l + 1)} = S
  BY <1>9, OneByteMore
<1>11. key # 0 => (S # {} <=> tokens[tok].type = type)
  BY <1>3, <1>5, <1>8
<1>12. \A l \in json_obj_get_strlen(name, type) :
         /\ json_obj_get_str(name, type, l) = {}
         /\ json_obj_get_str(name, type, l + 1) = ObjValue(name, type)
  BY <1>8, <1>10 DEF json_obj_get_strlen, json_obj_get_str
<1>. QED
  BY <1>1, <1>2, <1>6, <1>8, <1>11, <1>12

LEMMA ArrValues ==
  ASSUME Document, Usable, NEW index \in Nat
  PROVE  /\ LET tok == json_arr_get_val_tok(index, "string")
            IN  tok # 0 => Value(tok) = Unquoted(Written[tok])
         /\ \A l \in json_arr_get_strlen(index) :
              /\ json_arr_get_str(index, l) = {}
              /\ json_arr_get_str(index, l + 1) = ArrValue(index, "string")
<1>1. PICK tok : tok = json_arr_get_val_tok(index, "string")
  OBVIOUS
<1>2. tok # 0 => Value(tok) = Unquoted(Written[tok]) /\ Len(TextOf(tokens[tok])) \in Nat
  <2>1. tok # 0 => tok = json_arr_search(index)
    BY <1>1 DEF json_arr_get_val_tok
  <2>. QED
    BY <2>1, ElementsAreNoNames, ValueIs
<1>3. PICK S : S = ArrValue(index, "string")
  OBVIOUS
<1>4. S = {TextOf(tokens[v]) : v \in {tok} \ {0}}
  BY <1>1, <1>3 DEF ArrValue
<1>5. S = {} \/ (\E text : S = {text} /\ Len(text) \in Nat)
  <2>1. CASE tok = 0
    BY <1>4, <2>1
  <2>2. CASE tok # 0
    <3>1. S = {TextOf(tokens[tok])}
      BY <1>4, <2>2
    <3>. QED
      BY <1>2, <2>2, <3>1
  <2>. QED
    BY <2>1, <2>2
<1>6. \A l \in {Len(t) : t \in S} :
         /\ {t \in S : json_tok_to_string(t, l)} = {}
         /\ {t \in S : json_tok_to_string(t, l + 1)} = S
  BY <1>5, OneByteMore
<1>7. \A l \in json_arr_get_strlen(index) :
         /\ json_arr_get_str(index, l) = {}
         /\ json_arr_get_str(index, l + 1) = ArrValue(index, "string")
  BY <1>3, <1>6 DEF json_arr_get_strlen, json_arr_get_str
<1>. QED
  BY <1>1, <1>2, <1>7

\* In every document a getter gives the value that is written behind the name, or at
\* the place, after any sequence of calls, and a buffer of its length and one byte more
\* is exactly enough for it.
THEOREM GettersRight == PSpec => []ValuesRight
<1>1. RoamingInv /\ TextInv => ValuesRight
  <2>. SUFFICES ASSUME RoamingInv, TextInv, Usable, IsDocument(js)
                PROVE  ValuesRight
    BY DEF ValuesRight
  <2>1. Document
    BY DEF Document, RoamingInv, Usable, Done
  <2>2. LookupRight
    <3>1. tokens[cur].type \in {"object", "array"}
      BY CurIs DEF RoamingInv, Usable, Done
    <3>. QED
      BY <3>1, LooksUp DEF RoamingInv
  <2>3. \A index \in 0 .. Len(tokens) : index \in Nat
    BY <2>1, DocumentIs
  <2>4. \A index \in 0 .. Len(tokens) :
          /\ LET tok == json_arr_get_val_tok(index, "string")
             IN  tok # 0 => Value(tok) = Unquoted(Written[tok])
          /\ \A l \in json_arr_get_strlen(index) :
               /\ json_arr_get_str(index, l) = {}
               /\ json_arr_get_str(index, l + 1) = ArrValue(index, "string")
    BY <2>1, <2>3, ArrValues
  <2>5. \A name \in Names, type \in {"string", "object", "array", "primitive"} :
          LET key == json_obj_search(name) IN
          /\ key # 0 => (ObjValue(name, type) # {} <=> tokens[key + 1].type = type)
          /\ \A tok \in json_obj_get_val_tok(name, type) \ {0} : Value(tok) = Unquoted(Written[tok])
          /\ \A l \in json_obj_get_strlen(name, type) :
               /\ json_obj_get_str(name, type, l) = {}
               /\ json_obj_get_str(name, type, l + 1) = ObjValue(name, type)
    BY <2>1, ObjValues
  <2>. QED
    BY <2>2, <2>4, <2>5 DEF ValuesRight
<1>. QED
  BY <1>1, RoamingInvariant, TextInvariant, PTL

===============================================================================

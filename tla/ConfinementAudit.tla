-------------------------- MODULE ConfinementAudit --------------------------
(***************************************************************************)
(* scripts/replay-confinement-audit.py: the lexer that blanks comments and *)
(* literals of client/replay.zig without moving anything, the search for   *)
(* @import calls in what is left, and the allowlists applied to it.        *)
(*                                                                         *)
(* A text is a sequence of characters; "@import" and "@field" count as one *)
(* each.  The identifiers are the letters "s", the one module that may be  *)
(* imported, and "k", which stands for the forbidden names.  The state is  *)
(* a text made of segments with their meaning in Zig.                      *)
(***************************************************************************)
EXTENDS Naturals, FiniteSets, SequencesExt

CONSTANT MaxSegments

VARIABLE segments

-----------------------------------------------------------------------------
(* The lexer.                                                              *)

NL == "\n"
Letters == {"s", "k", "x", "u", "n"}
HexDigits == {"7", "3", "6", "b"}

\* chr(int(digits, 16)), for the two letters.
chr(digits) == IF digits = <<"7", "3">> THEN "s"
               ELSE IF digits = <<"6", "b">> THEN "k" ELSE "?"

masked(s) == [i \in 1..Len(s) |-> IF s[i] = NL THEN NL ELSE " "]

\* The first x of s at i or behind it; the position behind s if there is none.
find(s, x, i) ==
    LET at == {k \in i..Len(s) : s[k] = x}
    IN  IF at = {} THEN Len(s) + 1 ELSE CHOOSE k \in at : \A j \in at : k <= j

\* The decoded character and the position behind the escape.
decode_escape(s, i) ==
    LET close == find(s, "}", i + 2)
        hex(a, b) == a <= b /\ b <= Len(s)
                        /\ \A k \in a..b : s[k] \in HexDigits
    IN  IF i > Len(s) THEN <<"", i>>
        ELSE IF s[i] = "n" THEN <<NL, i + 1>>
        ELSE IF s[i] = "x" /\ hex(i + 1, i + 2)
             THEN <<chr(SubSeq(s, i + 1, i + 2)), i + 3>>
        ELSE IF s[i] = "u" /\ i < Len(s) /\ s[i + 1] = "{"
                  /\ close <= Len(s) /\ hex(i + 2, close - 1)
             THEN <<chr(SubSeq(s, i + 2, close - 1)), close + 1>>
        ELSE <<s[i], i + 1>>

\* Behind the closing quote, and the value.
read_quoted(s, at, quote) ==
    LET read[i \in 1..(Len(s) + 1)] ==
            IF i > Len(s) THEN [end |-> i, value |-> <<>>]
            ELSE IF s[i] = quote THEN [end |-> i + 1, value |-> <<>>]
            ELSE LET c == IF s[i] = "\\" THEN decode_escape(s, i + 1)
                                         ELSE <<s[i], i + 1>>
                     rest == read[c[2]]
                 IN  [rest EXCEPT !.value = <<c[1]>> \o @]
    IN  read[at + 1]

isIdentifier(s) ==
    Len(s) > 0 /\ s[1] \in Letters
               /\ \A i \in 2..Len(s) : s[i] \in Letters \cup HexDigits

\* A "/*" is taken for a comment that nests; Zig has no such comments.
commentEnd(s, at) ==
    LET is(i, a, b) == i < Len(s) /\ s[i] = a /\ s[i + 1] = b
        end[i \in 1..(Len(s) + 1), depth \in 0..Len(s)] ==
            IF i > Len(s) \/ depth = 0 THEN i
            ELSE IF is(i, "/", "*") THEN end[i + 2, depth + 1]
            ELSE IF is(i, "*", "/") THEN end[i + 2, depth - 1]
            ELSE end[i + 1, depth]
    IN  end[at + 2, 1]

\* The code, of the length of the text, and the string literals.
lex_zig(s) ==
    LET n == Len(s)
        starts(i, a, b) == i < n /\ s[i] = a /\ s[i + 1] = b
        \* What the token at i turns into and where it ends.
        token(i) ==
            LET blank(end) == [end |-> end, code |-> masked(SubSeq(s, i, end - 1)),
                               strings |-> <<>>]
                literal(q) ==
                    [blank(q.end) EXCEPT !.strings =
                        <<[start |-> i, end |-> q.end, value |-> q.value]>>]
                quotedName(q) ==
                    [end |-> q.end, strings |-> <<>>,
                     code |-> [k \in 1..(q.end - i) |->
                                  IF isIdentifier(q.value) /\ k <= Len(q.value)
                                  THEN q.value[k] ELSE " "]]
            IN  CASE starts(i, "/", "/") -> blank(find(s, NL, i + 2))
                  [] starts(i, "/", "*") -> blank(commentEnd(s, i))
                  [] starts(i, "\\", "\\") -> blank(find(s, NL, i + 2))
                  [] starts(i, "@", "\"") ->
                       quotedName(read_quoted(s, i + 1, "\""))
                  [] s[i] = "\"" -> literal(read_quoted(s, i, "\""))
                  [] s[i] = "'" -> blank(read_quoted(s, i, "'").end)
                  [] OTHER -> [end |-> i + 1, code |-> <<s[i]>>,
                               strings |-> <<>>]
        from[i \in 1..(n + 1)] ==
            IF i > n THEN [code |-> <<>>, strings |-> <<>>]
            ELSE LET before(t, rest) == [code |-> t.code \o rest.code,
                                         strings |-> t.strings \o rest.strings]
                     onwards(t) == before(t, from[t.end])
                 IN  onwards(token(i))
    IN  from[1]

-----------------------------------------------------------------------------
(* What is looked for in the code.                                         *)

Space == {" ", NL}
blankBetween(s, a, b) == \A i \in a..b : s[i] \in Space

\* The positions of the first parenthesis behind a builtin, name\s*\(.
callsOf(code, name) ==
    {o \in 1..Len(code) :
        /\ code[o] = "("
        /\ \E i \in 1..(o - 1) :
               code[i] = name /\ blankBetween(code, i + 1, o - 1)}

matching_parenthesis(code, open) ==
    LET depth(i) ==
            Cardinality({k \in open..i : code[k] = "("})
                - Cardinality({k \in open..i : code[k] = ")"})
        at == {i \in open..Len(code) : code[i] = ")" /\ depth(i) = 0}
    IN  IF at = {} THEN 0 ELSE CHOOSE i \in at : \A j \in at : i <= j

stringsIn(lexed, open, close) ==
    {k \in 1..Len(lexed.strings) :
        open < lexed.strings[k].start /\ lexed.strings[k].end <= close}

wellFormedImport_Loose(lexed, open) ==
    LET close == matching_parenthesis(lexed.code, open)
    IN  close # 0 /\ Cardinality(stringsIn(lexed, open, close)) = 1

\* "every replay @import must contain exactly one literal string"
wellFormedImport(lexed, open) ==
    LET close == matching_parenthesis(lexed.code, open)
    IN  /\ close # 0
        /\ Cardinality(stringsIn(lexed, open, close)) = 1
        /\ blankBetween(lexed.code, open + 1, close - 1)

import_calls(lexed) ==
    {lexed.strings[k].value : k \in
        UNION {stringsIn(lexed, o, matching_parenthesis(lexed.code, o))
                  : o \in callsOf(lexed.code, "@import")}}

identifier_tokens(code) ==
    LET is(i) == i \in 1..Len(code) /\ code[i] \in Letters \cup HexDigits
        first == {a \in 1..Len(code) : is(a) /\ ~is(a - 1)}
        end(a) == CHOOSE b \in a..Len(code) :
                      ~is(b + 1) /\ \A i \in a..b : is(i)
    IN  {SubSeq(code, a, end(a)) : a \in first}

reject_token_policy(code) == <<"k">> \notin identifier_tokens(code)

noReflection(code) == callsOf(code, "@field") = {}

\* The allowlists of fields and members, which are fixed text, are left out.
audit_source(text) ==
    LET accepts(lexed) ==
        /\ \A o \in callsOf(lexed.code, "@import") : wellFormedImport(lexed, o)
        /\ import_calls(lexed) = {<<"s">>}
        /\ noReflection(lexed.code)
        /\ reject_token_policy(lexed.code)
    IN  accepts(lex_zig(text))

-----------------------------------------------------------------------------
(* Texts and their meaning.                                                *)

segment(kind, raw, code, value) ==
    [kind |-> kind, raw |-> raw, code |-> code, value |-> value]

trivia(raw) == segment("trivia", raw, masked(raw), <<>>)
string(body, value) ==
    LET raw == <<"\"">> \o body \o <<"\"">>
    IN  segment("string", raw, masked(raw), value)
\* @"..." is the identifier it spells.
name(body, value) ==
    segment("word", <<"@", "\"">> \o body \o <<"\"">>,
            value \o masked([i \in 1..(Len(body) + 3 - Len(value)) |-> " "]),
            value)
written(kind, raw, value) == segment(kind, raw, raw, value)

Segments ==
    {written("word", <<"s", " ">>, <<"s">>),
     written("word", <<"k", " ">>, <<"k">>),
     written("import", <<"@import", "(">>, <<>>),
     written("builtin", <<"@field">>, <<>>),
     written("open", <<"(">>, <<>>),
     written("close", <<")">>, <<>>),
     segment("import", <<"@import", "/", "/", "(", NL, "(">>,
             <<"@import", " ", " ", " ", NL, "(">>, <<>>),
     string(<<"s">>, <<"s">>),
     string(<<"\\", "x", "7", "3">>, <<"s">>),
     string(<<"\\", "u", "{", "6", "b", "}">>, <<"k">>),
     string(<<"/", "*", ")", "\\", "\"", "k">>, <<"/", "*", ")", "\"", "k">>),
     name(<<"k">>, <<"k">>),
     name(<<"\\", "x", "7", "3">>, <<"s">>),
     trivia(<<"'", "\\", "'", "'">>),
     trivia(<<"'", "\"", "'">>),
     trivia(<<"/", "/", "\"", "k", ")", NL>>),
     trivia(<<"\\", "\\", "@import", "(", "\"", NL>>),
     \* The operators "/" and "*" side by side, and the other way round.
     written("slashstar", <<"/", "*", " ">>, <<>>),
     written("starslash", <<"*", "/", " ">>, <<>>)}

Importing ==
    <<written("import", <<"@import", "(">>, <<>>), string(<<"s">>, <<"s">>),
      written("close", <<")">>, <<>>)>>

TextInit == segments \in {<<>>, Importing}

AddSegment ==
    /\ Len(segments) < MaxSegments + (IF segments # <<>>
                                         /\ Len(segments) >= 3
                                         /\ SubSeq(segments, 1, 3) = Importing
                                      THEN 3 ELSE 0)
    /\ \E x \in Segments : segments' = Append(segments, x)

flatten(some, f(_)) ==
    LET upTo[k \in 0..Len(some)] ==
            IF k = 0 THEN <<>> ELSE upTo[k - 1] \o f(some[k])
    IN  upTo[Len(some)]

raws(some) == flatten(some, LAMBDA x : x.raw)
codes(some) == flatten(some, LAMBDA x : x.code)
literals(some) == flatten(some, LAMBDA x : IF x.kind = "string"
                                           THEN <<x.value>> ELSE <<>>)

Text == raws(segments)

-----------------------------------------------------------------------------
SlashStars == {i \in 1..Len(segments) : segments[i].kind = "slashstar"}

\* The segments before the first "/*" of the code.
Before == SubSeq(segments, 1, IF SlashStars = {} THEN Len(segments)
                            ELSE Min(SlashStars) - 1)

\* Up to the first "/*" between its tokens the lexer keeps every character of
\* the code at its place, blanks the rest and decodes every string, whatever
\* delimiters of one kind of token stand inside another.
LexIsExact ==
    LET exact(lexed, n) ==
        /\ Len(lexed.code) = Len(Text)
        /\ IsPrefix(codes(Before), lexed.code)
        /\ n <= Len(lexed.strings)
        /\ SlashStars = {} => n = Len(lexed.strings)
        /\ [k \in 1..n |-> lexed.strings[k].value] = literals(Before)
    IN  exact(lex_zig(Text), Len(literals(Before)))

\* Strings count as blank in a call of another builtin.
nextCode(i, kinds) ==
    LET at == {k \in (i + 1)..Len(segments) : segments[k].kind \notin kinds}
    IN  IF at = {} THEN 0 ELSE CHOOSE k \in at : \A j \in at : k <= j

kindAt(i) == IF i = 0 THEN "end" ELSE segments[i].kind

\* Every @import is of one literal, the allowed module is imported and no
\* other, nothing forbidden is named, in whatever spelling, and there is no
\* reflection.
Confined ==
    LET Imports == {i \in 1..Len(segments) : segments[i].kind = "import"}
        arg(i) == nextCode(i, {"trivia"})
        good(i) == kindAt(arg(i)) = "string"
                       /\ kindAt(nextCode(arg(i), {"trivia"})) = "close"
    IN  /\ \A i \in Imports : good(i)
        /\ {segments[arg(i)].value : i \in Imports} = {<<"s">>}
        /\ \A i \in 1..Len(segments) :
               /\ segments[i].kind = "word" => segments[i].value # <<"k">>
               /\ segments[i].kind = "builtin" =>
                      kindAt(nextCode(i, {"trivia", "string"})) # "open"

\* The lexer is exact up to the first "/*" of the code, and of a source that
\* has none the audit accepts exactly the confined ones.  Behind a "/*" it blanks
\* code, and what stands there may be anything.
AuditIsExact ==
    /\ LexIsExact
    /\ SlashStars = {} => (audit_source(Text) <=> Confined)
=============================================================================

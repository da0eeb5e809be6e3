---------------------------- MODULE DeadErrdefer ----------------------------
(***************************************************************************)
(* scripts/dead-errdefer-audit.py: find the errdefer statements of a Zig   *)
(* file that stand in a function which cannot return an error.  The audit  *)
(* has no parser: it removes comments and literals line by line, guesses   *)
(* where function bodies open and keeps a stack of braces.                 *)
(*                                                                         *)
(* A line is a sequence of tokens.  "fn" is the keyword with a name, so    *)
(* that FN_RE is "fn" before a parenthesis; "fntype" is the keyword of an  *)
(* anonymous function type.  The state is a source that grows the way      *)
(* "zig fmt" lays it out, with what is known of it from the grammar.       *)
(***************************************************************************)
EXTENDS Naturals, FiniteSets, SequencesExt

CONSTANT MaxItems   \* bound on the declarations and statements of a source

VARIABLES
    source,     \* its lines: the tokens and those that are code
    blocks,     \* the open braces, outermost first: "live" and "dead"
                \* functions, "container", "block", "test", "shadowed" (a
                \* test whose brace the audit gives a function without errors)
    dead,       \* the lines with an errdefer that never runs
    shadowed,   \* those with one in a shadowed test, which does run
    items

zigVars == <<source, blocks, dead, shadowed, items>>

-----------------------------------------------------------------------------
(* The audit.                                                              *)

DQ == "\""
SQ == "'"
BS == "\\"

\* A literal becomes its quotes; a comment or a multi-line string ends the line.
strip_noise(line) ==
    LET n == Len(line)
        after[q \in {DQ, SQ}, j \in 1..(n + 2)] ==
            IF j > n THEN n + 1
            ELSE IF line[j] = BS THEN after[q, j + 2]
            ELSE IF line[j] = q THEN j + 1 ELSE after[q, j + 1]
        rest[i \in 1..(n + 1)] ==
            IF \/ i > n
               \/ line[i] = "//"
               \/ i < n /\ SubSeq(line, i, i + 1) = <<BS, BS>>
            THEN <<>>
            ELSE IF line[i] \in {DQ, SQ}
            THEN <<line[i], line[i]>> \o rest[after[line[i], i + 1]]
            ELSE <<line[i]>> \o rest[i + 1]
    IN  rest[1]

count(x, s) == Cardinality({i \in 1..Len(s) : s[i] = x})

\* FN_RE.search: where the first declaration's parenthesis is, or 0.
fnParen(s) ==
    LET at == {i \in 2..Len(s) : s[i] = "(" /\ s[i - 1] = "fn"}
    IN  IF at = {} THEN 0 ELSE CHOOSE i \in at : \A j \in at : i <= j

\* CONTAINER_OPEN_RE.
opensContainer(s) ==
    LET n == Len(s)
        word(i) == i > 0 /\ s[i] \in {"struct", "error"}
    IN  /\ n > 0 /\ s[n] = "{"
        /\ \/ word(n - 1)
           \/ /\ n > 2 /\ s[n - 1] = ")"
              /\ \E i \in 2..(n - 2) :
                     /\ s[i] = "(" /\ word(i - 1)
                     /\ \A j \in (i + 1)..(n - 2) : s[j] \notin {"(", ")"}

opensBody(s) ==
    /\ Len(s) > 0 /\ s[Len(s)] = "{"
    /\ count("{", s) - count("}", s) = 1
    /\ ~opensContainer(s)

return_type_after_params_Last(s) ==
    LET at == {i \in 1..Len(s) : s[i] = ")"}
    IN  IF at = {} THEN <<>>
        ELSE SubSeq(s, (CHOOSE i \in at : \A j \in at : i >= j) + 1, Len(s) - 1)

\* What is between the parenthesis that closes the parameters and the brace.
return_type_after_params(s) ==
    LET closed(t) == count("(", t) = count(")", t)
        closing(open) == {i \in open..Len(s) :
                             open > 0 /\ s[i] = ")" /\ closed(SubSeq(s, open, i))}
        behind(at) ==
            IF at = {} THEN <<>>
            ELSE SubSeq(s, (CHOOSE i \in at : \A j \in at : i <= j) + 1,
                        Len(s) - 1)
    IN  behind(closing(fnParen(s)))

SignatureLines == 60

NoBody == [line |-> 0, type |-> <<>>]

\* Lines are joined until one ends the signature, by ";" or by the body.
return_type_of(lines, i) ==
    LET last == IF Len(lines) < i + SignatureLines THEN Len(lines)
                                                   ELSE i + SignatureLines
        upTo[e \in i..last] == IF e = i THEN lines[i]
                               ELSE upTo[e - 1] \o lines[e]
        semicolon(s) == Len(s) > 0 /\ s[Len(s)] = ";"
        ends(s) == semicolon(s) \/ opensBody(s)
        bodyOf(s, e) == IF semicolon(s) THEN NoBody
                        ELSE [line |-> e, type |-> return_type_after_params(s)]
        body(at) == IF at = {} THEN NoBody
                    ELSE LET e == CHOOSE e \in at : \A f \in at : e <= f
                         IN  bodyOf(upTo[e], e)
    IN  body({e \in i..last : ends(upTo[e])})

Desync == [sync |-> FALSE, findings |-> {}]

isDead(type) ==
    /\ count("!", type) = 0
    /\ type \notin {<<"type">>, <<"anyerror">>}

NotBody == <<"none">>
Lost == <<"desync">>

\* fn_open: the lines that open a body, with the return type found last.
fnOpens(lines) ==
    LET lastOf(found, i) == Max({j \in DOMAIN found : found[j].line = i})
        byLine(found) == [i \in {f.line : f \in Range(found)} \ {0} |->
                             found[lastOf(found, i)].type]
    IN  byLine([j \in {j \in 1..Len(lines) : fnParen(lines[j]) # 0} |->
                   return_type_of(lines, j)])

\* A stack of braces: the return type of a body, NotBody for any other.
scanLines(lines, fnOpen) ==
    LET isBody(i, k) ==
            i \in DOMAIN fnOpen /\ \A j \in (k + 1)..Len(lines[i]) :
                                      lines[i][j] # "{"
        step(i, stack, k) ==
            IF stack = Lost THEN Lost
            ELSE IF lines[i][k] = "{"
            THEN Append(stack, IF isBody(i, k) THEN fnOpen[i] ELSE NotBody)
            ELSE IF lines[i][k] = "}"
            THEN IF stack = <<>> THEN Lost ELSE Front(stack)
            ELSE stack
        \* The stack before line i.
        before[i \in 1..(Len(lines) + 1)] ==
            IF i = 1 THEN <<>>
            ELSE LET through[k \in 0..Len(lines[i - 1])] ==
                         IF k = 0 THEN before[i - 1]
                         ELSE step(i - 1, through[k - 1], k)
                 IN  through[Len(lines[i - 1])]
        hidden(stack) ==
            LET fns == {d \in 1..Len(stack) : stack[d] # NotBody}
            IN  fns # {} /\ isDead(stack[CHOOSE d \in fns :
                                            \A e \in fns : d >= e])
    IN  IF before[Len(lines) + 1] # <<>> THEN Desync
        ELSE [sync |-> TRUE,
              findings |-> {i \in 1..Len(lines) :
                               count("errdefer", lines[i]) > 0 /\ hidden(before[i])}]

scan(raw) ==
    LET stripped(lines) == scanLines(lines, fnOpens(lines))
    IN  stripped(<<>> \o [i \in 1..Len(raw) |-> strip_noise(raw[i])])

-----------------------------------------------------------------------------
(* Sources as "zig fmt" lays them out.                                     *)

plain(s) == [raw |-> s, code |-> s]
quoted(q, body) == [raw |-> <<q>> \o body \o <<q>>, code |-> <<q, q>>]
join(a, b) == [raw |-> a.raw \o b.raw, code |-> a.code \o b.code]

\* x("{", '}');  and the like.
call(l1, l2) == join(join(plain(<<"x">>), l1), join(l2, plain(<<";">>)))

Statements ==
    {call(quoted(DQ, <<"{">>), quoted(SQ, <<"}">>)),
     call(quoted(SQ, <<DQ>>), quoted(DQ, <<"//", "{">>)),
     call(quoted(DQ, <<BS, DQ, "}">>), quoted(SQ, <<BS, SQ>>)),
     join(call(quoted(DQ, <<SQ, BS, BS>>), plain(<<>>)),
          [raw |-> <<"//", DQ, "}">>, code |-> <<>>]),
     [raw |-> <<BS, BS, "{">>, code |-> <<>>],
     [raw |-> <<"//", "errdefer">>, code |-> <<>>]}

Returns ==
    {<<"u32">>, <<"!", "T", "(", "T", ")">>, <<"T", "(", "T", ")">>,
     <<"error", "{", "T", "}", "!", "u32">>,
     <<"struct", "{", "T", "}">>}

\* A parameter that is itself a function and may fail.
callback == <<"fntype", "(", "T", ")", "!", "T">>

\* A header's lines; the last of them opens the body.
Headers ==
    {[lines |-> <<<<"fn", "(">> \o callback \o <<")">> \o r \o <<"{">>>>,
      type |-> r] : r \in Returns}
    \cup {[lines |-> << <<"fn", "(">>, callback \o <<",">>,
                        <<")">> \o r \o <<"{">> >>,
           type |-> r] : r \in {<<"u32">>, <<"!", "u32">>}}
    \cup {[lines |-> << <<"fn", "(", ")", "struct", "{">>, <<"T", ",">>,
                        <<"}", "{">> >>, type |-> <<"struct">>],
          [lines |-> << <<"fn", "(", ")", "struct", "(", "T", ")", "{">>,
                        <<"}", "{">> >>, type |-> <<"struct">>],
          [lines |-> << <<"fn", "(", ")", "error", "{">>, <<"T", ",">>,
                        <<"}", "!", "u32", "{">> >>, type |-> <<"!">>]}

\* A function with an empty body stays on one line: fn f() void {}
Stubs ==
    {<< <<"fn", "(", ")", "void", "{", "}">> >>,
     << <<"fn", "(", ")", "!", "void", "{", "}">> >>,
     << <<"fn", "(">>, callback \o <<",">>, <<")", "void", "{", "}">> >>}

ZigInit ==
    /\ source = <<>>
    /\ blocks = <<>>
    /\ dead = {}
    /\ shadowed = {}
    /\ items = 0

Innermost == IF blocks = <<>> THEN "file" ELSE blocks[Len(blocks)]
InBody == Innermost \in {"live", "dead", "block", "test", "shadowed"}

\* Whether the innermost function or test is of this kind.
In(kind) ==
    LET fns == {d \in 1..Len(blocks) :
                   blocks[d] \in {"live", "dead", "test", "shadowed"}}
    IN  fns # {} /\ blocks[CHOOSE d \in fns : \A e \in fns : d >= e] = kind

Behind(stub) == source # <<>> /\ IsSuffix(stub, Last(source).code)

\* A test directly behind a one-line function is read as that function's body;
\* any other test as part of the function around it.
Shadowed ==
    \/ Behind(<<")", "void", "{", "}">>)
    \/ ~Behind(<<"!", "void", "{", "}">>) /\ (In("dead") \/ In("shadowed"))

Write(lines) ==
    source' = source \o lines
Item == items < MaxItems /\ items' = items + 1

Declare ==
    /\ ~InBody /\ Item
    /\ \E h \in Headers :
           /\ Write([i \in 1..Len(h.lines) |-> plain(h.lines[i])])
           /\ blocks' = Append(blocks, IF count("!", h.type) > 0 THEN "live"
                                                                 ELSE "dead")
    /\ UNCHANGED <<dead, shadowed>>

Stub ==
    /\ ~InBody /\ Item
    /\ \E s \in Stubs : Write([i \in 1..Len(s) |-> plain(s[i])])
    /\ UNCHANGED <<blocks, dead, shadowed>>

Prototype ==
    /\ ~InBody /\ Item
    /\ \/ Write(<<plain(<<"fn", "(", ")", "u32", ";">>)>>)
       \/ Write(<<plain(<<"fn", "(">>), plain(<<")", "u32", ";">>)>>)
    /\ UNCHANGED <<blocks, dead, shadowed>>

TestBlock ==
    /\ ~InBody /\ Item
    /\ Write(<<join(join(plain(<<"test">>), quoted(DQ, <<"}">>)),
                    plain(<<"{">>))>>)
    /\ blocks' = Append(blocks, IF Shadowed THEN "shadowed" ELSE "test")
    /\ UNCHANGED <<dead, shadowed>>

Container ==
    /\ Item
    /\ Write(<<plain(<<"x", "struct", "{">>)>>)
    /\ blocks' = Append(blocks, "container")
    /\ UNCHANGED <<dead, shadowed>>

Statement ==
    /\ InBody /\ Item
    /\ \E s \in Statements : Write(<<s>>)
    /\ UNCHANGED <<blocks, dead, shadowed>>

\* errdefer x;  or  errdefer {
Errdefer ==
    /\ InBody /\ Item
    /\ \/ Write(<<plain(<<"errdefer", "x", ";">>)>>) /\ UNCHANGED blocks
       \/ /\ Write(<<plain(<<"errdefer", "{">>)>>)
          /\ blocks' = Append(blocks, "block")
    /\ dead' = dead \cup {l \in {Len(source) + 1} : In("dead")}
    /\ shadowed' = shadowed \cup {l \in {Len(source) + 1} : In("shadowed")}

Block ==
    /\ InBody /\ Item
    /\ Write(<<plain(<<"x", "(", ")", "{">>)>>)
    /\ blocks' = Append(blocks, "block")
    /\ UNCHANGED <<dead, shadowed>>

Else ==
    /\ Innermost = "block" /\ Item
    /\ Write(<<plain(<<"}", "x", "{">>)>>)
    /\ UNCHANGED <<blocks, dead, shadowed>>

Close ==
    /\ blocks # <<>>
    /\ Write(<<plain(IF Innermost = "container" THEN <<"}", ";">>
                                                ELSE <<"}">>)>>)
    /\ blocks' = SubSeq(blocks, 1, Len(blocks) - 1)
    /\ UNCHANGED <<dead, shadowed, items>>

ZigNext ==
    \/ Declare
    \/ Stub
    \/ Prototype
    \/ TestBlock
    \/ Container
    \/ Statement
    \/ Errdefer
    \/ Block
    \/ Else
    \/ Close

-----------------------------------------------------------------------------
\* "Remove comments and string/char literals so braces are countable": every
\* line is reduced to its code and its quotes, whatever delimiters of the one
\* stand inside the other.
StripIsExact ==
    \A i \in 1..Len(source) : strip_noise(source[i].raw) = source[i].code

\* "Fail when a Zig `errdefer` sits in a function that cannot return an error":
\* the audit misses no errdefer whose innermost function cannot return an
\* error, however headers are split and containers are nested; beyond them it
\* reports only those of a test that stands directly behind a one-line function
\* without errors, whose body its brace is taken for (return_type_of), or in a
\* container of a function without errors (a test has no entry of its own);
\* and it refuses exactly the sources that are not finished.
ScanIsExact ==
    /\ StripIsExact
    /\ scan([i \in 1..Len(source) |-> source[i].raw]) =
        IF blocks = <<>> THEN [sync |-> TRUE, findings |-> dead \cup shadowed]
                         ELSE Desync
=============================================================================

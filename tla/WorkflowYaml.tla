---------------------------- MODULE WorkflowYaml ----------------------------
(***************************************************************************)
(* The reader of workflow files in scripts/release-audit.py: a subset of   *)
(* YAML, so that the audit of the release workflow needs no library.  All  *)
(* that ReleaseAudit says of a workflow is said of what this reader made   *)
(* of it.                                                                  *)
(*                                                                         *)
(* A line is an indentation and a sequence of tokens, words and the        *)
(* punctuation that matters; a value is a record with one field, "map",    *)
(* "list", "str" or "lit".  The state is a document, the lines it was      *)
(* written as and what an editor added to them.  Tabs are left out.        *)
(***************************************************************************)
EXTENDS Naturals, FiniteSets, SequencesExt

CONSTANT MaxNoise   \* bound on the blank lines and comments added

VARIABLES
    tree,       \* the document
    yaml,       \* its lines
    noise,
    doubled     \* whether a key was written twice

yamlVars == <<tree, yaml, noise, doubled>>

-----------------------------------------------------------------------------
(* Scalars.                                                                *)

Quotes == {"'", "\""}
Newline == "\n"
Bad == [error |-> TRUE]
Null == [lit |-> "null"]

positions(s, x) == {i \in 1..Len(s) : s[i] = x}
least(set) == CHOOSE i \in set : \A j \in set : i <= j

\* str.strip().
strip(s) ==
    LET ink == {i \in 1..Len(s) : s[i] # " "}
    IN  IF ink = {} THEN <<>>
        ELSE SubSeq(s, least(ink), CHOOSE i \in ink : \A j \in ink : i >= j)

\* A hash that is not quoted begins a comment at the start of a word.
strip_comment(s) ==
    LET \* The quote that is open before i, "esc" behind its backslash.
        open[i \in 1..(Len(s) + 1)] ==
            IF i = 1 THEN ""
            ELSE IF open[i - 1] = "esc" THEN "\""
            ELSE IF open[i - 1] = "\"" /\ s[i - 1] = "\\" THEN "esc"
            ELSE IF open[i - 1] = "" /\ s[i - 1] \in Quotes THEN s[i - 1]
            ELSE IF open[i - 1] = s[i - 1] THEN ""
            ELSE open[i - 1]
        hashes == {i \in positions(s, "#") :
                      open[i] = "" /\ (i = 1 \/ s[i - 1] = " ")}
    IN  IF hashes = {} THEN s ELSE SubSeq(s, 1, least(hashes) - 1)

RECURSIVE parse_scalar(_), parse_items(_)

\* inner.split(",").
parse_items(s) ==
    IF positions(s, ",") = {} THEN <<parse_scalar(s)>>
    ELSE LET comma == least(positions(s, ","))
         IN  <<parse_scalar(SubSeq(s, 1, comma - 1))>>
                 \o parse_items(SubSeq(s, comma + 1, Len(s)))

parse_scalar(text) ==
    LET items(inner) == IF inner = <<>> THEN <<>> ELSE parse_items(inner)
        scalar(s, n) ==
            IF s = <<>> \/ s = <<"null">> THEN Null
            ELSE IF s[1] \in Quotes /\ s[n] = s[1]
            THEN [str |-> SelectSeq(SubSeq(s, 2, n - 1), LAMBDA c : c # "\\")]
            ELSE IF s[1] = "[" /\ s[n] = "]"
            THEN [list |-> items(strip(SubSeq(s, 2, n - 1)))]
            ELSE IF s \in {<<"true">>, <<"false">>} THEN [lit |-> s[1]]
            ELSE [str |-> s]
        stripped(s) == scalar(s, Len(s))
    IN  stripped(strip(strip_comment(text)))

-----------------------------------------------------------------------------
(* Blocks.  A parser returns a value and the line behind it.               *)

isBlank(line) == line.text = <<>>
isContent(line) == ~isBlank(line) /\ line.text[1] # "#"
isItem(line) == Len(line.text) > 1 /\ SubSeq(line.text, 1, 2) = <<"-", " ">>

next_content(L, i) ==
    least({j \in i..Len(L) : isContent(L[j])} \cup {Len(L) + 1})

split_mapping(text) ==
    LET colon == least(positions(text, ":"))
        key == parse_scalar(SubSeq(text, 1, colon - 1))
    IN  IF positions(text, ":") = {} THEN Bad
        ELSE IF "str" \notin DOMAIN key \/ key = [str |-> <<>>] THEN Bad
        ELSE [key |-> key.str, raw |-> strip(SubSeq(text, colon + 1, Len(text)))]

spaces(n) == [k \in 1..n |-> " "]

\* The lines up to one that is not indented deeper than the key.
block_scalar(L, i, indent, style, chomping) ==
    LET end == least({j \in i..Len(L) : ~isBlank(L[j]) /\ L[j].indent <= indent}
                         \cup {Len(L) + 1})
        cut(line) == IF isBlank(line) THEN <<>>
                     ELSE SubSeq(spaces(line.indent) \o line.text, indent + 3,
                                 line.indent + Len(line.text))
        joined[j \in i..end] ==
            IF j = end THEN <<>>
            ELSE cut(L[j]) \o (IF j + 1 = end THEN <<>>
                               ELSE <<Newline>> \o joined[j + 1])
        ink(s, k) == k \in 1..Len(s) /\ s[k] \notin {" ", Newline}
        fold(s) == IF style # ">" THEN s
                   ELSE [k \in 1..Len(s) |->
                            IF s[k] = Newline /\ ink(s, k - 1) /\ ink(s, k + 1)
                            THEN " " ELSE s[k]]
        ends(s) == {k \in 0..Len(s) : \A j \in (k + 1)..Len(s) : s[j] = Newline}
        chomp(s) == IF chomping = "-" THEN SubSeq(s, 1, least(ends(s)))
                    ELSE IF s # <<>> /\ s[Len(s)] # Newline
                    THEN Append(s, Newline) ELSE s
    IN  [value |-> [str |-> chomp(fold(joined[i]))], next |-> end]

RECURSIVE parse_block(_, _, _), parse_map(_, _, _, _), parse_list(_, _, _, _)

nested_value(L, i, indent) ==
    LET child == next_content(L, i)
    IN  IF child > Len(L) \/ L[child].indent <= indent
        THEN [value |-> [map |-> <<>>], next |-> i]
        ELSE parse_block(L, child, L[child].indent)

BlockStyles == {<<"|">>, <<">">>} \cup ({"|", ">"} \X {"-", "+"})

mapping_value(L, raw, i, indent) ==
    IF raw \in BlockStyles
    THEN block_scalar(L, i, indent, raw[1], IF Len(raw) = 1 THEN "" ELSE raw[2])
    ELSE IF raw = <<>> THEN nested_value(L, i, indent)
    ELSE [value |-> parse_scalar(raw), next |-> i]

put(f, k, v) == [x \in DOMAIN f \cup {k} |-> IF x = k THEN v ELSE f[x]]

\* An error of a part is one of the whole.
ifRead(x, f(_)) == IF x = Bad THEN Bad ELSE f(x)

parse_map(L, from, indent, result) ==
    LET add(entry, value) ==
            parse_map(L, value.next, indent, put(result, entry.key, value.value))
        new(entry, i) ==
            IF entry.key \in DOMAIN result THEN Bad
            ELSE ifRead(mapping_value(L, entry.raw, i + 1, indent),
                        LAMBDA value : add(entry, value))
        at(i) ==
            IF i > Len(L) \/ L[i].indent # indent \/ isItem(L[i])
            THEN [value |-> [map |-> result], next |-> i]
            ELSE ifRead(split_mapping(L[i].text), LAMBDA entry : new(entry, i))
    IN  at(next_content(L, from))

itemMap_Overwrites(first, extra) ==
    [map |-> [k \in DOMAIN first \cup DOMAIN extra |->
                 IF k \in DOMAIN extra THEN extra[k] ELSE first[k]]]

\* The entry behind the dash and those below it have no key in common.
itemMap(first, extra) ==
    IF DOMAIN first \cap DOMAIN extra # {} THEN Bad
    ELSE [map |-> [k \in DOMAIN first \cup DOMAIN extra |->
                      IF k \in DOMAIN extra THEN extra[k] ELSE first[k]]]

parse_list(L, from, indent, result) ==
    LET goesOn(i) == i <= Len(L) /\ L[i].indent = indent + 2 /\ ~isItem(L[i])
        extra(next, more) ==
            IF goesOn(more) THEN parse_map(L, more, indent + 2, <<>>)
            ELSE [value |-> [map |-> <<>>], next |-> next]
        \* What stands behind the dash: a scalar or the first entry of a map.
        read(item, i) ==
            IF positions(item, ":") = {}
            THEN [value |-> parse_scalar(item), next |-> i + 1]
            ELSE ifRead(split_mapping(item), LAMBDA entry :
                 ifRead(mapping_value(L, entry.raw, i + 1, indent + 2), LAMBDA v :
                 ifRead(extra(v.next, next_content(L, v.next)), LAMBDA rest :
                 ifRead(itemMap(put(<<>>, entry.key, v.value), rest.value.map),
                        LAMBDA whole : [value |-> whole, next |-> rest.next]))))
        at(i) ==
            IF i > Len(L) \/ L[i].indent # indent \/ ~isItem(L[i])
            THEN [value |-> [list |-> result], next |-> i]
            ELSE ifRead(read(strip(SubSeq(L[i].text, 3, Len(L[i].text))), i),
                        LAMBDA x : parse_list(L, x.next, indent,
                                              Append(result, x.value)))
    IN  at(next_content(L, from))

parse_block(L, i, indent) ==
    IF isItem(L[i]) THEN parse_list(L, i, indent, <<>>)
                    ELSE parse_map(L, i, indent, <<>>)

\* The whole file is one mapping.
parse_workflow(L) ==
    LET whole(block) ==
            IF \/ next_content(L, block.next) <= Len(L)
               \/ "map" \notin DOMAIN block.value
            THEN Bad ELSE block.value
        at(i) == IF i > Len(L) THEN [map |-> <<>>]
                 ELSE ifRead(parse_block(L, i, L[i].indent), whole)
    IN  at(next_content(L, 1))

-----------------------------------------------------------------------------
(* Documents.  A tree is a "leaf", a spelling and its value; a "block"     *)
(* scalar, its style and its lines; a "map", its entries in order; or a    *)
(* "list".                                                                 *)

leaf(raw, value) == [leaf |-> raw, value |-> value]
plainLeaf == leaf(<<"v">>, [str |-> <<"v">>])

Leaves ==
    {plainLeaf,
     leaf(<<"v", " ", "#", "w">>, [str |-> <<"v">>]),
     leaf(<<"v", "#", "w">>, [str |-> <<"v", "#", "w">>]),
     leaf(<<"'", "v", " ", "#", "\"", "'">>, [str |-> <<"v", " ", "#", "\"">>]),
     leaf(<<"\"", "\\", "\"", " ", "#", "'", "\"", " ", "#", "\"">>,
          [str |-> <<"\"", " ", "#", "'">>]),
     leaf(<<"[", " ", "]">>, [list |-> <<>>]),
     leaf(<<"[", "v", ",", " ", "'", "#", "'", "]">>,
          [list |-> <<[str |-> <<"v">>], [str |-> <<"#">>]>>]),
     leaf(<<"true">>, [lit |-> "true"])}

Line(indent, text) == [indent |-> indent, text |-> text, script |-> FALSE]

\* The lines of a script, relative to the first, with what they mean.
Scripts ==
    {[style |-> <<"|">>, lines |-> <<Line(0, <<"b", ":", " ", "v">>),
                                     Line(2, <<"#", "w">>), Line(0, <<"v">>)>>,
      value |-> <<"b", ":", " ", "v", Newline, " ", " ", "#", "w", Newline,
                  "v", Newline>>],
     [style |-> <<"|", "-">>, lines |-> <<Line(0, <<"-", " ", "v">>)>>,
      value |-> <<"-", " ", "v">>],
     [style |-> <<">">>, lines |-> <<Line(0, <<"v">>), Line(0, <<"w">>),
                                     Line(2, <<"w">>)>>,
      value |-> <<"v", " ", "w", Newline, " ", " ", "w", Newline>>]}

Small == {plainLeaf, CHOOSE s \in Scripts : s.style = <<"|">>,
          [map |-> <<>>]}

entries(s) == [map |-> s]
a == <<"a">>
b == <<"b">>

Values ==
    Leaves \cup Scripts \cup {[map |-> <<>>]}
    \cup {entries(<<<<b, x>>>>) : x \in Small}
    \cup {entries(<<<<b, x>>, <<a, y>>>>) : x \in Small, y \in Leaves}
    \cup {[list |-> <<x>>] : x \in Leaves}
    \cup {[list |-> <<x, entries(<<<<a, y>>>>)>>] : x \in Leaves, y \in Small}
    \cup {[list |-> <<entries(<<<<a, x>>, <<b, y>>>>), entries(<<<<b, x>>>>)>>]
             : x \in Small, y \in Small}

Documents ==
    {entries(<<>>), [list |-> <<plainLeaf>>]}
    \cup {entries(<<<<a, x>>, <<b, plainLeaf>>>>) : x \in Values}
    \cup {entries(<<<<a, plainLeaf>>, <<b, x>>>>) : x \in Values}

RECURSIVE meaning(_), print(_, _)

meaning(t) ==
    CASE "leaf" \in DOMAIN t -> t.value
      [] "style" \in DOMAIN t -> [str |-> t.value]
      [] "list" \in DOMAIN t ->
           [list |-> [i \in 1..Len(t.list) |-> meaning(t.list[i])]]
      [] OTHER ->
           [map |-> [k \in {t.map[i][1] : i \in 1..Len(t.map)} |->
                        meaning((CHOOSE e \in Range(t.map) : e[1] = k)[2])]]

\* The lines of a map or a list at an indentation.
print(t, n) ==
    LET indented(lines) == [i \in 1..Len(lines) |->
                               [lines[i] EXCEPT !.indent = @ + n + 2,
                                                !.script = TRUE]]
        entry(e) ==
            LET head == e[1] \o <<":">>
            IN  IF "leaf" \in DOMAIN e[2]
                THEN <<Line(n, head \o <<" ">> \o e[2].leaf)>>
                ELSE IF "style" \in DOMAIN e[2]
                THEN <<Line(n, head \o <<" ">> \o e[2].style)>>
                         \o indented(e[2].lines)
                ELSE <<Line(n, head)>> \o print(e[2], n + 2)
        item(x) ==
            IF "leaf" \in DOMAIN x
            THEN <<Line(n, <<"-", " ">> \o x.leaf)>>
            ELSE LET lines == print(x, n + 2)
                 IN  <<Line(n, <<"-", " ">> \o lines[1].text)>> \o Tail(lines)
    IN  IF "map" \in DOMAIN t
        THEN FlattenSeq([i \in 1..Len(t.map) |-> entry(t.map[i])])
        ELSE FlattenSeq([i \in 1..Len(t.list) |-> item(t.list[i])])

YamlInit ==
    /\ tree \in Documents
    /\ yaml = print(tree, 0)
    /\ noise = 0
    /\ doubled = FALSE

\* A blank line or a comment, not between the lines of a script; behind one
\* only what does not belong to it.
AddNoise ==
    /\ noise < MaxNoise
    /\ noise' = noise + 1
    /\ \E i \in 1..(Len(yaml) + 1), n \in {0, 6}, text \in {<<>>, <<"#", "w">>} :
           /\ i <= Len(yaml) => ~yaml[i].script
           /\ i > 1 /\ (yaml[i - 1].script \/ isBlank(yaml[i - 1])) => n = 0
           /\ text = <<>> => n = 0 /\ \A j \in {i - 1, i} \cap DOMAIN yaml :
                                        ~isBlank(yaml[j])
           /\ yaml' = InsertAt(yaml, i, Line(n, text))
    /\ UNCHANGED <<tree, doubled>>

\* The key of line i is written once more behind all that belongs to it.
Double ==
    /\ ~doubled
    /\ doubled' = TRUE
    /\ \E i \in 1..Len(yaml) :
           LET text == yaml[i].text
               dash == isItem(yaml[i])
               n == yaml[i].indent + (IF dash THEN 2 ELSE 0)
               end == least({j \in (i + 1)..Len(yaml) : yaml[j].indent <= n}
                                \cup {Len(yaml) + 1})
               key == SubSeq(text, IF dash THEN 3 ELSE 1,
                             least(positions(text, ":")))
           IN  /\ isContent(yaml[i]) /\ ~yaml[i].script
               /\ positions(text, ":") # {}
               /\ yaml' = InsertAt(yaml, end, Line(n, key \o <<" ", "v">>))
    /\ UNCHANGED <<tree, noise>>

YamlNext == AddNoise \/ Double

-----------------------------------------------------------------------------
\* A workflow is read as the mapping that was written, with its comments, its
\* quotes and its scripts: the audit judges the document that was written.
\* Refused are exactly the files with a key twice in one mapping and those
\* that are no mapping.
ReadIsExact ==
    parse_workflow(yaml) = IF doubled \/ "list" \in DOMAIN tree
                           THEN Bad ELSE meaning(tree)
=============================================================================

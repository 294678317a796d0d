------------------------------ MODULE TomlEdit ------------------------------
(***************************************************************************)
(* TomlDocument: how a TOML text is read and written again, and how a unit *)
(* of a document is read for a baseline, set, inserted, moved and deleted. *)
(* A document is a record [text, newline, root]; an operation gives        *)
(* another one or Refused.                                                 *)
(***************************************************************************)
EXTENDS Naturals, Integers, Sequences, SequencesExt, FiniteSets

(***************************************************************************)
(* How a text is read and written.  A text is a                            *)
(* sequence of tokens: brackets, ".", "=", ",", keys, scalars, comments,   *)
(* "sp", "cr" and "lf".  A document keeps every token in a tree.           *)
(*                                                                         *)
(*   container  [body |-> entries, keys |-> keys of its tables]            *)
(*   entry      [key |-> key or None, item |-> item]                       *)
(*   item       is "value", "array", "inline", "table", "tables" (an       *)
(*              array of tables), "space", "note" (a comment) or "null"    *)
(*   trivia     the tokens of indent, gap before a comment, note and trail *)
(*                                                                         *)
(* A value is [scalar |-> token], [array |-> values] or                    *)
(* [object |-> sequence of [name, value]].  What fails gives Refused.      *)
(***************************************************************************)
CONSTANTS
    NameOf,         \* the name that a key token spells
    QuotedNames,    \* the key tokens in quotes
    Joined(_),      \* the name of a bare key of several words
    Scalars,        \* the tokens that are a value
    Notes,          \* the comments
    MaxKeyDepth,    \* MAX_KEY_DEPTH
    MaxValueDepth,  \* MAX_VALUE_DEPTH
    Refused,
    None

Blank == {"sp"}
Breaks == {"cr", "lf"}

Trivia(indent, gap, note, trail) == [indent |-> indent, gap |-> gap, note |-> note, trail |-> trail]
PlainTrivia == Trivia(<<>>, <<>>, <<>>, <<"lf">>)

EmptyContainer == [body |-> <<>>, keys |-> <<>>]
NullItem == [is |-> "null"]
Space(raw) == [is |-> "space", raw |-> raw]
Tables(members) == [is |-> "tables", members |-> members]
TableOf(body, trivia, many, implicit, display) ==
    [is |-> "table", body |-> body, trivia |-> trivia, many |-> many, implicit |-> implicit,
     display |-> display]

Key(parts, dotted, sep) == [parts |-> parts, dotted |-> dotted, sep |-> sep]
Assign == <<"sp", "=", "sp">>
PartKey(part, dotted) == Key(<<part>>, dotted, Assign)
Name(key) == key.parts[1].name
Names(key) == [i \in DOMAIN key.parts |-> key.parts[i].name] \o <<>>

JoinTexts(texts) ==
    FoldLeft(LAMBDA text, t : IF text = <<>> THEN t ELSE text \o <<".">> \o t, <<>>, texts)
KeyText(key) == JoinTexts([i \in DOMAIN key.parts |-> key.parts[i].raw])

IsTable(item) == item.is \in {"table", "tables"}
IsGap(item) == item.is \in {"note", "space"}
HasTrivia(item) == item.is \in {"value", "array", "inline"}
Named(entry, name) == entry.key # None /\ Name(entry.key) = name
Dotted(entry) == entry.key # None /\ entry.key.dotted
-----------------------------------------------------------------------------
(* Scanning: where a token stands, and what is read from there.            *)

At(text, i) == IF i \in DOMAIN text THEN text[i] ELSE "end"
After(text, i, over) ==
    LET left == {j \in i..Len(text) : text[j] \notin over}
    IN  IF left = {} THEN Max({i, Len(text) + 1}) ELSE Min(left)

\* After the end of a line at i; a lone CR is none.
LineEnd(text, i) ==
    CASE At(text, i) = "lf"  -> i + 1
      [] At(text, i) = "end" -> i
      [] At(text, i) = "cr" /\ At(text, i + 1) = "lf" -> i + 2
      [] OTHER -> Refused

CommentTrail(text, i) ==
    LET at    == After(text, i, Blank)
        noted == At(text, at) \in Notes
        from  == IF noted THEN at + 1 ELSE i
        end   == LineEnd(text, After(text, from, Blank))
    IN  IF end = Refused THEN Refused
        ELSE [at |-> end,
              trivia |-> Trivia(<<>>, IF noted THEN SubSeq(text, i, at - 1) ELSE <<>>,
                                IF noted THEN <<text[at]>> ELSE <<>>, SubSeq(text, from, end - 1))]

\* A part of a key: one name in quotes, or bare words and the space among them.
SimpleKey(text, i) ==
    LET from   == After(text, i, Blank)
        quoted == At(text, from) \in QuotedNames
        end    == IF quoted THEN After(text, from + 1, Blank)
                  ELSE After(text, from, (DOMAIN NameOf \ QuotedNames) \cup Blank)
        words  == SelectSeq(SubSeq(text, from, end - 1), LAMBDA t : t # "sp")
    IN  IF words = <<>> THEN Refused
        ELSE [at |-> end,
              part |-> [name |-> IF Len(words) = 1 THEN NameOf[words[1]] ELSE Joined(words),
                        raw |-> SubSeq(text, i, end - 1), quoted |-> quoted,
                        spaced |-> ~quoted /\ Len(words) > 1]]

RECURSIVE KeyFrom(_, _, _), SkipTrivia(_, _, _), ValueAt(_, _, _), ArrayFrom(_, _, _, _, _, _),
          InlineFrom(_, _, _, _)

KeyFrom(text, i, parts) ==
    LET simple == SimpleKey(text, i)
        all    == Append(parts, simple.part)
    IN  CASE Len(parts) + 1 > MaxKeyDepth \/ simple = Refused -> Refused
          [] At(text, simple.at) = "." -> KeyFrom(text, simple.at + 1, all)
          [] OTHER -> [at |-> simple.at, key |-> Key(all, Len(all) > 1, <<>>)]

KeyAt(text, i) == KeyFrom(text, i, <<>>)

\* parse_key_value.  An item of an inline table has no line of its own.
PairAt(text, i, lined, depth) ==
    LET key   == KeyAt(text, i)
        from  == After(text, key.at, {"sp", "="})
        sep   == SubSeq(text, key.at, from - 1)
        deep  == depth + Len(key.key.parts) - 1
        value == ValueAt(text, from, deep)
        trail == CommentTrail(text, value.at)
        entry(trivia) == [key |-> [key.key EXCEPT !.sep = sep], item |-> [value.item EXCEPT !.trivia = trivia]]
    IN  CASE key = Refused -> Refused
          [] Len(SelectSeq(sep, LAMBDA t : t = "=")) # 1 \/ deep > MaxValueDepth -> Refused
          [] value = Refused -> Refused
          [] ~lined -> [at |-> value.at, entry |-> entry(Trivia(<<>>, <<>>, <<>>, <<>>))]
          [] trail = Refused -> Refused
          [] OTHER -> [at |-> trail.at, entry |-> entry(trail.trivia)]

SkipTrivia(text, i, over) ==
    LET j     == After(text, i, over)
        trail == CommentTrail(text, j)
    IN  CASE At(text, j) \notin Notes -> j
          [] trail = Refused -> Refused
          [] OTHER -> SkipTrivia(text, trail.at, over)

ValueAt(text, i, depth) ==
    CASE At(text, i) \in Scalars ->
            [at |-> i + 1, item |-> [is |-> "value", raw |-> <<text[i]>>, value |-> [scalar |-> text[i]],
                                     trivia |-> PlainTrivia]]
      [] At(text, i) = "[" /\ depth < MaxValueDepth -> ArrayFrom(text, i, i + 1, depth + 1, <<>>, <<>>)
      [] At(text, i) = "{" /\ depth < MaxValueDepth ->
            LET inline == InlineFrom(text, i + 1, depth + 1, <<>>)
                names  == [n \in DOMAIN inline.entries |-> Name(inline.entries[n].key)]
            IN  IF inline = Refused \/ ~IsInjective(names) THEN Refused
                ELSE [at |-> inline.at,
                      item |-> [is |-> "inline", raw |-> SubSeq(text, i, inline.at - 1),
                                value |-> [object |-> [n \in DOMAIN names |->
                                    [name |-> names[n], value |-> inline.entries[n].item.value]] \o <<>>],
                                trivia |-> PlainTrivia, entries |-> inline.entries]]
      [] OTHER -> Refused

\* parse_array: its members, where each begins and ends, and its commas.
ArrayFrom(text, start, i, depth, members, commas) ==
    LET from  == SkipTrivia(text, i, Blank \cup Breaks)
        value == ValueAt(text, from, depth)
        next  == SkipTrivia(text, value.at, Blank \cup Breaks)
        all   == Append(members, [item |-> value.item, from |-> from - start, to |-> value.at - start])
    IN  CASE from = Refused -> Refused
          [] At(text, from) = "]" ->
                [at |-> from + 1,
                 item |-> [is |-> "array", raw |-> SubSeq(text, start, from),
                           value |-> [array |-> [n \in DOMAIN members |-> members[n].item.value] \o <<>>],
                           trivia |-> PlainTrivia, members |-> members, commas |-> commas]]
          [] value = Refused \/ next = Refused -> Refused
          [] At(text, next) = "," -> ArrayFrom(text, start, next + 1, depth, all, Append(commas, next - start))
          [] At(text, next) = "]" -> ArrayFrom(text, start, next, depth, all, commas)
          [] OTHER -> Refused

\* parse_inline_table.
InlineFrom(text, i, depth, entries) ==
    LET from == SkipTrivia(text, i, Blank \cup {"lf"})
        pair == PairAt(text, from, FALSE, depth)
    IN  CASE from = Refused -> Refused
          [] At(text, from) = "}" -> [at |-> from + 1, entries |-> entries]
          [] At(text, from) = "," -> IF entries = <<>> THEN Refused ELSE InlineFrom(text, from + 1, depth, entries)
          [] pair = Refused -> Refused
          [] OTHER -> InlineFrom(text, pair.at, depth, Append(entries, pair.entry))

Loose(at, item) == [at |-> at, entry |-> [key |-> None, item |-> item]]

\* parse_statement: a line that is no header; nothing before a header.
Statement(text, i) ==
    LET j      == After(text, i, Blank)
        indent == SubSeq(text, i, j - 1)
        end    == LineEnd(text, j)
        trail  == CommentTrail(text, j)
        pair   == PairAt(text, j, TRUE, 0)
    IN  CASE At(text, j) = "[" \/ i > Len(text) -> [at |-> j, entry |-> None]
          [] At(text, j) \in Breaks \cup {"end"} ->
                IF end = Refused THEN Refused ELSE Loose(end, Space(SubSeq(text, i, end - 1)))
          [] At(text, j) \in Notes ->
                IF trail = Refused THEN Refused
                ELSE Loose(trail.at, [is |-> "note", trivia |-> [trail.trivia EXCEPT !.indent = indent]])
          [] OTHER -> IF pair = Refused THEN Refused ELSE [pair EXCEPT !.entry.item.trivia.indent = indent]
-----------------------------------------------------------------------------
(* Containers: how an entry joins those that are there.                    *)

RawAppend(c, key, item) ==
    [body |-> Append(c.body, [key |-> key, item |-> item]),
     keys |-> IF key # None /\ IsTable(item) THEN Append(c.keys, key) ELSE c.keys]

WithItem(c, i, item) == [c EXCEPT !.body[i].item = item]
InsertEntry(c, i, key, item) == [c EXCEPT !.body = InsertAt(c.body, i, [key |-> key, item |-> item])]
LastSolid(body) == SelectLastInSeq(body, LAMBDA e : e.item.is # "null")

RECURSIVE EndsWithSpace(_), HasHeader(_), AppendAll(_, _, _), AppendEntry(_, _, _, _),
          SameDefinitions(_, _)

\* ends_with_whitespace of a container's entries.
EndsWithSpace(body) ==
    LET last == body[LastSolid(body)].item
    IN  /\ LastSolid(body) # 0
        /\ \/ last.is = "space"
           \/ last.is = "table" /\ EndsWithSpace(last.body.body)
           \/ last.is = "tables" /\ last.members # <<>> /\ EndsWithSpace(Last(last.members).body.body)
SpaceAtEnd(item) == EndsWithSpace(<<[key |-> None, item |-> item]>>)

\* glue_new_item: a table that was not in the text begins on a line of its own.
Glued(c, item, parsed) ==
    CASE parsed \/ c.body = <<>> \/ EndsWithSpace(c.body) -> item
      [] item.is = "table" /\ item.trivia.indent = <<>> -> [item EXCEPT !.trivia.indent = <<"lf">>]
      [] item.is = "tables" /\ ~Contains(item.members[1].trivia.indent, "lf") ->
            [item EXCEPT !.members[1].trivia.indent = <<"lf">> \o @]
      [] OTHER -> item

\* renders_table_header.
HasHeader(table) ==
    \E i \in DOMAIN table.body.body :
        LET e == table.body.body[i]
        IN  \/ e.item.is = "tables"
            \/ e.item.is = "table" /\ (~(Dotted(e) /\ e.item.implicit) \/ HasHeader(e.item))

\* last_index_before_table: after it an entry that is no table is put.
BeforeTables(body) ==
    LET stops == {i \in DOMAIN body : /\ body[i].key # None /\ IsTable(body[i].item)
                                      /\ Dotted(body[i]) => body[i].item.is = "table" /\ HasHeader(body[i].item)}
        upto  == IF stops = {} THEN Len(body) ELSE Min(stops) - 1
    IN  SelectLastInSubSeq(body, 1, upto, LAMBDA e : e.item.is \notin {"null", "space"})

HasAnyTrivia(item) == HasTrivia(item) \/ item.is \in {"note", "table"}
EndLine(item) ==
    IF HasAnyTrivia(item) /\ ~SpaceAtEnd(item) /\ ~Contains(item.trivia.trail, "lf")
    THEN [item EXCEPT !.trivia.trail = Append(@, "lf")] ELSE item

\* trail_before_append: the last line of what stands before ends.
EndLastLine(item) ==
    LET body == item.body.body
        last == LastSolid(body)
        more == /\ item.is = "table" /\ item.implicit /\ Contains(item.trivia.trail, "lf")
                /\ last # 0 /\ HasAnyTrivia(body[last].item) /\ ~Contains(body[last].item.trivia.trail, "lf")
    IN  EndLine(IF more THEN [item EXCEPT !.body.body[last].item.trivia.trail = @ \o item.trivia.trail] ELSE item)

\* The part of Container::append for an entry that was not in the text.
Placed(c, key, item) ==
    LET i    == BeforeTables(c.body)
        last == Len(c.body)
    IN  IF i < last
        THEN InsertEntry(IF i = 0 THEN c ELSE WithItem(c, i, EndLine(c.body[i].item)), i + 1, key, item)
        ELSE RawAppend(WithItem(c, last, EndLastLine(c.body[last].item)), key, item)

ImplicitTable(body) == TableOf(body, PlainTrivia, FALSE, TRUE, None)

\* handle_dotted_key: a chain of tables that the key implies.
Chain(key, item) ==
    LET n    == Len(key.parts)
        leaf == RawAppend(EmptyContainer, [PartKey(key.parts[n], FALSE) EXCEPT !.sep = key.sep], item)
    IN  FoldRight(LAMBDA part, body : RawAppend(EmptyContainer, PartKey(part, TRUE), ImplicitTable(body)),
                  SubSeq(key.parts, 2, n - 1), leaf)

\* validate_candidate.
SameDefinitions(current, candidate) ==
    \A n \in DOMAIN candidate.body.body :
        LET entry == candidate.body.body[n]
            name  == Name(entry.key)
            i     == SelectInSeq(current.body.body, LAMBDA e : Named(e, name))
            found == current.body.body[i]
        IN  entry.key # None /\ i # 0 =>
                /\ IsTable(found.item) = IsTable(entry.item) /\ ~Dotted(entry)
                /\ found.item.is = "table" /\ entry.item.is = "table" =>
                       /\ found.item.implicit \/ entry.item.implicit
                       /\ SameDefinitions(found.item, entry.item)

\* validate_out_of_order: the parts of a table that is written in several
\* places can be joined.
InOrder(c) ==
    \A i \in DOMAIN c.body :
        LET key   == c.body[i].key
            parts == SelectSeq(c.body, LAMBDA e : key # None /\ Named(e, Name(key)) /\ Dotted(e) = key.dotted)
            tables == SelectSeq(parts, LAMBDA e : e.item.is = "table")
        IN  Len(parts) > 1 =>
                AppendAll(EmptyContainer, FlattenSeq([n \in DOMAIN tables |-> tables[n].item.body.body] \o <<>>),
                          TRUE) # Refused

Ordered(c) == IF InOrder(c) THEN c ELSE Refused

\* append_existing, of a table whose name the table at i has.
AppendTable(c, key, table, i, parsed) ==
    LET found == c.body[i]
        item  == found.item
        glued == Glued(c, table, parsed)
        at    == IF key.dotted /\ ~parsed THEN BeforeTables(c.body) + 1 ELSE Len(c.body) + 1
        joined(into) == AppendAll(into.body, table.body.body, parsed)
        split == key.dotted \/ Dotted(found) \/ c.keys = <<>> \/ Last(c.keys) # found.key
    IN  CASE table.many -> WithItem(c, i, IF item.is = "tables" THEN Tables(Append(item.members, table))
                                          ELSE Tables(<<item, table>>))
          [] item.is = "tables" ->
                IF ~table.implicit \/ item.members = <<>> \/ joined(Last(item.members)) = Refused THEN Refused
                ELSE WithItem(c, i, [item EXCEPT !.members[Len(item.members)].body = joined(Last(item.members))])
          [] item.implicit /\ table.implicit /\ split ->
                Ordered(IF at <= Len(c.body) THEN InsertEntry(c, at, key, glued) ELSE RawAppend(c, key, glued))
          [] item.implicit /\ table.implicit ->
                IF joined(item) = Refused THEN Refused ELSE WithItem(c, i, [item EXCEPT !.body = joined(item)])
          [] ~item.implicit /\ ~table.implicit -> Refused
          [] item.implicit /\ Dotted(found) -> Refused
          [] ~SameDefinitions(item, table) -> Refused
          [] OTHER -> Ordered(RawAppend(c, key, glued))

\* Container::append, of what was read (parsed) and of what is new.
AppendEntry(c, key, item, parsed) ==
    LET i == SelectLastInSeq(c.body, LAMBDA e : Named(e, Name(key)))
    IN  CASE key = None -> RawAppend(c, None, item)
          [] Len(key.parts) > 1 ->
                IF IsTable(item) THEN Refused
                ELSE AppendEntry(c, PartKey(key.parts[1], TRUE), ImplicitTable(Chain(key, item)), parsed)
          [] i # 0 /\ item.is = "tables" /\ c.body[i].item.is = "tables" ->
                WithItem(c, i, Tables(c.body[i].item.members \o item.members))
          [] i # 0 ->
                IF item.is # "table" \/ ~IsTable(c.body[i].item) THEN Refused
                ELSE AppendTable(c, key, item, i, parsed)
          [] ~parsed /\ c.body # <<>> /\ ~(IsTable(item) /\ ~key.dotted) -> Placed(c, key, item)
          [] OTHER -> RawAppend(c, key, Glued(c, item, parsed))

AppendAll(c, entries, parsed) ==
    FoldLeft(LAMBDA into, e : IF into = Refused THEN Refused ELSE AppendEntry(into, e.key, e.item, parsed),
             c, entries)

\* merge_whitespace, or else append.
Joining(c, entry) ==
    IF entry.item.is = "space" /\ c.body # <<>> /\ Last(c.body).item.is = "space"
    THEN WithItem(c, Len(c.body), Space(Last(c.body).item.raw \o entry.item.raw))
    ELSE AppendEntry(c, entry.key, entry.item, TRUE)
-----------------------------------------------------------------------------
(* Headers: a table, with the tables whose headers say that they are in it. *)

IsChild(names, other) == names # other /\ IsPrefix(names, other)

\* The tokens before i in its line.
IndentAt(text, i) ==
    LET ends == {j \in 1..(i - 1) : text[j] = "lf"}
    IN  SubSeq(text, IF ends = {} THEN 1 ELSE Max(ends) + 1, i - 1)

\* peek_table: the key of the header at i.
Peeked(text, i) == KeyAt(text, IF At(text, i + 1) = "[" THEN i + 2 ELSE i + 1)

RECURSIVE TableAt(_, _, _, _), BodyFrom(_, _, _, _, _), MembersFrom(_, _, _, _),
          RootFrom(_, _, _), TablesFrom(_, _, _)

\* parse_table: the table at i, in a table of above parts.  The first of several
\* parts is the key, the others are tables that the header implies.
TableAt(text, i, above, stack) ==
    LET many   == At(text, i + 1) = "["
        full   == Peeked(text, i)
        shut   == full.at + IF many THEN 2 ELSE 1
        trail  == CommentTrail(text, shut)
        trivia == [trail.trivia EXCEPT !.indent = IndentAt(text, i)]
        body   == BodyFrom(text, trail.at, Names(full.key), EmptyContainer, stack)
        parts  == SubSeq(full.key.parts, above + 1, Len(full.key.parts))
        leaf   == TableOf(body.body, trivia, many, FALSE, KeyText(full.key))
        level(part, item, outer) ==
            TableOf(RawAppend(EmptyContainer, PartKey(part, FALSE), item),
                    IF outer THEN [trivia EXCEPT !.indent = <<>>] ELSE trivia,
                    outer /\ many /\ <<parts[1].name>> \in ToSet(stack), TRUE, None)
        nested == FoldRight(LAMBDA n, item : level(parts[n], item, n = 2),
                            [n \in 1..(Len(parts) - 1) |-> n + 1],
                            IF many THEN Tables(<<leaf>>) ELSE leaf)
        others == MembersFrom(text, body.at, full.key, <<leaf>>)
        key    == IF parts = <<>> THEN full.key ELSE PartKey(parts[1], FALSE)
    IN  CASE full = Refused -> Refused
          [] \/ \E p \in ToSet(full.key.parts) : p.spaced
             \/ \E j \in full.at..(shut - 1) : At(text, j) # "]" -> Refused
          [] trail = Refused -> Refused
          [] body = Refused -> Refused
          [] Len(parts) > 1 -> [at |-> body.at, key |-> key, item |-> nested]
          [] many /\ (stack = <<>> \/ Last(stack) # Names(full.key)) ->
                IF others = Refused THEN Refused
                ELSE [at |-> others.at, key |-> key, item |-> Tables(others.members)]
          [] OTHER -> [at |-> body.at, key |-> key, item |-> leaf]

\* parse_table_body, of the table with the given names.
BodyFrom(text, i, names, c, stack) ==
    LET statement == Statement(text, i)
        joined    == Joining(c, statement.entry)
        next      == Peeked(text, statement.at)
        child     == TableAt(text, statement.at, Len(names), stack)
        done      == IF InOrder(c) THEN [at |-> statement.at, body |-> c] ELSE Refused
    IN  CASE i > Len(text) -> IF InOrder(c) THEN [at |-> i, body |-> c] ELSE Refused
          [] statement = Refused -> Refused
          [] statement.entry # None ->
                IF joined = Refused THEN Refused ELSE BodyFrom(text, statement.at, names, joined, stack)
          [] next = Refused -> Refused
          [] ~IsChild(names, Names(next.key)) -> done
          [] child = Refused -> Refused
          [] OTHER -> BodyFrom(text, child.at, names, RawAppend(c, child.key, child.item), stack)

\* bundle_aot: the tables of an array that stand one after the other.
MembersFrom(text, i, key, members) ==
    LET next  == Peeked(text, i)
        table == TableAt(text, i, Len(key.parts), <<Names(key)>>)
    IN  IF i > Len(text) \/ At(text, i + 1) # "[" \/ next = Refused
        THEN [at |-> i, members |-> members]
        ELSE IF Names(next.key) # Names(key) THEN [at |-> i, members |-> members]
        ELSE IF table = Refused THEN Refused
        ELSE MembersFrom(text, table.at, key, Append(members, table.item))

TablesFrom(text, i, c) ==
    LET table == TableAt(text, i, 0, <<>>)
        all   == AppendEntry(c, table.key, table.item, TRUE)
    IN  CASE i > Len(text) -> c
          [] table = Refused -> Refused
          [] all = Refused -> Refused
          [] OTHER -> TablesFrom(text, table.at, all)

\* parse_document.
RootFrom(text, i, c) ==
    LET statement == Statement(text, i)
        joined    == Joining(c, statement.entry)
    IN  CASE statement = Refused -> Refused
          [] statement.entry = None -> TablesFrom(text, statement.at, c)
          [] joined = Refused -> Refused
          [] OTHER -> RootFrom(text, statement.at, joined)

ParseDocument(text) == RootFrom(text, 1, EmptyContainer)
-----------------------------------------------------------------------------
(* Rendering                                                               *)

Prefixed(prefix, name) == IF prefix = None \/ name = <<>> THEN name ELSE prefix \o <<".">> \o name
TriviaAfter(trivia) == trivia.gap \o trivia.note \o trivia.trail

\* Item::as_string, of what is no table.
ItemText(item) ==
    CASE item.is = "note" -> item.trivia.indent \o TriviaAfter(item.trivia)
      [] item.is = "null" -> <<>>
      [] OTHER -> item.raw

\* render_simple
SimpleText(e, prefix) ==
    IF e.key = None \/ ~HasTrivia(e.item) THEN ItemText(e.item)
    ELSE e.item.trivia.indent \o Prefixed(prefix, KeyText(e.key)) \o e.key.sep \o e.item.raw
             \o TriviaAfter(e.item.trivia)

\* The line break that a table needs after the text before it.
TableBreak(text, indent) ==
    LET last == SelectLastInSeq(text, LAMBDA t : t \notin Blank)
    IN  IF last # 0 /\ text[last] # "lf" /\ ~Contains(indent, "lf") THEN <<"lf">> ELSE <<>>

RECURSIVE TableText(_, _, _), EntriesText(_, _, _, _, _)

\* The entries of a table that is called name (None: of the document), after
\* the text of its header.
EntriesText(body, header, name, dotted, breaks) ==
    LET lead(text, indent) == IF breaks THEN TableBreak(text, indent) ELSE <<>>
        prefix(e) == IF e.item.implicit /\ Dotted(e) /\ ~dotted THEN None ELSE name
        arrayName(e) == Prefixed(name, KeyText(e.key))
        member(e, m) == EntriesText(m.body.body, m.trivia.indent \o <<"[", "[">> \o arrayName(e)
                                        \o <<"]", "]">> \o TriviaAfter(m.trivia), arrayName(e), FALSE, FALSE)
        next(text, e) ==
            CASE e.item.is = "table" -> lead(text, e.item.trivia.indent) \o TableText(e.key, e.item, prefix(e))
              [] e.item.is = "tables" ->
                    lead(text, IF e.item.members = <<>> THEN <<>> ELSE e.item.members[1].trivia.indent)
                        \o FlattenSeq([m \in DOMAIN e.item.members |-> member(e, e.item.members[m])] \o <<>>)
              [] OTHER -> SimpleText(e, IF dotted THEN name ELSE None)
    IN  FoldLeft(LAMBDA text, e : text \o next(text, e), header, body)

\* render_table.  A table that other headers imply has none of its own, unless
\* values or a comment stand in it.
TableText(key, table, prefix) ==
    LET body   == table.body.body
        name   == IF table.display # None THEN table.display ELSE Prefixed(prefix, KeyText(key))
        headed == \/ ~table.implicit
                  \/ ~key.dotted /\ \E i \in DOMAIN body :
                         \/ body[i].item.is \notin {"table", "tables", "space", "null"}
                         \/ body[i].item.is = "table" /\ Dotted(body[i])
        shut   == IF table.many THEN <<"]", "]">> ELSE <<"]">>
        open   == IF table.many THEN <<"[", "[">> ELSE <<"[">>
        header == table.trivia.indent \o open \o name \o shut \o TriviaAfter(table.trivia)
                      \o IF body # <<>> /\ ~Contains(table.trivia.trail, "lf") THEN <<"lf">> ELSE <<>>
    IN  EntriesText(body, IF headed THEN header
                          ELSE IF table.trivia.indent = <<"lf">> THEN <<"lf">> ELSE <<>>,
                    name, key.dotted, TRUE)

\* render_root
Render(c) == EntriesText(c.body, <<>>, None, FALSE, TRUE)

\* coalesce: dotted keys of one table that stand together become one table.
RECURSIVE Coalesce(_)
Coalesce(c) ==
    LET inner(item) ==
            CASE item.is = "table" -> [item EXCEPT !.body = Coalesce(@)]
              [] item.is = "tables" ->
                    Tables([m \in DOMAIN item.members |-> [item.members[m] EXCEPT !.body = Coalesce(@)]] \o <<>>)
              [] OTHER -> item
        add(result, e) ==
            LET item  == inner(e.item)
                body  == result.body
                at    == Max({1, SelectLastInSeq(body, LAMBDA b : ~IsGap(b.item))})
                first == body[at]
                merge == /\ body # <<>> /\ Dotted(e) /\ item.is = "table"
                         /\ Dotted(first) /\ KeyText(first.key) = KeyText(e.key) /\ first.item.is = "table"
                merged == first.item.body.body \o SubSeq(body, at + 1, Len(body)) \o item.body.body
            IN  IF merge
                THEN [result EXCEPT !.body = Append(SubSeq(body, 1, at - 1),
                          [first EXCEPT !.item.body = Coalesce([body |-> merged, keys |-> @.keys])])]
                ELSE RawAppend(result, e.key, item)
    IN  FoldLeft(add, EmptyContainer, c.body)
-----------------------------------------------------------------------------
(* What a document says, and where it says it                              *)

RECURSIVE Unwrap(_), MergeValues(_, _)

IsObject(value) == "object" \in DOMAIN value
IsArray(value) == "array" \in DOMAIN value
FieldAt(fields, name) == SelectInSeq(fields, LAMBDA f : f.name = name)

\* Mutant: an array that is continued keeps its first part.
MergeObjects(target, incoming) ==
    LET merge(fields, f) ==
            LET i == FieldAt(fields, f.name)
            IN  IF i = 0 THEN Append(fields, f) ELSE [fields EXCEPT ![i].value = MergeValues(@, f.value)]
    IN  IF IsObject(target) /\ IsObject(incoming)
        THEN [object |-> FoldLeft(merge, target.object, incoming.object)] ELSE target
MergeValues(target, incoming) ==
    LET merge(fields, f) ==
            LET i == FieldAt(fields, f.name)
            IN  IF i = 0 THEN Append(fields, f) ELSE [fields EXCEPT ![i].value = MergeValues(@, f.value)]
    IN  CASE IsObject(target) /\ IsObject(incoming) -> [object |-> FoldLeft(merge, target.object, incoming.object)]
          [] IsArray(target) /\ IsArray(incoming) -> [array |-> target.array \o incoming.array]
          [] OTHER -> target

\* unwrap_body
UnwrapBody(body) ==
    MergeValues([object |-> <<>>],
                [object |-> [i \in DOMAIN SelectSeq(body, LAMBDA e : e.key # None) |->
                    LET e == SelectSeq(body, LAMBDA b : b.key # None)[i]
                    IN  [name |-> Name(e.key), value |-> Unwrap(e.item)]] \o <<>>])

\* unwrap_value
Unwrap(item) ==
    CASE item.is = "table" -> UnwrapBody(item.body.body)
      [] item.is = "tables" -> [array |-> [m \in DOMAIN item.members |->
                                               UnwrapBody(item.members[m].body.body)] \o <<>>]
      [] OTHER -> item.value

NativeRoot(c) == UnwrapBody(c.body)

\* A path is a sequence of [name |-> ...] and [index |-> ...], from zero.
ByIndex(part) == "index" \in DOMAIN part

\* native_at
Native(c, path) ==
    LET step(value, part) ==
            CASE value = Refused -> Refused
              [] ByIndex(part) ->
                    IF IsArray(value) /\ part.index < Len(value.array) THEN value.array[part.index + 1] ELSE Refused
              [] OTHER ->
                    IF IsObject(value) /\ FieldAt(value.object, part.name) # 0
                    THEN value.object[FieldAt(value.object, part.name)].value ELSE Refused
    IN  FoldLeft(step, NativeRoot(c), path)

\* Located: one item, one table, the parts of one table, the tables of an array.
Located(is, parts) == [is |-> is, parts |-> parts]

\* resolve_entries, and the end of search_key.
Resolved(items) ==
    LET of(kind) == SelectSeq(items, LAMBDA it : it.is = kind)
        plain    == SelectSeq(items, LAMBDA it : ~IsTable(it))
        arrays   == FlattenSeq([i \in DOMAIN of("tables") |-> of("tables")[i].members] \o <<>>)
    IN  CASE arrays # <<>> -> Located("aot", arrays)
          [] of("table") # <<>> -> Located(IF Len(of("table")) = 1 /\ plain = <<>> THEN "table" ELSE "tables", of("table"))
          [] plain # <<>> -> Located("item", <<plain[1]>>)
          [] OTHER -> Refused

SearchKey(bodies, name) ==
    LET named == SelectSeq(FlattenSeq(bodies), LAMBDA e : Named(e, name))
    IN  Resolved([i \in DOMAIN named |-> named[i].item] \o <<>>)

\* search_key and search_index
Search(current, part) ==
    LET item   == current.parts[1]
        tables == [t \in DOMAIN current.parts |-> current.parts[t].body.body] \o <<>>
        within(list) == part.index + 1 \in DOMAIN list
    IN  CASE current = Refused -> Refused
          [] ByIndex(part) /\ current.is = "aot" ->
                IF within(current.parts) THEN Located("table", <<current.parts[part.index + 1]>>) ELSE Refused
          [] ByIndex(part) /\ current.is = "item" ->
                IF item.is = "array" /\ within(item.members)
                THEN Located("item", <<item.members[part.index + 1].item>>) ELSE Refused
          [] ByIndex(part) -> Refused
          [] current.is \in {"table", "tables"} -> SearchKey(tables, part.name)
          [] current.is = "item" /\ item.is = "inline" -> SearchKey(<<item.entries>>, part.name)
          [] OTHER -> Refused

Locate(c, path) ==
    IF path = <<>> \/ ByIndex(path[1]) THEN Refused
    ELSE FoldLeft(Search, SearchKey(<<c.body>>, path[1].name), Tail(path))
-----------------------------------------------------------------------------
(* What the operations do. *)

CONSTANTS
    Spelling,       \* the key token that a new key of a name has
    ValueName,      \* the name of the key that a fragment has
    Nonfinite       \* the scalars that are no finite number

Kinds(located) == IF located = Refused THEN {} ELSE {located.is}
InlineAt(located) == "item" \in Kinds(located) /\ located.parts[1].is = "inline"
ArrayAt(located) == "item" \in Kinds(located) /\ located.parts[1].is = "array"
Front1(path) == SubSeq(path, 1, Len(path) - 1)
Place(name) == [name |-> name]
Nth(n) == [index |-> n]

SingleKey(name) ==
    PartKey([name |-> name, raw |-> <<Spelling[name]>>, quoted |-> Spelling[name] \in QuotedNames,
             spaced |-> FALSE], FALSE)

\* The entries of a container that are called name.
PlacesOf(c, name) ==
    SetToSortSeq({i \in DOMAIN c.body : Named(c.body[i], name)}, LAMBDA i, j : i < j)
HasName(c, name) == PlacesOf(c, name) # <<>>
FirstOf(c, name) == PlacesOf(c, name)[1]
WithoutEntry(c, i) == [c EXCEPT !.body = RemoveAt(@, i)]
WithoutEntries(c, at) ==
    [c EXCEPT !.body = FoldLeft(LAMBDA body, i : RemoveAt(body, i), @, SetToSortSeq(at, LAMBDA i, j : i > j))]
-----------------------------------------------------------------------------
(* Generated values                                                        *)

TableValue(value) ==
    \/ IsObject(value)
    \/ IsArray(value) /\ value.array # <<>> /\ \A v \in ToSet(value.array) : IsObject(v)

JoinList(texts) ==
    FoldLeft(LAMBDA text, t : IF text = <<>> THEN t ELSE text \o <<",", "sp">> \o t, <<>>, texts)

RECURSIVE InlineText(_), Representable(_), Finite(_), GeneratedItem(_), GeneratedTable(_)

\* TOML has no null.
Representable(value) ==
    CASE IsObject(value) -> \A f \in ToSet(value.object) : Representable(f.value)
      [] IsArray(value)  -> \A v \in ToSet(value.array) : Representable(v)
      [] OTHER -> value.scalar \in Scalars

\* render_inline_value: the fields that are tables come last.
InlineText(value) ==
    LET fields == IF IsObject(value)
                  THEN SelectSeq(value.object, LAMBDA f : ~TableValue(f.value))
                           \o SelectSeq(value.object, LAMBDA f : TableValue(f.value))
                  ELSE <<>>
        field(f) == <<Spelling[f.name]>> \o Assign \o InlineText(f.value)
    IN  CASE IsObject(value) -> <<"{">> \o JoinList([i \in DOMAIN fields |-> field(fields[i])]) \o <<"}">>
          [] IsArray(value) ->
                <<"[">> \o JoinList([i \in DOMAIN value.array |-> InlineText(value.array[i])]) \o <<"]">>
          [] OTHER -> <<value.scalar>>

\* validate_selected_floats
Finite(value) ==
    CASE IsObject(value) -> \A f \in ToSet(value.object) : Finite(f.value)
      [] IsArray(value)  -> \A v \in ToSet(value.array) : Finite(v)
      [] OTHER -> value.scalar \notin Nonfinite

GeneratedItem(value) ==
    CASE IsObject(value) -> GeneratedTable(value)
      [] IsArray(value) /\ TableValue(value) ->
            Tables([i \in DOMAIN value.array |-> GeneratedTable(value.array[i])] \o <<>>)
      [] OTHER -> [is |-> "value", raw |-> InlineText(value), value |-> value, trivia |-> PlainTrivia]

\* separate_before_table: a blank line.
Separated(item) ==
    IF ~HasAnyTrivia(item) \/ IsSuffix(<<"lf", "lf">>, item.trivia.trail) THEN item
    ELSE [item EXCEPT !.trivia.trail = Append(@, "lf")]

GeneratedTable(value) ==
    LET add(c, f) == AppendEntry(c, SingleKey(f.name), GeneratedItem(f.value), FALSE)
        c     == FoldLeft(add, EmptyContainer, value.object)
        first == SelectInSeq(c.body, LAMBDA e : IsTable(e.item))
        blank == /\ first > 1 /\ c.body[first].item.is = "table"
                 /\ ~Contains(c.body[first].item.trivia.indent, "lf")
    IN  TableOf(IF blank THEN WithItem(c, first - 1, Separated(c.body[first - 1].item)) ELSE c,
                PlainTrivia, FALSE, FALSE, None)

\* generated_fragment, with the line breaks of the document.
GeneratedFragment(value, newline) ==
    LET text == Render(AppendEntry(EmptyContainer, SingleKey(ValueName), GeneratedItem(value), FALSE))
    IN  FlattenSeq([i \in DOMAIN text |-> IF text[i] = "lf" THEN newline ELSE <<text[i]>>])

RECURSIVE Invalidated(_), Stripped(_), WithGap(_, _)

\* invalidate: headers are to be spelt anew.
Invalidated(item) ==
    LET inside(c) == [c EXCEPT !.body = [i \in DOMAIN c.body |->
                          [c.body[i] EXCEPT !.item = Invalidated(@)]] \o <<>>]
    IN  CASE item.is = "table" -> [item EXCEPT !.display = None, !.body = inside(@)]
          [] item.is = "tables" -> Tables([m \in DOMAIN item.members |-> Invalidated(item.members[m])] \o <<>>)
          [] OTHER -> item

\* strip_gap: without the comments and blanks at its end, and their text.
Stripped(item) ==
    LET body  == IF item.is = "table" THEN item.body.body ELSE <<>>
        keep  == SelectLastInSeq(body, LAMBDA e : e.item.is \notin {"note", "space", "null"})
        within == Stripped(Last(body).item)
        member == Stripped(Last(item.members))
    IN  CASE item.is = "table" /\ body # <<>> /\ IsTable(Last(body).item) ->
                [item |-> [item EXCEPT !.body = WithItem(@, Len(body), within.item)], gap |-> within.gap]
          [] item.is = "table" ->
                [item |-> [item EXCEPT !.body.body = SubSeq(body, 1, keep)],
                 gap  |-> FlattenSeq([i \in 1..(Len(body) - keep) |-> ItemText(body[keep + i].item)])]
          [] item.is = "tables" /\ item.members # <<>> ->
                [item |-> [item EXCEPT !.members[Len(item.members)] = member.item], gap |-> member.gap]
          [] OTHER -> [item |-> item, gap |-> <<>>]

\* append_gap
WithGap(item, gap) ==
    LET body == item.body.body
    IN  CASE gap = <<>> \/ item.is \notin {"table", "tables"} -> item
          [] item.is = "tables" ->
                IF item.members = <<>> THEN item
                ELSE [item EXCEPT !.members[Len(item.members)] = WithGap(@, gap)]
          [] body # <<>> /\ IsTable(Last(body).item) ->
                [item EXCEPT !.body = WithItem(@, Len(body), WithGap(Last(body).item, gap))]
          [] OTHER -> [item EXCEPT !.body = RawAppend(@, None, Space(gap))]

\* inline_item: a table as a value on one line.
Inlined(item) ==
    LET value == Unwrap(item)
    IN  IF item.is # "table" THEN item
        ELSE [is |-> "inline", raw |-> InlineText(value), value |-> value, trivia |-> PlainTrivia,
              entries |-> SelectSeq(item.body.body, LAMBDA e : e.key # None)]

\* The items of a fragment, each under the key of a fragment.
Fragment(items) == FoldLeft(LAMBDA c, item : RawAppend(c, SingleKey(ValueName), item), EmptyContainer, items)

\* generated: the item for a value, or for the baseline that is restored.
Generated(document, value, syntax, element) ==
    LET root  == IF syntax # None THEN ParseDocument(syntax)
                 ELSE IF ~Representable(value) THEN Refused
                 ELSE ParseDocument(GeneratedFragment(value, document.newline))
        found == PlacesOf(root, ValueName)
        parts == [i \in DOMAIN found |-> root.body[found[i]].item] \o <<>>
        one   == IF element /\ parts[1].is = "tables" /\ Len(parts[1].members) = 1
                 THEN parts[1].members[1] ELSE parts[1]
        many  == syntax # None /\ Len(parts) > 1
    IN  CASE root = Refused -> Refused
          [] found = <<>>   -> Refused
          [] OTHER -> [fragmented |-> many,
                       node |-> Invalidated(IF many THEN TableOf(Fragment(parts), PlainTrivia, FALSE, FALSE, None)
                                            ELSE one)]
-----------------------------------------------------------------------------
(* What is read of a selected unit                                         *)

RECURSIVE Events(_, _), Headers(_, _), NamedWithin(_, _)

\* collect_events: the paths of a document in the order they are written.
Events(item, path) ==
    LET entries == SelectSeq(item.body.body, LAMBDA e : e.key # None)
        of(e)   == Events(e.item, Append(path, Place(Name(e.key))))
    IN  CASE item.is = "table" ->
                (IF item.implicit THEN <<>> ELSE <<path>>)
                    \o FlattenSeq([i \in DOMAIN entries |-> of(entries[i])])
          [] item.is = "tables" ->
                FlattenSeq([m \in DOMAIN item.members |-> Events(item.members[m], Append(path, Nth(m - 1)))])
          [] OTHER -> <<path>>

\* contiguous: nothing else is written between the parts of a unit.
Contiguous(root, path) ==
    LET events   == Events(TableOf(root, PlainTrivia, FALSE, TRUE, None), <<>>)
        selected == {i \in DOMAIN events : IsPrefix(path, events[i])}
    IN  selected # {} => Cardinality(selected) = Max(selected) - Min(selected) + 1

\* The parts of a table, without their headers' trivia and the last one's gap;
\* the headers within them are spelt as they are, or as they would be generated.
Fragments(document, tables, spelt) ==
    LET plain(t) == IF spelt THEN [t EXCEPT !.display = None] ELSE Invalidated(t)
        bare(t) == plain([(IF t = Len(tables) THEN Stripped(tables[t]).item ELSE tables[t])
                             EXCEPT !.trivia = Trivia(<<>>, <<>>, <<>>, document.newline)])
    IN  Render(Fragment([t \in DOMAIN tables |-> bare(t)] \o <<>>))

\* copy_located, of what is in one piece.
Copied(located) == IF located.is = "aot" THEN Tables(located.parts) ELSE located.parts[1]

\* syntax: the fragment from which a unit can be restored.
Syntax(document, path) ==
    LET located == Locate(document.root, path)
        node    == Stripped(Copied(located)).item
        values  == IF located.is = "tables"
                   THEN UnwrapBody(Fragment(located.parts).body) ELSE Unwrap(Copied(located))
        bare    == Trivia(<<>>, <<>>, <<>>, document.newline)
    IN  CASE located = Refused -> Refused
          [] ~Finite(values) -> Refused
          [] located.is = "tables" ->
                IF Contiguous(document.root, path) THEN Fragments(document, located.parts, FALSE) ELSE Refused
          [] located.is = "aot" -> Render(Fragment(<<Invalidated(node)>>))
          [] OTHER -> Render(Fragment(<<Invalidated([node EXCEPT !.trivia = bare])>>))

\* owned_syntax: the text that counts when a unit is compared.
OwnedSyntax(document, path) ==
    LET located == Locate(document.root, path)
        node    == Stripped(Copied(located)).item
    IN  CASE located = Refused -> Refused
          [] located.is = "tables" ->
                IF Contiguous(document.root, path)
                THEN Fragments(document, located.parts, TRUE) ELSE Refused
          [] located.is = "item"  -> node.raw
          [] located.is = "table" -> Render(node.body)
          [] OTHER -> Render(Fragment(<<node>>))

\* collect_headers and walk_layout: the spelling of the headers inside a unit.
NamedWithin(table, path) ==
    LET entries == SelectSeq(table.body.body, LAMBDA e : e.key # None /\ IsTable(e.item))
    IN  (IF path # <<>> /\ ~table.implicit /\ table.display # None
         THEN <<[path |-> path, header |-> table.display]>> ELSE <<>>)
            \o FlattenSeq([i \in DOMAIN entries |->
                   Headers(IF entries[i].item.is = "table" THEN Located("table", <<entries[i].item>>)
                           ELSE Located("aot", entries[i].item.members),
                           Append(path, Place(Name(entries[i].key))))])
Headers(located, path) ==
    FlattenSeq([i \in DOMAIN located.parts |->
        CASE located.is = "item" -> <<>>
          [] located.is = "aot"  -> NamedWithin(located.parts[i], Append(path, Nth(i - 1)))
          [] OTHER -> NamedWithin(located.parts[i], path)])
Layout(document, path) ==
    LET located == Locate(document.root, path)
    IN  IF located = Refused THEN Refused ELSE Headers(located, <<>>)

\* position_prefix: what stands before a member of an inline array.
PositionPrefix(document, path) ==
    LET located == Locate(document.root, Front1(path))
        array   == located.parts[1]
        n       == Last(path).index
        start   == CASE n = 0 -> 1
                     [] n <= Len(array.commas) -> array.commas[n] + 1
                     [] OTHER -> 1
    IN  CASE ~ByIndex(Last(path)) -> <<>>
          [] ~ArrayAt(located) -> <<>>
          [] n >= Len(array.members) -> Refused
          [] OTHER -> SubSeq(array.raw, start + 1, array.members[n + 1].from)

\* empty_syntax: the text of a container that may be removed when it is empty.
EmptySyntax(document, path) ==
    LET located == Locate(document.root, path)
        first   == located.parts[1]
    IN  CASE located = Refused -> Refused
          [] located.is = "tables" -> Refused
          [] located.is = "item"  -> first.raw
          [] located.is = "table" -> Render(first.body) \o first.trivia.gap \o first.trivia.note
          [] OTHER -> FlattenSeq([i \in DOMAIN located.parts |-> Render(located.parts[i].body)])
-----------------------------------------------------------------------------
(* Where a unit stands                                                     *)

RECURSIVE Traces(_, _, _), ContainerAt(_, _), WithContainer(_, _, _), Owner(_, _)

\* trace_container and trace_item: the ways to a container that has the name.
\* A step is the place of an entry, and then of a table in an array of tables.
Traces(c, walk, name) ==
    LET inside(i) ==
            LET item == c.body[i].item
                rest == Tail(walk)
                member == rest[1].index + 1
            IN  CASE item.is = "table" -> {<<i>> \o t : t \in Traces(item.body, rest, name)}
                  [] item.is # "tables" \/ rest = <<>> -> {}
                  [] ~ByIndex(rest[1]) -> {}
                  [] member \in DOMAIN item.members ->
                        {<<i, member>> \o t : t \in Traces(item.members[member].body, Tail(rest), name)}
                  [] OTHER -> {}
    IN  CASE walk = <<>> -> IF HasName(c, name) THEN {<<>>} ELSE {}
          [] ByIndex(walk[1]) -> {}
          [] OTHER -> UNION {inside(i) : i \in ToSet(PlacesOf(c, walk[1].name))}

\* physical_parent_mut: the one container that holds the last key of a path.
Owner(root, path) ==
    LET traces == Traces(root, Front1(path), Last(path).name)
    IN  CASE path = <<>> -> <<>>
          [] ByIndex(Last(path)) -> Owner(root, Front1(path))
          [] Cardinality(traces) # 1 -> Refused
          [] OTHER -> CHOOSE t \in traces : TRUE

\* body_container_mut: the container that a path names, which no array is in.
Body(root, path) ==
    LET step(trace, part) ==
            LET c == ContainerAt(root, trace)
            IN  IF trace = Refused \/ ByIndex(part) THEN Refused
                ELSE IF Len(PlacesOf(c, part.name)) # 1 THEN Refused
                ELSE IF c.body[FirstOf(c, part.name)].item.is # "table" THEN Refused
                ELSE Append(trace, FirstOf(c, part.name))
    IN  FoldLeft(step, <<>>, path)

\* replay_trace, to read and to write.
ContainerAt(c, trace) ==
    LET item == c.body[trace[1]].item
    IN  CASE trace = <<>> -> c
          [] item.is = "table" -> ContainerAt(item.body, Tail(trace))
          [] OTHER -> ContainerAt(item.members[trace[2]].body, Tail(Tail(trace)))

WithContainer(c, trace, new) ==
    LET item == c.body[trace[1]].item
    IN  CASE trace = <<>> -> new
          [] item.is = "table" ->
                WithItem(c, trace[1], [item EXCEPT !.body = WithContainer(@, Tail(trace), new)])
          [] OTHER -> WithItem(c, trace[1], [item EXCEPT !.members[trace[2]].body =
                                                 WithContainer(@, Tail(Tail(trace)), new)])

\* is_dotted_target
DottedTarget(root, path) ==
    LET parent == Locate(root, Front1(path))
        bodies == CASE Len(path) = 1 -> {root}
                    [] Kinds(parent) \cap {"table", "tables"} # {} ->
                          {t.body : t \in ToSet(parent.parts)}
                    [] OTHER -> {}
    IN  /\ path # <<>>
        /\ ~ByIndex(Last(path))
        /\ \E c \in bodies : \E i \in ToSet(PlacesOf(c, Last(path).name)) : Dotted(c.body[i])

\* The array of tables at a path: its container and its place there.
ArrayEntry(root, path) ==
    LET trace == Owner(root, path)
        c     == ContainerAt(root, trace)
        found == SelectSeq(PlacesOf(c, Last(path).name), LAMBDA i : c.body[i].item.is = "tables")
    IN  CASE path = <<>> \/ trace = Refused -> Refused
          [] ByIndex(Last(path)) -> Refused
          [] found = <<>> -> Refused
          [] OTHER -> [trace |-> trace, at |-> found[1], members |-> c.body[found[1]].item.members]

WithMembers(root, array, members) ==
    WithContainer(root, array.trace, WithItem(ContainerAt(root, array.trace), array.at, Tables(members)))

\* aot_container_mut
IsArrayOfTables(located) == "aot" \in Kinds(located)
-----------------------------------------------------------------------------
(* How an entry is replaced                                                *)

\* preserve_header: the header that is there stays.
WithHeader(item, current) ==
    LET live   == SelectSeq(current, LAMBDA t : ~t.implicit)
        header(t) == [t EXCEPT !.implicit = FALSE, !.trivia = live[1].trivia, !.display = live[1].display]
        first  == SelectInSeq(item.members, LAMBDA t : ~t.implicit)
    IN  CASE live = <<>> -> item
          [] item.is = "table" -> header(item)
          [] item.is = "tables" /\ item.members # <<>> ->
                [item EXCEPT !.members[Max({first, 1})] = header(@)]
          [] OTHER -> item

IndentOf(item) == IF item.is = "tables" /\ item.members # <<>> THEN item.members[1].trivia.indent ELSE None
\* set_first_indent
WithIndent(item, indent) ==
    IF indent = None \/ item.is # "tables" THEN item
    ELSE IF item.members = <<>> THEN item ELSE [item EXCEPT !.members[1].trivia.indent = indent]

\* The blanks that stand after the first n entries of a table are dropped.
WithoutBlanks(item, n) ==
    LET body == item.body.body
        keep == SelectLastInSeq(body, LAMBDA e : e.item.is # "space")
    IN  IF item.is # "table" THEN item ELSE [item EXCEPT !.body.body = SubSeq(body, 1, Min({Len(body), Max({n, keep})}))]

EntriesIn(item) == IF item.is = "table" THEN Len(item.body.body) ELSE 0

\* The trivia that an item takes over from the one whose place it takes.
WithTrivia(item, old) ==
    IF ~HasTrivia(item) \/ ~HasTrivia(old) THEN item
    ELSE [item EXCEPT !.trivia =
             Trivia(old.trivia.indent, IF @.gap = <<>> THEN old.trivia.gap ELSE @.gap,
                    IF @.note = <<>> THEN old.trivia.note ELSE @.note, old.trivia.trail)]

\* replace_entry_at.  A table that takes the place of a value goes before the
\* next header; a value that takes the place of a table before the first.
ReplaceEntry(c, i, node, newKey) ==
    LET old    == c.body[i]
        turned == IsTable(node) # IsTable(old.item)
        header == Dotted(old) /\ IsTable(node) /\ (node.is = "table" => ~node.implicit)
        later  == SubSeq(c.body, i + 1, Len(c.body))
        moved  == header /\ \E e \in ToSet(later) :
                      e.item.is \notin {"null", "space"} /\ (~IsTable(e.item) \/ Dotted(e))
        key    == CASE newKey # None -> newKey
                    [] turned \/ header -> SingleKey(Name(old.key))
                    [] OTHER -> old.key
        gone   == [c EXCEPT !.body[i] = [key |-> None, item |-> NullItem]]
        target == IF ~IsTable(node) THEN 0
                  ELSE SelectInSubSeq(gone.body, i, Len(gone.body), LAMBDA e : IsTable(e.item) /\ ~Dotted(e))
        put    == CASE ~(turned \/ moved) -> [c EXCEPT !.body[i] = [key |-> key, item |-> WithTrivia(node, old.item)]]
                    [] target # 0 -> InsertEntry(gone, target, key, node)
                    [] OTHER -> AppendEntry(gone, key, node, FALSE)
        at     == CASE ~(turned \/ moved) -> i
                    [] target # 0 -> target
                    [] OTHER -> Len(put.body)
        item   == put.body[at].item
        blank(e) == e.item.is = "space"
        before == at < LastSolid(put.body)
        hadBlank == old.item.is = "table" /\ old.item.body.body # <<>> /\ blank(Last(old.item.body.body))
        apart  == before /\ blank(put.body[at + 1])
        spaced == IF (before \/ hadBlank) /\ ~apart /\ ~SpaceAtEnd(item)
                  THEN [item EXCEPT !.body = RawAppend(@, None, Space(<<"lf">>))] ELSE item
    IN  CASE put = Refused -> Refused
          [] item.is # "table" -> put
          [] OTHER -> WithItem(put, at, WithoutBlanks(spaced, EntriesIn(node)))

\* assign_in
AssignIn(c, name, node) ==
    LET put  == AppendEntry(c, SingleKey(name), node, FALSE)
        last == Last(put.body).item
        kept == IF last.is = "table" /\ node.is = "table"
                THEN [last EXCEPT !.trivia.indent = node.trivia.indent] ELSE last
    IN  CASE HasName(c, name) -> ReplaceEntry(c, FirstOf(c, name), node, None)
          [] put = Refused -> Refused
          [] OTHER -> WithItem(put, Len(put.body),
                               WithIndent(WithoutBlanks(kept, EntriesIn(node)), IndentOf(node)))

\* assign_proxy: a new key of a table in several parts goes to the first part
\* that has values, or a header; a table goes to the first part.  (assign has
\* looked the name up: no part holds it.)
AssignProxy(root, path, name, node) ==
    LET trace == Owner(root, path)
        c     == ContainerAt(root, trace)
        parts == PlacesOf(c, Last(path).name)
        table(i) == c.body[i].item.is = "table"
        plain == SelectSeq(parts, LAMBDA i : table(i) /\ \E e \in ToSet(c.body[i].item.body.body) :
                                                 e.key # None /\ ~IsTable(e.item))
        concrete == SelectSeq(parts, LAMBDA i : table(i) /\ ~c.body[i].item.implicit)
        at    == Head((IF IsTable(node) THEN <<>> ELSE plain \o concrete) \o parts)
        put   == AppendEntry(c.body[at].item.body, SingleKey(name), node, FALSE)
    IN  CASE ByIndex(Last(path)) \/ trace = Refused -> Refused
          [] parts = <<>> -> Refused
          [] ~table(at) \/ put = Refused -> Refused
          [] OTHER -> WithContainer(root, trace, [c EXCEPT !.body[at].item.body =
                          WithItem(put, Len(put.body), WithIndent(Last(put.body).item, IndentOf(node)))])
-----------------------------------------------------------------------------
(* Edits of the text of a value on one line.  Places in it count from zero. *)

Patch(from, to, with) == [from |-> from, to |-> to, with |-> with]
Patched(text, p) == SubSeq(text, 1, p.from) \o p.with \o SubSeq(text, p.to + 1, Len(text))
\* The later of two patches is applied first.
PatchedBoth(text, p, q) ==
    IF q.from > p.from \/ (q.from = p.from /\ q.to > p.to) THEN Patched(Patched(text, q), p)
    ELSE Patched(Patched(text, p), q)

\* prefixed: after the trivia that stood before a member.
AfterPrefix(text, from, to, prefix) ==
    LET trivia == IF prefix = None THEN <<>> ELSE prefix
    IN  IF from <= to /\ IsPrefix(trivia, SubSeq(text, from + 1, to)) THEN from + Len(trivia) ELSE Refused

Comma(array, n) == IF n \in DOMAIN array.commas THEN array.commas[n] ELSE 0

\* array_edit: the text of an array with a member removed (raw is None),
\* replaced, or inserted at index n.
ArrayText(array, n, raw, replace, prefix) ==
    LET text    == array.raw
        members == array.members
        commas  == array.commas
        member  == members[n + 1]
        inside  == n < Len(members)
        start   == AfterPrefix(text, IF n = 0 THEN 1 ELSE Comma(array, n) + 1, member.from, prefix)
        bound   == CASE commas # <<>> /\ Len(commas) = Len(members) -> Last(commas) + 1
                     [] members # <<>> -> Last(members).to
                     [] OTHER -> 1
        end     == IF prefix = None THEN Len(text) - 1 ELSE AfterPrefix(text, bound, Len(text) - 1, prefix)
        comma   == Comma(array, Min({n + 1, Len(commas)}))
    IN  CASE (raw = None \/ replace) /\ ~inside -> Refused
          [] raw = None /\ commas = <<>> -> Patched(text, Patch(member.from, member.to, <<>>))
          [] raw = None -> PatchedBoth(text, Patch(member.from, member.to, <<>>), Patch(comma, comma + 1, <<>>))
          [] replace -> Patched(text, Patch(member.from, member.to, raw))
          [] inside -> IF start = Refused THEN Refused ELSE Patched(text, Patch(start, start, raw \o <<",">>))
          [] end = Refused -> Refused
          [] members # <<>> /\ Len(commas) < Len(members) ->
                PatchedBoth(text, Patch(end, end, raw), Patch(Last(members).to, Last(members).to, <<",">>))
          [] OTHER -> Patched(text, Patch(end, end, IF commas # <<>> THEN raw \o <<",">> ELSE raw))

\* The fields of an inline table as inline_field_edit scans them.
RECURSIVE FieldsFrom(_, _, _)
FieldsFrom(raw, i, fields) ==
    LET from  == After(raw, i, Blank)
        pair  == PairAt(raw, from, FALSE, 0)
        key   == pair.entry.key
        next  == After(raw, pair.at, Blank)
        field == [name |-> Name(key), from |-> from - 1, to |-> pair.at - 1,
                  value |-> from - 1 + Len(KeyText(key)) + Len(key.sep),
                  comma |-> IF At(raw, next) = "," THEN next - 1 ELSE None]
    IN  CASE At(raw, from) = "}" -> fields
          [] pair = Refused -> Refused
          [] field.comma = None -> Append(fields, field)
          [] OTHER -> FieldsFrom(raw, next + 1, Append(fields, field))

\* inline_field_edit: the text with a field set, or removed (value is None).
FieldText(raw, name, value) ==
    LET fields == FieldsFrom(raw, 2, <<>>)
        n      == FieldAt(fields, name)
        field  == fields[n]
        commas == SelectSeq([i \in DOMAIN fields |-> fields[i].comma] \o <<>>, LAMBDA c : c # None)
        comma  == commas[Min({n, Len(commas)})]
        end    == Len(raw) - 1
        new    == Patch(end, end, <<Spelling[name]>> \o Assign \o value)
    IN  CASE fields = Refused -> Refused
          [] n # 0 /\ value # None -> Patched(raw, Patch(field.value, field.to, value))
          [] n # 0 /\ commas = <<>> -> Patched(raw, Patch(field.from, field.to, <<>>))
          [] n # 0 -> PatchedBoth(raw, Patch(field.from, field.to, <<>>), Patch(comma, comma + 1, <<>>))
          [] value = None -> Refused
          [] fields = <<>> -> Patched(raw, new)
          [] OTHER -> PatchedBoth(raw, new, Patch(Last(fields).to, Last(fields).to, <<",">>))

\* Item::as_string
NodeText(item) ==
    CASE item.is = "table" -> Render(item.body)
      [] item.is = "tables" -> FlattenSeq([m \in DOMAIN item.members |-> Render(item.members[m].body)])
      [] OTHER -> ItemText(item)
ValueFragment(text) == <<Spelling[ValueName]>> \o Assign \o text
NoValue == [scalar |-> None]
-----------------------------------------------------------------------------
(* How a unit is set                                                       *)

RECURSIVE PutPath(_, _, _, _), PutArray(_, _, _, _, _, _), PutField(_, _, _, _)

\* A document with the tree changed, not yet published.
WithRoot(document, root) == IF root = Refused THEN Refused ELSE [document EXCEPT !.root = root]

PutArray(document, path, n, raw, replace, prefix) ==
    LET located == Locate(document.root, path)
        text    == ArrayText(located.parts[1], n, raw, replace, prefix)
    IN  IF ~ArrayAt(located) THEN Refused
        ELSE IF text = Refused THEN Refused
        ELSE PutPath(document, path, NoValue, ValueFragment(text))

PutField(document, path, name, value) ==
    LET text == FieldText(Locate(document.root, path).parts[1].raw, name, value)
    IN  IF text = Refused THEN Refused ELSE PutPath(document, path, NoValue, ValueFragment(text))

\* put_fragments: a unit in several parts, or one that had several.
PutFragments(document, path, node, fragmented, current) ==
    LET selected == [i \in DOMAIN SelectSeq(path, LAMBDA p : ~ByIndex(p)) |->
                        SelectSeq(path, LAMBDA p : ~ByIndex(p))[i].name] \o <<>>
        spells(t) == LET key == KeyAt(t.display, 1)
                     IN  key # Refused /\ Names(key.key) = selected
        live   == SelectSeq(current.parts, LAMBDA t : ~t.implicit /\ t.display # None /\ spells(t))
        gap    == Stripped(Last(current.parts)).gap
        tables == [i \in DOMAIN SelectSeq(node.body.body, LAMBDA e : e.item.is = "table") |->
                      SelectSeq(node.body.body, LAMBDA e : e.item.is = "table")[i].item] \o <<>>
        header == LET i == SelectLastInSeq(tables, LAMBDA t : ~t.implicit)
                  IN  IF i = 0 THEN Len(tables) ELSE i
        headed == IF live = <<>> \/ tables = <<>> THEN tables
                  ELSE [tables EXCEPT ![header] = [@ EXCEPT !.implicit = FALSE, !.trivia = live[1].trivia,
                                                            !.display = live[1].display]]
        parts  == CASE ~fragmented -> <<WithGap(WithHeader(node, live), gap)>>
                    [] headed = <<>> -> <<>>
                    [] OTHER -> [headed EXCEPT ![Len(headed)].body = RawAppend(@, None, Space(gap))]
        trace  == Owner(document.root, path)
        c      == ContainerAt(document.root, trace)
        places == PlacesOf(c, Last(path).name)
        entry(t) == [key |-> c.body[places[1]].key, item |-> t]
    IN  CASE Kinds(current) \cap {"table", "tables"} = {} -> Refused
          [] node.is # "table" \/ ByIndex(Last(path)) -> Refused
          [] ~Contiguous(document.root, path) \/ trace = Refused -> Refused
          [] OTHER -> WithRoot(document, WithContainer(document.root, trace,
                          [c EXCEPT !.body = SubSeq(@, 1, places[1] - 1)
                                                 \o [i \in DOMAIN parts |-> entry(parts[i])]
                                                 \o SubSeq(@, Last(places) + 1, Len(@))]))

\* The tables inside a generated table become values, when it is written with
\* dotted keys.
RECURSIVE WithInlineTables(_, _)
WithInlineTables(c, keys) ==
    LET i == SelectInSeq(c.body, LAMBDA e : e.key = keys[1] /\ e.item.is = "table")
    IN  CASE keys = <<>> -> c
          [] i = 0 -> WithInlineTables(c, Tail(keys))
          [] OTHER -> WithInlineTables(ReplaceEntry(c, i, Inlined(c.body[i].item), keys[1]), Tail(keys))

DottedTable(document, table, generated) ==
    LET entries == SelectSeq(table.body.body, LAMBDA e : e.item.is = "table" /\ e.key # None)
        inlined == WithInlineTables(table.body, [i \in DOMAIN entries |-> entries[i].key] \o <<>>)
        doubled == document.newline \o document.newline
        single(item) ==
            IF HasAnyTrivia(item) /\ IsSuffix(doubled, item.trivia.trail)
            THEN [item EXCEPT !.trivia.trail = SubSeq(@, 1, Len(@) - Len(document.newline))] ELSE item
        body    == [i \in DOMAIN inlined.body |-> [inlined.body[i] EXCEPT !.item = single(@)]] \o <<>>
    IN  IF generated
        THEN Stripped([table EXCEPT !.implicit = TRUE, !.body = [inlined EXCEPT !.body = body]]).item
        ELSE [table EXCEPT !.implicit = TRUE]

\* The node for a unit that is there, with what of it is foreign.
Fitted(document, path, node, current, generated) ==
    LET item  == Copied(current)
        gap   == Stripped(item).gap
        shape == CASE ~IsTable(item) -> Inlined(node)
                   [] node.is = "table" /\ DottedTarget(document.root, path) ->
                         DottedTable(document, node, generated)
                   [] OTHER -> node
        hidden == IF shape.is = "table" /\ item.is = "table" /\ item.implicit
                  THEN [shape EXCEPT !.implicit = TRUE, !.display = None] ELSE shape
        headed == IF hidden.is = "table" /\ item.is = "table" THEN WithHeader(hidden, <<item>>) ELSE hidden
        whole  == WithGap(headed, gap)
    IN  IF HasTrivia(whole) THEN [whole EXCEPT !.trivia.indent = IF HasTrivia(item) THEN item.trivia.indent ELSE <<>>]
        ELSE whole

\* assign
AssignAt(document, path, node) ==
    LET root   == document.root
        above  == Front1(path)
        name   == Last(path).name
        parent == Locate(root, above)
        exists == Locate(root, path) # Refused
        trace  == CASE above = <<>> -> <<>>
                    [] exists -> Owner(root, path)
                    [] OTHER -> Body(root, above)
        c      == ContainerAt(root, trace)
        new    == AssignIn(c, name, node)
    IN  CASE above # <<>> /\ InlineAt(parent) ->
                IF IsTable(node) THEN Refused ELSE PutField(document, above, name, node.raw)
          [] above # <<>> /\ Kinds(parent) \cap {"table", "tables"} = {} -> Refused
          [] "tables" \in Kinds(parent) /\ above # <<>> /\ ~exists ->
                WithRoot(document, AssignProxy(root, above, name, node))
          [] trace = Refused -> Refused
          [] new = Refused -> Refused
          [] OTHER -> WithRoot(document, WithContainer(root, trace, new))

\* Before a key is added, the last line ends.
Repaired(document) ==
    LET text == document.text \o document.newline
        root == ParseDocument(text)
    IN  CASE document.text = <<>> \/ Last(document.text) \in Breaks -> document
          [] root = Refused -> Refused
          [] OTHER -> [document EXCEPT !.text = text, !.root = Coalesce(root)]

\* put_path: value, or what the syntax of a baseline says, is set at path.
PutPath(document, path, value, syntax) ==
    LET last    == Last(path)
        above   == Front1(path)
        made    == Generated(document, value, syntax, ByIndex(last))
        node    == made.node
        parent  == Locate(document.root, above)
        current == Locate(document.root, path)
        item    == Copied(current)
        ready   == IF current = Refused THEN Repaired(document) ELSE document
        array   == ArrayEntry(document.root, above)
        old     == array.members[last.index + 1]
        member  == [WithGap(node, Stripped(old).gap) EXCEPT !.trivia = old.trivia]
    IN  CASE path = <<>> -> Refused
          [] made = Refused -> Refused
          [] "tables" \in Kinds(current) \/ made.fragmented ->
                PutFragments(document, path, node, made.fragmented, current)
          [] ByIndex(last) /\ ArrayAt(parent) ->
                PutArray(document, above, last.index, NodeText(Inlined(node)), TRUE, None)
          [] ByIndex(last) /\ IsArrayOfTables(parent) /\ array # Refused /\ last.index < Len(array.members) ->
                IF node.is # "table" THEN document
                ELSE WithRoot(document, WithMembers(document.root, array, [array.members EXCEPT ![last.index + 1] = member]))
          [] ByIndex(last) -> Refused
          [] above # <<>> /\ ~InlineAt(parent) /\ Kinds(parent) \cap {"table", "tables"} = {} -> Refused
          [] ready = Refused -> Refused
          [] current = Refused ->
                AssignAt(ready, path, IF DottedTarget(ready.root, above) THEN Inlined(node) ELSE node)
          [] IsTable(item) /\ item.is # node.is -> Refused
          [] OTHER -> AssignAt(document, path, Fitted(document, path, node, current, syntax = None))
-----------------------------------------------------------------------------
(* The operations of the backend.  Each publishes: what is written is read *)
(* again, and must say what the tree says.                                 *)

Newline(text) ==
    IF \E i \in DOMAIN text : At(text, i) = "cr" /\ At(text, i + 1) = "lf" THEN <<"cr", "lf">> ELSE <<"lf">>

\* TomlDocument::parse
Open(text) ==
    LET c == ParseDocument(text)
    IN  IF c = Refused THEN Refused
        ELSE [text |-> Render(Coalesce(c)), newline |-> Newline(text), root |-> Coalesce(c)]

\* Mutant: what is written is not compared with what was to be written.
PublishedUnread(document) ==
    LET text == Render(document.root)
        c    == ParseDocument(text)
    IN  IF document = Refused \/ c = Refused THEN Refused
        ELSE [document EXCEPT !.text = text, !.root = Coalesce(c)]
Published(document) ==
    LET text == Render(document.root)
        c    == ParseDocument(text)
    IN  CASE document = Refused -> Refused
          [] c = Refused -> Refused
          [] NativeRoot(Coalesce(c)) # NativeRoot(document.root) -> Refused
          [] OTHER -> [document EXCEPT !.text = text, !.root = Coalesce(c)]

\* restore_layout: the headers inside a unit are spelt as they were.
KeyNames(path) == [i \in DOMAIN SelectSeq(path, LAMBDA p : ~ByIndex(p)) |->
                      SelectSeq(path, LAMBDA p : ~ByIndex(p))[i].name] \o <<>>
Respelt(document, path, header) ==
    LET root    == document.root
        target  == path \o header.path
        last    == Last(target)
        key     == KeyAt(header.header, 1)
        located == Locate(root, target)
        trace   == Owner(root, target)
        c       == ContainerAt(root, trace)
        tables  == SelectSeq(PlacesOf(c, last.name),
                             LAMBDA i : c.body[i].item.is = "table" /\ ~c.body[i].item.implicit)
        at      == Head(tables \o PlacesOf(c, last.name))
        array   == SelectInSeq(c.body, LAMBDA e : e.item.is = "tables" /\ last.index < Len(e.item.members))
    IN  CASE key = Refused -> Refused
          [] Names(key.key) # KeyNames(target) \/ key.at # Len(header.header) + 1 -> Refused
          [] located = Refused \/ trace = Refused -> Refused
          [] ByIndex(last) ->
                IF array = 0 THEN Refused
                ELSE WithRoot(document, WithContainer(root, trace,
                         [c EXCEPT !.body[array].item.members[last.index + 1].display = header.header]))
          [] located.is = "item" -> Refused
          [] c.body[at].item.is # "table" -> Refused
          [] OTHER -> WithRoot(document, WithContainer(root, trace, [c EXCEPT !.body[at].item.display = header.header]))

\* Mutant: the headers inside a unit are left as they are generated.
LayoutIgnored(document, path, layout) == document
RestoreLayout(document, path, layout) ==
    IF document = Refused \/ ~IsInjective([h \in DOMAIN layout |-> layout[h].path]) THEN Refused
    ELSE FoldLeft(LAMBDA d, h : IF d = Refused THEN Refused ELSE Respelt(d, path, h), document, layout)

Put(document, path, value, syntax, layout) ==
    Published(RestoreLayout(PutPath(document, path, value, syntax), path, layout))

Insert(document, path, n, value, syntax, prefix, layout) ==
    LET made    == Generated(document, value, syntax, TRUE)
        located == Locate(document.root, path)
        array   == ArrayEntry(document.root, path)
        at      == Min({n, Len(located.parts)})
        root    == WithMembers(document.root, array, InsertAt(array.members, at + 1, made.node))
    IN  CASE made = Refused -> Refused
          [] made.fragmented -> Refused
          [] ArrayAt(located) ->
                Published(PutArray(document, path, n, NodeText(Inlined(made.node)), FALSE, prefix))
          [] ~IsArrayOfTables(located) \/ made.node.is # "table" \/ array = Refused -> Refused
          [] OTHER -> Published(RestoreLayout(WithRoot(document, root), Append(path, Nth(at)), layout))

\* The comment of a header or of a value, on a line of its own.
\* Mutant: the comment goes with what it stands behind.
NoNoteText(trivia) == <<>>
NoteText(trivia) == IF trivia.note = <<>> THEN <<>> ELSE trivia.indent \o TriviaAfter(trivia)

\* The text in place of what is removed, at the place of an entry.
Detached(c, at, text) == IF text = <<>> THEN c ELSE InsertEntry(c, at, None, Space(text))

RECURSIVE RetainEmpty(_, _)
\* retain_empty_tables
RetainEmpty(c, newline) ==
    LET table(t) ==
            LET inside == [t EXCEPT !.body = RetainEmpty(@, newline)]
            IN  IF t.body.body = <<>> /\ t.implicit
                THEN [inside EXCEPT !.implicit = FALSE, !.trivia = Trivia(<<>>, <<>>, <<>>, newline)] ELSE inside
        item(it) ==
            CASE it.is = "table" -> table(it)
              [] it.is = "tables" ->
                    Tables([m \in DOMAIN it.members |-> [it.members[m] EXCEPT !.body = RetainEmpty(@, newline)]] \o <<>>)
              [] OTHER -> it
    IN  [c EXCEPT !.body = [i \in DOMAIN c.body |-> [c.body[i] EXCEPT !.item = item(@)]] \o <<>>]

\* A table of an array: its comment and gap stay, before the next or after the
\* last table that is left, or in place of the array (remove_empty_aot).
DeleteTable(root, path, n) ==
    LET array   == ArrayEntry(root, path)
        table   == array.members[n + 1]
        trivia  == table.trivia
        comment == (IF trivia.note = <<>> THEN trivia.indent ELSE NoteText(trivia)) \o Stripped(table).gap
        left    == RemoveAt(array.members, n + 1)
        kept    == CASE comment = <<>> -> left
                     [] n < Len(left) -> [left EXCEPT ![n + 1].trivia.indent = comment \o @]
                     [] OTHER -> [left EXCEPT ![Len(left)].body = RawAppend(@, None, Space(comment))]
        c       == ContainerAt(root, array.trace)
        at      == FirstOf(c, Last(path).name)
    IN  CASE array = Refused -> Refused
          [] n >= Len(array.members) -> Refused
          [] left # <<>> -> WithMembers(root, array, kept)
          [] OTHER -> WithContainer(root, array.trace, Detached(WithoutEntry(c, at), at, comment))

\* A unit in several parts, next to each other.
DeleteFragments(document, path, located) ==
    LET root   == document.root
        header == Head(SelectSeq(located.parts, LAMBDA t : ~t.implicit) \o located.parts)
        text   == NoteText(header.trivia) \o Stripped(header).gap
        trace  == Owner(root, path)
        c      == ContainerAt(root, trace)
        places == PlacesOf(c, Last(path).name)
    IN  IF ~Contiguous(root, path) \/ trace = Refused THEN Refused
        ELSE WithContainer(root, trace, Detached(WithoutEntries(c, ToSet(places)), places[1], text))

\* A unit in one piece: its comment and gap stay.
DeleteKey(document, path, located) ==
    LET root   == document.root
        above  == Front1(path)
        name   == Last(path).name
        parent == Locate(root, above)
        item   == located.parts[1]
        text   == NoteText(item.trivia) \o Stripped(item).gap
        split  == "tables" \in Kinds(parent)
        owner  == IF split THEN Owner(root, above) ELSE Body(root, above)
        c      == ContainerAt(root, owner)
        places == PlacesOf(c, Last(above).name)
        without(i) == WithoutEntries(c.body[i].item.body, ToSet(PlacesOf(c.body[i].item.body, name)))
        cleared == FoldLeft(LAMBDA into, i : IF c.body[i].item.is # "table" THEN into
                                             ELSE [into EXCEPT !.body[i].item.body = without(i)], c, places)
        empty  == {i \in ToSet(places) : c.body[i].item.is = "table" /\ without(i).body = <<>>}
        at     == FirstOf(c, name)
        blank  == /\ item.is = "table" /\ item.trivia.note = <<>> /\ at > 1
                  /\ c.body[at - 1].key = None /\ c.body[at - 1].item.is = "space"
        first  == IF blank THEN at - 1 ELSE at
    IN  CASE located.is = "aot" -> Refused
          [] owner = Refused -> Refused
          [] split /\ text # <<>> -> Refused
          [] split -> WithContainer(root, owner, IF Len(places) > 1 THEN WithoutEntries(cleared, empty) ELSE cleared)
          [] ~HasName(c, name) -> Refused
          [] OTHER -> WithContainer(root, owner, Detached(WithoutEntries(c, first..at), first, text))

\* delete
Delete(document, path) ==
    LET root    == document.root
        above   == Front1(path)
        last    == Last(path)
        parent  == Locate(root, above)
        located == Locate(root, path)
        text    == FieldText(parent.parts[1].raw, last.name, None)
        gone    == IF "tables" \in Kinds(located) THEN DeleteFragments(document, path, located)
                   ELSE DeleteKey(document, path, located)
        table   == DeleteTable(root, above, last.index)
    IN  CASE path = <<>> -> Refused
          [] ~ByIndex(last) /\ InlineAt(parent) ->
                IF text = Refused THEN Refused ELSE Published(PutPath(document, above, NoValue, ValueFragment(text)))
          [] ByIndex(last) /\ ArrayAt(parent) -> Published(PutArray(document, above, last.index, None, FALSE, None))
          [] ByIndex(last) -> IF IsArrayOfTables(parent) THEN Published(WithRoot(document, table)) ELSE Refused
          [] located = Refused -> Refused
          [] gone = Refused -> Refused
          [] OTHER -> Published(WithRoot(document, RetainEmpty(gone, document.newline)))

\* relocate: a table of an array moves with its header; else delete and insert.
Relocate(document, path, n, value, syntax, prefix, layout) ==
    LET above  == Front1(path)
        from   == Last(path).index + 1
        array  == ArrayEntry(document.root, above)
        left   == RemoveAt(array.members, from)
        at     == Min({n, Len(left)})
        target == Append(above, Nth(at))
        moved  == WithMembers(document.root, array, InsertAt(left, at + 1, array.members[from]))
        put    == PutPath(WithRoot(document, moved), target, value, syntax)
        gone   == Delete(document, path)
    IN  IF ByIndex(Last(path)) /\ IsArrayOfTables(Locate(document.root, above))
        THEN IF array = Refused THEN Refused ELSE Published(RestoreLayout(put, target, layout))
        ELSE IF gone = Refused THEN Refused ELSE Insert(gone, above, n, value, syntax, prefix, layout)
=============================================================================

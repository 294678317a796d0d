---------------------------- MODULE TomlDocuments ----------------------------
(***************************************************************************)
(* A TOML document that its user writes line by line, and the selections   *)
(* an editor then takes in it and gives back: each is set, inserted or     *)
(* moved through the backend, and what was there is kept as its baseline.  *)
(* The backend itself is TomlText and TomlEdit, behind the operators below.*)
(***************************************************************************)
EXTENDS Naturals, Sequences, SequencesExt, FiniteSets

CONSTANTS
    Refused, None,
    Lines,          \* what the user can write: [text, says, key]
    Paths, Arrays, Indexes, \* the keys and the members that can be taken
    Values,         \* what is put there
    MaxText,        \* of the tokens that a comment is put behind
    NewNotes,       \* the comments that are put there
    MaxSize,        \* of the lines, the selections and the comments together
    Notes,          \* the comments
    NamedBy,        \* what each key, as it is spelt, names
    Opening(_), RootValue(_), ValueThere(_, _),
    SyntaxThere(_, _), OwnedThere(_, _), EmptyThere(_, _), LayoutThere(_, _), PrefixThere(_, _),
    PutThere(_, _, _, _, _),        \* document, path, value, syntax, layout
    InsertThere(_, _, _, _),        \* document, array, index, value
    MoveThere(_, _, _, _, _, _, _), \* document, path, index, value, syntax, prefix, layout
    DeleteThere(_, _)

VARIABLES
    lines,      \* the text, as the user wrote it
    document,   \* None until it is opened; Refused if it cannot be
    taken,      \* the selections taken, with their baselines
    notes       \* the comments that the user has added since

vars == <<lines, document, taken, notes>>
-----------------------------------------------------------------------------
(* What TOML says of a text, line by line.  A line is a pair, the header   *)
(* of a table, the header of a table in an array, or nothing.              *)

Scalar(value) == [is |-> "value", value |-> value]
TableNode(how, fields) == [is |-> "table", how |-> how, fields |-> fields]
ArrayNode(members) == [is |-> "array", members |-> members]
EmptyTable(how) == TableNode(how, <<>>)

NodeAt(fields, name) == SelectInSeq(fields, LAMBDA f : f.name = name)
WithNode(table, name, node) ==
    LET i == NodeAt(table.fields, name)
    IN  IF node = Refused THEN Refused
        ELSE IF i = 0 THEN [table EXCEPT !.fields = Append(@, [name |-> name, node |-> node])]
        ELSE [table EXCEPT !.fields[i].node = node]

RECURSIVE Defined(_, _, _), Added(_, _, _, _), Said(_)

\* A pair under the table; a key that is there is never set again.
Defined(table, path, value) ==
    LET i    == NodeAt(table.fields, path[1])
        node == table.fields[i].node
    IN  CASE Len(path) = 1 -> IF i = 0 THEN WithNode(table, path[1], Scalar(value)) ELSE Refused
          [] i = 0 -> WithNode(table, path[1], Defined(EmptyTable("dotted"), Tail(path), value))
          [] node.is # "table" -> Refused
          [] node.how # "dotted" -> Refused
          [] OTHER -> WithNode(table, path[1], Defined(node, Tail(path), value))

\* A header, or (base is the path of the last header) a pair below it.
Added(table, path, base, line) ==
    LET i    == NodeAt(table.fields, path[1])
        node == table.fields[i].node
        last == Len(node.members)
        inner(t) == Added(t, Tail(path), base, line)
        end  == Len(path) = 1
    IN  CASE path = <<>> -> Defined(table, line.path, line.value)
          [] i = 0 /\ end -> WithNode(table, path[1], IF line.is = "array" THEN ArrayNode(<<EmptyTable("header")>>)
                                                      ELSE EmptyTable("header"))
          [] i = 0 -> WithNode(table, path[1], inner(EmptyTable("implicit")))
          [] node.is = "value" -> Refused
          [] line.is = "array" /\ end ->
                IF node.is = "array" THEN WithNode(table, path[1], ArrayNode(Append(node.members, EmptyTable("header"))))
                ELSE Refused
          [] line.is = "table" /\ end ->
                IF node.is = "table" /\ node.how = "implicit"
                THEN WithNode(table, path[1], [node EXCEPT !.how = "header"]) ELSE Refused
          [] node.is = "table" -> WithNode(table, path[1], inner(node))
          [] OTHER -> LET member == inner(node.members[last])
                      IN  IF member = Refused THEN Refused
                          ELSE WithNode(table, path[1], ArrayNode([node.members EXCEPT ![last] = member]))

Says(said) ==
    LET step(at, line) ==
            CASE at.table = Refused \/ line.is = "none" -> at
              [] line.is = "pair" -> [at EXCEPT !.table = Added(@, at.base, at.base, line)]
              [] OTHER -> [table |-> Added(at.table, line.path, at.base, line), base |-> line.path]
    IN  FoldLeft(step, [table |-> EmptyTable("header"), base |-> <<>>], said).table

\* The value of a tree, and a value without the order of its fields.
RECURSIVE Meaning(_)
Said(node) ==
    CASE node.is = "value" -> Meaning(node.value)
      [] node.is = "array" -> [array |-> [m \in DOMAIN node.members |-> Said(node.members[m])] \o <<>>]
      [] OTHER -> [object |-> [n \in {f.name : f \in ToSet(node.fields)} |->
                                   Said(node.fields[NodeAt(node.fields, n)].node)]]
Meaning(value) ==
    CASE "object" \in DOMAIN value ->
            [object |-> [n \in {f.name : f \in ToSet(value.object)} |->
                             Meaning(value.object[SelectInSeq(value.object, LAMBDA f : f.name = n)].value)]]
      [] "array" \in DOMAIN value -> [array |-> [i \in DOMAIN value.array |-> Meaning(value.array[i])] \o <<>>]
      [] OTHER -> value
-----------------------------------------------------------------------------
(* The document and its units.  A unit is taken at a path as it stood when *)
(* nothing else of its array had moved; the last one taken in an array is  *)
(* given back first, and a table that was made for a unit after that unit. *)

Text == FlattenSeq([i \in DOMAIN lines |-> lines[i].text])
\* What has happened to the document, up to MaxSize.
Events == Len(lines) + Len(taken) + Len(notes)
IsOpen == document \notin {None, Refused}

ByKey(unit) == unit.kind = "set"
\* What a unit is: a key or a member it sets, or the member it puts in an array.
Place(unit) == IF ByKey(unit) THEN unit.path ELSE Append(unit.path, [index |-> unit.at])
Apart(unit, path) ==
    IF IsStrictPrefix(unit.path, path) /\ unit.made # None THEN TRUE
    ELSE ~IsPrefix(Place(unit), path) /\ ~IsPrefix(path, unit.path)

\* What is selected, to be put back: structured_snapshot.
Snapshot(path) ==
    [value |-> ValueThere(document, path), syntax |-> SyntaxThere(document, path),
     owned |-> OwnedThere(document, path), layout |-> LayoutThere(document, path)]
Whole(baseline) == Refused \notin {baseline.value, baseline.syntax, baseline.owned, baseline.layout}

Init == lines = <<>> /\ document = None /\ taken = <<>> /\ notes = <<>>

\* The user writes a line, before the document is opened.
Write(line) ==
    /\ document = None
    /\ Len(lines) < MaxSize
    /\ lines' = Append(lines, line)
    /\ Says([i \in DOMAIN lines' |-> lines'[i].says]) # Refused
    /\ UNCHANGED <<document, taken, notes>>

OpenDocument ==
    /\ document = None
    /\ document' = Opening(Text)
    /\ UNCHANGED <<lines, taken, notes>>

Takes(unit, result) ==
    /\ result # Refused
    /\ document' = result
    /\ taken' = Append(taken, [unit EXCEPT !.written = OwnedThere(result, Place(unit))])
    /\ UNCHANGED <<lines, notes>>

\* A member is replaced by one of the same identity: by itself, or table by table.
Identified(path, value) ==
    LET was == ValueThere(document, path)
    IN  "index" \in DOMAIN Last(path) => was # Refused /\ (value = was \/ "object" \in DOMAIN was \cap DOMAIN value)

\* write_structured, a key or a member that stays where it is: what is there is
\* replaced.  A container made for a unit (parents) is a unit of its own.
Set(path, value) ==
    /\ IsOpen
    /\ Events < MaxSize
    /\ \A u \in ToSet(taken) : Apart(u, path)
    /\ Identified(path, value)
    /\ \E was \in {ValueThere(document, path)} : \E baseline \in {IF was = Refused THEN None ELSE Snapshot(path)} :
          /\ baseline # None => Whole(baseline)
          /\ \E put \in {PutThere(document, path, value, None, <<>>)} :
                Takes([kind |-> "set", path |-> path, value |-> value, baseline |-> baseline, written |-> None,
                       made |-> IF put # Refused /\ baseline = None /\ value = [object |-> <<>>]
                                THEN EmptyThere(put, path) ELSE None], put)

\* The members of an array; none where there is no array.
Size(array) ==
    LET value == ValueThere(document, array)
    IN  IF value = Refused THEN 0 ELSE IF "array" \in DOMAIN value THEN Len(value.array) ELSE 0

\* write_structured, a new member.
Add(array, n, value) ==
    /\ IsOpen
    /\ Events < MaxSize
    /\ \A u \in ToSet(taken) : Apart(u, array)
    /\ n <= Size(array)
    /\ Takes([kind |-> "add", path |-> array, at |-> n, value |-> value, baseline |-> None, written |-> None,
              made |-> None],
             InsertThere(document, array, n, value))

\* write_structured, a member that is placed elsewhere.
Move(array, m, n, value) ==
    LET path == Append(array, [index |-> m])
    IN  /\ IsOpen
        /\ Events < MaxSize
        /\ m # n
        /\ m < Size(array) /\ n < Size(array)
        /\ \A u \in ToSet(taken) : Apart(u, array)
        /\ Identified(path, value)
        /\ \E baseline \in {Snapshot(path)} : \E prefix \in {PrefixThere(document, path)} :
              /\ Whole(baseline) /\ prefix # Refused
              /\ Takes([kind |-> "move", path |-> array, at |-> n, from |-> m, value |-> value,
                        baseline |-> baseline, written |-> None, prefix |-> prefix, made |-> None],
                       MoveThere(document, path, n, value, None, None, <<>>))

\* The user has not changed what the unit owns; a container made for a unit
\* is empty, as it was made.
Untouched(unit) ==
    IF unit.made # None THEN EmptyThere(document, unit.path) = unit.made
    ELSE OwnedThere(document, Place(unit)) = unit.written

\* restore_structured: a unit that was not there is deleted; any other is put
\* back as it was written, where it was.
GivenBack(unit) ==
    CASE unit.baseline = None -> DeleteThere(document, Place(unit))
      [] unit.kind = "set" ->
            PutThere(document, unit.path, unit.baseline.value, unit.baseline.syntax, unit.baseline.layout)
      [] OTHER -> MoveThere(document, Place(unit), unit.from, unit.baseline.value, unit.baseline.syntax,
                           unit.prefix, unit.baseline.layout)

\* A unit that the user has not changed is given back: before one of the same array that was taken earlier,
\* and before the container that was made for it.
GiveBack(i) ==
    /\ IsOpen
    /\ i \in DOMAIN taken
    /\ Untouched(taken[i])
    /\ \A j \in DOMAIN taken :
          j > i => /\ ~IsPrefix(taken[i].path, taken[j].path)
                   /\ ByKey(taken[j]) \/ ~IsPrefix(taken[j].path, taken[i].path)
    /\ document' = GivenBack(taken[i])
    /\ taken' = RemoveAt(taken, i)
    /\ UNCHANGED <<lines, notes>>

\* The user puts a comment at the end of a line of the document.
Annotate(i, note) ==
    /\ IsOpen
    /\ taken # <<>>
    /\ Events < MaxSize
    /\ i \in DOMAIN document.text
    /\ document.text[i] \in {"cr", "lf"}
    /\ i > 1 => document.text[i - 1] \notin {"cr"} \cup Notes
    /\ document' = Opening(SubSeq(document.text, 1, i - 1) \o <<"sp", note>> \o SubSeq(document.text, i, Len(document.text)))
    /\ document' # Refused
    /\ notes' = Append(notes, note)
    /\ UNCHANGED <<lines, taken>>

Next ==
    \/ \E line \in Lines : Write(line)
    \/ OpenDocument
    \/ \E path \in Paths, value \in Values : Set(path, value)
    \/ \E array \in Arrays, n \in Indexes, value \in Values : Add(array, n, value)
    \/ \E array \in Arrays, m, n \in Indexes, value \in Values : Move(array, m, n, value)
    \/ \E i \in 1..MaxSize : GiveBack(i)
    \/ \E i \in 1..MaxText, note \in NewNotes : Annotate(i, note)

Spec == Init /\ [][Next]_vars
-----------------------------------------------------------------------------
(* What must hold                                                          *)

\* The meaning of a document after a unit is taken.
RECURSIVE With(_, _, _)
With(m, path, new) ==
    LET name == path[1].name
        old  == IF name \in DOMAIN m.object THEN m.object[name] ELSE [object |-> <<>>]
        at   == path[1].index + 1
    IN  CASE path = <<>> -> new
          [] "index" \in DOMAIN path[1] -> [array |-> [m.array EXCEPT ![at] = With(@, Tail(path), new)]]
          [] OTHER -> [object |-> [n \in DOMAIN m.object \cup {name} |->
                          IF n = name THEN With(old, Tail(path), new) ELSE m.object[n]]]
RECURSIVE At(_, _)
At(m, path) ==
    CASE path = <<>> -> m
      [] "index" \in DOMAIN path[1] -> At(m.array[path[1].index + 1], Tail(path))
      [] OTHER -> At(m.object[path[1].name], Tail(path))

Taken(m, unit) ==
    LET new   == Meaning(unit.value)
        array == At(m, unit.path).array
        left  == IF unit.kind = "move" THEN RemoveAt(array, unit.from + 1) ELSE array
    IN  IF ByKey(unit) THEN With(m, unit.path, new)
        ELSE With(m, unit.path, [array |-> InsertAt(left, unit.at + 1, new)])

\* What the user's text says, as TOML.
SaidSoFar == Said(Says([i \in DOMAIN lines |-> lines[i].says]))

\* Texts whose layout is not kept: the parts of a table, or of an array, stand
\* apart or after what is inside them, its key is spelt in two ways, or it has
\* dotted keys and tables of its own.
IsHeader(i) == lines[i].says.is \in {"table", "array"}
PathOf(i) == lines[i].says.path
Scattered(is) ==
    \E i, j, k \in DOMAIN lines :
        /\ i < j /\ j < k /\ IsHeader(j) /\ IsHeader(k) /\ lines[i].says.is \in is
        /\ PathOf(k)[1] = PathOf(i)[1] /\ PathOf(j)[1] # PathOf(i)[1]
Reversed ==
    \E i, j \in DOMAIN lines : i < j /\ IsHeader(i) /\ IsHeader(j) /\ IsStrictPrefix(PathOf(j), PathOf(i))
Respelt ==
    \E i, j \in DOMAIN lines :
        /\ None \notin {lines[i].key, lines[j].key}
        /\ lines[i].key # lines[j].key /\ NamedBy[lines[i].key] = NamedBy[lines[j].key]
Mixed ==
    \E i, j \in DOMAIN lines :
        /\ lines[i].says.is = "pair" /\ Len(PathOf(i)) > 1 /\ \A h \in 1..i : ~IsHeader(h)
        /\ IsHeader(j) /\ PathOf(j)[1] = PathOf(i)[1]
Regular == ~Scattered({"table", "array"}) /\ ~Reversed /\ ~Respelt /\ ~Mixed
\* Every table above another has a header, and no line is blank.
Spelled ==
    \A i \in DOMAIN lines :
        /\ \E token \in ToSet(lines[i].text) : token \notin {"sp", "lf", "cr"}
        /\ IsHeader(i) /\ Len(PathOf(i)) > 1 => \E j \in DOMAIN lines : IsHeader(j) /\ PathOf(j) = Front(PathOf(i))

\* A text that is TOML is opened, says what TOML says it does, and is kept as
\* it is written; unless an array is continued after another table.
OpensAsWritten ==
    [][document = None /\ document' # None =>
          /\ document' # Refused
          /\ Meaning(RootValue(document')) = SaidSoFar
          /\ Scattered({"array"}) \/ document'.text = Text]_vars

\* Taking a unit, whatever the layout of the text around it and the order in
\* which units come and go, changes what that unit says and nothing else.
OthersKept ==
    IsOpen => Meaning(RootValue(document)) = FoldLeft(Taken, SaidSoFar, taken)

\* The comments of the user that stand outside the units that are taken, on a
\* header, a line of their own or behind a value, are all still there.
Times(text, token) == Cardinality({i \in DOMAIN text : text[i] = token})
NotesKept ==
    IsOpen /\ Regular => \A note \in Notes :
        LET owned(n, unit) == IF unit.baseline = None THEN n ELSE n + Times(unit.baseline.owned, note)
        IN  Times(document.text, note) + FoldLeft(owned, 0, taken) >= Times(Text \o notes, note)

\* The lines of a text that say something.
SolidLines(text) ==
    LET ends == SelectSeq([i \in DOMAIN text |-> i], LAMBDA i : text[i] = "lf" \/ i = Len(text))
        line(i) == SubSeq(text, IF i = 1 THEN 1 ELSE ends[i - 1] + 1, ends[i])
    IN  SelectSeq([i \in DOMAIN ends |-> line(i)], LAMBDA l : ToSet(l) \ {"sp", "lf", "cr"} # {})
\* What is left of the lines to find once a line is read.
Found(left, line) == IF left # <<>> /\ left[1] = line THEN Tail(left) ELSE left

\* A unit that was taken can be given back; once all are, every line of the
\* user is there, in its order and spelling, and the text is the user's own to
\* the byte: but for blank lines, and for the header of a table that had none.
Returned ==
    /\ document = Refused => ~Regular
    /\ IsOpen /\ taken = <<>> /\ notes = <<>> /\ Regular =>
          LET was == SolidLines(Text)
              now == SolidLines(document.text)
          IN  /\ FoldLeft(Found, was, now) = <<>>
              /\ \A i \in DOMAIN now : now[i] \in ToSet(was) \/ now[i][1] = "["
              /\ Spelled => document.text = Text
=============================================================================

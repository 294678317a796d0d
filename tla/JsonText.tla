------------------------------- MODULE JsonText -------------------------------
(***************************************************************************)
(* JsonDocument: a JSON or JSONC text that is edited in place.  A text is  *)
(* a sequence of tokens: brackets, "," and ":", strings and other scalars, *)
(* "sp" for white space and "note" for a comment with what ends it.  Every *)
(* operation patches the tokens and reads the result again; an operation   *)
(* that fails gives Refused.                                               *)
(*                                                                         *)
(* A value is [scalar |-> token], [object |-> names to values] or          *)
(* [array |-> values]; a path is a sequence of [key |-> name] and          *)
(* [index |-> position].                                                   *)
(***************************************************************************)
EXTENDS Naturals, Integers, Sequences, SequencesExt, FiniteSets

CONSTANTS
    Comments,   \* JSONC: comments and trailing commas are read
    Strings,    \* the tokens that are strings
    Refused,    \* an operation that fails
    None

Opening == {"{", "["}
Closing == {"}", "]"}
Trivia == IF Comments THEN {"sp", "note"} ELSE {"sp"}
Closer(t) == IF t = "{" THEN "}" ELSE "]"

\* The nesting before every token, and after the last one.
Depths(text) ==
    [i \in 1..(Len(text) + 1) |->
        Cardinality({j \in 1..(i - 1) : text[j] \in Opening})
        - Cardinality({j \in 1..(i - 1) : text[j] \in Closing})] \o <<>>

\* The token that closes the container at i, 0 if none does.
End(text, depth, i) ==
    SelectInSubSeq([j \in 1..Len(text) |-> depth[j + 1]], i + 1, Len(text),
                   LAMBDA d : d = depth[i])

\* The tokens of a container that belong to no container in it.
Direct(text, depth, i, end) ==
    SelectSeq([k \in 1..(end - i - 1) |-> i + k],
              LAMBDA k : /\ depth[k] = depth[i] + 1
                         /\ text[k] \notin Trivia \cup Closing)

Every(items, step, first) ==
    [n \in 1..((Len(items) - first + step) \div step) |-> items[first + (n - 1) * step]] \o <<>>

\* The value at token i: the tokens after offset from up to offset to, and for
\* a container the positions of its keys, values and commas.
Node(text, depth, i) ==
    IF text[i] \notin Opening
    THEN [from |-> i - 1, to |-> i, keys |-> <<>>, values |-> <<>>, commas |-> <<>>]
    ELSE LET end   == End(text, depth, i)
             items == Direct(text, depth, i, end)
         IN  [from |-> i - 1, to |-> end,
              keys   |-> IF text[i] = "{" THEN Every(items, 4, 1) ELSE <<>>,
              values |-> IF text[i] = "{" THEN Every(items, 4, 3) ELSE Every(items, 2, 1),
              commas |-> IF text[i] = "{" THEN Every(items, 4, 4) ELSE Every(items, 2, 2)]

IsValue(t) == t \notin Closing \cup {",", ":", "sp", "note"}

\* The entries of a container as Scanner::node reads them: names once each, a
\* comma between two entries and, in JSONC, after the last.
EntriesRead(text, i, node, items) ==
    LET object == text[i] = "{"
        n      == Len(node.values)
    IN  /\ Len(items) = (IF object THEN 3 * n ELSE n) + Len(node.commas)
        /\ Len(node.commas) \in (IF Comments THEN {n - 1, n} ELSE {n - 1}) \/ (n = 0 /\ items = <<>>)
        /\ \A v \in Range(node.values) : IsValue(text[v])
        /\ \A c \in Range(node.commas) : text[c] = ","
        /\ object =>
            /\ \A k \in 1..n : text[items[4 * k - 3]] \in Strings /\ text[items[4 * k - 2]] = ":"
            /\ \A k, m \in 1..n : k # m => text[node.keys[k]] # text[node.keys[m]]

Balanced(text, depth) ==
    /\ \A i \in DOMAIN depth : depth[i] >= 0
    /\ depth[Len(text) + 1] = 0
    /\ \A i \in DOMAIN text : text[i] \in Opening => text[End(text, depth, i)] = Closer(text[i])

\* JsonDocument::parse: the text with the node that begins at each token.
Parse(text) ==
    LET depth  == Depths(text)
        starts == {i \in DOMAIN text : IsValue(text[i])}
        outer  == SelectSeq([i \in DOMAIN text |-> i],
                            LAMBDA i : depth[i] = 0 /\ text[i] \notin Trivia \cup Closing)
        nodes  == [i \in DOMAIN text |-> IF i \in starts THEN Node(text, depth, i) ELSE None] \o <<>>
    IN  IF /\ Balanced(text, depth)
           /\ Len(outer) = 1 /\ IsValue(text[outer[1]])
           /\ \A i \in starts : text[i] \in Opening =>
                  EntriesRead(text, i, nodes[i], Direct(text, depth, i, nodes[i].to))
           /\ Comments \/ ~Contains(text, "note")
        THEN [text |-> text, root |-> outer[1], nodes |-> nodes]
        ELSE Refused

RECURSIVE ValueAt(_, _), FindFrom(_, _, _), Patched(_, _)

\* Node::value of the node at token i.
ValueAt(doc, i) ==
    LET node    == doc.nodes[i]
        at(n)   == doc.text[node.keys[n]]
        entries == DOMAIN node.values
    IN  CASE doc.text[i] = "{" ->
                [object |-> [name \in {at(n) : n \in entries} |->
                    ValueAt(doc, node.values[CHOOSE n \in entries : at(n) = name])]]
          [] doc.text[i] = "[" ->
                [array |-> [n \in entries |-> ValueAt(doc, node.values[n])] \o <<>>]
          [] OTHER -> [scalar |-> doc.text[i]]

\* The child of the node at i, 0 if there is none.
Child(doc, i, part) ==
    LET node == doc.nodes[i]
        at   == {n \in DOMAIN node.values :
                    IF "key" \in DOMAIN part
                    THEN node.keys # <<>> /\ doc.text[node.keys[n]] = part.key
                    ELSE node.keys = <<>> /\ n = part.index}
    IN  IF at = {} THEN 0 ELSE node.values[CHOOSE n \in at : TRUE]

\* JsonDocument::node.
FindFrom(doc, i, path) ==
    IF path = <<>> \/ i = 0 THEN i ELSE FindFrom(doc, Child(doc, i, Head(path)), Tail(path))

Find(doc, path) == FindFrom(doc, doc.root, path)

Native(doc, path) == ValueAt(doc, Find(doc, path))

Slice(text, from, to) == SubSeq(text, from + 1, to)

Syntax(doc, path) ==
    LET node == doc.nodes[Find(doc, path)] IN Slice(doc.text, node.from, node.to)

\* Where the space before child n of a container begins.
Before(node, n) == IF n = 1 THEN node.from + 1 ELSE node.commas[n - 1]

\* position_prefix: what stands between an array member and what precedes it.
Prefix(doc, path) ==
    LET parent == doc.nodes[Find(doc, Front(path))]
        node   == doc.nodes[Find(doc, path)]
    IN  Slice(doc.text, Before(parent, Last(path).index), node.from)
-----------------------------------------------------------------------------
\* patch: the last replacement is given first.
Patched(text, patches) ==
    LET p == Head(patches)
    IN  IF patches = <<>> THEN text
        ELSE Patched(Slice(text, 0, p.from) \o p.by \o Slice(text, p.to, Len(text)), Tail(patches))

Patch(text, patches) == Parse(Patched(text, patches))

Insertion(at, tokens) == [from |-> at, to |-> at, by |-> tokens]

\* prefixed: after the prefix, which has to be there still.
Prefixed(text, from, to, prefix) ==
    IF prefix = None THEN from
    ELSE IF IsPrefix(prefix, Slice(text, from, to)) THEN from + Len(prefix) ELSE Refused

\* insert_at, as child n of a container.
InsertAsChild(doc, parent, n, raw, prefix) ==
    LET node     == doc.nodes[Find(doc, parent)]
        size     == Len(node.values)
        trailing == Len(node.commas) = size /\ size > 0
        entry    == IF node.keys # <<>> THEN node.keys[n] - 1 ELSE node.values[n] - 1
        boundary == IF trailing THEN node.commas[size]
                    ELSE IF size > 0 THEN doc.nodes[node.values[size]].to
                    ELSE node.from + 1
        at       == IF n <= size THEN Prefixed(doc.text, Before(node, n), entry, prefix)
                    ELSE IF prefix = None THEN node.to - 1
                    ELSE Prefixed(doc.text, boundary, node.to - 1, prefix)
    IN  IF at = Refused THEN Refused
        ELSE Patch(doc.text,
                IF n <= size \/ trailing THEN <<Insertion(at, Append(raw, ","))>>
                ELSE IF size > 0
                THEN <<Insertion(at, raw), Insertion(doc.nodes[node.values[size]].to, <<",">>)>>
                ELSE <<Insertion(at, raw)>>)

\* put: replaces a value or adds a field at the end of its object.  raw is the
\* syntax to write.
Put(doc, path, raw) ==
    LET parent == Find(doc, Front(path))
        i      == Find(doc, path)
    IN  IF i # 0
        THEN Patch(doc.text, <<[from |-> doc.nodes[i].from, to |-> doc.nodes[i].to, by |-> raw]>>)
        ELSE IF parent # 0 /\ doc.text[parent] = "{" /\ "key" \in DOMAIN Last(path)
        THEN InsertAsChild(doc, Front(path), Len(doc.nodes[parent].values) + 1,
                           <<Last(path).key, ":">> \o raw, None)
        ELSE Refused

\* delete: the value, its key and colon, and the comma after it; before it when
\* it is the last.
Delete(doc, path) ==
    LET i      == Find(doc, path)
        parent == doc.nodes[Find(doc, Front(path))]
        n      == CHOOSE m \in DOMAIN parent.values : parent.values[m] = i
        colon  == SelectInSubSeq(doc.text, parent.keys[n], i, LAMBDA t : t = ":")
        gone   == (doc.nodes[i].from + 1)..doc.nodes[i].to
                  \cup (IF parent.keys = <<>> THEN {} ELSE {parent.keys[n], colon})
                  \cup (IF parent.commas = <<>> THEN {}
                        ELSE IF n <= Len(parent.commas) THEN {parent.commas[n]}
                        ELSE {Last(parent.commas)})
        kept   == SelectSeq([k \in DOMAIN doc.text |-> k], LAMBDA k : k \notin gone)
    IN  IF i = 0 THEN Refused ELSE Parse([k \in DOMAIN kept |-> doc.text[kept[k]]])

\* relocate: a member that was taken out comes back at another position.
Relocate(doc, path, n, raw, prefix) ==
    LET rest == Delete(doc, path)
    IN  IF rest = Refused THEN Refused ELSE InsertAsChild(rest, Front(path), n, raw, prefix)
=============================================================================

-------------------------------- MODULE MCToml --------------------------------
EXTENDS TomlDocuments, TLC

MCBare == {"a", "b", "c", "value"}
MCNames == [t \in MCBare \cup {"\"a\""} |-> IF t = "\"a\"" THEN "a" ELSE t]
T == INSTANCE TomlEdit WITH
        NameOf <- MCNames, Spelling <- [n \in MCBare |-> n], QuotedNames <- {"\"a\""},
        Joined <- LAMBDA words : "joined", Scalars <- {"1", "2", "3"}, Nonfinite <- {},
        MaxKeyDepth <- 3, MaxValueDepth <- 3, ValueName <- "value"

S(v) == [scalar |-> v]
Named(path) == [i \in DOMAIN path |-> IF path[i] = "\"a\"" THEN "a" ELSE path[i]]
Dots(path) == FlattenSeq([i \in DOMAIN path |-> IF i = 1 THEN <<path[1]>> ELSE <<".", path[i]>>])
Pair(path, raw, value, end) ==
    [key |-> Head(path), text |-> Dots(path) \o <<"=">> \o raw \o end, says |-> [is |-> "pair", path |-> Named(path), value |-> value]]
Header(path, end) ==
    [key |-> Head(path), text |-> <<"[">> \o Dots(path) \o <<"]">> \o end, says |-> [is |-> "table", path |-> Named(path)]]
ArrayHeader(path, end) ==
    [key |-> Head(path), text |-> <<"[", "[">> \o Dots(path) \o <<"]", "]">> \o end, says |-> [is |-> "array", path |-> Named(path)]]
Nothing(text) == [key |-> None, text |-> text, says |-> [is |-> "none"]]
End == <<"lf">>
Noted == <<"sp", "# n", "lf">>
Inline == [object |-> <<[name |-> "b", value |-> S("1")]>>]

MCLines ==
    {Pair(<<"b">>, <<"1">>, S("1"), End), Pair(<<"a", "b">>, <<"1">>, S("1"), Noted),
     Pair(<<"\"a\"", "c">>, <<"2">>, S("2"), End),
     Pair(<<"a">>, <<"{", "b", "=", "1", "}">>, Inline, End),
     Pair(<<"a">>, <<"[", "1", ",", "sp", "# m", "lf", "2", "]">>, [array |-> <<S("1"), S("2")>>], Noted),
     Header(<<"a">>, Noted), Header(<<"b">>, <<"cr", "lf">>), Header(<<"a", "b">>, End),
     [Header(<<"a", "b">>, End) EXCEPT !.text = <<"[", "sp">> \o Tail(@)],
     ArrayHeader(<<"a">>, Noted), ArrayHeader(<<"a", "b">>, End),
     Nothing(<<"lf">>), Nothing(<<"# m", "lf">>)}
K(name) == [name |-> name]
N(n) == [index |-> n]
MCPaths == {<<K("a")>>, <<K("c")>>, <<K("a"), K("b")>>, <<K("a"), K("c")>>, <<K("a"), N(0)>>, <<K("a"), N(0), K("b")>>}
MCArrays == {<<K("a")>>}
MCValues == {S("3"), [object |-> <<[name |-> "c", value |-> S("3")]>>], [object |-> <<>>]}
MCOpen(text) == LET r == T!Open(text) IN r
MCNativeRoot(d) == LET r == T!NativeRoot(d.root) IN r
MCNative(d, path) == LET r == T!Native(d.root, path) IN r
MCSyntax(d, path) == LET r == T!Syntax(d, path) IN r
MCOwnedSyntax(d, path) == LET r == T!OwnedSyntax(d, path) IN r
MCEmptySyntax(d, path) == LET r == T!EmptySyntax(d, path) IN r
MCLayout(d, path) == LET r == T!Layout(d, path) IN r
MCPrefix(d, path) == LET r == T!PositionPrefix(d, path) IN r
MCPut(d, path, value, syntax, layout) == LET r == T!Put(d, path, value, syntax, layout) IN r
MCInsert(d, path, n, value) == LET r == T!Insert(d, path, n, value, None, None, <<>>) IN r
MCRelocate(d, path, n, value, syntax, prefix, layout) ==
    LET r == T!Relocate(d, path, n, value, syntax, prefix, layout) IN r
MCDelete(d, path) == LET r == T!Delete(d, path) IN r
================================================================================

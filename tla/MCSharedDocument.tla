--------------------------- MODULE MCSharedDocument ---------------------------
(***************************************************************************)
(* One document of two bundles and one user, in each format.               *)
(*                                                                         *)
(* Text: bundle x owns the Flyrail sections a and c (two versions), bundle *)
(* y a section b with boundaries of its own; a third section shares its    *)
(* opening line with a.                                                    *)
(*                                                                         *)
(* JSON: bundle x owns a field of an object "s" that may not be there, and *)
(* a member of an array "l"; bundle y another member of the array and a    *)
(* field in what x created.  Two of the artifacts need the schema field    *)
(* "v".                                                                    *)
(*                                                                         *)
(* A container of skills: bundle x owns the directory k, bundle y one in a *)
(* directory d that may not be there, or one that differs from k only in   *)
(* case.  Whole: both bundles own the same tree.                           *)
(***************************************************************************)
EXTENDS SharedDocument

CONSTANTS Refused, Flyrail

Text == INSTANCE TextSections

\* Directories of a container; K folds to k.
Names == [n \in {"k", "K", "m", "d", "f"} |-> IF n = "K" THEN "k" ELSE n]
-----------------------------------------------------------------------------
a == Section("<a>", "</a>")
b == Section("<b>", "</b>")
c == Section("<c>", "</c>")
shared == Section("<a>", "</b>")

FlyrailSections == {a, c}

SectionOf(claim, body) == [claim |-> claim, content |-> body, schemas |-> {}]

TextVersions ==
    [x |-> {<<SectionOf(a, <<"v">>)>>, <<SectionOf(c, <<"v", "cr", "lf">>), SectionOf(a, <<>>)>>},
     y |-> {<<SectionOf(b, <<"v", "lf">>)>>, <<SectionOf(shared, <<>>)>>}]

\* Absent, without and with line breaks of each kind, with a section nobody
\* owns.
TextFiles ==
    {None, <<"u">>, <<"bom", "u", "cr", "lf">>, <<"<a>", "lf", "v", "lf", "</a>", "lf", "u">>}

\* The words outside the sections; the line breaks of a separator may go.
OtherWords(data, claims) ==
    LET text  == Decoded(data)
        spans == {Text!Span(text, s) : s \in {d \in claims : Text!Span(text, d) # None}}
    IN  SelectSeq([i \in DOMAIN text |->
                      IF \E s \in spans : s[1] < i /\ i <= s[2] THEN "" ELSE text[i]],
                  LAMBDA t : t \notin {"", "cr", "lf"})
-----------------------------------------------------------------------------
Strings == {"s", "l", "x", "y", "n", "u", "v"}
Comments == FALSE

J == INSTANCE JsonText

JsonPut(d, path, raw, layout) == J!Put(d, path, raw)
JsonInsert(d, path, n, raw, prefix, layout) == J!InsertAsChild(d, path, n, raw, prefix)
JsonRelocate(d, path, n, raw, prefix, layout) == J!Relocate(d, path, n, raw, prefix)
NoLayout(d, path) == <<>>
TextOfJson(d) == d.text

Json == INSTANCE StructuredEditor WITH
    Format <- "json", Parse <- J!Parse, TextOf <- TextOfJson, Native <- J!Native,
    Syntax <- J!Syntax, OwnedSyntax <- J!Syntax, EmptySyntax <- J!Syntax,
    Layout <- NoLayout, Prefix <- J!Prefix, Put <- JsonPut, Insert <- JsonInsert,
    Delete <- J!Delete, Relocate <- JsonRelocate

Content(raw, placement) ==
    [value |-> J!ValueAt(J!Parse(raw), 1), raw |-> raw, placement |-> placement]

Field(parts, raw, placement, schemas) ==
    [claim |-> Structured(parts), content |-> Content(raw, placement), schemas |-> schemas]

ByName(name) == Member(<<"n">>, [scalar |-> name])
First == [position |-> "first", anchor |-> None]
VersionField == [key |-> "v", value |-> [scalar |-> "1"], raw |-> <<"1">>]

MemberRaw(name) == <<"{", "n", ":", name, "}">>

XField == Field(<<Key("s"), Key("x")>>, <<"1">>, None, {})
XList  == Field(<<Key("l"), ByName("x")>>, MemberRaw("x"), First, {VersionField})
YField == Field(<<Key("s"), Key("y")>>, <<"[", "1", "]">>, None, {VersionField})
YList  == Field(<<Key("l"), ByName("y")>>, MemberRaw("y"), None, {})

JsonVersions ==
    [x |-> {<<XField, XList>>, <<XList>>}, y |-> {<<YList>>, <<YField>>}]

JsonFiles ==
    {None, <<"sp">>,
     <<"{", "l", ":", "[", "sp", "{", "n", ":", "u", "}", ",", "sp",
       "{", "n", ":", "x", ",", "u", ":", "1", "}", "sp", "]", "}">>}

JsonDocument(data) == IF data = None THEN Refused ELSE J!Parse(Decoded(data))

\* The words of the user outside what is claimed.
OtherValues(data, claims) ==
    LET text  == Decoded(data)
        read  == JsonDocument(data)
        spans == {read.nodes[J!Find(read, path)] :
                     path \in {Json!Resolve(read, d.parts) : d \in claims} \ {None, Refused}}
    IN  IF read = Refused THEN <<>>
        ELSE SelectSeq([i \in DOMAIN text |->
                           IF \E n \in spans : n.from < i /\ i <= n.to THEN "" ELSE text[i]],
                       LAMBDA t : t \in {"u", "note"})

Squeezed(text) == SelectSeq(text, LAMBDA t : t # "sp")

\* The user's file, or what it is with the schema field at its end.
SameTree(data, before) ==
    LET v == <<[key |-> "v"]>>
    IN  \/ data = before
        \/ /\ ~Json!EmptyObject(before) /\ ~Json!BlankSource(before)
           /\ data # None
           /\ J!Find(JsonDocument(before), v) = 0
           /\ Squeezed(data) = Squeezed(J!Put(JsonDocument(before), v, VersionField.raw).text)
-----------------------------------------------------------------------------
R == INSTANCE Revisions

Directory(content) == <<>> :> "dir" @@ <<"f">> :> content

Skill(path, content) == [claim |-> Subtree(path), content |-> Directory(content), schemas |-> {}]

ContainerVersions ==
    [x |-> {<<Skill(<<"k">>, "1")>>, <<Skill(<<"k">>, "2"), Skill(<<"d", "k">>, "1")>>},
     y |-> {<<Skill(<<"d", "m">>, "1")>>, <<Skill(<<"K">>, "1")>>}]

ByUser(contents) == [p \in DOMAIN contents |-> [data |-> contents[p], touched |-> TRUE]]

\* Absent, with a file of the user, with a skill that x wants.
Containers ==
    {None, ByUser(Directory("u")), ByUser(<<>> :> "dir" @@ <<"k">> :> "dir" @@ <<"k", "f">> :> "1")}

TreeOf(content) == [claim |-> Whole("tree"), content |-> Directory(content), schemas |-> {}]
WholeVersions == [x |-> {<<TreeOf("1")>>, <<TreeOf("2")>>}, y |-> {<<TreeOf("2")>>}]
Trees == {None, ByUser(Directory("1"))}

OtherNodes(data, claims) ==
    LET nodes == R!Data(R!Revision(data))
    IN  IF \E d \in claims : d.kind \in WholeKinds THEN <<>>
        ELSE [p \in {q \in DOMAIN nodes :
                        nodes[q] # "dir" /\ \A d \in claims : ~Inside(q, d.path)} |-> nodes[p]]

\* The user writes a file into a directory, makes a directory anew, or removes
\* a directory.
ContainerEdits(data) ==
    LET inside(p)  == {q \in DOMAIN data : Inside(q, p)}
        dirs       == {p \in DOMAIN data : data[p].data = "dir"}
    IN  {((p \o <<"f">>) :> [data |-> "u", touched |-> TRUE]) @@ data : p \in dirs}
        \cup {[data EXCEPT ![p].touched = TRUE] : p \in dirs}
        \cup {[q \in DOMAIN data \ inside(p) |-> data[q]] : p \in dirs \ {<<>>}}
-----------------------------------------------------------------------------
Versions ==
    [text |-> TextVersions, json |-> JsonVersions,
     container |-> ContainerVersions, whole |-> WholeVersions]
\* What SectionBoundaries, Selector and Claim accept.
ASSUME ClaimsAreGood ==
    \A f \in DOMAIN Versions : \A u \in {"x", "y"} :
        \A artifacts \in Versions[f][u] : \A i \in DOMAIN artifacts : ValidClaim(artifacts[i].claim)
Files == [text |-> TextFiles, json |-> JsonFiles, container |-> Containers, whole |-> Trees]

Nodes == {"container", "whole"}

Calls ==
    {[acquisition |-> "adopt", replace |-> FALSE], [acquisition |-> "takeover", replace |-> TRUE]}

Edit(f, data, selections, creation, requests, schemas, validate) ==
    LET edit ==
            CASE f = "text"  -> Text!EditText(data, selections, creation, requests)
              [] f = "json"  -> Json!EditSchemaDocument(
                                    data, selections, creation, requests, schemas, validate)
              [] f \in Nodes -> R!EditRevision(data, selections, creation, requests)
    IN  edit

Holds(f, data, claim) ==
    LET held ==
            CASE f = "text"  -> Text!Current(Decoded(data), claim)
              [] f = "json"  -> IF JsonDocument(data) = Refused THEN None
                                ELSE Json!Snapshot(JsonDocument(data), claim.parts)
              [] f \in Nodes -> R!Selected(R!Revision(data), claim)
    IN  held

AsOwned(f, current, selection) ==
    LET same == IF f = "json" THEN Json!AsInstalled(current, selection)
                ELSE current = selection.installed
    IN  same

Others(f, data, claims) ==
    LET others ==
            CASE f = "text"  -> OtherWords(data, claims)
              [] f = "json"  -> OtherValues(data, claims)
              [] f \in Nodes -> OtherNodes(data, claims)
    IN  others

\* A schema needs no document where the user left an empty file; what is in a
\* directory has its directory.
CanRead(f, data, claims) ==
    LET read ==
            CASE f = "text"  -> ~Text!SpansFail(Decoded(data), claims)
              [] f = "json"  -> data = None \/ Json!BlankSource(data) \/ JsonDocument(data) # Refused
              [] f \in Nodes -> \A p \in DOMAIN R!Revision(data) :
                                   p = <<>> \/ R!Revision(data)[Front(p)].data = "dir"
    IN  read

AsBefore(f, data, before) ==
    LET same ==
            CASE f = "text"  -> data = before
              [] f = "json"  -> SameTree(data, before)
              [] f \in Nodes -> R!Data(R!Revision(data)) = R!Data(R!Revision(before))
    IN  same

\* In a text the user adds or removes a word or a line break anywhere, in JSON
\* changes the first value that is 1.
Typed(f, data) ==
    LET typed ==
            CASE f = "text"  -> {InsertAt(data, i, t) : i \in 1..(Len(data) + 1), t \in {"u", "lf"}}
                                \cup {RemoveAt(data, i) : i \in 1..Len(data)}
              [] f = "json"  -> {ReplaceFirstSubSeq(<<"2">>, <<"1">>, data)}
              [] f \in Nodes -> ContainerEdits(data)
    IN  typed
=============================================================================

------------------------------ MODULE BundleLoad ------------------------------
(***************************************************************************)
(* A bundle read from a directory, or from an archive in a directory,      *)
(* while somebody else writes there: DirectorySource one system call at a  *)
(* time.  What is left of the load is a list of operations, todo; its head *)
(* is the next one.                                                        *)
(*                                                                         *)
(* A file has two blocks, which are read and written one by one.  A change *)
(* stamps what it changes with the clock, which is coarse: it stands still *)
(* until it ticks.  Reading the manifest, putting records together and     *)
(* unpacking an archive are parameters: no system call happens meanwhile.  *)
(***************************************************************************)
EXTENDS Naturals, Sequences, SequencesExt, FiniteSets

CONSTANTS
    None,
    Fold(_),            \* portable_path_key of one name
    Forbidden,          \* names validate_relative_path refuses
    ManifestPath,       \* <<"flyrail.json">>
    Jobs,               \* what to load: the directory's files at first, where the archive is
                        \* (origin None: load the directory itself), and what the other writer
                        \* is allowed: how many edits, of which paths, and what it writes
    Blocks,             \* what files are made of
    MaxClock,           \* how far the clock goes
    Manifest(_),        \* what a manifest's bytes say, None when they are refused
    ReadsOf(_),         \* what its records read, one by one
    Build(_, _),        \* the bundle of a manifest and what was read, or None
    Unpack(_),          \* the bundle in an archive's bytes, or None
    InMemory(_, _)      \* what a tree loads to when it is handed over at once

FileData == Blocks \X Blocks
ContentOK(content) ==
    /\ content.kind \in {"file", "dir", "special"}
    /\ content.kind = "file" => content.data \in FileData
NeedOK(need) == need # None => need.path \in Seq(STRING) \ {<<>>}

ASSUME JobsAssumption ==
    \A job \in Jobs :
        /\ IsFiniteSet(DOMAIN job.files) /\ DOMAIN job.files \subseteq Seq(STRING) \ {<<>>}
        /\ \A p \in DOMAIN job.files :
            /\ ContentOK(job.files[p])
            /\ Len(p) > 1 => Front(p) \in DOMAIN job.files /\ job.files[Front(p)].kind = "dir"
        /\ job.origin # None => job.origin \in Seq(STRING) \ {<<>>}
        /\ job.allowed.paths \subseteq Seq(STRING) \ {<<>>} /\ job.allowed.blocks \subseteq Blocks

\* A manifest that is read names what its records read, below the directory.
ASSUME ManifestAssumption ==
    /\ ManifestPath \in Seq(STRING) \ {<<>>}
    /\ \A data \in FileData :
        LET m == Manifest(data)
        IN  m # None => /\ ReadsOf(m) \in Seq(ToSet(ReadsOf(m)))
                        /\ \A need \in ToSet(ReadsOf(m)) : NeedOK(need)

ASSUME ClockAssumption == MaxClock \in Nat

VARIABLES
    fs,         \* path -> node
    clock, edits,
    past,       \* the trees there have been since the load began
    blurred,    \* a change that no signature shows has happened to what was looked at
    origin, allowed,
    todo, observed, directories, matches, listed, fd, buffer, manifest, tree, got, bundle,
    seen,       \* auxiliary: the files that were read, with what was in them
    result      \* "loading", "loaded" or why the load was refused

source == <<observed, directories, matches, listed>>
progress == <<fd, buffer, manifest, tree, got, bundle, seen>>
world == <<fs, clock, edits, past, blurred>>
vars == <<fs, clock, edits, past, blurred, origin, allowed, todo, observed, directories, matches, listed,
          fd, buffer, manifest, tree, got, bundle, seen, result>>

Root == <<>>
Signature(node) == [ino |-> node.ino, kind |-> node.kind, stamp |-> node.stamp]
Children(files, path) == {p \in DOMAIN files : Len(p) = Len(path) + 1 /\ SubSeq(p, 1, Len(path)) = path}
EntryNames(files, path, match) ==
    {n \in {Last(p) : p \in Children(files, path)} : match = None \/ Fold(n) = Fold(match)}
\* Below one of its directories.
Under(p, path) == Len(p) > Len(path) /\ SubSeq(p, 1, Len(path)) = path
View(files) == [p \in DOMAIN files \ {Root} |-> [kind |-> files[p].kind, data |-> files[p].data]]
Assign(function, key, value) ==
    [k \in DOMAIN function \cup {key} |-> IF k = key THEN value ELSE function[k]]

\* Ordered: a map that remembers the order of its keys.
Keys(map) == {map[i][1] : i \in DOMAIN map}
Get(map, key) == map[CHOOSE i \in DOMAIN map : map[i][1] = key][2]
Put(map, key, value) ==
    IF key \in Keys(map)
    THEN [i \in DOMAIN map |-> IF map[i][1] = key THEN <<key, value>> ELSE map[i]]
    ELSE Append(map, <<key, value>>)
Differs(map, key, value) == key \in Keys(map) /\ Get(map, key) # value
-----------------------------------------------------------------------------
(* The operations. *)

Op(op, path) == [op |-> op, path |-> path]
Observe(path, must) == [op |-> "observe", path |-> path, must |-> must]
List(path, match, enter) == [op |-> "list", path |-> path, match |-> match, enter |-> enter]
RecordAt(i) == [op |-> "record", at |-> i]
Collect(need) == [op |-> "collect", need |-> need]

Find(path, i) == [op |-> "find", path |-> path, at |-> i]

\* DirectorySource::new
New == <<Op("root", Root), Observe(Root, "dir"), List(Root, None, FALSE)>>

Read(path) == <<Observe(path, "file"), Op("read", path), Observe(path, "any")>>

Walk(path) == <<Observe(path, "any"), List(path, None, TRUE), Observe(path, "any"), List(path, None, FALSE)>>

\* read_file, tree_entries
Reading(need) ==
    CASE need = None -> <<>>
      [] need # None /\ need.read = "file" -> <<Find(need.path, 1)>> \o Read(need.path)
      [] OTHER -> <<Find(need.path, 1), Observe(need.path, "dir")>> \o Walk(need.path)

\* finish: everything observed, every listing, then every search.
ObservedAgain == [i \in DOMAIN observed |-> Observe(observed[i][1], "any")]
ListedAgain ==
    [i \in DOMAIN directories |-> List(directories[i][1], None, FALSE)]
        \o [i \in DOMAIN matches |-> List(matches[i][1][1], matches[i][1][2], FALSE)]

\* Mutant of Finish: the listings are looked at again, the files are not.
FinishListings == ListedAgain

Finish == ObservedAgain \o ListedAgain

\* from_directory reads the manifest first; from_zip the whole archive.
DirectoryPlan == New \o <<Find(ManifestPath, 1)>> \o Read(ManifestPath) \o <<Op("manifest", ManifestPath)>>
ArchivePlan(path) ==
    New \o <<Observe(path, "any"), Op("slurp", path), Op("resolve_origin", path), Op("finish", Root)>>

Pure == {"find", "manifest", "record", "collect", "build", "finish", "done"}
-----------------------------------------------------------------------------
FreshNode(content, path) ==
    [ino |-> [path |-> path, born |-> 0], kind |-> content.kind, data |-> content.data, stamp |-> 0]

Init ==
    /\ \E job \in Jobs :
           /\ fs = [p \in DOMAIN job.files \cup {Root} |->
                        IF p = Root THEN FreshNode([kind |-> "dir", data |-> None], Root)
                        ELSE FreshNode(job.files[p], p)]
           /\ past = {View(fs)} /\ origin = job.origin /\ allowed = job.allowed
    /\ clock = 1 /\ edits = 0 /\ blurred = FALSE
    /\ todo = IF origin = None THEN DirectoryPlan ELSE ArchivePlan(origin)
    /\ observed = <<>> /\ directories = <<>> /\ matches = <<>> /\ listed = {} /\ seen = {}
    /\ fd = None /\ buffer = <<>> /\ manifest = None /\ tree = <<>> /\ got = <<>> /\ bundle = None
    /\ result = "loading"

Next1 == Head(todo)
Doing(op) == result = "loading" /\ Next1.op = op
Refuse(why) ==
    /\ result' = why /\ todo' = <<>>
    /\ UNCHANGED <<world, origin, allowed, source, progress>>
Continue(ops) == todo' = ops \o Tail(todo) /\ UNCHANGED <<world, origin, allowed, result>>

KindOK(must, kind) == must \in {"any", "entry"} \/ must = kind

ObserveStep ==
    /\ Doing("observe")
    /\ LET path == Next1.path
       IN  IF path \notin DOMAIN fs
           THEN Refuse(IF path \in Keys(observed) \cup listed THEN "changed" ELSE "missing")
           ELSE IF fs[path].kind = "special" THEN Refuse("special")
           ELSE IF Differs(observed, path, Signature(fs[path])) THEN Refuse("changed")
           ELSE IF ~KindOK(Next1.must, fs[path].kind) THEN Refuse("kind")
           ELSE /\ observed' = Put(observed, path, Signature(fs[path]))
                /\ IF Next1.must # "entry" THEN Continue(<<>>) /\ UNCHANGED tree
                   ELSE IF fs[path].kind = "dir"
                   THEN Continue(Walk(path)) /\ tree' = Assign(tree, path, None)
                   ELSE Continue(Read(path)) /\ UNCHANGED tree
                /\ UNCHANGED <<directories, matches, listed, fd, buffer, manifest, got, bundle, seen>>

ListStep ==
    /\ Doing("list")
    /\ LET path  == Next1.path
           match == Next1.match
           names == EntryNames(fs, path, match)
           found == SetToSeq(names)
       IN  IF path \notin DOMAIN fs THEN Refuse("changed")
           ELSE IF fs[path].kind # "dir" THEN Refuse("io")
           ELSE IF \E m, n \in names : m # n /\ Fold(m) = Fold(n) THEN Refuse("collision")
           ELSE IF IF match = None THEN Differs(directories, path, names)
                   ELSE Differs(matches, <<path, match>>, names)
           THEN Refuse("changed")
           ELSE IF match # None /\ names # {match} THEN Refuse("mismatch")
           ELSE IF Next1.enter /\ names \cap Forbidden # {} THEN Refuse("name")
           ELSE /\ IF match = None THEN directories' = Put(directories, path, names) /\ UNCHANGED matches
                   ELSE matches' = Put(matches, <<path, match>>, names) /\ UNCHANGED directories
                /\ listed' = listed \cup {Append(path, n) : n \in names}
                /\ Continue(IF Next1.enter
                            THEN [i \in DOMAIN found |-> Observe(Append(path, found[i]), "entry")]
                            ELSE <<>>)
                /\ UNCHANGED <<observed, progress>>

\* find: one component after the other, spelled exactly.
FindStep ==
    /\ Doing("find")
    /\ LET path   == Next1.path
           i      == Next1.at
           parent == SubSeq(path, 1, i - 1)
       IN  Continue(IF i > Len(path) THEN <<>>
                    ELSE <<Observe(parent, "any"), List(parent, path[i], FALSE),
                           Observe(SubSeq(path, 1, i), "any"), Find(path, i + 1)>>)
    /\ UNCHANGED <<source, progress>>

\* What is open stays at the head of todo until it has been read.
Lstat ==
    /\ Doing("root") /\ fd = None
    /\ fd' = fs[Root]
    /\ UNCHANGED <<world, origin, allowed, todo, source, buffer, manifest, tree, got, bundle, seen, result>>
Resolve ==
    /\ Doing("root") /\ fd # None
    /\ IF Signature(fs[Root]) # Signature(fd) THEN Refuse("changed")
       ELSE fd' = None /\ Continue(<<>>) /\ UNCHANGED <<source, buffer, manifest, tree, got, bundle, seen>>
ResolveOrigin ==
    /\ Doing("resolve_origin")
    /\ IF Next1.path \notin DOMAIN fs THEN Refuse("missing")
       ELSE Continue(<<>>) /\ UNCHANGED <<source, progress>>

\* File::open and the check of what was opened against what was observed.
Open ==
    /\ Doing("read") /\ fd = None
    /\ IF Next1.path \notin DOMAIN fs THEN Refuse("changed")
       ELSE IF Signature(fs[Next1.path]) # Get(observed, Next1.path) THEN Refuse("changed")
       ELSE /\ fd' = fs[Next1.path] /\ buffer' = <<>>
            /\ UNCHANGED <<world, origin, allowed, todo, source, manifest, tree, got, bundle, seen, result>>
\* fs::read of the archive.
Slurp ==
    /\ Doing("slurp") /\ fd = None
    /\ IF Next1.path \notin DOMAIN fs THEN Refuse("missing")
       ELSE IF fs[Next1.path].kind # "file" THEN Refuse("io")
       ELSE /\ fd' = fs[Next1.path] /\ buffer' = <<>>
            /\ UNCHANGED <<world, origin, allowed, todo, source, manifest, tree, got, bundle, seen, result>>
Block ==
    /\ result = "loading" /\ Next1.op \in {"read", "slurp"} /\ fd # None /\ Len(buffer) < 2
    /\ buffer' = Append(buffer, fd.data[Len(buffer) + 1])
    /\ UNCHANGED <<world, origin, allowed, todo, source, fd, manifest, tree, got, bundle, seen, result>>
Close == fd' = None /\ buffer' = <<>> /\ seen' = seen \cup {<<Next1.path, buffer>>}
Fstat ==
    /\ Doing("read") /\ Len(buffer) = 2
    /\ IF Signature(fd) # Get(observed, Next1.path) THEN Refuse("changed")
       ELSE /\ tree' = Assign(tree, Next1.path, buffer)
            /\ Close /\ Continue(<<>>) /\ UNCHANGED <<source, manifest, got, bundle>>

ManifestStep ==
    /\ Doing("manifest")
    /\ \E m \in {Manifest(tree[Next1.path])} :
           IF m = None THEN Refuse("invalid")
           ELSE /\ manifest' = m /\ tree' = <<>>
                /\ Continue(<<RecordAt(1)>>) /\ UNCHANGED <<source, fd, buffer, got, bundle, seen>>

RecordStep ==
    /\ Doing("record")
    /\ \E needs \in {ReadsOf(manifest)} :
           Continue(IF Next1.at > Len(needs) THEN <<Op("build", Root)>>
                    ELSE Reading(needs[Next1.at]) \o <<Collect(needs[Next1.at]), RecordAt(Next1.at + 1)>>)
    /\ UNCHANGED <<source, progress>>

\* The entries of a tree by their path in it, with their executable intent.
Entries(files, need) ==
    LET below == {p \in DOMAIN files : Under(p, need.path)}
        In(p) == SubSeq(p, Len(need.path) + 1, Len(p))
    IN  [q \in {In(p) : p \in below} |->
             [data       |-> files[need.path \o q],
              executable |-> files[need.path \o q] # None /\ q \in ToSet(need.executables)]]
\* What a record reads, of files that hold this.
Fetched(files, need) ==
    CASE need = None -> <<>>
      [] need # None /\ need.read = "file" -> files[need.path]
      [] OTHER -> Entries(files, need)
CollectStep ==
    /\ Doing("collect")
    /\ got' = Append(got, Fetched(tree, Next1.need))
    /\ tree' = <<>>
    /\ Continue(<<>>) /\ UNCHANGED <<source, fd, buffer, manifest, bundle, seen>>

BuildStep ==
    /\ Doing("build")
    /\ \E b \in {Build(manifest, got)} :
           IF b = None THEN Refuse("invalid")
           ELSE bundle' = b /\ Continue(<<Op("finish", Root)>>)
                /\ UNCHANGED <<source, fd, buffer, manifest, tree, got, seen>>
UnpackStep ==
    /\ Doing("slurp") /\ Len(buffer) = 2
    /\ \E b \in {Unpack(buffer)} :
           IF b = None THEN Refuse("invalid")
           ELSE bundle' = b /\ Close /\ Continue(<<>>) /\ UNCHANGED <<source, manifest, tree, got>>

FinishStep ==
    /\ Doing("finish")
    /\ Continue(Finish \o <<Op("done", Root)>>)
    /\ UNCHANGED <<source, progress>>
Done ==
    /\ Doing("done")
    /\ result' = "loaded" /\ todo' = <<>>
    /\ UNCHANGED <<world, origin, allowed, source, progress>>
-----------------------------------------------------------------------------
(* The other writer. *)

Interferes ==
    /\ result = "loading" /\ Next1.op \notin Pure /\ edits < allowed.edits
    /\ edits' = edits + 1
    /\ UNCHANGED <<clock, origin, allowed, todo, source, buffer, manifest, tree, got, bundle, seen, result>>

\* A change of what was looked at, which looks the same afterwards.
Unnoticed(path) ==
    path \in Keys(observed) /\ Get(observed, path) = Signature(fs[path]) /\ fs[path].stamp = clock
Stamped(node) == [ino |-> node.ino, kind |-> node.kind, data |-> node.data, stamp |-> clock]

\* In place: an open file sees it.
Overwrite(path, at, block) ==
    /\ Interferes
    /\ path \in DOMAIN fs /\ fs[path].kind = "file" /\ fs[path].data[at] # block
    /\ LET new == [Stamped(fs[path]) EXCEPT !.data = [fs[path].data EXCEPT ![at] = block]]
       IN  /\ fs' = [fs EXCEPT ![path] = new]
           /\ fd' = IF fd # None /\ fd.ino = new.ino THEN new ELSE fd
    /\ blurred' = (blurred \/ Unnoticed(path))
    /\ past' = past \cup {View(fs')}

\* Something new under this name, or in its place.
PutThere(path, content) ==
    /\ Interferes
    /\ Front(path) \in DOMAIN fs /\ fs[Front(path)].kind = "dir" /\ Children(fs, path) = {}
    /\ LET new == [ino |-> [path |-> path, born |-> edits + 1], kind |-> content.kind, data |-> content.data, stamp |-> clock]
       IN  fs' = Assign([fs EXCEPT ![Front(path)] = Stamped(@)], path, new)
    /\ blurred' = (blurred \/ Unnoticed(Front(path)))
    /\ past' = past \cup {View(fs')}
    /\ UNCHANGED fd

Erase(path) ==
    /\ Interferes
    /\ path \in DOMAIN fs /\ Children(fs, path) = {}
    /\ fs' = [p \in DOMAIN fs \ {path} |-> IF p = Front(path) THEN Stamped(fs[p]) ELSE fs[p]]
    /\ blurred' = (blurred \/ Unnoticed(Front(path)))
    /\ past' = past \cup {View(fs')}
    /\ UNCHANGED fd

Tick ==
    /\ result = "loading" /\ Next1.op \notin Pure /\ clock < MaxClock
    /\ edits > 0 /\ clock' = clock + 1
    /\ UNCHANGED <<fs, edits, past, blurred, origin, allowed, todo, source, progress, result>>

Writer ==
    \/ \E path \in allowed.paths, at \in 1..2, block \in allowed.blocks : Overwrite(path, at, block)
    \/ \E path \in allowed.paths, block \in allowed.blocks : PutThere(path, [kind |-> "file", data |-> <<block, block>>])
    \/ \E path \in allowed.paths, kind \in {"dir", "special"} : PutThere(path, [kind |-> kind, data |-> None])
    \/ \E path \in allowed.paths : Erase(path)
    \/ Tick

Load ==
    \/ ObserveStep \/ ListStep \/ FindStep \/ Lstat \/ Resolve \/ ResolveOrigin \/ Open \/ Slurp \/ Block \/ Fstat
    \/ ManifestStep \/ RecordStep \/ CollectStep \/ BuildStep \/ UnpackStep \/ FinishStep \/ Done

Next == Load \/ Writer

Spec == Init /\ [][Next]_vars
-----------------------------------------------------------------------------
\* The bundle is that of a tree: it is what the tree's archive holds, or what
\* the records of its manifest read there.
HasFile(moment, path) == path \in DOMAIN moment /\ moment[path].kind = "file"
HasTree(moment, path) ==
    /\ path \in DOMAIN moment /\ moment[path].kind = "dir"
    /\ \A p \in DOMAIN moment : Under(p, path) => moment[p].kind # "special"
HasNeed(moment, need) ==
    need # None => IF need.read = "file" THEN HasFile(moment, need.path) ELSE HasTree(moment, need.path)
HeldBy(moment) ==
    LET files == [p \in DOMAIN moment |-> IF moment[p].kind = "file" THEN moment[p].data ELSE None]
        m     == Manifest(files[ManifestPath])
        needs == ReadsOf(m)
    IN  IF origin # None THEN HasFile(moment, origin) /\ bundle = Unpack(files[origin])
        ELSE /\ HasFile(moment, ManifestPath) /\ m # None
             /\ \A i \in DOMAIN needs : HasNeed(moment, needs[i])
             /\ bundle = Build(m, [i \in DOMAIN needs |-> Fetched(files, needs[i])])

\* A bundle that loads is what the directory held at one moment of the load, as
\* far as signatures can tell, whoever wrote there meanwhile: DirectorySource
\* compares and looks again at everything it has read.
LoadsOneMoment ==
    result = "loaded" /\ ~blurred => \E moment \in past : HeldBy(moment)

\* A directory and an archive load to what the files of that moment load to
\* from memory; and undisturbed they are refused only when those are or when
\* two names of one directory are the same name to a portable file system.
CalmLoadsAgree ==
    /\ result = "loaded" =>
        \A moment \in past : HeldBy(moment) => bundle = InMemory(moment, origin)
    /\ result # "loading" /\ edits = 0 =>
        result = "loaded" \/ InMemory(View(fs), origin) = None \/ result = "collision"
=============================================================================

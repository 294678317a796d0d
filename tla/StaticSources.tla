---------------------------- MODULE StaticSources ----------------------------
(***************************************************************************)
(* A bundle read from memory or from a ZIP archive: the sources that       *)
(* nobody changes while they are read.                                     *)
(*                                                                         *)
(* An archive is a disk, a sequence of cells, with a central directory of  *)
(* members at its end.  A member names a file or a directory and tells     *)
(* where its local header is; the cells behind that header are its bytes.  *)
(* Decompression, sizes and checksums are what they establish: the member  *)
(* has exactly the bytes that were packed.                                 *)
(***************************************************************************)
EXTENDS BundleFormat

CONSTANTS
    ManifestFile,   \* "flyrail.json"
    Parse(_),       \* Json::parse of the manifest's bytes, None when malformed
    Unreadable      \* the bytes of a file that cannot be read

\* Where the bytes of a member end at the latest: at the next local header, or
\* at the central directory.
EndOffset(archive, member) ==
    LET later == {m.offset : m \in ToSet(archive.members)} \cup {archive.directory}
        next  == {o \in later : o > member.offset}
    IN  CHOOSE o \in next : \A n \in next : o <= n

Decompressed(member, cells) ==
    CASE member.method = "stored" -> cells
      [] member.method = "deflated" /\ \A i \in DOMAIN cells : "packed" \in DOMAIN cells[i] ->
             [i \in DOMAIN cells |-> cells[i].packed]
      [] OTHER -> Unreadable

\* Mutant of ReadMember: the local header is not compared.
ReadByCentralRecord(archive, member) ==
    LET start == member.offset + 1
        cells == SubSeq(archive.disk, start, start + member.size - 1)
    IN  IF \/ start + member.size > EndOffset(archive, member)
           \/ member.flags # {}
        THEN Unreadable
        ELSE Decompressed(member, cells)

\* Archive::read
ReadMember(archive, member) ==
    LET start == member.offset + 1
        cells == SubSeq(archive.disk, start, start + member.size - 1)
        data  == Decompressed(member, cells)
    IN  IF \/ archive.disk[member.offset] # [header |-> member.name, slash |-> member.slash]
           \/ member.flags # {}
           \/ start + member.size > EndOffset(archive, member)
           \/ data # member.packed
        THEN Unreadable
        ELSE data

\* The part of the archive that matters: the root, what is under it and what
\* leads to it, in any spelling.
InScope(path, root) ==
    LET k == PortableKey(path)  r == PortableKey(root)
    IN  k = r \/ IsUnder(k, r) \/ IsUnder(r, k)

MemberOK(member) ==
    /\ ValidPath(member.name) /\ ~member.ambiguous
    /\ member.unix \in {"none", IF member.slash THEN "dir" ELSE "file"}
    /\ ~member.reparse

Collides(m, n) ==
    \/ m.name = n.name
    \/ ~m.slash /\ IsUnder(n.name, m.name)

\* ZipSource::new: the tree under root, None when the archive is refused.
ZipTree(archive, root) ==
    LET members  == archive.members
        selected == {i \in DOMAIN members : InScope(members[i].name, root)}
        paths    == UNION {{p \in Ancestors(members[i].name) : InScope(p, root)} : i \in DOMAIN members}
        entries  == UNION {Ancestors(members[i].name) : i \in selected}
        files    == {i \in selected : ~members[i].slash}
        NodeAt(p) == IF \E i \in files : members[i].name = p
                     THEN [data |-> ReadMember(archive, members[CHOOSE i \in files : members[i].name = p]),
                           executable |-> FALSE]
                     ELSE Folder
    IN  IF /\ \A p \in paths : ValidPath(p)
           /\ \A p, q \in paths : PortableKey(p) = PortableKey(q) => p = q
           /\ \A i \in selected : MemberOK(members[i])
           /\ \A i, j \in selected : i # j => ~Collides(members[i], members[j])
           /\ root \in entries /\ NodeAt(root) = Folder
        THEN [p \in {Below(q, root) : q \in {e \in entries : IsUnder(e, root)}} |-> NodeAt(root \o p)]
        ELSE None
-----------------------------------------------------------------------------
(* Reading from a tree that is all there: MemorySource and ZipSource. *)

\* read_file
FileAt(tree, path) ==
    IF path \in DOMAIN tree /\ tree[path].data \notin {None, Unreadable} THEN tree[path].data ELSE None

\* tree_entries: every entry with its path in the tree and its executable
\* intent, as BundleEntry::new accepts them.
TreeAt(tree, path, executables) ==
    LET below == {p \in DOMAIN tree : IsUnder(p, path)}
        paths == {Below(p, path) : p \in below}
    IN  IF \/ path \notin DOMAIN tree \/ tree[path].data # None
           \/ \E p \in below : tree[p].data = Unreadable
           \/ \E q \in paths : ~EntryOK(Entry(q, [data |-> tree[path \o q].data,
                                                  executable |-> q \in ToSet(executables)]))
        THEN None
        ELSE [q \in paths |-> [data |-> tree[path \o q].data, executable |-> q \in ToSet(executables)]]

Fetch(tree, need) ==
    CASE need = None -> <<>>
      [] need # None /\ need.read = "file" -> FileAt(tree, need.path)
      [] OTHER -> TreeAt(tree, need.path, need.executables)

\* Bundle::from_source over such a source: what Bundle::from_memory and from_zip end in.
LoadFrom(tree, data) ==
    LET m   == IF data = None THEN None ELSE Parse(data)
        got == [i \in DOMAIN Records(m) |-> Fetch(tree, RecordNeed(m, i))]
    IN  IF m = None \/ ~ManifestOK(m) THEN None
        ELSE IF \E i \in DOMAIN Records(m) : got[i] = None THEN None
        ELSE Assemble(m, got)

\* Bundle::from_zip, once the archive has been read.
FromArchive(archive, root) ==
    LET tree == IF archive = None THEN None ELSE ZipTree(archive, root)
    IN  IF tree = None THEN None ELSE LoadFrom(tree, FileAt(tree, <<ManifestFile>>))
=============================================================================

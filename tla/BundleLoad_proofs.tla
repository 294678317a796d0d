-------------------------- MODULE BundleLoad_proofs --------------------------
(***************************************************************************)
(* A bundle that loads is what the directory held at one moment of the     *)
(* load, for every directory, manifest and writer.                         *)
(*                                                                         *)
(* The argument.  A path that shows the signature it was first observed    *)
(* with has not changed since, unless a change was not visible in the      *)
(* signature (blurred): inodes are not used again and the clock does not   *)
(* go back, so a path that stopped matching never matches again.  What was *)
(* read of a path that still matches is therefore what it holds: Faithful. *)
(* When finish begins, the tree there is then is the moment: what matches  *)
(* at any later look matched then, and everything observed is looked at    *)
(* again (Witness).  The rest relates what was gathered to the facts it    *)
(* came from: a tree is whole when each of its directories was listed and  *)
(* everything listed was taken (Gathers, Covers).                          *)
(***************************************************************************)
EXTENDS BundleLoad, FiniteSetTheorems, SequenceTheorems, TLAPS

Paths == Seq(STRING)
IsSeq(s) == \E S : s \in Seq(S)
MapOK(map) ==
    /\ IsSeq(map)
    /\ \A i, j \in DOMAIN map : map[i][1] = map[j][1] => i = j

Facts == [observed |-> observed, directories |-> directories, seen |-> seen]
KindIn(K, p) == Get(K.observed, p).kind
FactsOK(K) ==
    /\ MapOK(K.observed) /\ MapOK(K.directories)
    /\ Keys(K.observed) \subseteq Paths /\ Keys(K.directories) \subseteq Keys(K.observed)
    /\ \A p \in Keys(K.observed) : KindIn(K, p) \in {"file", "dir"}
    /\ \A d \in Keys(K.directories) : Get(K.directories, d) \subseteq STRING
    /\ \A s \in K.seen : s \in Paths \X FileData /\ s[1] \in Keys(K.observed)
MoreFacts(K, L) ==
    /\ \A p \in Keys(K.observed) : p \in Keys(L.observed) /\ Get(L.observed, p) = Get(K.observed, p)
    /\ \A d \in Keys(K.directories) : d \in Keys(L.directories) /\ Get(L.directories, d) = Get(K.directories, d)
    /\ K.seen \subseteq L.seen

Matches(K, files, p) == p \in Keys(K.observed) /\ p \in DOMAIN files /\ Signature(files[p]) = Get(K.observed, p)
Faithful(K, files) ==
    /\ \A s \in K.seen :
        Matches(K, files, s[1]) => files[s[1]].kind = "file" /\ files[s[1]].data = s[2]
    /\ \A d \in Keys(K.directories) :
        Matches(K, files, d) => EntryNames(files, d, None) = Get(K.directories, d)

FsOK(files) ==
    /\ Root \in DOMAIN files /\ files[Root].kind = "dir"
    /\ DOMAIN files \subseteq Paths /\ IsFiniteSet(DOMAIN files)
    /\ \A p \in DOMAIN files :
        /\ ContentOK(files[p])
        /\ files[p].ino.path = p /\ files[p].ino.born \in Nat /\ files[p].stamp \in Nat
    /\ \A p \in DOMAIN files \ {Root} : Front(p) \in DOMAIN files /\ files[Front(p)].kind = "dir"
WorldOK ==
    /\ FsOK(fs) /\ clock \in Nat /\ edits \in Nat
    /\ \A p \in DOMAIN fs : fs[p].ino.born <= edits /\ fs[p].stamp <= clock
    /\ View(fs) \in past /\ blurred \in BOOLEAN
    /\ allowed.paths \subseteq Paths \ {Root} /\ allowed.blocks \subseteq Blocks
    /\ origin # None => origin \in Paths \ {Root}
Looked(K, files, time, count) ==
    \A p \in Keys(K.observed) :
        LET s == Get(K.observed, p)
        IN  /\ s.ino.born \in Nat /\ s.ino.born <= count /\ s.stamp \in Nat /\ s.stamp <= time
            /\ p \in DOMAIN files /\ files[p].ino = s.ino => files[p].kind = s.kind /\ s.stamp <= files[p].stamp

Uses(o) == o.op \in {"read", "slurp"} \/ (o.op = "list" /\ o.match = None)
Ready(K, o) == o.path \in Keys(K.observed) /\ (o.op = "read" => KindIn(K, o.path) = "file")
Prepares(b, o) == b.op = "observe" /\ b.path = o.path /\ (o.op = "read" => b.must = "file")
Chained(K, ops) ==
    \A i \in DOMAIN ops : Uses(ops[i]) => Ready(K, ops[i]) \/ (i > 1 /\ Prepares(ops[i - 1], ops[i]))

Opened ==
    \/ fd = None /\ buffer = <<>>
    \/ Next1.op = "root" /\ buffer = <<>>
    \/ /\ Next1.op \in {"read", "slurp"}
       /\ fd.kind = "file" /\ fd.data \in FileData
       /\ buffer \in Seq(Blocks) /\ Len(buffer) <= 2
       /\ ~blurred /\ Matches(Facts, fs, Next1.path) =>
            fs[Next1.path] = fd /\ \A j \in 1..Len(buffer) : buffer[j] = fd.data[j]

Entry(o) == o.op = "observe" /\ o.must = "entry"
Enters(o) == o.op = "list" /\ o.enter
Fetch(o) ==
    /\ o.op \in {"root", "find", "observe", "list", "read"} /\ o.path \in Paths
    /\ o.op = "find" => o.at \in Nat \ {0}
    /\ Enters(o) => o.match = None
FileTarget(K, t, path, ops) ==
    /\ \A o \in ops : ~Entry(o) /\ ~Enters(o) /\ (o.op = "read" => o.path = path)
    /\ (\E o \in ops : o.op = "read") \/ (path \in DOMAIN t /\ <<path, t[path]>> \in K.seen)

Gathers(K, t, r) ==
    \A p \in DOMAIN t :
        /\ Under(p, r) /\ p \in Keys(K.observed)
        /\ \/ KindIn(K, p) = "dir" /\ t[p] = None
           \/ KindIn(K, p) = "file" /\ <<p, t[p]>> \in K.seen
Due(ops, p) == \E o \in ops : o.path = p /\ (Entry(o) \/ o.op = "read")
Entered(ops, d) == \E o \in ops : o.path = d /\ Enters(o)
Covers(K, t, r, ops) ==
    \A d \in {r} \cup {p \in DOMAIN t : KindIn(K, p) = "dir"} :
        \/ Entered(ops, d)
        \/ /\ d \in Keys(K.directories)
           /\ \A n \in Get(K.directories, d) : Append(d, n) \in DOMAIN t \/ Due(ops, Append(d, n))
IsDir(K, r) == r \in Keys(K.observed) /\ KindIn(K, r) = "dir"
Whole(K, t, r) == IsDir(K, r) /\ Gathers(K, t, r) /\ Covers(K, t, r, {})
TreeTarget(K, t, r, ops) ==
    /\ \A o \in ops : /\ Entry(o) \/ o.op = "read" => Under(o.path, r)
                      /\ Enters(o) => o.path = r \/ Under(o.path, r)
    /\ Observe(r, "dir") \in ops \/ IsDir(K, r)
    /\ Gathers(K, t, r) /\ Covers(K, t, r, ops)
Target(K, t, need, ops) ==
    need # None => IF need.read = "file" THEN FileTarget(K, t, need.path, ops) ELSE TreeTarget(K, t, need.path, ops)

Got(K, need, x) ==
    CASE need = None -> x = <<>>
      [] need # None /\ need.read = "file" -> <<need.path, x>> \in K.seen
      [] OTHER -> \E t : x = Entries(t, need) /\ Whole(K, t, need.path)
Manifested(K, m) == \E data \in FileData : <<ManifestPath, data>> \in K.seen /\ m = Manifest(data) /\ m # None
GotAll(K, m, g) ==
    /\ Manifested(K, m) /\ IsSeq(g) /\ Len(g) <= Len(ReadsOf(m))
    /\ \A i \in 1..Len(g) : Got(K, ReadsOf(m)[i], g[i])
Acquired(K) ==
    IF origin = None
    THEN GotAll(K, manifest, got) /\ Len(got) = Len(ReadsOf(manifest)) /\ bundle = Build(manifest, got)
    ELSE \E data \in FileData : <<origin, data>> \in K.seen /\ bundle = Unpack(data)

Manifesting(pre) ==
    /\ origin = None /\ got = <<>> /\ IsSeq(pre) /\ todo = pre \o <<Op("manifest", ManifestPath)>>
    /\ \A o \in ToSet(pre) : Fetch(o)
    /\ FileTarget(Facts, tree, ManifestPath, ToSet(pre))
CollectEnd(m, g) == <<Collect(ReadsOf(m)[Len(g) + 1]), RecordAt(Len(g) + 2)>>
Fetching(pre) ==
    /\ origin = None /\ GotAll(Facts, manifest, got) /\ Len(got) < Len(ReadsOf(manifest))
    /\ IsSeq(pre) /\ todo = pre \o CollectEnd(manifest, got)
    /\ \A o \in ToSet(pre) : Fetch(o)
    /\ Target(Facts, tree, ReadsOf(manifest)[Len(got) + 1], ToSet(pre))
Recording ==
    /\ origin = None /\ GotAll(Facts, manifest, got)
    /\ todo = <<RecordAt(Len(got) + 1)>> /\ tree = <<>>
Building ==
    /\ origin = None /\ GotAll(Facts, manifest, got) /\ Len(got) = Len(ReadsOf(manifest))
    /\ todo = <<Op("build", Root)>>
Plain(o) == o.op \in {"root", "observe", "list"} /\ o.path \in Paths /\ ~Entry(o) /\ ~Enters(o)
ResolveEnd(where) == <<Op("resolve_origin", where), Op("finish", Root)>>
ArchiveEnd(where) == <<Op("slurp", where)>> \o ResolveEnd(where)
Unpacking(pre) ==
    /\ origin # None /\ IsSeq(pre) /\ todo = pre \o ArchiveEnd(origin)
    /\ \A o \in ToSet(pre) : Plain(o)
Resolving ==
    origin # None /\ todo = ResolveEnd(origin) /\ Acquired(Facts)
Finishing == todo = <<Op("finish", Root)>> /\ Acquired(Facts)
Closes(K, o) ==
    \/ o.op = "observe" /\ o.must = "any" /\ o.path \in Keys(K.observed)
    \/ o.op = "list" /\ ~o.enter /\ (o.match = None => o.path \in Keys(K.directories))
\* old: the tree when the last look began.
Witness(K, old, ops) ==
    /\ FsOK(old) /\ View(old) \in past /\ Faithful(K, old)
    /\ \A p \in Keys(K.observed) :
        /\ Matches(K, fs, p) => Matches(K, old, p)
        /\ Matches(K, old, p) \/ Observe(p, "any") \in ops
Closing(pre) ==
    /\ Acquired(Facts) /\ IsSeq(pre) /\ todo = pre \o <<Op("done", Root)>>
    /\ \A o \in ToSet(pre) : Closes(Facts, o)
    /\ blurred \/ \E old : Witness(Facts, old, ToSet(pre))
Early ==
    \/ \E pre : Manifesting(pre) \/ Fetching(pre) \/ Unpacking(pre)
    \/ Recording \/ Building \/ Resolving \/ Finishing
Phase == Early \/ \E pre : Closing(pre)

MatchesOK == IsSeq(matches) /\ \A i \in DOMAIN matches : matches[i][1][2] # None
Loading ==
    /\ WorldOK /\ FactsOK(Facts) /\ Looked(Facts, fs, clock, edits) /\ MatchesOK
    /\ Chained(Facts, todo) /\ Opened
    /\ blurred \/ Faithful(Facts, fs)
    /\ Phase
IInv ==
    /\ result = "loading" => Loading
    /\ LoadsOneMoment
-----------------------------------------------------------------------------
(* Sequences. *)

LEMMA SeqFacts ==
    ASSUME NEW s, IsSeq(s)
    PROVE  /\ Len(s) \in Nat /\ DOMAIN s = 1..Len(s) /\ s \in Seq(ToSet(s))
           /\ \A i \in 1..Len(s) : s[i] \in ToSet(s)
           /\ s = <<>> <=> Len(s) = 0
  <1>1. PICK S : s \in Seq(S)
    BY DEF IsSeq
  <1>2. Len(s) \in Nat /\ DOMAIN s = 1..Len(s) /\ s \in [1..Len(s) -> S]
    BY <1>1, LenProperties
  <1>3. s \in [1..Len(s) -> ToSet(s)]
    BY <1>2 DEF ToSet
  <1>4. s \in Seq(ToSet(s))
    BY <1>2, <1>3
  <1>5. s = <<>> <=> Len(s) = 0
    BY <1>1, EmptySeq
  <1> QED
    BY <1>2, <1>3, <1>4, <1>5

LEMMA ConcatFacts ==
    ASSUME NEW s, NEW t, IsSeq(s), IsSeq(t)
    PROVE  /\ IsSeq(s \o t) /\ Len(s \o t) = Len(s) + Len(t)
           /\ \A i \in 1..Len(s) : (s \o t)[i] = s[i]
           /\ \A i \in 1..Len(t) : (s \o t)[Len(s) + i] = t[i]
           /\ ToSet(s \o t) = ToSet(s) \cup ToSet(t)
  <1> DEFINE S == ToSet(s) \cup ToSet(t)
  <1>1. s \in Seq(ToSet(s)) /\ t \in Seq(ToSet(t))
    BY SeqFacts
  <1>2. s \in Seq(S) /\ t \in Seq(S)
    BY <1>1, SeqMonotonic, Zenon
  <1>3. /\ s \o t \in Seq(S) /\ Len(s \o t) = Len(s) + Len(t)
        /\ \A i \in 1..Len(s) + Len(t) : (s \o t)[i] = IF i <= Len(s) THEN s[i] ELSE t[i - Len(s)]
    <2> HIDE DEF S
    <2> QED
      BY <1>2, ConcatProperties
  <1>4. Len(s) \in Nat /\ Len(t) \in Nat /\ DOMAIN s = 1..Len(s) /\ DOMAIN t = 1..Len(t)
    BY SeqFacts
  <1>5. IsSeq(s \o t)
    BY <1>3, Zenon DEF IsSeq
  <1>6. DOMAIN (s \o t) = 1..Len(s) + Len(t)
    BY <1>3, <1>5, SeqFacts
  <1>7. \A i \in 1..Len(s) : (s \o t)[i] = s[i]
    BY <1>3, <1>4
  <1>8. \A i \in 1..Len(t) : (s \o t)[Len(s) + i] = t[i]
    BY <1>3, <1>4
  <1>9. ASSUME NEW x PROVE x \in ToSet(s \o t) <=> x \in S
    <2>1. ASSUME x \in ToSet(s \o t) PROVE x \in S
      BY <2>1, <1>3, <1>4, <1>6 DEF ToSet
    <2>2. ASSUME x \in ToSet(s) PROVE x \in ToSet(s \o t)
      BY <2>2, <1>4, <1>6, <1>7 DEF ToSet
    <2>3. ASSUME x \in ToSet(t) PROVE x \in ToSet(s \o t)
      <3>1. PICK i \in 1..Len(t) : x = t[i]
        BY <2>3, <1>4 DEF ToSet
      <3>2. Len(s) + i \in 1..Len(s) + Len(t) /\ (s \o t)[Len(s) + i] = x
        BY <3>1, <1>4, <1>8
      <3> QED
        BY <3>2, <1>6 DEF ToSet
    <2> QED
      BY <2>1, <2>2, <2>3
  <1> QED
    BY <1>3, <1>5, <1>7, <1>8, <1>9

LEMMA Regroup ==
    ASSUME NEW s, NEW t, NEW u, IsSeq(s), IsSeq(t), IsSeq(u)
    PROVE  s \o (t \o u) = (s \o t) \o u
  <1> DEFINE S == ToSet(s) \cup ToSet(t) \cup ToSet(u)
  <1>1. s \in Seq(ToSet(s)) /\ t \in Seq(ToSet(t)) /\ u \in Seq(ToSet(u))
    BY SeqFacts
  <1>2. s \in Seq(S) /\ t \in Seq(S) /\ u \in Seq(S)
    BY <1>1, SeqMonotonic, Zenon
  <1> HIDE DEF S
  <1> QED
    BY <1>2, ConcatAssociative

LEMMA TailFacts ==
    ASSUME NEW s, IsSeq(s), s # <<>>
    PROVE  /\ IsSeq(Tail(s)) /\ Len(Tail(s)) = Len(s) - 1 /\ Head(s) = s[1] /\ Len(s) > 0
           /\ \A i \in 1..Len(Tail(s)) : Tail(s)[i] = s[i + 1]
           /\ ToSet(s) = {Head(s)} \cup ToSet(Tail(s))
  <1>1. s \in Seq(ToSet(s)) /\ Len(s) \in Nat /\ DOMAIN s = 1..Len(s) /\ Len(s) # 0
    BY SeqFacts
  <1>2. /\ Tail(s) \in Seq(ToSet(s)) /\ Len(Tail(s)) = Len(s) - 1
        /\ \A i \in 1..Len(Tail(s)) : Tail(s)[i] = s[i + 1]
    BY <1>1, HeadTailProperties
  <1>3. IsSeq(Tail(s)) /\ Head(s) = s[1]
    BY <1>1, <1>2 DEF IsSeq
  <1>4. DOMAIN Tail(s) = 1..Len(s) - 1
    BY <1>2, <1>3, SeqFacts
  <1>5. ASSUME NEW x PROVE x \in ToSet(s) <=> x = Head(s) \/ x \in ToSet(Tail(s))
    <2>1. ASSUME x \in ToSet(s), x # Head(s) PROVE x \in ToSet(Tail(s))
      <3>1. PICK i \in 1..Len(s) : x = s[i]
        BY <2>1, <1>1 DEF ToSet
      <3>2. i - 1 \in 1..Len(s) - 1 /\ Tail(s)[i - 1] = x
        BY <3>1, <2>1, <1>1, <1>2, <1>3
      <3> QED
        BY <3>2, <1>4 DEF ToSet
    <2>2. ASSUME x \in ToSet(Tail(s)) PROVE x \in ToSet(s)
      <3>1. PICK i \in 1..Len(s) - 1 : x = Tail(s)[i]
        BY <2>2, <1>4 DEF ToSet
      <3>2. i + 1 \in 1..Len(s) /\ s[i + 1] = x
        BY <3>1, <1>1, <1>2
      <3> QED
        BY <3>2, <1>1 DEF ToSet
    <2>3. Head(s) \in ToSet(s)
      BY <1>1, <1>3 DEF ToSet
    <2> QED
      BY <2>1, <2>2, <2>3
  <1> QED
    BY <1>1, <1>2, <1>3, <1>5

\* What replaces the head of what is left: the end stays.
LEMMA StepBefore ==
    ASSUME NEW pre, NEW end, NEW ops, IsSeq(pre), IsSeq(end), IsSeq(ops), pre # <<>>
    PROVE  /\ Head(pre \o end) = Head(pre)
           /\ ops \o Tail(pre \o end) = (ops \o Tail(pre)) \o end
           /\ IsSeq(ops \o Tail(pre)) /\ ToSet(ops \o Tail(pre)) = ToSet(ops) \cup ToSet(Tail(pre))
           /\ ToSet(pre) = {Head(pre)} \cup ToSet(Tail(pre))
  <1> DEFINE S == ToSet(pre) \cup ToSet(end) \cup ToSet(ops)
  <1>1. pre \in Seq(ToSet(pre)) /\ end \in Seq(ToSet(end)) /\ ops \in Seq(ToSet(ops))
    BY SeqFacts
  <1>2. pre \in Seq(S) /\ end \in Seq(S) /\ ops \in Seq(S)
    BY <1>1, SeqMonotonic, Zenon
  <1> HIDE DEF S
  <1>3. Tail(pre) \in Seq(S) /\ IsSeq(Tail(pre)) /\ Len(Tail(pre)) = Len(pre) - 1 /\ Len(pre) > 0 /\ Len(pre) \in Nat
    BY <1>2, TailFacts, HeadTailProperties, SeqFacts
  <1>4. pre \o end # <<>> /\ IsSeq(pre \o end) /\ pre \o end \in Seq(S)
    <2>1. Len(pre \o end) = Len(pre) + Len(end) /\ Len(end) \in Nat /\ pre \o end \in Seq(S)
      BY <1>2, ConcatProperties, SeqFacts
    <2> QED
      BY <2>1, <1>3, SeqFacts DEF IsSeq
  <1>5. Tail(pre \o end) = Tail(pre) \o end
    <2>1. /\ Len(Tail(pre \o end)) = Len(pre) + Len(end) - 1
          /\ \A i \in 1..Len(Tail(pre \o end)) : Tail(pre \o end)[i] = (pre \o end)[i + 1]
          /\ Tail(pre \o end) \in Seq(S)
      BY <1>2, <1>4, HeadTailProperties, ConcatProperties
    <2>2. /\ Len(Tail(pre) \o end) = Len(pre) - 1 + Len(end) /\ Tail(pre) \o end \in Seq(S)
          /\ \A i \in 1..Len(pre) - 1 + Len(end) :
                (Tail(pre) \o end)[i] = IF i <= Len(pre) - 1 THEN Tail(pre)[i] ELSE end[i - (Len(pre) - 1)]
      BY <1>2, <1>3, ConcatProperties
    <2>3. \A i \in 1..Len(pre) + Len(end) : (pre \o end)[i] = IF i <= Len(pre) THEN pre[i] ELSE end[i - Len(pre)]
      BY <1>2, ConcatProperties
    <2>4. \A i \in 1..Len(pre) - 1 : Tail(pre)[i] = pre[i + 1]
      BY <1>3, TailFacts
    <2>5. Len(end) \in Nat
      BY SeqFacts
    <2>6. \A i \in 1..Len(Tail(pre \o end)) : Tail(pre \o end)[i] = (Tail(pre) \o end)[i]
      BY <2>1, <2>2, <2>3, <2>4, <2>5, <1>3
    <2>7. Len(Tail(pre \o end)) = Len(Tail(pre) \o end)
      BY <2>1, <2>2, <2>5, <1>3
    <2> QED
      BY <2>1, <2>2, <2>6, <2>7, SeqEqual
  <1>6. ops \o (Tail(pre) \o end) = (ops \o Tail(pre)) \o end
    BY <1>2, <1>3, ConcatAssociative
  <1>7. Head(pre \o end) = (pre \o end)[1] /\ (pre \o end)[1] = pre[1] /\ Head(pre) = pre[1]
    BY <1>3, <1>4, TailFacts, ConcatFacts
  <1>8. /\ IsSeq(ops \o Tail(pre)) /\ ToSet(ops \o Tail(pre)) = ToSet(ops) \cup ToSet(Tail(pre))
        /\ ToSet(pre) = {Head(pre)} \cup ToSet(Tail(pre))
    BY <1>3, ConcatFacts, TailFacts
  <1> QED
    BY <1>5, <1>6, <1>7, <1>8

LEMMA EmptyFacts == IsSeq(<<>>) /\ ToSet(<<>>) = {} /\ \A s : IsSeq(s) => <<>> \o s = s
  <1>1. IsSeq(<<>>) /\ ToSet(<<>>) = {}
    BY DEF IsSeq, ToSet
  <1>2. ASSUME NEW s, IsSeq(s) PROVE <<>> \o s = s
    BY <1>2, ConcatEmptySeq DEF IsSeq
  <1> QED
    BY <1>1, <1>2

LEMMA TupleFacts ==
    /\ \A a : IsSeq(<<a>>) /\ ToSet(<<a>>) = {a} /\ Head(<<a>>) = a /\ Tail(<<a>>) = <<>>
    /\ \A a, b : IsSeq(<<a, b>>) /\ ToSet(<<a, b>>) = {a, b} /\ Head(<<a, b>>) = a /\ Tail(<<a, b>>) = <<b>>
    /\ \A a, b, c : IsSeq(<<a, b, c>>) /\ ToSet(<<a, b, c>>) = {a, b, c}
    /\ \A a, b, c, d : IsSeq(<<a, b, c, d>>) /\ ToSet(<<a, b, c, d>>) = {a, b, c, d}
  <1>1. ASSUME NEW a PROVE IsSeq(<<a>>) /\ ToSet(<<a>>) = {a} /\ Head(<<a>>) = a /\ Tail(<<a>>) = <<>>
    <2>1. <<a>> \in Seq({a})
      OBVIOUS
    <2>2. ToSet(<<a>>) = {a}
      BY DEF ToSet
    <2> QED
      BY <2>1, <2>2 DEF IsSeq
  <1>2. ASSUME NEW a, NEW b
        PROVE  IsSeq(<<a, b>>) /\ ToSet(<<a, b>>) = {a, b} /\ Head(<<a, b>>) = a /\ Tail(<<a, b>>) = <<b>>
    <2>1. <<a, b>> \in Seq({a, b})
      OBVIOUS
    <2>2. ToSet(<<a, b>>) = {a, b}
      BY DEF ToSet
    <2>3. Tail(<<a, b>>) = <<b>>
      <3>1. Tail(<<a, b>>) \in Seq({a, b}) /\ Len(Tail(<<a, b>>)) = 1 /\ Tail(<<a, b>>)[1] = b
        BY <2>1, HeadTailProperties
      <3>2. <<b>> \in Seq({a, b}) /\ Len(<<b>>) = 1 /\ <<b>>[1] = b
        OBVIOUS
      <3> QED
        BY <3>1, <3>2, SeqEqual
    <2> QED
      BY <2>1, <2>2, <2>3 DEF IsSeq
  <1>3. ASSUME NEW a, NEW b, NEW c PROVE IsSeq(<<a, b, c>>) /\ ToSet(<<a, b, c>>) = {a, b, c}
    <2>1. <<a, b, c>> \in Seq({a, b, c})
      OBVIOUS
    <2>2. ToSet(<<a, b, c>>) = {a, b, c}
      BY DEF ToSet
    <2> QED
      BY <2>1, <2>2 DEF IsSeq
  <1>4. ASSUME NEW a, NEW b, NEW c, NEW d PROVE IsSeq(<<a, b, c, d>>) /\ ToSet(<<a, b, c, d>>) = {a, b, c, d}
    <2>1. <<a, b, c, d>> \in Seq({a, b, c, d})
      OBVIOUS
    <2>2. ToSet(<<a, b, c, d>>) = {a, b, c, d}
      BY DEF ToSet
    <2> QED
      BY <2>1, <2>2 DEF IsSeq
  <1> QED
    BY <1>1, <1>2, <1>3, <1>4
-----------------------------------------------------------------------------
(* Maps. *)

LEMMA KeyFacts ==
    ASSUME NEW map, MapOK(map)
    PROVE  /\ \A i \in DOMAIN map : map[i][1] \in Keys(map) /\ Get(map, map[i][1]) = map[i][2]
           /\ \A key \in Keys(map) : \E i \in DOMAIN map : map[i][1] = key /\ Get(map, key) = map[i][2]
  <1>1. ASSUME NEW key, NEW i \in DOMAIN map, map[i][1] = key
        PROVE  Get(map, key) = map[i][2]
    <2> DEFINE at == CHOOSE j \in DOMAIN map : map[j][1] = key
    <2>1. at \in DOMAIN map /\ map[at][1] = key
      BY <1>1
    <2>2. at = i
      BY <2>1, <1>1 DEF MapOK
    <2> QED
      BY <2>2 DEF Get
  <1> QED
    BY <1>1 DEF Keys

LEMMA PutFacts ==
    ASSUME NEW map, NEW key, NEW value, MapOK(map)
    PROVE  /\ MapOK(Put(map, key, value)) /\ Keys(Put(map, key, value)) = Keys(map) \cup {key}
           /\ Get(Put(map, key, value), key) = value
           /\ \A k \in Keys(map) \ {key} : Get(Put(map, key, value), k) = Get(map, k)
           /\ ~Differs(map, key, value) => \A k \in Keys(map) : Get(Put(map, key, value), k) = Get(map, k)
  <1> DEFINE new == Put(map, key, value)
  <1>1. IsSeq(map) /\ map \in Seq(ToSet(map)) /\ DOMAIN map = 1..Len(map) /\ Len(map) \in Nat
    BY SeqFacts DEF MapOK
  <1>2. /\ MapOK(new) /\ Keys(new) = Keys(map) \cup {key}
        /\ \E i \in DOMAIN new : new[i][1] = key /\ new[i][2] = value
        /\ \A i \in DOMAIN map : map[i][1] # key => i \in DOMAIN new /\ new[i] = map[i]
    <2>1. CASE key \in Keys(map)
      <3>1. new = [i \in DOMAIN map |-> IF map[i][1] = key THEN <<key, value>> ELSE map[i]]
        BY <2>1 DEF Put
      <3> DEFINE T == ToSet(map) \cup {<<key, value>>}
      <3>2. \A i \in DOMAIN map : new[i][1] = map[i][1] /\ new[i] \in T
        BY <3>1 DEF ToSet
      <3>3. DOMAIN new = DOMAIN map /\ new \in [1..Len(map) -> T]
        BY <3>1, <3>2, <1>1
      <3>4. IsSeq(new)
        <4>1. new \in Seq(T)
          BY <3>3, <1>1
        <4> QED
          BY <4>1, Zenon DEF IsSeq
      <3>5. MapOK(new)
        BY <3>2, <3>3, <3>4 DEF MapOK
      <3>6. Keys(new) = Keys(map) \cup {key}
        BY <3>2, <3>3, <2>1 DEF Keys
      <3>7. PICK i \in DOMAIN map : map[i][1] = key
        BY <2>1 DEF Keys
      <3> QED
        BY <3>1, <3>3, <3>5, <3>6, <3>7
    <2>2. CASE key \notin Keys(map)
      <3>1. new = Append(map, <<key, value>>)
        BY <2>2 DEF Put
      <3> DEFINE T == ToSet(map) \cup {<<key, value>>}
      <3>2. map \in Seq(T)
        BY <1>1, SeqMonotonic, Zenon
      <3>3. /\ new \in Seq(T) /\ Len(new) = Len(map) + 1 /\ new[Len(map) + 1] = <<key, value>>
            /\ \A i \in 1..Len(map) : new[i] = map[i]
        <4> HIDE DEF T
        <4>1. <<key, value>> \in T
          BY DEF T
        <4> QED
          BY <3>1, <3>2, <4>1, <1>1
      <3>4. IsSeq(new) /\ DOMAIN new = 1..Len(map) + 1
        <4>1. IsSeq(new)
          BY <3>3, Zenon DEF IsSeq
        <4> QED
          BY <4>1, <3>3, SeqFacts
      <3>5. \A i \in DOMAIN map : map[i][1] # key
        BY <2>2 DEF Keys
      <3> HIDE DEF new
      <3>6. MapOK(new)
        <4>1. ASSUME NEW i \in DOMAIN new, NEW j \in DOMAIN new, new[i][1] = new[j][1] PROVE i = j
          <5>1. CASE i = Len(map) + 1 \/ j = Len(map) + 1
            BY <5>1, <4>1, <3>3, <3>4, <3>5, <1>1
          <5>2. CASE i # Len(map) + 1 /\ j # Len(map) + 1
            <6>1. i \in DOMAIN map /\ j \in DOMAIN map
              BY <5>2, <3>4, <1>1
            <6> QED
              BY <6>1, <4>1, <3>3, <1>1 DEF MapOK
          <5> QED
            BY <5>1, <5>2
        <4> QED
          BY <4>1, <3>4 DEF MapOK
      <3>7. Keys(new) = Keys(map) \cup {key}
        <4>1. ASSUME NEW k PROVE k \in Keys(new) <=> k \in Keys(map) \/ k = key
          <5>1. ASSUME k \in Keys(new) PROVE k \in Keys(map) \/ k = key
            <6>1. PICK i \in DOMAIN new : new[i][1] = k
              BY <5>1 DEF Keys
            <6>2. i = Len(map) + 1 \/ i \in DOMAIN map
              BY <3>4, <1>1
            <6> QED
              BY <6>1, <6>2, <3>3, <1>1 DEF Keys
          <5>2. ASSUME k \in Keys(map) PROVE k \in Keys(new)
            <6>1. PICK i \in DOMAIN map : map[i][1] = k
              BY <5>2 DEF Keys
            <6>2. i \in DOMAIN new /\ new[i] = map[i]
              BY <3>3, <3>4, <1>1
            <6> QED
              BY <6>1, <6>2 DEF Keys
          <5>3. key \in Keys(new)
            <6>1. Len(map) + 1 \in DOMAIN new
              BY <3>4, <1>1
            <6> QED
              BY <6>1, <3>3 DEF Keys
          <5> QED
            BY <5>1, <5>2, <5>3
        <4> QED
          BY <4>1
      <3>8. Len(map) + 1 \in DOMAIN new
        BY <3>4, <1>1
      <3> QED
        BY <3>3, <3>4, <3>6, <3>7, <3>8, <1>1
    <2> QED
      BY <2>1, <2>2
  <1> HIDE DEF new
  <1>3. Get(new, key) = value
    BY <1>2, KeyFacts
  <1>4. ASSUME NEW k \in Keys(map) \ {key} PROVE Get(new, k) = Get(map, k)
    BY <1>2, <1>4, KeyFacts
  <1>5. ASSUME ~Differs(map, key, value), NEW k \in Keys(map) PROVE Get(new, k) = Get(map, k)
    BY <1>3, <1>4, <1>5 DEF Differs
  <1> QED
    BY <1>2, <1>3, <1>4, <1>5 DEF new
-----------------------------------------------------------------------------
(* Paths and listings. *)

LEMMA SetToSeqFacts ==
    ASSUME NEW S, IsFiniteSet(S)
    PROVE  IsSeq(SetToSeq(S)) /\ ToSet(SetToSeq(S)) = S
  <1> DEFINE n == Cardinality(S)
             f == SetToSeq(S)
  <1>1. n \in Nat /\ ExistsBijection(1..n, S)
    BY FS_CardinalityType
  <1>2. PICK g : g \in Bijection(1..n, S)
    BY <1>1 DEF ExistsBijection
  <1>3. g \in [1..n -> S] /\ IsInjective(g)
    BY <1>2 DEF Bijection, Injection, IsInjective
  <1>4. f \in [1..n -> S] /\ IsInjective(f)
    BY <1>3 DEF SetToSeq
  <1>5. f \in Injection(1..n, S)
    BY <1>4 DEF Injection, IsInjective
  <1>6. IsFiniteSet(1..n) /\ Cardinality(1..n) = n
    BY <1>1, FS_Interval
  <1>7. f \in Surjection(1..n, S)
    BY <1>5, <1>6, FS_Injection
  <1>8. \A x \in S : \E i \in 1..n : f[i] = x
    BY <1>7 DEF Surjection
  <1>9. f \in Seq(S)
    BY <1>1, <1>4
  <1>10. ToSet(f) = S
    BY <1>4, <1>8 DEF ToSet
  <1> QED
    BY <1>9, <1>10, Zenon DEF IsSeq

LEMMA PathFacts ==
    ASSUME NEW p \in Paths, p # <<>>
    PROVE  /\ Front(p) \in Paths /\ Len(Front(p)) = Len(p) - 1 /\ Len(p) > 0 /\ Len(p) \in Nat
           /\ \A i \in 1..Len(p) - 1 : Front(p)[i] = p[i]
           /\ Last(p) \in STRING /\ Append(Front(p), Last(p)) = p
  <1>1. p \in Seq(STRING) /\ Len(p) \in Nat /\ Len(p) > 0
    BY EmptySeq DEF Paths
  <1>2. /\ Front(p) \in Seq(STRING) /\ Len(Front(p)) = Len(p) - 1
        /\ \A i \in 1..Len(p) - 1 : Front(p)[i] = p[i]
    <2>1. \A i \in 1..Len(p) - 1 : p[i] \in STRING
      BY <1>1
    <2>2. /\ SubSeq(p, 1, Len(p) - 1) \in Seq(STRING)
          /\ Len(SubSeq(p, 1, Len(p) - 1)) = IF 1 <= Len(p) - 1 THEN Len(p) - 1 - 1 + 1 ELSE 0
          /\ \A i \in 1..Len(p) - 1 - 1 + 1 : SubSeq(p, 1, Len(p) - 1)[i] = p[1 + i - 1]
      BY <1>1, <2>1, SubSeqProperties
    <2>3. Len(SubSeq(p, 1, Len(p) - 1)) = Len(p) - 1
      <3> DEFINE m == Len(p)
                 k == Len(SubSeq(p, 1, Len(p) - 1))
      <3>1. m \in Nat /\ m > 0 /\ k = IF 1 <= m - 1 THEN m - 1 - 1 + 1 ELSE 0
        BY <1>1, <2>2
      <3> HIDE DEF m, k
      <3>2. k = m - 1
        BY <3>1
      <3> QED
        BY <3>2 DEF m, k
    <2>4. ASSUME NEW i \in 1..Len(p) - 1 PROVE SubSeq(p, 1, Len(p) - 1)[i] = p[i]
      <3>1. i \in 1..Len(p) - 1 - 1 + 1 /\ 1 + i - 1 = i
        BY <1>1
      <3> QED
        BY <2>2, <3>1
    <2> QED
      BY <2>2, <2>3, <2>4 DEF Front
  <1>3. Last(p) \in STRING
    BY <1>1 DEF Last
  <1>4. Append(Front(p), Last(p)) = p
    <2>1. /\ Append(Front(p), Last(p)) \in Seq(STRING) /\ Len(Append(Front(p), Last(p))) = Len(p)
          /\ \A i \in 1..Len(p) : Append(Front(p), Last(p))[i] = p[i]
      BY <1>1, <1>2, <1>3 DEF Last
    <2> QED
      BY <1>1, <2>1, SeqEqual
  <1> QED
    BY <1>1, <1>2, <1>3, <1>4 DEF Paths

LEMMA UnderFacts ==
    ASSUME NEW p \in Paths, NEW r \in Paths
    PROVE  Under(p, r) <=> Len(p) > Len(r) /\ \A i \in 1..Len(r) : p[i] = r[i]
  <1>1. Len(p) \in Nat /\ Len(r) \in Nat
    BY DEF Paths
  <1>2. ASSUME Len(p) > Len(r)
        PROVE  SubSeq(p, 1, Len(r)) = r <=> \A i \in 1..Len(r) : p[i] = r[i]
    <2>1. /\ SubSeq(p, 1, Len(r)) \in Seq(STRING) /\ Len(SubSeq(p, 1, Len(r))) = Len(r)
          /\ \A i \in 1..Len(r) : SubSeq(p, 1, Len(r))[i] = p[i]
      <3>1. \A i \in 1..Len(r) : p[i] \in STRING
        BY <1>1, <1>2 DEF Paths
      <3>2. /\ SubSeq(p, 1, Len(r)) \in Seq(STRING)
            /\ Len(SubSeq(p, 1, Len(r))) = IF 1 <= Len(r) THEN Len(r) - 1 + 1 ELSE 0
            /\ \A i \in 1..Len(r) - 1 + 1 : SubSeq(p, 1, Len(r))[i] = p[1 + i - 1]
        BY <1>1, <3>1, SubSeqProperties
      <3> QED
        BY <1>1, <3>2
    <2>2. r \in Seq(STRING)
      BY DEF Paths
    <2> QED
      BY <2>1, <2>2, SeqEqual
  <1> QED
    BY <1>2 DEF Under

LEMMA UnderAppend ==
    ASSUME NEW d \in Paths, NEW r \in Paths, NEW n \in STRING, d = r \/ Under(d, r)
    PROVE  Append(d, n) \in Paths /\ Under(Append(d, n), r)
  <1>1. Append(d, n) \in Paths /\ Len(Append(d, n)) = Len(d) + 1 /\ \A i \in 1..Len(d) : Append(d, n)[i] = d[i]
    <2>1. d \in Seq(STRING) /\ Len(d) \in Nat
      BY DEF Paths
    <2>2. \A S : \A s \in Seq(S), e \in S :
            /\ Append(s, e) \in Seq(S) /\ Len(Append(s, e)) = Len(s) + 1
            /\ \A i \in 1..Len(s) : Append(s, e)[i] = s[i]
      BY AppendProperties
    <2> QED
      BY <2>1, <2>2, Zenon DEF Paths
  <1>2. Len(d) \in Nat /\ Len(r) \in Nat
    BY DEF Paths
  <1>3. Len(d) >= Len(r) /\ \A i \in 1..Len(r) : d[i] = r[i]
    BY <1>2, UnderFacts
  <1>4. Len(Append(d, n)) > Len(r) /\ \A i \in 1..Len(r) : Append(d, n)[i] = r[i]
    <2> DEFINE new == Append(d, n)
    <2> HIDE DEF new
    <2>1. Len(new) = Len(d) + 1 /\ \A i \in 1..Len(d) : new[i] = d[i]
      BY <1>1 DEF new
    <2>2. Len(new) > Len(r) /\ \A i \in 1..Len(r) : new[i] = r[i]
      BY <1>2, <1>3, <2>1
    <2> QED
      BY <2>2 DEF new
  <1> QED
    BY <1>1, <1>4, UnderFacts

LEMMA UnderFront ==
    ASSUME NEW p \in Paths, NEW r \in Paths, Under(p, r)
    PROVE  p # <<>> /\ (Front(p) = r \/ Under(Front(p), r))
  <1>1. Len(p) \in Nat /\ Len(r) \in Nat /\ Len(p) > Len(r) /\ \A i \in 1..Len(r) : p[i] = r[i]
    BY UnderFacts DEF Paths
  <1>2. p # <<>>
    BY <1>1
  <1>3. Front(p) \in Paths /\ Len(Front(p)) = Len(p) - 1 /\ \A i \in 1..Len(p) - 1 : Front(p)[i] = p[i]
    BY <1>2, PathFacts
  <1>4. CASE Len(p) = Len(r) + 1
    <2>1. Len(Front(p)) = Len(r) /\ \A i \in 1..Len(r) : Front(p)[i] = r[i]
      BY <1>1, <1>3, <1>4
    <2>2. Front(p) = r
      BY <2>1, <1>3, SeqEqual DEF Paths
    <2> QED
      BY <1>2, <2>2
  <1>5. CASE Len(p) # Len(r) + 1
    <2>1. Len(Front(p)) > Len(r) /\ \A i \in 1..Len(r) : Front(p)[i] = r[i]
      BY <1>1, <1>3, <1>5
    <2> QED
      BY <1>2, <1>3, <2>1, UnderFacts
  <1> QED
    BY <1>4, <1>5

LEMMA ChildFacts ==
    ASSUME NEW files, FsOK(files), NEW path \in Paths
    PROVE  /\ \A match : IsFiniteSet(EntryNames(files, path, match)) /\ EntryNames(files, path, match) \subseteq STRING
           /\ \A p \in DOMAIN files \ {Root} :
                /\ p \in Children(files, Front(p)) /\ Last(p) \in EntryNames(files, Front(p), None)
                /\ p \in Children(files, path) => path = Front(p)
  <1> DEFINE all == Children(files, path)
             names == {Last(p) : p \in all}
  <1>1. IsFiniteSet(all) /\ all \subseteq Paths
    BY FS_Subset DEF FsOK, Children
  <1>2. \A p \in all : p # <<>>
    BY <1>1 DEF Children, Paths
  <1>3. names \subseteq STRING
    BY <1>1, <1>2, PathFacts
  <1>4. IsFiniteSet(names)
    <2> DEFINE f == [p \in all |-> Last(p)]
    <2>1. f \in Surjection(all, names)
      BY DEF Surjection
    <2> QED
      BY <1>1, <2>1, FS_Surjection
  <1>5. ASSUME NEW match
        PROVE  IsFiniteSet(EntryNames(files, path, match)) /\ EntryNames(files, path, match) \subseteq STRING
    <2>1. EntryNames(files, path, match) \subseteq names
      BY DEF EntryNames
    <2> HIDE DEF names
    <2> QED
      BY <1>3, <1>4, <2>1, FS_Subset
  <1>6. ASSUME NEW p \in DOMAIN files \ {Root}
        PROVE  /\ p \in Children(files, Front(p)) /\ Last(p) \in EntryNames(files, Front(p), None)
               /\ p \in Children(files, path) => path = Front(p)
    <2>1. p \in Paths /\ p # <<>>
      BY <1>6 DEF FsOK, Root
    <2>2. Front(p) \in Paths /\ Len(p) = Len(Front(p)) + 1 /\ Len(p) \in Nat /\ Len(p) > 0
      BY <2>1, PathFacts
    <2>3. Front(p) = SubSeq(p, 1, Len(Front(p)))
      BY <2>2 DEF Front
    <2>4. p \in Children(files, Front(p))
      BY <2>2, <2>3 DEF Children
    <2>5. Last(p) \in EntryNames(files, Front(p), None)
      BY <2>4, Zenon DEF EntryNames
    <2>6. p \in Children(files, path) => path = Front(p)
      BY <2>2 DEF Children, Front, Paths
    <2> QED
      BY <2>4, <2>5, <2>6
  <1> QED
    BY <1>5, <1>6
-----------------------------------------------------------------------------
(* What was gathered is what a tree holds that agrees with every fact. *)

\* The tree shows all that was observed, and what was read is what it holds.
Agrees(K, files) ==
    /\ FsOK(files) /\ Faithful(K, files)
    /\ \A p \in Keys(K.observed) : Matches(K, files, p)
FilesOf(moment) == [p \in DOMAIN moment |-> IF moment[p].kind = "file" THEN moment[p].data ELSE None]

LEMMA MatchKind ==
    ASSUME NEW K, NEW files, NEW p, Matches(K, files, p)
    PROVE  p \in DOMAIN files /\ files[p].kind = KindIn(K, p)
  BY DEF Matches, Signature, KindIn

LEMMA NatMin ==
    ASSUME NEW S \in SUBSET Nat, S # {}
    PROVE  \E x \in S : \A y \in S : x <= y
  <1> DEFINE R == OpToRel(<, Nat)
  <1>1. R = {e \in Nat \X Nat : e[1] < e[2]}
    BY Zenon DEF OpToRel
  <1>2. IsWellFoundedOn(R, Nat)
    BY NatLessThanWellFounded, Zenon
  <1> HIDE DEF R
  <1>3. PICK x \in S : \A y \in S : ~ (<<y, x>> \in R)
    BY <1>2, WFMin
  <1>4. ASSUME NEW y \in S PROVE x <= y
    <2>1. y < x => <<y, x>> \in R
      BY <1>1
    <2> QED
      BY <1>3, <2>1
  <1> QED
    BY <1>4

\* Every path below the root of a whole tree was taken: the shortest one that
\* was not would be an entry of a directory that was listed.
LEMMA WholeTakesAll ==
    ASSUME NEW K, NEW files, FactsOK(K), Agrees(K, files), NEW t, NEW r \in Paths, Whole(K, t, r)
    PROVE  \A p \in DOMAIN files : Under(p, r) => p \in DOMAIN t
  <1> DEFINE missing == {p \in DOMAIN files : Under(p, r) /\ p \notin DOMAIN t}
             lengths == {Len(p) : p \in missing}
  <1>1. SUFFICES ASSUME missing # {} PROVE FALSE
    OBVIOUS
  <1>2. missing \subseteq Paths
    BY DEF Agrees, FsOK
  <1>3. lengths \in SUBSET Nat /\ lengths # {}
    BY <1>1, <1>2 DEF Paths
  <1>4. PICK least \in lengths : \A n \in lengths : least <= n
    BY <1>3, NatMin
  <1>5. PICK p \in missing : least = Len(p)
    BY <1>4
  <1>6. p \in Paths /\ p \in DOMAIN files /\ Under(p, r) /\ p \notin DOMAIN t
    BY <1>2
  <1> HIDE DEF missing, lengths
  <1> DEFINE d == Front(p)
  <1>7. p # <<>> /\ (d = r \/ Under(d, r))
    BY <1>6, UnderFront
  <1>8. d \in Paths /\ Len(d) = Len(p) - 1 /\ Len(p) \in Nat /\ Append(d, Last(p)) = p
    BY <1>6, <1>7, PathFacts
  <1>9. p \in DOMAIN files \ {Root} /\ d \in DOMAIN files /\ files[d].kind = "dir"
    BY <1>6, <1>7 DEF Agrees, FsOK, Root
  <1>10. Last(p) \in EntryNames(files, d, None)
    BY <1>8, <1>9, ChildFacts DEF Agrees
  <1>11. d = r \/ d \in DOMAIN t
    <2>1. d \notin missing
      <3>1. Len(d) < least
        BY <1>3, <1>4, <1>5, <1>8
      <3>2. d \in missing => Len(d) \in lengths
        BY DEF lengths
      <3> QED
        BY <1>3, <1>4, <3>1, <3>2, <1>8
    <2> QED
      BY <1>7, <1>9, <2>1 DEF missing
  <1>12. d \in Keys(K.observed) /\ Matches(K, files, d) /\ KindIn(K, d) = "dir"
    <2>1. d \in Keys(K.observed)
      BY <1>11 DEF Whole, IsDir, Gathers
    <2> QED
      BY <1>9, <2>1, MatchKind DEF Agrees
  <1>13. d \in Keys(K.directories) /\ \A n \in Get(K.directories, d) : Append(d, n) \in DOMAIN t
    BY <1>11, <1>12 DEF Whole, Covers, Entered, Due
  <1>14. Get(K.directories, d) = EntryNames(files, d, None)
    BY <1>12, <1>13 DEF Agrees, Faithful
  <1> QED
    BY <1>6, <1>8, <1>10, <1>13, <1>14

LEMMA WholeIsHeld ==
    ASSUME NEW K, NEW files, FactsOK(K), Agrees(K, files), NEW t, NEW need,
           need.path \in Paths, need.path # Root, Whole(K, t, need.path)
    PROVE  HasTree(View(files), need.path) /\ Entries(t, need) = Entries(FilesOf(View(files)), need)
  <1> DEFINE r == need.path
             moment == View(files)
             held == FilesOf(moment)
  <1>1. /\ DOMAIN moment = DOMAIN files \ {Root} /\ DOMAIN held = DOMAIN files \ {Root}
        /\ \A p \in DOMAIN files \ {Root} :
            /\ moment[p].kind = files[p].kind
            /\ held[p] = IF files[p].kind = "file" THEN files[p].data ELSE None
    BY DEF View, FilesOf
  <1>2. ASSUME NEW p \in DOMAIN t
        PROVE  /\ Under(p, r) /\ p \in DOMAIN files \ {Root}
               /\ held[p] = t[p] /\ moment[p].kind # "special"
    <2>1. Under(p, r) /\ p \in Keys(K.observed) /\ Matches(K, files, p)
      BY DEF Whole, Gathers, Agrees
    <2>2. p \in DOMAIN files /\ files[p].kind = KindIn(K, p)
      BY <2>1, MatchKind
    <2>3. p # Root
      BY <2>1 DEF Under, Root, Paths
    <2>4. CASE KindIn(K, p) = "dir" /\ t[p] = None
      BY <1>1, <2>1, <2>2, <2>3, <2>4
    <2>5. CASE KindIn(K, p) = "file" /\ <<p, t[p]>> \in K.seen
      <3>1. files[p].data = t[p]
        <4>1. \A s \in K.seen : Matches(K, files, s[1]) => files[s[1]].data = s[2]
          BY DEF Agrees, Faithful
        <4> QED
          BY <4>1, <2>1, <2>5
      <3> QED
        BY <1>1, <2>1, <2>2, <2>3, <2>5, <3>1
    <2> QED
      BY <2>4, <2>5 DEF Whole, Gathers
  <1>3. ASSUME NEW p \in DOMAIN files, Under(p, r) PROVE p \in DOMAIN t /\ p \in DOMAIN files \ {Root}
    BY <1>2, <1>3, WholeTakesAll
  <1>4. r \in DOMAIN files \ {Root} /\ files[r].kind = "dir"
    BY MatchKind DEF Whole, IsDir, Agrees
  <1>5. HasTree(moment, r)
    <2>1. \A p \in DOMAIN moment : Under(p, r) => moment[p].kind # "special"
      BY <1>1, <1>2, <1>3
    <2> HIDE DEF moment
    <2> QED
      BY <1>1, <1>4, <2>1 DEF HasTree
  <1> DEFINE below == {p \in DOMAIN t : Under(p, r)}
             In(p) == SubSeq(p, Len(r) + 1, Len(p))
             inside == {In(p) : p \in below}
  <1>6. below = {p \in DOMAIN held : Under(p, r)}
    BY <1>1, <1>2, <1>3
  <1>7. \A p \in below : p \in Paths
    BY <1>2 DEF Agrees, FsOK
  <1>8. ASSUME NEW q \in inside PROVE held[r \o q] = t[r \o q]
    <2>1. PICK p \in below : q = In(p)
      BY <1>8, Zenon
    <2>2. r \o q = p
      <3>1. p \in Seq(STRING) /\ r \in Seq(STRING) /\ Len(p) \in Nat /\ Len(r) \in Nat
        BY <1>7 DEF Paths
      <3>2. SubSeq(p, 1, Len(r)) = r /\ Len(p) > Len(r)
        BY DEF Under
      <3>3. SubSeq(p, 1, Len(r)) \o SubSeq(p, Len(r) + 1, Len(p)) = SubSeq(p, 1, Len(p))
        <4>1. 1 \in 1..Len(p) + 1 /\ Len(r) \in 1 - 1..Len(p) /\ Len(p) \in Len(r)..Len(p)
          BY <3>1, <3>2
        <4> QED
          BY <3>1, <4>1, ConcatAdjacentSubSeq
      <3>4. SubSeq(p, 1, Len(p)) = p
        BY <3>1, SubSeqFull
      <3>5. q = SubSeq(p, Len(r) + 1, Len(p))
        BY <2>1
      <3> QED
        BY <3>2, <3>3, <3>4, <3>5, Zenon
    <2> QED
      BY <1>2, <2>2
  <1>9. /\ Entries(t, need) = [q \in inside |->
                [data |-> t[r \o q], executable |-> t[r \o q] # None /\ q \in ToSet(need.executables)]]
        /\ Entries(held, need) = [q \in {In(p) : p \in {p \in DOMAIN held : Under(p, r)}} |->
                [data |-> held[r \o q], executable |-> held[r \o q] # None /\ q \in ToSet(need.executables)]]
    BY DEF Entries
  <1> HIDE DEF held, inside
  <1>10. {In(p) : p \in {p \in DOMAIN held : Under(p, r)}} = inside
    BY <1>6 DEF inside
  <1>11. Entries(held, need) = Entries(t, need)
    <2> DEFINE Node(h, q) == [data       |-> h[r \o q],
                              executable |-> h[r \o q] # None /\ q \in ToSet(need.executables)]
    <2>1. Entries(t, need) = [q \in inside |-> Node(t, q)] /\ Entries(held, need) = [q \in inside |-> Node(held, q)]
      BY <1>9, <1>10, Zenon
    <2>2. ASSUME NEW q \in inside PROVE Node(held, q) = Node(t, q)
      BY <1>8, <2>2, Zenon
    <2> HIDE DEF Node
    <2> QED
      BY <2>1, <2>2
  <1> QED
    BY <1>5, <1>11 DEF held

LEMMA ReadIsHeld ==
    ASSUME NEW K, NEW files, FactsOK(K), Agrees(K, files), NEW p \in Paths \ {Root}, NEW data,
           <<p, data>> \in K.seen
    PROVE  HasFile(View(files), p) /\ FilesOf(View(files))[p] = data
  <1>1. p \in Keys(K.observed)
    BY DEF FactsOK
  <1>2. p \in DOMAIN files /\ files[p].kind = "file" /\ files[p].data = data
    <2>1. \A s \in K.seen : Matches(K, files, s[1]) =>
            s[1] \in DOMAIN files /\ files[s[1]].kind = "file" /\ files[s[1]].data = s[2]
      BY DEF Agrees, Faithful, Matches
    <2> QED
      BY <1>1, <2>1 DEF Agrees
  <1> QED
    BY <1>2 DEF View, HasFile, FilesOf

LEMMA GotIsHeld ==
    ASSUME NEW K, NEW files, FactsOK(K), Agrees(K, files), NEW need, NeedOK(need), NEW x, Got(K, need, x)
    PROVE  HasNeed(View(files), need) /\ x = Fetched(FilesOf(View(files)), need)
  <1>1. CASE need = None
    BY <1>1 DEF Got, HasNeed, Fetched
  <1>2. CASE need # None /\ need.read = "file"
    <2>1. <<need.path, x>> \in K.seen
      BY <1>2 DEF Got
    <2>2. need.path \in Paths \ {Root}
      BY <1>2 DEF NeedOK, Paths, Root
    <2>3. HasFile(View(files), need.path) /\ FilesOf(View(files))[need.path] = x
      BY <2>1, <2>2, ReadIsHeld
    <2> QED
      BY <1>2, <2>3 DEF HasNeed, Fetched
  <1>3. CASE need # None /\ need.read # "file"
    <2>1. PICK t : x = Entries(t, need) /\ Whole(K, t, need.path)
      BY <1>3 DEF Got
    <2>2. need.path \in Paths \ {Root}
      BY <1>3 DEF NeedOK, Paths, Root
    <2>3. HasTree(View(files), need.path) /\ x = Entries(FilesOf(View(files)), need)
      BY <2>1, <2>2, WholeIsHeld
    <2> QED
      BY <1>3, <2>3 DEF HasNeed, Fetched
  <1> QED
    BY <1>1, <1>2, <1>3

LEMMA NeedFacts ==
    ASSUME NEW K, NEW m, Manifested(K, m)
    PROVE  /\ IsSeq(ReadsOf(m)) /\ Len(ReadsOf(m)) \in Nat /\ DOMAIN ReadsOf(m) = 1..Len(ReadsOf(m))
           /\ \A i \in 1..Len(ReadsOf(m)) : NeedOK(ReadsOf(m)[i])
  <1>1. PICK data \in FileData : m = Manifest(data) /\ m # None
    BY DEF Manifested
  <1>2. ReadsOf(m) \in Seq(ToSet(ReadsOf(m))) /\ \A need \in ToSet(ReadsOf(m)) : NeedOK(need)
    BY <1>1, ManifestAssumption
  <1>3. IsSeq(ReadsOf(m))
    BY <1>2, Zenon DEF IsSeq
  <1> QED
    BY <1>2, <1>3, SeqFacts

\* The bundle that was put together from all of that.
LEMMA AcquiredIsHeld ==
    ASSUME NEW files, FactsOK(Facts), Agrees(Facts, files), Acquired(Facts), origin # None => origin \in Paths \ {Root}
    PROVE  HeldBy(View(files))
  <1> DEFINE held == FilesOf(View(files))
             needs == ReadsOf(manifest)
  <1>1. HeldBy(View(files)) <=>
            LET m     == Manifest(held[ManifestPath])
                reads == ReadsOf(m)
            IN  IF origin # None THEN HasFile(View(files), origin) /\ bundle = Unpack(held[origin])
                ELSE /\ HasFile(View(files), ManifestPath) /\ m # None
                     /\ \A i \in DOMAIN reads : HasNeed(View(files), reads[i])
                     /\ bundle = Build(m, [i \in DOMAIN reads |-> Fetched(held, reads[i])])
    BY DEF HeldBy, FilesOf
  <1> HIDE DEF held
  <1>2. CASE origin # None
    <2>1. PICK data \in FileData : <<origin, data>> \in Facts.seen /\ bundle = Unpack(data)
      BY <1>2 DEF Acquired
    <2>2. HasFile(View(files), origin) /\ held[origin] = data
      BY <1>2, <2>1, ReadIsHeld DEF held
    <2> QED
      BY <1>1, <1>2, <2>1, <2>2
  <1>3. CASE origin = None
    <2>1. /\ Manifested(Facts, manifest) /\ IsSeq(got) /\ Len(got) = Len(needs)
          /\ \A i \in 1..Len(got) : Got(Facts, needs[i], got[i])
          /\ bundle = Build(manifest, got)
      BY <1>3 DEF Acquired, GotAll
    <2>2. PICK data \in FileData : <<ManifestPath, data>> \in Facts.seen /\ manifest = Manifest(data) /\ manifest # None
      BY <2>1 DEF Manifested
    <2>3. HasFile(View(files), ManifestPath) /\ held[ManifestPath] = data
      <3>1. ManifestPath \in Paths \ {Root}
        BY ManifestAssumption DEF Paths, Root
      <3> QED
        BY <2>2, <3>1, ReadIsHeld DEF held
    <2>4. /\ DOMAIN needs = 1..Len(needs) /\ Len(needs) \in Nat
          /\ \A i \in 1..Len(needs) : NeedOK(needs[i])
      BY <2>1, NeedFacts
    <2>5. \A i \in 1..Len(needs) : HasNeed(View(files), needs[i]) /\ got[i] = Fetched(held, needs[i])
      BY <2>1, <2>4, GotIsHeld DEF held
    <2>6. got = [i \in DOMAIN needs |-> Fetched(held, needs[i])]
      <3>1. got \in Seq(ToSet(got)) /\ DOMAIN got = 1..Len(got)
        BY <2>1, SeqFacts
      <3>2. got = [i \in 1..Len(got) |-> got[i]]
        BY <3>1
      <3> QED
        BY <3>2, <2>1, <2>4, <2>5
    <2>7. Manifest(held[ManifestPath]) = manifest
      BY <2>2, <2>3
    <2>8. needs = ReadsOf(Manifest(held[ManifestPath]))
      BY <2>7
    <2> QED
      BY <1>1, <1>3, <2>1, <2>2, <2>3, <2>4, <2>5, <2>6, <2>7
  <1> QED
    BY <1>2, <1>3
-----------------------------------------------------------------------------
(* Facts are only added. *)

LEMMA SameKind ==
    ASSUME NEW K, NEW L, MoreFacts(K, L)
    PROVE  /\ \A p \in Keys(K.observed) : p \in Keys(L.observed) /\ KindIn(L, p) = KindIn(K, p)
           /\ \A p \in Keys(K.observed) : \A files : Matches(L, files, p) <=> Matches(K, files, p)
           /\ \A p : IsDir(K, p) => IsDir(L, p)
  BY DEF MoreFacts, KindIn, Matches, IsDir

LEMMA GatheredStays ==
    ASSUME NEW K, NEW L, MoreFacts(K, L), NEW t, NEW r, NEW ops, Gathers(K, t, r)
    PROVE  Gathers(L, t, r) /\ (Covers(K, t, r, ops) /\ IsDir(K, r) => Covers(L, t, r, ops))
  <1>1. Gathers(L, t, r)
    <2>1. K.seen \subseteq L.seen
      BY DEF MoreFacts
    <2> QED
      BY <2>1, SameKind DEF Gathers
  <1>2. ASSUME Covers(K, t, r, ops) PROVE Covers(L, t, r, ops)
    <2>1. ASSUME NEW d \in {r} \cup {p \in DOMAIN t : KindIn(L, p) = "dir"}
          PROVE  d \in {r} \cup {p \in DOMAIN t : KindIn(K, p) = "dir"}
      <3>1. \A p \in Keys(K.observed) : KindIn(L, p) = KindIn(K, p)
        BY SameKind
      <3>2. \A p \in DOMAIN t : p \in Keys(K.observed)
        BY DEF Gathers
      <3> QED
        BY <3>1, <3>2
    <2>2. \A d \in Keys(K.directories) : d \in Keys(L.directories) /\ Get(L.directories, d) = Get(K.directories, d)
      BY DEF MoreFacts
    <2> QED
      BY <1>2, <2>1, <2>2 DEF Covers
  <1> QED
    BY <1>1, <1>2

LEMMA WholeStays ==
    ASSUME NEW K, NEW L, MoreFacts(K, L), NEW t, NEW r, Whole(K, t, r)
    PROVE  Whole(L, t, r)
  BY SameKind, GatheredStays DEF Whole

LEMMA GotStays ==
    ASSUME NEW K, NEW L, MoreFacts(K, L)
    PROVE  /\ \A need, x : Got(K, need, x) => Got(L, need, x)
           /\ \A m, g : GotAll(K, m, g) => GotAll(L, m, g)
  <1>1. K.seen \subseteq L.seen
    BY DEF MoreFacts
  <1>2. ASSUME NEW need, NEW x, Got(K, need, x) PROVE Got(L, need, x)
    <2>1. CASE need = None
      BY <1>2, <2>1 DEF Got
    <2>2. CASE need # None /\ need.read = "file"
      BY <1>1, <1>2, <2>2 DEF Got
    <2>3. CASE need # None /\ need.read # "file"
      <3>1. PICK t : x = Entries(t, need) /\ Whole(K, t, need.path)
        BY <1>2, <2>3 DEF Got
      <3>2. Whole(L, t, need.path)
        BY <3>1, WholeStays
      <3> QED
        BY <2>3, <3>1, <3>2 DEF Got
    <2> QED
      BY <2>1, <2>2, <2>3
  <1>3. ASSUME NEW m, Manifested(K, m) PROVE Manifested(L, m)
    BY <1>1, <1>3 DEF Manifested
  <1>4. ASSUME NEW m, NEW g, GotAll(K, m, g) PROVE GotAll(L, m, g)
    BY <1>2, <1>3, <1>4 DEF GotAll
  <1> QED
    BY <1>2, <1>4

LEMMA ObserveFacts ==
    ASSUME NEW K, NEW L, NEW files, NEW path, FactsOK(K), FsOK(files), path \in DOMAIN files,
           files[path].kind # "special", ~Differs(K.observed, path, Signature(files[path])),
           L.observed = Put(K.observed, path, Signature(files[path])),
           L.directories = K.directories, L.seen = K.seen
    PROVE  /\ FactsOK(L) /\ MoreFacts(K, L) /\ Keys(L.observed) = Keys(K.observed) \cup {path}
           /\ Get(L.observed, path) = Signature(files[path]) /\ KindIn(L, path) = files[path].kind
           /\ \A old : Faithful(K, old) => Faithful(L, old)
  <1>1. /\ MapOK(L.observed) /\ Keys(L.observed) = Keys(K.observed) \cup {path}
        /\ Get(L.observed, path) = Signature(files[path])
        /\ \A k \in Keys(K.observed) : Get(L.observed, k) = Get(K.observed, k)
    BY PutFacts DEF FactsOK
  <1>2. KindIn(L, path) = files[path].kind
    BY <1>1 DEF KindIn, Signature
  <1>3. path \in Paths /\ files[path].kind \in {"file", "dir"}
    BY DEF FsOK, ContentOK
  <1>4. FactsOK(L)
    BY <1>1, <1>2, <1>3 DEF FactsOK, KindIn
  <1>5. MoreFacts(K, L)
    BY <1>1 DEF MoreFacts
  <1>6. ASSUME NEW old, Faithful(K, old) PROVE Faithful(L, old)
    <2>1. \A s \in L.seen : s[1] \in Keys(K.observed)
      BY DEF FactsOK
    <2>2. \A d \in Keys(L.directories) : d \in Keys(K.observed)
      BY DEF FactsOK
    <2> QED
      BY <1>5, <1>6, <2>1, <2>2, SameKind DEF Faithful
  <1> QED
    BY <1>1, <1>2, <1>4, <1>5, <1>6

LEMMA ListFacts ==
    ASSUME NEW K, NEW L, NEW files, NEW path, FactsOK(K), FsOK(files), path \in Keys(K.observed),
           ~Differs(K.directories, path, EntryNames(files, path, None)),
           L.directories = Put(K.directories, path, EntryNames(files, path, None)),
           L.observed = K.observed, L.seen = K.seen
    PROVE  /\ FactsOK(L) /\ MoreFacts(K, L) /\ path \in Keys(L.directories)
           /\ Get(L.directories, path) = EntryNames(files, path, None)
           /\ Faithful(K, files) => Faithful(L, files)
           /\ Keys(L.directories) = Keys(K.directories) \cup {path}
  <1> DEFINE names == EntryNames(files, path, None)
  <1>1. /\ MapOK(L.directories) /\ Keys(L.directories) = Keys(K.directories) \cup {path}
        /\ Get(L.directories, path) = names
        /\ \A k \in Keys(K.directories) : Get(L.directories, k) = Get(K.directories, k)
    BY PutFacts DEF FactsOK
  <1>2. names \subseteq STRING
    BY ChildFacts DEF FactsOK
  <1>3. FactsOK(L)
    BY <1>1, <1>2 DEF FactsOK, KindIn
  <1>4. MoreFacts(K, L)
    BY <1>1 DEF MoreFacts
  <1>5. ASSUME Faithful(K, files) PROVE Faithful(L, files)
    <2>1. \A p : Matches(L, files, p) <=> Matches(K, files, p)
      BY DEF Matches
    <2>2. ASSUME NEW d \in Keys(L.directories), Matches(L, files, d)
          PROVE  EntryNames(files, d, None) = Get(L.directories, d)
      BY <1>1, <1>5, <2>1, <2>2 DEF Faithful
    <2> QED
      BY <1>5, <2>1, <2>2 DEF Faithful
  <1> QED
    BY <1>1, <1>3, <1>4, <1>5

LEMMA ReadFacts ==
    ASSUME NEW K, NEW L, NEW path, NEW data \in FileData, FactsOK(K), path \in Keys(K.observed),
           L.directories = K.directories, L.observed = K.observed, L.seen = K.seen \cup {<<path, data>>}
    PROVE  /\ FactsOK(L) /\ MoreFacts(K, L)
           /\ \A files : Faithful(K, files) /\ (Matches(K, files, path) => files[path].kind = "file" /\ files[path].data = data)
                            => Faithful(L, files)
  <1>1. FactsOK(L)
    BY DEF FactsOK, KindIn
  <1>2. MoreFacts(K, L)
    BY DEF MoreFacts
  <1>3. ASSUME NEW files, Faithful(K, files),
               Matches(K, files, path) => files[path].kind = "file" /\ files[path].data = data
        PROVE  Faithful(L, files)
    <2>1. \A p : Matches(L, files, p) <=> Matches(K, files, p)
      BY DEF Matches
    <2>2. ASSUME NEW s \in L.seen, Matches(L, files, s[1])
          PROVE  files[s[1]].kind = "file" /\ files[s[1]].data = s[2]
      BY <1>3, <2>1, <2>2 DEF Faithful
    <2> QED
      BY <1>3, <2>1, <2>2 DEF Faithful
  <1> QED
    BY <1>1, <1>2, <1>3
-----------------------------------------------------------------------------
(* The other writer. *)

\* What matches after a change matched before it, and has not changed.
Unchanged(K, old, new) ==
    \A p \in Keys(K.observed) :
        Matches(K, new, p) =>
            Matches(K, old, p) /\ new[p] = old[p] /\ EntryNames(new, p, None) = EntryNames(old, p, None)

LEMMA StillFaithful ==
    ASSUME NEW K, NEW old, NEW new, FactsOK(K), Unchanged(K, old, new), Faithful(K, old)
    PROVE  Faithful(K, new)
  <1>1. ASSUME NEW s \in K.seen, Matches(K, new, s[1])
        PROVE  new[s[1]].kind = "file" /\ new[s[1]].data = s[2]
    BY <1>1 DEF Unchanged, Faithful, FactsOK
  <1>2. ASSUME NEW d \in Keys(K.directories), Matches(K, new, d)
        PROVE  EntryNames(new, d, None) = Get(K.directories, d)
    BY <1>2 DEF Unchanged, Faithful, FactsOK
  <1> QED
    BY <1>1, <1>2 DEF Faithful

\* One edit, whichever it is: path is the node that is written, front the
\* directory it is in, whose stamp an entry's coming and going changes.
EditOf(old, new, path, front, time, count) ==
    /\ FsOK(new)
    /\ \A p \in DOMAIN new \ {path, front} : p \in DOMAIN old /\ new[p] = old[p]
    /\ path \in DOMAIN new =>
        /\ new[path].stamp = time
        /\ \/ new[path].ino.born = count
           \/ path \in DOMAIN old /\ new[path].ino = old[path].ino /\ new[path].kind = old[path].kind
    /\ front # path =>
        /\ front \in DOMAIN old /\ front \in DOMAIN new /\ new[front].stamp = time
        /\ new[front].ino = old[front].ino /\ new[front].kind = old[front].kind
    /\ \A p \in Paths : p # front \/ front = path => Children(new, p) = Children(old, p)

Timely(files, time, count) == \A p \in DOMAIN files : files[p].ino.born <= count /\ files[p].stamp <= time
Masked(K, old, new, paths, time) ==
    \E p \in paths :
        /\ p \in DOMAIN old /\ p \in Keys(K.observed)
        /\ Get(K.observed, p) = Signature(old[p]) /\ old[p].stamp = time
        /\ p \in DOMAIN new /\ new[p].ino = old[p].ino

LEMMA EditFacts ==
    ASSUME NEW K, NEW old, NEW new, NEW path, NEW front, NEW time \in Nat, NEW count \in Nat,
           FactsOK(K), FsOK(old), Timely(old, time, count),
           Looked(K, old, time, count), EditOf(old, new, path, front, time, count + 1)
    PROVE  /\ Timely(new, time, count + 1) /\ Looked(K, new, time, count + 1)
           /\ Unchanged(K, old, new) \/ Masked(K, old, new, {path, front}, time)
  <1>1. \A p \in DOMAIN old : /\ old[p].ino.born \in Nat /\ old[p].stamp \in Nat
                             /\ old[p].ino.born <= count /\ old[p].stamp <= time
    BY DEF FsOK, Timely
  <1>2. \A p \in DOMAIN new : new[p].ino.born \in Nat /\ new[p].stamp \in Nat /\ new[p].ino.path = p
    BY DEF EditOf, FsOK
  <1>3. ASSUME NEW p \in DOMAIN new
        PROVE  \/ p \in DOMAIN old /\ new[p] = old[p]
               \/ p \in DOMAIN old /\ p \in {path, front} /\ new[p].stamp = time /\ new[p].ino = old[p].ino /\ new[p].kind = old[p].kind
               \/ p \in {path, front} /\ new[p].stamp = time /\ new[p].ino.born = count + 1
    BY DEF EditOf
  <1>4. ASSUME NEW p \in DOMAIN new PROVE new[p].ino.born <= count + 1 /\ new[p].stamp <= time
    BY <1>1, <1>2, <1>3
  <1>5. Looked(K, new, time, count + 1)
    <2> SUFFICES ASSUME NEW p \in Keys(K.observed)
        PROVE  LET s == Get(K.observed, p)
               IN  /\ s.ino.born \in Nat /\ s.ino.born <= count + 1 /\ s.stamp \in Nat /\ s.stamp <= time
                   /\ p \in DOMAIN new /\ new[p].ino = s.ino => new[p].kind = s.kind /\ s.stamp <= new[p].stamp
      BY DEF Looked
    <2> DEFINE s == Get(K.observed, p)
    <2> HIDE DEF s
    <2>1. /\ s.ino.born \in Nat /\ s.ino.born <= count /\ s.stamp \in Nat /\ s.stamp <= time
          /\ p \in DOMAIN old /\ old[p].ino = s.ino => old[p].kind = s.kind /\ s.stamp <= old[p].stamp
      BY DEF Looked, s
    <2>2. ASSUME p \in DOMAIN new, new[p].ino = s.ino PROVE new[p].kind = s.kind /\ s.stamp <= new[p].stamp
      BY <2>1, <2>2, <1>1, <1>2, <1>3
    <2>3. s.ino.born <= count + 1
      BY <2>1
    <2> QED
      BY <2>1, <2>2, <2>3 DEF s
  <1>6. ASSUME NEW p \in Keys(K.observed), Matches(K, new, p)
        PROVE  \/ /\ Matches(K, old, p) /\ new[p] = old[p] /\ p \in DOMAIN old
                  /\ p = front => front = path
               \/ /\ p \in {path, front} /\ p \in DOMAIN old /\ Get(K.observed, p) = Signature(old[p])
                  /\ old[p].stamp = time /\ new[p].ino = old[p].ino /\ p \in DOMAIN new
    <2> DEFINE s == Get(K.observed, p)
    <2>1. p \in DOMAIN new /\ s = Signature(new[p])
      BY <1>6 DEF Matches
    <2>2. s.ino = new[p].ino /\ s.kind = new[p].kind /\ s.stamp = new[p].stamp
      BY <2>1 DEF Signature
    <2>3. /\ s.ino.born \in Nat /\ s.ino.born <= count /\ s.stamp \in Nat /\ s.stamp <= time
          /\ p \in DOMAIN old /\ old[p].ino = s.ino => old[p].kind = s.kind /\ s.stamp <= old[p].stamp
      BY DEF Looked
    <2>4. new[p].ino.born # count + 1
      BY <2>2, <2>3
    <2>5. CASE p \notin {path, front}
      <3>1. p \in DOMAIN old /\ new[p] = old[p]
        BY <2>1, <2>5 DEF EditOf
      <3> QED
        BY <3>1, <2>1, <2>5 DEF Matches
    <2>6. CASE p \in {path, front}
      <3>1. p \in DOMAIN old /\ new[p].stamp = time /\ new[p].ino = old[p].ino /\ new[p].kind = old[p].kind
        BY <2>1, <2>4, <2>6 DEF EditOf
      <3>2. old[p].stamp = time
        BY <3>1, <2>2, <2>3, <1>1
      <3>3. s = Signature(old[p])
        BY <2>1, <3>1, <3>2 DEF Signature
      <3> QED
        BY <2>1, <2>6, <3>1, <3>2, <3>3
    <2> QED
      BY <2>5, <2>6
  <1>7. ASSUME NEW p \in Keys(K.observed), p = front => front = path
        PROVE  EntryNames(new, p, None) = EntryNames(old, p, None)
    <2>1. Children(new, p) = Children(old, p)
      BY <1>7 DEF EditOf, FactsOK
    <2> QED
      BY <2>1 DEF EntryNames
  <1>8. ASSUME ~Masked(K, old, new, {path, front}, time) PROVE Unchanged(K, old, new)
    BY <1>6, <1>7, <1>8 DEF Unchanged, Masked
  <1> QED
    BY <1>4, <1>5, <1>8 DEF Timely

LEMMA OverwriteEdit ==
    ASSUME WorldOK, NEW path \in allowed.paths, NEW at \in 1..2, NEW block \in allowed.blocks,
           Overwrite(path, at, block)
    PROVE  EditOf(fs, fs', path, path, clock, edits + 1)
  <1> DEFINE data == [fs[path].data EXCEPT ![at] = block]
             new == [Stamped(fs[path]) EXCEPT !.data = data]
  <1>1. path \in DOMAIN fs /\ fs[path].kind = "file" /\ fs' = [fs EXCEPT ![path] = new]
    BY Zenon DEF Overwrite
  <1>2. new.ino = fs[path].ino /\ new.kind = "file" /\ new.stamp = clock /\ new.data = data
    BY <1>1 DEF Stamped
  <1>3. data \in FileData
    <2>1. fs[path].data \in Blocks \X Blocks /\ block \in Blocks
      BY <1>1 DEF WorldOK, FsOK, ContentOK, FileData
    <2> QED
      BY <2>1 DEF FileData
  <1> HIDE DEF new
  <1>4. DOMAIN fs' = DOMAIN fs /\ fs'[path] = new /\ \A p \in DOMAIN fs : p # path => fs'[p] = fs[p]
    BY <1>1
  <1>5. FsOK(fs) /\ clock \in Nat
    BY DEF WorldOK
  <1> HIDE DEF data
  <1>6. ContentOK(new)
    BY <1>2, <1>3 DEF ContentOK
  <1>7. FsOK(fs')
    <2>1. \A p \in DOMAIN fs : fs'[p].kind = fs[p].kind /\ fs'[p].ino = fs[p].ino
      BY <1>1, <1>2, <1>4
    <2>2. \A p \in DOMAIN fs' : ContentOK(fs'[p]) /\ fs'[p].stamp \in Nat
      BY <1>2, <1>4, <1>5, <1>6 DEF FsOK
    <2> QED
      BY <1>4, <1>5, <2>1, <2>2 DEF FsOK
  <1>8. \A p \in Paths : Children(fs', p) = Children(fs, p)
    BY <1>4 DEF Children
  <1> QED
    BY <1>1, <1>2, <1>4, <1>7, <1>8 DEF EditOf

LEMMA PutEdit ==
    ASSUME WorldOK, NEW path \in allowed.paths, NEW content, ContentOK(content), PutThere(path, content)
    PROVE  /\ EditOf(fs, fs', path, Front(path), clock, edits + 1) /\ Front(path) \in DOMAIN fs
           /\ fs'[path].ino.born = edits + 1
  <1> DEFINE new == [ino |-> [path |-> path, born |-> edits + 1], kind |-> content.kind, data |-> content.data, stamp |-> clock]
             front == Front(path)
             rest == [fs EXCEPT ![front] = Stamped(fs[front])]
  <1>1. /\ front \in DOMAIN fs /\ fs[front].kind = "dir" /\ Children(fs, path) = {}
        /\ fs' = Assign(rest, path, new)
    BY DEF PutThere
  <1>2. new.ino.path = path /\ new.ino.born = edits + 1 /\ new.stamp = clock /\ ContentOK(new)
    BY DEF ContentOK
  <1>3. path \in Paths /\ path # Root /\ FsOK(fs) /\ clock \in Nat /\ edits \in Nat
    BY DEF WorldOK
  <1>4. front \in Paths /\ front # path /\ Len(front) = Len(path) - 1 /\ Append(front, Last(path)) = path
    BY <1>3, PathFacts DEF Root
  <1> HIDE DEF new
  <1>5. /\ DOMAIN fs' = DOMAIN fs \cup {path} /\ fs'[path] = new /\ fs'[front] = Stamped(fs[front])
        /\ \A p \in DOMAIN fs \ {path, front} : fs'[p] = fs[p]
    <2>1. DOMAIN rest = DOMAIN fs /\ rest[front] = Stamped(fs[front]) /\ \A p \in DOMAIN fs \ {front} : rest[p] = fs[p]
      BY <1>1
    <2> HIDE DEF rest
    <2> QED
      BY <1>1, <1>4, <2>1 DEF Assign
  <1>6. /\ fs'[front].ino = fs[front].ino /\ fs'[front].kind = fs[front].kind
        /\ fs'[front].data = fs[front].data /\ fs'[front].stamp = clock
    BY <1>5 DEF Stamped
  <1>7. \A p \in DOMAIN fs : p # path => Front(p) # path \/ p = Root
    <2>1. ASSUME NEW p \in DOMAIN fs, p # Root, Front(p) = path PROVE FALSE
      <3>1. p \in Children(fs, Front(p))
        BY <1>3, <2>1, ChildFacts
      <3> QED
        BY <1>1, <2>1, <3>1
    <2> QED
      BY <2>1
  <1>8. FsOK(fs')
    <2>1. \A p \in DOMAIN fs' : ContentOK(fs'[p]) /\ fs'[p].ino.path = p /\ fs'[p].ino.born \in Nat /\ fs'[p].stamp \in Nat
      <3>1. ASSUME NEW p \in DOMAIN fs'
            PROVE  ContentOK(fs'[p]) /\ fs'[p].ino.path = p /\ fs'[p].ino.born \in Nat /\ fs'[p].stamp \in Nat
        <4>1. CASE p = path
          BY <1>2, <1>3, <1>5, <4>1
        <4>2. CASE p = front
          BY <1>1, <1>3, <1>6, <4>2 DEF FsOK, ContentOK
        <4>3. CASE p \notin {path, front}
          BY <1>3, <1>5, <4>3 DEF FsOK
        <4> QED
          BY <4>1, <4>2, <4>3
      <3> QED
        BY <3>1
    <2>2. IsFiniteSet(DOMAIN fs')
      BY <1>3, <1>5, FS_AddElement DEF FsOK
    <2>3. Root \in DOMAIN fs' /\ fs'[Root].kind = "dir"
      BY <1>3, <1>5, <1>6 DEF FsOK
    <2>4. ASSUME NEW p \in DOMAIN fs' \ {Root} PROVE Front(p) \in DOMAIN fs' /\ fs'[Front(p)].kind = "dir"
      <3>1. CASE p = path
        BY <1>1, <1>5, <1>6, <3>1
      <3>2. CASE p # path
        <4>1. p \in DOMAIN fs \ {Root} /\ Front(p) # path
          BY <1>5, <1>7, <3>2
        <4>2. Front(p) \in DOMAIN fs /\ fs[Front(p)].kind = "dir"
          BY <1>3, <4>1 DEF FsOK
        <4> QED
          BY <1>5, <1>6, <4>1, <4>2
      <3> QED
        BY <3>1, <3>2
    <2>5. DOMAIN fs' \subseteq Paths
      BY <1>3, <1>5 DEF FsOK
    <2> QED
      BY <2>1, <2>2, <2>3, <2>4, <2>5 DEF FsOK
  <1>9. ASSUME NEW p \in Paths, p # front PROVE Children(fs', p) = Children(fs, p)
    <2>1. ASSUME NEW files, FsOK(files), path \in Children(files, p) PROVE FALSE
      <3>1. path \in DOMAIN files \ {Root}
        BY <1>3, <2>1 DEF Children
      <3>2. p = Front(path)
        BY <2>1, <3>1, ChildFacts
      <3> QED
        BY <1>9, <3>2
    <2>2. path \notin Children(fs', p) /\ path \notin Children(fs, p)
      BY <1>3, <1>8, <2>1
    <2> QED
      BY <1>5, <2>2 DEF Children
  <1>10. /\ \A p \in DOMAIN fs' \ {path, front} : p \in DOMAIN fs /\ fs'[p] = fs[p]
         /\ fs'[path].stamp = clock /\ fs'[path].ino.born = edits + 1
    BY <1>2, <1>5
  <1> QED
    BY <1>1, <1>4, <1>5, <1>6, <1>8, <1>9, <1>10 DEF EditOf

LEMMA EraseEdit ==
    ASSUME WorldOK, NEW path \in allowed.paths, Erase(path)
    PROVE  EditOf(fs, fs', path, Front(path), clock, edits + 1) /\ path \notin DOMAIN fs' /\ Front(path) \in DOMAIN fs
  <1> DEFINE front == Front(path)
  <1>1. /\ path \in DOMAIN fs /\ Children(fs, path) = {}
        /\ fs' = [p \in DOMAIN fs \ {path} |-> IF p = front THEN Stamped(fs[p]) ELSE fs[p]]
    BY DEF Erase
  <1>2. path \in Paths /\ path # Root /\ FsOK(fs) /\ clock \in Nat /\ edits \in Nat
    BY DEF WorldOK
  <1>3. front \in Paths /\ front # path /\ Len(front) = Len(path) - 1
    BY <1>2, PathFacts DEF Root
  <1>4. front \in DOMAIN fs /\ fs[front].kind = "dir"
    BY <1>1, <1>2 DEF FsOK
  <1>5. /\ DOMAIN fs' = DOMAIN fs \ {path} /\ fs'[front] = Stamped(fs[front])
        /\ \A p \in DOMAIN fs \ {path, front} : fs'[p] = fs[p]
    BY <1>1, <1>3, <1>4
  <1>6. /\ fs'[front].ino = fs[front].ino /\ fs'[front].kind = fs[front].kind
        /\ fs'[front].data = fs[front].data /\ fs'[front].stamp = clock
    BY <1>5 DEF Stamped
  <1>7. \A p \in DOMAIN fs \ {Root} : Front(p) # path
    <2>1. ASSUME NEW p \in DOMAIN fs \ {Root}, Front(p) = path PROVE FALSE
      <3>1. p \in Children(fs, Front(p))
        BY <1>2, ChildFacts
      <3> QED
        BY <1>1, <2>1, <3>1
    <2> QED
      BY <2>1
  <1>8. FsOK(fs')
    <2>1. ASSUME NEW p \in DOMAIN fs'
          PROVE  ContentOK(fs'[p]) /\ fs'[p].ino.path = p /\ fs'[p].ino.born \in Nat /\ fs'[p].stamp \in Nat
      <3>1. CASE p = front
        BY <1>2, <1>4, <1>6, <3>1 DEF FsOK, ContentOK
      <3>2. CASE p # front
        BY <1>2, <1>5, <3>2 DEF FsOK
      <3> QED
        BY <3>1, <3>2
    <2>2. IsFiniteSet(DOMAIN fs')
      BY <1>2, <1>5, FS_Subset DEF FsOK
    <2>3. Root \in DOMAIN fs' /\ fs'[Root].kind = "dir"
      BY <1>2, <1>5, <1>6 DEF FsOK
    <2>4. ASSUME NEW p \in DOMAIN fs' \ {Root} PROVE Front(p) \in DOMAIN fs' /\ fs'[Front(p)].kind = "dir"
      <3>1. Front(p) \in DOMAIN fs /\ fs[Front(p)].kind = "dir" /\ Front(p) # path
        BY <1>2, <1>5, <1>7 DEF FsOK
      <3> QED
        BY <1>5, <1>6, <3>1
    <2>5. DOMAIN fs' \subseteq Paths
      BY <1>2, <1>5 DEF FsOK
    <2> QED
      BY <2>1, <2>2, <2>3, <2>4, <2>5 DEF FsOK
  <1>9. ASSUME NEW p \in Paths, p # front PROVE Children(fs', p) = Children(fs, p)
    <2>1. path \notin Children(fs, p)
      BY <1>1, <1>2, <1>9, ChildFacts
    <2> QED
      BY <1>5, <2>1 DEF Children
  <1>10. \A p \in DOMAIN fs' \ {path, front} : p \in DOMAIN fs /\ fs'[p] = fs[p]
    BY <1>5
  <1> QED
    BY <1>3, <1>4, <1>5, <1>6, <1>8, <1>9, <1>10 DEF EditOf

LEMMA EarlySame ==
    ASSUME UNCHANGED <<origin, todo, tree, got, manifest, bundle>>, Facts' = Facts
    PROVE  /\ Acquired(Facts) => Acquired(Facts)'
           /\ Early => Early'
  <1>1. Acquired(Facts) => Acquired(Facts)'
    BY DEF Acquired
  <1>2. ASSUME NEW pre, Manifesting(pre) PROVE Manifesting(pre)'
    BY <1>2 DEF Manifesting
  <1>3. ASSUME NEW pre, Fetching(pre) PROVE Fetching(pre)'
    BY <1>3 DEF Fetching
  <1>4. Recording => Recording'
    BY DEF Recording
  <1>5. Building => Building'
    BY DEF Building
  <1>6. ASSUME NEW pre, Unpacking(pre) PROVE Unpacking(pre)'
    BY <1>6 DEF Unpacking
  <1>7. Resolving => Resolving'
    BY <1>1 DEF Resolving
  <1>8. Finishing => Finishing'
    BY <1>1 DEF Finishing
  <1>9. ASSUME Early PROVE Early'
    <2>1. CASE \E pre : Manifesting(pre)
      <3>1. PICK pre : Manifesting(pre)
        BY <2>1
      <3>2. Manifesting(pre)'
        BY <1>2, <3>1
      <3> QED
        BY <3>2 DEF Early
    <2>2. CASE \E pre : Fetching(pre)
      <3>1. PICK pre : Fetching(pre)
        BY <2>2
      <3>2. Fetching(pre)'
        BY <1>3, <3>1
      <3> QED
        BY <3>2 DEF Early
    <2>3. CASE \E pre : Unpacking(pre)
      <3>1. PICK pre : Unpacking(pre)
        BY <2>3
      <3>2. Unpacking(pre)'
        BY <1>6, <3>1
      <3> QED
        BY <3>2 DEF Early
    <2>4. CASE Recording \/ Building \/ Resolving \/ Finishing
      BY <2>4, <1>4, <1>5, <1>8, <1>7 DEF Early
    <2> QED
      BY <1>9, <2>1, <2>2, <2>3, <2>4 DEF Early
  <1> QED
    BY <1>1, <1>9

\* The tree the last look began with stays one, when what matches still does.
LEMMA WitnessStays ==
    ASSUME NEW K, NEW old, NEW ops, Witness(K, old, ops), past \subseteq past',
           \A p \in Keys(K.observed) : Matches(K, fs', p) => Matches(K, fs, p)
    PROVE  Witness(K, old, ops)'
  BY DEF Witness

LEMMA EditKeeps ==
    ASSUME Loading, NEW path, NEW front, Interferes, EditOf(fs, fs', path, front, clock, edits + 1),
           past' = past \cup {View(fs')}, blurred' \in BOOLEAN, blurred => blurred',
           \A p \in {path, front} :
                p \in DOMAIN fs /\ p \in DOMAIN fs' /\ fs'[p].ino = fs[p].ino /\ Unnoticed(p) => blurred',
           \/ fd' = fd
           \/ fd # None /\ path \in DOMAIN fs' /\ fs'[path].kind = "file" /\ fd' = fs'[path] /\ fd.ino = fs'[path].ino
    PROVE  Loading'
  <1>1. /\ edits' = edits + 1
        /\ UNCHANGED <<clock, origin, allowed, todo, observed, directories, matches, listed, buffer, manifest, tree, got,
                       bundle, seen, result>>
    BY DEF Interferes, source
  <1>2. Facts' = Facts
    BY <1>1 DEF Facts
  <1>3. /\ FsOK(fs) /\ clock \in Nat /\ edits \in Nat /\ Timely(fs, clock, edits)
        /\ FactsOK(Facts) /\ Looked(Facts, fs, clock, edits)
    BY DEF Loading, WorldOK, Timely
  <1>4. /\ Timely(fs', clock, edits + 1) /\ Looked(Facts, fs', clock, edits + 1)
        /\ Unchanged(Facts, fs, fs') \/ Masked(Facts, fs, fs', {path, front}, clock)
    BY <1>3, EditFacts, Zenon
  <1>5. FsOK(fs')
    BY DEF EditOf
  <1>6. WorldOK'
    BY <1>1, <1>3, <1>4, <1>5 DEF Loading, WorldOK, Timely
  <1>7. ~blurred' => Unchanged(Facts, fs, fs')
    <2>1. Masked(Facts, fs, fs', {path, front}, clock) => blurred'
      BY DEF Facts, Unnoticed, Masked
    <2> QED
      BY <1>4, <2>1
  <1>8. blurred' \/ Faithful(Facts, fs')
    BY <1>3, <1>7, StillFaithful DEF Loading
  <1>9. Opened'
    <2>1. CASE fd = None /\ buffer = <<>>
      BY <2>1, <1>1 DEF Opened
    <2>2. CASE Next1.op = "root" /\ buffer = <<>>
      BY <2>2, <1>1 DEF Opened, Next1
    <2>3. CASE /\ Next1.op \in {"read", "slurp"}
               /\ fd.kind = "file" /\ fd.data \in FileData
               /\ buffer \in Seq(Blocks) /\ Len(buffer) <= 2
               /\ ~blurred /\ Matches(Facts, fs, Next1.path) =>
                    fs[Next1.path] = fd /\ \A j \in 1..Len(buffer) : buffer[j] = fd.data[j]
      <3>1. fd'.kind = "file" /\ fd'.data \in FileData
        BY <2>3, <1>5 DEF FsOK, ContentOK
      <3>2. ASSUME ~blurred', Matches(Facts, fs', Next1.path)
            PROVE  fs'[Next1.path] = fd' /\ \A j \in 1..Len(buffer) : buffer[j] = fd'.data[j]
        <4>1. /\ Matches(Facts, fs, Next1.path) /\ fs'[Next1.path] = fs[Next1.path]
              /\ Next1.path \in DOMAIN fs'
          BY <1>7, <3>2 DEF Unchanged, Matches
        <4>2. fs'[Next1.path] = fd /\ \A j \in 1..Len(buffer) : buffer[j] = fd.data[j]
          BY <2>3, <3>2, <4>1
        <4>3. CASE fd' = fd
          BY <4>2, <4>3
        <4>4. CASE path \in DOMAIN fs' /\ fd' = fs'[path] /\ fd.ino = fs'[path].ino
          <5>1. fs'[Next1.path].ino.path = Next1.path /\ fs'[path].ino.path = path
            BY <1>5, <4>1, <4>4 DEF FsOK
          <5>2. Next1.path = path
            BY <4>2, <4>4, <5>1
          <5> QED
            BY <4>2, <4>4, <5>2
        <4> QED
          BY <4>3, <4>4
      <3>3. Next1' = Next1
        BY <1>1 DEF Next1
      <3> QED
        BY <1>1, <1>2, <2>3, <3>1, <3>2, <3>3 DEF Opened
    <2> QED
      BY <2>1, <2>2, <2>3 DEF Opened, Loading
  <1>10. Phase'
    <2>1. CASE Early
      BY <1>1, <1>2, <2>1, EarlySame DEF Phase
    <2>2. ASSUME NEW pre, Closing(pre) PROVE Closing(pre)'
      <3>1. Acquired(Facts)'
        BY <1>1, <1>2, <2>2, EarlySame DEF Closing
      <3>2. blurred' \/ \E old : Witness(Facts, old, ToSet(pre))'
        <4>1. CASE blurred'
          BY <4>1
        <4>2. CASE ~blurred'
          <5>1. PICK old : Witness(Facts, old, ToSet(pre))
            BY <2>2, <4>2 DEF Closing
          <5>2. \A p \in Keys(Facts.observed) : Matches(Facts, fs', p) => Matches(Facts, fs, p)
            BY <1>7, <4>2 DEF Unchanged
          <5>3. Witness(Facts, old, ToSet(pre))'
            BY <1>2, <5>1, <5>2, WitnessStays
          <5> QED
            BY <5>3
        <4> QED
          BY <4>1, <4>2
      <3> QED
        BY <1>1, <1>2, <2>2, <3>1, <3>2 DEF Closing
    <2> QED
      BY <2>1, <2>2 DEF Phase, Loading
  <1> QED
    BY <1>1, <1>2, <1>4, <1>6, <1>8, <1>9, <1>10 DEF Loading, MatchesOK

\* The clock ticks.
LEMMA TimeKeeps ==
    ASSUME Loading, clock' \in {clock, clock + 1},
           UNCHANGED <<fs, edits, past, blurred, origin, allowed, todo, observed, directories, matches, fd, buffer,
                       manifest, tree, got, bundle, seen>>
    PROVE  Loading'
  <1>1. Facts' = Facts /\ Next1' = Next1
    BY DEF Facts, Next1
  <1>2. WorldOK'
    <2>1. clock \in Nat /\ \A p \in DOMAIN fs : fs[p].stamp \in Nat /\ fs[p].stamp <= clock
      BY DEF Loading, WorldOK, FsOK
    <2>2. clock' \in Nat /\ \A p \in DOMAIN fs : fs[p].stamp <= clock'
      BY <2>1
    <2> QED
      BY <2>2 DEF Loading, WorldOK
  <1>3. Looked(Facts, fs, clock', edits)
    <2>1. clock \in Nat /\ Looked(Facts, fs, clock, edits)
      BY DEF Loading, WorldOK
    <2> QED
      BY <2>1 DEF Looked
  <1>4. Opened'
    BY <1>1 DEF Opened, Loading
  <1>5. Phase'
    <2>1. CASE Early
      BY <1>1, <2>1, EarlySame DEF Phase
    <2>2. ASSUME NEW pre, Closing(pre) PROVE Closing(pre)'
      <3>1. Acquired(Facts)'
        BY <1>1, <2>2, EarlySame DEF Closing
      <3>2. blurred' \/ \E old : Witness(Facts, old, ToSet(pre))'
        <4>1. CASE blurred
          BY <4>1
        <4>2. CASE ~blurred
          <5>1. PICK old : Witness(Facts, old, ToSet(pre))
            BY <2>2, <4>2 DEF Closing
          <5>2. Witness(Facts, old, ToSet(pre))'
            BY <1>1, <5>1, WitnessStays
          <5> QED
            BY <5>2
        <4> QED
          BY <4>1, <4>2
      <3> QED
        BY <1>1, <2>2, <3>1, <3>2 DEF Closing
    <2> QED
      BY <2>1, <2>2 DEF Phase, Loading
  <1> QED
    BY <1>1, <1>2, <1>3, <1>4, <1>5 DEF Loading, MatchesOK

LEMMA TickKeeps ==
    ASSUME Loading, Tick PROVE Loading'
  BY TimeKeeps DEF Tick, source, progress

LEMMA WriterKeeps ==
    ASSUME Loading, Writer PROVE Loading'
  <1>1. WorldOK
    BY DEF Loading
  <1>2. \A path \in allowed.paths : path \in Paths /\ path # Root
    BY <1>1 DEF WorldOK
  <1>3. ASSUME NEW path \in allowed.paths, NEW at \in 1..2, NEW block \in allowed.blocks, Overwrite(path, at, block)
        PROVE  Loading'
    <2>1. EditOf(fs, fs', path, path, clock, edits + 1)
      BY <1>1, <1>3, OverwriteEdit
    <2>2. /\ Interferes /\ past' = past \cup {View(fs')} /\ blurred' = (blurred \/ Unnoticed(path))
          /\ path \in DOMAIN fs
      BY <1>3 DEF Overwrite
    <2>3. blurred \in BOOLEAN
      BY <1>1 DEF WorldOK
    <2>4. \/ fd' = fd
          \/ fd # None /\ path \in DOMAIN fs' /\ fs'[path].kind = "file" /\ fd' = fs'[path] /\ fd.ino = fs'[path].ino
      <3> DEFINE new == [Stamped(fs[path]) EXCEPT !.data = [fs[path].data EXCEPT ![at] = block]]
      <3>1. /\ fs' = [fs EXCEPT ![path] = new] /\ fs[path].kind = "file"
            /\ fd' = IF fd # None /\ fd.ino = new.ino THEN new ELSE fd
        BY <1>3, Zenon DEF Overwrite
      <3>2. new.ino = fs[path].ino /\ new.kind = fs[path].kind
        BY DEF Stamped
      <3> HIDE DEF new
      <3>3. path \in DOMAIN fs' /\ fs'[path] = new
        BY <2>2, <3>1
      <3> QED
        BY <3>1, <3>2, <3>3
    <2>5. blurred' \in BOOLEAN /\ (blurred => blurred') /\ (Unnoticed(path) => blurred')
      BY <2>2
    <2> QED
      BY <2>1, <2>2, <2>4, <2>5, EditKeeps
  <1>4. ASSUME NEW path \in allowed.paths, NEW content, ContentOK(content), PutThere(path, content)
        PROVE  Loading'
    <2>1. /\ EditOf(fs, fs', path, Front(path), clock, edits + 1) /\ Front(path) \in DOMAIN fs
          /\ fs'[path].ino.born = edits + 1
      BY <1>1, <1>4, PutEdit
    <2>2. /\ Interferes /\ past' = past \cup {View(fs')} /\ blurred' = (blurred \/ Unnoticed(Front(path))) /\ fd' = fd
      BY <1>4 DEF PutThere
    <2>3. path \in DOMAIN fs => fs'[path].ino # fs[path].ino
      BY <1>1, <2>1 DEF WorldOK, FsOK
    <2>4. /\ blurred' \in BOOLEAN /\ (blurred => blurred')
          /\ \A p \in {path, Front(path)} :
                p \in DOMAIN fs /\ p \in DOMAIN fs' /\ fs'[p].ino = fs[p].ino /\ Unnoticed(p) => blurred'
      BY <2>2, <2>3
    <2> QED
      BY <2>1, <2>2, <2>4, EditKeeps
  <1>5. ASSUME NEW path \in allowed.paths, Erase(path) PROVE Loading'
    <2>1. EditOf(fs, fs', path, Front(path), clock, edits + 1) /\ path \notin DOMAIN fs'
      BY <1>1, <1>5, EraseEdit
    <2>2. /\ Interferes /\ past' = past \cup {View(fs')} /\ blurred' = (blurred \/ Unnoticed(Front(path))) /\ fd' = fd
      BY <1>5 DEF Erase
    <2>3. /\ blurred' \in BOOLEAN /\ (blurred => blurred')
          /\ \A p \in {path, Front(path)} :
                p \in DOMAIN fs /\ p \in DOMAIN fs' /\ fs'[p].ino = fs[p].ino /\ Unnoticed(p) => blurred'
      BY <2>1, <2>2
    <2> QED
      BY <2>1, <2>2, <2>3, EditKeeps
  <1>6. ASSUME NEW block \in allowed.blocks PROVE ContentOK([kind |-> "file", data |-> <<block, block>>])
    <2>1. block \in Blocks
      BY <1>1 DEF WorldOK
    <2> QED
      BY <2>1 DEF ContentOK, FileData
  <1>7. ASSUME NEW kind \in {"dir", "special"} PROVE ContentOK([kind |-> kind, data |-> None])
    BY DEF ContentOK
  <1> QED
    BY <1>3, <1>4, <1>5, <1>6, <1>7, TickKeeps DEF Writer
-----------------------------------------------------------------------------
(* A step of the load: what is left, and what was gathered. *)

IsFile(K, p) == p \in Keys(K.observed) /\ KindIn(K, p) = "file"
Simple(o) == ~Entry(o) /\ ~Enters(o) /\ o.op # "read"
Turn(K, L, t, u, h, new) ==
    /\ MoreFacts(K, L) /\ FactsOK(L) /\ \A o \in new : Fetch(o)
    /\ \/ /\ Simple(h) /\ u = t /\ (new = {} \/ h.op = "find") /\ \A o \in new : Simple(o)
          /\ h.op = "observe" /\ h.must = "dir" => IsDir(L, h.path)
       \/ Entry(h) /\ IsDir(L, h.path) /\ u = Assign(t, h.path, None) /\ new = ToSet(Walk(h.path))
       \/ Entry(h) /\ IsFile(L, h.path) /\ u = t /\ new = ToSet(Read(h.path))
       \/ /\ Enters(h) /\ h.path \in Keys(L.directories) /\ u = t
          /\ new = {Observe(Append(h.path, n), "entry") : n \in Get(L.directories, h.path)}
       \/ /\ h.op = "read" /\ IsFile(L, h.path) /\ new = {}
          /\ \E x : u = Assign(t, h.path, x) /\ <<h.path, x>> \in L.seen

\* What was due is due still, or has been done.
LEMMA CoverStep ==
    ASSUME NEW K, NEW L, NEW t, NEW u, NEW r, NEW old, NEW new,
           MoreFacts(K, L), Gathers(K, t, r), Covers(K, t, r, old), DOMAIN t \subseteq DOMAIN u,
           \A p \in DOMAIN u : p \in DOMAIN t \/ KindIn(L, p) # "dir" \/ Entered(new, p),
           \A d : Entered(old, d) =>
                \/ Entered(new, d)
                \/ /\ d \in Keys(L.directories)
                   /\ \A n \in Get(L.directories, d) : Due(new, Append(d, n)),
           \A p : Due(old, p) => p \in DOMAIN u \/ Due(new, p)
    PROVE  Covers(L, u, r, new)
  <1> SUFFICES ASSUME NEW d \in {r} \cup {p \in DOMAIN u : KindIn(L, p) = "dir"}, ~Entered(new, d)
      PROVE  /\ d \in Keys(L.directories)
             /\ \A n \in Get(L.directories, d) : Append(d, n) \in DOMAIN u \/ Due(new, Append(d, n))
    BY DEF Covers
  <1>1. d \in {r} \cup {p \in DOMAIN t : KindIn(K, p) = "dir"}
    <2>1. CASE d = r
      BY <2>1
    <2>2. CASE d # r
      <3>1. d \in DOMAIN t /\ KindIn(L, d) = "dir"
        BY <2>2
      <3>2. d \in Keys(K.observed)
        BY <3>1 DEF Gathers
      <3>3. KindIn(K, d) = "dir"
        BY <3>1, <3>2, SameKind
      <3> QED
        BY <3>1, <3>3
    <2> QED
      BY <2>1, <2>2
  <1>2. CASE Entered(old, d)
    BY <1>2
  <1>3. CASE ~Entered(old, d)
    <2>1. /\ d \in Keys(K.directories)
          /\ \A n \in Get(K.directories, d) : Append(d, n) \in DOMAIN t \/ Due(old, Append(d, n))
      BY <1>1, <1>3 DEF Covers
    <2>2. d \in Keys(L.directories) /\ Get(L.directories, d) = Get(K.directories, d)
      BY <2>1 DEF MoreFacts
    <2> QED
      BY <2>1, <2>2
  <1> QED
    BY <1>2, <1>3

LEMMA DueIn ==
    ASSUME NEW ops, NEW more, NEW p
    PROVE  /\ Due(ops \cup more, p) <=> Due(ops, p) \/ Due(more, p)
           /\ Entered(ops \cup more, p) <=> Entered(ops, p) \/ Entered(more, p)
  BY DEF Due, Entered

LEMMA FourFacts ==
    ASSUME NEW a, NEW b, NEW c, NEW d
    PROVE  IsSeq(<<a, b, c, d>>) /\ ToSet(<<a, b, c, d>>) = {a, b, c, d}
  BY TupleFacts

LEMMA WalkFacts ==
    ASSUME NEW p
    PROVE  /\ ToSet(Walk(p)) = {Observe(p, "any"), List(p, None, TRUE), List(p, None, FALSE)}
           /\ Entered(ToSet(Walk(p)), p) /\ IsSeq(Walk(p))
           /\ p \in Paths => \A o \in ToSet(Walk(p)) : Fetch(o)
           /\ \A o \in ToSet(Walk(p)) : ~Entry(o) /\ o.op # "read" /\ o.path = p
  <1> DEFINE look == Observe(p, "any")
             enter == List(p, None, TRUE)
             list == List(p, None, FALSE)
  <1>0. Walk(p) = <<look, enter, look, list>> /\ enter.op = "list" /\ enter.enter = TRUE /\ enter.path = p
    BY DEF Walk, List
  <1>7. ASSUME NEW o, o = look \/ o = enter \/ o = list
        PROVE  (p \in Paths => Fetch(o)) /\ ~Entry(o) /\ o.op # "read" /\ o.path = p
    BY <1>7 DEF Fetch, Observe, List, Enters, Entry
  <1> HIDE DEF look, enter, list
  <1>1. ToSet(Walk(p)) = {look, enter, look, list} /\ IsSeq(Walk(p))
    BY <1>0, FourFacts
  <1>2. ToSet(Walk(p)) = {look, enter, list}
    BY <1>1
  <1>3. Entered(ToSet(Walk(p)), p)
    BY <1>0, <1>2 DEF Entered, Enters
  <1> QED
    BY <1>1, <1>2, <1>3, <1>7 DEF look, enter, list

LEMMA ReadOps ==
    ASSUME NEW p
    PROVE  /\ ToSet(Read(p)) = {Observe(p, "file"), Op("read", p), Observe(p, "any")} /\ IsSeq(Read(p))
           /\ p \in Paths => \A o \in ToSet(Read(p)) : Fetch(o)
           /\ \A o \in ToSet(Read(p)) : ~Entry(o) /\ ~Enters(o) /\ o.path = p
           /\ \E o \in ToSet(Read(p)) : o.op = "read"
           /\ Due(ToSet(Read(p)), p)
  <1>1. ToSet(Read(p)) = {Observe(p, "file"), Op("read", p), Observe(p, "any")} /\ IsSeq(Read(p))
    BY TupleFacts DEF Read
  <1>2. \A o \in ToSet(Read(p)) : o = Observe(p, "file") \/ o = Op("read", p) \/ o = Observe(p, "any")
    BY <1>1
  <1>3. ASSUME p \in Paths, NEW o \in ToSet(Read(p)) PROVE Fetch(o)
    BY <1>2, <1>3 DEF Fetch, Observe, Op, Enters
  <1>4. ASSUME NEW o \in ToSet(Read(p)) PROVE ~Entry(o) /\ ~Enters(o) /\ o.path = p
    BY <1>2, <1>4 DEF Observe, Op, Entry, Enters
  <1>5. Op("read", p) \in ToSet(Read(p)) /\ Op("read", p).op = "read" /\ Op("read", p).path = p
    BY <1>1 DEF Op
  <1>6. Due(ToSet(Read(p)), p)
    BY <1>5, Zenon DEF Due
  <1> QED
    BY <1>1, <1>3, <1>4, <1>5, <1>6

LEMMA TurnFile ==
    ASSUME NEW K, NEW L, NEW t, NEW u, NEW h, NEW new, NEW rest, NEW path,
           Turn(K, L, t, u, h, new), FileTarget(K, t, path, {h} \cup rest)
    PROVE  FileTarget(L, u, path, new \cup rest)
  <1>1. K.seen \subseteq L.seen
    BY DEF Turn, MoreFacts
  <1>2. ~Entry(h) /\ ~Enters(h) /\ (h.op = "read" => h.path = path)
    BY DEF FileTarget
  <1>3. \A o \in rest : ~Entry(o) /\ ~Enters(o) /\ (o.op = "read" => o.path = path)
    BY DEF FileTarget
  <1>4. CASE Simple(h) /\ u = t /\ \A o \in new : Simple(o)
    <2>1. (\E o \in rest : o.op = "read") \/ (path \in DOMAIN t /\ <<path, t[path]>> \in K.seen)
      BY <1>4 DEF FileTarget, Simple
    <2>2. (\E o \in new \cup rest : o.op = "read") \/ (path \in DOMAIN u /\ <<path, u[path]>> \in L.seen)
      BY <1>1, <1>4, <2>1
    <2>3. \A o \in new \cup rest : ~Entry(o) /\ ~Enters(o) /\ (o.op = "read" => o.path = path)
      BY <1>3, <1>4 DEF Simple
    <2> QED
      BY <2>2, <2>3 DEF FileTarget
  <1>5. ASSUME h.op = "read", new = {}, NEW x, u = Assign(t, h.path, x), <<h.path, x>> \in L.seen
        PROVE  FileTarget(L, u, path, new \cup rest)
    <2>1. path \in DOMAIN u /\ u[path] = x
      BY <1>2, <1>5 DEF Assign
    <2>2. <<path, u[path]>> \in L.seen
      BY <1>2, <1>5, <2>1
    <2> QED
      BY <1>3, <1>5, <2>1, <2>2 DEF FileTarget
  <1> QED
    BY <1>2, <1>4, <1>5 DEF Turn

LEMMA TurnTree ==
    ASSUME NEW K, NEW L, NEW t, NEW u, NEW h, NEW new, NEW rest, NEW r \in Paths,
           Turn(K, L, t, u, h, new), Fetch(h), TreeTarget(K, t, r, {h} \cup rest)
    PROVE  TreeTarget(L, u, r, new \cup rest)
  <1>1. MoreFacts(K, L) /\ FactsOK(L) /\ h.path \in Paths
    BY DEF Turn, Fetch
  <1>2. /\ Gathers(K, t, r) /\ Covers(K, t, r, {h} \cup rest)
        /\ Observe(r, "dir") \in {h} \cup rest \/ IsDir(K, r)
    BY DEF TreeTarget
  <1>3. /\ Entry(h) \/ h.op = "read" => Under(h.path, r)
        /\ Enters(h) => h.path = r \/ Under(h.path, r)
    BY DEF TreeTarget
  <1>4. \A o \in rest : /\ Entry(o) \/ o.op = "read" => Under(o.path, r)
                        /\ Enters(o) => o.path = r \/ Under(o.path, r)
    BY DEF TreeTarget
  <1>5. Gathers(L, t, r)
    BY <1>1, <1>2, GatheredStays
  <1>6. \A p : IsDir(K, p) => IsDir(L, p)
    BY <1>1, SameKind
  <1>7. CASE Simple(h) /\ u = t /\ (\A o \in new : Simple(o)) /\ (h.op = "observe" /\ h.must = "dir" => IsDir(L, h.path))
    <2>1. \A p : (Due({h} \cup rest, p) => Due(new \cup rest, p)) /\ (Entered({h} \cup rest, p) => Entered(new \cup rest, p))
      BY <1>7 DEF Due, Entered, Simple
    <2>2. Covers(L, u, r, new \cup rest)
      BY <1>1, <1>2, <1>7, <2>1, CoverStep
    <2>3. Observe(r, "dir") \in rest \/ IsDir(L, r)
      <3>1. CASE h = Observe(r, "dir")
        BY <1>7, <3>1 DEF Observe
      <3>2. CASE h # Observe(r, "dir")
        BY <1>2, <1>6, <3>2
      <3> QED
        BY <3>1, <3>2
    <2>4. \A o \in new \cup rest : /\ Entry(o) \/ o.op = "read" => Under(o.path, r)
                                   /\ Enters(o) => o.path = r \/ Under(o.path, r)
      BY <1>4, <1>7 DEF Simple
    <2> QED
      BY <1>5, <1>7, <2>2, <2>3, <2>4 DEF TreeTarget
  <1>8. ASSUME h.op = "read" \/ Entry(h) \/ Enters(h) PROVE Observe(r, "dir") \in rest \/ IsDir(L, r)
    <2>1. h # Observe(r, "dir")
      BY <1>8 DEF Observe, Entry, Enters
    <2> QED
      BY <1>2, <1>6, <2>1
  <1>9. CASE Entry(h) /\ IsDir(L, h.path) /\ u = Assign(t, h.path, None) /\ new = ToSet(Walk(h.path))
    <2>1. /\ DOMAIN u = DOMAIN t \cup {h.path} /\ u[h.path] = None /\ \A k \in DOMAIN t : k # h.path => u[k] = t[k]
      BY <1>9 DEF Assign
    <2>2. Gathers(L, u, r)
      <3>1. ASSUME NEW p \in DOMAIN u
            PROVE  /\ Under(p, r) /\ p \in Keys(L.observed)
                   /\ \/ KindIn(L, p) = "dir" /\ u[p] = None
                      \/ KindIn(L, p) = "file" /\ <<p, u[p]>> \in L.seen
        <4>1. CASE p = h.path
          BY <1>3, <1>9, <2>1, <4>1 DEF IsDir
        <4>2. CASE p # h.path
          BY <1>5, <2>1, <4>2 DEF Gathers
        <4> QED
          BY <4>1, <4>2
      <3> QED
        BY <3>1 DEF Gathers
    <2>3. Entered(new, h.path) /\ \A o \in new : ~Entry(o) /\ o.op # "read" /\ o.path = h.path
      BY <1>9, WalkFacts
    <2>4. \A p : Due({h} \cup rest, p) => p \in DOMAIN u \/ Due(new \cup rest, p)
      BY <2>1 DEF Due
    <2>5. \A p : Entered({h} \cup rest, p) => Entered(new \cup rest, p)
      BY <1>9 DEF Entered, Enters, Entry
    <2>6. \A p \in DOMAIN u : p \in DOMAIN t \/ Entered(new \cup rest, p)
      <3>1. Entered(new \cup rest, h.path)
        BY <2>3 DEF Entered
      <3> QED
        BY <2>1, <3>1, Zenon
    <2>7. Covers(L, u, r, new \cup rest)
      BY <1>1, <1>2, <2>1, <2>4, <2>5, <2>6, CoverStep
    <2>8. \A o \in new \cup rest : /\ Entry(o) \/ o.op = "read" => Under(o.path, r)
                                   /\ Enters(o) => o.path = r \/ Under(o.path, r)
      BY <1>3, <1>4, <1>9, <2>3
    <2> QED
      BY <1>8, <1>9, <2>2, <2>7, <2>8 DEF TreeTarget
  <1>10. CASE Entry(h) /\ IsFile(L, h.path) /\ u = t /\ new = ToSet(Read(h.path))
    <2>1. Due(new, h.path) /\ \A o \in new : ~Entry(o) /\ ~Enters(o) /\ o.path = h.path
      BY <1>10, ReadOps
    <2>2. \A p : Due({h} \cup rest, p) => Due(new \cup rest, p)
      <3>1. ASSUME NEW p, Due({h} \cup rest, p) PROVE Due(new, p) \/ Due(rest, p)
        BY <2>1, <3>1 DEF Due
      <3> QED
        BY <3>1, DueIn
    <2>3. \A p : Entered({h} \cup rest, p) => Entered(new \cup rest, p)
      BY <1>10 DEF Entered, Enters, Entry
    <2>4. Covers(L, u, r, new \cup rest)
      BY <1>1, <1>2, <1>10, <2>2, <2>3, CoverStep
    <2>5. \A o \in new \cup rest : /\ Entry(o) \/ o.op = "read" => Under(o.path, r)
                                   /\ Enters(o) => o.path = r \/ Under(o.path, r)
      BY <1>3, <1>4, <1>10, <2>1
    <2> QED
      BY <1>5, <1>8, <1>10, <2>4, <2>5 DEF TreeTarget
  <1>11. CASE /\ Enters(h) /\ h.path \in Keys(L.directories) /\ u = t
              /\ new = {Observe(Append(h.path, n), "entry") : n \in Get(L.directories, h.path)}
    <2>1. \A n \in Get(L.directories, h.path) : Due(new, Append(h.path, n))
      <3>1. ASSUME NEW n \in Get(L.directories, h.path) PROVE Due(new, Append(h.path, n))
        <4>1. /\ Observe(Append(h.path, n), "entry") \in new
              /\ Observe(Append(h.path, n), "entry").path = Append(h.path, n)
              /\ Entry(Observe(Append(h.path, n), "entry"))
          BY <1>11 DEF Observe, Entry
        <4> QED
          BY <4>1, Zenon DEF Due
      <3> QED
        BY <3>1
    <2>2. \A p : Entered({h} \cup rest, p) => p = h.path \/ Entered(new \cup rest, p)
      BY DEF Entered
    <2>3. \A p : Due({h} \cup rest, p) => Due(new \cup rest, p)
      BY <1>11 DEF Due, Enters, Entry
    <2>4. \A d : Entered({h} \cup rest, d) =>
                \/ Entered(new \cup rest, d)
                \/ /\ d \in Keys(L.directories)
                   /\ \A n \in Get(L.directories, d) : Due(new \cup rest, Append(d, n))
      <3>1. \A n \in Get(L.directories, h.path) : Due(new \cup rest, Append(h.path, n))
        BY <2>1 DEF Due
      <3> QED
        BY <1>11, <2>2, <3>1, Zenon
    <2>5. Covers(L, u, r, new \cup rest)
      BY <1>1, <1>2, <1>11, <2>3, <2>4, CoverStep
    <2>6. ASSUME NEW o \in new PROVE Under(o.path, r) /\ ~Enters(o)
      <3>1. PICK n \in Get(L.directories, h.path) : o = Observe(Append(h.path, n), "entry")
        BY <1>11
      <3>2. n \in STRING
        BY <1>1, <1>11 DEF FactsOK
      <3>3. Under(Append(h.path, n), r)
        BY <1>1, <1>3, <1>11, <3>2, UnderAppend
      <3> QED
        BY <3>1, <3>3 DEF Observe, Enters
    <2>7. \A o \in new \cup rest : /\ Entry(o) \/ o.op = "read" => Under(o.path, r)
                                   /\ Enters(o) => o.path = r \/ Under(o.path, r)
      BY <1>4, <2>6
    <2> QED
      BY <1>5, <1>8, <1>11, <2>5, <2>7 DEF TreeTarget
  <1>12. ASSUME h.op = "read", IsFile(L, h.path), new = {}, NEW x, u = Assign(t, h.path, x), <<h.path, x>> \in L.seen
         PROVE  TreeTarget(L, u, r, new \cup rest)
    <2>1. /\ DOMAIN u = DOMAIN t \cup {h.path} /\ u[h.path] = x /\ \A k \in DOMAIN t : k # h.path => u[k] = t[k]
      BY <1>12 DEF Assign
    <2>2. Gathers(L, u, r)
      <3>1. ASSUME NEW p \in DOMAIN u
            PROVE  /\ Under(p, r) /\ p \in Keys(L.observed)
                   /\ \/ KindIn(L, p) = "dir" /\ u[p] = None
                      \/ KindIn(L, p) = "file" /\ <<p, u[p]>> \in L.seen
        <4>1. CASE p = h.path
          BY <1>3, <1>12, <2>1, <4>1 DEF IsFile
        <4>2. CASE p # h.path
          BY <1>5, <2>1, <4>2 DEF Gathers
        <4> QED
          BY <4>1, <4>2
      <3> QED
        BY <3>1 DEF Gathers
    <2>3. \A p : Due({h} \cup rest, p) => p \in DOMAIN u \/ Due(rest, p)
      BY <2>1 DEF Due
    <2>4. \A p : Entered({h} \cup rest, p) => Entered(rest, p)
      BY <1>12 DEF Entered, Enters
    <2>5. \A p \in DOMAIN u : p \in DOMAIN t \/ KindIn(L, p) # "dir"
      BY <1>12, <2>1 DEF IsFile
    <2>6. Covers(L, u, r, rest)
      BY <1>1, <1>2, <2>1, <2>3, <2>4, <2>5, CoverStep
    <2>7. new \cup rest = rest
      BY <1>12
    <2> QED
      BY <1>4, <1>8, <1>12, <2>2, <2>6, <2>7 DEF TreeTarget
  <1> QED
    BY <1>7, <1>9, <1>10, <1>11, <1>12 DEF Turn
-----------------------------------------------------------------------------
(* Where the load is. *)

LEMMA HeadFacts ==
    ASSUME NEW pre, NEW end, IsSeq(pre), IsSeq(end), end # <<>>, NEW all, all = pre \o end
    PROVE  /\ IsSeq(all) /\ all # <<>>
           /\ pre = <<>> => all = end
           /\ pre # <<>> => Head(all) = Head(pre) /\ Head(all) \in ToSet(pre)
  <1>1. Len(end) > 0 /\ Len(pre) \in Nat /\ Len(end) \in Nat
    BY SeqFacts
  <1>2. IsSeq(all) /\ Len(all) = Len(pre) + Len(end)
    BY ConcatFacts
  <1>3. all # <<>>
    BY <1>1, <1>2, SeqFacts
  <1>4. pre = <<>> => all = end
    BY EmptyFacts
  <1>5. ASSUME pre # <<>> PROVE Head(all) = Head(pre) /\ Head(all) \in ToSet(pre)
    <2>1. Head(pre \o end) = Head(pre) /\ ToSet(pre) = {Head(pre)} \cup ToSet(Tail(pre))
      BY <1>5, EmptyFacts, StepBefore
    <2> QED
      BY <2>1
  <1> QED
    BY <1>2, <1>3, <1>4, <1>5

Working == {"root", "find", "observe", "list", "read"}

LEMMA EndFacts ==
    /\ \A op, path : /\ IsSeq(<<Op(op, path)>>) /\ <<Op(op, path)>> # <<>>
                     /\ Head(<<Op(op, path)>>) = Op(op, path) /\ Tail(<<Op(op, path)>>) = <<>>
    /\ \A m, g : /\ IsSeq(CollectEnd(m, g)) /\ CollectEnd(m, g) # <<>>
                 /\ Head(CollectEnd(m, g)) = Collect(ReadsOf(m)[Len(g) + 1]) /\ Tail(CollectEnd(m, g)) = <<RecordAt(Len(g) + 2)>>
    /\ \A where : /\ IsSeq(ResolveEnd(where)) /\ ResolveEnd(where) # <<>>
                  /\ Head(ResolveEnd(where)) = Op("resolve_origin", where)
                  /\ Tail(ResolveEnd(where)) = <<Op("finish", Root)>>
    /\ \A where : /\ IsSeq(ArchiveEnd(where)) /\ ArchiveEnd(where) # <<>>
                  /\ Head(ArchiveEnd(where)) = Op("slurp", where) /\ Tail(ArchiveEnd(where)) = ResolveEnd(where)
  <1>1. ASSUME NEW a PROVE IsSeq(<<a>>) /\ <<a>> # <<>> /\ Head(<<a>>) = a /\ Tail(<<a>>) = <<>>
    BY TupleFacts
  <1>2. ASSUME NEW a, NEW b
        PROVE  IsSeq(<<a, b>>) /\ <<a, b>> # <<>> /\ Head(<<a, b>>) = a /\ Tail(<<a, b>>) = <<b>>
    <2>1. IsSeq(<<a, b>>) /\ Head(<<a, b>>) = a /\ Tail(<<a, b>>) = <<b>>
      BY TupleFacts
    <2> QED
      BY <2>1
  <1>3. ASSUME NEW a, NEW s, IsSeq(s)
        PROVE  IsSeq(<<a>> \o s) /\ <<a>> \o s # <<>> /\ Head(<<a>> \o s) = a /\ Tail(<<a>> \o s) = s
    <2>1. <<a>> # <<>> /\ IsSeq(<<a>>) /\ Head(<<a>>) = a /\ Tail(<<a>>) = <<>>
      BY <1>1
    <2>2. Head(<<a>> \o s) = a
      BY <1>3, <2>1, EmptyFacts, StepBefore
    <2>3. <<>> \o Tail(<<a>> \o s) = (<<>> \o <<>>) \o s
      <3> DEFINE one == <<a>>
      <3>1. one # <<>> /\ IsSeq(one) /\ Tail(one) = <<>>
        BY <2>1
      <3> HIDE DEF one
      <3>2. IsSeq(<<>>)
        BY EmptyFacts
      <3>3. <<>> \o Tail(one \o s) = (<<>> \o Tail(one)) \o s
        BY <1>3, <3>1, <3>2, StepBefore, Zenon
      <3> QED
        BY <3>1, <3>3 DEF one
    <2>4. IsSeq(<<a>> \o s) /\ Len(<<a>> \o s) = Len(<<a>>) + Len(s) /\ Len(<<a>>) > 0 /\ Len(s) \in Nat
      BY <1>3, <2>1, ConcatFacts, SeqFacts
    <2>5. <<a>> \o s # <<>>
      BY <2>4, SeqFacts
    <2>6. IsSeq(Tail(<<a>> \o s))
      BY <2>4, <2>5, TailFacts
    <2> QED
      BY <1>3, <2>2, <2>3, <2>4, <2>5, <2>6, EmptyFacts
  <1>4. \A where : /\ IsSeq(ResolveEnd(where)) /\ ResolveEnd(where) # <<>>
                   /\ Head(ResolveEnd(where)) = Op("resolve_origin", where)
                   /\ Tail(ResolveEnd(where)) = <<Op("finish", Root)>>
    BY <1>2, Zenon DEF ResolveEnd
  <1>5. \A where : /\ IsSeq(ArchiveEnd(where)) /\ ArchiveEnd(where) # <<>>
                   /\ Head(ArchiveEnd(where)) = Op("slurp", where) /\ Tail(ArchiveEnd(where)) = ResolveEnd(where)
    BY <1>3, <1>4, Zenon DEF ArchiveEnd
  <1>6. \A m, g : /\ IsSeq(CollectEnd(m, g)) /\ CollectEnd(m, g) # <<>>
                  /\ Head(CollectEnd(m, g)) = Collect(ReadsOf(m)[Len(g) + 1])
                  /\ Tail(CollectEnd(m, g)) = <<RecordAt(Len(g) + 2)>>
    BY <1>2, Zenon DEF CollectEnd
  <1>7. \A op, path : /\ IsSeq(<<Op(op, path)>>) /\ <<Op(op, path)>> # <<>>
                      /\ Head(<<Op(op, path)>>) = Op(op, path) /\ Tail(<<Op(op, path)>>) = <<>>
    BY <1>1, Zenon
  <1> QED
    BY <1>4, <1>5, <1>6, <1>7, Zenon

\* Where the load is, by what comes next.
At(pre) == Manifesting(pre) \/ Fetching(pre) \/ Unpacking(pre) \/ Closing(pre)
Stage(op) ==
    \/ op \in Working /\ \E pre : pre # <<>> /\ Next1 = Head(pre) /\ Next1 \in ToSet(pre) /\ At(pre)
    \/ op = "manifest" /\ Manifesting(<<>>)
    \/ op = "collect" /\ Fetching(<<>>)
    \/ op = "slurp" /\ Unpacking(<<>>)
    \/ op = "done" /\ Closing(<<>>)
    \/ op = "record" /\ Recording
    \/ op = "build" /\ Building
    \/ op = "resolve_origin" /\ Resolving
    \/ op = "finish" /\ Finishing

LEMMA Which ==
    ASSUME Phase
    PROVE  IsSeq(todo) /\ todo # <<>> /\ Stage(Next1.op)
  <1> DEFINE Step(op) == IsSeq(todo) /\ todo # <<>> /\ Stage(op)
  <1>1. ASSUME NEW pre, NEW end, IsSeq(pre), IsSeq(end), end # <<>>, todo = pre \o end,
               \A o \in ToSet(pre) : o.op \in Working,
               At(pre)
        PROVE  /\ IsSeq(todo) /\ todo # <<>>
               /\ (pre = <<>> /\ Next1 = Head(end)) \/ Step(Next1.op)
    <2>1. /\ IsSeq(todo) /\ todo # <<>>
          /\ pre = <<>> => todo = end
          /\ pre # <<>> => Head(todo) = Head(pre) /\ Head(todo) \in ToSet(pre)
      BY <1>1, HeadFacts
    <2>2. CASE pre = <<>>
      BY <2>1, <2>2 DEF Next1
    <2>3. CASE pre # <<>>
      <3>1. Next1 = Head(pre) /\ Next1 \in ToSet(pre) /\ Next1.op \in Working
        BY <1>1, <2>1, <2>3 DEF Next1
      <3> QED
        BY <1>1, <2>1, <2>3, <3>1, Zenon DEF Stage
    <2> QED
      BY <2>1, <2>2, <2>3
  <1>2. ASSUME NEW pre, Manifesting(pre) PROVE Step(Next1.op)
    <2> DEFINE end == <<Op("manifest", ManifestPath)>>
    <2>1. IsSeq(end) /\ end # <<>> /\ Head(end) = Op("manifest", ManifestPath)
      BY EndFacts, Zenon
    <2>2. IsSeq(pre) /\ todo = pre \o end /\ \A o \in ToSet(pre) : o.op \in Working
      BY <1>2 DEF Manifesting, Fetch, Working
    <2> HIDE DEF end
    <2>3. IsSeq(todo) /\ todo # <<>> /\ ((pre = <<>> /\ Next1 = Head(end)) \/ Step(Next1.op))
      BY <1>1, <1>2, <2>1, <2>2 DEF At
    <2>4. CASE pre = <<>> /\ Next1 = Op("manifest", ManifestPath)
      <3>1. Next1.op = "manifest"
        BY <2>4 DEF Op
      <3> QED
        BY <1>2, <2>3, <2>4, <3>1 DEF Stage
    <2> QED
      BY <2>1, <2>3, <2>4
  <1>3. ASSUME NEW pre, Fetching(pre) PROVE Step(Next1.op)
    <2> DEFINE end == CollectEnd(manifest, got)
    <2>1. IsSeq(end) /\ end # <<>> /\ Head(end) = Collect(ReadsOf(manifest)[Len(got) + 1])
      BY EndFacts, Zenon
    <2>2. IsSeq(pre) /\ todo = pre \o end /\ \A o \in ToSet(pre) : o.op \in Working
      BY <1>3 DEF Fetching, Fetch, Working
    <2> HIDE DEF end
    <2>3. IsSeq(todo) /\ todo # <<>> /\ ((pre = <<>> /\ Next1 = Head(end)) \/ Step(Next1.op))
      BY <1>1, <1>3, <2>1, <2>2 DEF At
    <2>4. CASE pre = <<>> /\ Next1 = Collect(ReadsOf(manifest)[Len(got) + 1])
      <3>1. Next1.op = "collect"
        BY <2>4 DEF Collect
      <3> QED
        BY <1>3, <2>3, <2>4, <3>1 DEF Stage
    <2> QED
      BY <2>1, <2>3, <2>4
  <1>4. ASSUME NEW pre, Unpacking(pre) PROVE Step(Next1.op)
    <2> DEFINE end == ArchiveEnd(origin)
    <2>1. IsSeq(end) /\ end # <<>> /\ Head(end) = Op("slurp", origin)
      BY EndFacts, Zenon
    <2>2. IsSeq(pre) /\ todo = pre \o end /\ \A o \in ToSet(pre) : o.op \in Working
      BY <1>4 DEF Unpacking, Plain, Working
    <2> HIDE DEF end
    <2>3. IsSeq(todo) /\ todo # <<>> /\ ((pre = <<>> /\ Next1 = Head(end)) \/ Step(Next1.op))
      BY <1>1, <1>4, <2>1, <2>2 DEF At
    <2>4. CASE pre = <<>> /\ Next1 = Op("slurp", origin)
      <3>1. Next1.op = "slurp"
        BY <2>4 DEF Op
      <3> QED
        BY <1>4, <2>3, <2>4, <3>1 DEF Stage
    <2> QED
      BY <2>1, <2>3, <2>4
  <1>5. ASSUME NEW pre, Closing(pre) PROVE Step(Next1.op)
    <2> DEFINE end == <<Op("done", Root)>>
    <2>1. IsSeq(end) /\ end # <<>> /\ Head(end) = Op("done", Root)
      BY EndFacts, Zenon
    <2>2. IsSeq(pre) /\ todo = pre \o end /\ \A o \in ToSet(pre) : o.op \in Working
      BY <1>5 DEF Closing, Closes, Working
    <2> HIDE DEF end
    <2>3. IsSeq(todo) /\ todo # <<>> /\ ((pre = <<>> /\ Next1 = Head(end)) \/ Step(Next1.op))
      BY <1>1, <1>5, <2>1, <2>2 DEF At
    <2>4. CASE pre = <<>> /\ Next1 = Op("done", Root)
      <3>1. Next1.op = "done"
        BY <2>4 DEF Op
      <3> QED
        BY <1>5, <2>3, <2>4, <3>1 DEF Stage
    <2> QED
      BY <2>1, <2>3, <2>4
  <1>6. ASSUME Recording PROVE Step(Next1.op)
    <2>1. todo = <<RecordAt(Len(got) + 1)>>
      BY <1>6 DEF Recording
    <2>2. IsSeq(todo) /\ todo # <<>> /\ Next1 = RecordAt(Len(got) + 1)
      BY <2>1, TupleFacts DEF Next1
    <2>3. Next1.op = "record"
      BY <2>2 DEF RecordAt
    <2> QED
      BY <1>6, <2>2, <2>3 DEF Stage
  <1>7. ASSUME NEW op, todo = <<Op(op, Root)>> PROVE IsSeq(todo) /\ todo # <<>> /\ Next1.op = op
    <2>1. IsSeq(todo) /\ todo # <<>> /\ Next1 = Op(op, Root)
      BY <1>7, EndFacts, Zenon DEF Next1
    <2> QED
      BY <2>1 DEF Op
  <1>8. ASSUME Building PROVE Step(Next1.op)
    <2>1. todo = <<Op("build", Root)>>
      BY <1>8 DEF Building
    <2>2. IsSeq(todo) /\ todo # <<>> /\ Next1.op = "build"
      BY <1>7, <2>1
    <2> QED
      BY <1>8, <2>2 DEF Stage
  <1>9. ASSUME Finishing PROVE Step(Next1.op)
    <2>1. todo = <<Op("finish", Root)>>
      BY <1>9 DEF Finishing
    <2>2. IsSeq(todo) /\ todo # <<>> /\ Next1.op = "finish"
      BY <1>7, <2>1
    <2> QED
      BY <1>9, <2>2 DEF Stage
  <1>10. ASSUME Resolving PROVE Step(Next1.op)
    <2>1. todo = ResolveEnd(origin)
      BY <1>10 DEF Resolving
    <2>2. IsSeq(todo) /\ todo # <<>> /\ Next1 = Op("resolve_origin", origin)
      BY <2>1, EndFacts, Zenon DEF Next1
    <2>3. Next1.op = "resolve_origin"
      BY <2>2 DEF Op
    <2> QED
      BY <1>10, <2>2, <2>3 DEF Stage
  <1> QED
    BY <1>2, <1>3, <1>4, <1>5, <1>6, <1>8, <1>9, <1>10 DEF Phase, Early

\* What prepared a later operation still does, or has.
LEMMA ChainStep ==
    ASSUME NEW K, NEW L, NEW s, NEW ops, Chained(K, s), MoreFacts(K, L), IsSeq(s), s # <<>>, IsSeq(ops),
           Chained(L, ops), \A o : Prepares(Head(s), o) => Ready(L, o)
    PROVE  Chained(L, ops \o Tail(s))
  <1> DEFINE all == ops \o Tail(s)
  <1>1. /\ IsSeq(Tail(s)) /\ Len(Tail(s)) = Len(s) - 1 /\ Head(s) = s[1] /\ Len(s) > 0
        /\ \A i \in 1..Len(Tail(s)) : Tail(s)[i] = s[i + 1]
    BY TailFacts
  <1>2. /\ IsSeq(all) /\ Len(all) = Len(ops) + Len(Tail(s))
        /\ \A i \in 1..Len(ops) : all[i] = ops[i]
        /\ \A i \in 1..Len(Tail(s)) : all[Len(ops) + i] = Tail(s)[i]
    BY <1>1, ConcatFacts
  <1>3. /\ DOMAIN all = 1..Len(all) /\ DOMAIN s = 1..Len(s) /\ DOMAIN ops = 1..Len(ops)
        /\ Len(s) \in Nat /\ Len(ops) \in Nat
    BY <1>2, SeqFacts
  <1> HIDE DEF all
  <1>4. \A o : Ready(K, o) => Ready(L, o)
    BY SameKind DEF Ready
  <1>5. ASSUME NEW i \in 1..Len(ops), Uses(all[i]) PROVE Ready(L, all[i]) \/ (i > 1 /\ Prepares(all[i - 1], all[i]))
    <2>1. Ready(L, ops[i]) \/ (i > 1 /\ Prepares(ops[i - 1], ops[i]))
      BY <1>2, <1>3, <1>5 DEF Chained
    <2>2. i > 1 => all[i - 1] = ops[i - 1]
      BY <1>2, <1>3
    <2> QED
      BY <1>2, <2>1, <2>2
  <1>6. ASSUME NEW j \in 1..Len(s) - 1, Uses(all[Len(ops) + j])
        PROVE  Ready(L, all[Len(ops) + j]) \/ (Len(ops) + j > 1 /\ Prepares(all[Len(ops) + j - 1], all[Len(ops) + j]))
    <2>1. all[Len(ops) + j] = s[j + 1] /\ j + 1 \in DOMAIN s
      BY <1>1, <1>2, <1>3
    <2>2. Ready(K, s[j + 1]) \/ (j + 1 > 1 /\ Prepares(s[j + 1 - 1], s[j + 1]))
      BY <1>6, <2>1 DEF Chained
    <2>3. Ready(K, s[j + 1]) \/ Prepares(s[j], s[j + 1])
      BY <2>2
    <2>4. CASE Ready(K, s[j + 1])
      BY <1>4, <2>1, <2>4
    <2>5. CASE Prepares(s[j], s[j + 1]) /\ j = 1
      BY <1>1, <2>1, <2>5
    <2>6. CASE Prepares(s[j], s[j + 1]) /\ j > 1
      <3>1. j - 1 \in 1..Len(Tail(s)) /\ Len(ops) + j - 1 = Len(ops) + (j - 1) /\ j - 1 + 1 = j
        BY <1>1, <1>3, <2>6
      <3>2. all[Len(ops) + j - 1] = s[j]
        BY <1>1, <1>2, <3>1
      <3> QED
        BY <1>3, <2>1, <2>6, <3>2
    <2> QED
      BY <2>3, <2>4, <2>5, <2>6
  <1>7. ASSUME NEW i \in DOMAIN all, Uses(all[i]) PROVE Ready(L, all[i]) \/ (i > 1 /\ Prepares(all[i - 1], all[i]))
    <2>1. CASE i <= Len(ops)
      BY <1>3, <1>5, <1>7, <2>1
    <2>2. CASE i > Len(ops)
      <3>1. PICK j \in 1..Len(s) - 1 : i = Len(ops) + j
        <4>1. i - Len(ops) \in 1..Len(s) - 1 /\ i = Len(ops) + (i - Len(ops))
          BY <1>1, <1>2, <1>3, <2>2
        <4> QED
          BY <4>1
      <3>2. Ready(L, all[Len(ops) + j]) \/ (Len(ops) + j > 1 /\ Prepares(all[Len(ops) + j - 1], all[Len(ops) + j]))
        BY <1>6, <1>7, <3>1
      <3> QED
        BY <3>1, <3>2
    <2> QED
      BY <1>3, <2>1, <2>2
  <1> QED
    BY <1>7 DEF Chained, all

LEMMA ChainOne ==
    ASSUME NEW K, NEW s, IsSeq(s), \A i \in 1..Len(s) : ~Uses(s[i])
    PROVE  Chained(K, s)
  BY SeqFacts DEF Chained

\* The head of what is left replaced, while something is gathered.
LEMMA Advance ==
    ASSUME NEW pre, pre # <<>>, Next1 = Head(pre), NEW ops, IsSeq(ops), todo' = ops \o Tail(todo),
           UNCHANGED <<origin, manifest, got, bundle>>,
           Turn(Facts, Facts', tree, tree', Next1, ToSet(ops)),
           Manifesting(pre) \/ Fetching(pre) \/ Unpacking(pre)
    PROVE  Early'
  <1> DEFINE new == ToSet(ops)
             rest == ToSet(Tail(pre))
             left == ops \o Tail(pre)
  <1>1. MoreFacts(Facts, Facts')
    BY DEF Turn
  <1>2. IsSeq(pre)
    BY DEF Manifesting, Fetching, Unpacking
  <1>3. IsSeq(left) /\ ToSet(left) = new \cup rest /\ ToSet(pre) = {Next1} \cup rest
    <2>1. IsSeq(<<>>)
      BY EmptyFacts
    <2> QED
      BY <1>2, <2>1, StepBefore
  <1>4. ASSUME NEW end, IsSeq(end), todo = pre \o end PROVE todo' = left \o end
    BY <1>2, <1>4, StepBefore
  <1>5. \A o \in new : Fetch(o)
    BY DEF Turn
  <1> HIDE DEF left, new, rest
  <1>6. ASSUME Manifesting(pre) PROVE Manifesting(left)'
    <2> DEFINE end == <<Op("manifest", ManifestPath)>>
    <2>1. IsSeq(end)
      BY TupleFacts
    <2>2. todo = pre \o end
      BY <1>6 DEF Manifesting
    <2>3. todo' = left \o end
      BY <1>4, <2>1, <2>2
    <2>4. FileTarget(Facts', tree', ManifestPath, new \cup rest)
      <3>1. FileTarget(Facts, tree, ManifestPath, {Next1} \cup rest)
        BY <1>3, <1>6 DEF Manifesting
      <3> QED
        BY <3>1, TurnFile DEF new
    <2>5. \A o \in new \cup rest : Fetch(o)
      BY <1>3, <1>5, <1>6 DEF Manifesting
    <2> QED
      BY <1>3, <1>6, <2>3, <2>4, <2>5 DEF Manifesting
  <1>7. ASSUME Fetching(pre) PROVE Fetching(left)'
    <2> DEFINE end == CollectEnd(manifest, got)
               need == ReadsOf(manifest)[Len(got) + 1]
    <2>1. IsSeq(end)
      BY EndFacts, Zenon
    <2>2. todo = pre \o end
      BY <1>7 DEF Fetching
    <2>3. todo' = left \o end
      BY <1>4, <2>1, <2>2
    <2>4. GotAll(Facts, manifest, got) /\ Len(got) < Len(ReadsOf(manifest)) /\ (\A o \in {Next1} \cup rest : Fetch(o))
          /\ Target(Facts, tree, need, {Next1} \cup rest)
      BY <1>3, <1>7 DEF Fetching
    <2>5. GotAll(Facts', manifest, got)
      BY <1>1, <2>4, GotStays
    <2>6. NeedOK(need)
      <3>1. Manifested(Facts, manifest) /\ Len(got) \in Nat
        BY <2>4, SeqFacts DEF GotAll
      <3>2. /\ Len(ReadsOf(manifest)) \in Nat
            /\ \A i \in 1..Len(ReadsOf(manifest)) : NeedOK(ReadsOf(manifest)[i])
        BY <3>1, NeedFacts
      <3> QED
        BY <2>4, <3>1, <3>2
    <2> HIDE DEF need, end
    <2>7. Target(Facts', tree', need, new \cup rest)
      <3>1. CASE need = None
        BY <3>1 DEF Target
      <3>2. CASE need # None /\ need.read = "file"
        <4>1. FileTarget(Facts, tree, need.path, {Next1} \cup rest)
          BY <2>4, <3>2 DEF Target
        <4>2. FileTarget(Facts', tree', need.path, new \cup rest)
          BY <4>1, TurnFile DEF new
        <4> QED
          BY <3>2, <4>2 DEF Target
      <3>3. CASE need # None /\ need.read # "file"
        <4>1. TreeTarget(Facts, tree, need.path, {Next1} \cup rest) /\ need.path \in Paths /\ Fetch(Next1)
          BY <2>4, <2>6, <3>3 DEF Target, NeedOK, Paths
        <4>2. TreeTarget(Facts', tree', need.path, new \cup rest)
          BY <4>1, TurnTree DEF new
        <4> QED
          BY <3>3, <4>2 DEF Target
      <3> QED
        BY <3>1, <3>2, <3>3
    <2>8. \A o \in new \cup rest : Fetch(o)
      BY <1>5, <2>4
    <2> QED
      BY <1>3, <1>7, <2>3, <2>4, <2>5, <2>7, <2>8 DEF Fetching, need, end
  <1>8. ASSUME Unpacking(pre) PROVE Unpacking(left)'
    <2> DEFINE end == ArchiveEnd(origin)
    <2>1. IsSeq(end)
      BY EndFacts, Zenon
    <2>2. todo = pre \o end /\ \A o \in {Next1} \cup rest : Plain(o)
      BY <1>3, <1>8 DEF Unpacking
    <2>3. todo' = left \o end
      BY <1>4, <2>1, <2>2
    <2>4. Plain(Next1)
      BY <2>2
    <2>5. new = {}
      BY <2>4 DEF Turn, Plain, new
    <2> HIDE DEF end
    <2>6. \A o \in ToSet(left) : Plain(o)
      BY <1>3, <2>2, <2>5
    <2> QED
      BY <1>3, <1>8, <2>3, <2>6 DEF Unpacking, end
  <1>9. (Manifesting(left) \/ Fetching(left) \/ Unpacking(left))'
    BY <1>6, <1>7, <1>8
  <1> QED
    BY <1>9 DEF Early

LEMMA AcquiredStays ==
    ASSUME UNCHANGED <<origin, manifest, got, bundle>>, MoreFacts(Facts, Facts'), Acquired(Facts)
    PROVE  Acquired(Facts)'
  <1>1. CASE origin = None
    <2>1. GotAll(Facts, manifest, got) /\ Len(got) = Len(ReadsOf(manifest)) /\ bundle = Build(manifest, got)
      BY <1>1 DEF Acquired
    <2>2. GotAll(Facts', manifest, got)
      BY <2>1, GotStays
    <2> QED
      BY <1>1, <2>1, <2>2 DEF Acquired
  <1>2. CASE origin # None
    BY <1>2 DEF Acquired, MoreFacts
  <1> QED
    BY <1>1, <1>2

\* Something looked at again shows nothing new.
LEMMA CloseStep ==
    ASSUME NEW pre, pre # <<>>, Next1 = Head(pre), NEW ops, IsSeq(ops), todo' = ops \o Tail(todo),
           UNCHANGED <<fs, past, blurred, origin, manifest, got, bundle>>,
           Turn(Facts, Facts', tree, tree', Next1, ToSet(ops)), Closing(pre),
           MoreFacts(Facts', Facts), \A p : Next1 = Observe(p, "any") => Matches(Facts', fs, p)
    PROVE  Phase'
  <1> DEFINE new == ToSet(ops)
             rest == ToSet(Tail(pre))
             left == ops \o Tail(pre)
             end == <<Op("done", Root)>>
  <1>1. MoreFacts(Facts, Facts')
    BY DEF Turn
  <1>2. /\ Acquired(Facts) /\ IsSeq(pre) /\ todo = pre \o end
        /\ \A o \in ToSet(pre) : Closes(Facts, o)
        /\ blurred \/ \E old : Witness(Facts, old, ToSet(pre))
    BY DEF Closing
  <1>3. IsSeq(end)
    BY TupleFacts
  <1> HIDE DEF end
  <1>4. IsSeq(left) /\ ToSet(left) = new \cup rest /\ ToSet(pre) = {Next1} \cup rest /\ todo' = left \o end
    <2>1. /\ IsSeq(left) /\ ToSet(left) = new \cup rest /\ ToSet(pre) = {Next1} \cup rest
          /\ ops \o Tail(pre \o end) = left \o end
      BY <1>2, <1>3, StepBefore, Zenon
    <2> QED
      BY <1>2, <2>1
  <1>5. new = {}
    <2>1. Closes(Facts, Next1)
      BY <1>2, <1>4
    <2> QED
      BY <2>1 DEF Turn, Closes, Simple, Entry, Enters
  <1> HIDE DEF left, new, rest
  <1>6. Keys(Facts'.observed) = Keys(Facts.observed) /\ Keys(Facts'.directories) = Keys(Facts.directories)
    BY <1>1 DEF MoreFacts
  <1>7. \A o \in ToSet(left) : Closes(Facts', o)
    BY <1>2, <1>4, <1>5, <1>6 DEF Closes
  <1>8. Acquired(Facts)'
    BY <1>1, <1>2, AcquiredStays
  <1>9. ASSUME NEW old, Witness(Facts, old, ToSet(pre)) PROVE Witness(Facts, old, ToSet(left))'
    <2>1. \A p, files : Matches(Facts', files, p) <=> Matches(Facts, files, p)
      BY <1>1, <1>6 DEF MoreFacts, Matches
    <2>2. FsOK(old) /\ View(old) \in past /\ Faithful(Facts, old)
      BY <1>9 DEF Witness
    <2>3. Facts'.seen = Facts.seen
      BY <1>1 DEF MoreFacts
    <2>4. Faithful(Facts', old)
      BY <1>1, <1>6, <2>1, <2>2, <2>3 DEF Faithful, MoreFacts
    <2>5. ASSUME NEW p \in Keys(Facts'.observed)
          PROVE  /\ Matches(Facts', fs, p) => Matches(Facts', old, p)
                 /\ Matches(Facts', old, p) \/ Observe(p, "any") \in ToSet(left)
      <3>1. Matches(Facts, fs, p) => Matches(Facts, old, p)
        BY <1>6, <1>9 DEF Witness
      <3>2. Matches(Facts, old, p) \/ Observe(p, "any") \in ToSet(pre)
        BY <1>6, <1>9 DEF Witness
      <3>3. CASE Observe(p, "any") = Next1
        BY <2>1, <3>1, <3>3
      <3>4. CASE Observe(p, "any") # Next1
        BY <1>4, <2>1, <3>1, <3>2, <3>4
      <3> QED
        BY <3>3, <3>4
    <2> QED
      BY <2>2, <2>4, <2>5 DEF Witness
  <1>10. Closing(left)'
    BY <1>2, <1>4, <1>7, <1>8, <1>9 DEF Closing, end
  <1> QED
    BY <1>10 DEF Phase

LEMMA Assemble ==
    ASSUME Loading, UNCHANGED <<fs, clock, edits, past, blurred, origin, allowed, result>>,
           FactsOK(Facts'), Looked(Facts', fs, clock, edits), MatchesOK', Chained(Facts', todo'), Opened',
           blurred \/ Faithful(Facts', fs), Phase'
    PROVE  Loading'
  BY DEF Loading, WorldOK

\* One system call, or one step of a search.
LEMMA WorkStep ==
    ASSUME Loading, Next1.op \in Working, NEW ops, IsSeq(ops), todo' = ops \o Tail(todo),
           UNCHANGED <<fs, clock, edits, past, blurred, origin, allowed, result, manifest, got, bundle>>,
           MatchesOK', fd' = None, buffer' = <<>>, Looked(Facts', fs, clock, edits), blurred \/ Faithful(Facts', fs),
           Chained(Facts', ops), \A o : Prepares(Next1, o) => Ready(Facts', o),
           Turn(Facts, Facts', tree, tree', Next1, ToSet(ops)),
           Closes(Facts, Next1) => MoreFacts(Facts', Facts),
           \A p : Next1 = Observe(p, "any") => Matches(Facts', fs, p)
    PROVE  Loading'
  <1>1. FactsOK(Facts') /\ MoreFacts(Facts, Facts')
    BY DEF Turn
  <1>2. IsSeq(todo) /\ todo # <<>> /\ Stage(Next1.op)
    BY Which DEF Loading
  <1>3. Chained(Facts, todo)
    BY DEF Loading
  <1>4. Chained(Facts', todo')
    BY <1>1, <1>2, <1>3, ChainStep DEF Next1
  <1>5. PICK pre : pre # <<>> /\ Next1 = Head(pre) /\ Next1 \in ToSet(pre) /\ At(pre)
    BY <1>2 DEF Stage, Working
  <1>6. Phase'
    <2>1. CASE Manifesting(pre) \/ Fetching(pre) \/ Unpacking(pre)
      BY <1>5, <2>1, Advance DEF Phase
    <2>2. CASE Closing(pre)
      <3>1. Closes(Facts, Next1)
        BY <1>5, <2>2 DEF Closing
      <3> QED
        BY <1>5, <2>2, <3>1, CloseStep
    <2> QED
      BY <1>5, <2>1, <2>2 DEF At
  <1>7. Opened'
    BY DEF Opened
  <1> QED
    BY <1>1, <1>4, <1>6, <1>7, Assemble
-----------------------------------------------------------------------------
(* The operations, one by one. *)

LEMMA NotOpen ==
    ASSUME Opened, Next1.op \notin {"root", "read", "slurp"}
    PROVE  fd = None /\ buffer = <<>>
  BY DEF Opened

LEMMA AllReady ==
    ASSUME NEW K, NEW ops, IsSeq(ops), \A o \in ToSet(ops) : Uses(o) => Ready(K, o)
    PROVE  Chained(K, ops)
  BY SeqFacts DEF Chained

LEMMA ObserveKeeps ==
    ASSUME Loading, ObserveStep, result' = "loading" PROVE Loading'
  <1> DEFINE path == Next1.path
             ops == IF Next1.must # "entry" THEN <<>> ELSE IF fs[path].kind = "dir" THEN Walk(path) ELSE Read(path)
  <1>1. /\ result = "loading" /\ Next1.op = "observe" /\ path \in DOMAIN fs /\ fs[path].kind # "special"
        /\ ~Differs(observed, path, Signature(fs[path])) /\ KindOK(Next1.must, fs[path].kind)
        /\ observed' = Put(observed, path, Signature(fs[path]))
        /\ todo' = ops \o Tail(todo)
        /\ tree' = IF Next1.must = "entry" /\ fs[path].kind = "dir" THEN Assign(tree, path, None) ELSE tree
        /\ UNCHANGED <<fs, clock, edits, past, blurred, origin, allowed, result, directories, matches, listed, fd, buffer,
                       manifest, got, bundle, seen>>
    BY DEF ObserveStep, Doing, Refuse, Continue, world
  <1>2. FactsOK(Facts) /\ FsOK(fs) /\ (blurred \/ Faithful(Facts, fs)) /\ Looked(Facts, fs, clock, edits)
    BY DEF Loading, WorldOK
  <1>3. fd = None /\ buffer = <<>>
    BY <1>1, NotOpen DEF Loading
  <1>4. /\ Facts.observed = observed /\ Facts.directories = directories /\ Facts.seen = seen
        /\ Facts'.observed = observed' /\ Facts'.directories = directories' /\ Facts'.seen = seen'
    BY DEF Facts
  <1>5. /\ FactsOK(Facts') /\ MoreFacts(Facts, Facts') /\ Keys(Facts'.observed) = Keys(Facts.observed) \cup {path}
        /\ Get(Facts'.observed, path) = Signature(fs[path]) /\ KindIn(Facts', path) = fs[path].kind
        /\ \A old : Faithful(Facts, old) => Faithful(Facts', old)
    BY <1>1, <1>2, <1>4, ObserveFacts
  <1>6. fs[path].kind \in {"file", "dir"} /\ path \in Paths
    BY <1>1, <1>2 DEF FsOK, ContentOK
  <1>7. /\ IsSeq(ops) /\ \A o \in ToSet(ops) : Fetch(o) /\ Ready(Facts', o)
    <2>1. CASE Next1.must # "entry"
      BY <2>1, EmptyFacts
    <2>2. CASE Next1.must = "entry" /\ fs[path].kind = "dir"
      <3>1. IsSeq(Walk(path)) /\ \A o \in ToSet(Walk(path)) : Fetch(o) /\ o.op # "read" /\ o.path = path
        BY <1>6, WalkFacts
      <3>2. ops = Walk(path)
        BY <2>2
      <3> QED
        BY <1>5, <3>1, <3>2 DEF Ready
    <2>3. CASE Next1.must = "entry" /\ fs[path].kind = "file"
      <3>1. IsSeq(Read(path)) /\ \A o \in ToSet(Read(path)) : Fetch(o) /\ o.path = path
        BY <1>6, ReadOps
      <3>2. ops = Read(path)
        BY <2>3
      <3> QED
        BY <1>5, <2>3, <3>1, <3>2 DEF Ready
    <2> QED
      BY <1>6, <2>1, <2>2, <2>3
  <1>8. Turn(Facts, Facts', tree, tree', Next1, ToSet(ops))
    <2>1. CASE Next1.must # "entry"
      <3>1. ops = <<>> /\ tree' = tree
        BY <1>1, <2>1
      <3>2. ToSet(ops) = {}
        BY <3>1, EmptyFacts
      <3>3. Simple(Next1)
        BY <1>1, <2>1 DEF Simple, Entry, Enters
      <3>4. Next1.must = "dir" => IsDir(Facts', path)
        BY <1>1, <1>5 DEF KindOK, IsDir
      <3> HIDE DEF ops
      <3> QED
        BY <1>5, <3>1, <3>2, <3>3, <3>4 DEF Turn
    <2>2. CASE Next1.must = "entry" /\ fs[path].kind = "dir"
      <3>1. ops = Walk(path) /\ tree' = Assign(tree, path, None)
        BY <1>1, <2>2
      <3>2. Entry(Next1) /\ IsDir(Facts', path)
        BY <1>1, <1>5, <2>2 DEF Entry, IsDir
      <3> HIDE DEF ops
      <3> QED
        BY <1>5, <1>7, <3>1, <3>2 DEF Turn
    <2>3. CASE Next1.must = "entry" /\ fs[path].kind = "file"
      <3>1. ops = Read(path) /\ tree' = tree
        BY <1>1, <2>3
      <3>2. Entry(Next1) /\ IsFile(Facts', path)
        BY <1>1, <1>5, <2>3 DEF Entry, IsFile
      <3> HIDE DEF ops
      <3> QED
        BY <1>5, <1>7, <3>1, <3>2 DEF Turn
    <2> QED
      BY <1>6, <2>1, <2>2, <2>3
  <1> HIDE DEF ops
  <1>9. Chained(Facts', ops)
    BY <1>7, AllReady
  <1>10. \A o : Prepares(Next1, o) => Ready(Facts', o)
    BY <1>1, <1>5 DEF Prepares, Ready, KindOK
  <1>11. Closes(Facts, Next1) => MoreFacts(Facts', Facts)
    BY <1>1, <1>4, <1>5 DEF Closes, MoreFacts
  <1>12. \A p : Next1 = Observe(p, "any") => Matches(Facts', fs, p)
    BY <1>1, <1>5 DEF Observe, Matches
  <1>13. Looked(Facts', fs, clock, edits)
    <2>1. /\ fs[path].ino.born \in Nat /\ fs[path].stamp \in Nat
          /\ fs[path].ino.born <= edits /\ fs[path].stamp <= clock
      BY <1>1 DEF Loading, WorldOK, FsOK
    <2>2. LET s == Signature(fs[path])
          IN  /\ s.ino.born \in Nat /\ s.ino.born <= edits /\ s.stamp \in Nat /\ s.stamp <= clock
              /\ path \in DOMAIN fs /\ fs[path].ino = s.ino => fs[path].kind = s.kind /\ s.stamp <= fs[path].stamp
      BY <2>1 DEF Signature
    <2>3. ASSUME NEW p \in Keys(Facts'.observed)
          PROVE  LET s == Get(Facts'.observed, p)
                 IN  /\ s.ino.born \in Nat /\ s.ino.born <= edits /\ s.stamp \in Nat /\ s.stamp <= clock
                     /\ p \in DOMAIN fs /\ fs[p].ino = s.ino => fs[p].kind = s.kind /\ s.stamp <= fs[p].stamp
      <3>1. CASE p = path
        BY <1>5, <2>2, <3>1
      <3>2. CASE p # path
        <4>1. p \in Keys(Facts.observed) /\ Get(Facts'.observed, p) = Get(Facts.observed, p)
          BY <1>5, <3>2 DEF MoreFacts
        <4> QED
          BY <1>2, <4>1 DEF Looked
      <3> QED
        BY <3>1, <3>2
    <2> QED
      BY <2>3 DEF Looked
  <1>14. blurred \/ Faithful(Facts', fs)
    BY <1>2, <1>5
  <1>15. MatchesOK' /\ fd' = None /\ buffer' = <<>> /\ Next1.op \in Working
    BY <1>1, <1>3 DEF Loading, MatchesOK, Working
  <1> QED
    BY <1>1, <1>7, <1>8, <1>9, <1>10, <1>11, <1>12, <1>13, <1>14, <1>15, WorkStep

LEMMA HeadReady ==
    ASSUME Loading, Uses(Next1) PROVE Ready(Facts, Next1)
  <1>1. IsSeq(todo) /\ todo # <<>> /\ Chained(Facts, todo)
    BY Which DEF Loading
  <1>2. Head(todo) = todo[1] /\ 1 \in DOMAIN todo
    BY <1>1, TailFacts, SeqFacts
  <1> QED
    BY <1>1, <1>2 DEF Chained, Next1

LEMMA FunSeq ==
    ASSUME NEW n \in Nat, NEW f, f = [i \in 1..n |-> f[i]]
    PROVE  IsSeq(f) /\ DOMAIN f = 1..n /\ Len(f) = n /\ ToSet(f) = {f[i] : i \in 1..n}
  <1> DEFINE S == {f[i] : i \in 1..n}
  <1>1. \A i \in 1..n : f[i] \in S
    OBVIOUS
  <1> HIDE DEF S
  <1>2. f \in [1..n -> S]
    BY <1>1
  <1>3. f \in Seq(S) /\ Len(f) = n
    BY <1>2
  <1>4. DOMAIN f = 1..n
    BY <1>2
  <1> QED
    BY <1>3, <1>4 DEF IsSeq, ToSet, S

LEMMA PutMatches ==
    ASSUME NEW map, IsSeq(map), \A i \in DOMAIN map : map[i][1][2] # None,
           NEW path, NEW match, match # None, NEW value
    PROVE  /\ IsSeq(Put(map, <<path, match>>, value))
           /\ \A i \in DOMAIN Put(map, <<path, match>>, value) : Put(map, <<path, match>>, value)[i][1][2] # None
  <1> DEFINE new == Put(map, <<path, match>>, value)
             pair == <<<<path, match>>, value>>
  <1>1. DOMAIN map = 1..Len(map) /\ Len(map) \in Nat
    BY SeqFacts
  <1>2. pair[1][2] = match
    OBVIOUS
  <1> HIDE DEF pair
  <1>3. CASE <<path, match>> \in Keys(map)
    <2>1. new = [i \in 1..Len(map) |-> IF map[i][1] = <<path, match>> THEN pair ELSE map[i]]
      BY <1>1, <1>3 DEF Put, pair
    <2> HIDE DEF new
    <2>2. new = [i \in 1..Len(map) |-> new[i]]
      BY <2>1
    <2>3. IsSeq(new) /\ DOMAIN new = 1..Len(map)
      BY <1>1, <2>2, FunSeq
    <2>4. \A i \in 1..Len(map) : new[i] = pair \/ new[i] = map[i]
      BY <2>1
    <2>5. \A i \in DOMAIN new : new[i][1][2] # None
      BY <1>1, <1>2, <2>3, <2>4
    <2> QED
      BY <2>3, <2>5 DEF new
  <1>4. CASE <<path, match>> \notin Keys(map)
    <2>1. new = Append(map, pair)
      BY <1>4 DEF Put, pair
    <2>2. IsSeq(new) /\ DOMAIN new = 1..Len(map) + 1 /\ new[Len(map) + 1] = pair /\ \A i \in 1..Len(map) : new[i] = map[i]
      <3> DEFINE T == ToSet(map) \cup {pair}
      <3>1. map \in Seq(ToSet(map))
        BY SeqFacts
      <3>2. map \in Seq(T)
        BY <3>1, SeqMonotonic, Zenon
      <3>3. pair \in T
        OBVIOUS
      <3> HIDE DEF T, new
      <3>4. /\ Append(map, pair) \in Seq(T) /\ Len(Append(map, pair)) = Len(map) + 1
            /\ Append(map, pair)[Len(map) + 1] = pair
            /\ \A i \in 1..Len(map) : Append(map, pair)[i] = map[i]
        BY <3>2, <3>3
      <3>5. IsSeq(new) /\ Len(new) = Len(map) + 1
        BY <2>1, <3>4 DEF IsSeq
      <3> QED
        BY <2>1, <3>4, <3>5, SeqFacts
    <2> HIDE DEF new
    <2>3. \A i \in DOMAIN new : new[i] = pair \/ (i \in DOMAIN map /\ new[i] = map[i])
      BY <1>1, <2>2
    <2>4. \A i \in DOMAIN new : new[i][1][2] # None
      BY <1>2, <2>3
    <2> QED
      BY <2>2, <2>4 DEF new
  <1> QED
    BY <1>3, <1>4

LEMMA EnterFacts ==
    ASSUME NEW path, NEW found, IsSeq(found)
    PROVE  LET ops == [i \in DOMAIN found |-> Observe(Append(path, found[i]), "entry")]
           IN  /\ IsSeq(ops) /\ ToSet(ops) = {Observe(Append(path, n), "entry") : n \in ToSet(found)}
               /\ \A K : Chained(K, ops)
  <1> DEFINE ops == [i \in DOMAIN found |-> Observe(Append(path, found[i]), "entry")]
  <1>1. DOMAIN found = 1..Len(found) /\ Len(found) \in Nat
    BY SeqFacts
  <1>2. ops = [i \in 1..Len(found) |-> ops[i]]
    BY <1>1
  <1>3. \A i \in 1..Len(found) : ops[i] = Observe(Append(path, found[i]), "entry")
    BY <1>1
  <1> HIDE DEF ops
  <1>4. IsSeq(ops) /\ DOMAIN ops = 1..Len(found) /\ Len(ops) = Len(found) /\ ToSet(ops) = {ops[i] : i \in 1..Len(found)}
    BY <1>1, <1>2, FunSeq
  <1>5. ToSet(found) = {found[i] : i \in 1..Len(found)}
    BY <1>1 DEF ToSet
  <1>6. ToSet(ops) = {Observe(Append(path, n), "entry") : n \in ToSet(found)}
    BY <1>3, <1>4, <1>5
  <1>7. \A i \in 1..Len(ops) : ~Uses(ops[i])
    BY <1>3, <1>4 DEF Uses, Observe
  <1>8. \A K : Chained(K, ops)
    BY <1>4, <1>7, ChainOne
  <1> QED
    BY <1>4, <1>6, <1>8 DEF ops

LEMMA HeadKind ==
    ASSUME Loading, Next1.op \in Working
    PROVE  Fetch(Next1) \/ Plain(Next1) \/ Closes(Facts, Next1)
  <1>1. Stage(Next1.op)
    BY Which DEF Loading
  <1>2. PICK pre : Next1 \in ToSet(pre) /\ At(pre)
    BY <1>1 DEF Stage, Working
  <1> QED
    BY <1>2 DEF At, Manifesting, Fetching, Unpacking, Closing

LEMMA ListKeeps ==
    ASSUME Loading, ListStep, result' = "loading" PROVE Loading'
  <1> DEFINE path == Next1.path
             match == Next1.match
             names == EntryNames(fs, path, match)
             found == SetToSeq(names)
             ops == IF Next1.enter THEN [i \in DOMAIN found |-> Observe(Append(path, found[i]), "entry")] ELSE <<>>
  <1>1. /\ result = "loading" /\ Next1.op = "list" /\ path \in DOMAIN fs
        /\ IF match = None
           THEN ~Differs(directories, path, names) /\ directories' = Put(directories, path, names) /\ matches' = matches
           ELSE matches' = Put(matches, <<path, match>>, names) /\ directories' = directories
        /\ todo' = ops \o Tail(todo)
        /\ UNCHANGED <<fs, clock, edits, past, blurred, origin, allowed, result, observed, fd, buffer, manifest, tree, got,
                       bundle, seen>>
    BY DEF ListStep, Doing, Refuse, Continue, world, progress
  <1>2. FactsOK(Facts) /\ FsOK(fs) /\ (blurred \/ Faithful(Facts, fs)) /\ Looked(Facts, fs, clock, edits) /\ MatchesOK
    BY DEF Loading, WorldOK
  <1>3. fd = None /\ buffer = <<>>
    BY <1>1, NotOpen DEF Loading
  <1>4. /\ Facts.observed = observed /\ Facts.directories = directories /\ Facts.seen = seen
        /\ Facts'.observed = observed' /\ Facts'.directories = directories' /\ Facts'.seen = seen'
    BY DEF Facts
  <1>5. path \in Paths /\ IsFiniteSet(names)
    BY <1>1, <1>2, ChildFacts DEF FsOK
  <1>6. IsSeq(found) /\ ToSet(found) = names
    BY <1>5, SetToSeqFacts
  <1>7. Enters(Next1) => match = None
    BY <1>1, HeadKind DEF Working, Fetch, Plain, Closes, Enters
  <1>8. match = None => Uses(Next1)
    BY <1>1 DEF Uses
  <1>9. match = None => path \in Keys(Facts.observed)
    BY <1>8, HeadReady DEF Ready
  <1>10. /\ IsSeq(ops) /\ Chained(Facts', ops)
         /\ Next1.enter => ToSet(ops) = {Observe(Append(path, n), "entry") : n \in names}
         /\ ~Next1.enter => ToSet(ops) = {}
    <2>1. CASE Next1.enter
      <3> DEFINE all == [i \in DOMAIN found |-> Observe(Append(path, found[i]), "entry")]
      <3>1. IsSeq(all) /\ ToSet(all) = {Observe(Append(path, n), "entry") : n \in ToSet(found)} /\ \A K : Chained(K, all)
        BY <1>6, EnterFacts
      <3>2. ops = all
        BY <2>1
      <3> HIDE DEF all, ops
      <3> QED
        BY <1>6, <2>1, <3>1, <3>2
    <2>2. CASE ~Next1.enter
      <3>1. ops = <<>>
        BY <2>2
      <3>2. IsSeq(<<>>) /\ ToSet(<<>>) = {}
        BY EmptyFacts
      <3> HIDE DEF ops
      <3>3. Chained(Facts', ops)
        BY <3>1, <3>2, AllReady
      <3> QED
        BY <2>2, <3>1, <3>2, <3>3
    <2> QED
      BY <2>1, <2>2
  <1> HIDE DEF ops, found
  <1>11. /\ FactsOK(Facts') /\ MoreFacts(Facts, Facts') /\ (blurred \/ Faithful(Facts', fs))
         /\ match = None => /\ path \in Keys(Facts'.directories) /\ Get(Facts'.directories, path) = names
                            /\ Keys(Facts'.directories) = Keys(Facts.directories) \cup {path}
    <2>1. CASE match = None
      <3>1. /\ path \in Keys(Facts.observed) /\ names = EntryNames(fs, path, None)
            /\ ~Differs(Facts.directories, path, EntryNames(fs, path, None))
            /\ Facts'.directories = Put(Facts.directories, path, EntryNames(fs, path, None))
            /\ Facts'.observed = Facts.observed /\ Facts'.seen = Facts.seen
        BY <1>1, <1>4, <1>9, <2>1
      <3> HIDE DEF path, match, names
      <3>2. /\ FactsOK(Facts') /\ MoreFacts(Facts, Facts') /\ path \in Keys(Facts'.directories)
            /\ Get(Facts'.directories, path) = EntryNames(fs, path, None)
            /\ Faithful(Facts, fs) => Faithful(Facts', fs)
            /\ Keys(Facts'.directories) = Keys(Facts.directories) \cup {path}
        BY <1>2, <3>1, ListFacts
      <3> QED
        BY <1>2, <3>1, <3>2
    <2>2. CASE match # None
      <3>1. Facts' = Facts
        BY <1>1, <2>2 DEF Facts
      <3> QED
        BY <1>2, <2>2, <3>1 DEF MoreFacts
    <2> QED
      BY <2>1, <2>2
  <1>12. MatchesOK'
    <2>1. CASE match = None
      BY <1>1, <1>2, <2>1 DEF MatchesOK
    <2>2. CASE match # None
      <3>1. IsSeq(matches) /\ \A i \in DOMAIN matches : matches[i][1][2] # None
        BY <1>2 DEF MatchesOK
      <3>2. matches' = Put(matches, <<path, match>>, names)
        BY <1>1, <2>2
      <3> HIDE DEF path, match, names
      <3> QED
        BY <2>2, <3>1, <3>2, PutMatches DEF MatchesOK
    <2> QED
      BY <2>1, <2>2
  <1>13. Turn(Facts, Facts', tree, tree', Next1, ToSet(ops))
    <2>1. CASE Next1.enter
      <3>1. match = None /\ Enters(Next1)
        BY <1>1, <1>7, <2>1 DEF Enters
      <3>2. ToSet(ops) = {Observe(Append(path, n), "entry") : n \in Get(Facts'.directories, path)}
        BY <1>10, <1>11, <2>1, <3>1
      <3>3. \A o \in ToSet(ops) : Fetch(o)
        <4>1. ASSUME NEW n \in names PROVE Fetch(Observe(Append(path, n), "entry"))
          <5>1. n \in STRING
            BY <1>2, <1>5, <4>1, ChildFacts
          <5>2. Append(path, n) \in Paths
            BY <1>5, <5>1, UnderAppend
          <5> QED
            BY <5>2 DEF Fetch, Observe, Enters
        <4> QED
          BY <1>10, <2>1, <4>1
      <3> QED
        BY <1>1, <1>11, <3>1, <3>2, <3>3 DEF Turn
    <2>2. CASE ~Next1.enter
      <3>1. Simple(Next1)
        BY <1>1, <2>2 DEF Simple, Entry, Enters
      <3>2. ToSet(ops) = {} /\ tree' = tree
        BY <1>1, <1>10, <2>2
      <3> QED
        BY <1>1, <1>11, <3>1, <3>2 DEF Turn
    <2> QED
      BY <2>1, <2>2
  <1>14. Closes(Facts, Next1) => MoreFacts(Facts', Facts)
    <2>1. CASE match # None
      <3>1. Facts' = Facts
        BY <1>1, <2>1 DEF Facts
      <3> QED
        BY <3>1 DEF MoreFacts
    <2>2. CASE match = None
      BY <1>1, <1>4, <1>11, <2>2 DEF Closes, MoreFacts
    <2> QED
      BY <2>1, <2>2
  <1>15. Looked(Facts', fs, clock, edits)
    BY <1>1, <1>2, <1>4 DEF Looked
  <1>16. /\ \A o : Prepares(Next1, o) => Ready(Facts', o)
         /\ \A p : Next1 = Observe(p, "any") => Matches(Facts', fs, p)
    BY <1>1 DEF Prepares, Observe
  <1>17. Next1.op \in Working /\ fd' = None /\ buffer' = <<>>
    BY <1>1, <1>3 DEF Working
  <1> QED
    BY <1>1, <1>10, <1>11, <1>12, <1>13, <1>14, <1>15, <1>16, <1>17, WorkStep

\* A step that observes, lists and reads nothing.
LEMMA SameFacts ==
    ASSUME Loading, UNCHANGED <<fs, clock, edits, blurred, observed, directories, matches, seen>>
    PROVE  /\ Facts' = Facts /\ MoreFacts(Facts, Facts') /\ MoreFacts(Facts', Facts) /\ FactsOK(Facts')
           /\ Looked(Facts', fs, clock, edits) /\ MatchesOK' /\ (blurred \/ Faithful(Facts', fs))
  <1>1. Facts' = Facts
    BY DEF Facts
  <1> QED
    BY <1>1 DEF Loading, MatchesOK, MoreFacts

LEMMA SubPath ==
    ASSUME NEW path \in Paths, NEW i \in 0..Len(path) PROVE SubSeq(path, 1, i) \in Paths
  BY DEF Paths

LEMMA FindKeeps ==
    ASSUME Loading, FindStep PROVE Loading'
  <1> DEFINE path == Next1.path
             i == Next1.at
             parent == SubSeq(path, 1, i - 1)
             look == Observe(parent, "any")
             list == List(parent, path[i], FALSE)
             again == Observe(SubSeq(path, 1, i), "any")
             next == Find(path, i + 1)
             ops == IF i > Len(path) THEN <<>> ELSE <<look, list, again, next>>
  <1>1. /\ Next1.op = "find" /\ todo' = ops \o Tail(todo)
        /\ UNCHANGED <<fs, clock, edits, past, blurred, origin, allowed, result, observed, directories, matches, listed, fd,
                       buffer, manifest, tree, got, bundle, seen>>
    BY DEF FindStep, Doing, Continue, world, source, progress
  <1>2. fd = None /\ buffer = <<>>
    BY <1>1, NotOpen DEF Loading
  <1>3. path \in Paths /\ i \in Nat \ {0}
    BY <1>1, HeadKind DEF Working, Fetch, Plain, Closes
  <1>4. /\ MoreFacts(Facts, Facts') /\ MoreFacts(Facts', Facts) /\ FactsOK(Facts')
        /\ Looked(Facts', fs, clock, edits) /\ MatchesOK' /\ (blurred \/ Faithful(Facts', fs))
    BY <1>1, SameFacts
  <1>5. IsSeq(ops) /\ Chained(Facts', ops) /\ \A o \in ToSet(ops) : Fetch(o) /\ Simple(o)
    <2>1. CASE i > Len(path)
      <3>1. ops = <<>> /\ IsSeq(<<>>) /\ ToSet(<<>>) = {}
        BY <2>1, EmptyFacts
      <3> HIDE DEF ops
      <3> QED
        BY <3>1, AllReady
    <2>2. CASE ~(i > Len(path))
      <3>1. parent \in Paths /\ SubSeq(path, 1, i) \in Paths
        <4>1. Len(path) \in Nat
          BY <1>3 DEF Paths
        <4>2. i - 1 \in 0..Len(path) /\ i \in 0..Len(path)
          BY <1>3, <2>2, <4>1
        <4> QED
          BY <1>3, <4>2, SubPath
      <3>2. /\ Fetch(look) /\ Fetch(list) /\ Fetch(again) /\ Fetch(next)
            /\ Simple(look) /\ Simple(list) /\ Simple(again) /\ Simple(next)
        BY <1>3, <3>1 DEF Fetch, Simple, Entry, Enters, Observe, List, Find
      <3>3. ~Uses(look) /\ ~Uses(again) /\ ~Uses(next) /\ Prepares(look, list)
        BY DEF Uses, Prepares, Observe, List, Find
      <3>4. ops = <<look, list, again, next>>
        BY <2>2
      <3> HIDE DEF look, list, again, next, ops
      <3>5. IsSeq(ops) /\ ToSet(ops) = {look, list, again, next}
        BY <3>4, FourFacts
      <3>6. DOMAIN ops = 1..4 /\ ops[1] = look /\ ops[2] = list /\ ops[3] = again /\ ops[4] = next
        BY <3>4
      <3>7. Chained(Facts', ops)
        <4>1. ASSUME NEW k \in DOMAIN ops, Uses(ops[k]) PROVE k > 1 /\ Prepares(ops[k - 1], ops[k])
          BY <3>3, <3>6, <4>1
        <4> QED
          BY <4>1 DEF Chained
      <3> QED
        BY <3>2, <3>5, <3>7
    <2> QED
      BY <2>1, <2>2
  <1> HIDE DEF ops
  <1>6. Turn(Facts, Facts', tree, tree', Next1, ToSet(ops))
    <2>1. Simple(Next1) /\ Next1.op # "observe"
      BY <1>1 DEF Simple, Entry, Enters
    <2> QED
      BY <1>1, <1>4, <1>5, <2>1 DEF Turn
  <1>7. /\ \A o : Prepares(Next1, o) => Ready(Facts', o)
        /\ \A p : Next1 = Observe(p, "any") => Matches(Facts', fs, p)
        /\ Next1.op \in Working
    BY <1>1 DEF Prepares, Observe, Working
  <1> QED
    BY <1>1, <1>2, <1>4, <1>5, <1>6, <1>7, WorkStep

\* What is open: nothing else changes.
LEMMA OpenStep ==
    ASSUME Loading, UNCHANGED <<fs, clock, edits, past, blurred, origin, allowed, result, todo, observed, directories,
                                matches, manifest, tree, got, bundle, seen>>, Opened'
    PROVE  Loading'
  <1>1. /\ Facts' = Facts /\ FactsOK(Facts') /\ Looked(Facts', fs, clock, edits) /\ MatchesOK'
        /\ (blurred \/ Faithful(Facts', fs))
    BY SameFacts
  <1>2. Chained(Facts', todo')
    BY <1>1 DEF Loading
  <1>3. Phase'
    <2>1. CASE Early
      BY <1>1, <2>1, EarlySame DEF Phase
    <2>2. ASSUME NEW pre, Closing(pre) PROVE Closing(pre)'
      <3>1. Acquired(Facts)'
        BY <1>1, <2>2, EarlySame DEF Closing
      <3>2. ASSUME NEW old, Witness(Facts, old, ToSet(pre)) PROVE Witness(Facts, old, ToSet(pre))'
        BY <1>1, <3>2, WitnessStays
      <3> QED
        BY <1>1, <2>2, <3>1, <3>2 DEF Closing
    <2> QED
      BY <2>1, <2>2 DEF Phase, Loading
  <1> QED
    BY <1>1, <1>2, <1>3, Assemble

LEMMA LstatKeeps ==
    ASSUME Loading, Lstat PROVE Loading'
  <1>1. /\ Next1.op = "root"
        /\ UNCHANGED <<fs, clock, edits, past, blurred, origin, allowed, result, todo, observed, directories, matches,
                       buffer, manifest, tree, got, bundle, seen>>
    BY DEF Lstat, Doing, world, source
  <1>2. buffer = <<>>
    BY <1>1 DEF Loading, Opened
  <1>3. Opened'
    BY <1>1, <1>2 DEF Opened, Next1
  <1> QED
    BY <1>1, <1>3, OpenStep

LEMMA ResolveKeeps ==
    ASSUME Loading, Resolve, result' = "loading" PROVE Loading'
  <1>1. /\ Next1.op = "root" /\ fd' = None /\ todo' = <<>> \o Tail(todo)
        /\ UNCHANGED <<fs, clock, edits, past, blurred, origin, allowed, result, observed, directories, matches,
                       buffer, manifest, tree, got, bundle, seen>>
    BY DEF Resolve, Doing, Refuse, Continue, world, source
  <1>2. buffer = <<>>
    BY <1>1 DEF Loading, Opened
  <1>3. /\ MoreFacts(Facts, Facts') /\ MoreFacts(Facts', Facts) /\ FactsOK(Facts')
        /\ Looked(Facts', fs, clock, edits) /\ MatchesOK' /\ (blurred \/ Faithful(Facts', fs))
    BY <1>1, SameFacts
  <1> DEFINE ops == <<>>
  <1>4. IsSeq(ops) /\ ToSet(ops) = {} /\ todo' = ops \o Tail(todo)
    BY <1>1, EmptyFacts
  <1> HIDE DEF ops
  <1>5. Chained(Facts', ops)
    BY <1>4, AllReady
  <1>6. Turn(Facts, Facts', tree, tree', Next1, ToSet(ops))
    <2>1. Simple(Next1) /\ Next1.op # "observe"
      BY <1>1 DEF Simple, Entry, Enters
    <2> QED
      BY <1>1, <1>3, <1>4, <2>1 DEF Turn
  <1>7. /\ \A o : Prepares(Next1, o) => Ready(Facts', o)
        /\ \A p : Next1 = Observe(p, "any") => Matches(Facts', fs, p)
        /\ Next1.op \in Working
    BY <1>1 DEF Prepares, Observe, Working
  <1> QED
    BY <1>1, <1>2, <1>3, <1>4, <1>5, <1>6, <1>7, WorkStep

LEMMA OpenKeeps ==
    ASSUME Loading, Open \/ Slurp, result' = "loading" PROVE Loading'
  <1> DEFINE path == Next1.path
  <1>1. /\ Next1.op \in {"read", "slurp"} /\ path \in DOMAIN fs /\ fd' = fs[path] /\ buffer' = <<>>
        /\ fs[path].kind = "file" \/ (Next1.op = "read" /\ Signature(fs[path]) = Get(observed, path))
        /\ UNCHANGED <<fs, clock, edits, past, blurred, origin, allowed, result, todo, observed, directories, matches,
                       manifest, tree, got, bundle, seen>>
    BY DEF Open, Slurp, Doing, Refuse, world, source
  <1>2. fs[path].kind = "file"
    <2>1. ASSUME Next1.op = "read", Signature(fs[path]) = Get(observed, path) PROVE fs[path].kind = "file"
      <3>1. KindIn(Facts, path) = "file"
        BY <2>1, HeadReady DEF Uses, Ready
      <3> QED
        BY <2>1, <3>1 DEF KindIn, Facts, Signature
    <2> QED
      BY <1>1, <2>1
  <1>3. fs[path].data \in FileData
    BY <1>1, <1>2 DEF Loading, WorldOK, FsOK, ContentOK
  <1>4. buffer' \in Seq(Blocks) /\ Len(buffer') = 0
    BY <1>1
  <1>5. Next1' = Next1 /\ fs' = fs
    BY <1>1 DEF Next1
  <1>6. Opened'
    BY <1>1, <1>2, <1>3, <1>4, <1>5 DEF Opened
  <1> QED
    BY <1>1, <1>6, OpenStep

LEMMA BlockKeeps ==
    ASSUME Loading, Block PROVE Loading'
  <1>1. /\ Next1.op \in {"read", "slurp"} /\ fd # None /\ Len(buffer) < 2
        /\ buffer' = Append(buffer, fd.data[Len(buffer) + 1])
        /\ UNCHANGED <<fs, clock, edits, past, blurred, origin, allowed, result, todo, observed, directories, matches, fd,
                       manifest, tree, got, bundle, seen>>
    BY DEF Block, world, source
  <1>2. /\ fd.kind = "file" /\ fd.data \in FileData
        /\ buffer \in Seq(Blocks) /\ Len(buffer) <= 2
        /\ ~blurred /\ Matches(Facts, fs, Next1.path) =>
             fs[Next1.path] = fd /\ \A j \in 1..Len(buffer) : buffer[j] = fd.data[j]
    BY <1>1 DEF Loading, Opened
  <1>3. Len(buffer) \in Nat /\ fd.data[Len(buffer) + 1] \in Blocks
    <2>1. fd.data[1] \in Blocks /\ fd.data[2] \in Blocks
      BY <1>2 DEF FileData
    <2>2. Len(buffer) \in Nat
      BY <1>2
    <2>3. Len(buffer) + 1 = 1 \/ Len(buffer) + 1 = 2
      BY <1>1, <2>2
    <2> QED
      BY <2>1, <2>2, <2>3
  <1>4. /\ buffer' \in Seq(Blocks) /\ Len(buffer') = Len(buffer) + 1
        /\ buffer'[Len(buffer) + 1] = fd.data[Len(buffer) + 1] /\ \A j \in 1..Len(buffer) : buffer'[j] = buffer[j]
    BY <1>1, <1>2, <1>3, AppendProperties
  <1>5. Next1' = Next1 /\ Facts' = Facts
    BY <1>1 DEF Next1, Facts
  <1>6. \A j \in 1..Len(buffer') : (\A k \in 1..Len(buffer) : buffer[k] = fd.data[k]) => buffer'[j] = fd.data[j]
    BY <1>3, <1>4
  <1>7. Len(buffer') <= 2
    BY <1>1, <1>3, <1>4
  <1>8. Opened'
    BY <1>1, <1>2, <1>4, <1>5, <1>6, <1>7 DEF Opened
  <1> QED
    BY <1>1, <1>8, OpenStep

\* A file that has been read holds what was read, if it still matches.
LEMMA BufferFacts ==
    ASSUME Loading, Next1.op \in {"read", "slurp"}, Len(buffer) = 2
    PROVE  /\ buffer \in FileData /\ Next1.path \in Keys(observed)
           /\ blurred \/ (Matches(Facts, fs, Next1.path) => fs[Next1.path].kind = "file" /\ fs[Next1.path].data = buffer)
  <1>1. buffer # <<>>
    OBVIOUS
  <1>2. /\ fd.kind = "file" /\ fd.data \in FileData
        /\ buffer \in Seq(Blocks) /\ Len(buffer) <= 2
        /\ ~blurred /\ Matches(Facts, fs, Next1.path) =>
             fs[Next1.path] = fd /\ \A j \in 1..Len(buffer) : buffer[j] = fd.data[j]
    BY <1>1 DEF Loading, Opened
  <1>3. buffer[1] \in Blocks /\ buffer[2] \in Blocks /\ buffer = <<buffer[1], buffer[2]>>
    <2>1. buffer[1] \in Blocks /\ buffer[2] \in Blocks
      <3>1. 1 \in 1..Len(buffer) /\ 2 \in 1..Len(buffer)
        OBVIOUS
      <3>2. buffer \in Seq(Blocks)
        BY <1>2
      <3> QED
        BY <3>1, <3>2, ElementOfSeq, Zenon
    <2>2. <<buffer[1], buffer[2]>> \in Seq(Blocks) /\ Len(<<buffer[1], buffer[2]>>) = 2
      BY <2>1
    <2>3. \A j \in 1..2 : buffer[j] = <<buffer[1], buffer[2]>>[j]
      OBVIOUS
    <2>4. buffer = <<buffer[1], buffer[2]>>
      <3> DEFINE two == <<buffer[1], buffer[2]>>
      <3>1. two \in Seq(Blocks) /\ Len(two) = 2 /\ \A j \in 1..2 : buffer[j] = two[j]
        BY <2>2, <2>3
      <3> HIDE DEF two
      <3>2. buffer = two
        BY <1>2, <3>1, SeqEqual
      <3> QED
        BY <3>2 DEF two
    <2> QED
      BY <2>1, <2>4
  <1>4. buffer \in FileData
    BY <1>3 DEF FileData
  <1>5. ASSUME \A j \in 1..Len(buffer) : buffer[j] = fd.data[j] PROVE fd.data = buffer
    <2>1. fd.data = <<fd.data[1], fd.data[2]>>
      BY <1>2 DEF FileData
    <2>2. buffer[1] = fd.data[1] /\ buffer[2] = fd.data[2]
      BY <1>5
    <2> QED
      BY <1>3, <2>1, <2>2
  <1>6. Next1.path \in Keys(observed)
    BY HeadReady DEF Uses, Ready, Facts
  <1> QED
    BY <1>2, <1>4, <1>5, <1>6

LEMMA FstatKeeps ==
    ASSUME Loading, Fstat, result' = "loading" PROVE Loading'
  <1> DEFINE path == Next1.path
  <1>1. /\ Next1.op = "read" /\ Len(buffer) = 2 /\ todo' = <<>> \o Tail(todo)
        /\ tree' = Assign(tree, path, buffer) /\ fd' = None /\ buffer' = <<>> /\ seen' = seen \cup {<<path, buffer>>}
        /\ UNCHANGED <<fs, clock, edits, past, blurred, origin, allowed, result, observed, directories, matches,
                       manifest, got, bundle>>
    BY DEF Fstat, Doing, Refuse, Continue, Close, world, source
  <1>2. FactsOK(Facts) /\ (blurred \/ Faithful(Facts, fs)) /\ Looked(Facts, fs, clock, edits) /\ MatchesOK
    BY DEF Loading
  <1>3. /\ Facts.observed = observed /\ Facts.directories = directories /\ Facts.seen = seen
        /\ Facts'.observed = observed' /\ Facts'.directories = directories' /\ Facts'.seen = seen'
    BY DEF Facts
  <1>4. /\ buffer \in FileData /\ path \in Keys(observed)
        /\ blurred \/ (Matches(Facts, fs, path) => fs[path].kind = "file" /\ fs[path].data = buffer)
    BY <1>1, BufferFacts
  <1>5. /\ FactsOK(Facts') /\ MoreFacts(Facts, Facts')
        /\ \A files : Faithful(Facts, files) /\ (Matches(Facts, files, path) => files[path].kind = "file" /\ files[path].data = buffer)
                         => Faithful(Facts', files)
    <2>1. path \in Keys(Facts.observed) /\ Facts'.seen = Facts.seen \cup {<<path, buffer>>}
          /\ Facts'.directories = Facts.directories /\ Facts'.observed = Facts.observed
      BY <1>1, <1>3, <1>4
    <2> HIDE DEF path
    <2> QED
      BY <1>2, <1>4, <2>1, ReadFacts
  <1>6. blurred \/ Faithful(Facts', fs)
    BY <1>2, <1>4, <1>5
  <1>7. Looked(Facts', fs, clock, edits) /\ MatchesOK'
    BY <1>1, <1>2, <1>3 DEF Looked, MatchesOK
  <1> DEFINE ops == <<>>
  <1>8. IsSeq(ops) /\ ToSet(ops) = {} /\ todo' = ops \o Tail(todo)
    BY <1>1, EmptyFacts
  <1> HIDE DEF ops
  <1>9. Chained(Facts', ops)
    BY <1>8, AllReady
  <1>10. Turn(Facts, Facts', tree, tree', Next1, ToSet(ops))
    <2>1. IsFile(Facts', path)
      <3>1. IsFile(Facts, path)
        BY <1>1, HeadReady DEF Uses, Ready, IsFile
      <3> QED
        BY <1>5, <3>1, SameKind DEF IsFile
    <2>2. <<path, buffer>> \in Facts'.seen
      BY <1>1, <1>3
    <2> QED
      BY <1>1, <1>5, <1>8, <2>1, <2>2 DEF Turn
  <1>11. /\ \A o : Prepares(Next1, o) => Ready(Facts', o)
         /\ \A p : Next1 = Observe(p, "any") => Matches(Facts', fs, p)
         /\ Next1.op \in Working /\ ~Closes(Facts, Next1)
    BY <1>1 DEF Prepares, Observe, Working, Closes
  <1> QED
    BY <1>1, <1>5, <1>6, <1>7, <1>8, <1>9, <1>10, <1>11, WorkStep
-----------------------------------------------------------------------------
(* From one phase to the next. *)

LEMMA Alone ==
    ASSUME NEW a, NEW s, NEW ops, IsSeq(ops), s = <<>> \o <<a>> \/ s = <<a>>
    PROVE  s = <<a>> /\ Head(s) = a /\ ops \o Tail(s) = ops
  <1>1. IsSeq(<<a>>) /\ Head(<<a>>) = a /\ Tail(<<a>>) = <<>>
    BY TupleFacts
  <1>2. s = <<a>>
    <2> DEFINE one == <<a>>
    <2>1. IsSeq(one) /\ (s = <<>> \o one \/ s = one)
      BY <1>1
    <2> HIDE DEF one
    <2>2. s = one
      BY <2>1, EmptyFacts
    <2> QED
      BY <2>2 DEF one
  <1>3. ops \o <<>> = ops
    BY ConcatEmptySeq DEF IsSeq
  <1> QED
    BY <1>1, <1>2, <1>3

LEMMA AppendSeq ==
    ASSUME NEW s, IsSeq(s), NEW x
    PROVE  /\ IsSeq(Append(s, x)) /\ Len(Append(s, x)) = Len(s) + 1 /\ Append(s, x)[Len(s) + 1] = x
           /\ \A i \in 1..Len(s) : Append(s, x)[i] = s[i]
  <1> DEFINE T == ToSet(s) \cup {x}
  <1>1. s \in Seq(ToSet(s))
    BY SeqFacts
  <1>2. s \in Seq(T) /\ x \in T
    BY <1>1, SeqMonotonic, Zenon
  <1> HIDE DEF T
  <1>3. /\ Append(s, x) \in Seq(T) /\ Len(Append(s, x)) = Len(s) + 1 /\ Append(s, x)[Len(s) + 1] = x
        /\ \A i \in 1..Len(s) : Append(s, x)[i] = s[i]
    BY <1>2
  <1> QED
    BY <1>3 DEF IsSeq

\* Kept folded where the lemma is used: the provers are slow at unions.
Holds(all, s, t) == ToSet(all) = ToSet(s) \cup ToSet(t)

\* One plan after another is a plan.
LEMMA ChainConcat ==
    ASSUME NEW K, NEW s, NEW t, IsSeq(s), IsSeq(t), Chained(K, s), Chained(K, t)
    PROVE  IsSeq(s \o t) /\ Chained(K, s \o t) /\ Holds(s \o t, s, t)
  <1> DEFINE all == s \o t
  <1>1. /\ IsSeq(all) /\ Len(all) = Len(s) + Len(t) /\ ToSet(all) = ToSet(s) \cup ToSet(t)
        /\ \A i \in 1..Len(s) : all[i] = s[i]
        /\ \A i \in 1..Len(t) : all[Len(s) + i] = t[i]
    BY ConcatFacts
  <1>2. /\ DOMAIN all = 1..Len(all) /\ DOMAIN s = 1..Len(s) /\ DOMAIN t = 1..Len(t)
        /\ Len(s) \in Nat /\ Len(t) \in Nat
    BY <1>1, SeqFacts
  <1> HIDE DEF all
  <1>3. ASSUME NEW i \in 1..Len(s), Uses(all[i]) PROVE Ready(K, all[i]) \/ (i > 1 /\ Prepares(all[i - 1], all[i]))
    <2>1. Ready(K, s[i]) \/ (i > 1 /\ Prepares(s[i - 1], s[i]))
      BY <1>1, <1>2, <1>3 DEF Chained
    <2>2. i > 1 => all[i - 1] = s[i - 1]
      BY <1>1, <1>2
    <2> QED
      BY <1>1, <2>1, <2>2
  <1>4. ASSUME NEW j \in 1..Len(t), Uses(all[Len(s) + j])
        PROVE  Ready(K, all[Len(s) + j]) \/ (Len(s) + j > 1 /\ Prepares(all[Len(s) + j - 1], all[Len(s) + j]))
    <2>1. Ready(K, t[j]) \/ (j > 1 /\ Prepares(t[j - 1], t[j]))
      BY <1>1, <1>2, <1>4 DEF Chained
    <2>2. ASSUME j > 1 PROVE all[Len(s) + j - 1] = t[j - 1]
      <3>1. j - 1 \in 1..Len(t) /\ Len(s) + j - 1 = Len(s) + (j - 1)
        BY <1>2, <2>2
      <3> QED
        BY <1>1, <3>1
    <2>3. j > 1 => Len(s) + j > 1
      BY <1>2
    <2> QED
      BY <1>1, <2>1, <2>2, <2>3
  <1>5. ASSUME NEW i \in DOMAIN all, Uses(all[i]) PROVE Ready(K, all[i]) \/ (i > 1 /\ Prepares(all[i - 1], all[i]))
    <2>1. CASE i <= Len(s)
      BY <1>2, <1>3, <1>5, <2>1
    <2>2. CASE i > Len(s)
      <3>1. PICK j \in 1..Len(t) : i = Len(s) + j
        <4>1. i - Len(s) \in 1..Len(t) /\ i = Len(s) + (i - Len(s))
          BY <1>1, <1>2, <2>2
        <4> QED
          BY <4>1
      <3>2. Ready(K, all[Len(s) + j]) \/ (Len(s) + j > 1 /\ Prepares(all[Len(s) + j - 1], all[Len(s) + j]))
        BY <1>4, <1>5, <3>1
      <3> QED
        BY <3>1, <3>2
    <2> QED
      BY <1>1, <1>2, <2>1, <2>2
  <1> QED
    BY <1>1, <1>5 DEF Chained, Holds, all

LEMMA ReadingChain ==
    ASSUME NEW K, NEW p
    PROVE  Chained(K, Read(p)) /\ Chained(K, Walk(p))
  <1>1. Chained(K, Read(p))
    <2> DEFINE look == Observe(p, "file")
               read == Op("read", p)
               again == Observe(p, "any")
    <2>1. ~Uses(look) /\ ~Uses(again) /\ Prepares(look, read)
      BY DEF Uses, Prepares, Observe, Op
    <2>2. Read(p) = <<look, read, again>>
      BY DEF Read
    <2> HIDE DEF look, read, again
    <2>3. DOMAIN Read(p) = 1..3 /\ Read(p)[1] = look /\ Read(p)[2] = read /\ Read(p)[3] = again
      BY <2>2
    <2> QED
      BY <2>1, <2>3 DEF Chained
  <1>2. Chained(K, Walk(p))
    <2> DEFINE look == Observe(p, "any")
               enter == List(p, None, TRUE)
               list == List(p, None, FALSE)
    <2>1. ~Uses(look) /\ Prepares(look, enter) /\ Prepares(look, list)
      BY DEF Uses, Prepares, Observe, List
    <2>2. Walk(p) = <<look, enter, look, list>>
      BY DEF Walk
    <2> HIDE DEF look, enter, list
    <2>3. DOMAIN Walk(p) = 1..4 /\ Walk(p)[1] = look /\ Walk(p)[2] = enter /\ Walk(p)[3] = look /\ Walk(p)[4] = list
      BY <2>2
    <2> QED
      BY <2>1, <2>3 DEF Chained
  <1> QED
    BY <1>1, <1>2

\* Nothing is looked at, and nothing is open.
LEMMA PhaseStep ==
    ASSUME Loading, UNCHANGED <<fs, clock, edits, past, blurred, origin, allowed, result, observed, directories, matches,
                                fd, buffer, seen>>,
           Next1.op \notin {"root", "read", "slurp"}, Chained(Facts, todo'), Phase'
    PROVE  Loading'
  <1>1. fd = None /\ buffer = <<>>
    BY NotOpen DEF Loading
  <1>2. /\ Facts' = Facts /\ FactsOK(Facts') /\ Looked(Facts', fs, clock, edits) /\ MatchesOK'
        /\ (blurred \/ Faithful(Facts', fs))
    BY SameFacts
  <1>3. Opened'
    BY <1>1 DEF Opened
  <1> QED
    BY <1>2, <1>3, Assemble

LEMMA NoUse ==
    ASSUME NEW K, NEW a, ~Uses(a) PROVE Chained(K, <<a>>)
  <1>1. IsSeq(<<a>>) /\ ToSet(<<a>>) = {a}
    BY TupleFacts
  <1> QED
    BY <1>1, AllReady

LEMMA ResolveOriginKeeps ==
    ASSUME Loading, ResolveOrigin, result' = "loading" PROVE Loading'
  <1>1. /\ Next1.op = "resolve_origin" /\ todo' = <<>> \o Tail(todo)
        /\ UNCHANGED <<fs, clock, edits, past, blurred, origin, allowed, result, observed, directories, matches, fd, buffer,
                       manifest, tree, got, bundle, seen>>
    BY DEF ResolveOrigin, Doing, Refuse, Continue, world, source, progress
  <1>2. Resolving
    BY <1>1, Which DEF Loading, Stage, Working
  <1> DEFINE end == Op("finish", Root)
  <1>3. todo' = <<end>>
    <2>1. Tail(todo) = <<end>>
      BY <1>2, EndFacts, Zenon DEF Resolving
    <2>2. IsSeq(<<end>>)
      BY TupleFacts
    <2> HIDE DEF end
    <2> QED
      BY <1>1, <2>1, <2>2, EmptyFacts
  <1>4. Acquired(Facts)'
    <2>1. MoreFacts(Facts, Facts')
      BY <1>1, SameFacts
    <2> QED
      BY <1>1, <1>2, <2>1, AcquiredStays DEF Resolving
  <1>5. Phase'
    BY <1>3, <1>4 DEF Phase, Early, Finishing
  <1>6. ~Uses(end)
    BY DEF Uses, Op
  <1> HIDE DEF end
  <1>7. Chained(Facts, todo')
    BY <1>3, <1>6, NoUse
  <1> QED
    BY <1>1, <1>5, <1>7, PhaseStep

LEMMA ManifestKeeps ==
    ASSUME Loading, ManifestStep, result' = "loading" PROVE Loading'
  <1> DEFINE m == Manifest(tree[Next1.path])
             next == RecordAt(1)
             end == Op("manifest", ManifestPath)
  <1>1. /\ Next1.op = "manifest" /\ m # None /\ manifest' = m /\ tree' = <<>> /\ todo' = <<next>> \o Tail(todo)
        /\ UNCHANGED <<fs, clock, edits, past, blurred, origin, allowed, result, observed, directories, matches, fd, buffer,
                       got, bundle, seen>>
    BY DEF ManifestStep, Doing, Refuse, Continue, world, source
  <1>2. Manifesting(<<>>)
    BY <1>1, Which DEF Loading, Stage, Working
  <1>3. /\ origin = None /\ got = <<>> /\ todo = <<>> \o <<end>>
        /\ FileTarget(Facts, tree, ManifestPath, {})
    BY <1>2, EmptyFacts DEF Manifesting
  <1>4. Head(todo) = end /\ todo' = <<next>>
    <2>1. IsSeq(<<next>>)
      BY TupleFacts
    <2> HIDE DEF end, next, m
    <2> QED
      BY <1>1, <1>3, <2>1, Alone
  <1>5. Next1.path = ManifestPath
    BY <1>4 DEF Next1, Op
  <1>6. <<ManifestPath, tree[ManifestPath]>> \in Facts.seen
    BY <1>3 DEF FileTarget
  <1>7. tree[ManifestPath] \in FileData
    BY <1>6 DEF Loading, FactsOK
  <1>8. Manifested(Facts, m)
    BY <1>1, <1>5, <1>6, <1>7 DEF Manifested
  <1>9. Facts' = Facts
    BY <1>1, SameFacts
  <1>10. GotAll(Facts, m, <<>>)
    <2>1. Len(ReadsOf(m)) \in Nat
      BY <1>8, NeedFacts
    <2>2. IsSeq(<<>>) /\ Len(<<>>) = 0
      BY EmptyFacts
    <2> HIDE DEF m
    <2> QED
      BY <1>8, <2>1, <2>2 DEF GotAll
  <1>11. Recording'
    <2>1. Len(<<>>) + 1 = 1
      OBVIOUS
    <2> HIDE DEF m
    <2> QED
      BY <1>1, <1>3, <1>4, <1>9, <1>10, <2>1 DEF Recording
  <1>12. ~Uses(next)
    BY DEF Uses, RecordAt
  <1> HIDE DEF next
  <1>13. Chained(Facts, todo')
    BY <1>4, <1>12, NoUse
  <1>14. Phase'
    BY <1>11 DEF Phase, Early
  <1> QED
    BY <1>1, <1>13, <1>14, PhaseStep

LEMMA CollectKeeps ==
    ASSUME Loading, CollectStep PROVE Loading'
  <1> DEFINE need == ReadsOf(manifest)[Len(got) + 1]
             next == RecordAt(Len(got) + 2)
             x == Fetched(tree, Next1.need)
  <1>1. /\ Next1.op = "collect" /\ got' = Append(got, x) /\ tree' = <<>> /\ todo' = <<>> \o Tail(todo)
        /\ UNCHANGED <<fs, clock, edits, past, blurred, origin, allowed, result, observed, directories, matches, fd, buffer,
                       manifest, bundle, seen>>
    BY DEF CollectStep, Doing, Continue, world, source
  <1>2. Fetching(<<>>)
    BY <1>1, Which DEF Loading, Stage, Working
  <1>3. /\ origin = None /\ GotAll(Facts, manifest, got) /\ Len(got) < Len(ReadsOf(manifest))
        /\ todo = <<>> \o CollectEnd(manifest, got) /\ Target(Facts, tree, need, {})
    BY <1>2, EmptyFacts DEF Fetching
  <1>4. Head(todo) = Collect(need) /\ todo' = <<next>>
    <2>1. /\ IsSeq(CollectEnd(manifest, got)) /\ Head(CollectEnd(manifest, got)) = Collect(need)
          /\ Tail(CollectEnd(manifest, got)) = <<next>>
      BY EndFacts, Zenon
    <2>2. todo = CollectEnd(manifest, got)
      BY <1>3, <2>1, EmptyFacts
    <2>3. IsSeq(<<next>>)
      BY TupleFacts
    <2> HIDE DEF next, need
    <2>4. <<>> \o <<next>> = <<next>>
      BY <2>3, EmptyFacts
    <2> QED
      BY <1>1, <2>1, <2>2, <2>4
  <1>5. Next1.need = need
    BY <1>4 DEF Next1, Collect
  <1>6. Got(Facts, need, Fetched(tree, need))
    <2> HIDE DEF need
    <2>1. CASE need = None
      BY <2>1 DEF Got, Fetched
    <2>2. CASE need # None /\ need.read = "file"
      <3>1. FileTarget(Facts, tree, need.path, {})
        BY <1>3, <2>2 DEF Target
      <3> QED
        BY <2>2, <3>1 DEF FileTarget, Got, Fetched
    <2>3. CASE need # None /\ need.read # "file"
      <3>1. TreeTarget(Facts, tree, need.path, {})
        BY <1>3, <2>3 DEF Target
      <3>2. Whole(Facts, tree, need.path)
        BY <3>1 DEF TreeTarget, Whole
      <3> QED
        BY <2>3, <3>2 DEF Got, Fetched
    <2> QED
      BY <2>1, <2>2, <2>3
  <1>7. Facts' = Facts
    BY <1>1, SameFacts
  <1>8. /\ Manifested(Facts, manifest) /\ IsSeq(got) /\ Len(got) \in Nat /\ Len(ReadsOf(manifest)) \in Nat
        /\ \A i \in 1..Len(got) : Got(Facts, ReadsOf(manifest)[i], got[i])
    BY <1>3, SeqFacts, NeedFacts DEF GotAll
  <1>9. /\ IsSeq(got') /\ Len(got') = Len(got) + 1 /\ got'[Len(got) + 1] = x /\ \A i \in 1..Len(got) : got'[i] = got[i]
    BY <1>1, <1>8, AppendSeq
  <1>10. GotAll(Facts, manifest, got')
    <2>1. Got(Facts, need, x)
      BY <1>5, <1>6
    <2> HIDE DEF x
    <2>2. \A i \in 1..Len(got') : Got(Facts, ReadsOf(manifest)[i], got'[i])
      BY <1>8, <1>9, <2>1
    <2> QED
      BY <1>3, <1>8, <1>9, <2>2 DEF GotAll
  <1>11. Recording'
    <2>1. next = RecordAt(Len(got') + 1)
      <3>1. Len(got) + 2 = Len(got') + 1
        BY <1>8, <1>9
      <3> QED
        BY <3>1
    <2> HIDE DEF next
    <2> QED
      BY <1>1, <1>3, <1>4, <1>7, <1>10, <2>1 DEF Recording
  <1>12. ~Uses(next)
    BY DEF Uses, RecordAt
  <1> HIDE DEF next
  <1>13. Chained(Facts, todo')
    BY <1>4, <1>12, NoUse
  <1>14. Phase'
    BY <1>11 DEF Phase, Early
  <1> QED
    BY <1>1, <1>13, <1>14, PhaseStep

LEMMA BuildKeeps ==
    ASSUME Loading, BuildStep, result' = "loading" PROVE Loading'
  <1> DEFINE next == Op("finish", Root)
             end == Op("build", Root)
  <1>1. /\ Next1.op = "build" /\ bundle' = Build(manifest, got) /\ todo' = <<next>> \o Tail(todo)
        /\ UNCHANGED <<fs, clock, edits, past, blurred, origin, allowed, result, observed, directories, matches, fd, buffer,
                       manifest, tree, got, seen>>
    BY DEF BuildStep, Doing, Refuse, Continue, world, source
  <1>2. Building
    BY <1>1, Which DEF Loading, Stage, Working
  <1>3. origin = None /\ GotAll(Facts, manifest, got) /\ Len(got) = Len(ReadsOf(manifest)) /\ todo = <<end>>
    BY <1>2 DEF Building
  <1>4. todo' = <<next>>
    <2>1. IsSeq(<<next>>)
      BY TupleFacts
    <2> HIDE DEF end, next
    <2> QED
      BY <1>1, <1>3, <2>1, Alone
  <1>5. Facts' = Facts
    BY <1>1, SameFacts
  <1>6. Acquired(Facts)'
    BY <1>1, <1>3, <1>5 DEF Acquired
  <1>7. Phase'
    BY <1>4, <1>6 DEF Phase, Early, Finishing
  <1>8. ~Uses(next)
    BY DEF Uses, Op
  <1> HIDE DEF next
  <1>9. Chained(Facts, todo')
    BY <1>4, <1>8, NoUse
  <1> QED
    BY <1>1, <1>7, <1>9, PhaseStep

\* What a record reads is what will be taken.
LEMMA ReadingFacts ==
    ASSUME NEW K, NEW need, NeedOK(need)
    PROVE  /\ IsSeq(Reading(need)) /\ Chained(K, Reading(need)) /\ \A o \in ToSet(Reading(need)) : Fetch(o)
           /\ Target(K, <<>>, need, ToSet(Reading(need)))
  <1> DEFINE path == need.path
             find == Find(path, 1)
             look == Observe(path, "dir")
             ops == ToSet(Reading(need))
  <1>1. path \in Paths => Fetch(find) /\ Fetch(look)
    BY DEF Fetch, Find, Observe, Enters
  <1>2. /\ ~Uses(find) /\ ~Uses(look) /\ find.op = "find" /\ look.op = "observe" /\ look.must = "dir"
        /\ ~Entry(find) /\ ~Enters(find) /\ ~Entry(look) /\ ~Enters(look)
    BY DEF Find, Observe, Uses, Entry, Enters
  <1>3. CASE need = None
    <2>1. Reading(need) = <<>>
      BY <1>3 DEF Reading
    <2>2. IsSeq(<<>>) /\ ToSet(<<>>) = {}
      BY EmptyFacts
    <2> QED
      BY <1>3, <2>1, <2>2, AllReady DEF Target
  <1>4. CASE need # None /\ need.read = "file"
    <2>1. path \in Paths
      BY <1>4 DEF NeedOK, Paths
    <2>2. Reading(need) = <<find>> \o Read(path)
      BY <1>4 DEF Reading
    <2> HIDE DEF find, path
    <2>3. IsSeq(<<find>>) /\ ToSet(<<find>>) = {find} /\ Chained(K, <<find>>)
      BY <1>2, TupleFacts, NoUse
    <2>4. /\ ToSet(Read(path)) = {Observe(path, "file"), Op("read", path), Observe(path, "any")} /\ IsSeq(Read(path))
          /\ \A o \in ToSet(Read(path)) : Fetch(o) /\ ~Entry(o) /\ ~Enters(o) /\ o.path = path
          /\ \E o \in ToSet(Read(path)) : o.op = "read"
      BY <2>1, ReadOps
    <2>5. Chained(K, Read(path))
      BY ReadingChain
    <2>6. IsSeq(Reading(need)) /\ Chained(K, Reading(need)) /\ ops = {find} \cup ToSet(Read(path))
      <3> DEFINE first == <<find>>
                 read == Read(path)
      <3>1. IsSeq(first) /\ IsSeq(read) /\ Chained(K, first) /\ Chained(K, read) /\ Reading(need) = first \o read
            /\ ToSet(first) = {find}
        BY <2>2, <2>3, <2>4, <2>5
      <3> HIDE DEF first, read
      <3>2. IsSeq(first \o read) /\ Chained(K, first \o read) /\ Holds(first \o read, first, read)
        BY <3>1, ChainConcat
      <3> QED
        BY <3>1, <3>2 DEF read, Holds
    <2> HIDE DEF ops
    <2>7. FileTarget(K, <<>>, path, ops)
      BY <1>2, <2>4, <2>6 DEF FileTarget
    <2>8. \A o \in ops : Fetch(o)
      BY <1>1, <2>1, <2>4, <2>6
    <2> QED
      BY <1>4, <2>6, <2>7, <2>8 DEF Target, path, ops
  <1>5. CASE need # None /\ need.read # "file"
    <2>1. path \in Paths
      BY <1>5 DEF NeedOK, Paths
    <2>2. Reading(need) = <<find, look>> \o Walk(path)
      BY <1>5 DEF Reading
    <2> HIDE DEF find, path
    <2>3. IsSeq(<<find, look>>) /\ ToSet(<<find, look>>) = {find, look}
      BY TupleFacts
    <2>4. Chained(K, <<find, look>>)
      <3> HIDE DEF look
      <3>1. \A o \in {find, look} : ~Uses(o)
        BY <1>2
      <3> QED
        BY <2>3, <3>1, AllReady
    <2>5. /\ Entered(ToSet(Walk(path)), path) /\ IsSeq(Walk(path)) /\ Chained(K, Walk(path))
          /\ \A o \in ToSet(Walk(path)) : Fetch(o) /\ ~Entry(o) /\ o.op # "read" /\ o.path = path
      BY <2>1, WalkFacts, ReadingChain
    <2>6. IsSeq(Reading(need)) /\ Chained(K, Reading(need)) /\ ops = {find, look} \cup ToSet(Walk(path))
      <3> DEFINE first == <<find, look>>
                 walk == Walk(path)
      <3>1. IsSeq(first) /\ IsSeq(walk) /\ Chained(K, first) /\ Chained(K, walk) /\ Reading(need) = first \o walk
            /\ ToSet(first) = {find, look}
        BY <2>2, <2>3, <2>4, <2>5
      <3> HIDE DEF first, walk, look
      <3>2. IsSeq(first \o walk) /\ Chained(K, first \o walk) /\ Holds(first \o walk, first, walk)
        BY <3>1, ChainConcat
      <3> QED
        BY <3>1, <3>2 DEF walk, Holds
    <2> HIDE DEF ops
    <2>7. look = Observe(path, "dir")
      OBVIOUS
    <2> HIDE DEF look
    <2>8. \A o \in ops : Fetch(o) /\ ~Entry(o) /\ o.op # "read" /\ (Enters(o) => o.path = path)
      BY <1>1, <1>2, <2>1, <2>5, <2>6
    <2>9. Entered(ops, path)
      BY <2>5, <2>6 DEF Entered
    <2>10. Gathers(K, <<>>, path) /\ Covers(K, <<>>, path, ops)
      BY <2>9 DEF Gathers, Covers
    <2>11. TreeTarget(K, <<>>, path, ops)
      BY <2>6, <2>7, <2>8, <2>10 DEF TreeTarget
    <2> QED
      BY <1>5, <2>6, <2>8, <2>11 DEF Target, path, ops
  <1> QED
    BY <1>3, <1>4, <1>5

LEMMA RecordKeeps ==
    ASSUME Loading, RecordStep PROVE Loading'
  <1> DEFINE needs == ReadsOf(manifest)
             at == Len(got) + 1
             need == needs[at]
             build == Op("build", Root)
             record == RecordAt(at)
             Left(i) == IF i > Len(needs) THEN <<build>> ELSE Reading(needs[i]) \o <<Collect(needs[i]), RecordAt(i + 1)>>
  <1>1. /\ Next1.op = "record" /\ todo' = Left(Next1.at) \o Tail(todo)
        /\ UNCHANGED <<fs, clock, edits, past, blurred, origin, allowed, result, observed, directories, matches, fd, buffer,
                       manifest, tree, got, bundle, seen>>
    BY DEF RecordStep, Doing, Continue, world, source, progress
  <1>2. Recording
    BY <1>1, Which DEF Loading, Stage, Working
  <1>3. origin = None /\ GotAll(Facts, manifest, got) /\ todo = <<record>> /\ tree = <<>>
    BY <1>2 DEF Recording
  <1>4. /\ Len(got) \in Nat /\ Len(needs) \in Nat /\ Len(got) <= Len(needs)
        /\ \A i \in 1..Len(needs) : NeedOK(needs[i])
    BY <1>3, SeqFacts, NeedFacts DEF GotAll
  <1>5. Next1 = record /\ \A s : IsSeq(s) => s \o Tail(todo) = s
    <2> HIDE DEF record
    <2> QED
      BY <1>3, Alone DEF Next1
  <1>6. Next1.at = at
    BY <1>5 DEF RecordAt
  <1>7. todo' = Left(at) \o Tail(todo)
    <2> HIDE DEF Left
    <2> QED
      BY <1>1, <1>6
  <1>8. /\ Facts' = Facts /\ origin' = None /\ manifest' = manifest /\ got' = got /\ tree' = <<>>
        /\ GotAll(Facts', manifest', got')
    <2>1. Facts' = Facts
      BY <1>1, SameFacts
    <2>2. origin' = origin /\ manifest' = manifest /\ got' = got /\ tree' = tree
      BY <1>1
    <2> QED
      BY <1>3, <2>1, <2>2
  <1>9. CASE at > Len(needs)
    <2>1. todo' = <<build>>
      <3>1. IsSeq(<<build>>)
        BY TupleFacts
      <3>2. todo' = <<build>> \o Tail(todo)
        BY <1>7, <1>9
      <3> HIDE DEF build
      <3> QED
        BY <1>5, <3>1, <3>2
    <2>2. Building'
      <3>1. Len(got') = Len(ReadsOf(manifest'))
        <4>1. Len(got) = Len(needs)
          BY <1>4, <1>9
        <4> QED
          BY <1>8, <4>1
      <3> HIDE DEF build
      <3>2. origin' = None /\ GotAll(Facts', manifest', got') /\ todo' = <<build>>
        BY <1>8, <2>1
      <3> QED
        BY <3>1, <3>2 DEF Building, build
    <2>3. ~Uses(build)
      BY DEF Uses, Op
    <2> HIDE DEF build
    <2>4. Chained(Facts, todo')
      BY <2>1, <2>3, NoUse
    <2>5. Phase'
      BY <2>2 DEF Phase, Early
    <2> QED
      BY <1>1, <2>4, <2>5, PhaseStep
  <1>10. CASE at <= Len(needs)
    <2> DEFINE end == CollectEnd(manifest, got)
               reading == Reading(need)
    <2>1. end = <<Collect(need), RecordAt(at + 1)>>
      <3>1. at + 1 = Len(got) + 2
        BY <1>4
      <3> QED
        BY <3>1 DEF CollectEnd
    <2>2. IsSeq(end)
      BY EndFacts, Zenon
    <2>3. NeedOK(need)
      BY <1>4, <1>10
    <2>4. /\ IsSeq(reading) /\ Chained(Facts, reading) /\ \A o \in ToSet(reading) : Fetch(o)
          /\ Target(Facts, <<>>, need, ToSet(reading))
      BY <2>3, ReadingFacts
    <2>5. Chained(Facts, end)
      <3> DEFINE collect == Collect(need)
                 next == RecordAt(at + 1)
      <3>1. ~Uses(collect) /\ ~Uses(next)
        BY DEF Uses, Collect, RecordAt
      <3>2. end = <<collect, next>>
        BY <2>1
      <3> HIDE DEF collect, next, end
      <3>3. ToSet(end) = {collect, next}
        BY <3>2, TupleFacts
      <3> QED
        BY <2>2, <3>1, <3>3, AllReady
    <2>6. todo' = (reading \o <<Collect(need), RecordAt(at + 1)>>) \o Tail(todo)
      <3>1. ~(at > Len(needs))
        BY <1>4, <1>10
      <3>2. Left(at) = reading \o <<Collect(need), RecordAt(at + 1)>>
        BY <3>1
      <3> QED
        BY <1>7, <3>2
    <2>7. reading' = reading
      BY <1>8
    <2> HIDE DEF end, reading
    <2>8. todo' = (reading \o end) \o Tail(todo)
      BY <2>1, <2>6
    <2>9. IsSeq(reading \o end) /\ Chained(Facts, reading \o end)
      BY <2>2, <2>4, <2>5, ChainConcat
    <2>10. todo' = reading \o end
      BY <1>5, <2>8, <2>9
    <2>11. Len(got) < Len(needs)
      BY <1>4, <1>10
    <2>12. Fetching(reading)'
      <3>1. Len(got') < Len(ReadsOf(manifest'))
        BY <1>8, <2>11
      <3>2. Target(Facts', tree', ReadsOf(manifest')[Len(got') + 1], ToSet(reading))
        BY <1>8, <2>4
      <3>3. todo' = reading \o CollectEnd(manifest', got')
        BY <1>8, <2>10 DEF end
      <3> QED
        BY <1>8, <2>7, <2>4, <3>1, <3>2, <3>3 DEF Fetching
    <2>13. Phase'
      BY <2>12 DEF Phase, Early
    <2> QED
      BY <1>1, <2>9, <2>10, <2>13, PhaseStep
  <1> QED
    BY <1>4, <1>9, <1>10

LEMMA UnpackKeeps ==
    ASSUME Loading, UnpackStep, result' = "loading" PROVE Loading'
  <1> DEFINE path == Next1.path
             end == ResolveEnd(origin)
  <1>1. /\ Next1.op = "slurp" /\ Len(buffer) = 2 /\ todo' = <<>> \o Tail(todo) /\ bundle' = Unpack(buffer)
        /\ fd' = None /\ buffer' = <<>> /\ seen' = seen \cup {<<path, buffer>>}
        /\ UNCHANGED <<fs, clock, edits, past, blurred, origin, allowed, result, observed, directories, matches,
                       manifest, tree, got>>
    BY DEF UnpackStep, Doing, Refuse, Continue, Close, world, source
  <1>2. Unpacking(<<>>)
    BY <1>1, Which DEF Loading, Stage, Working
  <1>3. origin # None /\ todo = <<>> \o ArchiveEnd(origin)
    BY <1>2 DEF Unpacking
  <1>4. Head(todo) = Op("slurp", origin) /\ todo' = end
    <2>1. /\ IsSeq(ArchiveEnd(origin)) /\ Head(ArchiveEnd(origin)) = Op("slurp", origin)
          /\ Tail(ArchiveEnd(origin)) = end /\ IsSeq(end)
      BY EndFacts, Zenon
    <2> HIDE DEF end
    <2> QED
      BY <1>1, <1>3, <2>1, EmptyFacts
  <1>5. path = origin
    BY <1>4 DEF Next1, Op
  <1>6. FactsOK(Facts) /\ (blurred \/ Faithful(Facts, fs)) /\ Looked(Facts, fs, clock, edits) /\ MatchesOK
    BY DEF Loading
  <1>7. /\ Facts.observed = observed /\ Facts.directories = directories /\ Facts.seen = seen
        /\ Facts'.observed = observed' /\ Facts'.directories = directories' /\ Facts'.seen = seen'
    BY DEF Facts
  <1>8. /\ buffer \in FileData /\ path \in Keys(observed)
        /\ blurred \/ (Matches(Facts, fs, path) => fs[path].kind = "file" /\ fs[path].data = buffer)
    BY <1>1, BufferFacts
  <1>9. /\ FactsOK(Facts') /\ MoreFacts(Facts, Facts')
        /\ \A files : Faithful(Facts, files) /\ (Matches(Facts, files, path) => files[path].kind = "file" /\ files[path].data = buffer)
                         => Faithful(Facts', files)
    <2>1. path \in Keys(Facts.observed) /\ Facts'.seen = Facts.seen \cup {<<path, buffer>>}
          /\ Facts'.directories = Facts.directories /\ Facts'.observed = Facts.observed
      BY <1>1, <1>7, <1>8
    <2> HIDE DEF path
    <2> QED
      BY <1>6, <1>8, <2>1, ReadFacts
  <1>10. blurred \/ Faithful(Facts', fs)
    BY <1>6, <1>8, <1>9
  <1>11. Looked(Facts', fs, clock, edits) /\ MatchesOK'
    BY <1>1, <1>6, <1>7 DEF Looked, MatchesOK
  <1>12. Acquired(Facts)'
    <2>1. <<origin, buffer>> \in Facts'.seen
      BY <1>1, <1>5, <1>7
    <2>2. origin' # None /\ \E data \in FileData : <<origin', data>> \in Facts'.seen /\ bundle' = Unpack(data)
      BY <1>1, <1>3, <1>8, <2>1
    <2> QED
      BY <2>2 DEF Acquired
  <1>13. Phase'
    <2>1. todo' = ResolveEnd(origin')
      BY <1>1, <1>4
    <2> QED
      BY <1>1, <1>3, <1>12, <2>1 DEF Phase, Early, Resolving
  <1>14. Chained(Facts', todo')
    <2> DEFINE a == Op("resolve_origin", origin)
               b == Op("finish", Root)
    <2>1. ~Uses(a) /\ ~Uses(b)
      BY DEF Uses, Op
    <2>2. todo' = <<a, b>>
      BY <1>4 DEF ResolveEnd
    <2> HIDE DEF a, b
    <2>3. IsSeq(<<a, b>>) /\ ToSet(<<a, b>>) = {a, b}
      BY TupleFacts
    <2> QED
      BY <2>1, <2>2, <2>3, AllReady
  <1>15. Opened'
    BY <1>1 DEF Opened
  <1> QED
    BY <1>1, <1>9, <1>10, <1>11, <1>13, <1>14, <1>15, Assemble
-----------------------------------------------------------------------------
(* The last look. *)

LEMMA EachOf ==
    ASSUME NEW s, IsSeq(s), NEW f, f = [i \in DOMAIN s |-> f[i]]
    PROVE  IsSeq(f) /\ ToSet(f) = {f[i] : i \in DOMAIN s}
  <1>1. DOMAIN s = 1..Len(s) /\ Len(s) \in Nat
    BY SeqFacts
  <1> QED
    BY <1>1, FunSeq

\* Everything that was observed and everything that was listed is looked at
\* again.
LEMMA FinishFacts ==
    ASSUME FactsOK(Facts), MatchesOK
    PROVE  /\ IsSeq(Finish)
           /\ \A o \in ToSet(Finish) : Closes(Facts, o) /\ (Uses(o) => Ready(Facts, o))
           /\ \A p \in Keys(observed) : Observe(p, "any") \in ToSet(Finish)
  <1> DEFINE dirs == [i \in DOMAIN directories |-> List(directories[i][1], None, FALSE)]
             finds == [i \in DOMAIN matches |-> List(matches[i][1][1], matches[i][1][2], FALSE)]
  <1>1. IsSeq(observed) /\ IsSeq(directories) /\ Keys(directories) \subseteq Keys(observed)
    BY DEF FactsOK, MapOK, Facts
  <1>2. IsSeq(matches) /\ \A i \in DOMAIN matches : matches[i][1][2] # None
    BY DEF MatchesOK
  <1>3. /\ Facts.observed = observed /\ Facts.directories = directories
    BY DEF Facts
  <1>4. IsSeq(ObservedAgain) /\ ToSet(ObservedAgain) = {Observe(observed[i][1], "any") : i \in DOMAIN observed}
    <2>1. \A i \in DOMAIN observed : ObservedAgain[i] = Observe(observed[i][1], "any")
      BY DEF ObservedAgain
    <2>2. ObservedAgain = [i \in DOMAIN observed |-> ObservedAgain[i]]
      BY DEF ObservedAgain
    <2>3. IsSeq(ObservedAgain) /\ ToSet(ObservedAgain) = {ObservedAgain[i] : i \in DOMAIN observed}
      BY <1>1, <2>2, EachOf
    <2> QED
      BY <2>1, <2>3
  <1>5. IsSeq(dirs) /\ ToSet(dirs) = {List(directories[i][1], None, FALSE) : i \in DOMAIN directories}
    <2>1. \A i \in DOMAIN directories : dirs[i] = List(directories[i][1], None, FALSE)
      OBVIOUS
    <2>2. dirs = [i \in DOMAIN directories |-> dirs[i]]
      OBVIOUS
    <2> HIDE DEF dirs
    <2>3. IsSeq(dirs) /\ ToSet(dirs) = {dirs[i] : i \in DOMAIN directories}
      BY <1>1, <2>2, EachOf
    <2> QED
      BY <2>1, <2>3
  <1>6. IsSeq(finds) /\ ToSet(finds) = {List(matches[i][1][1], matches[i][1][2], FALSE) : i \in DOMAIN matches}
    <2>1. \A i \in DOMAIN matches : finds[i] = List(matches[i][1][1], matches[i][1][2], FALSE)
      OBVIOUS
    <2>2. finds = [i \in DOMAIN matches |-> finds[i]]
      OBVIOUS
    <2> HIDE DEF finds
    <2>3. IsSeq(finds) /\ ToSet(finds) = {finds[i] : i \in DOMAIN matches}
      BY <1>2, <2>2, EachOf
    <2> QED
      BY <2>1, <2>3
  <1>7. ListedAgain = dirs \o finds
    BY DEF ListedAgain
  <1> HIDE DEF dirs, finds
  <1>8. IsSeq(ListedAgain) /\ ToSet(ListedAgain) = ToSet(dirs) \cup ToSet(finds)
    BY <1>5, <1>6, <1>7, ConcatFacts
  <1>9. IsSeq(Finish) /\ ToSet(Finish) = ToSet(ObservedAgain) \cup ToSet(dirs) \cup ToSet(finds)
    BY <1>4, <1>8, ConcatFacts DEF Finish
  <1>10. ASSUME NEW o \in ToSet(ObservedAgain) PROVE Closes(Facts, o) /\ ~Uses(o)
    <2>1. PICK i \in DOMAIN observed : o = Observe(observed[i][1], "any")
      BY <1>4
    <2>2. observed[i][1] \in Keys(observed)
      BY DEF Keys
    <2> QED
      BY <1>3, <2>1, <2>2 DEF Closes, Uses, Observe
  <1>11. ASSUME NEW o \in ToSet(dirs) PROVE Closes(Facts, o) /\ Ready(Facts, o)
    <2>1. PICK i \in DOMAIN directories : o = List(directories[i][1], None, FALSE)
      BY <1>5
    <2>2. directories[i][1] \in Keys(directories)
      BY DEF Keys
    <2>3. o.op = "list" /\ o.path = directories[i][1] /\ ~o.enter
      BY <2>1 DEF List
    <2> QED
      BY <1>1, <1>3, <2>2, <2>3 DEF Closes, Ready
  <1>12. ASSUME NEW o \in ToSet(finds) PROVE Closes(Facts, o) /\ ~Uses(o)
    <2>1. PICK i \in DOMAIN matches : o = List(matches[i][1][1], matches[i][1][2], FALSE)
      BY <1>6
    <2>2. o.op = "list" /\ o.match # None /\ ~o.enter
      BY <1>2, <2>1 DEF List
    <2> QED
      BY <2>2 DEF Closes, Uses
  <1>13. \A p \in Keys(observed) : Observe(p, "any") \in ToSet(ObservedAgain)
    BY <1>4 DEF Keys
  <1> QED
    BY <1>9, <1>10, <1>11, <1>12, <1>13

LEMMA FinishKeeps ==
    ASSUME Loading, FinishStep PROVE Loading'
  <1> DEFINE done == Op("done", Root)
             finish == Op("finish", Root)
  <1>1. /\ Next1.op = "finish" /\ todo' = (Finish \o <<done>>) \o Tail(todo)
        /\ UNCHANGED <<fs, clock, edits, past, blurred, origin, allowed, result, observed, directories, matches, fd, buffer,
                       manifest, tree, got, bundle, seen>>
    BY DEF FinishStep, Doing, Continue, world, source, progress
  <1>2. Finishing
    BY <1>1, Which DEF Loading, Stage, Working
  <1>3. todo = <<finish>> /\ Acquired(Facts)
    BY <1>2 DEF Finishing
  <1>4. PICK ops : ops = Finish
    OBVIOUS
  <1>5. PICK old : old = fs
    OBVIOUS
  <1>6. /\ IsSeq(ops) /\ \A o \in ToSet(ops) : Closes(Facts, o) /\ (Uses(o) => Ready(Facts, o))
        /\ \A p \in Keys(observed) : Observe(p, "any") \in ToSet(ops)
    BY <1>4, FinishFacts DEF Loading
  <1>7. IsSeq(<<done>>) /\ Chained(Facts, <<done>>)
    <2>1. ~Uses(done)
      BY DEF Uses, Op
    <2> HIDE DEF done
    <2> QED
      BY <2>1, TupleFacts, NoUse
  <1>8. todo' = ops \o <<done>> /\ Chained(Facts, todo')
    <2> DEFINE all == ops \o <<done>>
    <2>1. Chained(Facts, ops)
      BY <1>6, AllReady
    <2> HIDE DEF done, finish
    <2>2. IsSeq(all) /\ Chained(Facts, all)
      <3> DEFINE last == <<done>>
      <3>1. IsSeq(last) /\ Chained(Facts, last)
        BY <1>7
      <3> HIDE DEF last
      <3>2. IsSeq(ops \o last) /\ Chained(Facts, ops \o last)
        BY <1>6, <2>1, <3>1, ChainConcat
      <3> QED
        BY <3>2 DEF last
    <2>3. todo' = all \o Tail(todo)
      BY <1>1, <1>4
    <2> HIDE DEF all
    <2>4. todo' = all
      BY <1>3, <2>2, <2>3, Alone
    <2> QED
      BY <2>2, <2>4 DEF all
  <1>9. Facts' = Facts /\ MoreFacts(Facts, Facts')
    BY <1>1, SameFacts
  <1>10. Acquired(Facts)'
    BY <1>1, <1>3, <1>9, AcquiredStays
  <1>11. ASSUME ~blurred PROVE Witness(Facts, old, ToSet(ops))'
    <2>1. FsOK(old) /\ View(old) \in past' /\ Faithful(Facts', old) /\ fs' = old
      BY <1>1, <1>5, <1>9, <1>11 DEF Loading, WorldOK
    <2>2. \A p \in Keys(Facts'.observed) : Observe(p, "any") \in ToSet(ops)
      BY <1>6, <1>9 DEF Facts
    <2> QED
      BY <2>1, <2>2 DEF Witness
  <1>12. Closing(ops)'
    <2>1. \A o \in ToSet(ops) : Closes(Facts', o)
      BY <1>6, <1>9
    <2>2. blurred' \/ \E files : Witness(Facts, files, ToSet(ops))'
      BY <1>1, <1>11
    <2> QED
      BY <1>6, <1>8, <1>10, <2>1, <2>2 DEF Closing
  <1>13. Phase'
    BY <1>12 DEF Phase
  <1> QED
    BY <1>1, <1>8, <1>13, PhaseStep

LEMMA HeldStays ==
    ASSUME UNCHANGED <<origin, bundle>>, NEW moment, HeldBy(moment) PROVE HeldBy(moment)'
  BY DEF HeldBy

\* Nothing observed differs from what it was when the last look began.
LEMMA DoneKeeps ==
    ASSUME Loading, Done PROVE LoadsOneMoment'
  <1>1. Next1.op = "done" /\ UNCHANGED <<past, blurred, origin, bundle>>
    BY DEF Done, Doing, world, progress
  <1>2. Closing(<<>>)
    BY <1>1, Which DEF Loading, Stage, Working
  <1>3. Acquired(Facts) /\ (blurred \/ \E old : Witness(Facts, old, {}))
    BY <1>2, EmptyFacts DEF Closing
  <1>4. CASE blurred
    BY <1>1, <1>4 DEF LoadsOneMoment
  <1>5. CASE ~blurred
    <2>1. PICK old : Witness(Facts, old, {})
      BY <1>3, <1>5
    <2>2. Agrees(Facts, old) /\ View(old) \in past
      BY <2>1 DEF Witness, Agrees
    <2>3. HeldBy(View(old))
      BY <1>3, <2>2, AcquiredIsHeld DEF Loading, WorldOK
    <2>4. HeldBy(View(old))'
      BY <1>1, <2>3, HeldStays
    <2> QED
      BY <1>1, <2>2, <2>4 DEF LoadsOneMoment
  <1> QED
    BY <1>4, <1>5
-----------------------------------------------------------------------------
(* The beginning, and every step. *)

LEMMA FirstTree ==
    ASSUME Init PROVE WorldOK
  <1>1. PICK job \in Jobs :
            /\ fs = [p \in DOMAIN job.files \cup {Root} |->
                        IF p = Root THEN FreshNode([kind |-> "dir", data |-> None], Root)
                        ELSE FreshNode(job.files[p], p)]
            /\ past = {View(fs)} /\ origin = job.origin /\ allowed = job.allowed
    BY DEF Init
  <1>2. /\ IsFiniteSet(DOMAIN job.files) /\ DOMAIN job.files \subseteq Paths \ {Root}
        /\ \A p \in DOMAIN job.files :
            /\ ContentOK(job.files[p])
            /\ Len(p) > 1 => Front(p) \in DOMAIN job.files /\ job.files[Front(p)].kind = "dir"
        /\ job.origin # None => job.origin \in Paths \ {Root}
        /\ job.allowed.paths \subseteq Paths \ {Root} /\ job.allowed.blocks \subseteq Blocks
    BY JobsAssumption DEF Paths, Root
  <1>3. /\ DOMAIN fs = DOMAIN job.files \cup {Root}
        /\ fs[Root] = FreshNode([kind |-> "dir", data |-> None], Root)
        /\ \A p \in DOMAIN job.files : fs[p] = FreshNode(job.files[p], p)
    BY <1>1, <1>2
  <1>4. Root \in Paths /\ Len(Root) = 0
    BY DEF Root, Paths
  <1>5. /\ fs[Root].kind = "dir" /\ ContentOK(fs[Root])
        /\ fs[Root].ino.path = Root /\ fs[Root].ino.born = 0 /\ fs[Root].stamp = 0
    BY <1>3 DEF FreshNode, ContentOK
  <1>6. ASSUME NEW p \in DOMAIN job.files
        PROVE  /\ fs[p].kind = job.files[p].kind /\ ContentOK(fs[p])
               /\ fs[p].ino.path = p /\ fs[p].ino.born = 0 /\ fs[p].stamp = 0
    <2>1. fs[p] = FreshNode(job.files[p], p) /\ ContentOK(job.files[p])
      BY <1>2, <1>3
    <2>2. /\ fs[p].kind = job.files[p].kind /\ fs[p].data = job.files[p].data
          /\ fs[p].ino.path = p /\ fs[p].ino.born = 0 /\ fs[p].stamp = 0
      BY <2>1 DEF FreshNode
    <2> QED
      BY <2>1, <2>2 DEF ContentOK
  <1>7. ASSUME NEW p \in DOMAIN fs \ {Root} PROVE Front(p) \in DOMAIN fs /\ fs[Front(p)].kind = "dir"
    <2>1. p \in DOMAIN job.files /\ p \in Paths /\ p # <<>>
      BY <1>2, <1>3, <1>7 DEF Root
    <2>2. Len(p) \in Nat /\ Len(p) > 0 /\ Front(p) \in Paths /\ Len(Front(p)) = Len(p) - 1
      BY <2>1, PathFacts
    <2>3. CASE Len(p) > 1
      BY <1>2, <1>3, <1>6, <2>1, <2>3
    <2>4. CASE Len(p) = 1
      <3>1. Front(p) = Root
        BY <2>2, <2>4 DEF Paths, Root
      <3> QED
        BY <1>3, <1>5, <3>1
    <2> QED
      BY <2>2, <2>3, <2>4
  <1>8. IsFiniteSet(DOMAIN fs)
    BY <1>2, <1>3, FS_AddElement
  <1>9. FsOK(fs)
    BY <1>2, <1>3, <1>4, <1>5, <1>6, <1>7, <1>8 DEF FsOK
  <1>10. clock = 1 /\ edits = 0 /\ blurred = FALSE
    BY DEF Init
  <1>11. \A p \in DOMAIN fs : fs[p].ino.born <= edits /\ fs[p].stamp <= clock
    BY <1>3, <1>5, <1>6, <1>10
  <1> QED
    BY <1>1, <1>2, <1>9, <1>10, <1>11 DEF WorldOK

LEMMA NewFacts ==
    /\ IsSeq(New) /\ ToSet(New) = {Op("root", Root), Observe(Root, "dir"), List(Root, None, FALSE)}
    /\ \A o \in ToSet(New) : Fetch(o) /\ Plain(o) /\ o.op # "read"
    /\ \A K : Chained(K, New)
  <1> DEFINE root == Op("root", Root)
             look == Observe(Root, "dir")
             list == List(Root, None, FALSE)
  <1>1. New = <<root, look, list>>
    BY DEF New
  <1>2. Root \in Paths
    BY DEF Root, Paths
  <1>3. ~Uses(root) /\ ~Uses(look) /\ Prepares(look, list)
    BY DEF Uses, Prepares, Op, Observe, List
  <1>4. \A o \in {root, look, list} : Fetch(o) /\ Plain(o) /\ o.op # "read"
    BY <1>2 DEF Fetch, Plain, Entry, Enters, Op, Observe, List
  <1>5. {root, look, list} = {Op("root", Root), Observe(Root, "dir"), List(Root, None, FALSE)}
    OBVIOUS
  <1> HIDE DEF root, look, list
  <1>6. IsSeq(New) /\ ToSet(New) = {root, look, list}
    BY <1>1, TupleFacts
  <1>7. DOMAIN New = 1..3 /\ New[1] = root /\ New[2] = look /\ New[3] = list
    BY <1>1
  <1>8. ASSUME NEW K PROVE Chained(K, New)
    BY <1>3, <1>7 DEF Chained
  <1> QED
    BY <1>4, <1>5, <1>6, <1>8

LEMMA DirectoryPhase ==
    ASSUME origin = None, got = <<>>, todo = DirectoryPlan
    PROVE  Chained(Facts, todo) /\ Early
  <1> USE ManifestAssumption
  <1> DEFINE find == Find(ManifestPath, 1)
             end == Op("manifest", ManifestPath)
             read == Read(ManifestPath)
             first == New \o <<find>>
             pre == first \o read
  <1>1. ManifestPath \in Paths
    BY DEF Paths
  <1>2. todo = pre \o <<end>>
    BY DEF DirectoryPlan
  <1>3. ~Uses(find) /\ ~Uses(end) /\ Fetch(find) /\ ~Entry(find) /\ ~Enters(find) /\ find.op # "read"
    BY <1>1 DEF Uses, Find, Op, Fetch, Entry, Enters
  <1>4. /\ \A o \in ToSet(read) : Fetch(o) /\ ~Entry(o) /\ ~Enters(o) /\ o.path = ManifestPath
        /\ IsSeq(read) /\ Chained(Facts, read) /\ \E o \in ToSet(read) : o.op = "read"
    BY <1>1, ReadOps, ReadingChain
  <1> HIDE DEF find, end, read
  <1>5. IsSeq(<<find>>) /\ ToSet(<<find>>) = {find} /\ Chained(Facts, <<find>>) /\ IsSeq(<<end>>) /\ Chained(Facts, <<end>>)
    BY <1>3, TupleFacts, NoUse
  <1>6. IsSeq(New) /\ Chained(Facts, New)
    BY NewFacts
  <1>7. \A o \in ToSet(New) : Fetch(o) /\ ~Entry(o) /\ ~Enters(o) /\ o.op # "read"
    BY NewFacts DEF Plain
  <1>8. IsSeq(first) /\ Chained(Facts, first) /\ ToSet(first) = ToSet(New) \cup {find}
    <2> DEFINE one == <<find>>
    <2>1. IsSeq(one) /\ ToSet(one) = {find} /\ Chained(Facts, one)
      BY <1>5
    <2> HIDE DEF one
    <2>2. IsSeq(New \o one) /\ Chained(Facts, New \o one) /\ Holds(New \o one, New, one)
      BY <1>6, <2>1, ChainConcat
    <2> QED
      BY <2>1, <2>2 DEF one, Holds
  <1> HIDE DEF first
  <1>9. IsSeq(pre) /\ Chained(Facts, pre) /\ ToSet(pre) = ToSet(first) \cup ToSet(read)
    <2>1. IsSeq(first \o read) /\ Chained(Facts, first \o read) /\ Holds(first \o read, first, read)
      BY <1>4, <1>8, ChainConcat
    <2> QED
      BY <2>1 DEF Holds
  <1> HIDE DEF pre
  <1>10. Chained(Facts, todo)
    <2> DEFINE one == <<end>>
    <2>1. IsSeq(one) /\ Chained(Facts, one) /\ todo = pre \o one
      BY <1>2, <1>5
    <2> HIDE DEF one
    <2> QED
      BY <1>9, <2>1, ChainConcat
  <1>11. \A o \in ToSet(pre) : Fetch(o) /\ ~Entry(o) /\ ~Enters(o) /\ (o.op = "read" => o.path = ManifestPath)
    BY <1>3, <1>4, <1>7, <1>8, <1>9
  <1>12. FileTarget(Facts, tree, ManifestPath, ToSet(pre))
    BY <1>4, <1>9, <1>11 DEF FileTarget
  <1>13. Manifesting(pre)
    BY <1>2, <1>9, <1>11, <1>12 DEF Manifesting, end
  <1> QED
    BY <1>10, <1>13 DEF Early

LEMMA ArchivePhase ==
    ASSUME origin # None, origin \in Paths, todo = ArchivePlan(origin)
    PROVE  Chained(Facts, todo) /\ Early
  <1> DEFINE look == Observe(origin, "any")
             slurp == Op("slurp", origin)
             resolve == Op("resolve_origin", origin)
             finish == Op("finish", Root)
             rest == <<look, slurp, resolve, finish>>
             end == <<slurp>> \o <<resolve, finish>>
             pre == New \o <<look>>
  <1>1. todo = New \o rest
    BY DEF ArchivePlan
  <1>2. end = ArchiveEnd(origin)
    BY DEF ArchiveEnd, ResolveEnd
  <1>3. ~Uses(look) /\ Prepares(look, slurp) /\ ~Uses(resolve) /\ ~Uses(finish) /\ Plain(look)
    BY DEF Uses, Prepares, Observe, Op, Plain, Entry, Enters
  <1> HIDE DEF look, slurp, resolve, finish
  <1>4. IsSeq(rest) /\ Chained(Facts, rest)
    <2>1. IsSeq(rest) /\ DOMAIN rest = 1..4 /\ rest[1] = look /\ rest[2] = slurp /\ rest[3] = resolve /\ rest[4] = finish
      BY TupleFacts
    <2> QED
      BY <1>3, <2>1 DEF Chained
  <1>5. IsSeq(<<look>>) /\ IsSeq(<<slurp>>) /\ IsSeq(<<resolve, finish>>) /\ ToSet(<<look>>) = {look} /\ <<look>> # <<>>
    BY TupleFacts
  <1>6. rest = <<look>> \o end
    <2> DEFINE one == <<look>>
    <2>1. one \in Seq({look, slurp, resolve, finish}) /\ Len(one) = 1 /\ one[1] = look
      OBVIOUS
    <2>2. /\ end \in Seq({look, slurp, resolve, finish}) /\ Len(end) = 3
          /\ end[1] = slurp /\ end[2] = resolve /\ end[3] = finish
      OBVIOUS
    <2>3. /\ rest \in Seq({look, slurp, resolve, finish}) /\ Len(rest) = 4
          /\ rest[1] = look /\ rest[2] = slurp /\ rest[3] = resolve /\ rest[4] = finish
      OBVIOUS
    <2> HIDE DEF one, end, rest
    <2>4. /\ one \o end \in Seq({look, slurp, resolve, finish}) /\ Len(one \o end) = 4
          /\ (one \o end)[1] = look /\ (one \o end)[2] = slurp /\ (one \o end)[3] = resolve /\ (one \o end)[4] = finish
      <3> DEFINE all == one \o end
      <3>1. IsSeq(one) /\ IsSeq(end)
        BY <2>1, <2>2 DEF IsSeq
      <3>2. /\ Len(all) = Len(one) + Len(end)
            /\ \A i \in 1..Len(one) : all[i] = one[i]
            /\ \A i \in 1..Len(end) : all[Len(one) + i] = end[i]
        BY <3>1, ConcatFacts
      <3>3. all \in Seq({look, slurp, resolve, finish})
        BY <2>1, <2>2, ConcatProperties
      <3> HIDE DEF all
      <3>4. Len(all) = 4 /\ all[1] = look /\ \A i \in 1..3 : all[1 + i] = end[i]
        BY <2>1, <2>2, <3>2
      <3>5. \A j \in 2..4 : all[j] = end[j - 1]
        <4>1. \A j \in 2..4 : j - 1 \in 1..3 /\ 1 + (j - 1) = j
          OBVIOUS
        <4> QED
          BY <3>4, <4>1
      <3>6. all[2] = slurp /\ all[3] = resolve /\ all[4] = finish
        BY <2>2, <3>5
      <3> QED
        BY <3>3, <3>4, <3>6 DEF all
    <2>5. \A i \in 1..4 : (one \o end)[i] = rest[i]
      BY <2>3, <2>4
    <2>6. rest = one \o end
      BY <2>3, <2>4, <2>5, SeqEqual
    <2> QED
      BY <2>6 DEF one
  <1>7. IsSeq(end)
    BY <1>2, EndFacts, Zenon
  <1>8. IsSeq(New) /\ Chained(Facts, New) /\ \A o \in ToSet(New) : Plain(o)
    BY NewFacts
  <1> HIDE DEF end, rest
  <1>9. Chained(Facts, todo)
    BY <1>1, <1>4, <1>8, ChainConcat
  <1>10. IsSeq(pre) /\ ToSet(pre) = ToSet(New) \cup {look} /\ todo = pre \o end
    <2> DEFINE one == <<look>>
    <2>1. IsSeq(one) /\ ToSet(one) = {look} /\ rest = one \o end
      BY <1>5, <1>6
    <2> HIDE DEF one
    <2>2. New \o (one \o end) = (New \o one) \o end
      BY <1>7, <1>8, <2>1, Regroup
    <2>3. IsSeq(New \o one) /\ ToSet(New \o one) = ToSet(New) \cup ToSet(one)
      BY <1>8, <2>1, ConcatFacts
    <2> QED
      BY <1>1, <2>1, <2>2, <2>3 DEF one
  <1> HIDE DEF pre
  <1>11. Unpacking(pre)
    BY <1>2, <1>3, <1>8, <1>10 DEF Unpacking
  <1> QED
    BY <1>9, <1>11 DEF Early

LEMMA InitHolds ==
    ASSUME Init PROVE IInv
  <1>1. /\ observed = <<>> /\ directories = <<>> /\ matches = <<>> /\ seen = {} /\ fd = None /\ buffer = <<>>
        /\ got = <<>> /\ result = "loading" /\ clock = 1 /\ edits = 0
        /\ todo = IF origin = None THEN DirectoryPlan ELSE ArchivePlan(origin)
    BY DEF Init
  <1>2. WorldOK
    BY FirstTree
  <1>3. DOMAIN <<>> = {} /\ IsSeq(<<>>) /\ Keys(<<>>) = {}
    <2>1. DOMAIN <<>> = {}
      OBVIOUS
    <2> QED
      BY <2>1, EmptyFacts DEF Keys
  <1>4. Facts.observed = <<>> /\ Facts.directories = <<>> /\ Facts.seen = {}
    BY <1>1 DEF Facts
  <1>5. FactsOK(Facts) /\ Looked(Facts, fs, clock, edits) /\ Faithful(Facts, fs)
    BY <1>3, <1>4 DEF FactsOK, MapOK, Looked, Faithful
  <1>6. MatchesOK
    BY <1>1, <1>3 DEF MatchesOK
  <1>7. Opened
    BY <1>1 DEF Opened
  <1>8. Chained(Facts, todo) /\ Early
    <2>1. CASE origin = None
      BY <1>1, <2>1, DirectoryPhase
    <2>2. CASE origin # None
      BY <1>1, <1>2, <2>2, ArchivePhase DEF WorldOK
    <2> QED
      BY <2>1, <2>2
  <1>9. LoadsOneMoment
    BY <1>1 DEF LoadsOneMoment
  <1> QED
    BY <1>2, <1>5, <1>6, <1>7, <1>8, <1>9 DEF IInv, Loading, Phase

\* Only what is loading goes on, and only Done loads.
LEMMA Outcome ==
    ASSUME Load PROVE result = "loading" /\ (result' = "loaded" => Done)
  <1>1. CASE ObserveStep
    BY <1>1 DEF ObserveStep, Doing, Refuse, Continue
  <1>2. CASE ListStep
    BY <1>2 DEF ListStep, Doing, Refuse, Continue
  <1>3. CASE FindStep \/ Lstat \/ Resolve \/ ResolveOrigin
    BY <1>3 DEF FindStep, Lstat, Resolve, ResolveOrigin, Doing, Refuse, Continue
  <1>4. CASE Open \/ Slurp \/ Block \/ Fstat
    BY <1>4 DEF Open, Slurp, Block, Fstat, Doing, Refuse, Continue
  <1>5. CASE ManifestStep \/ RecordStep \/ CollectStep
    BY <1>5 DEF ManifestStep, RecordStep, CollectStep, Doing, Refuse, Continue
  <1>6. CASE BuildStep \/ UnpackStep \/ FinishStep
    BY <1>6 DEF BuildStep, UnpackStep, FinishStep, Doing, Refuse, Continue
  <1>7. CASE Done
    BY <1>7 DEF Done, Doing
  <1> QED
    BY <1>1, <1>2, <1>3, <1>4, <1>5, <1>6, <1>7 DEF Load

LEMMA LoadKeeps ==
    ASSUME Loading, Load, result' = "loading" PROVE Loading'
  <1>1. CASE ObserveStep \/ ListStep \/ FindStep
    BY <1>1, ObserveKeeps, ListKeeps, FindKeeps
  <1>2. CASE Lstat \/ Resolve \/ ResolveOrigin
    BY <1>2, LstatKeeps, ResolveKeeps, ResolveOriginKeeps
  <1>3. CASE Open \/ Slurp \/ Block \/ Fstat
    BY <1>3, OpenKeeps, BlockKeeps, FstatKeeps
  <1>4. CASE ManifestStep \/ RecordStep \/ CollectStep
    BY <1>4, ManifestKeeps, RecordKeeps, CollectKeeps
  <1>5. CASE BuildStep \/ UnpackStep \/ FinishStep
    BY <1>5, BuildKeeps, UnpackKeeps, FinishKeeps
  <1>6. CASE Done
    BY <1>6 DEF Done
  <1> QED
    BY <1>1, <1>2, <1>3, <1>4, <1>5, <1>6 DEF Load

LEMMA StepHolds ==
    ASSUME IInv, [Next]_vars PROVE IInv'
  <1>1. CASE Load
    <2>1. result = "loading" /\ Loading /\ (result' = "loaded" => Done)
      BY <1>1, Outcome DEF IInv
    <2>2. result' = "loading" => Loading'
      BY <1>1, <2>1, LoadKeeps
    <2>3. LoadsOneMoment'
      <3>1. CASE result' = "loaded"
        BY <2>1, <3>1, DoneKeeps
      <3>2. CASE result' # "loaded"
        BY <3>2 DEF LoadsOneMoment
      <3> QED
        BY <3>1, <3>2
    <2> QED
      BY <2>2, <2>3 DEF IInv
  <1>2. CASE Writer
    <2>1. result = "loading" /\ result' = result
      <3>1. ASSUME Interferes PROVE result = "loading" /\ result' = result
        BY <3>1 DEF Interferes
      <3>2. CASE Tick
        BY <3>2 DEF Tick
      <3> QED
        BY <1>2, <3>1, <3>2 DEF Writer, Overwrite, PutThere, Erase
    <2>2. Loading'
      BY <1>2, <2>1, WriterKeeps DEF IInv
    <2>3. LoadsOneMoment'
      BY <2>1 DEF LoadsOneMoment
    <2> QED
      BY <2>2, <2>3 DEF IInv
  <1>3. CASE UNCHANGED vars
    <2>1. UNCHANGED <<fs, clock, edits, past, blurred, origin, allowed, todo, observed, directories, matches, fd, buffer,
                      manifest, tree, got, bundle, seen, result>>
      BY <1>3 DEF vars
    <2>2. Loading => Loading'
      BY <2>1, TimeKeeps
    <2>3. LoadsOneMoment => LoadsOneMoment'
      BY <2>1, HeldStays DEF LoadsOneMoment
    <2> QED
      BY <2>1, <2>2, <2>3 DEF IInv
  <1> QED
    BY <1>1, <1>2, <1>3 DEF Next

\* A bundle that loads is what the directory held at one moment of the load, as
\* far as signatures can tell, whatever the directory holds and whoever writes
\* there: DirectorySource::finish looks again at everything it has read.
THEOREM LoadsWhatWas == Spec => []LoadsOneMoment
  <1>1. Init => IInv
    BY InitHolds
  <1>2. IInv /\ [Next]_vars => IInv'
    BY StepHolds
  <1>3. IInv => LoadsOneMoment
    BY DEF IInv
  <1> QED
    BY <1>1, <1>2, <1>3, PTL DEF Spec
=============================================================================

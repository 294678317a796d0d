-------------------------- MODULE Inspection_proofs --------------------------
(***************************************************************************)
(* What a host is told is true, for every rendering and any number of      *)
(* processes, installations, failures, crashes and edits, where no bundle  *)
(* is installed in two contexts of one state store.                        *)
(*                                                                         *)
(* That an index names everything (Discoverable) and that a completed one  *)
(* is exact make the judgement of an inspection, which sees the resources  *)
(* of the index only, one about all resources.  What is so judged is what  *)
(* a plan of the same generation would make, claim by claim.               *)
(***************************************************************************)
EXTENDS Inspection, Installation_proofs

-----------------------------------------------------------------------------
(* The judgement of an inspection.                                         *)

LEMMA InspectParts ==
    ASSUME NEW i, NEW bad
    PROVE  /\ Inspect(i, bad).generation = CurrentGeneration(index[i])
           /\ Inspect(i, bad).pending = Pending(index[i])
           /\ Inspect(i, bad).resources = Seen(i, bad)
           /\ Inspect(i, bad).current <=>
                 /\ CurrentGeneration(index[i]) # None /\ ~Pending(index[i])
                 /\ Intact(i, CurrentGeneration(index[i]), Seen(i, bad))
                 /\ Actual(i, Seen(i, bad)) = Membership(CurrentGeneration(index[i]))
  BY Zenon DEF Inspect

LEMMA CompletedShape ==
    ASSUME NEW ix \in Indexes, ix.pending = None, ix.previous = None,
           ix.residual = {}
    PROVE  ix = CompletedIndex(ix.current)
  BY DEF Indexes, CompletedIndex

\* What a settled generation leaves to be seen.
LEMMA SettledFacts ==
    ASSUME TypeOK, Discoverable, NEW i \in Installs, NEW g \in Generations,
           Settled(i, g)
    PROVE  /\ index[i] # None /\ index[i].current = g
           /\ index[i].pending = None /\ index[i].previous = None
           /\ index[i].residual = {}
           /\ IndexResources(index[i]) = Members(g)
           /\ Members(g) \subseteq receipts /\ Members(g) \subseteq Resources
           /\ Membership(g) \subseteq ClaimsAt(Members(g))
           /\ open \cap Members(g) = {}
           /\ \A c \in Claims : (ledger[c] # None /\ ledger[c].owner = Bundle[i]) <=> c \in Membership(g)
           /\ \A c \in Membership(g) :
                 /\ c \in Claims /\ ledger[c] # None
                 /\ ledger[c].owner = Bundle[i] /\ ledger[c].gen = g
                 /\ content[c] = Body[g][c] /\ Body[g][c] # Nothing
  <1>1. /\ index[i] = CompletedIndex(g)
        /\ {c \in Claims : ledger[c] # None /\ ledger[c].owner = Bundle[i]} = Membership(g)
        /\ \A c \in Membership(g) : ledger[c].gen = g /\ content[c] = Body[g][c]
        /\ open \cap Members(g) = {}
    BY DEF Settled
  <1>2. CompletedIndex(g) \in Indexes /\ CompletedIndex(g) # None
    BY NoneAssumption DEF CompletedIndex, Indexes
  <1>3. /\ Membership(g) \subseteq Claims /\ Members(g) \subseteq Resources
        /\ Members(g) = {Site[c] : c \in Membership(g)}
    BY MembersType
  <1>4. \A r \in Members(g) : ExpectsReceipt(index[i], r)
    BY <1>1, <1>2 DEF ExpectsReceipt, CompletedIndex
  <1>5. Members(g) \subseteq receipts
    BY <1>3, <1>4 DEF Discoverable
  <1>6. \A c \in Membership(g) : Body[g][c] # Nothing
    BY RenderingAssumption DEF Membership
  <1>7. Membership(g) \subseteq ClaimsAt(Members(g))
    BY <1>3 DEF ClaimsAt
  <1>8. /\ index[i].current = g /\ index[i].pending = None
        /\ index[i].previous = None /\ index[i].residual = {}
    BY <1>1 DEF CompletedIndex
  <1>9. IndexResources(index[i]) = Members(g)
    BY <1>1, CompletedNames
  <1> QED
    BY <1>1, <1>2, <1>3, <1>5, <1>6, <1>7, <1>8, <1>9

\* The resources that an inspection shows of a settled generation.
LEMMA SettledIsSeen ==
    ASSUME TypeOK, Discoverable, NEW i \in Installs, NEW g \in Generations,
           Settled(i, g)
    PROVE  /\ Inspect(i, {}).generation = g /\ ~Inspect(i, {}).pending
           /\ DOMAIN Inspect(i, {}).resources = Members(g)
           /\ \A r \in Members(g) :
                 /\ ~Inspect(i, {}).resources[r].error
                 /\ ~Inspect(i, {}).resources[r].recovery
                 /\ Inspect(i, {}).resources[r].claims = StoredClaims(r)
           /\ Inspect(i, {}).current
  <1> USE SettledFacts
  <1>1. \A r \in Members(g) :
           /\ ~ResourceObservation(i, {}, r).error
           /\ ~ResourceObservation(i, {}, r).recovery
           /\ ResourceObservation(i, {}, r).claims = StoredClaims(r)
    <2> TAKE r \in Members(g)
    <2>1. r \in receipts /\ r \notin open
      OBVIOUS
    <2>2. ResourceObservation(i, {}, r) =
             [error |-> FALSE, claims |-> StoredClaims(r), recovery |-> Recoverable(r)]
      BY <2>1 DEF ResourceObservation, Unreceipted
    <2>3. ~Recoverable(r)
      BY <2>1 DEF Recoverable
    <2> QED
      BY <2>2, <2>3
  <1> DEFINE seen == Seen(i, {})
  <1>2. /\ DOMAIN seen = Members(g)
        /\ \A r \in Members(g) : seen[r] = ResourceObservation(i, {}, r)
    BY DEF Seen
  <1> HIDE DEF seen
  <1>3. Actual(i, seen) = Membership(g)
    <2>1. \A r \in Members(g) : seen[r].claims = StoredClaims(r)
      BY <1>1, <1>2
    <2>2. \A c \in Membership(g) : Site[c] \in Members(g) /\ c \in StoredClaims(Site[c])
      BY DEF StoredClaims, ClaimsAt
    <2>3. Membership(g) \subseteq Actual(i, seen)
      BY <1>2, <2>1, <2>2 DEF Actual
    <2>4. \A r : StoredClaims(r) \subseteq {c \in Claims : ledger[c] # None}
      BY DEF StoredClaims, ClaimsAt
    <2>5. Actual(i, seen) \subseteq Membership(g)
      BY <1>2, <2>1, <2>4 DEF Actual
    <2> QED
      BY <2>3, <2>5
  <1>4. \A c \in Membership(g) : ledger[c].gen = g /\ Status(c) = "current"
    BY DEF Status
  <1>5. Intact(i, g, seen)
    <2>1. \A r \in DOMAIN seen : ~seen[r].error /\ ~seen[r].recovery
      BY <1>1, <1>2
    <2>2. \A c \in Actual(i, seen) : ledger[c].gen = g /\ Status(c) = "current"
      BY <1>3, <1>4
    <2> QED
      BY ONLY <2>1, <2>2, Zenon DEF Intact
  <1>6. g # None /\ CurrentGeneration(index[i]) = g /\ ~Pending(index[i])
    <2>1. /\ index[i] # None /\ index[i].current = g
          /\ index[i].pending = None /\ index[i].previous = None /\ index[i].residual = {}
      OBVIOUS
    <2>2. g # None
      BY RenderingAssumption
    <2> QED
      BY <2>1, <2>2, Zenon DEF CurrentGeneration, Pending
  <1>7. /\ Inspect(i, {}).generation = g
        /\ Inspect(i, {}).pending = Pending(index[i])
        /\ Inspect(i, {}).resources = seen
    BY <1>6, InspectParts DEF seen
  <1>8. Inspect(i, {}).current
    BY <1>3, <1>5, <1>6, InspectParts, Zenon DEF seen
  <1> QED
    BY <1>1, <1>2, <1>6, <1>7, <1>8

\* What is called current is settled, also at the resources that were not seen.
LEMMA CurrentSettles ==
    ASSUME TypeOK, CompletedIsExact, NEW i \in Installs, Inspect(i, {}).current
    PROVE  /\ index[i] # None /\ index[i].current \in Generations
           /\ Settled(i, index[i].current)
  <1> DEFINE ix == index[i]
             g == ix.current
             seen == Seen(i, {})
  <1>1. /\ CurrentGeneration(ix) # None /\ ~Pending(ix)
        /\ Intact(i, CurrentGeneration(ix), seen)
        /\ Actual(i, seen) = Membership(CurrentGeneration(ix))
    BY InspectParts
  <1>2. ix # None /\ CurrentGeneration(ix) = g
    BY <1>1 DEF CurrentGeneration
  <1>3. ix \in Indexes
    BY <1>2 DEF TypeOK
  <1>4. ix = CompletedIndex(g)
    BY <1>1, <1>2, <1>3, CompletedShape DEF Pending
  <1>5. g \in Generations
    BY <1>1, <1>2, <1>3 DEF Indexes
  <1>6. /\ {c \in Claims : ledger[c] # None /\ ledger[c].owner = Bundle[i]} = Membership(g)
        /\ \A c \in Membership(g) : ledger[c].gen = g
    BY <1>2, <1>4 DEF CompletedIsExact
  <1>7. \A c \in Membership(g) : Status(c) = "current"
    BY <1>1, <1>2 DEF Intact
  <1>8. \A c \in Membership(g) : content[c] = Body[g][c]
    BY <1>6, <1>7 DEF Status
  <1>9. \A r \in Members(g) : r \notin open
    <2> TAKE r \in Members(g)
    <2>1. r \in DOMAIN seen /\ seen[r] = ResourceObservation(i, {}, r)
      BY <1>4, <1>5, CompletedNames DEF Seen
    <2>2. ~seen[r].error /\ ~seen[r].recovery
      BY <1>1, <2>1 DEF Intact
    <2>3. ~(r \in {} \/ Unreceipted(i, r))
      BY <2>1, <2>2 DEF ResourceObservation
    <2>4. seen[r] = [error |-> FALSE, claims |-> StoredClaims(r), recovery |-> Recoverable(r)]
      BY <2>1, <2>3, Zenon DEF ResourceObservation
    <2>5. seen[r].recovery = Recoverable(r)
      BY <2>4
    <2> QED
      BY <2>2, <2>5 DEF Recoverable
  <1>10. Settled(i, g)
    BY <1>4, <1>6, <1>8, <1>9 DEF Settled
  <1> QED
    BY <1>2, <1>5, <1>10

\* One resource that cannot be read is enough.
LEMMA UnreadIsNotCurrent ==
    ASSUME NEW i \in Installs, NEW r \in IndexResources(index[i])
    PROVE  ~Inspect(i, {r}).current
  <1>1. r \in DOMAIN Seen(i, {r}) /\ Seen(i, {r})[r].error
    BY DEF Seen, ResourceObservation
  <1> QED
    BY <1>1, InspectParts DEF Intact

LEMMA CurrentTrue ==
    ASSUME TypeOK, Discoverable, CompletedIsExact
    PROVE  CurrentIsTrue
  <1> SUFFICES ASSUME NEW i \in Installs
               PROVE  /\ Inspect(i, {}).current <=>
                            /\ index[i] # None /\ index[i].current # None
                            /\ Settled(i, index[i].current)
                      /\ Inspect(i, {}).current =>
                            \A r \in IndexResources(index[i]) : ~Inspect(i, {r}).current
    BY DEF CurrentIsTrue
  <1>1. ASSUME index[i] # None, index[i].current # None,
               Settled(i, index[i].current)
        PROVE  Inspect(i, {}).current
    <2>1. index[i].current \in Generations
      BY <1>1 DEF TypeOK, Indexes
    <2> QED
      BY <1>1, <2>1, SettledIsSeen
  <1>2. ASSUME Inspect(i, {}).current
        PROVE  /\ index[i] # None /\ index[i].current # None
               /\ Settled(i, index[i].current)
    BY <1>2, CurrentSettles, RenderingAssumption
  <1> QED
    BY <1>1, <1>2, UnreadIsNotCurrent

\* Where nothing is shown, nothing is owned.
LEMMA AbsentGone ==
    ASSUME OneContext, TypeOK, Discoverable, CompletedIsExact
    PROVE  AbsentIsGone
  <1> SUFFICES ASSUME NEW i \in Installs, Inspect(i, {}).generation = None,
                      ~Inspect(i, {}).pending,
                      NEW c \in Claims, ledger[c] # None,
                      ledger[c].owner = Bundle[i]
               PROVE  FALSE
    BY DEF AbsentIsGone
  <1>1. CurrentGeneration(index[i]) = None /\ ~Pending(index[i])
    BY InspectParts
  <1>2. CASE index[i] = None
    <2>1. IndexResources(index[i]) = {}
      BY <1>2 DEF IndexResources
    <2> QED
      BY <2>1 DEF Discoverable, OneContext
  <1>3. CASE index[i] # None
    <2>1. index[i] = CompletedIndex(index[i].current) /\ index[i].current = None
      BY <1>1, <1>3, CompletedShape DEF Pending, CurrentGeneration, TypeOK
    <2>2. c \in Membership(None)
      BY <1>3, <2>1 DEF CompletedIsExact
    <2> QED
      BY <2>2 DEF Membership
  <1> QED
    BY <1>2, <1>3
-----------------------------------------------------------------------------
(* The plan of what is settled.                                            *)

\* References between the resources of a generation: the first is published
\* after the second.
NeedsPairs(g) ==
    {<<Site[e[1]], Site[e[2]]>> : e \in {n \in Needs[g] : Site[n[1]] # Site[n[2]]}}

\* The references of a generation have no circle among its resources.
Orderable(g) ==
    g # None =>
        \A rs \in (SUBSET Members(g)) \ {{}} :
            \E r \in rs : \A q \in rs : <<r, q>> \notin NeedsPairs(g)

\* A relation without a circle has none backwards.
LEMMA NoCircleBackwards ==
    ASSUME NEW S, IsFiniteSet(S), NEW E,
           \A rs \in (SUBSET S) \ {{}} : \E r \in rs : \A q \in rs : <<r, q>> \notin E
    PROVE  \A rs \in (SUBSET S) \ {{}} : \E r \in rs : \A q \in rs : <<q, r>> \notin E
  <1> DEFINE Circle(rs) == rs \subseteq S /\ rs # {} /\ \A r \in rs : \E q \in rs : <<q, r>> \in E
             Sizes == {Cardinality(rs) : rs \in {x \in SUBSET S : Circle(x)}}
  <1> SUFFICES ASSUME NEW some \in SUBSET S, Circle(some) PROVE FALSE
    OBVIOUS
  <1> HIDE DEF Circle
  <1>1. Sizes \in SUBSET Nat /\ Sizes # {}
    BY FS_Subset, FS_CardinalityType
  <1>2. PICK least \in Sizes : \A n \in Sizes : least <= n
    BY <1>1, NatMin
  <1>3. PICK rs \in SUBSET S : Circle(rs) /\ least = Cardinality(rs)
    BY <1>2
  <1>4. PICK r \in rs : \A q \in rs : <<r, q>> \notin E
    BY <1>3 DEF Circle
  <1>5. Circle(rs \ {r})
    <2>1. rs \subseteq S /\ \A y \in rs : \E q \in rs : <<q, y>> \in E
      BY <1>3 DEF Circle
    <2>2. \A y \in rs : \E q \in rs \ {r} : <<q, y>> \in E
      BY <1>4, <2>1
    <2> QED
      BY <2>1, <2>2 DEF Circle
  <1>6. IsFiniteSet(rs) /\ Cardinality(rs \ {r}) = Cardinality(rs) - 1 /\ Cardinality(rs) \in Nat
    BY <1>4, FS_Subset, FS_RemoveElement, FS_CardinalityType
  <1>7. Cardinality(rs \ {r}) \in Sizes
    BY <1>5
  <1> HIDE DEF Sizes
  <1>8. least <= Cardinality(rs \ {r})
    BY <1>2, <1>7
  <1> QED
    BY <1>3, <1>6, <1>8

LEMMA ResourcesFinite ==
    ASSUME NEW g \in Generations
    PROVE  IsFiniteSet(Members(g))
  BY MembersType, FS_Subset, RenderingAssumption

\* What a call reads of a settled generation, whether it asks for it or for
\* nothing.
LEMMA SettledSnapshot ==
    ASSUME TypeOK, Discoverable, NEW i \in Installs, NEW g \in Generations,
           Settled(i, g), NEW h \in {g, None}
    PROVE  /\ Now(i, h).refs = Members(g) /\ Now(i, h).index = index[i]
           /\ Now(i, h).receipts = Members(g) /\ Now(i, h).open = {}
           /\ Now(i, h).ledger = [c \in ClaimsAt(Members(g)) |-> ledger[c]]
           /\ Now(i, h).content = [c \in ClaimsAt(Members(g)) |-> content[c]]
  <1>1. /\ IndexResources(index[i]) = Members(g) /\ Members(g) \subseteq receipts
        /\ open \cap Members(g) = {}
    BY SettledFacts
  <1>2. Members(None) = {}
    BY DEF Members, Membership
  <1>3. References(h, index[i]) = Members(g)
    BY <1>1, <1>2 DEF References
  <1> QED
    BY <1>1, <1>3 DEF Now, Snapshot

\* A call that asks for what is settled: the plan is what is.
LEMMA KeptPlan ==
    ASSUME TypeOK, Discoverable, Labelled, NEW i \in Installs,
           NEW g \in Generations, Settled(i, g), Orderable(g),
           NEW j, j.inst = i, j.gen = g, ~j.replace
    PROVE  LET s == Now(i, g)
           IN  /\ Conflicting(j, s) = {} /\ Modified(j, s) = {}
               /\ Unacquirable(j, s) = {} /\ MissingReceipts(s) = {}
               /\ ~OrderError(j, s)
               /\ \A r \in Members(g) : UnchangedPlan(j, s, r)
  <1> DEFINE s == Now(i, g)
  <1>1. /\ s.refs = Members(g) /\ s.index = index[i]
        /\ s.receipts = Members(g) /\ s.open = {}
        /\ s.ledger = [c \in ClaimsAt(Members(g)) |-> ledger[c]]
        /\ s.content = [c \in ClaimsAt(Members(g)) |-> content[c]]
    BY SettledSnapshot
  <1> HIDE DEF s
  <1>2. /\ Membership(g) \subseteq ClaimsAt(Members(g))
        /\ \A c \in Claims : (ledger[c] # None /\ ledger[c].owner = Bundle[i]) <=> c \in Membership(g)
        /\ \A c \in Membership(g) :
              /\ c \in Claims /\ ledger[c] # None
              /\ ledger[c].owner = Bundle[i] /\ ledger[c].gen = g
              /\ content[c] = Body[g][c] /\ Body[g][c] # Nothing
    BY SettledFacts
  <1>3. Desired(j, s) = Membership(g)
    BY <1>1, <1>2 DEF Desired
  <1>4. Own(j, s) = Membership(g)
    BY <1>1, <1>2 DEF Own, ClaimsAt
  <1>5. /\ Conflicting(j, s) = {} /\ Modified(j, s) = {}
        /\ Unacquirable(j, s) = {} /\ MissingReceipts(s) = {}
    BY <1>1, <1>2, <1>3, <1>4 DEF Conflicting, Modified, Unacquirable, MissingReceipts
  <1>6. ASSUME NEW c \in ClaimsAt(Members(g))
        PROVE  Planned(j, s, c) = s.ledger[c] /\ After(j, s, c) = s.content[c]
    <2>1. CASE c \in Membership(g)
      <3>1. /\ ledger[c] \in Owned /\ ledger[c].claim = c
            /\ s.ledger[c] = ledger[c] /\ s.content[c] = content[c]
        BY <1>1, <1>2, <1>6, <2>1 DEF TypeOK, Labelled
      <3>2. ledger[c] = [claim |-> c, owner |-> Bundle[i], gen |-> g, baseline |-> ledger[c].baseline]
        BY <1>2, <2>1, <3>1 DEF Owned
      <3> QED
        BY <1>2, <1>3, <1>4, <2>1, <3>1, <3>2 DEF Planned, After, Baseline
    <2>2. CASE c \notin Membership(g)
      BY <1>3, <1>4, <2>2 DEF Planned, After
    <2> QED
      BY <2>1, <2>2
  <1>7. \A r \in Members(g) : UnchangedPlan(j, s, r)
    BY <1>1, <1>6 DEF UnchangedPlan, ClaimsAt
  <1>8. \A c \in DOMAIN s.ledger : Planned(j, s, c) = s.ledger[c]
    BY <1>1, <1>6
  <1>9. g # None
    BY RenderingAssumption
  <1>10. Edges(j, s) = NeedsPairs(g)
    <2>1. \A n \in Recorded(s) : ~Retired(j, s, n[2])
      BY <1>8 DEF Recorded, Retired
    <2> QED
      BY <1>9, <2>1 DEF Edges, NeedsPairs
  <1>11. ~OrderError(j, s)
    <2>1. \A e \in Recorded(s) : e[1] \in DOMAIN s.ledger /\ e[2] \in DOMAIN s.ledger
      BY DEF Recorded
    <2>2. \A rs \in (SUBSET s.refs) \ {{}} : \E r \in rs : \A q \in rs : <<r, q>> \notin Edges(j, s)
      BY <1>1, <1>9, <1>10 DEF Orderable
    <2>3. ~\E e \in Recorded(s) :
              /\ s.ledger[e[2]] # None /\ Planned(j, s, e[2]) # None
              /\ Body[s.ledger[e[2]].gen][e[2]] # Body[Planned(j, s, e[2]).gen][e[2]]
              /\ e \notin Stable[s.ledger[e[1]].gen]
      BY <1>8, <2>1
    <2>4. ~\E e \in Recorded(s) :
              /\ Retired(j, s, e[2]) /\ Planned(j, s, e[1]) # None
              /\ e[2] \in Requirements(Planned(j, s, e[1]))
      BY <1>8, <2>1 DEF Retired
    <2> QED
      BY <2>2, <2>3, <2>4 DEF OrderError
  <1> QED
    BY <1>5, <1>7, <1>11 DEF s

\* A removal of what is settled: all of it is retired, and nothing that stays
\* refers to it.
LEMMA RemovalPlan ==
    ASSUME TypeOK, Discoverable, Labelled, SameOwner, NEW i \in Installs,
           NEW g \in Generations, Settled(i, g), Orderable(g),
           NEW j, j.inst = i, j.gen = None, ~j.replace
    PROVE  LET s == Now(i, None)
           IN  /\ Conflicting(j, s) = {} /\ Modified(j, s) = {}
               /\ Unacquirable(j, s) = {} /\ MissingReceipts(s) = {}
               /\ ~OrderError(j, s)
               /\ \A r \in Members(g) :
                     /\ ~UnchangedPlan(j, s, r)
                     /\ \E c \in ClaimsAt({r}) : s.content[c] # Nothing
  <1> DEFINE s == Now(i, None)
  <1>1. /\ s.refs = Members(g) /\ s.index = index[i]
        /\ s.receipts = Members(g) /\ s.open = {}
        /\ s.ledger = [c \in ClaimsAt(Members(g)) |-> ledger[c]]
        /\ s.content = [c \in ClaimsAt(Members(g)) |-> content[c]]
    BY SettledSnapshot
  <1> HIDE DEF s
  <1>2. /\ Membership(g) \subseteq ClaimsAt(Members(g))
        /\ \A c \in Claims : (ledger[c] # None /\ ledger[c].owner = Bundle[i]) <=> c \in Membership(g)
        /\ \A c \in Membership(g) :
              /\ c \in Claims /\ ledger[c] # None
              /\ ledger[c].owner = Bundle[i] /\ ledger[c].gen = g
              /\ content[c] = Body[g][c] /\ Body[g][c] # Nothing
        /\ Members(g) = {Site[c] : c \in Membership(g)}
    BY SettledFacts, MembersType
  <1>3. Desired(j, s) = {}
    BY DEF Desired, Membership
  <1>4. Own(j, s) = Membership(g)
    BY <1>1, <1>2 DEF Own, ClaimsAt
  <1>5. /\ Conflicting(j, s) = {} /\ Modified(j, s) = {}
        /\ Unacquirable(j, s) = {} /\ MissingReceipts(s) = {}
    BY <1>1, <1>2, <1>3, <1>4 DEF Conflicting, Modified, Unacquirable, MissingReceipts
  <1>6. \A c \in ClaimsAt(Members(g)) :
           Planned(j, s, c) = IF c \in Membership(g) THEN None ELSE s.ledger[c]
    BY <1>3, <1>4 DEF Planned
  <1>7. ASSUME NEW r \in Members(g)
        PROVE  /\ ~UnchangedPlan(j, s, r)
               /\ \E c \in ClaimsAt({r}) : s.content[c] # Nothing
    <2>1. PICK c \in Membership(g) : Site[c] = r
      BY <1>2
    <2>2. c \in ClaimsAt({r}) /\ c \in ClaimsAt(Members(g))
      BY <1>2, <2>1 DEF ClaimsAt
    <2>3. Planned(j, s, c) = None
      BY <1>6, <2>1, <2>2
    <2>4. s.ledger[c] # None
      BY <1>1, <1>2, <2>1, <2>2
    <2>5. s.content[c] # Nothing
      BY <1>1, <1>2, <2>1, <2>2
    <2> QED
      BY <2>2, <2>3, <2>4, <2>5 DEF UnchangedPlan
  <1>8. \A e \in Recorded(s) :
           /\ e[1] \in ClaimsAt(Members(g)) /\ e[2] \in ClaimsAt(Members(g))
           /\ s.ledger[e[1]] = ledger[e[1]] /\ s.ledger[e[2]] = ledger[e[2]]
           /\ ledger[e[1]] # None
           /\ <<e[1], e[2]>> \in Needs[ledger[e[1]].gen]
           /\ Site[e[1]] # Site[e[2]]
           /\ ledger[e[2]] # None /\ ledger[e[2]].owner = ledger[e[1]].owner
    <2> TAKE e \in Recorded(s)
    <2>1. /\ e[1] \in ClaimsAt(Members(g)) /\ e[2] \in ClaimsAt(Members(g))
          /\ s.ledger[e[1]] = ledger[e[1]] /\ s.ledger[e[2]] = ledger[e[2]]
          /\ ledger[e[1]] # None
          /\ e[2] \in Requirements(ledger[e[1]]) /\ Site[e[1]] # Site[e[2]]
      BY <1>1 DEF Recorded
    <2>2. e[1] \in Claims /\ ledger[e[1]].claim = e[1]
      BY <2>1 DEF ClaimsAt, Labelled
    <2> QED
      BY <2>1, <2>2 DEF Requirements, SameOwner
  \* both ends of a recorded reference stay, or both are retired
  <1>9. \A e \in Recorded(s) :
           /\ e[1] \in Membership(g) <=> e[2] \in Membership(g)
           /\ e[2] \in Membership(g) => <<Site[e[1]], Site[e[2]]>> \in NeedsPairs(g)
    <2> TAKE e \in Recorded(s)
    <2>1. e[1] \in Claims /\ e[2] \in Claims
      BY <1>8 DEF ClaimsAt
    <2>2. e[1] \in Membership(g) <=> e[2] \in Membership(g)
      BY <1>2, <1>8, <2>1
    <2>3. ASSUME e[2] \in Membership(g)
          PROVE  <<Site[e[1]], Site[e[2]]>> \in NeedsPairs(g)
      <3>1. <<e[1], e[2]>> \in Needs[g] /\ Site[e[1]] # Site[e[2]]
        BY <1>2, <1>8, <2>2, <2>3
      <3> DEFINE n == <<e[1], e[2]>>
      <3>2. n \in Needs[g] /\ n[1] = e[1] /\ n[2] = e[2]
        BY <3>1
      <3> QED
        BY <3>1, <3>2 DEF NeedsPairs
    <2> QED
      BY <2>2, <2>3
  <1>10. \A r, q : <<r, q>> \in Edges(j, s) => <<q, r>> \in NeedsPairs(g)
    <2>1. \A n \in Recorded(s) : Retired(j, s, n[2]) => n[2] \in Membership(g)
      BY <1>6, <1>8 DEF Retired
    <2>2. Edges(j, s) = {<<Site[e[2]], Site[e[1]]>> : e \in {n \in Recorded(s) : Retired(j, s, n[2])}}
      BY DEF Edges
    <2> QED
      BY <1>9, <2>1, <2>2
  <1>11. \A rs \in (SUBSET s.refs) \ {{}} : \E r \in rs : \A q \in rs : <<r, q>> \notin Edges(j, s)
    <2>1. \A rs \in (SUBSET Members(g)) \ {{}} : \E r \in rs : \A q \in rs : <<r, q>> \notin NeedsPairs(g)
      BY RenderingAssumption DEF Orderable
    <2>2. \A rs \in (SUBSET Members(g)) \ {{}} : \E r \in rs : \A q \in rs : <<q, r>> \notin NeedsPairs(g)
      BY <2>1, NoCircleBackwards, ResourcesFinite
    <2> QED
      BY <1>1, <1>10, <2>2
  <1>12. ~OrderError(j, s)
    <2>1. ~\E e \in Recorded(s) :
              /\ s.ledger[e[2]] # None /\ Planned(j, s, e[2]) # None
              /\ Body[s.ledger[e[2]].gen][e[2]] # Body[Planned(j, s, e[2]).gen][e[2]]
              /\ e \notin Stable[s.ledger[e[1]].gen]
      BY <1>6, <1>8
    <2>2. ~\E e \in Recorded(s) :
              /\ Retired(j, s, e[2]) /\ Planned(j, s, e[1]) # None
              /\ e[2] \in Requirements(Planned(j, s, e[1]))
      BY <1>6, <1>8, <1>9 DEF Retired
    <2> QED
      BY <1>11, <2>1, <2>2 DEF OrderError
  <1> QED
    BY <1>5, <1>7, <1>12 DEF s

LEMMA PreviewedFields ==
    ASSUME NEW i, NEW g
    PROVE  LET j == Previewed(i, g, "conflict", FALSE)
           IN  j.inst = i /\ j.gen = g /\ ~j.replace
  BY DEF Previewed

\* A plan without conflicts, edits and missing receipts is not refused.
LEMMA NotRefused ==
    ASSUME NEW j, NEW s, s.open = {}, ~OrderError(j, s),
           Conflicting(j, s) = {}, Modified(j, s) = {},
           Unacquirable(j, s) = {}, MissingReceipts(s) = {}
    PROVE  /\ Applicable(j, s) /\ Summary(j, s).applicable /\ ~Unordered(j, s)
           /\ DOMAIN Summary(j, s).changes = s.refs
           /\ \A r \in s.refs :
                 /\ Refusal(j, s, r) = "none"
                 /\ Summary(j, s).changes[r] = Action(j, s, r)
                 /\ UnchangedPlan(j, s, r) => Action(j, s, r) = "unchanged"
                 /\ (~UnchangedPlan(j, s, r) /\ \E c \in ClaimsAt({r}) : s.content[c] # Nothing) =>
                       Action(j, s, r) \in {"update", "delete"}
  <1>1. \A r : Refusal(j, s, r) = "none"
    BY DEF Refusal
  <1>2. Applicable(j, s) /\ ~Unordered(j, s)
    BY <1>1 DEF Applicable, Unordered
  <1>3. /\ Summary(j, s).applicable
        /\ Summary(j, s).changes = [r \in s.refs |-> Action(j, s, r)]
    BY <1>2 DEF Summary
  <1>4. \A r : /\ UnchangedPlan(j, s, r) => Action(j, s, r) = "unchanged"
               /\ (~UnchangedPlan(j, s, r) /\ \E c \in ClaimsAt({r}) : s.content[c] # Nothing) =>
                     Action(j, s, r) \in {"update", "delete"}
    BY <1>1 DEF Action
  <1> QED
    BY <1>1, <1>2, <1>3, <1>4

\* The summaries of the two previews.
LEMMA KeptSummary ==
    ASSUME TypeOK, Discoverable, Labelled, NEW i \in Installs,
           NEW g \in Generations, Settled(i, g), Orderable(g),
           NEW j, j.inst = i, j.gen = g, ~j.replace
    PROVE  /\ Summary(j, Now(i, g)).applicable
           /\ ~Unordered(j, Now(i, g))
           /\ DOMAIN Summary(j, Now(i, g)).changes = Members(g)
           /\ \A r \in Members(g) :
                 /\ Refusal(j, Now(i, g), r) = "none"
                 /\ Summary(j, Now(i, g)).changes[r] = "unchanged"
  <1> DEFINE s == Now(i, g)
  <1>1. s.refs = Members(g) /\ s.open = {}
    BY SettledSnapshot
  <1>2. /\ Conflicting(j, s) = {} /\ Modified(j, s) = {}
        /\ Unacquirable(j, s) = {} /\ MissingReceipts(s) = {}
        /\ ~OrderError(j, s)
        /\ \A r \in Members(g) : UnchangedPlan(j, s, r)
    BY KeptPlan
  <1> HIDE DEF s
  <1>3. /\ Summary(j, s).applicable /\ ~Unordered(j, s)
        /\ DOMAIN Summary(j, s).changes = Members(g)
        /\ \A r \in Members(g) :
              Refusal(j, s, r) = "none" /\ Summary(j, s).changes[r] = "unchanged"
    <2>1. /\ Applicable(j, s) /\ Summary(j, s).applicable /\ ~Unordered(j, s)
          /\ DOMAIN Summary(j, s).changes = s.refs
          /\ \A r \in s.refs :
                /\ Refusal(j, s, r) = "none"
                /\ Summary(j, s).changes[r] = Action(j, s, r)
                /\ UnchangedPlan(j, s, r) => Action(j, s, r) = "unchanged"
                /\ (~UnchangedPlan(j, s, r) /\ \E c \in ClaimsAt({r}) : s.content[c] # Nothing) =>
                      Action(j, s, r) \in {"update", "delete"}
      BY <1>1, <1>2, NotRefused, Zenon
    <2> QED
      BY <1>1, <1>2, <2>1
  <1> QED
    BY <1>3 DEF s

LEMMA RemovalSummary ==
    ASSUME TypeOK, Discoverable, Labelled, SameOwner, NEW i \in Installs,
           NEW g \in Generations, Settled(i, g), Orderable(g),
           NEW j, j.inst = i, j.gen = None, ~j.replace
    PROVE  /\ Summary(j, Now(i, None)).applicable
           /\ \A r \in Members(g) :
                 Summary(j, Now(i, None)).changes[r] \in {"update", "delete"}
  <1> DEFINE s == Now(i, None)
  <1>1. s.refs = Members(g) /\ s.open = {}
    BY SettledSnapshot
  <1>2. /\ Conflicting(j, s) = {} /\ Modified(j, s) = {}
        /\ Unacquirable(j, s) = {} /\ MissingReceipts(s) = {}
        /\ ~OrderError(j, s)
        /\ \A r \in Members(g) :
              /\ ~UnchangedPlan(j, s, r)
              /\ \E c \in ClaimsAt({r}) : s.content[c] # Nothing
    BY RemovalPlan
  <1> HIDE DEF s
  <1>3. /\ Summary(j, s).applicable
        /\ \A r \in Members(g) : Summary(j, s).changes[r] \in {"update", "delete"}
    BY <1>1, <1>2, NotRefused
  <1> QED
    BY <1>3 DEF s

\* The inventory of what is settled records its generation.
LEMMA SettledInstalled ==
    ASSUME TypeOK, Discoverable, NEW i \in Installs, NEW g \in Generations,
           Settled(i, g), Membership(g) # {}
    PROVE  Installed(i) = g
  <1> DEFINE own == {c \in ClaimsAt(IndexResources(index[i])) : ledger[c] # None /\ ledger[c].owner = Bundle[i]}
  <1>1. own = Membership(g)
    BY SettledFacts DEF ClaimsAt
  <1>2. \A c \in Membership(g) : c \in Claims /\ Site[c] \in Nat /\ ledger[c].gen = g
    <2>1. Resources \subseteq Nat /\ \A c \in Claims : Site[c] \in Resources
      BY RenderingAssumption
    <2>2. \A c \in Membership(g) : c \in Claims /\ ledger[c].gen = g
      BY SettledFacts
    <2> QED
      BY <2>1, <2>2
  <1>3. \E c \in own : \A d \in own : Site[c] <= Site[d]
    <2> DEFINE sites == {Site[c] : c \in own}
    <2>1. sites \in SUBSET Nat /\ sites # {}
      BY <1>1, <1>2
    <2>2. PICK x \in sites : \A y \in sites : x <= y
      BY <2>1, NatMin
    <2> QED
      BY <2>2
  <1> HIDE DEF own
  <1>4. Installed(i) = ledger[CHOOSE c \in own : \A d \in own : Site[c] <= Site[d]].gen
    BY <1>1 DEF Installed, own
  <1>5. (CHOOSE c \in own : \A d \in own : Site[c] <= Site[d]) \in own
    BY <1>3
  <1> QED
    BY <1>1, <1>2, <1>4, <1>5

\* The generations that indexes name as current could be put in order.
CurrentOrderable ==
    \A i \in Installs : index[i] # None => Orderable(index[i].current)

LEMMA CurrentKept ==
    ASSUME TypeOK, Discoverable, CompletedIsExact, Labelled, SameOwner,
           CurrentOrderable
    PROVE  CurrentIsKept
  <1> SUFFICES
        ASSUME NEW i \in Installs, Inspect(i, {}).current
        PROVE  LET g == Inspect(i, {}).generation
                   kept == Summary(Previewed(i, g, "conflict", FALSE), Now(i, g))
                   removed == Summary(Previewed(i, None, "conflict", FALSE), Now(i, None))
               IN  /\ Membership(g) # {} => IsCurrent(i, g, {})
                   /\ kept.applicable /\ \A r \in DOMAIN kept.changes : kept.changes[r] = "unchanged"
                   /\ \A h \in {x \in Generations : Rendering[x] = i} :
                          LET j == SkillCall("install", i, h, FALSE)
                          IN  j # None => j.gen = g /\ \A r \in Members(g) : UnchangedPlan(j, Now(i, g), r)
                   /\ removed.applicable /\ \A r \in Members(g) : removed.changes[r] \in {"update", "delete"}
    BY DEF CurrentIsKept
  <1> DEFINE g == index[i].current
             keep == Previewed(i, g, "conflict", FALSE)
             drop == Previewed(i, None, "conflict", FALSE)
  <1>1. index[i] # None /\ g \in Generations /\ Settled(i, g)
    BY CurrentSettles
  <1>2. Orderable(g)
    BY <1>1 DEF CurrentOrderable
  <1>3. /\ Inspect(i, {}).generation = g /\ ~Inspect(i, {}).pending
        /\ DOMAIN Inspect(i, {}).resources = Members(g)
        /\ \A r \in Members(g) :
              /\ ~Inspect(i, {}).resources[r].error
              /\ ~Inspect(i, {}).resources[r].recovery
              /\ Inspect(i, {}).resources[r].claims = StoredClaims(r)
    BY <1>1, SettledIsSeen
  <1>0. /\ keep.inst = i /\ keep.gen = g /\ ~keep.replace
        /\ drop.inst = i /\ drop.gen = None /\ ~drop.replace
    BY DEF Previewed
  <1> HIDE DEF g, keep, drop
  <1>5. /\ Summary(keep, Now(i, g)).applicable
        /\ ~Unordered(keep, Now(i, g))
        /\ DOMAIN Summary(keep, Now(i, g)).changes = Members(g)
        /\ \A r \in Members(g) :
              /\ Refusal(keep, Now(i, g), r) = "none"
              /\ Summary(keep, Now(i, g)).changes[r] = "unchanged"
    BY <1>0, <1>1, <1>2, KeptSummary
  <1>6. /\ Summary(drop, Now(i, None)).applicable
        /\ \A r \in Members(g) :
              Summary(drop, Now(i, None)).changes[r] \in {"update", "delete"}
    BY <1>0, <1>1, <1>2, RemovalSummary
  <1>7. ASSUME NEW h \in Generations, SkillCall("install", i, h, FALSE) # None
        PROVE  LET j == SkillCall("install", i, h, FALSE)
               IN  j.gen = g /\ \A r \in Members(g) : UnchangedPlan(j, Now(i, g), r)
    <2> DEFINE j == SkillCall("install", i, h, FALSE)
    <2>1. h = g /\ j.inst = i /\ j.gen = h /\ ~j.replace
      BY <1>1, <1>3, <1>7, RenderingAssumption DEF SkillCall
    <2> HIDE DEF j
    <2>2. j.gen = g /\ \A r \in Members(g) : UnchangedPlan(j, Now(i, g), r)
      BY <1>1, <1>2, <2>1, KeptPlan
    <2> QED
      BY <2>2 DEF j
  <1>8. ASSUME Membership(g) # {} PROVE IsCurrent(i, g, {})
    <2> DEFINE skill == SkillObservation(i, g, {})
               target == TargetInspection(i, g, {})
    <2>1. Installed(i) = g /\ g # None
      BY <1>1, <1>8, SettledInstalled, RenderingAssumption
    <2>2. Matches(i, g, {})
      BY <1>3 DEF Matches
    <2>3. /\ skill.state = "installed" /\ ~skill.error
          /\ skill.revision /\ skill.content
          /\ \A c \in skill.edited :
                c \in UNION {StoredClaims(r) : r \in Members(g)} /\ Status(c) # "current"
      BY <1>3, <2>1, <2>2 DEF SkillObservation
    <2>4. \A c \in skill.edited : ledger[c].owner # Bundle[i]
      <3>1. \A c \in Membership(g) : Status(c) = "current"
        BY <1>1, SettledFacts DEF Status
      <3>2. \A c \in skill.edited : c \in Claims /\ ledger[c] # None /\ c \notin Membership(g)
        BY <2>3, <3>1 DEF StoredClaims, ClaimsAt
      <3> QED
        BY <1>1, <3>2, SettledFacts
    <2>5. /\ target.state = "installed" /\ ~target.error
          /\ target.revision /\ target.content
          /\ target.conflicts = {} /\ target.edited = skill.edited
      <3> HIDE DEF skill
      <3>1. DOMAIN Summary(keep, Now(i, g)).changes = Members(g)
        BY <1>5
      <3>2. /\ ~Unordered(keep, Now(i, g))
            /\ ~\E r \in Members(g) : Refusal(keep, Now(i, g), r) \notin {"none", "conflict"}
            /\ {r \in Members(g) : Refusal(keep, Now(i, g), r) = "conflict"} = {}
        BY <1>5
      <3> QED
        BY <2>3, <3>1, <3>2 DEF TargetInspection, skill, keep
    <2> QED
      BY <2>4, <2>5 DEF IsCurrent
  <1>9. /\ Membership(g) # {} => IsCurrent(i, g, {})
        /\ Summary(keep, Now(i, g)).applicable
        /\ \A r \in DOMAIN Summary(keep, Now(i, g)).changes :
              Summary(keep, Now(i, g)).changes[r] = "unchanged"
        /\ \A h \in {x \in Generations : Rendering[x] = i} :
              LET j == SkillCall("install", i, h, FALSE)
              IN  j # None => j.gen = g /\ \A r \in Members(g) : UnchangedPlan(j, Now(i, g), r)
        /\ Summary(drop, Now(i, None)).applicable
        /\ \A r \in Members(g) :
              Summary(drop, Now(i, None)).changes[r] \in {"update", "delete"}
    BY <1>5, <1>6, <1>7, <1>8
  <1>10. Inspect(i, {}).generation = g
    BY <1>3
  <1> QED
    BY <1>9, <1>10, Zenon DEF keep, drop
-----------------------------------------------------------------------------
(* What the steps keep.                                                    *)

\* A call completes what order_plans() has put in order.
LEMMA CompletedOrder ==
    ASSUME IInv, NEW p \in Procs, pc[p] = "complete"
    PROVE  Orderable(job[p].gen)
  <1> DEFINE j == job[p]
             s == snap[p]
  <1>1. Members(j.gen) \subseteq s.refs
    BY PlanDone
  <1>2. ~OrderError(j, s)
    BY DEF IInv, Process, Sound, Executing
  <1> HIDE DEF j, s
  <1>3. j.gen # None => NeedsPairs(j.gen) \subseteq Edges(j, s)
    BY DEF Edges, NeedsPairs
  <1>4. \A rs \in (SUBSET s.refs) \ {{}} :
           \E r \in rs : \A q \in rs : <<r, q>> \notin Edges(j, s)
    BY <1>2 DEF OrderError
  <1>5. Orderable(j.gen)
    BY <1>1, <1>3, <1>4 DEF Orderable
  <1> QED
    BY <1>5 DEF j

LEMMA OrderKeeps ==
    ASSUME IInv, CurrentOrderable, [Next]_vars
    PROVE  CurrentOrderable'
  <1>0. index \in [Installs -> Indexes \cup {None}]
    BY DEF IInv, TypeOK
  <1>1. ASSUME NEW i \in Installs, index'[i] # None
        PROVE  Orderable(index'[i].current)
    <2>1. CASE index'[i] = index[i]
      BY <1>1, <2>1 DEF CurrentOrderable
    <2>2. ASSUME NEW p \in Procs, Announces(p) PROVE Orderable(index'[i].current)
      <3>1. CASE job[p].inst = i
        <4>1. index'[i].current = IF index[i] = None THEN None ELSE index[i].current
          BY <1>0, <2>2, <3>1 DEF Announces, PendingIndex
        <4>2. CASE index[i] = None
          BY <4>1, <4>2 DEF Orderable
        <4>3. CASE index[i] # None
          BY <4>1, <4>3 DEF CurrentOrderable
        <4> QED
          BY <4>2, <4>3
      <3>2. CASE job[p].inst # i
        BY <1>0, <2>1, <2>2, <3>2 DEF Announces
      <3> QED
        BY <3>1, <3>2
    <2>3. ASSUME NEW p \in Procs, Completes(p) PROVE Orderable(index'[i].current)
      <3>1. CASE job[p].inst = i
        <4>1. pc[p] = "complete" /\ index'[i].current = job[p].gen
          BY <1>0, <2>3, <3>1 DEF Completes, CompletedIndex
        <4> QED
          BY <4>1, CompletedOrder
      <3>2. CASE job[p].inst # i
        BY <1>0, <2>1, <2>3, <3>2 DEF Completes
      <3> QED
        BY <3>1, <3>2
    <2> QED
      BY <2>1, <2>2, <2>3, StoreSteps DEF Closes, Opens, Publish
  <1> QED
    BY <1>1 DEF CurrentOrderable

\* What is recorded is what is there, until the user writes something.
Untouched ==
    edits = 0 => \A c \in Claims : ledger[c] # None => content[c] = Body[ledger[c].gen][c]

LEMMA EditsCounted ==
    ASSUME IInv, [Next]_vars
    PROVE  edits' = edits \/ edits' # 0
  <1>1. CASE UNCHANGED vars
    BY <1>1 DEF vars
  <1>2. CASE \E c \in Claims, b \in Contents : Edit(c, b)
    BY <1>2, ProcessAssumption DEF Edit, IInv, TypeOK
  <1>3. CASE \E p \in Procs : \/ \E j \in Jobs : Start(p, j)
                              \/ Step(p)
                              \/ GiveUp(p) \/ RecoveryFails(p) \/ AnnounceFails(p)
                              \/ Stop(p) \/ CompleteFails(p) \/ Crash(p)
    BY <1>3
    DEF Start, Step, LockIndex, LockResource, Locked, RecoverResource,
        Recovered, Check, Announce, Skip, Prepare, Publish, Cleanup, Complete,
        GiveUp, RecoveryFails, AnnounceFails, Stop, CompleteFails, Crash
  <1> QED
    BY <1>1, <1>2, <1>3 DEF Next

LEMMA UntouchedKeeps ==
    ASSUME IInv, Untouched, [Next]_vars
    PROVE  Untouched'
  <1> SUFFICES ASSUME edits' = 0, NEW c \in Claims, ledger'[c] # None
               PROVE  content'[c] = Body[ledger'[c].gen][c]
    BY DEF Untouched
  <1>1. edits = 0 /\ edits' = edits
    BY EditsCounted
  <1>2. CASE \A p \in Procs : ~Publish(p)
    <2>1. ledger' = ledger /\ content' = content
      BY <1>1, <1>2, OthersPublishNothing
    <2> QED
      BY <1>1, <2>1 DEF Untouched
  <1>3. ASSUME NEW p \in Procs, Publish(p)
        PROVE  content'[c] = Body[ledger'[c].gen][c]
    <2>1. CASE Site[c] # First(wave[p])
      <3>1. ledger'[c] = ledger[c] /\ content'[c] = content[c]
        BY <1>3, <2>1, Published
      <3> QED
        BY <1>1, <3>1 DEF Untouched
    <2>2. CASE Site[c] = First(wave[p])
      <3> DEFINE j == job[p]
                 s == snap[p]
      <3>1. /\ j \in Jobs /\ Observed(s) /\ c \in ClaimsAt(s.refs)
            /\ ledger[c] = s.ledger[c] /\ content[c] = s.content[c]
            /\ ledger'[c] = Planned(j, s, c) /\ content'[c] = After(j, s, c)
        BY <1>3, <2>2, Published
      <3> HIDE DEF j, s
      <3>2. CASE c \in Desired(j, s)
        BY <3>1, <3>2, PlannedCases
      <3>3. CASE c \in Own(j, s) \ Desired(j, s)
        BY <3>1, <3>3, PlannedCases
      <3>4. CASE c \notin Own(j, s) \cup Desired(j, s)
        <4>1. ledger'[c] = ledger[c] /\ content'[c] = content[c]
          BY <3>1, <3>4, PlannedCases
        <4> QED
          BY <1>1, <4>1 DEF Untouched
      <3> QED
        BY <3>2, <3>3, <3>4
    <2> QED
      BY <2>1, <2>2
  <1> QED
    BY <1>2, <1>3
-----------------------------------------------------------------------------
\* At every moment of every call, through failures, crashes and edits: an
\* inspection calls current exactly what is complete and as published, at
\* every resource; where it shows nothing, the bundle owns nothing; and what
\* is current is reported so by all the others and can be kept and removed.
THEOREM ReportsAlwaysTrue ==
    ASSUME OneContext
    PROVE  Spec => []ReportsAreTrue
  <1> DEFINE Whole == SameOwner /\ ReferencesHold /\ CurrentOrderable
  <1>1. Init => Whole
    BY DEF Init, SameOwner, ReferencesHold, CurrentOrderable
  <1>2. IInv /\ Discoverable /\ Whole /\ [Next]_vars => Whole'
    BY ReferencesKeep, OrderKeeps
  <1>3. IInv /\ Discoverable /\ CompletedIsExact /\ Whole => ReportsAreTrue
    BY CurrentTrue, AbsentGone, CurrentKept DEF IInv, ReportsAreTrue
  <1> HIDE DEF Whole
  <1>4. Spec => []Whole
    BY <1>1, <1>2, AlwaysDiscoverable, Invariant, PTL DEF Spec
  <1> QED
    BY <1>3, <1>4, CompletedStaysExact, AlwaysDiscoverable, Invariant, PTL

\* A call that has completed leaves nothing to do: until the user writes
\* something, the generation it has installed is reported as current, whatever
\* had failed and been left open before.
THEOREM CompletionIsReported ==
    ASSUME OneContext
    PROVE  Spec => CompletesCurrent
  <1>1. Init => Untouched
    BY DEF Init, Untouched
  <1>2. IInv /\ Untouched /\ [Next]_vars => Untouched'
    BY UntouchedKeeps
  <1>3. /\ IInv /\ Untouched' /\ CompletedIsExact' /\ CurrentIsTrue' /\ [Next]_vars
        => [\A p \in Procs, i \in Installs :
               Complete(p) /\ job[p].inst = i /\ job[p].gen # None /\ edits = 0 =>
                  Inspect(i, {})'.current]_vars
    <2> SUFFICES ASSUME IInv, Untouched', CompletedIsExact', CurrentIsTrue',
                        NEW p \in Procs, NEW i \in Installs, Complete(p),
                        job[p].inst = i, job[p].gen # None, edits = 0
                 PROVE  Inspect(i, {})'.current
      OBVIOUS
    <2> DEFINE g == job[p].gen
    <2>1. /\ pc[p] = "complete" /\ edits' = 0
          /\ index' = [index EXCEPT ![i] = CompletedIndex(g)]
          /\ open' = open /\ ledger' = ledger /\ content' = content
      BY DEF Complete
    <2>2. /\ g \in Generations /\ open \cap Members(g) = {}
      BY <2>1, PlanDone
    <2>3. index'[i] = CompletedIndex(g) /\ index'[i] # None /\ index'[i].current = g
      BY <2>1, <2>2, NoneAssumption DEF IInv, TypeOK, CompletedIndex, Indexes
    <2> HIDE DEF g
    <2>4. /\ {c \in Claims : ledger'[c] # None /\ ledger'[c].owner = Bundle[i]} = Membership(g)
          /\ \A c \in Membership(g) : ledger'[c].gen = g
      BY <2>3 DEF CompletedIsExact
    <2>5. \A c \in Membership(g) : content'[c] = Body[g][c]
      BY <2>1, <2>4 DEF Untouched
    <2>6. Settled(i, index[i].current)'
      BY <2>1, <2>2, <2>3, <2>4, <2>5 DEF Settled
    <2> QED
      BY <2>2, <2>3, <2>6, RenderingAssumption DEF CurrentIsTrue
  <1>4. Spec => []Untouched
    BY <1>1, <1>2, Invariant, PTL DEF Spec
  <1>5. Spec => [](CompletedIsExact /\ CurrentIsTrue)
    <2>1. ReportsAreTrue => CompletedIsExact /\ CurrentIsTrue
      BY DEF ReportsAreTrue
    <2> QED
      BY <2>1, ReportsAlwaysTrue, PTL
  <1> QED
    BY <1>3, <1>4, <1>5, Invariant, PTL DEF Spec, CompletesCurrent

=============================================================================

------------------------- MODULE ArchiveOutputProofs -------------------------
(***************************************************************************)
(* What is in the output directory, for any finished tree, any base of a   *)
(* v4 target and any sizes of the two pipes.  What tar, or the build for a *)
(* v4 target, has handed over is with xz, in the pipe or still to come, as *)
(* long as tar has nothing to say; so a file that replaces the archive of  *)
(* an earlier build has all the members, in their order.                   *)
(*                                                                         *)
(* For a v4 target these are the base, the directories it lacks and the    *)
(* overlay, the last two sorted: the sections before the invariant show    *)
(* that the sorting order is one, that sorting a finite set of names lists *)
(* each of them once, and what the archive then has and means.             *)
(***************************************************************************)
EXTENDS ArchiveOutput, Functions, FiniteSetTheorems, TLAPS

-----------------------------------------------------------------------------
(* Names in sorting order                                                  *)

\* A set of numbers has a least one.
LEMMA LeastNumber ==
    ASSUME NEW T \in SUBSET Nat, T # {} PROVE \E x \in T : \A y \in T : x <= y
<1> DEFINE R == OpToRel(<, Nat)
<1>1. \A x, y \in Nat : <<x, y>> \in R <=> x < y
  BY DEF OpToRel
<1>2. IsWellFoundedOn(R, Nat)
  BY NatLessThanWellFounded
<1> HIDE DEF R
<1>3. PICK x \in T : \A y \in T : ~(<<y, x>> \in R)
  BY <1>2, WFMin
<1>4. \A y \in T : ~(y < x)
  BY <1>1, <1>3
<1>5. \A y \in T : x <= y
  BY <1>4
<1> QED BY <1>5

LEMMA NamesAreLists ==
    \A p \in Name : /\ p \in Seq(Nat) /\ Len(p) \in Nat /\ DOMAIN p = 1..Len(p)
                    /\ \A i \in 1..Len(p) : p[i] \in Nat
BY ArchiveAssumption

\* A name is above another one when it is a proper prefix.
LEMMA AboveIsPrefix ==
    ASSUME NEW p \in Name, NEW q \in Name
    PROVE  p \in Above(q) <=> Len(p) < Len(q) /\ \A k \in 1..Len(p) : p[k] = q[k]
<1>1. /\ p \in Seq(Nat) /\ q \in Seq(Nat)
      /\ Len(p) \in Nat /\ Len(q) \in Nat /\ DOMAIN p = 1..Len(p)
  BY NamesAreLists
<1>2. p \in Above(q) <=> Len(p) < Len(q) /\ SubSeq(q, 1, Len(p)) = p
  BY DEF Above
<1>3. ASSUME Len(p) < Len(q)
      PROVE  /\ SubSeq(q, 1, Len(p)) \in Seq(Nat) /\ Len(SubSeq(q, 1, Len(p))) = Len(p)
             /\ \A k \in 1..Len(p) : SubSeq(q, 1, Len(p))[k] = q[k]
  BY <1>1, <1>3
<1>4. ASSUME Len(p) < Len(q), \A k \in 1..Len(p) : p[k] = q[k] PROVE SubSeq(q, 1, Len(p)) = p
  BY <1>1, <1>3, <1>4
<1> QED BY <1>1, <1>2, <1>3, <1>4

\* Where two names first differ.
Differ(p, q, i) ==
    /\ i \in Nat \ {0} /\ i <= Len(p) /\ i <= Len(q)
    /\ p[i] < q[i] /\ \A k \in 1..(i - 1) : p[k] = q[k]

LEMMA PrecedesIs ==
    ASSUME NEW p \in Name, NEW q \in Name
    PROVE  Precedes(p, q) <=> p \in Above(q) \/ \E i : Differ(p, q, i)
<1>1. /\ DOMAIN p = 1..Len(p) /\ DOMAIN q = 1..Len(q) /\ Len(p) \in Nat /\ Len(q) \in Nat
  BY NamesAreLists
<1>2. \A i : i \in DOMAIN p \cap DOMAIN q <=> i \in Nat \ {0} /\ i <= Len(p) /\ i <= Len(q)
  BY <1>1
<1> QED BY <1>2 DEF Precedes, Differ

LEMMA PrecedesTotal ==
    ASSUME NEW p \in Name, NEW q \in Name, p # q PROVE Precedes(p, q) \/ Precedes(q, p)
<1>1. /\ p \in Seq(Nat) /\ q \in Seq(Nat) /\ Len(p) \in Nat /\ Len(q) \in Nat
  BY NamesAreLists
<1> DEFINE D == {i \in Nat \ {0} : i <= Len(p) /\ i <= Len(q) /\ p[i] # q[i]}
<1>2. CASE D = {}
  <2>1. \A i \in Nat \ {0} : i <= Len(p) /\ i <= Len(q) => p[i] = q[i]
    BY <1>2
  <2>2. Len(p) # Len(q)
    BY <1>1, <2>1
  <2>3. CASE Len(p) < Len(q)
    <3>1. \A k \in 1..Len(p) : p[k] = q[k]
      BY <1>1, <2>1, <2>3
    <3> QED BY <2>3, <3>1, AboveIsPrefix DEF Precedes
  <2>4. CASE Len(q) < Len(p)
    <3>1. \A k \in 1..Len(q) : q[k] = p[k]
      BY <1>1, <2>1, <2>4
    <3> QED BY <2>4, <3>1, AboveIsPrefix DEF Precedes
  <2> QED BY <1>1, <2>2, <2>3, <2>4
<1>3. CASE D # {}
  <2>1. PICK i \in D : \A j \in D : i <= j
    BY <1>3, LeastNumber
  <2>2. i \in Nat \ {0} /\ i <= Len(p) /\ i <= Len(q) /\ p[i] # q[i]
    OBVIOUS
  <2>3. \A k \in 1..(i - 1) : p[k] = q[k]
    <3> SUFFICES ASSUME NEW k \in 1..(i - 1), p[k] # q[k] PROVE FALSE
      OBVIOUS
    <3>1. k \in D
      BY <1>1, <2>2
    <3> QED BY <2>1, <2>2, <3>1
  <2>4. p[i] < q[i] \/ q[i] < p[i]
    BY <1>1, <2>2
  <2>5. Differ(p, q, i) \/ Differ(q, p, i)
    BY <2>2, <2>3, <2>4 DEF Differ
  <2> QED BY <2>5, PrecedesIs
<1> QED BY <1>2, <1>3

LEMMA PrecedesIrreflexive == \A p \in Name : ~Precedes(p, p)
<1> SUFFICES ASSUME NEW p \in Name, Precedes(p, p) PROVE FALSE
  OBVIOUS
<1>1. \A i \in 1..Len(p) : p[i] \in Nat
  BY NamesAreLists
<1> QED BY <1>1, NamesAreLists, PrecedesIs, AboveIsPrefix DEF Differ

LEMMA PrecedesTransitive ==
    ASSUME NEW p \in Name, NEW q \in Name, NEW r \in Name, Precedes(p, q), Precedes(q, r)
    PROVE  Precedes(p, r)
<1>1. /\ Len(p) \in Nat /\ Len(q) \in Nat /\ Len(r) \in Nat
      /\ \A i \in Nat \ {0} : /\ i <= Len(p) => p[i] \in Nat
                              /\ i <= Len(q) => q[i] \in Nat
                              /\ i <= Len(r) => r[i] \in Nat
  BY NamesAreLists
<1>2. CASE p \in Above(q) /\ q \in Above(r)
  <2>1. Len(p) < Len(q) /\ Len(q) < Len(r)
        /\ (\A k \in 1..Len(p) : p[k] = q[k]) /\ (\A k \in 1..Len(q) : q[k] = r[k])
    BY <1>2, AboveIsPrefix
  <2>2. Len(p) < Len(r) /\ \A k \in 1..Len(p) : p[k] = r[k]
    BY <1>1, <2>1
  <2> QED BY <2>2, AboveIsPrefix DEF Precedes
<1>3. ASSUME p \in Above(q), NEW i, Differ(q, r, i) PROVE Precedes(p, r)
  <2>1. Len(p) < Len(q) /\ \A k \in 1..Len(p) : p[k] = q[k]
    BY <1>3, AboveIsPrefix
  <2>2. CASE i <= Len(p)
    <3>1. Differ(p, r, i)
      BY <1>1, <1>3, <2>1, <2>2 DEF Differ
    <3> QED BY <3>1, PrecedesIs
  <2>3. CASE Len(p) < i
    <3>1. Len(p) < Len(r) /\ \A k \in 1..Len(p) : p[k] = r[k]
      BY <1>1, <1>3, <2>1, <2>3 DEF Differ
    <3> QED BY <3>1, AboveIsPrefix DEF Precedes
  <2> QED BY <1>1, <1>3, <2>2, <2>3 DEF Differ
<1>4. ASSUME q \in Above(r), NEW i, Differ(p, q, i) PROVE Precedes(p, r)
  <2>1. Len(q) < Len(r) /\ \A k \in 1..Len(q) : q[k] = r[k]
    BY <1>4, AboveIsPrefix
  <2>2. Differ(p, r, i)
    BY <1>1, <1>4, <2>1 DEF Differ
  <2> QED BY <2>2, PrecedesIs
<1>5. ASSUME NEW i, Differ(p, q, i), NEW j, Differ(q, r, j) PROVE Precedes(p, r)
  <2>1. CASE i <= j
    <3>1. Differ(p, r, i)
      BY <1>1, <1>5, <2>1 DEF Differ
    <3> QED BY <3>1, PrecedesIs
  <2>2. CASE j < i
    <3>1. Differ(p, r, j)
      BY <1>1, <1>5, <2>2 DEF Differ
    <3> QED BY <3>1, PrecedesIs
  <2> QED BY <1>5, <2>1, <2>2 DEF Differ
<1> QED BY <1>2, <1>3, <1>4, <1>5, PrecedesIs

\* A finite set of names can be sorted: a name comes after those that precede it.
LEMMA CanBeSorted ==
    ASSUME NEW names \in SUBSET Name, IsFiniteSet(names)
    PROVE  \E s \in [1..Cardinality(names) -> names] :
              \A i, j \in DOMAIN s : i < j => Precedes(s[i], s[j])
<1> DEFINE before(n) == {m \in names : Precedes(m, n)}
           rank == [n \in names |-> Cardinality(before(n)) + 1]
           size == Cardinality(names)
<1>1. size \in Nat
  BY FS_CardinalityType
<1>2. ASSUME NEW n \in names
      PROVE  IsFiniteSet(before(n)) /\ Cardinality(before(n)) \in Nat /\ rank[n] \in 1..size
  <2>1. before(n) \in SUBSET names /\ n \notin before(n)
    BY PrecedesIrreflexive
  <2> HIDE DEF before
  <2>2. IsFiniteSet(before(n)) /\ Cardinality(before(n)) <= size
        /\ Cardinality(before(n)) # size /\ Cardinality(before(n)) \in Nat
    BY <2>1, FS_Subset, FS_CardinalityType
  <2> QED BY <1>1, <2>2
<1>3. ASSUME NEW m \in names, NEW n \in names, Precedes(m, n) PROVE rank[m] < rank[n]
  <2>1. before(m) \in SUBSET before(n) /\ m \in before(n) /\ m \notin before(m)
    BY <1>3, PrecedesIrreflexive, PrecedesTransitive
  <2> HIDE DEF before
  <2>2. Cardinality(before(m)) <= Cardinality(before(n))
        /\ Cardinality(before(m)) # Cardinality(before(n))
    BY <1>2, <2>1, FS_Subset
  <2>3. /\ Cardinality(before(m)) \in Nat /\ Cardinality(before(n)) \in Nat
        /\ rank[m] = Cardinality(before(m)) + 1 /\ rank[n] = Cardinality(before(n)) + 1
    BY <1>2
  <2> QED BY <2>2, <2>3
<1>4. rank \in [names -> 1..size]
  BY <1>2
<1> HIDE DEF rank, before
<1>5. ASSUME NEW m \in names, NEW n \in names, rank[m] = rank[n] PROVE m = n
  <2>1. rank[m] \in Nat /\ rank[n] \in Nat
    BY <1>4
  <2> QED BY <1>3, <1>5, <2>1, PrecedesTotal
<1>6. rank \in Surjection(names, 1..size)
  <2>1. rank \in Injection(names, 1..size)
    BY <1>4, <1>5 DEF Injection, IsInjective
  <2>2. IsFiniteSet(1..size) /\ Cardinality(1..size) = size
    BY <1>1, FS_Interval
  <2> QED BY <2>1, <2>2, FS_Injection
<1> DEFINE s == [i \in 1..size |-> CHOOSE n \in names : rank[n] = i]
<1>7. ASSUME NEW i \in 1..size PROVE s[i] \in names /\ rank[s[i]] = i
  BY <1>6 DEF Surjection
<1>8. s \in [1..size -> names] /\ DOMAIN s = 1..size
  BY <1>7
<1> HIDE DEF s
<1>9. ASSUME NEW i \in 1..size, NEW j \in 1..size, i < j PROVE Precedes(s[i], s[j])
  <2>1. s[i] # s[j] /\ ~(rank[s[j]] < rank[s[i]])
    BY <1>1, <1>7, <1>9
  <2> QED BY <1>3, <1>7, <2>1, PrecedesTotal
<1> QED BY <1>8, <1>9

\* sorted(): every name once.
LEMMA SortedOnce ==
    ASSUME NEW names \in SUBSET Name, IsFiniteSet(names)
    PROVE  /\ Sorted(names) \in Seq(names)
           /\ \A n \in names : \E i \in DOMAIN Sorted(names) : Sorted(names)[i] = n
           /\ \A i, j \in DOMAIN Sorted(names) : Sorted(names)[i] = Sorted(names)[j] => i = j
<1> DEFINE s == Sorted(names)
           size == Cardinality(names)
<1>1. /\ s \in [1..size -> names]
      /\ \A i, j \in DOMAIN s : i < j => Precedes(s[i], s[j])
  BY CanBeSorted DEF Sorted
<1>2. size \in Nat
  BY FS_CardinalityType
<1> HIDE DEF s
<1>3. \A i, j \in 1..size : s[i] = s[j] => i = j
  <2> SUFFICES ASSUME NEW i \in 1..size, NEW j \in 1..size, s[i] = s[j], i < j PROVE FALSE
    BY <1>2
  <2> QED BY <1>1, PrecedesIrreflexive
<1>4. s \in Surjection(1..size, names)
  <2>1. s \in Injection(1..size, names)
    BY <1>1, <1>3 DEF Injection, IsInjective
  <2>2. Cardinality(1..size) = size
    BY <1>2, FS_Interval
  <2> QED BY <2>1, <2>2, FS_Injection
<1>5. \A n \in names : \E i \in 1..size : s[i] = n
  BY <1>4 DEF Surjection
<1>6. DOMAIN s = 1..size /\ s \in Seq(names)
  BY <1>1, <1>2
<1> QED BY <1>3, <1>5, <1>6 DEF s

-----------------------------------------------------------------------------
(* The overlay of a v4 target                                              *)

\* Directories that the overlay needs and the base does not have.
Missing(base) == (UNION {Above(n) : n \in OverlayPaths}) \ Names(base)

LEMMA AboveIsFinite == ASSUME NEW n \in Name PROVE Above(n) \in SUBSET Name /\ IsFiniteSet(Above(n))
<1> DEFINE length == [p \in Above(n) |-> Len(p)]
<1>1. \A p \in Above(n) : p \in Name /\ Len(p) \in 0..Len(n)
  BY NamesAreLists DEF Above
<1>2. ASSUME NEW p \in Above(n), NEW q \in Above(n), Len(p) = Len(q) PROVE p = q
  BY <1>2 DEF Above
<1>3. length \in Injection(Above(n), 0..Len(n))
  BY <1>1, <1>2 DEF Injection, IsInjective
<1>4. IsFiniteSet(0..Len(n))
  BY NamesAreLists, FS_Interval
<1>5. IsFiniteSet(Above(n))
  BY <1>3, <1>4, FS_Injection
<1> QED BY <1>1, <1>5

LEMMA MissingIsFinite ==
    ASSUME NEW base PROVE Missing(base) \in SUBSET Name /\ IsFiniteSet(Missing(base))
<1> DEFINE above == [n \in OverlayPaths |-> Above(n)]
           All == {Above(n) : n \in OverlayPaths}
<1>1. \A T \in All : T \in SUBSET Name /\ IsFiniteSet(T)
  BY ArchiveAssumption, AboveIsFinite
<1>2. above \in Surjection(OverlayPaths, All)
  BY DEF Surjection
<1>3. IsFiniteSet(All)
  BY <1>2, OverlayAssumption, FS_Surjection
<1> HIDE DEF All
<1>4. IsFiniteSet(UNION All)
  BY <1>1, <1>3, FS_UNION
<1>5. Missing(base) \in SUBSET UNION All
  BY DEF Missing, All
<1> QED BY <1>1, <1>4, <1>5, FS_Subset

LEMMA EntryIsMember ==
    ASSUME NEW n \in Name, NEW kind \in Kind, NEW bytes \in {None, Shipped}
    PROVE  Entry(n, kind, bytes) \in Member
BY DEF Entry, Member

LEMMA NormalizedIs ==
    ASSUME NEW m \in Member
    PROVE  /\ Normalized(m).name = m.name /\ Normalized(m).kind = m.kind
           /\ Normalized(m).to = m.to /\ Normalized(m).bytes = m.bytes
           /\ Normalized(m).inside = m.inside /\ Normalized(m).canonical = TRUE
           /\ Normalized(m) \in Member
BY DEF Normalized, Member

LEMMA NamesAreRange ==
    ASSUME NEW a PROVE Names(a) = {m.name : m \in Range(a)}
BY DEF Names, Range

\* Entries of sorted names.
LEMMA EntriesOf ==
    ASSUME NEW names \in SUBSET Name, IsFiniteSet(names),
           NEW kind \in Kind, NEW bytes \in {None, Shipped}
    PROVE  LET a == [i \in DOMAIN Sorted(names) |-> Entry(Sorted(names)[i], kind, bytes)]
           IN  /\ a \in Seq(Member) /\ Unique(a) /\ Names(a) = names
               /\ Range(a) = {Entry(n, kind, bytes) : n \in names}
<1> DEFINE s == Sorted(names)
           a == [i \in DOMAIN s |-> Entry(s[i], kind, bytes)]
<1>1. /\ s \in Seq(names)
      /\ \A n \in names : \E i \in DOMAIN s : s[i] = n
      /\ \A i, j \in DOMAIN s : s[i] = s[j] => i = j
  BY SortedOnce
<1> HIDE DEF s
<1>2. \A i \in DOMAIN s : s[i] \in names
  BY <1>1
<1>3. a \in Seq(Member)
  <2>1. \A i \in DOMAIN s : Entry(s[i], kind, bytes) \in Member
    BY <1>2, EntryIsMember
  <2>2. DOMAIN s = 1..Len(s) /\ Len(s) \in Nat
    BY <1>1
  <2> QED BY <2>1, <2>2
<1>4. Unique(a)
  <2>1. DOMAIN a = DOMAIN s /\ \A i \in DOMAIN s : a[i].name = s[i]
    BY DEF Entry
  <2> QED BY <1>1, <2>1 DEF Unique
<1>5. Range(a) = {Entry(n, kind, bytes) : n \in names}
  BY <1>1, <1>2 DEF Range
<1>6. Names(a) = names
  <2>1. DOMAIN a = DOMAIN s /\ \A i \in DOMAIN s : a[i].name = s[i]
    BY DEF Entry
  <2>2. Names(a) = {s[i] : i \in DOMAIN s}
    BY <2>1 DEF Names
  <2>3. names = {s[i] : i \in DOMAIN s}
    BY <1>1, <1>2
  <2> QED BY <2>2, <2>3
<1> QED BY <1>3, <1>4, <1>5, <1>6 DEF s

LEMMA JoinedUnique ==
    ASSUME NEW a \in Seq(Member), NEW b \in Seq(Member)
    PROVE  /\ a \o b \in Seq(Member) /\ Range(a \o b) = Range(a) \cup Range(b)
           /\ Names(a \o b) = Names(a) \cup Names(b)
           /\ Unique(a) /\ Unique(b) /\ Names(a) \cap Names(b) = {} => Unique(a \o b)
<1> DEFINE c == a \o b
<1>1. /\ c \in Seq(Member) /\ DOMAIN c = 1..(Len(a) + Len(b))
      /\ Len(a) \in Nat /\ Len(b) \in Nat /\ DOMAIN a = 1..Len(a) /\ DOMAIN b = 1..Len(b)
      /\ \A i \in DOMAIN a : c[i] = a[i]
      /\ \A i \in DOMAIN b : c[Len(a) + i] = b[i]
  OBVIOUS
<1> HIDE DEF c
<1>2. \A i \in DOMAIN a : i \in DOMAIN c
  BY <1>1
<1>3. \A i \in DOMAIN b : Len(a) + i \in DOMAIN c
  BY <1>1
<1>4. \A i \in DOMAIN c : \/ i \in DOMAIN a
                          \/ i - Len(a) \in DOMAIN b /\ c[i] = b[i - Len(a)]
  <2> SUFFICES ASSUME NEW i \in DOMAIN c, i \notin DOMAIN a
               PROVE  i - Len(a) \in DOMAIN b /\ c[i] = b[i - Len(a)]
    OBVIOUS
  <2>1. i - Len(a) \in DOMAIN b /\ Len(a) + (i - Len(a)) = i
    BY <1>1
  <2> QED BY <1>1, <2>1
<1>5. Range(c) = Range(a) \cup Range(b)
  <2>1. ASSUME NEW m \in Range(c) PROVE m \in Range(a) \cup Range(b)
    BY <1>1, <1>4, <2>1 DEF Range
  <2>2. ASSUME NEW m \in Range(a) \cup Range(b) PROVE m \in Range(c)
    BY <1>1, <1>2, <1>3, <2>2 DEF Range
  <2> QED BY <2>1, <2>2
<1>6. Names(c) = Names(a) \cup Names(b)
  BY <1>5, NamesAreRange
<1>7. ASSUME Unique(a), Unique(b), Names(a) \cap Names(b) = {} PROVE Unique(c)
  <2> SUFFICES ASSUME NEW i \in DOMAIN c, NEW j \in DOMAIN c, c[i].name = c[j].name PROVE i = j
    BY DEF Unique
  <2>1. CASE i \in DOMAIN a /\ j \in DOMAIN a
    BY <1>1, <1>7, <2>1 DEF Unique
  <2>2. CASE i \notin DOMAIN a /\ j \notin DOMAIN a
    <3>1. i - Len(a) = j - Len(a)
      BY <1>4, <1>7, <2>2 DEF Unique
    <3> QED BY <1>1, <3>1
  <2>3. \A k \in DOMAIN a : c[k].name \in Names(a)
    BY <1>1 DEF Names
  <2>4. \A k \in DOMAIN c \ DOMAIN a : c[k].name \in Names(b)
    BY <1>4 DEF Names
  <2> QED BY <1>7, <2>1, <2>2, <2>3, <2>4
<1> QED BY <1>1, <1>5, <1>6, <1>7 DEF c

\* What is in the archive of a v4 target, and that no name is in it twice.
LEMMA OverlaidHas ==
    ASSUME NEW base \in Seq(Member), ~OverlayRefuses(base)
    PROVE  /\ Overlaid(base) \in Seq(Member) /\ Unique(Overlaid(base))
           /\ Range(Overlaid(base)) =
                 {Normalized(m) : m \in Range(base)}
                 \cup {Entry(n, "dir", None) : n \in Missing(base)}
                 \cup {Entry(n, "file", Shipped) : n \in OverlayPaths}
           /\ Names(Overlaid(base)) = Names(base) \cup Missing(base) \cup OverlayPaths
<1> DEFINE a == [i \in DOMAIN base |-> Normalized(base[i])]
           dirs == Sorted(Missing(base))
           added == Sorted(OverlayPaths)
           b == [i \in DOMAIN dirs |-> Entry(dirs[i], "dir", None)]
           c == [i \in DOMAIN added |-> Entry(added[i], "file", Shipped)]
<1>1. \A i \in DOMAIN base : base[i] \in Member
  OBVIOUS
<1>2. Unique(base) /\ Names(base) \cap OverlayPaths = {}
  BY DEF OverlayRefuses
<1>3. a \in Seq(Member) /\ Unique(a)
  <2>1. \A i \in DOMAIN base :
            Normalized(base[i]) \in Member /\ Normalized(base[i]).name = base[i].name
    BY <1>1, NormalizedIs
  <2>2. DOMAIN base = 1..Len(base) /\ Len(base) \in Nat
    OBVIOUS
  <2> QED BY <1>2, <2>1, <2>2 DEF Unique
<1>4. Range(a) = {Normalized(m) : m \in Range(base)} /\ Names(a) = Names(base)
  <2>1. Range(a) = {Normalized(m) : m \in Range(base)}
    BY DEF Range
  <2>2. \A i \in DOMAIN base : Normalized(base[i]).name = base[i].name
    BY <1>1, NormalizedIs
  <2> QED BY <2>1, <2>2 DEF Names
<1>5. /\ b \in Seq(Member) /\ Unique(b) /\ Names(b) = Missing(base)
      /\ Range(b) = {Entry(n, "dir", None) : n \in Missing(base)}
  BY MissingIsFinite, EntriesOf DEF Kind
<1>6. /\ c \in Seq(Member) /\ Unique(c) /\ Names(c) = OverlayPaths
      /\ Range(c) = {Entry(n, "file", Shipped) : n \in OverlayPaths}
  BY ArchiveAssumption, OverlayAssumption, EntriesOf DEF Kind
<1>7. Overlaid(base) = a \o b \o c
  BY DEF Overlaid, Missing
<1>8. Names(base) \cap Missing(base) = {} /\ Missing(base) \cap OverlayPaths = {}
  <2>1. ASSUME NEW n \in Missing(base)
        PROVE  n \notin Names(base) /\ \E p \in OverlayPaths : n \in Above(p)
    <3>1. n \in UNION {Above(p) : p \in OverlayPaths} /\ n \notin Names(base)
      BY <2>1 DEF Missing
    <3>2. PICK T \in {Above(p) : p \in OverlayPaths} : n \in T
      BY <3>1
    <3> QED BY <3>1, <3>2
  <2>2. \A p \in OverlayPaths : \A n \in Above(p) : n \notin OverlayPaths
    BY OverlayAssumption
  <2> QED BY <2>1, <2>2
<1> HIDE DEF a, b, c, dirs, added
<1>9. /\ a \o b \in Seq(Member) /\ Unique(a \o b) /\ Names(a \o b) = Names(base) \cup Missing(base)
      /\ Range(a \o b) = Range(a) \cup Range(b)
  BY <1>3, <1>4, <1>5, <1>8, JoinedUnique
<1> DEFINE ab == a \o b
<1> HIDE DEF ab
<1>10. /\ ab \o c \in Seq(Member) /\ Unique(ab \o c)
       /\ Names(ab \o c) = Names(base) \cup Missing(base) \cup OverlayPaths
       /\ Range(ab \o c) = Range(a) \cup Range(b) \cup Range(c)
  <2>1. (Names(base) \cup Missing(base)) \cap OverlayPaths = {}
    BY <1>2, <1>8
  <2> QED BY <1>6, <1>9, <2>1, JoinedUnique DEF ab
<1> QED BY <1>4, <1>5, <1>6, <1>7, <1>10 DEF ab

-----------------------------------------------------------------------------
(* What an archive means                                                   *)

AsIs(m) == [kind |-> m.kind, to |-> m.to, bytes |-> m.bytes]

LEMMA OnlyOneNamed ==
    ASSUME NEW a \in Seq(Member), Unique(a), NEW k \in DOMAIN a, NEW n, a[k].name = n
    PROVE  /\ {i \in DOMAIN a : a[i].name = n} # {}
           /\ (CHOOSE i \in {j \in DOMAIN a : a[j].name = n} : TRUE) = k
<1>1. {i \in DOMAIN a : a[i].name = n} = {k}
  BY DEF Unique
<1>2. (CHOOSE i \in {k} : TRUE) = k
  OBVIOUS
<1> QED BY <1>1, <1>2

\* The name of a member means the member; that of a hard link, its target.
LEMMA MeaningOf ==
    ASSUME NEW a \in Seq(Member), Unique(a), NEW m \in Range(a)
    PROVE  /\ m.kind # "link" => Meaning(a, m.name) = AsIs(m)
           /\ m.kind = "link" /\ m.inside =>
                 \A t \in Range(a) : t.name = m.to => Meaning(a, m.name) = AsIs(t)
<1>1. PICK k \in DOMAIN a : a[k] = m
  BY DEF Range
<1>2. /\ {i \in DOMAIN a : a[i].name = m.name} # {}
      /\ (CHOOSE i \in {j \in DOMAIN a : a[j].name = m.name} : TRUE) = k
  BY <1>1, OnlyOneNamed
<1>3. ASSUME m.kind # "link" PROVE Meaning(a, m.name) = AsIs(m)
  BY <1>1, <1>2, <1>3, Zenon DEF Meaning, AsIs
<1>4. ASSUME m.kind = "link", m.inside, NEW t \in Range(a), t.name = m.to
      PROVE  Meaning(a, m.name) = AsIs(t)
  <2>1. PICK l \in DOMAIN a : a[l] = t
    BY DEF Range
  <2>2. /\ {i \in DOMAIN a : a[i].name = m.to} # {}
        /\ (CHOOSE i \in {j \in DOMAIN a : a[j].name = m.to} : TRUE) = l
    BY <1>4, <2>1, OnlyOneNamed
  <2> QED BY <1>1, <1>2, <1>4, <2>1, <2>2, Zenon DEF Meaning, AsIs
<1> QED BY <1>3, <1>4

LEMMA NothingNamed ==
    ASSUME NEW a, NEW n, n \notin Names(a) PROVE Meaning(a, n) = None
<1>1. {i \in DOMAIN a : a[i].name = n} = {}
  BY DEF Names
<1> QED BY <1>1, Zenon DEF Meaning

LEMMA MeaningOfEntry ==
    ASSUME NEW n \in Name, NEW kind \in Kind \ {"link"}, NEW bytes \in {None, Shipped}
    PROVE  Meaning(<<Entry(n, kind, bytes)>>, n) = AsIs(Entry(n, kind, bytes))
<1> DEFINE e == Entry(n, kind, bytes)
           a == <<e>>
<1>1. e \in Member /\ e.name = n /\ e.kind = kind
  BY DEF Entry, Member
<1> HIDE DEF e
<1>2. a \in Seq(Member) /\ Unique(a) /\ e \in Range(a)
  BY <1>1 DEF Unique, Range
<1> HIDE DEF a
<1>3. Meaning(a, e.name) = AsIs(e)
  BY <1>1, <1>2, MeaningOf
<1> QED BY <1>1, <1>3 DEF a, e

LEMMA NormalizedMeans == ASSUME NEW m \in Member PROVE AsIs(Normalized(m)) = AsIs(m)
BY NormalizedIs DEF AsIs

\* The hard links of a base archive have targets.
Linked(base) ==
    \A i \in DOMAIN base : base[i].kind = "link" => base[i].to \in Names(base)

\* What is in the base stays; what is not is overlaid.
LEMMA OverlaidMeans ==
    ASSUME NEW base \in Seq(Member), ~OverlayRefuses(base), Linked(base), NEW n \in Name
    PROVE  /\ n \in Names(base) => Meaning(Overlaid(base), n) = Meaning(base, n)
           /\ n \in OverlayPaths =>
                 Meaning(Overlaid(base), n) = Meaning(<<Entry(n, "file", Shipped)>>, n)
           /\ n \in Missing(base) =>
                 Meaning(Overlaid(base), n) = Meaning(<<Entry(n, "dir", None)>>, n)
           /\ n \notin Names(base) \cup OverlayPaths \cup Missing(base) =>
                 Meaning(Overlaid(base), n) = None
<1> DEFINE a == Overlaid(base)
<1>1. /\ a \in Seq(Member) /\ Unique(a)
      /\ \A m \in Range(base) : Normalized(m) \in Range(a)
      /\ \A p \in Missing(base) : Entry(p, "dir", None) \in Range(a)
      /\ \A p \in OverlayPaths : Entry(p, "file", Shipped) \in Range(a)
      /\ Names(a) = Names(base) \cup Missing(base) \cup OverlayPaths
  BY OverlaidHas
<1>2. Unique(base) /\ \A m \in Range(base) : m \in Member /\ m.inside
  BY DEF OverlayRefuses, Range
<1> HIDE DEF a
<1>3. ASSUME n \in Names(base) PROVE Meaning(a, n) = Meaning(base, n)
  <2>1. PICK m \in Range(base) : m.name = n
    BY <1>3 DEF Names, Range
  <2>2. /\ Normalized(m) \in Range(a) /\ Normalized(m).name = n /\ Normalized(m).to = m.to
        /\ Normalized(m).kind = m.kind /\ Normalized(m).inside
    BY <1>1, <1>2, <2>1, NormalizedIs
  <2>3. CASE m.kind # "link"
    <3>1. Meaning(base, n) = AsIs(m)
      BY <1>2, <2>1, <2>3, MeaningOf
    <3>2. Meaning(a, n) = AsIs(Normalized(m))
      BY <1>1, <2>2, <2>3, MeaningOf
    <3> QED BY <1>2, <3>1, <3>2, NormalizedMeans
  <2>4. CASE m.kind = "link"
    <3>1. PICK t \in Range(base) : t.name = m.to
      BY <2>4 DEF Linked, Names, Range
    <3>2. Normalized(t) \in Range(a) /\ Normalized(t).name = m.to
      BY <1>1, <1>2, <3>1, NormalizedIs
    <3>3. Meaning(base, n) = AsIs(t)
      BY <1>2, <2>1, <2>4, <3>1, MeaningOf
    <3>4. Meaning(a, n) = AsIs(Normalized(t))
      BY <1>1, <2>2, <2>4, <3>2, MeaningOf
    <3> QED BY <1>2, <3>3, <3>4, NormalizedMeans
  <2> QED BY <2>3, <2>4
<1>4. ASSUME NEW kind \in {"file", "dir"}, NEW bytes \in {None, Shipped},
             Entry(n, kind, bytes) \in Range(a)
      PROVE  Meaning(a, n) = Meaning(<<Entry(n, kind, bytes)>>, n)
  <2>1. Entry(n, kind, bytes).name = n /\ Entry(n, kind, bytes).kind # "link"
    BY DEF Entry
  <2>2. Meaning(a, n) = AsIs(Entry(n, kind, bytes))
    BY <1>1, <1>4, <2>1, MeaningOf
  <2>3. kind \in Kind \ {"link"}
    BY DEF Kind
  <2> QED BY <2>2, <2>3, MeaningOfEntry
<1>5. n \notin Names(a) => Meaning(a, n) = None
  BY NothingNamed
<1> QED BY <1>1, <1>3, <1>4, <1>5 DEF a

\* What inspect-artifact.py asks, the base does not break.
\* The base, then directories, then overlay files.
LEMMA OverlaidParts ==
    ASSUME NEW base \in Seq(Member)
    PROVE  LET o == Overlaid(base)
           IN  \E k \in Nat :
                  /\ Len(base) <= k
                  /\ DOMAIN base \subseteq DOMAIN o /\ DOMAIN o \subseteq Nat
                  /\ \A i \in DOMAIN base : o[i] = Normalized(base[i])
                  /\ \A i \in DOMAIN o : i \notin DOMAIN base /\ i <= k =>
                        o[i].name \in Missing(base) /\ o[i].kind = "dir"
                  /\ \A i \in DOMAIN o : i > k =>
                        o[i].name \in OverlayPaths /\ o[i].kind = "file"
<1> DEFINE a == [i \in DOMAIN base |-> Normalized(base[i])]
           dirs == Sorted(Missing(base))
           added == Sorted(OverlayPaths)
           b == [i \in DOMAIN dirs |-> Entry(dirs[i], "dir", None)]
           c == [i \in DOMAIN added |-> Entry(added[i], "file", Shipped)]
<1>1. a \in Seq(Member) /\ Len(a) = Len(base) /\ DOMAIN a = DOMAIN base
  <2>1. ASSUME NEW i \in DOMAIN base PROVE Normalized(base[i]) \in Member
    <3>1. base[i] \in Member
      OBVIOUS
    <3> QED BY <3>1, NormalizedIs
  <2>2. DOMAIN base = 1..Len(base) /\ Len(base) \in Nat
    OBVIOUS
  <2> QED BY <2>1, <2>2
<1>2. b \in Seq(Member) /\ Range(b) = {Entry(n, "dir", None) : n \in Missing(base)}
  BY MissingIsFinite, EntriesOf DEF Kind
<1>3. c \in Seq(Member) /\ Range(c) = {Entry(n, "file", Shipped) : n \in OverlayPaths}
  BY ArchiveAssumption, OverlayAssumption, EntriesOf DEF Kind
<1>4. Overlaid(base) = (a \o b) \o c
  BY DEF Overlaid, Missing
<1>5. \A i \in DOMAIN base : a[i] = Normalized(base[i])
  OBVIOUS
<1> HIDE DEF a, b, c, dirs, added
<1>6. \A i \in DOMAIN b : b[i].name \in Missing(base) /\ b[i].kind = "dir"
  BY <1>2 DEF Range, Entry
<1>7. \A i \in DOMAIN c : c[i].name \in OverlayPaths /\ c[i].kind = "file"
  BY <1>3 DEF Range, Entry
<1> DEFINE o == (a \o b) \o c
           k == Len(a) + Len(b)
<1>8. /\ DOMAIN o = 1..(k + Len(c)) /\ DOMAIN a = 1..Len(a)
      /\ DOMAIN b = 1..Len(b) /\ DOMAIN c = 1..Len(c)
      /\ Len(a) \in Nat /\ Len(b) \in Nat /\ Len(c) \in Nat
  BY <1>1, <1>2, <1>3
<1>9. /\ \A i \in 1..Len(a) : o[i] = a[i]
      /\ \A i \in (Len(a) + 1)..k : o[i] = b[i - Len(a)]
      /\ \A i \in (k + 1)..(k + Len(c)) : o[i] = c[i - k]
  BY <1>1, <1>2, <1>3
<1> HIDE DEF o
<1>10. \A i \in (Len(a) + 1)..k : i - Len(a) \in DOMAIN b
  BY <1>8
<1>11. \A i \in (k + 1)..(k + Len(c)) : i - k \in DOMAIN c
  BY <1>8
<1>12. \A i \in DOMAIN base : i \in DOMAIN o /\ o[i] = Normalized(base[i])
  BY <1>1, <1>5, <1>8, <1>9
<1>13. \A i \in DOMAIN o : i \notin DOMAIN base /\ i <= k => i \in (Len(a) + 1)..k
  BY <1>1, <1>8
<1>14. \A i \in DOMAIN o : i > k => i \in (k + 1)..(k + Len(c))
  BY <1>8
<1>15. k \in Nat /\ Len(base) <= k /\ DOMAIN o \subseteq Nat
  BY <1>1, <1>8
<1> HIDE DEF k
<1>16. Overlaid(base) = o
  BY <1>4 DEF o
<1> QED BY <1>6, <1>7, <1>9, <1>10, <1>11, <1>12, <1>13, <1>14, <1>15, <1>16

\* One pass over the archive of a v4 target finds directories before overlay files and,
\* as in the base, targets before links: what is added has no name of the base.
LEMMA OverlaidInOrder ==
    ASSUME NEW base \in Seq(Member), Linked(base), ~OverlayRefuses(base)
    PROVE  /\ DirectoriesFirst(Overlaid(base))
           /\ LinksFollow(base) => LinksFollow(Overlaid(base))
<1> DEFINE o == Overlaid(base)
<1>1. PICK k \in Nat :
         /\ Len(base) <= k
         /\ DOMAIN base \subseteq DOMAIN o /\ DOMAIN o \subseteq Nat
         /\ \A i \in DOMAIN base : o[i] = Normalized(base[i])
         /\ \A i \in DOMAIN o : i \notin DOMAIN base /\ i <= k =>
               o[i].name \in Missing(base) /\ o[i].kind = "dir"
         /\ \A i \in DOMAIN o : i > k => o[i].name \in OverlayPaths /\ o[i].kind = "file"
  BY OverlaidParts
<1>2. Names(o) = Names(base) \cup Missing(base) \cup OverlayPaths
  BY OverlaidHas
<1> HIDE DEF o
<1>3. \A i \in DOMAIN base : /\ o[i].name = base[i].name /\ o[i].kind = base[i].kind
                             /\ o[i].to = base[i].to /\ base[i].name \in Names(base) /\ i <= k
  <2>1. \A i \in DOMAIN base : base[i] \in Member /\ i <= Len(base) /\ i \in Nat /\ Len(base) \in Nat
    OBVIOUS
  <2>2. ASSUME NEW i \in DOMAIN base
        PROVE  o[i].name = base[i].name /\ o[i].kind = base[i].kind /\ o[i].to = base[i].to
    BY <1>1, <2>1, NormalizedIs
  <2>3. \A i \in DOMAIN base : base[i].name \in Names(base)
    BY DEF Names
  <2>4. \A i \in DOMAIN base : i <= k
    BY <1>1, <2>1
  <2> QED BY <2>2, <2>3, <2>4
<1>4. Names(base) \cap OverlayPaths = {} /\ Names(base) \cap Missing(base) = {}
  BY DEF OverlayRefuses, Missing
<1>5. ASSUME NEW p \in OverlayPaths, NEW n \in Above(p)
      PROVE  n \in Names(o) /\ n \notin OverlayPaths
  BY <1>2, OverlayAssumption DEF Missing
<1>6. ASSUME NEW n \in Missing(base) PROVE n \notin OverlayPaths
  <2>1. PICK T \in {Above(p) : p \in OverlayPaths} : n \in T
    BY DEF Missing
  <2> QED BY <2>1, OverlayAssumption
<1>7. ASSUME NEW i \in DOMAIN o, o[i].name \in OverlayPaths,
             NEW n \in Above(o[i].name)
      PROVE  \E j \in DOMAIN o : j < i /\ o[j].name = n
  <2>1. i > k
    BY <1>1, <1>3, <1>4, <1>6, <1>7
  <2>2. n \in Names(o) /\ n \notin OverlayPaths
    BY <1>5, <1>7
  <2>3. PICK j \in DOMAIN o : o[j].name = n
    BY <2>2 DEF Names
  <2>4. ~(j > k)
    BY <1>1, <2>2, <2>3
  <2> QED BY <1>1, <2>1, <2>3, <2>4
<1>8. ASSUME LinksFollow(base), NEW i \in DOMAIN o, NEW j \in DOMAIN o,
             o[i].kind = "link", o[j].name = o[i].to
      PROVE  j < i
  <2>1. i \in DOMAIN base
    BY <1>1, <1>8
  <2>2. o[i].to \in Names(base)
    BY <1>3, <1>8, <2>1 DEF Linked
  <2>3. j \in DOMAIN base
    BY <1>1, <1>4, <1>8, <2>2
  <2> QED BY <1>3, <1>8, <2>1, <2>3 DEF LinksFollow
<1> QED BY <1>7, <1>8 DEF DirectoriesFirst, LinksFollow, o

LEMMA OverlaidPasses ==
    ASSUME NEW base \in Seq(Member), ~OverlayRefuses(base),
           \A i \in DOMAIN base : ~Forbidden(base[i])
    PROVE  Inspected(Overlaid(base))
<1> DEFINE a == Overlaid(base)
<1>1. /\ a \in Seq(Member) /\ Unique(a)
      /\ \A m \in Range(a) : \/ \E b \in Range(base) : m = Normalized(b)
                             \/ \E p \in Missing(base) : m = Entry(p, "dir", None)
                             \/ \E p \in OverlayPaths : m = Entry(p, "file", Shipped)
      /\ \A p \in OverlayPaths : Entry(p, "file", Shipped) \in Range(a)
  BY OverlaidHas
<1> HIDE DEF a
<1>2. \A m \in Range(base) : m \in Member /\ m.inside /\ ~Forbidden(m)
  BY DEF OverlayRefuses, Range
<1>3. ASSUME NEW m \in Range(a) PROVE m.inside /\ m.canonical /\ ~Forbidden(m)
  <2>1. CASE \E b \in Range(base) : m = Normalized(b)
    <3>1. PICK b \in Range(base) : m = Normalized(b)
      BY <2>1
    <3>2. /\ m.name = b.name /\ m.kind = b.kind /\ m.to = b.to
          /\ m.inside = b.inside /\ m.canonical = TRUE
      BY <1>2, <3>1, NormalizedIs
    <3>3. Forbidden(m) <=> Forbidden(b)
      BY <3>2 DEF Forbidden
    <3> QED BY <1>2, <3>2, <3>3
  <2>2. CASE \E p \in Missing(base) : m = Entry(p, "dir", None)
    <3>1. PICK p \in Missing(base) : m = Entry(p, "dir", None)
      BY <2>2
    <3>2. p \notin Removed
      <4>1. PICK T \in {Above(n) : n \in OverlayPaths} : p \in T
        BY DEF Missing
      <4> QED BY <4>1, OverlayAssumption
    <3> QED BY <3>1, <3>2 DEF Forbidden, Entry
  <2>3. CASE \E p \in OverlayPaths : m = Entry(p, "file", Shipped)
    BY <2>3, OverlayAssumption DEF Forbidden, Entry
  <2> QED BY <1>1, <2>1, <2>2, <2>3
<1>4. \A i \in DOMAIN a : a[i].inside /\ a[i].canonical /\ ~Forbidden(a[i])
  BY <1>3 DEF Range
<1>5. ASSUME NEW n \in OverlayPaths
      PROVE \E i \in DOMAIN a : a[i].name = n /\ a[i].kind = "file" /\ a[i].bytes = Shipped
  <2>1. PICK i \in DOMAIN a : a[i] = Entry(n, "file", Shipped)
    BY <1>1 DEF Range
  <2> QED BY <2>1 DEF Entry
<1>6. a # <<>>
  <2>1. PICK n \in OverlayPaths : TRUE
    BY OverlayAssumption
  <2>2. \E i : i \in DOMAIN a
    BY <1>5, <2>1
  <2> QED BY <1>1, <2>2
<1> QED BY <1>1, <1>4, <1>5, <1>6 DEF Inspected, a

-----------------------------------------------------------------------------
(* The invariant                                                           *)

IsTree == job.kind = "tree"

\* What the archive is to have, and whether there is to be one.
Expected == IF IsTree THEN job.members ELSE Overlaid(job.members)
Feasible == ~IsTree => ~OverlayRefuses(job.members)

\* List finds what it asks for.
Listed(a) == (\A i \in DOMAIN a : a[i].inside) /\ OverlayListed(a)

\* What is known of the two processes and the files.
Flow ==
    /\ pc \in {"start", "open", "tar", "xz", "refused"} => xz = "none"
    /\ pc \in {"start", "refused", "list", "done", "failed"} => temp = NoFile
    /\ xz = "none" => got = <<>>
    /\ xz = "ok" => pipe = <<>> /\ tar \notin {"runs", "complains"}
    /\ tar = "none" => todo = <<>> /\ flaws = 0
    /\ tar = "ok" => todo = <<>> /\ flaws = 0
    /\ xz = "ok" /\ pc \in {"communicate", "drain", "replace"} => temp = File("archive", got)
    /\ pc = "replace" => xz = "ok" /\ tar \in {"none", "ok"}
    /\ pc \in {"drain", "replace", "list", "done", "failed"} => xz # "runs"
    /\ pc \in {"list", "done"} => output.is = "archive"
    /\ pc = "done" => Listed(output.members)
    /\ held => pc = "xz"

\* tar packs a tree: it runs from its start to an end.
TreeFlow ==
    IsTree =>
        /\ pc # "refused"
        /\ pc \in {"start", "open", "tar"} => tar = "none"
        /\ pc \notin {"start", "open", "tar"} \cup Ends => tar # "none"
        /\ tar = "none" => pipe = <<>>

\* The uncompressed tar of a v4 target is there before xz is; tar does not run.
OverlayFlow ==
    ~IsTree =>
        /\ tar = "none" /\ pc # "tar"
        /\ pc = "start" => pipe = <<>>

Started == IF IsTree THEN tar # "none" ELSE pc \in {"open", "xz"} \/ xz # "none"

\* Nothing is lost or reordered on the way, as long as tar has nothing to say.
Stream ==
    Started => Feasible /\ (flaws = 0 => got \o (pipe \o todo) = Expected)

Kept == output.is = "archive" => Feasible /\ output.members = Expected
Labels == {"start", "open", "tar", "xz", "communicate", "drain", "replace", "list"} \cup Ends
TarStates == {"none", "runs", "complains", "ok", "bad"}
XzStates == {"none", "runs", "ok", "bad"}

\* TypeOK, by who has the variables.
BuildTypes == job \in Job /\ pc \in Labels /\ held \in BOOLEAN
TarTypes == /\ tar \in TarStates /\ todo \in Seq(Member)
            /\ flaws \in 0..MaxFlaws /\ diag \in 0..DiagSize
PipeTypes == pipe \in Seq(Member) /\ (IsTree => Len(pipe) <= PipeSize)
XzTypes == xz \in XzStates /\ got \in Seq(Member)
TempTypes == temp.is \in {"absent", "open", "archive"} /\ temp.members \in Seq(Member)
OutputTypes == output.is \in {"absent", "older", "archive"} /\ output.members \in Seq(Member)

Types == BuildTypes /\ TarTypes /\ PipeTypes /\ XzTypes /\ TempTypes /\ OutputTypes

LEMMA TypesAreTypes == Types <=> TypeOK
BY DEF IsTree, Types, TypeOK, BuildTypes, TarTypes, PipeTypes, XzTypes, TempTypes, OutputTypes,
       Labels, TarStates, XzStates

ArchiveInv == Types /\ Flow /\ TreeFlow /\ OverlayFlow /\ Stream /\ Kept

LEMMA JobStays == [Next]_vars => job' = job
BY DEF Next, Build, Prepare, OpenTemp, StartTar, StartXz, Communicate, Drain, Judge, Replace, List,
       Goto, StartFails, Kill, Tar, TarWrites, TarFindsFlaw, TarComplains, TarEnds, TarDies,
       Xz, XzReads, XzEnds, XzDies, Ended, vars

LEMMA JobDecides ==
    ASSUME job' = job
    PROVE  IsTree' = IsTree /\ Expected' = Expected /\ Feasible' = Feasible
BY DEF IsTree, Expected, Feasible

\* What a v4 target is to have is an archive.
LEMMA ExpectedIsArchive ==
    ASSUME job \in Job, Feasible PROVE Expected \in Seq(Member)
<1>1. job.members \in Seq(Member)
  BY ArchiveAssumption
<1> QED BY <1>1, OverlaidHas DEF Expected, Feasible

-----------------------------------------------------------------------------
(* Types                                                                   *)

LEMMA EmptyFile ==
    ASSUME NEW is PROVE File(is, <<>>).is = is /\ File(is, <<>>).members \in Seq(Member)
<1> DEFINE nothing == <<>>
<1>1. nothing \in Seq(Member)
  OBVIOUS
<1> HIDE DEF nothing
<1>2. File(is, nothing).is = is /\ File(is, nothing).members = nothing
  BY DEF File
<1> QED BY <1>1, <1>2 DEF nothing

LEMMA NoFileFields == NoFile.is = "absent" /\ NoFile.members \in Seq(Member)
BY EmptyFile DEF NoFile

LEMMA TypesInit == Init => Types
<1> SUFFICES ASSUME Init PROVE Types
  OBVIOUS
<1>1. BuildTypes
  BY DEF Init, BuildTypes, Labels
<1>2. TarTypes /\ PipeTypes /\ XzTypes
  BY ArchiveAssumption DEF Init, TarTypes, PipeTypes, XzTypes, TarStates, XzStates
<1>3. TempTypes
  BY NoFileFields DEF Init, TempTypes
<1>4. OutputTypes
  <2>1. output = NoFile \/ output = File("older", <<>>)
    BY DEF Init
  <2>2. CASE output = NoFile
    BY <2>2, NoFileFields DEF OutputTypes
  <2>3. CASE output = File("older", <<>>)
    BY <2>3, EmptyFile DEF OutputTypes
  <2> QED BY <2>1, <2>2, <2>3
<1> QED BY <1>1, <1>2, <1>3, <1>4 DEF Types

LEMMA Untouched ==
    /\ TarTypes /\ UNCHANGED tarring => TarTypes'
    /\ PipeTypes /\ UNCHANGED <<job, pipe>> => PipeTypes'
    /\ XzTypes /\ UNCHANGED packing => XzTypes'
    /\ TempTypes /\ UNCHANGED temp => TempTypes'
    /\ OutputTypes /\ UNCHANGED output => OutputTypes'
    /\ BuildTypes /\ UNCHANGED <<job, pc, held>> => BuildTypes'
BY DEF tarring, packing, BuildTypes, TarTypes, PipeTypes, XzTypes, TempTypes, OutputTypes, IsTree

LEMMA BuildKeepsTypes ==
    ASSUME Types, Flow, Build \/ StartFails \/ Kill PROVE Types'
<1> USE DEF Types
<1>1. BuildTypes'
  <2>1. job' = job /\ pc' \in Labels
    BY DEF Build, Prepare, OpenTemp, StartTar, StartXz, Communicate, Drain, Judge, Replace, List,
           Goto, StartFails, Kill, BuildTypes, Labels, Ends
  <2>2. held' = held \/ held' = TRUE \/ held' = FALSE
    BY DEF Build, Prepare, OpenTemp, StartTar, StartXz, Communicate, Drain, Judge, Replace, List,
           StartFails, Kill
  <2> QED BY <2>1, <2>2 DEF BuildTypes
<1>2. CASE Prepare
  <2>1. PipeTypes'
    <3>1. CASE UNCHANGED <<job, pipe>>
      BY <3>1, Untouched
    <3>2. CASE /\ ~IsTree /\ ~OverlayRefuses(job.members)
               /\ pipe' = Overlaid(job.members) /\ job' = job
      <4>1. pipe' \in Seq(Member)
        BY <3>2, ExpectedIsArchive DEF BuildTypes, Expected, Feasible
      <4> QED BY <3>2, <4>1 DEF PipeTypes, IsTree
    <3> QED BY <1>2, <3>1, <3>2 DEF Prepare, Goto, IsTree
  <2> QED BY <1>1, <1>2, <2>1, Untouched DEF Prepare, files
<1>3. CASE OpenTemp
  <2>1. TempTypes'
    BY <1>3 DEF OpenTemp, TempTypes, File
  <2> QED BY <1>1, <1>3, <2>1, Untouched DEF OpenTemp, Goto
<1>4. CASE StartTar
  <2>1. TarTypes'
    BY <1>4, ArchiveAssumption DEF StartTar, TarTypes, TarStates, BuildTypes
  <2> QED BY <1>1, <1>4, <2>1, Untouched DEF StartTar, files, Goto
<1>5. CASE StartXz
  <2>1. XzTypes'
    BY <1>5 DEF StartXz, XzTypes, XzStates
  <2> QED BY <1>1, <1>5, <2>1, Untouched DEF StartXz, files, Goto
<1>6. CASE Communicate \/ List \/ StartFails \/ Kill
  BY <1>1, <1>6, Untouched DEF Communicate, List, StartFails, Kill, files, Goto
<1>7. CASE Drain
  <2>1. TarTypes'
    BY <1>7, ArchiveAssumption DEF Drain, TarTypes
  <2> QED BY <1>1, <1>7, <2>1, Untouched DEF Drain, files
<1>8. CASE Judge
  <2>1. TempTypes'
    <3>1. temp' = temp \/ temp' = NoFile
      BY <1>8 DEF Judge
    <3> QED BY <3>1, NoFileFields DEF TempTypes
  <2> QED BY <1>1, <1>8, <2>1, Untouched DEF Judge, Goto
<1>9. CASE Replace
  <2>1. TempTypes'
    BY <1>9 DEF Replace, TempTypes, NoFile, File
  <2>2. output' = File("archive", got)
    BY <1>9 DEF Replace, Flow
  <2>3. OutputTypes'
    BY <2>2 DEF OutputTypes, XzTypes, File
  <2> QED BY <1>1, <1>9, <2>1, <2>3, Untouched DEF Replace, Goto
<1> QED BY <1>2, <1>3, <1>4, <1>5, <1>6, <1>7, <1>8, <1>9 DEF Build

LEMMA ProcessesKeepTypes ==
    ASSUME Types, OverlayFlow, Tar \/ TarDies \/ Xz \/ XzDies PROVE Types'
<1> USE DEF Types
<1>1. BuildTypes' /\ OutputTypes'
  BY Untouched DEF Tar, TarWrites, TarFindsFlaw, TarComplains, TarEnds, TarDies,
                   Xz, XzReads, XzEnds, XzDies, files
<1>2. CASE TarWrites
  <2>1. TarTypes'
    BY <1>2 DEF TarWrites, TarTypes, TarStates
  <2>2. PipeTypes'
    <3>1. todo # <<>> => Head(todo) \in Member
      BY DEF TarTypes
    <3>2. IsTree' = IsTree
      BY <1>2 DEF TarWrites, IsTree
    <3>3. pipe \in Seq(Member) /\ Len(pipe) \in Nat
      BY DEF PipeTypes
    <3>4. CASE Len(pipe) < PipeSize /\ pipe' = Append(pipe, Head(todo))
      <4>1. pipe' \in Seq(Member) /\ Len(pipe') = Len(pipe) + 1
        BY <1>2, <3>1, <3>3, <3>4 DEF TarWrites
      <4> QED BY <3>3, <3>4, <4>1, ArchiveAssumption DEF PipeTypes
    <3>5. CASE pipe' = pipe
      BY <3>2, <3>5 DEF PipeTypes
    <3> QED BY <1>2, <3>4, <3>5 DEF TarWrites
  <2> QED BY <1>1, <1>2, <2>1, <2>2, Untouched DEF TarWrites, files
<1>3. CASE TarFindsFlaw \/ TarComplains \/ TarEnds \/ TarDies
  <2>1. tar' \in TarStates
    BY <1>3 DEF TarFindsFlaw, TarComplains, TarEnds, TarDies, TarStates
  <2>2. todo' \in Seq(Member)
    BY <1>3 DEF TarFindsFlaw, TarComplains, TarEnds, TarDies, TarTypes
  <2>3. flaws' \in 0..MaxFlaws /\ diag' \in 0..DiagSize
    BY <1>3, ArchiveAssumption DEF TarFindsFlaw, TarComplains, TarEnds, TarDies, TarTypes
  <2>4. TarTypes'
    BY <2>1, <2>2, <2>3 DEF TarTypes
  <2> QED BY <1>1, <1>3, <2>4, Untouched DEF TarFindsFlaw, TarComplains, TarEnds, TarDies, files
<1>4. CASE XzReads
  <2>1. /\ Head(pipe) \in Member /\ Tail(pipe) \in Seq(Member)
        /\ Len(Tail(pipe)) <= Len(pipe)
    BY <1>4, ArchiveAssumption DEF XzReads, PipeTypes
  <2>2. Len(pipe) \in Nat /\ Len(Tail(pipe)) \in Nat
    BY <2>1 DEF PipeTypes
  <2>3. IsTree' = IsTree
    BY <1>4 DEF XzReads, IsTree
  <2>4. XzTypes' /\ PipeTypes'
    BY <1>4, <2>1, <2>2, <2>3, ArchiveAssumption DEF XzReads, XzTypes, PipeTypes
  <2> QED BY <1>1, <1>4, <2>4, Untouched DEF XzReads, files
<1>5. CASE XzEnds
  <2>1. XzTypes' /\ TempTypes'
    BY <1>5 DEF XzEnds, XzTypes, XzStates, TempTypes, File
  <2> QED BY <1>1, <1>5, <2>1, Untouched DEF XzEnds
<1>6. CASE XzDies
  <2>1. XzTypes'
    BY <1>6 DEF XzDies, XzTypes, XzStates
  <2> QED BY <1>1, <1>6, <2>1, Untouched DEF XzDies, files
<1> QED BY <1>2, <1>3, <1>4, <1>5, <1>6 DEF Tar, Xz

-----------------------------------------------------------------------------
(* What is in the pipe                                                     *)

LEMMA Handed ==
    ASSUME NEW S, NEW a \in Seq(S), NEW b \in Seq(S), b # <<>>
    PROVE  Append(a, Head(b)) \o Tail(b) = a \o b
OBVIOUS

LEMMA Joined ==
    ASSUME NEW S, NEW a \in Seq(S), NEW b \in Seq(S), NEW c \in Seq(S)
    PROVE  a \o (b \o c) = (a \o b) \o c
OBVIOUS

\* Nothing moves in most steps.
LEMMA StreamRests ==
    ASSUME Stream, UNCHANGED <<job, todo, flaws, got, pipe>>, Started' => Started
    PROVE  Stream'
BY JobDecides DEF Stream

LEMMA StreamStep == ASSUME ArchiveInv, [Next]_vars PROVE Stream'
<1> USE DEF ArchiveInv, Types
<1>1. job' = job /\ IsTree' = IsTree /\ Expected' = Expected /\ Feasible' = Feasible
  BY JobStays, JobDecides
<1>2. CASE Prepare
  <2>1. CASE ~IsTree /\ ~OverlayRefuses(job.members)
    <3>1. pipe' = Expected /\ got' = <<>> /\ todo' = <<>>
      BY <1>2, <2>1 DEF Prepare, IsTree, Expected, Flow, OverlayFlow, tarring, packing
    <3>2. Feasible /\ Expected \in Seq(Member)
      BY <2>1, ExpectedIsArchive DEF Feasible, BuildTypes
    <3> QED BY <1>1, <3>1, <3>2 DEF Stream
  <2>2. CASE IsTree \/ OverlayRefuses(job.members)
    <3>1. ~Started'
      <4>1. IsTree => tar' = "none"
        BY <1>2 DEF Prepare, TreeFlow, tarring
      <4>2. ~IsTree => pc' = "refused" /\ xz' = "none"
        BY <1>2, <2>2 DEF Prepare, IsTree, Flow, packing, Goto
      <4> QED BY <1>1, <4>1, <4>2 DEF Started
    <3> QED BY <3>1 DEF Stream
  <2> QED BY <2>1, <2>2
<1>3. CASE OpenTemp
  <2>1. UNCHANGED <<job, todo, flaws, got, pipe, tar, xz>> /\ pc = "open"
    BY <1>1, <1>3 DEF OpenTemp, tarring, packing
  <2> QED BY <1>1, <2>1, StreamRests DEF Started
<1>4. CASE StartTar
  <2>1. IsTree
    BY <1>4 DEF StartTar, OverlayFlow
  <2>2. pipe' = <<>> /\ got' = <<>> /\ todo' = Expected
    BY <1>4, <2>1 DEF StartTar, Flow, TreeFlow, packing, Expected
  <2>3. Feasible /\ Expected \in Seq(Member)
    BY <2>1, ExpectedIsArchive DEF Feasible, BuildTypes
  <2> QED BY <1>1, <2>2, <2>3 DEF Stream
<1>5. CASE StartXz
  <2>1. UNCHANGED <<job, todo, flaws, got, pipe, tar>> /\ pc = "xz"
    BY <1>1, <1>5 DEF StartXz, tarring
  <2> QED BY <1>1, <2>1, StreamRests DEF Started
<1>6. CASE TarWrites
  <2>1. got' = got /\ flaws' = flaws /\ tar # "none"
    BY <1>6 DEF TarWrites, packing
  <2>2. IsTree
    BY <2>1 DEF OverlayFlow
  <2>3. pipe' \o todo' = pipe \o todo
    BY <1>6, Handed DEF TarWrites, PipeTypes, TarTypes
  <2> QED BY <1>1, <2>1, <2>2, <2>3 DEF Stream, Started
<1>7. CASE TarFindsFlaw
  <2>1. flaws' # 0
    BY <1>7 DEF TarFindsFlaw, TarTypes
  <2>2. IsTree
    BY <1>7 DEF TarFindsFlaw, OverlayFlow
  <2> QED BY <1>1, <2>1, <2>2 DEF Stream, Feasible
<1>8. CASE XzReads
  <2>1. UNCHANGED <<pc, tar, todo, flaws, xz>>
    BY <1>8 DEF XzReads, tarring
  <2>2. /\ pipe \in Seq(Member) /\ got \in Seq(Member) /\ todo \in Seq(Member)
        /\ pipe # <<>> /\ got' = Append(got, Head(pipe)) /\ pipe' = Tail(pipe)
    BY <1>8 DEF XzReads, PipeTypes, XzTypes, TarTypes
  <2>3. got' \o pipe' = got \o pipe
    BY <2>2, Handed
  <2>4. got' \in Seq(Member) /\ pipe' \in Seq(Member)
    BY <2>2
  <2>5. got' \o (pipe' \o todo) = got \o (pipe \o todo)
    BY <2>2, <2>3, <2>4, Joined
  <2>6. Started' => Started
    BY <1>1, <2>1 DEF Started
  <2> QED BY <1>1, <2>1, <2>5, <2>6 DEF Stream
<1>9. CASE StartFails \/ Kill
  <2>1. UNCHANGED <<todo, flaws, got, pipe, tar, xz>> /\ pc' \in Ends
    BY <1>9 DEF StartFails, Kill, tarring, packing, Goto, Ends
  <2>2. Started' => Started
    BY <1>1, <2>1 DEF Started, Ends
  <2> QED BY <1>1, <2>1, <2>2, StreamRests
<1>10. CASE Communicate \/ Drain \/ Judge \/ Replace \/ List
  <2>1. UNCHANGED <<todo, flaws, got, pipe, tar, xz>> /\ pc' \notin {"open", "xz"}
    BY <1>10 DEF Communicate, Drain, Judge, Replace, List, tarring, packing, Goto
  <2>2. Started' => Started
    BY <1>1, <2>1 DEF Started
  <2> QED BY <1>1, <2>1, <2>2, StreamRests
<1>11. CASE TarComplains \/ TarEnds \/ TarDies \/ XzEnds \/ XzDies \/ UNCHANGED vars
  <2>1. UNCHANGED <<pc, todo, flaws, got, pipe>>
    BY <1>11 DEF TarComplains, TarEnds, TarDies, XzEnds, XzDies, vars, tarring, packing
  <2>2. (tar' # "none" => tar # "none") /\ (xz' # "none" => xz # "none")
    BY <1>11 DEF TarComplains, TarEnds, TarDies, XzEnds, XzDies, vars, tarring, packing
  <2>3. Started' => Started
    BY <1>1, <2>1, <2>2 DEF Started
  <2> QED BY <1>1, <2>1, <2>3, StreamRests
<1> QED BY <1>2, <1>3, <1>4, <1>5, <1>6, <1>7, <1>8, <1>9, <1>10, <1>11
        DEF Next, Build, Tar, Xz, Ended

LEMMA KeptStep == ASSUME ArchiveInv, [Next]_vars PROVE Kept'
<1>1. job' = job /\ Expected' = Expected /\ Feasible' = Feasible
  BY JobStays, JobDecides
<1>2. CASE Replace
  <2>1. /\ output' = File("archive", got) /\ pipe = <<>> /\ xz = "ok"
        /\ todo = <<>> /\ flaws = 0 /\ tar \in {"none", "ok"}
    BY <1>2 DEF Replace, ArchiveInv, Flow
  <2>2. Started
    BY <1>2, <2>1 DEF Started, ArchiveInv, TreeFlow, Replace, Ends
  <2>3. got \in Seq(Member) /\ Feasible /\ got \o (<<>> \o <<>>) = Expected
    BY <2>1, <2>2 DEF ArchiveInv, Types, XzTypes, Stream
  <2>4. got = Expected
    BY <2>3
  <2> QED BY <1>1, <2>1, <2>3, <2>4 DEF Kept, File
<1>3. CASE ~Replace
  <2>1. output' = output
    BY <1>3 DEF Next, Build, Prepare, OpenTemp, StartTar, StartXz, Communicate, Drain, Judge, List,
       Goto, StartFails, Kill, Tar, TarWrites, TarFindsFlaw, TarComplains, TarEnds, TarDies,
       Xz, XzReads, XzEnds, XzDies, Ended, vars, files
  <2> QED BY <1>1, <2>1 DEF Kept, ArchiveInv
<1> QED BY <1>2, <1>3

LEMMA FlowStep == ASSUME ArchiveInv, [Next]_vars PROVE Flow'
<1> USE DEF ArchiveInv, Flow, Ends
<1>1. CASE Prepare \/ OpenTemp \/ StartTar \/ StartXz
  BY <1>1 DEF Prepare, OpenTemp, StartTar, StartXz, Goto, OverlayFlow, TreeFlow,
              tarring, packing, files
<1>2. CASE StartFails \/ Kill
  BY <1>2 DEF StartFails, Kill, Goto, tarring, packing, files
<1>3. CASE Communicate \/ Drain
  BY <1>3 DEF Communicate, Drain, Goto, tarring, packing, files
<1>4. CASE Judge
  <2>1. tar \in {"none", "ok", "bad"}
    BY <1>4 DEF Judge, Types, TarTypes, TarStates
  <2> QED BY <1>4, <2>1 DEF Judge, Good, Goto, tarring, packing
<1>5. CASE Replace
  <2>1. output'.is = "archive"
    BY <1>5 DEF Replace, File
  <2> QED BY <1>5, <2>1 DEF Replace, Goto, tarring, packing
<1>6. CASE List
  <2>1. pc' = (IF Listed(output.members) THEN "done" ELSE "failed") /\ output' = output
    BY <1>6 DEF List, Listed, Goto, files
  <2> QED BY <1>6, <2>1 DEF List, tarring, packing, files
<1>7. CASE Tar \/ TarDies
  BY <1>7 DEF Tar, TarWrites, TarFindsFlaw, TarComplains, TarEnds, TarDies, packing, files
<1>8. CASE Xz \/ XzDies
  BY <1>8 DEF Xz, XzReads, XzEnds, XzDies, tarring, files
<1>9. CASE UNCHANGED vars
  BY <1>9 DEF vars
<1> QED BY <1>1, <1>2, <1>3, <1>4, <1>5, <1>6, <1>7, <1>8, <1>9 DEF Next, Build, Ended

LEMMA KindsFlow == ASSUME ArchiveInv, [Next]_vars PROVE TreeFlow' /\ OverlayFlow'
<1> USE DEF ArchiveInv, TreeFlow, OverlayFlow, Ends
<1>1. IsTree' = IsTree
  BY JobStays, JobDecides
<1>2. CASE Prepare \/ OpenTemp \/ StartTar \/ StartXz
  BY <1>1, <1>2 DEF Prepare, OpenTemp, StartTar, StartXz, Goto, IsTree, tarring, packing
<1>3. CASE StartFails \/ Kill \/ Communicate \/ Drain \/ Judge \/ Replace \/ List
  BY <1>1, <1>3 DEF StartFails, Kill, Communicate, Drain, Judge, Replace, List, Goto,
                    tarring, packing
<1>4. CASE Tar \/ TarDies
  BY <1>1, <1>4 DEF Tar, TarWrites, TarFindsFlaw, TarComplains, TarEnds, TarDies
<1>5. CASE Xz \/ XzDies
  BY <1>1, <1>5 DEF Xz, XzReads, XzEnds, XzDies, tarring, Flow
<1>6. CASE UNCHANGED vars
  BY <1>1, <1>6 DEF vars
<1> QED BY <1>2, <1>3, <1>4, <1>5, <1>6 DEF Next, Build, Ended

LEMMA ArchiveStep == ArchiveInv /\ [Next]_vars => ArchiveInv'
<1> SUFFICES ASSUME ArchiveInv, [Next]_vars PROVE ArchiveInv'
  OBVIOUS
<1>1. Types'
  <2>1. CASE UNCHANGED vars
    BY <2>1, Untouched DEF ArchiveInv, Types, vars, tarring, packing
  <2> QED BY <2>1, BuildKeepsTypes, ProcessesKeepTypes DEF Next, Ended, ArchiveInv
<1> QED BY <1>1, FlowStep, KindsFlow, StreamStep, KeptStep DEF ArchiveInv

LEMMA ArchiveInit == Init => ArchiveInv
<1> SUFFICES ASSUME Init PROVE ArchiveInv
  OBVIOUS
<1>1. Flow /\ TreeFlow /\ OverlayFlow
  BY DEF Init, Flow, TreeFlow, OverlayFlow, Ends
<1>2. Stream
  BY DEF Init, Stream, Started
<1>3. Kept
  BY DEF Init, Kept, NoFile, File
<1> QED BY <1>1, <1>2, <1>3, TypesInit DEF ArchiveInv

-----------------------------------------------------------------------------
(* What is asked of an archive                                             *)

\* What is listed of a tree, inspection finds.
LEMMA TreePasses ==
    ASSUME NEW j \in Job, j.kind = "tree", Listed(j.members),
           \A i \in DOMAIN j.members : ~Forbidden(j.members[i])
    PROVE  Inspected(j.members)
<1> DEFINE a == j.members
<1>1. a \in Seq(Member)
  BY ArchiveAssumption
<1>2. /\ Unique(a)
      /\ \A i \in DOMAIN a : /\ a[i].canonical /\ a[i].inside /\ ~Forbidden(a[i])
                             /\ a[i].name \in OverlayPaths =>
                                   a[i].kind = "file" /\ a[i].bytes = Shipped
      /\ OverlayPaths \subseteq Names(a)
  BY JobAssumption DEF Listed, OverlayListed
<1> HIDE DEF a
<1>3. ASSUME NEW n \in OverlayPaths PROVE \E i \in DOMAIN a : a[i].name = n
  BY <1>2 DEF Names
<1>4. a # <<>>
  <2>1. PICK n \in OverlayPaths : TRUE
    BY OverlayAssumption
  <2>2. \E i : i \in DOMAIN a
    BY <1>3, <2>1
  <2> QED BY <1>1, <2>2
<1> QED BY <1>2, <1>3, <1>4 DEF Inspected, a

LEMMA JobLinked ==
    ASSUME job \in Job, ~IsTree PROVE job.members \in Seq(Member) /\ Linked(job.members)
BY ArchiveAssumption, JobAssumption DEF Linked, IsTree

\* What the archive is to have means what the finished tree has.
LEMMA ExpectedMeans ==
    ASSUME job \in Job, Feasible, NEW n \in Name PROVE Meaning(Expected, n) = Wanted(n)
<1>1. CASE IsTree
  BY <1>1 DEF Expected, Wanted, IsTree
<1>2. CASE ~IsTree
  <2> DEFINE base == job.members
  <2>1. base \in Seq(Member) /\ Linked(base) /\ ~OverlayRefuses(base) /\ Expected = Overlaid(base)
    BY <1>2, JobLinked DEF Feasible, Expected
  <2>2. n \in Missing(base) <=> n \notin Names(base) /\ \E p \in OverlayPaths : n \in Above(p)
    BY DEF Missing
  <2>3. /\ n \in Names(base) => Meaning(Expected, n) = Meaning(base, n)
        /\ n \in OverlayPaths =>
              Meaning(Expected, n) = Meaning(<<Entry(n, "file", Shipped)>>, n)
        /\ n \in Missing(base) =>
              Meaning(Expected, n) = Meaning(<<Entry(n, "dir", None)>>, n)
        /\ n \notin Names(base) \cup OverlayPaths \cup Missing(base) =>
              Meaning(Expected, n) = None
    BY <2>1, OverlaidMeans
  <2>4. Wanted(n) = IF n \in Names(base) THEN Meaning(base, n)
                    ELSE IF n \in OverlayPaths THEN Meaning(<<Entry(n, "file", Shipped)>>, n)
                    ELSE IF \E p \in OverlayPaths : n \in Above(p)
                         THEN Meaning(<<Entry(n, "dir", None)>>, n)
                    ELSE None
    BY <1>2, Zenon DEF Wanted, IsTree
  <2> HIDE DEF base
  <2> QED BY <2>2, <2>3, <2>4
<1> QED BY <1>1, <1>2

THEOREM ArchiveInvariant == Spec => []ArchiveInv
BY ArchiveInit, ArchiveStep, PTL DEF Spec

\* The processes, the pipes and the files keep their types, whatever is archived.
THEOREM ArchiveTypes == Spec => []TypeOK
<1>1. ArchiveInv => TypeOK
  BY TypesAreTypes DEF ArchiveInv
<1> QED BY <1>1, ArchiveInvariant, PTL

\* An archive in the output directory unpacks in one pass to the finished tree, for any tree, any base
\* of a v4 target and any sizes of the pipes, whichever of tar, xz and the build fails or
\* is killed; and a call that fails by itself leaves no temporary file.
THEOREM ArchivesAreWhole == Spec => []OutputIsWhole
<1>1. ArchiveInv => OutputIsWhole
  <2> SUFFICES ASSUME ArchiveInv PROVE OutputIsWhole
    OBVIOUS
  <2>1. ASSUME output.is = "archive", NEW n \in Name PROVE Meaning(output.members, n) = Wanted(n)
    BY <2>1, ExpectedMeans DEF ArchiveInv, Kept, Types, BuildTypes
  <2>3. ASSUME output.is = "archive"
        PROVE  /\ DirectoriesFirst(output.members)
               /\ LinksFollow(job.members) => LinksFollow(output.members)
    <3>1. job \in Job /\ Feasible /\ output.members = Expected
      BY <2>3 DEF ArchiveInv, Kept, Types, BuildTypes
    <3>2. CASE IsTree
      BY <3>1, <3>2, JobAssumption DEF Expected, IsTree
    <3>3. CASE ~IsTree
      BY <3>1, <3>3, JobLinked, OverlaidInOrder DEF Expected, Feasible
    <3> QED BY <3>2, <3>3
  <2>2. pc \in {"done", "refused", "failed"} => temp = NoFile
    BY DEF ArchiveInv, Flow
  <2> QED BY <2>1, <2>2, <2>3 DEF OutputIsWhole
<1> QED BY <1>1, ArchiveInvariant, PTL

\* What a build calls finished passes inspection: what archive_inventory() lists and
\* what the overlay adds is all that inspect-artifact.py asks, as long as the base does
\* not bring the removed helper.
THEOREM FinishedPasses == Spec => []FinishedIsInspected
<1>1. ArchiveInv => FinishedIsInspected
  <2> SUFFICES ASSUME ArchiveInv, pc = "done",
                      \A i \in DOMAIN job.members : ~Forbidden(job.members[i])
               PROVE  Inspected(output.members)
    BY DEF FinishedIsInspected
  <2>1. job \in Job /\ Feasible /\ output.members = Expected /\ Listed(Expected)
    BY DEF ArchiveInv, Types, BuildTypes, Flow, Kept
  <2>2. CASE IsTree
    BY <2>1, <2>2, TreePasses DEF Expected, IsTree
  <2>3. CASE ~IsTree
    BY <2>1, <2>3, JobLinked, OverlaidPasses DEF Expected, Feasible
  <2> QED BY <2>2, <2>3
<1> QED BY <1>1, ArchiveInvariant, PTL

-----------------------------------------------------------------------------
(* That a call ends                                                        *)

\* For any tree and any sizes of the pipes: unless tar waits for room for a message,
\* somebody can go on as long as not all has ended.
LEMMA NothingElseBlocks == ArchiveInv => OnlyMessagesBlock
<1> SUFFICES ASSUME ArchiveInv, ~BuildCan, ~TarCan, ~XzCan PROVE AllEnded \/ Stuck
  BY DEF OnlyMessagesBlock
<1> USE DEF ArchiveInv, Types
<1>1. pc \in {"communicate", "drain"} \cup Ends
  BY DEF BuildCan, BuildTypes, Labels, Ends
<1>2. ~held
  BY <1>1 DEF Flow, Ends
<1>3. tar = "runs" => xz = "runs" /\ pipe # <<>>
  <2>1. tar = "runs" => Readers /\ ~(Len(pipe) < PipeSize)
    BY DEF TarCan
  <2>2. pipe = <<>> => Len(pipe) = 0
    OBVIOUS
  <2> QED BY <1>2, <2>1, <2>2, ArchiveAssumption DEF Readers
<1>4. xz = "runs" => pipe = <<>> /\ tar = "complains"
  BY <1>3 DEF XzCan
<1>5. tar = "complains" => pc \notin Ends /\ diag = DiagSize
  BY ArchiveAssumption DEF TarCan, TarTypes
<1>6. CASE xz = "runs"
  <2>1. pc # "drain"
    BY <1>6 DEF Flow
  <2> QED BY <1>1, <1>4, <1>5, <1>6, <2>1 DEF Stuck
<1>7. CASE xz # "runs"
  <2>1. pc # "communicate"
    BY <1>7 DEF BuildCan
  <2>2. pc # "drain"
    BY <1>3, <1>5, <1>7, ArchiveAssumption DEF BuildCan, TarTypes
  <2> QED BY <1>1, <1>3, <1>5, <1>7, <2>1, <2>2 DEF AllEnded
<1> QED BY <1>6, <1>7

LEMMA BesideIsNat == Types => Beside \in Nat
<1> SUFFICES ASSUME Types PROVE Beside \in Nat
  OBVIOUS
<1>1. /\ Len(todo) \in Nat /\ Len(pipe) \in Nat /\ diag \in Nat
      /\ MaxFlaws \in Nat /\ flaws \in Nat /\ flaws <= MaxFlaws
  BY ArchiveAssumption DEF Types, TarTypes, PipeTypes
<1>2. TarAhead \in Nat /\ XzAhead \in Nat
  BY DEF TarAhead, XzAhead
<1>3. 4 * (MaxFlaws - flaws) \in Nat /\ 2 * Len(todo) \in Nat
  BY <1>1
<1> HIDE DEF TarAhead, XzAhead
<1> QED BY <1>1, <1>2, <1>3 DEF Beside

\* Whatever tar and xz do beside the build, there is less to do.
LEMMA BesideDescends ==
    ASSUME Types, Drain \/ Tar \/ TarDies \/ Xz \/ XzDies PROVE pc' = pc /\ Beside' < Beside
<1>1. pc' = pc
  BY DEF Drain, Tar, TarWrites, TarFindsFlaw, TarComplains, TarEnds, TarDies,
         Xz, XzReads, XzEnds, XzDies
<1>2. /\ todo \in Seq(Member) /\ pipe \in Seq(Member)
      /\ Len(todo) \in Nat /\ Len(pipe) \in Nat /\ diag \in Nat
      /\ MaxFlaws \in Nat /\ flaws \in Nat /\ flaws <= MaxFlaws
  BY ArchiveAssumption DEF Types, TarTypes, PipeTypes
<1>3. /\ todo # <<>> => Len(Tail(todo)) = Len(todo) - 1
      /\ pipe # <<>> => Len(Tail(pipe)) = Len(pipe) - 1
      /\ todo # <<>> => Len(Append(pipe, Head(todo))) = Len(pipe) + 1
  BY <1>2
<1> USE <1>2, <1>3 DEF Beside, TarAhead, XzAhead
<1>4. CASE Drain
  BY <1>4 DEF Drain, packing
<1>5. CASE TarWrites
  BY <1>5 DEF TarWrites, packing
<1>6. CASE TarFindsFlaw
  <2>1. Len(todo') <= Len(todo) /\ Len(todo') \in Nat
    BY <1>6 DEF TarFindsFlaw
  <2> QED BY <1>6, <2>1 DEF TarFindsFlaw, packing
<1>7. CASE TarComplains \/ TarEnds \/ TarDies
  BY <1>7 DEF TarComplains, TarEnds, TarDies, packing
<1>8. CASE XzReads
  BY <1>8 DEF XzReads, tarring
<1>9. CASE XzEnds \/ XzDies
  BY <1>9 DEF XzEnds, XzDies, tarring
<1> QED BY <1>1, <1>4, <1>5, <1>6, <1>7, <1>8, <1>9 DEF Tar, Xz

LEMMA BuildDescends ==
    ASSUME Types, Prepare \/ OpenTemp \/ StartTar \/ StartXz \/ Communicate \/ Judge
                  \/ Replace \/ List \/ StartFails \/ Kill
    PROVE  Ahead(pc') < Ahead(pc)
<1>1. CASE Kill
  BY <1>1 DEF Kill, Goto, Ahead, Ends, Types, BuildTypes, Labels
<1>2. CASE ~Kill
  BY <1>2 DEF Prepare, OpenTemp, StartTar, StartXz, Communicate, Judge, Replace, List,
              StartFails, Goto, Ahead
<1> QED BY <1>1, <1>2

\* A call of build() takes finitely many steps and always has one to take, unless tar
\* waits for room for a message: for any tree, base and sizes of the pipes.
THEOREM CallsProceed == Spec => CallProceeds
<1>1. ASSUME ArchiveInv, [Next]_vars PROVE [CallGetsOn /\ OnlyMessagesBlock']_vars
  <2>1. ArchiveInv'
    BY <1>1, ArchiveStep
  <2>2. (Types => Beside \in Nat)' /\ (ArchiveInv => OnlyMessagesBlock)'
    BY BesideIsNat, NothingElseBlocks, PTL
  <2>3. Beside \in Nat /\ Beside' \in Nat /\ OnlyMessagesBlock'
    BY <1>1, <2>1, <2>2, BesideIsNat DEF ArchiveInv
  <2> QED
    BY <1>1, <2>3, BesideDescends, BuildDescends DEF Next, Build, Ended, ArchiveInv, CallGetsOn
<1> QED BY <1>1, ArchiveInvariant, PTL DEF Spec, CallProceeds
=============================================================================

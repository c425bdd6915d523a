------------------------ MODULE LayerExtractionProofs ------------------------
(***************************************************************************)
(* extract_archive() for every archive and every lower tree: at any step   *)
(* there is a tree; a call that returns has left what the layer asks for;  *)
(* and one that refuses has met an archive that it must refuse.            *)
(*                                                                         *)
(* The rounds over hard links never run out: each round that is not the    *)
(* last one makes at least one link, so the rounds left always exceed the  *)
(* links left.  What is at a path is followed through the passes:          *)
(* whiteouts first, then every member, then the links put off, each of     *)
(* which is still waiting or is the file it names (MeaningInv).            *)
(***************************************************************************)
EXTENDS LayerExtraction, Functions, TLAPS

\* The loop variables of extract_archive() between two steps.
LinkTypes ==
    /\ archive \in Seq(Member)
    /\ queue \in Seq(Member) /\ next \in Seq(Member)
    /\ at \in Nat \ {0} /\ asked \in Nat /\ rounds \in Nat

\* Before the rounds nothing was put off; in them, links left < rounds left.
RoundsLeft ==
    /\ pass \in {"whiteouts", "members"} => next = <<>>
    /\ pass = "links" => asked < rounds /\ Len(queue) + Len(next) <= asked

IInv == LinkTypes /\ RoundsLeft /\ LinksAllMade

LEMMA Base == Init => IInv
  BY LayerAssumption DEF Init, IInv, LinkTypes, RoundsLeft, LinksAllMade

LEMMA Inductive == IInv /\ [Next]_vars => IInv'
<1> SUFFICES ASSUME IInv, [Next]_vars PROVE IInv'
  OBVIOUS
<1> USE DEF IInv, LinkTypes, RoundsLeft, LinksAllMade, source, links
<1>1. ASSUME NEW i \in DOMAIN archive, Hide(archive[i]) \/ MakeDir(archive[i])
                  \/ MakeFile(archive[i]) \/ OmitDevice(archive[i])
      PROVE IInv'
  BY <1>1 DEF Hide, MakeDir, MakeFile, OmitDevice, At, MoveOn
<1>2. ASSUME NEW i \in DOMAIN archive, QueueLink(archive[i]) PROVE IInv'
  <2>1. archive[i] \in Member
    OBVIOUS
  <2>2. queue' \in Seq(Member)
    BY <1>2, <2>1 DEF QueueLink
  <2>3. QED
    BY <1>2, <2>2 DEF QueueLink, At, MoveOn
<1>3. CASE PassOver
  BY <1>3 DEF PassOver, MoveOn
<1>4. CASE NextPass
  BY <1>4 DEF NextPass, RoundsFor
<1>5. CASE LinkOne
  <2>1. Head(queue) \in Member /\ Tail(queue) \in Seq(Member) /\ Len(Tail(queue)) = Len(queue) - 1
    BY <1>5 DEF LinkOne
  <2>2. \/ next' = next
        \/ next' = Append(next, Head(queue))
    BY <1>5 DEF LinkOne
  <2>3. next' \in Seq(Member) /\ Len(next') <= Len(next) + 1
    BY <2>1, <2>2
  <2>4. QED
    BY <1>5, <2>1, <2>3 DEF LinkOne
<1>6. CASE EndRound
  BY <1>6 DEF EndRound
<1>7. CASE Finish
  <2>1. asked = 0 /\ Len(queue) + Len(next) <= 0
    BY <1>7 DEF Finish
  <2>2. queue = <<>> /\ next = <<>>
    BY <2>1
  <2>3. QED
    BY <1>7, <2>2 DEF Finish
<1>8. CASE Fail
  BY <1>8 DEF Fail
<1>9. CASE UNCHANGED vars
  BY <1>9 DEF vars
<1>10. QED
  BY <1>1, <1>2, <1>3, <1>4, <1>5, <1>6, <1>7, <1>8, <1>9 DEF Next, Ended

\* No hard link of a layer is dropped silently: the loop over
\* range(len(remaining) + 1) never ends with links left over.
THEOREM NoLinkLeftOver == Spec => []LinksAllMade
<1>1. IInv => LinksAllMade
  BY DEF IInv
<1>2. QED
  BY Base, Inductive, <1>1, PTL DEF Spec

\* No step of extraction goes back: it ends, whatever the archive holds.
THEOREM ExtractionDescends == Spec => Descends
<1> DEFINE Step ==
       \/ Rank(pass') > Rank(pass)
       \/ /\ pass' = pass /\ pass # "links"
          /\ at' > at /\ at' <= Len(archive) + 1
       \/ /\ pass' = pass /\ pass = "links"
          /\ \/ rounds' < rounds
             \/ rounds' = rounds /\ Len(queue') < Len(queue)
<1>1. ASSUME IInv, [Next]_vars PROVE [Step]_vars
  <2> USE <1>1 DEF Rank, IInv, LinkTypes
  <2>1. ASSUME NEW i \in DOMAIN archive, at = i,
               \/ Hide(archive[i]) \/ MakeDir(archive[i]) \/ MakeFile(archive[i])
               \/ QueueLink(archive[i]) \/ OmitDevice(archive[i])
        PROVE Step
    BY <2>1 DEF Hide, MakeDir, MakeFile, QueueLink, OmitDevice, At, MoveOn, source
  <2>2. CASE PassOver
    BY <2>2 DEF PassOver, MoveOn, source
  <2>3. CASE NextPass
    BY <2>3 DEF NextPass
  <2>4. CASE LinkOne
    <3>1. Len(Tail(queue)) < Len(queue)
      BY <2>4 DEF LinkOne
    <3>2. QED
      BY <2>4, <3>1 DEF LinkOne
  <2>5. CASE EndRound
    BY <2>5 DEF EndRound
  <2>6. CASE Finish
    BY <2>6 DEF Finish
  <2>7. CASE Fail
    BY <2>7 DEF Fail
  <2>8. QED
    BY <2>1, <2>2, <2>3, <2>4, <2>5, <2>6, <2>7 DEF Next, Ended
<1>2. QED
  BY Base, Inductive, <1>1, PTL DEF Spec, Descends

-----------------------------------------------------------------------------
(* Trees                                                                   *)

LEMMA PathsAreLists == \A p \in Path : p \in Seq(Name) /\ Len(p) \in Nat
BY LayerAssumption

\* What is above what is above a path is above the path, and not the path.
LEMMA AboveIsOrder ==
    ASSUME NEW p \in Path, NEW q \in Above(p)
    PROVE  q \in Path /\ p \notin Above(q) /\ q # p /\ Above(q) \subseteq Above(p)
<1>1. q \in Path /\ Len(p) > Len(q) /\ SubSeq(p, 1, Len(q)) = q
  BY DEF Above, Below
<1>2. p \notin Above(q) /\ q # p
  BY <1>1, PathsAreLists DEF Above, Below
<1>3. ASSUME NEW o \in Above(q) PROVE o \in Above(p)
  <2>1. o \in Path /\ Len(q) > Len(o) /\ SubSeq(q, 1, Len(o)) = o
    BY <1>1, <1>3 DEF Above, Below
  <2>2. SubSeq(p, 1, Len(o)) = SubSeq(SubSeq(p, 1, Len(q)), 1, Len(o))
    BY <1>1, <2>1, PathsAreLists
  <2> QED BY <1>1, <2>1, <2>2, PathsAreLists DEF Above, Below
<1> QED BY <1>1, <1>2, <1>3

LEMMA AboveInPath == \A p : Above(p) \subseteq Path
BY DEF Above

LEMMA DirIsNode == Dir \in Node /\ Gone \in Node /\ Dir # Gone
BY DEF Dir, Gone, Node

\* Made with what is above it, a set of paths leaves a tree.
LEMMA MadeIsTree ==
    ASSUME NEW t \in Tree, NEW above \in SUBSET Path, \A p \in above : Above(p) \subseteq above
    PROVE  WithParents(t, above) \in Tree
<1> DEFINE u == WithParents(t, above)
<1>1. u \in [Path -> Node]
  BY DirIsNode DEF WithParents, Tree
<1>2. ASSUME NEW p \in Path, u[p] # Gone, NEW q \in Above(p) PROVE u[q] = Dir
  <2>1. q \in Path
    BY <1>2, AboveInPath
  <2>2. CASE p \in above
    BY <1>2, <2>1, <2>2 DEF WithParents
  <2>3. CASE p \notin above
    <3>1. t[p] # Gone
      BY <1>2, <2>3 DEF WithParents
    <3>2. t[q] = Dir
      BY <1>2, <3>1 DEF Tree
    <3> QED BY <2>1, <3>2 DEF WithParents
  <2> QED BY <2>2, <2>3
<1> HIDE DEF u
<1>3. u \in Tree
  BY <1>1, <1>2 DEF Tree
<1> QED BY <1>3 DEF u

\* What remove_path() leaves is a tree.
LEMMA LeftIsTree ==
    ASSUME NEW t \in Tree, NEW paths \in SUBSET Path PROVE Without(t, paths) \in Tree
<1> DEFINE u == Without(t, paths)
<1>1. u \in [Path -> Node]
  BY DirIsNode DEF Without, Tree
<1>2. ASSUME NEW p \in Path, u[p] # Gone, NEW q \in Above(p) PROVE u[q] = Dir
  <2>1. p \notin paths /\ Above(p) \cap paths = {} /\ t[p] # Gone
    BY <1>2 DEF Without
  <2>2. q \in Path /\ t[q] = Dir
    BY <1>2, <2>1, AboveInPath DEF Tree
  <2>3. Above(q) \subseteq Above(p)
    BY <1>2, AboveIsOrder
  <2> QED BY <1>2, <2>1, <2>2, <2>3 DEF Without
<1> HIDE DEF u
<1>3. u \in Tree
  BY <1>1, <1>2 DEF Tree
<1> QED BY <1>3 DEF u

\* A node in a directory, in the place of nothing.
LEMMA SetIsTree ==
    ASSUME NEW t \in Tree, NEW p \in Path, t[p] = Gone, \A q \in Above(p) : t[q] = Dir,
           NEW n \in Node
    PROVE  [t EXCEPT ![p] = n] \in Tree
<1> DEFINE u == [t EXCEPT ![p] = n]
<1>1. u \in [Path -> Node]
  BY DEF Tree
<1>2. ASSUME NEW r \in Path, u[r] # Gone, NEW q \in Above(r) PROVE u[q] = Dir
  <2>1. q \in Path /\ t \in [Path -> Node]
    BY <1>2, AboveInPath DEF Tree
  <2>2. CASE r = p
    <3>1. q # p
      BY <1>2, <2>2, AboveIsOrder
    <3> QED BY <1>2, <2>1, <2>2, <3>1
  <2>3. CASE r # p
    <3>1. t[r] # Gone
      BY <1>2, <2>1, <2>3
    <3>2. t[q] = Dir
      BY <1>2, <3>1 DEF Tree
    <3>3. q # p
      BY <3>2, DirIsNode
    <3> QED BY <2>1, <3>2, <3>3
  <2> QED BY <2>2, <2>3
<1> HIDE DEF u
<1>3. u \in Tree
  BY <1>1, <1>2 DEF Tree
<1> QED BY <1>3 DEF u

LEMMA ParentsAreClosed ==
    ASSUME NEW m \in Member
    PROVE  Parents(m) \in SUBSET Path /\ \A p \in Parents(m) : Above(p) \subseteq Parents(m)
<1>1. m.path \in Path
  BY DEF Member
<1>2. \A p \in Above(m.path) : Above(p) \subseteq Above(m.path)
  BY <1>1, AboveIsOrder
<1> QED BY <1>1, <1>2, AboveInPath DEF Parents

LEMMA PutIsTree ==
    ASSUME tree \in Tree, NEW m \in Member, m.kind # "opaque", NEW n \in Node, Put(m, n)
    PROVE  tree' \in Tree
<1> DEFINE t == WithParents(tree, Parents(m))
           u == Without(t, {m.path})
<1>1. m.path \in Path /\ Parents(m) = Above(m.path)
  BY DEF Member, Parents
<1>2. t \in Tree
  BY ParentsAreClosed, MadeIsTree
<1>3. \A q \in Above(m.path) : t[q] = Dir /\ q # m.path /\ m.path \notin Above(q)
  BY <1>1, AboveIsOrder DEF WithParents
<1> HIDE DEF t
<1>4. u \in Tree
  BY <1>1, <1>2, LeftIsTree
<1>5. u[m.path] = Gone /\ \A q \in Above(m.path) : u[q] = Dir
  BY <1>1, <1>3, AboveInPath DEF Without
<1>6. tree' = [u EXCEPT ![m.path] = n]
  BY DEF Put, t
<1> HIDE DEF u
<1> QED BY <1>1, <1>4, <1>5, <1>6, SetIsTree

LEMMA LinkIsTree == ASSUME LinkTypes, tree \in Tree, LinkOne PROVE tree' \in Tree
<1>1. PICK m \in Member : m = Head(queue)
  BY DEF LinkTypes, LinkOne
<1> DEFINE seen == WithParents(tree, Above(m.to))
<1>2. m.to \in Path /\ m.path \in Path
  BY DEF Member
<1>3. seen \in Tree
  <2>1. \A p \in Above(m.to) : Above(p) \subseteq Above(m.to)
    BY <1>2, AboveIsOrder
  <2> QED BY <2>1, AboveInPath, MadeIsTree
<1>4. \/ tree' = seen
      \/ CanLink(seen, m) /\ tree' = [seen EXCEPT ![m.path] = seen[m.to]]
  BY <1>1 DEF LinkOne
<1> HIDE DEF seen
<1>5. seen[m.to] \in Node
  BY <1>2, <1>3 DEF Tree
<1> QED BY <1>2, <1>3, <1>4, <1>5, SetIsTree DEF CanLink

LEMMA TreeStep ==
    IInv /\ archive \in Archive /\ tree \in Tree /\ dirs \subseteq Path /\ [Next]_vars
        => tree' \in Tree /\ dirs' \subseteq Path
<1> SUFFICES ASSUME IInv, archive \in Archive, tree \in Tree, dirs \subseteq Path, [Next]_vars
             PROVE  tree' \in Tree /\ dirs' \subseteq Path
  OBVIOUS
<1>0. \A i \in DOMAIN archive : archive[i] \in Member
  BY DEF IInv, LinkTypes
<1>1. ASSUME NEW i \in DOMAIN archive, Hide(archive[i]) PROVE tree' \in Tree /\ UNCHANGED dirs
  <2> DEFINE m == archive[i]
  <2>1. m \in Member /\ m.path \in Path /\ Below(m.path) \subseteq Path
    BY <1>0 DEF Member, Below
  <2>2. WithParents(tree, Parents(m)) \in Tree
    BY <2>1, ParentsAreClosed, MadeIsTree
  <2>3. \E paths \in SUBSET Path : tree' = Without(WithParents(tree, Parents(m)), paths)
    BY <1>1, <2>1 DEF Hide
  <2> QED BY <1>1, <2>2, <2>3, LeftIsTree DEF Hide
<1>2. ASSUME NEW i \in DOMAIN archive, MakeDir(archive[i])
      PROVE  tree' \in Tree /\ dirs' \subseteq Path
  <2>1. archive[i] \in Member /\ archive[i].path \in Path
    BY <1>0 DEF Member
  <2>2. archive[i].kind # "opaque" /\ dirs' = dirs \cup {archive[i].path}
    BY <1>2 DEF MakeDir
  <2>3. UNCHANGED tree \/ Put(archive[i], Dir)
    BY <1>2 DEF MakeDir
  <2> QED BY <2>1, <2>2, <2>3, PutIsTree, DirIsNode
<1>3. ASSUME NEW i \in DOMAIN archive, MakeFile(archive[i]) PROVE tree' \in Tree /\ UNCHANGED dirs
  <2>1. archive[i] \in Member /\ archive[i].path \in Path /\ archive[i].to \in Path
    BY <1>0 DEF Member
  <2>2. archive[i].kind # "opaque"
    BY <1>3 DEF MakeFile
  <2>3. \E n \in Node : Put(archive[i], n)
    BY <1>3, <2>1 DEF MakeFile, Node
  <2> QED BY <1>3, <2>1, <2>2, <2>3, PutIsTree DEF MakeFile
<1>4. ASSUME NEW i \in DOMAIN archive, QueueLink(archive[i]) PROVE tree' \in Tree /\ UNCHANGED dirs
  BY <1>0, <1>4, PutIsTree, DirIsNode DEF QueueLink
<1>5. ASSUME NEW i \in DOMAIN archive, OmitDevice(archive[i]) PROVE tree' \in Tree /\ UNCHANGED dirs
  BY <1>0, <1>5, ParentsAreClosed, MadeIsTree DEF OmitDevice
<1>6. CASE LinkOne
  BY <1>6, LinkIsTree DEF IInv, LinkOne
<1>7. CASE PassOver \/ NextPass \/ EndRound \/ Finish \/ Fail \/ UNCHANGED vars
  BY <1>7 DEF PassOver, NextPass, EndRound, Finish, Fail, vars, links
<1> QED BY <1>1, <1>2, <1>3, <1>4, <1>5, <1>6, <1>7 DEF Next, Ended

\* Extraction leaves a tree at every step, whatever the archive holds: nothing is
\* ever below what is no directory.
THEOREM LayerTypes == Spec => []TypeOK
<1> DEFINE Source == lower \in Lower /\ archive \in Archive
           Passes == pass \in {"whiteouts", "members", "links", "done", "failed"}
           TInv == IInv /\ Source /\ Passes /\ tree \in Tree /\ dirs \subseteq Path
<1>1. Init => TInv
  BY Base, LayerAssumption DEF Init
<1>2. TInv /\ [Next]_vars => TInv'
  <2> SUFFICES ASSUME TInv, [Next]_vars PROVE TInv'
    OBVIOUS
  <2>1. IInv' /\ tree' \in Tree /\ dirs' \subseteq Path
    BY Inductive, TreeStep
  <2>2. UNCHANGED source
    BY DEF Next, Hide, MakeDir, MakeFile, QueueLink, OmitDevice, MoveOn, PassOver, NextPass,
           LinkOne, EndRound, Finish, Fail, Ended, vars, source
  <2>3. Passes'
    BY DEF Next, Hide, MakeDir, MakeFile, QueueLink, OmitDevice, MoveOn, PassOver, NextPass,
           LinkOne, EndRound, Finish, Fail, Ended, vars
  <2> QED BY <2>1, <2>2, <2>3 DEF source
<1>3. TInv => TypeOK
  BY DEF TypeOK, IInv, LinkTypes
<1> QED BY <1>1, <1>2, <1>3, PTL DEF Spec

-----------------------------------------------------------------------------
(* The members applied so far, and what they mean                          *)

\* The node that stands for an entry until the hard links are made.
NodeOf(m) ==
    IF m.kind = "dir" THEN Dir
    ELSE IF m.kind = "file" THEN File("layer", m.path)
    ELSE IF m.kind = "symlink" THEN Symlink(m.to)
    ELSE Gone

\* What some members make of a path, before the hard links: IsLayering() for them.
Means(some, p, node) ==
    /\ \A m \in Entries \cap some : m.path = p => node = NodeOf(m)
    /\ (\A m \in Entries \cap some : m.path # p) =>
          node = IF \E m \in some : p \in Parents(m) THEN Dir
                 ELSE IF \/ \E m \in Whiteouts \cap some : p \in Hides(m)
                         \/ \E m \in Entries \cap some : m.kind # "dir" /\ p \in Below(m.path)
                   THEN Gone
                 ELSE lower[p]

Read == {archive[i] : i \in {j \in DOMAIN archive : j < at}}
Applied ==
    IF pass = "whiteouts" THEN Whiteouts \cap Read
    ELSE IF pass = "members" THEN Whiteouts \cup Read
    ELSE Members

Waiting == Range(queue) \cup Range(next)

\* The two passes over the members: the tree is what the members applied mean, and
\* the hard links among them wait.
PassInv ==
    pass \in {"whiteouts", "members"} =>
        /\ \A p \in Path : Means(Applied, p, tree[p])
        /\ Waiting = Links \cap Applied

\* In the rounds only what means nothing has changed: into a directory above the
\* target of a link, or into a link.
RoundTree(p, node) ==
    \/ Means(Members, p, node)
    \/ /\ Means(Members, p, Gone)
       /\ \/ node = Dir /\ \E m \in Links : p \in Above(m.to)
          \/ node.kind = "file" /\ \E m \in Links : p = m.path

\* And a link waits or is made.
RoundInv ==
    pass \in {"links", "done"} =>
        /\ \A p \in Path : RoundTree(p, tree[p])
        /\ Waiting \subseteq Links
        /\ \A m \in Links :
              m \in Waiting \/ (tree[m.path] = tree[m.to] /\ tree[m.path].kind = "file")

MeaningInv == Plain => PassInv /\ RoundInv

-----------------------------------------------------------------------------
(* What a member does to the meaning                                       *)

LEMMA Ordered ==
    \A p \in Path : \A q \in Above(p) :
        /\ q \in Path /\ q # p /\ p \notin Above(q)
        /\ \A o \in Above(q) : o \in Above(p)
BY AboveIsOrder

LEMMA BelowIsAbove == \A p, q \in Path : p \in Below(q) <=> q \in Above(p)
BY DEF Above

LEMMA MembersTyped ==
    ASSUME archive \in Seq(Member)
    PROVE  \A m \in Members : m \in Member /\ m.path \in Path /\ m.to \in Path
<1>1. \A m \in Members : m \in Member
  BY DEF Members
<1>2. \A m \in Member : m.path \in Path /\ m.to \in Path
  BY DEF Member
<1> QED BY <1>1, <1>2

\* A directory an entry needs is hidden by no whiteout of its own layer's parents.
LEMMA HideMeans ==
    ASSUME archive \in Seq(Member), Plain, NEW t \in Tree,
           NEW some \in SUBSET Whiteouts, \A p \in Path : Means(some, p, t[p]),
           NEW m \in Whiteouts
    PROVE  LET u == Without(WithParents(t, Parents(m)),
                            IF m.kind = "opaque" THEN Below(m.path) ELSE {m.path})
           IN  \A p \in Path : Means(some \cup {m}, p, u[p])
<1> DEFINE paths == IF m.kind = "opaque" THEN Below(m.path) ELSE {m.path}
           u == Without(WithParents(t, Parents(m)), paths)
<1>1. m \in Members /\ m.path \in Path
  BY MembersTyped DEF Whiteouts
<1>2. \A w \in Whiteouts : w \notin Entries
  BY DEF Whiteouts, Entries, IsWhiteout
<1>3. ASSUME NEW p \in Path PROVE (p \in paths \/ Above(p) \cap paths # {}) <=> p \in Hides(m)
  <2>1. CASE m.kind = "opaque"
    BY <1>1, <1>3, <2>1, Ordered, BelowIsAbove DEF Hides
  <2>2. CASE m.kind # "opaque"
    BY <1>1, <1>3, <2>2, Ordered, BelowIsAbove DEF Hides
  <2> QED BY <2>1, <2>2
<1>4. ASSUME NEW p \in Path
      PROVE  u[p] = IF p \in Hides(m) THEN Gone ELSE IF p \in Parents(m) THEN Dir ELSE t[p]
  <2> HIDE DEF paths
  <2> QED BY <1>3, <1>4 DEF Without, WithParents
<1>5. \A n \in Whiteouts : \A p \in Parents(n) : p \notin Hides(m)
  BY DEF Plain
<1> HIDE DEF u, paths
<1>6. ASSUME NEW p \in Path PROVE Means(some \cup {m}, p, u[p])
  <2>1. Means(some, p, t[p])
    BY <1>6
  <2>2. t[p] = IF \E n \in some : p \in Parents(n) THEN Dir
               ELSE IF \E n \in some : p \in Hides(n) THEN Gone ELSE lower[p]
    BY <1>2, <2>1 DEF Means
  <2>3. u[p] = IF \E n \in some \cup {m} : p \in Parents(n) THEN Dir
               ELSE IF \E n \in some \cup {m} : p \in Hides(n) THEN Gone ELSE lower[p]
    BY <1>4, <1>5, <1>6, <2>2
  <2>4. Entries \cap (some \cup {m}) = {} /\ Whiteouts \cap (some \cup {m}) = some \cup {m}
    BY <1>2
  <2> QED BY <2>3, <2>4 DEF Means
<1> QED BY <1>6 DEF u, paths

\* A plain archive has one member for the name of an entry.
LEMMA OneEntry ==
    ASSUME archive \in Seq(Member), Plain, NEW m \in Entries, NEW n \in Entries, m.path = n.path
    PROVE  m = n
<1>1. PICK i \in DOMAIN archive : archive[i] = m
  BY DEF Entries, Members
<1>2. PICK j \in DOMAIN archive : archive[j] = n
  BY DEF Entries, Members
<1> QED BY <1>1, <1>2 DEF Plain

\* An entry is put where it belongs; what was below a non-directory goes with it.
LEMMA PutMeans ==
    ASSUME archive \in Seq(Member), Plain, NEW t \in Tree, NEW u,
           NEW some \in SUBSET Members, \A p \in Path : Means(some, p, t[p]),
           NEW m \in Entries,
           u[m.path] = NodeOf(m),
           \A p \in Above(m.path) : u[p] = Dir,
           \A p \in Path : m.path \in Above(p) => u[p] = IF m.kind = "dir" THEN t[p] ELSE Gone,
           \A p \in Path : p # m.path /\ p \notin Above(m.path) /\ m.path \notin Above(p)
                              => u[p] = t[p]
    PROVE  \A p \in Path : Means(some \cup {m}, p, u[p])
<1>1. m \in Members /\ m.path \in Path /\ Parents(m) = Above(m.path) /\ m \notin Whiteouts
  BY MembersTyped DEF Entries, Whiteouts, IsWhiteout, Parents
<1>2. \A n \in Members : m.kind # "dir" /\ n.path # m.path => m.path \notin Parents(n)
  BY DEF Plain
<1>3. \A n \in Members : n.path \in Path /\ Above(n.path) \subseteq Parents(n)
                           /\ Parents(n) \subseteq Above(n.path) \cup {n.path}
  BY MembersTyped DEF Parents
<1>4. Whiteouts \cap (some \cup {m}) = Whiteouts \cap some
  BY <1>1
<1>5. Entries \subseteq Members
  BY DEF Entries
<1> SUFFICES ASSUME NEW p \in Path PROVE Means(some \cup {m}, p, u[p])
  OBVIOUS
<1>6. Means(some, p, t[p])
  OBVIOUS
<1>7. CASE p = m.path
  <2>1. \A n \in Entries \cap (some \cup {m}) : n.path = p => u[p] = NodeOf(n)
    BY <1>7, OneEntry
  <2> QED BY <1>7, <2>1 DEF Means
<1>8. CASE p \in Above(m.path)
  <2>1. p # m.path /\ p \in Parents(m)
    BY <1>1, <1>8, Ordered
  <2>2. ASSUME NEW n \in Entries, n.path = p PROVE u[p] = NodeOf(n)
    <3>1. n.kind = "dir"
      BY <1>1, <2>1, <2>2 DEF Plain
    <3> QED BY <1>8, <3>1 DEF NodeOf
  <2> QED BY <1>8, <2>1, <2>2 DEF Means
<1>9. CASE m.path \in Above(p) /\ m.kind # "dir"
  <2>1. \A n \in Members : p \notin Parents(n) /\ n.path # p
    <3> SUFFICES ASSUME NEW n \in Members, p \in Parents(n) \/ n.path = p PROVE FALSE
      OBVIOUS
    <3>1. m.path \in Above(n.path)
      BY <1>3, <1>9, Ordered
    <3>2. m.path \in Parents(n) /\ n.path # m.path
      BY <1>1, <1>3, <3>1, Ordered
    <3> QED BY <1>2, <1>9, <3>2
  <2>2. p \in Below(m.path) /\ u[p] = Gone
    BY <1>1, <1>9, BelowIsAbove
  <2>3. \A n \in some \cup {m} : p \notin Parents(n)
    BY <1>1, <2>1
  <2>4. \E n \in Entries \cap (some \cup {m}) : n.kind # "dir" /\ p \in Below(n.path)
    BY <1>9, <2>2
  <2>5. \A n \in Entries \cap (some \cup {m}) : n.path # p
    BY <1>5, <2>1
  <2> QED BY <2>2, <2>3, <2>4, <2>5 DEF Means
<1>10. CASE /\ p # m.path /\ p \notin Above(m.path)
            /\ m.path \notin Above(p) \/ m.kind = "dir"
  <2>1. u[p] = t[p]
    BY <1>10
  <2>2. p \notin Parents(m) /\ ~(m.kind # "dir" /\ p \in Below(m.path))
    BY <1>1, <1>10, BelowIsAbove
  <2>3. (\E n \in some \cup {m} : p \in Parents(n)) <=> (\E n \in some : p \in Parents(n))
    BY <2>2
  <2>4. (\E n \in Entries \cap (some \cup {m}) : n.kind # "dir" /\ p \in Below(n.path))
          <=> (\E n \in Entries \cap some : n.kind # "dir" /\ p \in Below(n.path))
    BY <2>2
  <2>5. \A n \in Entries \cap (some \cup {m}) : n.path = p => n \in Entries \cap some
    BY <1>10
  <2>6. \A n \in Entries \cap some : n \in Entries \cap (some \cup {m})
    OBVIOUS
  <2> QED BY <1>4, <1>6, <2>1, <2>3, <2>4, <2>5, <2>6 DEF Means
<1> QED BY <1>7, <1>8, <1>9, <1>10

\* What Put() leaves at a path, for an entry.
LEMMA PutAt ==
    ASSUME NEW m \in Member, m.kind # "opaque", tree \in Tree, NEW node, Put(m, node)
    PROVE  /\ tree'[m.path] = node
           /\ \A p \in Above(m.path) : tree'[p] = Dir
           /\ \A p \in Path : m.path \in Above(p) => tree'[p] = Gone
           /\ \A p \in Path : p # m.path /\ p \notin Above(m.path) /\ m.path \notin Above(p)
                                 => tree'[p] = tree[p]
<1> DEFINE u == Without(WithParents(tree, Parents(m)), {m.path})
<1>1. m.path \in Path /\ Parents(m) = Above(m.path)
  BY DEF Member, Parents
<1>2. tree' = [u EXCEPT ![m.path] = node]
  BY DEF Put
<1>3. DOMAIN u = Path
  BY DEF Without
<1>4. \A p \in Path : u[p] = IF p = m.path \/ m.path \in Above(p) THEN Gone
                             ELSE IF p \in Above(m.path) THEN Dir ELSE tree[p]
  BY <1>1 DEF Without, WithParents
<1> HIDE DEF u
<1>5. \A p \in Path : p # m.path => tree'[p] = u[p]
  BY <1>2, <1>3
<1>6. \A p \in Above(m.path) : p \in Path /\ p # m.path /\ m.path \notin Above(p)
  BY <1>1, Ordered
<1>7. \A p \in Path : m.path \in Above(p) => p # m.path
  BY Ordered
<1> QED BY <1>1, <1>2, <1>3, <1>4, <1>5, <1>6, <1>7

\* The directory entry of a plain archive never meets a symlink.
LEMMA NoDirOverSymlink ==
    ASSUME archive \in Seq(Member), Plain, NEW t,
           NEW some \in SUBSET Members, Whiteouts \subseteq some, NEW m \in Entries,
           m.kind = "dir", Means(some, m.path, t[m.path])
    PROVE  t[m.path].kind # "symlink"
<1>1. m \in Members /\ m.path \in Path
  BY MembersTyped DEF Entries
<1>2. CASE \E n \in Entries \cap some : n.path = m.path
  <2>1. t[m.path] = NodeOf(m)
    BY <1>2, OneEntry DEF Means
  <2> QED BY <2>1 DEF NodeOf, Dir
<1>3. CASE ~\E n \in Entries \cap some : n.path = m.path
  <2>1. t[m.path] \in {Dir, Gone} \/ t[m.path] = lower[m.path]
    BY <1>3 DEF Means
  <2>2. CASE t[m.path] \in {Dir, Gone}
    BY <2>2 DEF Dir, Gone
  <2>3. CASE t[m.path] \notin {Dir, Gone}
    <3>1. ~\E n \in Whiteouts \cap some : m.path \in Hides(n)
      BY <1>3, <2>3 DEF Means
    <3>2. m.path \notin Hidden
      BY <3>1 DEF Hidden
    <3> QED BY <2>1, <2>3, <3>2 DEF Plain
  <2> QED BY <2>2, <2>3
<1> QED BY <1>2, <1>3

LEMMA NodesByKind ==
    \A n \in Node : /\ n.kind \in {"gone", "dir", "symlink", "file"}
                    /\ n.kind = "gone" <=> n = Gone
                    /\ n.kind = "dir" <=> n = Dir
BY DEF Node, Gone, Dir, Symlink, File

LEMMA MakeDirMeans ==
    ASSUME archive \in Seq(Member), Plain, tree \in Tree,
           NEW some \in SUBSET Members, Whiteouts \subseteq some,
           \A p \in Path : Means(some, p, tree[p]),
           NEW m \in Members, MakeDir(m)
    PROVE  \A p \in Path : Means(some \cup {m}, p, tree'[p])
<1>1. m \in Entries /\ m.kind = "dir" /\ m.path \in Path /\ NodeOf(m) = Dir /\ m \in Member
  BY MembersTyped DEF MakeDir, Entries, NodeOf
<1>2. tree[m.path].kind # "symlink"
  BY <1>1, NoDirOverSymlink
<1>3. tree[m.path] \in Node
  BY <1>1 DEF Tree
<1>4. CASE tree[m.path] = Dir /\ UNCHANGED tree
  <2>1. \A p \in Above(m.path) : tree[p] = Dir
    BY <1>1, <1>4, DirIsNode DEF Tree
  <2> QED BY <1>1, <1>4, <2>1, PutMeans
<1>5. CASE tree[m.path] # Dir /\ Put(m, Dir)
  <2>1. \A p \in Path : m.path \in Above(p) => tree[p] = Gone
    BY <1>5 DEF Tree
  <2>2. m.kind # "opaque"
    BY <1>1
  <2>3. /\ tree'[m.path] = Dir
        /\ \A p \in Above(m.path) : tree'[p] = Dir
        /\ \A p \in Path : m.path \in Above(p) => tree'[p] = tree[p]
        /\ \A p \in Path : p # m.path /\ p \notin Above(m.path) /\ m.path \notin Above(p)
                              => tree'[p] = tree[p]
    BY <1>1, <1>5, <2>1, <2>2, PutAt
  <2> HIDE DEF Put
  <2> QED BY <1>1, <2>3, PutMeans
<1>6. \/ tree[m.path] = Dir /\ UNCHANGED tree
      \/ tree[m.path] # Dir /\ Put(m, Dir)
  <2>1. Seen(tree, m.path) = tree[m.path].kind
    BY <1>2 DEF Seen
  <2>2. \/ tree[m.path].kind = "dir" /\ UNCHANGED tree
        \/ tree[m.path].kind # "dir" /\ Put(m, Dir)
    BY <2>1, DirIsNode, NodesByKind, <1>3 DEF MakeDir
  <2> QED BY <1>3, <2>2, NodesByKind
<1> QED BY <1>4, <1>5, <1>6

LEMMA MakeFileMeans ==
    ASSUME archive \in Seq(Member), Plain, tree \in Tree,
           NEW some \in SUBSET Members, \A p \in Path : Means(some, p, tree[p]),
           NEW m \in Members, MakeFile(m) \/ QueueLink(m)
    PROVE  \A p \in Path : Means(some \cup {m}, p, tree'[p])
<1>1. m \in Entries /\ m.kind \in {"file", "symlink", "link"} /\ m \in Member
  BY MembersTyped DEF MakeFile, QueueLink, Entries
<1>2. Put(m, NodeOf(m))
  BY DEF MakeFile, QueueLink, NodeOf
<1>3. m.kind # "opaque" /\ m.kind # "dir"
  BY <1>1
<1>4. /\ tree'[m.path] = NodeOf(m)
      /\ \A p \in Above(m.path) : tree'[p] = Dir
      /\ \A p \in Path : m.path \in Above(p) => tree'[p] = Gone
      /\ \A p \in Path : p # m.path /\ p \notin Above(m.path) /\ m.path \notin Above(p)
                            => tree'[p] = tree[p]
  BY <1>1, <1>2, <1>3, PutAt
<1> QED BY <1>1, <1>3, <1>4, PutMeans

\* Nothing but directories is ever in the place of a parent.
LEMMA DeviceMeans ==
    ASSUME archive \in Seq(Member), Plain, tree \in Tree,
           NEW some \in SUBSET Members, \A p \in Path : Means(some, p, tree[p]),
           NEW m \in Members, OmitDevice(m)
    PROVE  \A p \in Path : Means(some \cup {m}, p, tree'[p])
<1>1. m.kind = "device" /\ m \notin Entries /\ m \notin Whiteouts /\ Parents(m) = Above(m.path)
  BY DEF OmitDevice, Entries, Whiteouts, IsWhiteout, Parents
<1>2. \A p \in Path : tree'[p] = IF p \in Parents(m) THEN Dir ELSE tree[p]
  BY DEF OmitDevice, WithParents
<1>3. Entries \cap (some \cup {m}) = Entries \cap some
      /\ Whiteouts \cap (some \cup {m}) = Whiteouts \cap some
  BY <1>1
<1> SUFFICES ASSUME NEW p \in Path PROVE Means(some \cup {m}, p, tree'[p])
  OBVIOUS
<1>4. CASE p \in Parents(m)
  <2>1. ASSUME NEW n \in Entries, n.path = p PROVE Dir = NodeOf(n)
    <3>1. n.kind = "dir"
      BY <1>4, <1>1, <2>1, MembersTyped, Ordered DEF Plain, Entries
    <3> QED BY <3>1 DEF NodeOf
  <2> QED BY <1>2, <1>3, <1>4, <2>1 DEF Means
<1>5. CASE p \notin Parents(m)
  <2>1. Means(some, p, tree[p]) /\ tree'[p] = tree[p]
    BY <1>2, <1>5
  <2>2. (\E n \in some \cup {m} : p \in Parents(n)) <=> (\E n \in some : p \in Parents(n))
    BY <1>5
  <2> QED BY <1>3, <2>1, <2>2 DEF Means
<1> QED BY <1>4, <1>5

-----------------------------------------------------------------------------
(* The passes                                                              *)

\* What every step keeps, and what the invariants of a plain archive rest on.
Types == IInv /\ TypeOK

LEMMA SourceStays == [Next]_vars => UNCHANGED source
BY DEF Next, Hide, MakeDir, MakeFile, QueueLink, OmitDevice, MoveOn, PassOver, NextPass,
       LinkOne, EndRound, Finish, Fail, Ended, vars, source

\* A loop over the members has read one more member when it moves on.
LEMMA ReadOneMore ==
    ASSUME archive \in Seq(Member), at \in Nat \ {0}, at <= Len(archive), MoveOn
    PROVE  archive[at] \in Members /\ Read' = Read \cup {archive[at]}
<1>1. archive' = archive /\ at' = at + 1
  BY DEF MoveOn, source
<1>2. at \in DOMAIN archive /\ DOMAIN archive \subseteq Nat
  OBVIOUS
<1>3. \A j \in DOMAIN archive : j < at + 1 <=> j < at \/ j = at
  BY <1>2
<1> QED BY <1>1, <1>2, <1>3 DEF Read, Members

LEMMA AllRead ==
    ASSUME archive \in Seq(Member), at \in Nat, at > Len(archive)
    PROVE  Read = Members
BY DEF Read, Members

LEMMA AppliedAreMembers == Applied \in SUBSET Members
BY DEF Applied, Whiteouts, Read, Members

\* The meaning does not depend on where extraction is.
LEMMA MeaningStays ==
    ASSUME UNCHANGED source, NEW now, Applied' = now, \A p \in Path : Means(now, p, tree'[p])
    PROVE  (\A p \in Path : Means(Applied, p, tree[p]))'
<1>1. lower' = lower /\ archive' = archive
  BY DEF source
<1>2. Entries' = Entries /\ Whiteouts' = Whiteouts
  BY <1>1 DEF Entries, Whiteouts, Members
<1> QED BY <1>1, <1>2 DEF Means

LEMMA AppliedOneMore ==
    ASSUME archive \in Seq(Member), at \in Nat \ {0}, at <= Len(archive), MoveOn,
           pass \in {"whiteouts", "members"}
    PROVE  Applied' = Applied \cup
              (IF pass = "whiteouts" THEN Whiteouts \cap {archive[at]} ELSE {archive[at]})
<1>1. Read' = Read \cup {archive[at]}
  BY ReadOneMore
<1>2. pass' = pass /\ archive' = archive
  BY DEF MoveOn, source
<1>3. Whiteouts' = Whiteouts
  BY <1>2 DEF Whiteouts, Members
<1> QED BY <1>1, <1>2, <1>3 DEF Applied

LEMMA RangeOfAppend ==
    ASSUME NEW S, NEW s \in Seq(S), NEW e PROVE Range(Append(s, e)) = Range(s) \cup {e}
<1>1. DOMAIN Append(s, e) = DOMAIN s \cup {Len(s) + 1}
  OBVIOUS
<1>2. \A i \in DOMAIN s : Append(s, e)[i] = s[i]
  OBVIOUS
<1>3. Append(s, e)[Len(s) + 1] = e
  OBVIOUS
<1> QED BY <1>1, <1>2, <1>3 DEF Range

LEMMA RangeOfTail ==
    ASSUME NEW S, NEW s \in Seq(S), s # <<>>
    PROVE  /\ Head(s) \in Range(s) /\ Range(s) = Range(Tail(s)) \cup {Head(s)}
           /\ IsInjective(s) => IsInjective(Tail(s)) /\ Head(s) \notin Range(Tail(s))
<1>1. /\ DOMAIN s = 1..Len(s) /\ Len(s) \in Nat \ {0} /\ Head(s) = s[1]
      /\ DOMAIN Tail(s) = 1..(Len(s) - 1) /\ \A i \in DOMAIN Tail(s) : Tail(s)[i] = s[i + 1]
  OBVIOUS
<1>2. \A i \in DOMAIN s : i = 1 \/ (i - 1 \in DOMAIN Tail(s) /\ s[i] = Tail(s)[i - 1])
  BY <1>1
<1>3. \A i \in DOMAIN Tail(s) : i + 1 \in DOMAIN s /\ i + 1 # 1
  BY <1>1
<1>4. 1 \in DOMAIN s
  BY <1>1
<1>5. Head(s) \in Range(s)
  BY <1>1, <1>4 DEF Range
<1>6. Range(s) = Range(Tail(s)) \cup {Head(s)}
  <2>1. ASSUME NEW e \in Range(s) PROVE e \in Range(Tail(s)) \cup {Head(s)}
    <3>1. PICK i \in DOMAIN s : e = s[i]
      BY <2>1 DEF Range
    <3> QED BY <1>1, <1>2, <3>1 DEF Range
  <2>2. ASSUME NEW e \in Range(Tail(s)) PROVE e \in Range(s)
    <3>1. PICK i \in DOMAIN Tail(s) : e = Tail(s)[i]
      BY <2>2 DEF Range
    <3> QED BY <1>1, <1>3, <3>1 DEF Range
  <2> QED BY <1>5, <2>1, <2>2
<1>7. ASSUME IsInjective(s) PROVE IsInjective(Tail(s)) /\ Head(s) \notin Range(Tail(s))
  <2>1. \A i, j \in DOMAIN s : s[i] = s[j] => i = j
    BY <1>7 DEF IsInjective
  <2>2. ASSUME NEW i \in DOMAIN Tail(s), NEW j \in DOMAIN Tail(s), Tail(s)[i] = Tail(s)[j]
        PROVE  i = j
    <3>1. i + 1 \in DOMAIN s /\ j + 1 \in DOMAIN s /\ s[i + 1] = s[j + 1]
      BY <1>1, <1>3, <2>2
    <3>2. i + 1 = j + 1
      BY <2>1, <3>1
    <3> QED BY <1>1, <3>2
  <2>3. ASSUME NEW i \in DOMAIN Tail(s) PROVE Tail(s)[i] # Head(s)
    BY <1>1, <1>3, <1>4, <2>1
  <2> QED BY <2>2, <2>3 DEF IsInjective, Range
<1> QED BY <1>5, <1>6, <1>7

LEMMA WaitingStays == UNCHANGED <<queue, next>> => Waiting' = Waiting
BY DEF Waiting

LEMMA LinksStay == UNCHANGED source => Links' = Links /\ Members' = Members /\ (Plain' <=> Plain)
<1> SUFFICES ASSUME UNCHANGED source
             PROVE  Links' = Links /\ Members' = Members /\ (Plain' <=> Plain)
  OBVIOUS
<1>1. lower' = lower /\ archive' = archive
  BY DEF source
<1>2. Members' = Members /\ Links' = Links
  BY <1>1 DEF Members, Links
<1>3. Entries' = Entries /\ Whiteouts' = Whiteouts
  BY <1>2 DEF Entries, Whiteouts
<1>4. Hidden' = Hidden
  BY <1>3 DEF Hidden
<1> QED BY <1>1, <1>2, <1>3, <1>4 DEF Plain

\* A member that is applied: the tree is what it means with those before it.
LEMMA MemberApplied ==
    ASSUME Types, Plain, PassInv, NEW i \in DOMAIN archive, at = i,
           \/ Hide(archive[i]) \/ MakeDir(archive[i]) \/ MakeFile(archive[i])
           \/ QueueLink(archive[i]) \/ OmitDevice(archive[i])
    PROVE  PassInv' /\ RoundInv'
<1> DEFINE m == archive[i]
<1>0. /\ archive \in Seq(Member) /\ tree \in Tree /\ at \in Nat \ {0} /\ at <= Len(archive)
      /\ m \in Members
  BY DEF Types, TypeOK, IInv, LinkTypes, Members
<1>1. pass \in {"whiteouts", "members"} /\ MoveOn /\ UNCHANGED source /\ pass' = pass
  BY DEF Hide, MakeDir, MakeFile, QueueLink, OmitDevice, At, MoveOn
<1>2. (\A p \in Path : Means(Applied, p, tree[p])) /\ Waiting = Links \cap Applied
  BY <1>1 DEF PassInv
<1>3. Applied \in SUBSET Members /\ (pass = "whiteouts" => Applied \in SUBSET Whiteouts)
        /\ (pass = "members" => Whiteouts \subseteq Applied)
  BY AppliedAreMembers DEF Applied
<1>4. Links' = Links
  BY <1>1, LinksStay
<1>5. Applied' = Applied \cup {m} /\ \A p \in Path : Means(Applied \cup {m}, p, tree'[p])
  <2>1. CASE Hide(m)
    <3>1. pass = "whiteouts" /\ m \in Whiteouts
      BY <1>0, <2>1 DEF Hide, At, Whiteouts
    <3>2. Applied' = Applied \cup {m}
      BY <1>0, <1>1, <3>1, AppliedOneMore
    <3>3. tree' = Without(WithParents(tree, Parents(m)),
                          IF m.kind = "opaque" THEN Below(m.path) ELSE {m.path})
      BY <2>1 DEF Hide
    <3> QED BY <1>0, <1>2, <1>3, <3>1, <3>2, <3>3, HideMeans
  <2>2. CASE MakeDir(m) \/ MakeFile(m) \/ QueueLink(m) \/ OmitDevice(m)
    <3>1. pass = "members"
      BY <2>2 DEF MakeDir, MakeFile, QueueLink, OmitDevice, At
    <3>2. Applied' = Applied \cup {m}
      BY <1>0, <1>1, <3>1, AppliedOneMore
    <3> QED BY <1>0, <1>2, <1>3, <2>2, <3>1, <3>2, MakeDirMeans, MakeFileMeans, DeviceMeans
  <2> QED BY <2>1, <2>2
<1>6. Waiting' = Links \cap (Applied \cup {m})
  <2>1. CASE QueueLink(m)
    <3>1. m \in Links /\ queue' = Append(queue, m) /\ next' = next
      BY <1>0, <2>1 DEF QueueLink, Links
    <3>2. queue \in Seq(Member)
      BY DEF Types, IInv, LinkTypes
    <3>3. Waiting' = Waiting \cup {m}
      BY <3>1, <3>2, RangeOfAppend DEF Waiting
    <3> QED BY <1>2, <3>1, <3>3
  <2>2. CASE ~QueueLink(m)
    <3>1. m \notin Links
      BY <2>2 DEF Hide, MakeDir, MakeFile, OmitDevice, Links, IsWhiteout
    <3>2. UNCHANGED <<queue, next>>
      BY <2>2 DEF Hide, MakeDir, MakeFile, OmitDevice, links
    <3> QED BY <1>2, <3>1, <3>2, WaitingStays
  <2> QED BY <2>1, <2>2
<1>7. (\A p \in Path : Means(Applied, p, tree[p]))'
  BY <1>1, <1>5, MeaningStays
<1>8. PassInv'
  BY <1>4, <1>5, <1>6, <1>7 DEF PassInv
<1> QED BY <1>1, <1>8 DEF RoundInv

LEMMA PassesOver ==
    ASSUME Types, Plain, PassInv, PassOver PROVE PassInv' /\ RoundInv'
<1>1. /\ archive \in Seq(Member) /\ at \in Nat \ {0} /\ at <= Len(archive)
      /\ pass \in {"whiteouts", "members"} /\ MoveOn /\ pass' = pass /\ UNCHANGED source
      /\ UNCHANGED <<tree, queue, next>>
  BY DEF Types, TypeOK, IInv, LinkTypes, PassOver, MoveOn, links
<1>2. Applied' = Applied
  <2>1. Applied' = Applied \cup
           (IF pass = "whiteouts" THEN Whiteouts \cap {archive[at]} ELSE {archive[at]})
    BY <1>1, AppliedOneMore
  <2>2. archive[at] \in Members
    BY <1>1 DEF Members
  <2>3. pass = "whiteouts" => archive[at] \notin Whiteouts
    BY DEF PassOver, Whiteouts
  <2>4. pass = "members" => archive[at] \in Applied
    BY <2>2 DEF PassOver, Whiteouts, Applied
  <2> QED BY <1>1, <2>1, <2>3, <2>4
<1>3. \A p \in Path : Means(Applied, p, tree'[p])
  BY <1>1 DEF PassInv
<1>4. (\A p \in Path : Means(Applied, p, tree[p]))'
  BY <1>1, <1>2, <1>3, MeaningStays
<1>5. Waiting' = Waiting /\ Links' = Links
  BY <1>1, WaitingStays, LinksStay
<1> QED BY <1>1, <1>2, <1>4, <1>5 DEF PassInv, RoundInv

LEMMA RoundTreeStays ==
    ASSUME UNCHANGED source, \A p \in Path : RoundTree(p, tree'[p])
    PROVE  (\A p \in Path : RoundTree(p, tree[p]))'
<1>1. lower' = lower /\ archive' = archive
  BY DEF source
<1>2. Members' = Members /\ Links' = Links
  BY LinksStay
<1>3. Entries' = Entries /\ Whiteouts' = Whiteouts
  BY <1>2 DEF Entries, Whiteouts
<1> QED BY <1>1, <1>2, <1>3 DEF RoundTree, Means

LEMMA PassEnds ==
    ASSUME Types, Plain, PassInv, NextPass PROVE PassInv' /\ RoundInv'
<1>1. /\ archive \in Seq(Member) /\ at \in Nat /\ at > Len(archive) /\ at' = 1
      /\ UNCHANGED source /\ UNCHANGED <<tree, queue, next>>
      /\ pass \in {"whiteouts", "members"}
  BY DEF Types, TypeOK, IInv, LinkTypes, NextPass
<1>2. Read = Members /\ Whiteouts \subseteq Members
  BY <1>1, AllRead DEF Whiteouts
<1>3. (\A p \in Path : Means(Applied, p, tree'[p])) /\ Waiting = Links \cap Applied
  BY <1>1 DEF PassInv
<1>4. Waiting' = Waiting /\ Links' = Links /\ Members' = Members
  BY <1>1, WaitingStays, LinksStay
<1>5. CASE pass = "whiteouts"
  <2>1. pass' = "members"
    BY <1>5 DEF NextPass
  <2>2. Read' = {}
    BY <1>1 DEF Read, source
  <2>3. Whiteouts' = Whiteouts
    BY <1>4 DEF Whiteouts
  <2>4. Applied' = Applied
    BY <1>2, <1>5, <2>1, <2>2, <2>3 DEF Applied
  <2>5. (\A p \in Path : Means(Applied, p, tree[p]))'
    BY <1>1, <1>3, <2>4, MeaningStays
  <2> QED BY <1>3, <1>4, <2>1, <2>4, <2>5 DEF PassInv, RoundInv
<1>6. CASE pass = "members"
  <2>1. pass' = "links"
    BY <1>6 DEF NextPass
  <2>2. Applied = Members /\ Applied' = Members
    BY <1>2, <1>4, <1>6, <2>1 DEF Applied
  <2>3. \A p \in Path : RoundTree(p, tree'[p])
    BY <1>3, <2>2 DEF RoundTree
  <2>4. (\A p \in Path : RoundTree(p, tree[p]))'
    BY <1>1, <2>3, RoundTreeStays
  <2>5. Waiting = Links
    BY <1>3, <2>2 DEF Links
  <2> QED BY <1>4, <2>1, <2>4, <2>5 DEF PassInv, RoundInv
<1> QED BY <1>1, <1>5, <1>6

-----------------------------------------------------------------------------
(* The rounds                                                              *)

\* What a link changes: names that are not there, and nothing else.
LinkChange(m) ==
    \A p \in Path :
        \/ tree'[p] = tree[p]
        \/ /\ tree[p] = Gone
           /\ \/ tree'[p] = Dir /\ p \in Above(m.to)
              \/ tree'[p].kind = "file" /\ p = m.path

LinkPutOff(m) ==
    /\ Range(next') = Range(next) \cup {m} /\ Len(next') = Len(next) + 1
    /\ m \notin Range(next) /\ IsInjective(next) => IsInjective(next')
    /\ \A p \in Path : tree'[p] = tree[p] \/ tree'[p] = Dir
    /\ tree'[m.to].kind # "file"

LinkMade(m) ==
    /\ next' = next
    /\ tree'[m.path] = tree'[m.to] /\ tree'[m.path].kind = "file" /\ tree[m.path] = Gone

LEMMA LinkChanges ==
    ASSUME Types, LinkOne, NEW m, m = Head(queue)
    PROVE  /\ m \in Member /\ m \in Range(queue) /\ m.path \in Path /\ m.to \in Path
           /\ Range(queue) = Range(queue') \cup {m}
           /\ IsInjective(queue) => IsInjective(queue') /\ m \notin Range(queue')
           /\ LinkChange(m)
           /\ LinkPutOff(m) \/ LinkMade(m)
<1> DEFINE seen == WithParents(tree, Above(m.to))
<1>1. /\ queue \in Seq(Member) /\ next \in Seq(Member) /\ queue # <<>> /\ queue' = Tail(queue)
      /\ tree \in [Path -> Node] /\ tree \in Tree
  BY DEF Types, TypeOK, IInv, LinkTypes, LinkOne, Tree
<1>2. /\ m \in Range(queue) /\ Range(queue) = Range(queue') \cup {m}
      /\ IsInjective(queue) => IsInjective(queue') /\ m \notin Range(queue')
  BY <1>1, RangeOfTail
<1>3. m \in Member /\ m.path \in Path /\ m.to \in Path
  <2>1. m \in Member
    BY <1>1
  <2> QED BY <2>1 DEF Member
<1>4. \A p \in Path : seen[p] = IF p \in Above(m.to) THEN Dir ELSE tree[p]
  BY DEF WithParents
<1>5. \A p \in Above(m.to) : tree[p] = Gone \/ tree[p] = Dir
  <2>1. \A p \in Above(m.to) : tree[p].kind \in {"gone", "dir"}
    BY DEF LinkOne, Blocked
  <2> QED BY <1>1, <2>1, NodesByKind, AboveInPath
<1>6. DOMAIN seen = Path
  BY DEF WithParents
<1>7. \A p \in Path : seen[p] = tree[p] \/ (tree[p] = Gone /\ seen[p] = Dir /\ p \in Above(m.to))
  BY <1>4, <1>5
<1>8. \/ /\ seen[m.to].kind \in {"gone", "symlink"} /\ next' = Append(next, m) /\ tree' = seen
      \/ /\ CanLink(seen, m) /\ tree' = [seen EXCEPT ![m.path] = seen[m.to]] /\ next' = next
  BY DEF LinkOne
<1> HIDE DEF seen
<1>9. CASE seen[m.to].kind \in {"gone", "symlink"} /\ next' = Append(next, m) /\ tree' = seen
  <2>1. Range(next') = Range(next) \cup {m} /\ Len(next') = Len(next) + 1
    BY <1>1, <1>9, RangeOfAppend
  <2>2. tree'[m.to].kind # "file"
    BY <1>9
  <2>3. ASSUME m \notin Range(next), IsInjective(next) PROVE IsInjective(next')
    <3>1. /\ DOMAIN next' = DOMAIN next \cup {Len(next) + 1}
          /\ \A i \in DOMAIN next : next'[i] = next[i]
      BY <1>1, <1>9
    <3>2. next'[Len(next) + 1] = m
      BY <1>1, <1>9
    <3> QED BY <2>3, <3>1, <3>2 DEF IsInjective, Range
  <2>4. LinkPutOff(m) /\ LinkChange(m)
    BY <1>7, <1>9, <2>1, <2>2, <2>3 DEF LinkPutOff, LinkChange
  <2> QED BY <1>2, <1>3, <2>4
<1>10. CASE CanLink(seen, m) /\ tree' = [seen EXCEPT ![m.path] = seen[m.to]] /\ next' = next
  <2>1. seen[m.to].kind = "file" /\ seen[m.path] = Gone
    BY <1>10 DEF CanLink
  <2>2. m.path # m.to
    BY <2>1 DEF Gone
  <2>3. tree'[m.path] = seen[m.to] /\ \A p \in Path : p # m.path => tree'[p] = seen[p]
    BY <1>3, <1>6, <1>10
  <2>4. tree[m.path] = Gone
    BY <1>3, <1>4, <2>1, DirIsNode
  <2>5. LinkMade(m) /\ LinkChange(m)
    BY <1>3, <1>7, <1>10, <2>1, <2>2, <2>3, <2>4 DEF LinkMade, LinkChange
  <2> QED BY <1>2, <1>3, <2>5
<1> QED BY <1>8, <1>9, <1>10

LEMMA LinkRounds ==
    ASSUME Types, RoundInv, LinkOne PROVE RoundInv'
<1>1. UNCHANGED source /\ pass = "links"
  BY DEF LinkOne
<1>2. PICK m : m = Head(queue)
  OBVIOUS
<1>3. /\ m \in Range(queue) /\ m.path \in Path /\ m.to \in Path
      /\ Range(queue) = Range(queue') \cup {m}
      /\ LinkChange(m) /\ (LinkPutOff(m) \/ LinkMade(m))
  BY <1>2, LinkChanges
<1>4. /\ \A p \in Path : RoundTree(p, tree[p])
      /\ Waiting \subseteq Links
      /\ \A n \in Links : n \in Waiting \/ (tree[n.path] = tree[n.to] /\ tree[n.path].kind = "file")
  BY <1>1 DEF RoundInv
<1>5. m \in Links
  BY <1>3, <1>4 DEF Waiting
<1>6. \A p \in Path : RoundTree(p, tree'[p])
  <2> SUFFICES ASSUME NEW p \in Path PROVE RoundTree(p, tree'[p])
    OBVIOUS
  <2>1. CASE tree'[p] = tree[p]
    BY <1>4, <2>1
  <2>2. CASE tree'[p] # tree[p]
    <3>1. /\ tree[p] = Gone
          /\ \/ tree'[p] = Dir /\ p \in Above(m.to)
             \/ tree'[p].kind = "file" /\ p = m.path
      BY <1>3, <2>2 DEF LinkChange
    <3>2. Means(Members, p, Gone)
      BY <1>4, <3>1 DEF RoundTree
    <3> QED BY <1>5, <3>1, <3>2 DEF RoundTree
  <2> QED BY <2>1, <2>2
<1>7. (\A p \in Path : RoundTree(p, tree[p]))'
  BY <1>1, <1>6, RoundTreeStays
<1>8. Links' = Links /\ \A n \in Links : n.path \in Path /\ n.to \in Path
  <2>1. archive \in Seq(Member)
    BY DEF Types, IInv, LinkTypes
  <2> QED BY <1>1, <2>1, LinksStay, MembersTyped DEF Links
<1>9. Waiting' \subseteq Links
  BY <1>3, <1>4, <1>5 DEF Waiting, LinkPutOff, LinkMade
<1>10. ASSUME NEW n \in Links
       PROVE  n \in Waiting' \/ (tree'[n.path] = tree'[n.to] /\ tree'[n.path].kind = "file")
  <2>1. CASE n = m
    BY <1>3, <2>1 DEF Waiting, LinkPutOff, LinkMade
  <2>2. CASE n # m /\ n \in Waiting
    BY <1>3, <2>2 DEF Waiting, LinkPutOff, LinkMade
  <2>3. CASE n \notin Waiting
    <3>1. tree[n.path] = tree[n.to] /\ tree[n.path].kind = "file"
      BY <1>4, <2>3
    <3>2. tree[n.path] # Gone /\ tree[n.to] # Gone
      BY <3>1 DEF Gone
    <3> QED BY <1>3, <1>8, <3>1, <3>2 DEF LinkChange
  <2> QED BY <2>1, <2>2, <2>3
<1> QED BY <1>7, <1>8, <1>9, <1>10 DEF RoundInv

LEMMA RoundEnds ==
    ASSUME Types, RoundInv, EndRound \/ Finish PROVE RoundInv'
<1>1. UNCHANGED source /\ pass = "links" /\ tree' = tree /\ pass' \in {"links", "done"}
  BY DEF EndRound, Finish
<1>2. Waiting' = Waiting
  <2>1. CASE EndRound
    <3>1. Range(<<>>) = {}
      BY DEF Range
    <3>2. queue = <<>> /\ queue' = next /\ next' = <<>>
      BY <2>1 DEF EndRound
    <3> QED BY <3>1, <3>2 DEF Waiting
  <2>2. CASE Finish
    BY <2>2, WaitingStays DEF Finish, links
  <2> QED BY <2>1, <2>2
<1>3. /\ \A p \in Path : RoundTree(p, tree[p])
      /\ Waiting \subseteq Links
      /\ \A n \in Links : n \in Waiting \/ (tree[n.path] = tree[n.to] /\ tree[n.path].kind = "file")
  BY <1>1 DEF RoundInv
<1>4. (\A p \in Path : RoundTree(p, tree[p]))'
  BY <1>1, <1>3, RoundTreeStays
<1>5. Links' = Links
  BY <1>1, LinksStay
<1> QED BY <1>1, <1>2, <1>3, <1>4, <1>5 DEF RoundInv

LEMMA MeaningStep == Types /\ MeaningInv /\ [Next]_vars => MeaningInv'
<1> SUFFICES ASSUME Types, MeaningInv, [Next]_vars, Plain' PROVE PassInv' /\ RoundInv'
  BY DEF MeaningInv
<1>1. Plain /\ PassInv /\ RoundInv /\ UNCHANGED source
  BY SourceStays, LinksStay DEF MeaningInv
<1>2. ASSUME NEW i \in DOMAIN archive, at = i,
             \/ Hide(archive[i]) \/ MakeDir(archive[i]) \/ MakeFile(archive[i])
             \/ QueueLink(archive[i]) \/ OmitDevice(archive[i])
      PROVE  PassInv' /\ RoundInv'
  BY <1>1, <1>2, MemberApplied
<1>3. CASE PassOver
  BY <1>1, <1>3, PassesOver
<1>4. CASE NextPass
  BY <1>1, <1>4, PassEnds
<1>5. CASE LinkOne \/ EndRound \/ Finish
  <2>1. PassInv'
    BY <1>5 DEF PassInv, LinkOne, EndRound, Finish
  <2> QED BY <1>1, <1>5, <2>1, LinkRounds, RoundEnds
<1>6. CASE Fail
  BY <1>6 DEF PassInv, RoundInv, Fail
<1>7. CASE UNCHANGED vars
  <2>1. UNCHANGED <<pass, at, tree, queue, next, lower, archive>>
    BY <1>7 DEF vars
  <2>2. Applied' = Applied /\ Waiting' = Waiting /\ Links' = Links
    BY <2>1 DEF Applied, Read, Waiting, Whiteouts, Links, Members
  <2>3. PassInv'
    <3>1. CASE pass \in {"whiteouts", "members"}
      <4>1. \A p \in Path : Means(Applied, p, tree'[p])
        BY <1>1, <2>1, <3>1 DEF PassInv
      <4>2. (\A p \in Path : Means(Applied, p, tree[p]))'
        BY <1>1, <2>2, <4>1, MeaningStays
      <4> QED BY <1>1, <2>1, <2>2, <3>1, <4>2 DEF PassInv
    <3> QED BY <2>1, <3>1 DEF PassInv
  <2>4. RoundInv'
    <3>1. CASE pass \in {"links", "done"}
      <4>1. \A p \in Path : RoundTree(p, tree'[p])
        BY <1>1, <2>1, <3>1 DEF RoundInv
      <4>2. (\A p \in Path : RoundTree(p, tree[p]))'
        BY <1>1, <4>1, RoundTreeStays
      <4> QED BY <1>1, <2>1, <2>2, <3>1, <4>2 DEF RoundInv
    <3> QED BY <2>1, <3>1 DEF RoundInv
  <2> QED BY <2>3, <2>4
<1> QED BY <1>2, <1>3, <1>4, <1>5, <1>6, <1>7 DEF Next, Ended

LEMMA MeaningBase == Init => MeaningInv
<1> SUFFICES ASSUME Init PROVE PassInv /\ RoundInv
  BY DEF MeaningInv
<1>1. pass = "whiteouts" /\ at = 1 /\ tree = lower /\ queue = <<>> /\ next = <<>>
  BY DEF Init
<1>2. archive \in Seq(Member)
  BY LayerAssumption DEF Init
<1>3. Read = {}
  BY <1>1, <1>2 DEF Read
<1>4. Applied = {} /\ Waiting = {}
  BY <1>1, <1>3 DEF Applied, Waiting, Range
<1>5. \A p \in Path : Means({}, p, lower[p])
  BY DEF Means
<1> QED BY <1>1, <1>4, <1>5 DEF PassInv, RoundInv

-----------------------------------------------------------------------------
(* What extraction leaves                                                  *)

\* What is below a hidden path is hidden.
LEMMA HiddenBelow ==
    ASSUME archive \in Seq(Member), NEW q \in Path, NEW p \in Above(q), p \in Hidden
    PROVE  q \in Hidden
<1>1. PICK w \in Whiteouts : p \in Hides(w)
  BY DEF Hidden
<1>2. w.path \in Path /\ p \in Path
  BY MembersTyped, AboveInPath DEF Whiteouts
<1>3. p = w.path \/ w.path \in Above(p)
  BY <1>1, <1>2, BelowIsAbove DEF Hides
<1>4. w.path \in Above(q)
  BY <1>2, <1>3, Ordered
<1>5. q \in Hides(w)
  BY <1>2, <1>4, BelowIsAbove DEF Hides
<1> QED BY <1>5 DEF Hidden

\* A directory made for the target of a link that was made was there anyway.
LEMMA BelowEntry ==
    ASSUME archive \in Seq(Member), NEW q \in Path, NEW p \in Above(q),
           NEW e \in Entries, p \in Below(e.path)
    PROVE  q \in Below(e.path)
<1>1. e.path \in Path /\ p \in Path
  BY MembersTyped, AboveInPath DEF Entries
<1> QED BY <1>1, Ordered, BelowIsAbove

LEMMA NodesDiffer ==
    ASSUME NEW node, node.kind = "file"
    PROVE  node # Dir /\ node # Gone
BY DEF Dir, Gone

\* A directory made for the target of a link that was made was there anyway.
LEMMA MadeForLink ==
    ASSUME archive \in Seq(Member), lower \in Tree, NEW m \in Links,
           RoundTree(m.to, tree[m.to]), tree[m.to].kind = "file",
           NEW p \in Above(m.to), \A e \in Entries : e.path # p
    PROVE  ~Means(Members, p, Gone)
<1>2. m.to \in Path /\ p \in Path /\ Links \subseteq Entries
  BY MembersTyped, AboveInPath DEF Links, Entries
<1>3. Entries \subseteq Members /\ Whiteouts \subseteq Members
  BY DEF Entries, Whiteouts
<1> SUFFICES ASSUME Means(Members, p, Gone) PROVE FALSE
  OBVIOUS
<1>4. /\ \A n \in Members : p \notin Parents(n)
      /\ \/ lower[p] = Gone
         \/ \E n \in Whiteouts : p \in Hides(n)
         \/ \E n \in Entries : n.kind # "dir" /\ p \in Below(n.path)
  BY DirIsNode DEF Means
<1>5. \A e \in Entries : e.path # m.to
  BY <1>3, <1>4 DEF Parents
<1>6. Means(Members, m.to, tree[m.to])
  BY <1>2, <1>5, NodesDiffer DEF RoundTree
<1>7. /\ tree[m.to] = lower[m.to]
      /\ ~\E n \in Whiteouts : m.to \in Hides(n)
      /\ ~\E n \in Entries : n.kind # "dir" /\ m.to \in Below(n.path)
  BY <1>3, <1>5, <1>6, NodesDiffer DEF Means
<1>8. lower[p] = Dir
  BY <1>2, <1>7, NodesDiffer DEF Tree
<1>9. m.to \notin Hidden
  BY <1>7 DEF Hidden
<1>10. p \notin Hidden
  BY <1>2, <1>9, HiddenBelow
<1> QED BY <1>2, <1>4, <1>7, <1>8, <1>10, BelowEntry, DirIsNode DEF Hidden

LEMMA LayerAtEnd == Types /\ MeaningInv => LayeringCorrect
<1> SUFFICES ASSUME Types, MeaningInv, pass = "done", Plain PROVE IsLayering(tree)
  BY DEF LayeringCorrect, Types, IInv
<1>1. archive \in Seq(Member) /\ lower \in Tree
  BY LayerAssumption DEF Types, TypeOK, IInv, LinkTypes
<1>2. \A p \in Path : RoundTree(p, tree[p])
  BY DEF MeaningInv, RoundInv
<1>3. \A m \in Links : tree[m.path] = tree[m.to] /\ tree[m.path].kind = "file"
  <2>1. queue = <<>> /\ next = <<>>
    BY DEF Types, IInv, LinksAllMade
  <2>2. Waiting = {}
    BY <2>1 DEF Waiting, Range
  <2> QED BY <2>2 DEF MeaningInv, RoundInv
<1>4. \A m \in Entries : m \in Members /\ m.path \in Path /\ m.to \in Path
  BY <1>1, MembersTyped DEF Entries
<1>5. ASSUME NEW p \in Path, NEW m \in Entries, m.path = p
      PROVE  CASE m.kind = "dir" -> tree[p] = Dir
               [] m.kind = "file" -> tree[p] = File("layer", p)
               [] m.kind = "symlink" -> tree[p] = Symlink(m.to)
               [] m.kind = "link" -> tree[p] = tree[m.to] /\ tree[p].kind = "file"
  <2>1. CASE m.kind = "link"
    BY <1>3, <1>4, <1>5, <2>1 DEF Links
  <2>2. CASE m.kind \in {"dir", "file", "symlink"}
    <3>1. NodeOf(m) # Gone
      BY <2>2 DEF NodeOf, Dir, File, Symlink, Gone
    <3>2. m \in Entries \cap Members
      BY <1>4
    <3>3. ~Means(Members, p, Gone)
      BY <1>5, <3>1, <3>2 DEF Means
    <3>4. tree[p] = NodeOf(m)
      BY <1>2, <1>5, <3>2, <3>3 DEF RoundTree, Means
    <3> QED BY <1>5, <2>2, <3>4 DEF NodeOf
  <2> QED BY <2>1, <2>2 DEF Entries
<1>6. ASSUME NEW p \in Path, \A m \in Entries : m.path # p
      PROVE  tree[p] = IF \E m \in Members : p \in Parents(m) THEN Dir
                       ELSE IF \/ p \in Hidden
                               \/ \E m \in Entries : m.kind # "dir" /\ p \in Below(m.path)
                         THEN Gone
                       ELSE lower[p]
  <2>1. \A m \in Links : m \in Entries
    BY DEF Links, Entries
  <2>2. Means(Members, p, tree[p])
    <3>1. CASE Means(Members, p, Gone)
      <4>1. ~\E m \in Links : p \in Above(m.to)
        BY <1>1, <1>2, <1>3, <1>4, <1>6, <2>1, <3>1, MadeForLink
      <4> QED BY <1>2, <1>6, <2>1, <4>1 DEF RoundTree
    <3> QED BY <1>2, <3>1 DEF RoundTree
  <2>3. Entries \cap Members = Entries /\ Whiteouts \cap Members = Whiteouts
    BY DEF Entries, Whiteouts
  <2>4. (\E m \in Whiteouts : p \in Hides(m)) <=> p \in Hidden
    BY DEF Hidden
  <2> QED BY <1>6, <2>2, <2>3, <2>4 DEF Means
<1> QED BY <1>5, <1>6 DEF IsLayering

LEMMA TypesAlways == Spec => []Types
<1>1. Spec => []IInv
  BY Base, Inductive, PTL DEF Spec
<1> QED BY <1>1, LayerTypes, PTL DEF Types

\* A layer that is plain as a set of members leaves just what it means over the
\* layers below it, in any order of its members, however its links depend on one
\* another, and for any number of them.
THEOREM LayersAreCorrect == Spec => []LayeringCorrect
<1>1. Spec => []MeaningInv
  BY TypesAlways, MeaningBase, MeaningStep, PTL DEF Spec
<1> QED BY <1>1, TypesAlways, LayerAtEnd, PTL

-----------------------------------------------------------------------------
(* Why extraction is refused                                               *)

\* A link that waits waits once, and its name is free or was made a directory; and
\* in a round without progress so far, what was put off has no file to link to.
PendingInv ==
    /\ pass \in {"whiteouts", "members", "links"} =>
          /\ IsInjective(queue) /\ IsInjective(next)
          /\ Range(queue) \cap Range(next) = {}
    /\ pass = "links" =>
          /\ \A m \in Waiting : tree[m.path].kind # "file"
          /\ Len(queue) + Len(next) = asked =>
                \A m \in Range(next) : tree[m.to].kind # "file"

\* Modes are set on directory entries only.
DirEntries == {m \in Entries : m.kind = "dir"}
DirsInv == dirs \subseteq {m.path : m \in DirEntries}

LEMMA EmptyRange == Range(<<>>) = {} /\ IsInjective(<<>>)
BY DEF Range, IsInjective

LEMMA PendingBase == Init => PendingInv /\ DirsInv
BY EmptyRange DEF Init, PendingInv, DirsInv

LEMMA DirsStep == Types /\ DirsInv /\ [Next]_vars => DirsInv'
<1> SUFFICES ASSUME Types, DirsInv, [Next]_vars PROVE DirsInv'
  OBVIOUS
<1>1. DirEntries' = DirEntries
  BY SourceStays DEF source, DirEntries, Entries, Members
<1>2. dirs' \subseteq dirs \cup {m.path : m \in DirEntries}
  <2>1. ASSUME NEW i \in DOMAIN archive, MakeDir(archive[i])
        PROVE  dirs' = dirs \cup {archive[i].path} /\ archive[i] \in DirEntries
    BY <2>1 DEF MakeDir, DirEntries, Entries, Members
  <2>2. ASSUME NEW i \in DOMAIN archive, \/ Hide(archive[i]) \/ MakeFile(archive[i])
                                         \/ QueueLink(archive[i]) \/ OmitDevice(archive[i])
        PROVE  UNCHANGED dirs
    BY <2>2 DEF Hide, MakeFile, QueueLink, OmitDevice
  <2>3. CASE PassOver \/ NextPass \/ LinkOne \/ EndRound \/ Finish \/ Fail \/ UNCHANGED vars
    BY <2>3 DEF PassOver, NextPass, LinkOne, EndRound, Finish, Fail, vars
  <2> QED BY <2>1, <2>2, <2>3 DEF Next, Ended
<1> QED BY <1>1, <1>2 DEF DirsInv

\* A plain archive queues a link once.
LEMMA QueuedOnce ==
    ASSUME Types, Plain, PassInv, PendingInv,
           NEW i \in DOMAIN archive, at = i, QueueLink(archive[i])
    PROVE  PendingInv'
<1> DEFINE m == archive[i]
<1>1. /\ pass = "members" /\ pass' = pass /\ queue' = Append(queue, m) /\ next' = next
      /\ queue \in Seq(Member) /\ m \in Entries /\ m \notin Whiteouts
  BY DEF Types, IInv, LinkTypes, QueueLink, At, MoveOn, Entries, Members, Whiteouts, IsWhiteout
<1>2. m \notin Read
  <2>1. \A j \in DOMAIN archive : archive[j] = m => j = i
    BY <1>1 DEF Plain
  <2>2. DOMAIN archive \subseteq Nat
    BY DEF Types, IInv, LinkTypes
  <2> QED BY <2>1, <2>2 DEF Read
<1>3. m \notin Waiting
  BY <1>1, <1>2 DEF PassInv, Applied
<1>4. Range(queue') = Range(queue) \cup {m}
  BY <1>1, RangeOfAppend
<1>5. IsInjective(queue')
  <2>1. /\ DOMAIN queue' = DOMAIN queue \cup {Len(queue) + 1}
        /\ \A j \in DOMAIN queue : queue'[j] = queue[j]
    BY <1>1
  <2>2. queue'[Len(queue) + 1] = m
    BY <1>1
  <2>3. IsInjective(queue) /\ \A j \in DOMAIN queue : queue[j] # m
    BY <1>1, <1>3 DEF PendingInv, Waiting, Range
  <2> QED BY <2>1, <2>2, <2>3 DEF IsInjective
<1> QED BY <1>1, <1>3, <1>4, <1>5 DEF PendingInv, Waiting

LEMMA RoundsBegin ==
    ASSUME Types, Plain, PassInv, PendingInv, NextPass PROVE PendingInv'
<1>1. /\ pass \in {"whiteouts", "members"} /\ UNCHANGED <<tree, queue, next>>
      /\ archive \in Seq(Member) /\ next = <<>>
  BY DEF Types, IInv, LinkTypes, RoundsLeft, NextPass
<1>2. Waiting' = Waiting
  BY <1>1, WaitingStays
<1>3. \A m \in Waiting : tree[m.path].kind # "file"
  <2> SUFFICES ASSUME NEW m \in Waiting PROVE tree[m.path] = Gone
    BY DEF Gone
  <2>1. m \in Links \cap Applied /\ \A p \in Path : Means(Applied, p, tree[p])
    BY <1>1 DEF PassInv
  <2>2. m \in Entries \cap Applied /\ m.path \in Path /\ m.kind = "link"
    BY <1>1, <2>1, MembersTyped DEF Links, Entries
  <2>3. tree[m.path] = NodeOf(m)
    BY <2>1, <2>2 DEF Means
  <2> QED BY <2>2, <2>3 DEF NodeOf
<1>4. Range(next') = {}
  BY <1>1, EmptyRange
<1> QED BY <1>1, <1>2, <1>3, <1>4 DEF PendingInv

LEMMA LinkPends ==
    ASSUME Types, Plain, RoundInv, PendingInv, LinkOne PROVE PendingInv'
<1>1. /\ pass = "links" /\ pass' = pass /\ asked' = asked /\ archive \in Seq(Member)
      /\ queue' = Tail(queue) /\ queue \in Seq(Member) /\ next \in Seq(Member) /\ queue # <<>>
      /\ next' \in Seq(Member) /\ asked \in Nat /\ Len(queue) + Len(next) <= asked
  <2>1. IInv'
    BY Inductive DEF Types, Next
  <2> QED BY <2>1 DEF Types, IInv, LinkTypes, RoundsLeft, LinkOne
<1>2. PICK m : m = Head(queue)
  OBVIOUS
<1>3. /\ m \in Member /\ m \in Range(queue) /\ m.path \in Path
      /\ Range(queue) = Range(queue') \cup {m}
      /\ IsInjective(queue) => IsInjective(queue') /\ m \notin Range(queue')
      /\ LinkChange(m) /\ (LinkPutOff(m) \/ LinkMade(m))
  BY <1>2, LinkChanges
<1>4. /\ IsInjective(queue) /\ IsInjective(next)
      /\ Range(queue) \cap Range(next) = {}
      /\ \A n \in Waiting : tree[n.path].kind # "file"
      /\ Len(queue) + Len(next) = asked => \A n \in Range(next) : tree[n.to].kind # "file"
  BY <1>1 DEF PendingInv
<1>5. Waiting \subseteq Links /\ \A n \in Links : n \in Entries /\ n.path \in Path /\ n.to \in Path
  BY <1>1, MembersTyped DEF RoundInv, Links, Entries
<1>6. m \in Links
  BY <1>3, <1>5 DEF Waiting
<1>7. IsInjective(queue') /\ IsInjective(next') /\ Range(queue') \cap Range(next') = {}
  BY <1>3, <1>4 DEF LinkPutOff, LinkMade
<1>8. Len(queue') = Len(queue) - 1 /\ Len(queue) \in Nat /\ Len(next) \in Nat
  BY <1>1
<1>9. CASE LinkPutOff(m)
  <2>1. Waiting' = Waiting
    BY <1>3, <1>9 DEF Waiting, LinkPutOff
  <2>2. \A n \in Waiting : tree'[n.path].kind # "file"
    BY <1>4, <1>5, <1>9, NodesDiffer DEF LinkPutOff
  <2>3. ASSUME Len(queue') + Len(next') = asked, NEW n \in Range(next')
        PROVE  tree'[n.to].kind # "file"
    <3>1. Len(queue) + Len(next) = asked
      BY <1>1, <1>8, <1>9, <2>3 DEF LinkPutOff
    <3>2. CASE n = m
      BY <1>9, <3>2 DEF LinkPutOff
    <3>3. CASE n \in Range(next)
      <4>1. n.to \in Path /\ tree[n.to].kind # "file"
        BY <1>4, <1>5, <3>1, <3>3 DEF Waiting
      <4> QED BY <1>9, <4>1, NodesDiffer DEF LinkPutOff
    <3> QED BY <1>9, <2>3, <3>2, <3>3 DEF LinkPutOff
  <2> QED BY <1>1, <1>7, <2>1, <2>2, <2>3 DEF PendingInv
<1>10. CASE LinkMade(m)
  <2>1. ASSUME NEW n \in Waiting' PROVE tree'[n.path].kind # "file"
    <3>1. n \in Waiting /\ n # m
      BY <1>3, <1>4, <1>10, <2>1 DEF Waiting, LinkMade
    <3>2. n.path # m.path
      BY <1>1, <1>5, <1>6, <3>1, OneEntry
    <3> QED BY <1>3, <1>4, <1>5, <3>1, <3>2, NodesDiffer DEF LinkChange
  <2>2. Len(queue') + Len(next') # asked
    BY <1>1, <1>8, <1>10 DEF LinkMade
  <2> QED BY <1>1, <1>7, <2>1, <2>2 DEF PendingInv
<1> QED BY <1>3, <1>9, <1>10

LEMMA PendingStep ==
    ASSUME Types, Plain, PassInv, RoundInv, PendingInv, [Next]_vars PROVE PendingInv'
<1>1. ASSUME NEW i \in DOMAIN archive, at = i, QueueLink(archive[i]) PROVE PendingInv'
  BY <1>1, QueuedOnce
<1>2. ASSUME NEW i \in DOMAIN archive, \/ Hide(archive[i]) \/ MakeDir(archive[i])
                                       \/ MakeFile(archive[i]) \/ OmitDevice(archive[i])
      PROVE  PendingInv'
  <2>1. UNCHANGED <<queue, next>> /\ pass' = pass /\ pass # "links"
    BY <1>2 DEF Hide, MakeDir, MakeFile, OmitDevice, At, MoveOn, links
  <2> QED BY <2>1 DEF PendingInv
<1>3. CASE PassOver
  <2>1. UNCHANGED <<queue, next>> /\ pass' = pass /\ pass # "links"
    BY <1>3 DEF PassOver, MoveOn, links
  <2> QED BY <2>1 DEF PendingInv
<1>4. CASE EndRound
  <2>1. /\ pass = "links" /\ pass' = pass /\ queue = <<>> /\ queue' = next /\ next' = <<>>
        /\ tree' = tree
    BY <1>4 DEF EndRound
  <2>2. Waiting' = Waiting
    BY <2>1, EmptyRange DEF Waiting
  <2> QED BY <2>1, <2>2, EmptyRange DEF PendingInv
<1>5. CASE Finish \/ Fail
  BY <1>5 DEF PendingInv, Finish, Fail
<1>6. CASE UNCHANGED vars
  BY <1>6 DEF vars, PendingInv, Waiting
<1> QED BY <1>1, <1>2, <1>3, <1>4, <1>5, <1>6, RoundsBegin, LinkPends DEF Next, Ended

\* A member can be placed: the layers below have no non-directory among its parents.
Placed == \A m \in Members : \A p \in Parents(m) : lower[p].kind \in {"gone", "dir"}

\* Then what its parents mean is no obstacle.
LEMMA ParentsAreFree ==
    ASSUME archive \in Seq(Member), Plain, Placed,
           NEW some \in SUBSET Members, NEW m \in Members, NEW p \in Parents(m), NEW node,
           IsWhiteout(m) => some \cap Entries = {}, Means(some, p, node)
    PROVE  node.kind \in {"gone", "dir"}
<1>1. CASE \E n \in Entries \cap some : n.path = p
  <2>1. PICK n \in Entries \cap some : n.path = p
    BY <1>1
  <2>2. ~IsWhiteout(m) /\ Parents(m) = Above(m.path) /\ m.path \in Path
    BY <2>1, MembersTyped DEF Parents, IsWhiteout
  <2>3. n.kind = "dir"
    BY <2>1, <2>2, Ordered DEF Plain
  <2>4. node = Dir
    BY <2>1, <2>3 DEF Means, NodeOf
  <2> QED BY <2>4 DEF Dir
<1>2. CASE ~\E n \in Entries \cap some : n.path = p
  <2>1. node \in {Dir, Gone, lower[p]}
    BY <1>2 DEF Means
  <2> QED BY <2>1 DEF Placed, Dir, Gone
<1> QED BY <1>1, <1>2

\* What an entry among the members of Plain means is its node.
LEMMA EntryMeans ==
    ASSUME NEW m \in Entries, NEW node, Means(Members, m.path, node)
    PROVE  node = NodeOf(m)
BY DEF Means, Entries

\* A link whose target has no file, of its own layer or of those below, is stuck.
LEMMA StuckAlone ==
    ASSUME NEW m \in Links, ~FileAt(m.to), \A n \in Links : n.path # m.to
    PROVE  Unresolvable
<1>1. {m} \in SUBSET Links /\ {m} # {}
  OBVIOUS
<1> QED BY <1>1 DEF Unresolvable

LEMMA StuckBelow ==
    ASSUME archive \in Seq(Member), Plain, NEW m \in Links,
           NEW n \in Entries, n.kind # "dir", n.path \in Above(m.to)
    PROVE  Unresolvable
<1>1. m.to \in Path /\ n.path \in Path /\ n.path # m.to
  BY MembersTyped, Ordered DEF Links, Entries
<1>2. \A e \in Members : e.path # m.to
  <2> SUFFICES ASSUME NEW e \in Members, e.path = m.to PROVE FALSE
    OBVIOUS
  <2>1. n.path \in Parents(e) /\ e.path # n.path
    BY <1>1 DEF Parents
  <2> QED BY <2>1 DEF Plain
<1>3. m.to \in Below(n.path)
  BY <1>1, BelowIsAbove
<1>4. ~FileAt(m.to) /\ \A e \in Links : e.path # m.to
  BY <1>2, <1>3 DEF FileAt, Entries, Links
<1> QED BY <1>4, StuckAlone

\* What no entry stands for means what is below, or less.
LEMMA NoEntryMeans ==
    ASSUME archive \in Seq(Member), NEW p \in Path, NEW node,
           Means(Members, p, node), \A e \in Entries : e.path # p
    PROVE  /\ \/ node = Dir /\ \E m \in Members : p \in Parents(m)
              \/ node = Gone
              \/ node = lower[p] /\ \A m \in Members : p \notin Parents(m)
           /\ Placed /\ FileAt(p) => node = lower[p]
<1>1. Entries \cap Members = Entries /\ Whiteouts \cap Members = Whiteouts
  BY DEF Entries, Whiteouts
<1>2. node = IF \E m \in Members : p \in Parents(m) THEN Dir
             ELSE IF p \in Hidden \/ \E m \in Entries : m.kind # "dir" /\ p \in Below(m.path)
               THEN Gone ELSE lower[p]
  BY <1>1 DEF Means, Hidden
<1>3. ASSUME Placed, FileAt(p) PROVE node = lower[p]
  <2>1. /\ lower[p].kind = "file" /\ p \notin Hidden
        /\ \A m \in Entries : m.kind # "dir" => p \notin Below(m.path)
    BY <1>3 DEF FileAt
  <2>2. \A m \in Members : p \notin Parents(m)
    BY <1>3, <2>1 DEF Placed
  <2> QED BY <1>2, <2>1, <2>2
<1> QED BY <1>2, <1>3

\* What stands where a link has its target, when the target is no file.
LEMMA NoFileMeans ==
    ASSUME archive \in Seq(Member), Placed, NEW p \in Path, NEW node,
           Means(Members, p, node), node.kind # "file"
    PROVE  ~FileAt(p)
<1>1. CASE \E e \in Entries : e.path = p /\ e.kind = "file"
  <2>1. PICK e \in Entries : e.path = p /\ e.kind = "file"
    BY <1>1
  <2>2. node = File("layer", p)
    BY <2>1, EntryMeans DEF NodeOf
  <2> QED BY <2>2 DEF File
<1>2. CASE ~\E e \in Entries : e.path = p /\ e.kind = "file"
  <2> SUFFICES ASSUME FileAt(p) PROVE FALSE
    OBVIOUS
  <2>1. lower[p].kind = "file" /\ \A e \in Entries : e.path # p
    BY <1>2 DEF FileAt
  <2>2. node = lower[p]
    BY <2>1, NoEntryMeans
  <2> QED BY <2>1, <2>2
<1> QED BY <1>1, <1>2

LEMMA MembersArePlaced ==
    ASSUME Types, Plain, Placed, PassInv, pass \in {"whiteouts", "members"}, at <= Len(archive),
           IsWhiteout(archive[at]) <=> pass = "whiteouts"
    PROVE  /\ ~Blocked(tree, Parents(archive[at]))
           /\ archive[at].kind = "dir" => tree[archive[at].path].kind # "symlink"
<1> DEFINE m == archive[at]
<1>1. archive \in Seq(Member) /\ m \in Members /\ m \in Member /\ m.path \in Path
  BY MembersTyped DEF Types, IInv, LinkTypes, Members
<1>2. Applied \in SUBSET Members /\ \A p \in Path : Means(Applied, p, tree[p])
  BY AppliedAreMembers DEF PassInv
<1>3. IsWhiteout(m) => Applied \cap Entries = {}
  BY DEF Applied, Whiteouts, Entries, IsWhiteout
<1>4. ~Blocked(tree, Parents(m))
  <2>1. \A p \in Parents(m) : p \in Path
    BY <1>1, ParentsAreClosed
  <2> QED BY <1>1, <1>2, <1>3, <2>1, ParentsAreFree DEF Blocked
<1>5. ASSUME m.kind = "dir" PROVE tree[m.path].kind # "symlink"
  <2>1. m \in Entries /\ Whiteouts \subseteq Applied
    BY <1>1, <1>5 DEF Entries, IsWhiteout, Applied
  <2> QED BY <1>1, <1>2, <1>5, <2>1, NoDirOverSymlink
<1> QED BY <1>4, <1>5

\* What stands in the way of the target of a link makes the link hopeless.
LEMMA BlockedLink ==
    ASSUME archive \in Seq(Member), lower \in Tree, Plain, NEW m \in Links,
           NEW p \in Above(m.to), RoundTree(p, tree[p]), tree[p].kind \notin {"gone", "dir"}
    PROVE  Unresolvable
<1>1. /\ m.to \in Path /\ p \in Path /\ p # m.to
      /\ Links \subseteq Entries /\ Entries \subseteq Members
  BY MembersTyped, AboveInPath, Ordered DEF Links, Entries
<1>2. CASE \E n \in Entries : n.path = p
  <2>1. PICK n \in Entries : n.path = p
    BY <1>2
  <2>2. n.kind # "dir"
    <3> SUFFICES ASSUME n.kind = "dir" PROVE FALSE
      OBVIOUS
    <3>1. \A node : Means(Members, p, node) => node = Dir
      BY <2>1, EntryMeans DEF NodeOf
    <3>2. tree[p] = Dir
      BY <3>1, DirIsNode DEF RoundTree
    <3> QED BY <3>2 DEF Dir
  <2> QED BY <2>1, <2>2, StuckBelow
<1>3. CASE \A n \in Entries : n.path # p
  <2>1. Means(Members, p, tree[p])
    BY <1>1, <1>3 DEF RoundTree, Dir
  <2>2. tree[p] = lower[p] /\ \A n \in Members : p \notin Parents(n)
    BY <1>1, <1>3, <2>1, NoEntryMeans DEF Dir, Gone
  <2>3. \A n \in Members : n.path # m.to
    BY <2>2 DEF Parents
  <2>4. lower[m.to] = Gone
    BY <1>1, <2>2 DEF Tree, Dir
  <2>5. ~FileAt(m.to)
    BY <1>1, <2>3, <2>4 DEF FileAt, Gone
  <2> QED BY <1>1, <2>3, <2>5, StuckAlone
<1> QED BY <1>2, <1>3

\* So does a directory in the place of its target.
LEMMA TargetIsDir ==
    ASSUME archive \in Seq(Member), Plain, Placed, NEW m \in Links,
           RoundTree(m.to, tree[m.to]), tree[m.to] = Dir
    PROVE  Unresolvable
<1>1. m.to \in Path /\ Links \subseteq Entries /\ Dir.kind = "dir" /\ Gone.kind = "gone"
  BY MembersTyped DEF Links, Entries, Dir, Gone
<1>2. CASE Means(Members, m.to, Dir)
  <2>1. ~FileAt(m.to)
    BY <1>1, <1>2, NoFileMeans
  <2>2. ASSUME NEW n \in Links, n.path = m.to PROVE FALSE
    <3>1. Dir = NodeOf(n)
      BY <1>1, <1>2, <2>2, EntryMeans
    <3> QED BY <3>1, DirIsNode DEF NodeOf, Links
  <2> QED BY <2>1, <2>2, StuckAlone
<1>3. CASE ~Means(Members, m.to, Dir)
  <2>1. Means(Members, m.to, Gone) /\ \E n \in Links : m.to \in Above(n.to)
    BY <1>1, <1>3 DEF RoundTree
  <2>2. CASE \E e \in Links : e.path = m.to
    <3>1. PICK e \in Links : e.path = m.to
      BY <2>2
    <3>2. e \in Entries /\ e.kind # "dir"
      BY <3>1 DEF Links, Entries
    <3> QED BY <2>1, <3>1, <3>2, StuckBelow
  <2>3. CASE \A e \in Links : e.path # m.to
    <3>1. ~FileAt(m.to)
      BY <1>1, <2>1, NoFileMeans
    <3> QED BY <2>3, <3>1, StuckAlone
  <2> QED BY <2>2, <2>3
<1> QED BY <1>2, <1>3

\* A link that waits can be made, when there is a file to link to.
LEMMA LinkRefused ==
    ASSUME Types, Plain, Placed, RoundInv, pass = "links", NEW m \in Links,
           tree[m.path].kind # "file",
           NEW seen, seen = WithParents(tree, Above(m.to)),
           seen[m.to].kind \in {"dir", "file"}, ~CanLink(seen, m)
    PROVE  Unresolvable
<1>1. archive \in Seq(Member) /\ lower \in Tree /\ tree \in [Path -> Node]
  BY LayerAssumption DEF Types, TypeOK, IInv, LinkTypes, Tree
<1>2. m.to \in Path /\ m.path \in Path /\ m \in Entries /\ m \in Members /\ m.kind = "link"
  BY <1>1, MembersTyped DEF Links, Entries
<1>3. \A p \in Path : RoundTree(p, tree[p])
  BY DEF RoundInv
<1>4. \A p \in Path : seen[p] = IF p \in Above(m.to) THEN Dir ELSE tree[p]
  BY DEF WithParents
<1>5. m.to \notin Above(m.to)
  BY <1>2, Ordered
<1>6. ASSUME NEW p \in Above(m.path) PROVE seen[p] = Dir
  <2>1. p \in Path /\ p # m.path /\ p \in Parents(m)
    BY <1>2, Ordered DEF Parents
  <2>2. ASSUME NEW node, Means(Members, p, node) PROVE node = Dir
    <3>1. CASE \E n \in Entries : n.path = p
      <4>1. PICK n \in Entries : n.path = p
        BY <3>1
      <4>2. n.kind = "dir"
        BY <1>2, <2>1, <4>1 DEF Plain
      <4>3. node = NodeOf(n)
        BY <2>2, <4>1, EntryMeans
      <4> QED BY <4>2, <4>3 DEF NodeOf
    <3>2. CASE ~\E n \in Entries : n.path = p
      BY <1>2, <2>1, <2>2, <3>2 DEF Means
    <3> QED BY <3>1, <3>2
  <2>3. tree[p] = Dir
    BY <1>3, <2>1, <2>2, DirIsNode DEF RoundTree
  <2> QED BY <1>4, <2>1, <2>3
<1>7. CASE seen[m.to].kind = "dir"
  <2>1. tree[m.to] = Dir
    BY <1>1, <1>2, <1>4, <1>5, <1>7, NodesByKind
  <2> QED BY <1>1, <1>2, <1>3, <2>1, TargetIsDir
<1>8. CASE seen[m.path] # Gone
  <2>1. PICK n \in Links : m.path \in Above(n.to)
    <3>1. CASE m.path \in Above(m.to)
      BY <3>1
    <3>2. CASE m.path \notin Above(m.to)
      <4>1. tree[m.path] # Gone
        BY <1>2, <1>4, <1>8, <3>2
      <4>2. \A node : Means(Members, m.path, node) => node = Gone
        BY <1>2, EntryMeans DEF NodeOf
      <4> QED BY <1>2, <1>3, <4>1, <4>2 DEF RoundTree
    <3> QED BY <3>1, <3>2
  <2> QED BY <1>1, <1>2, <2>1, StuckBelow
<1> QED BY <1>2, <1>6, <1>7, <1>8 DEF CanLink

\* A round that makes no link puts off links that can never be made.
LEMMA NoProgress ==
    ASSUME Types, Plain, Placed, RoundInv, PendingInv, pass = "links",
           queue = <<>>, asked > 0, Len(next) = asked
    PROVE  Unresolvable
<1>1. archive \in Seq(Member) /\ next \in Seq(Member)
  BY DEF Types, IInv, LinkTypes
<1>2. Waiting = Range(next) /\ Range(next) # {}
  <2>1. next[1] \in Range(next)
    BY <1>1 DEF Range
  <2> QED BY <2>1, EmptyRange DEF Waiting
<1>3. /\ Range(next) \subseteq Links
      /\ \A n \in Links : n \in Range(next)
                          \/ (tree[n.path] = tree[n.to] /\ tree[n.path].kind = "file")
      /\ \A p \in Path : RoundTree(p, tree[p])
  BY <1>2 DEF RoundInv
<1>4. \A m \in Range(next) : tree[m.to].kind # "file"
  BY <1>1 DEF PendingInv
<1>5. ASSUME NEW m \in Range(next)
      PROVE  \/ \E n \in Range(next) : n.path = m.to
             \/ ~FileAt(m.to) /\ \A n \in Links : n.path # m.to
  <2>1. CASE \E n \in Links : n.path = m.to
    BY <1>3, <1>4, <2>1
  <2>2. CASE \A n \in Links : n.path # m.to
    <3>1. m.to \in Path
      BY <1>1, <1>3, MembersTyped DEF Links
    <3>2. Means(Members, m.to, tree[m.to]) \/ Means(Members, m.to, Gone)
      BY <1>3, <3>1 DEF RoundTree
    <3>3. Gone.kind # "file"
      BY DEF Gone
    <3>4. ~FileAt(m.to)
      BY <1>1, <1>4, <3>1, <3>2, <3>3, NoFileMeans
    <3> QED BY <2>2, <3>4
  <2> QED BY <2>1, <2>2
<1> QED BY <1>2, <1>3, <1>5 DEF Unresolvable

\* Modes are set on what is there: a directory entry left a directory.
LEMMA ModesAreSet ==
    ASSUME Types, RoundInv, DirsInv, pass = "links" PROVE \A p \in dirs : Seen(tree, p) = "dir"
<1>1. archive \in Seq(Member)
  BY DEF Types, IInv, LinkTypes
<1> SUFFICES ASSUME NEW p \in dirs PROVE Seen(tree, p) = "dir"
  OBVIOUS
<1>2. PICK m \in Entries : m.kind = "dir" /\ m.path = p
  BY DEF DirsInv, DirEntries
<1>3. p \in Path
  BY <1>1, <1>2, MembersTyped DEF Entries
<1>4. \A node : Means(Members, p, node) => node = Dir
  BY <1>2, EntryMeans DEF NodeOf
<1>5. tree[p] = Dir
  BY <1>3, <1>4, DirIsNode DEF RoundInv, RoundTree
<1> QED BY <1>5 DEF Seen, Dir

LEMMA FailHasReason ==
    ASSUME Types, Plain, Placed, MeaningInv, PendingInv, DirsInv, Fail,
           \A m \in Members : m.kind # "unsupported"
    PROVE  Unresolvable
<1>1. PassInv /\ RoundInv /\ archive \in Seq(Member) /\ lower \in Tree
  BY LayerAssumption DEF MeaningInv, Types, TypeOK, IInv, LinkTypes
<1>2. ASSUME pass \in {"whiteouts", "members"}, at <= Len(archive),
             IsWhiteout(archive[at]) <=> pass = "whiteouts",
             \/ Blocked(tree, Parents(archive[at]))
             \/ archive[at].kind = "unsupported"
             \/ archive[at].kind = "dir" /\ tree[archive[at].path].kind = "symlink"
      PROVE  FALSE
  <2>1. archive[at] \in Members
    BY <1>1, <1>2 DEF Types, IInv, LinkTypes, Members
  <2> QED BY <1>1, <1>2, <2>1, MembersArePlaced
<1>3. ASSUME pass = "links", queue # <<>>,
             LET m == Head(queue)
                 seen == WithParents(tree, Above(m.to))
             IN  \/ Blocked(tree, Above(m.to))
                 \/ seen[m.to].kind \in {"dir", "file"} /\ ~CanLink(seen, m)
      PROVE  Unresolvable
  <2> DEFINE m == Head(queue)
             seen == WithParents(tree, Above(m.to))
  <2>1. m \in Range(queue)
    BY <1>3, RangeOfTail DEF Types, IInv, LinkTypes
  <2>2. m \in Links /\ tree[m.path].kind # "file"
    BY <1>1, <1>3, <2>1 DEF RoundInv, PendingInv, Waiting
  <2>3. CASE Blocked(tree, Above(m.to))
    <3>1. PICK p \in Above(m.to) : tree[p].kind \notin {"gone", "dir"}
      BY <2>3 DEF Blocked
    <3>2. RoundTree(p, tree[p])
      BY <1>1, <1>3, <3>1, AboveInPath DEF RoundInv
    <3> QED BY <1>1, <2>2, <3>1, <3>2, BlockedLink
  <2>4. CASE seen[m.to].kind \in {"dir", "file"} /\ ~CanLink(seen, m)
    <3> HIDE DEF m
    <3> QED BY <1>1, <1>3, <2>2, <2>4, LinkRefused
  <2> QED BY <1>3, <2>3, <2>4
<1>4. ASSUME pass = "links", queue = <<>>, asked > 0, Len(next) = asked PROVE Unresolvable
  BY <1>1, <1>4, NoProgress
<1>5. ASSUME pass = "links", \E p \in dirs : Seen(tree, p) \notin {"dir", "file"} PROVE FALSE
  BY <1>1, <1>5, ModesAreSet
<1> QED BY <1>2, <1>3, <1>4, <1>5 DEF Fail

LEMMA ReasonsStay == UNCHANGED source => (Placed' <=> Placed) /\ (Unresolvable' <=> Unresolvable)
<1> SUFFICES ASSUME UNCHANGED source
             PROVE  (Placed' <=> Placed) /\ (Unresolvable' <=> Unresolvable)
  OBVIOUS
<1>1. lower' = lower /\ archive' = archive
  BY DEF source
<1>2. Members' = Members /\ Links' = Links
  BY LinksStay
<1>3. Entries' = Entries /\ Whiteouts' = Whiteouts
  BY <1>2 DEF Entries, Whiteouts
<1>4. Hidden' = Hidden
  BY <1>3 DEF Hidden
<1>5. \A p : FileAt(p)' <=> FileAt(p)
  BY <1>1, <1>3, <1>4 DEF FileAt
<1> QED BY <1>1, <1>2, <1>4, <1>5 DEF Placed, Unresolvable

\* A plain layer is refused only for a member of a kind that is not supported, for
\* a non-directory of the layers below among the parents of a member, or for hard
\* links that can never be made: order, rounds and what was made before never are
\* the reason.
THEOREM RefusalsHaveReasons == Spec => []RefusedForReason
<1> DEFINE TInv == Types /\ MeaningInv /\ (Plain => PendingInv) /\ DirsInv
           RInv == RefusedForReason
<1>1. Spec => []TInv
  <2> DEFINE PInv == MeaningInv /\ (Plain => PendingInv) /\ DirsInv
  <2>1. Init => PInv
    BY MeaningBase, PendingBase
  <2>2. Types /\ PInv /\ [Next]_vars => PInv'
    <3> SUFFICES ASSUME Types, PInv, [Next]_vars PROVE PInv'
      OBVIOUS
    <3>1. Plain' <=> Plain
      BY SourceStays, LinksStay
    <3>2. Plain => PendingInv'
      BY PendingStep DEF MeaningInv
    <3> QED BY <3>1, <3>2, MeaningStep, DirsStep
  <2> QED BY <2>1, <2>2, TypesAlways, PTL DEF Spec
<1>2. Init => RInv
  BY DEF Init, RefusedForReason
<1>3. TInv /\ RInv /\ [Next]_vars => RInv'
  <2> SUFFICES ASSUME TInv, RInv, [Next]_vars, pass' = "failed", Plain', Placed',
                      \A m \in Members' : m.kind # "unsupported"
               PROVE  Unresolvable'
    BY DEF RefusedForReason, Placed
  <2>1. UNCHANGED source
    BY SourceStays
  <2>2. Plain /\ Placed /\ \A m \in Members : m.kind # "unsupported"
    BY <2>1, LinksStay, ReasonsStay
  <2>3. CASE Fail
    BY <2>1, <2>2, <2>3, FailHasReason, ReasonsStay
  <2>4. CASE pass = "failed"
    <3>1. Unresolvable
      BY <2>2, <2>4 DEF RefusedForReason, Placed
    <3> QED BY <2>1, <3>1, ReasonsStay
  <2>5. Fail \/ pass = "failed"
    BY DEF Next, Hide, MakeDir, MakeFile, QueueLink, OmitDevice, At, MoveOn, PassOver, NextPass,
           LinkOne, EndRound, Finish, Ended, vars
  <2> QED BY <2>3, <2>4, <2>5
<1> QED BY <1>1, <1>2, <1>3, PTL DEF Spec
=============================================================================

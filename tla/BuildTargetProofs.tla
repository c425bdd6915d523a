-------------------------- MODULE BuildTargetProofs --------------------------
(***************************************************************************)
(* What build() bootstraps was verified, what it puts into its base        *)
(* inventory is the same for every build, and what it writes beside its    *)
(* archive describes it, for any lock entry, any number of pockets,        *)
(* layers, builds and paths.                                               *)
(***************************************************************************)
EXTENDS BuildTarget, TLAPS

Pocketed == image.kind = "apt-snapshot" /\ image.pockets # NoPockets

Valid == ValidPockets(image.pockets)

AcceptedBelow(k) ==
    \A i \in DOMAIN image.pockets : i < k => AcceptsPocket(image.pockets[i])

Verified ==
    /\ Valid
    /\ \A i \in DOMAIN image.pockets : AcceptsPocket(image.pockets[i])
    /\ \A i, j \in DOMAIN image.pockets : image.pockets[i].release = image.pockets[j].release

\* The pinned manifest and config are what the lock says they are.
Named ==
    /\ image.manifest = [layers |-> image.layers, config |-> image.config]
    /\ PlatformOf[image.config] = image.platform

FittingBelow(k) ==
    \A i \in DOMAIN image.layers : i < k => image.layers[i].known /\ image.layers[i].sized

Fitting == \A i \in DOMAIN image.layers : image.layers[i].known /\ image.layers[i].sized

\* What the builds of this lock entry may end up with under work / "rootfs".
Bases == IF image.kind = "apt-snapshot" THEN {Recipe(t) : t \in Bootstrapped}
         ELSE IF image.kind = "oci" THEN {Layered(Len(image.layers))}
         ELSE {image.tree}

\* What has to be known before anything is archived.
Grounded == (Pocketed => Verified) /\ (image.kind = "oci" => Named /\ Fitting)

Past(b) == Settled(b) \/ pc[b] \in {"bootstrap", "recipe"}

Local ==
    /\ LockEntry(image)
    /\ pc \in [Builder -> {"off", "materialize", "layers", "stage", "bootstrap", "recipe", "overlay",
                           "archive", "digest", "list", "open", "write"}]
    /\ at \in [Builder -> Nat]
    /\ DOMAIN root = Builder
    /\ root = [b \in Builder |-> root[b]]

\* A build past staging has verified its pockets; one in staging those behind it.  The
\* same goes for the layers of an OCI image.
StagedInOrder ==
    \A b \in Builder :
        /\ pc[b] \in {"off", "materialize"} => at[b] = 1
        /\ pc[b] = "stage" => Pocketed /\ Valid /\ AcceptedBelow(at[b])
        /\ pc[b] = "layers" => /\ image.kind = "oci" /\ Named /\ FittingBelow(at[b])
                               /\ at[b] \in 1..(Len(image.layers) + 1)
        /\ Past(b) => Grounded

RootsInOrder ==
    \A b \in Builder :
        /\ pc[b] \in {"off", "materialize"} => root[b] = Blank
        /\ pc[b] = "layers" => root[b] = Layered(at[b] - 1)
        /\ pc[b] = "bootstrap" => image.kind = "apt-snapshot"
        /\ pc[b] = "recipe" => image.kind = "apt-snapshot" /\ root[b] \in Bootstrapped
        /\ Settled(b) => root[b] \in Bases

DirectoryInOrder ==
    archive # NoArchive => archive.tree \in Bases /\ Grounded

IInv == Local /\ StagedInOrder /\ RootsInOrder /\ DirectoryInOrder

\* Mutually equal bases: the recipe covers whatever bootstraps differ in.
LEMMA BasesAgree == ASSUME NEW s \in Bases, NEW t \in Bases PROVE s = t
<1>1. CASE image.kind # "apt-snapshot"
  BY <1>1 DEF Bases
<1>2. CASE image.kind = "apt-snapshot"
  <2>1. PICK u \in Bootstrapped : s = Recipe(u)
    BY <1>2 DEF Bases
  <2>2. PICK v \in Bootstrapped : t = Recipe(v)
    BY <1>2 DEF Bases
  <2>3. \A p \in Path \ (DOMAIN Fixup \cup Removal) : u[p] = v[p]
    BY <2>1, <2>2, BootstrapAssumption
  <2>4. Recipe(u) = Recipe(v)
    BY <2>3 DEF Recipe
  <2> QED BY <2>1, <2>2, <2>4
<1> QED BY <1>1, <1>2

LEMMA Initially == Init => IInv
<1> SUFFICES ASSUME Init PROVE IInv
  OBVIOUS
<1>1. Local
  BY ImageAssumption DEF Init, Local
<1>2. StagedInOrder
  BY DEF Init, StagedInOrder, Past, Settled
<1>3. RootsInOrder
  BY DEF Init, RootsInOrder, Settled
<1>4. DirectoryInOrder
  BY DEF Init, DirectoryInOrder
<1> QED BY <1>1, <1>2, <1>3, <1>4 DEF IInv

\* The lock entry is read once, so what is said of it stays true.
LEMMA SameLock ==
    ASSUME UNCHANGED image
    PROVE  /\ Pocketed' <=> Pocketed
           /\ Valid' <=> Valid
           /\ Verified' <=> Verified
           /\ Named' <=> Named
           /\ Grounded' <=> Grounded
           /\ Bases' = Bases
           /\ LockEntry(image)' <=> LockEntry(image)
           /\ \A k : AcceptedBelow(k)' <=> AcceptedBelow(k)
           /\ \A k : FittingBelow(k)' <=> FittingBelow(k)
           /\ \A k : Layered(k)' = Layered(k)
BY DEF Pocketed, Valid, Verified, Named, Grounded, Fitting, Bases, AcceptedBelow, FittingBelow,
       Layered, ValidPockets, LockEntry

\* Nothing is layered before the first layer ...
LEMMA NothingLayered == Layered(0) = Blank
BY DEF Layered, Blank

\* ... and another one is extracted over those below it.
LEMMA LayerOnTop ==
    ASSUME NEW k \in Nat \ {0}
    PROVE  Layered(k) = Over(Layered(k - 1), Holds[image.layers[k].blob])
<1> DEFINE having(p, n) == {i \in 1..n : p \in DOMAIN Holds[image.layers[i].blob]}
           top(p, n) == CHOOSE i \in having(p, n) : \A j \in having(p, n) : j <= i
           put(p, n) == IF having(p, n) = {} THEN Absent
                       ELSE Holds[image.layers[top(p, n)].blob][p]
<1>1. \A n : Layered(n) = [p \in Path |-> put(p, n)]
  BY DEF Layered
<1>2. ASSUME NEW p \in Path, p \in DOMAIN Holds[image.layers[k].blob]
      PROVE  put(p, k) = Holds[image.layers[k].blob][p]
  <2>1. k \in having(p, k) /\ \A j \in having(p, k) : j <= k
    BY <1>2
  <2>2. \A i \in having(p, k) : (\A j \in having(p, k) : j <= i) => i = k
    BY <2>1
  <2>3. top(p, k) = k
    BY <2>1, <2>2
  <2> QED BY <2>1, <2>3
<1>3. ASSUME NEW p \in Path, p \notin DOMAIN Holds[image.layers[k].blob]
      PROVE  put(p, k) = put(p, k - 1)
  <2>1. having(p, k) = having(p, k - 1)
    BY <1>3
  <2>2. put(p, k) = put(p, k - 1)
    <3> HIDE DEF having
    <3> QED BY <2>1
  <2> QED BY <2>2
<1> HIDE DEF put
<1> QED BY <1>1, <1>2, <1>3 DEF Over

\* Build b goes on to a settled label, from one or with a root that belongs there.
LEMMA Onward ==
    ASSUME IInv, NEW b \in Builder, NEW l, Goto(b, l),
           l \in {"overlay", "archive", "digest", "list", "open", "write"},
           at' \in [Builder -> Nat], \A c \in Builder \ {b} : at'[c] = at[c],
           DOMAIN root' = Builder, root' = [c \in Builder |-> root'[c]],
           \A c \in Builder \ {b} : root'[c] = root[c],
           root'[b] \in Bases, Grounded,
           UNCHANGED image,
           archive' = archive \/ archive'.tree \in Bases
    PROVE  IInv'
<1> USE SameLock DEF IInv, Local, Goto
<1>1. Local'
  BY DEF Local
<1>2. StagedInOrder'
  BY DEF StagedInOrder, Past, Settled
<1>3. RootsInOrder'
  BY DEF RootsInOrder, Settled
<1>4. DirectoryInOrder'
  BY DEF DirectoryInOrder
<1> QED BY <1>1, <1>2, <1>3, <1>4 DEF IInv

LEMMA Leaving == ASSUME IInv, NEW b \in Builder, Leave(b) PROVE IInv'
<1> USE SameLock DEF IInv, Local, Leave, Goto
<1>1. Local'
  BY DEF Local
<1>2. StagedInOrder'
  BY DEF StagedInOrder, Past, Settled
<1>3. RootsInOrder'
  BY DEF RootsInOrder, Settled
<1>4. DirectoryInOrder'
  BY DEF DirectoryInOrder
<1> QED BY <1>1, <1>2, <1>3, <1>4 DEF IInv

\* The steps before a build is settled.
LEMMA Approaching ==
    ASSUME IInv, NEW b \in Builder,
           \/ Start(b) \/ ReadManifest(b) \/ ApplyLayer(b)
           \/ ReadLock(b) \/ StagePocket(b) \/ FinishStaging(b) \/ Bootstrap(b)
    PROVE  IInv'
<1> USE SameLock DEF IInv, Goto, local
<1>1. CASE Start(b)
  BY <1>1 DEF Start, Local, StagedInOrder, RootsInOrder, DirectoryInOrder, Past, Settled
<1>2. CASE ReadLock(b)
  <2>1. pc'[b] = "bootstrap" => Grounded
    BY <1>2 DEF ReadLock, Local, Pocketed, Grounded
  <2>2. pc'[b] = "stage" => Pocketed /\ Valid /\ AcceptedBelow(at[b])
    BY <1>2 DEF ReadLock, Local, StagedInOrder, Pocketed, Valid, AcceptedBelow, LockEntry
  <2> QED
    BY <1>2, <2>1, <2>2
    DEF ReadLock, Local, StagedInOrder, RootsInOrder, DirectoryInOrder, Past, Settled
<1>3. CASE StagePocket(b)
  <2>1. Pocketed /\ Valid /\ AcceptedBelow(at[b]) /\ at[b] \in Nat
    BY <1>3 DEF StagePocket, StagedInOrder, Local
  <2>2. AcceptedBelow(at[b] + 1)
    <3>1. \A i \in DOMAIN image.pockets : i \in Nat
      BY <2>1 DEF LockEntry, Local, Pocketed
    <3>2. \A i \in DOMAIN image.pockets : i < at[b] + 1 => i < at[b] \/ i = at[b]
      BY <2>1, <3>1
    <3> QED BY <1>3, <2>1, <3>2 DEF StagePocket, AcceptedBelow
  <2> QED
    BY <1>3, <2>1, <2>2
    DEF StagePocket, Local, StagedInOrder, RootsInOrder, DirectoryInOrder, Past, Settled
<1>4. CASE FinishStaging(b)
  <2>1. Pocketed /\ Valid /\ AcceptedBelow(at[b]) /\ at[b] \in Nat
    BY <1>4 DEF FinishStaging, StagedInOrder, Local
  <2>2. image.pockets \in Seq(Pocket)
    BY <2>1 DEF Local, LockEntry, Pocketed
  <2>3. \A i \in DOMAIN image.pockets : i < at[b]
    BY <1>4, <2>1, <2>2 DEF FinishStaging
  <2>4. Verified
    BY <1>4, <2>1, <2>3 DEF FinishStaging, Verified, AcceptedBelow
  <2>5. image.kind = "apt-snapshot" /\ Grounded
    BY <2>1, <2>4 DEF Pocketed, Grounded
  <2> QED
    BY <1>4, <2>5
    DEF FinishStaging, Local, StagedInOrder, RootsInOrder, DirectoryInOrder, Past, Settled
<1>5. CASE Bootstrap(b)
  BY <1>5 DEF Bootstrap, Local, StagedInOrder, RootsInOrder, DirectoryInOrder, Past, Settled
<1>6. CASE ReadManifest(b)
  <2>1. /\ Named /\ image.kind = "oci" /\ at[b] = 1 /\ root[b] = Blank
        /\ Len(image.layers) \in Nat
    BY <1>6 DEF ReadManifest, Named, StagedInOrder, RootsInOrder, Local, LockEntry
  <2>2. FittingBelow(1)
    BY DEF FittingBelow, Local, LockEntry
  <2>3. root[b] = Layered(at[b] - 1)
    BY <2>1, NothingLayered
  <2> QED
    BY <1>6, <2>1, <2>2, <2>3
    DEF ReadManifest, Local, StagedInOrder, RootsInOrder, DirectoryInOrder, Past, Settled
<1>7. CASE ApplyLayer(b)
  <2>1. /\ Named /\ image.kind = "oci" /\ FittingBelow(at[b]) /\ at[b] \in Nat \ {0}
        /\ root[b] = Layered(at[b] - 1)
    BY <1>7 DEF ApplyLayer, StagedInOrder, RootsInOrder, Local
  <2>2. FittingBelow(at[b] + 1)
    <3>1. \A i \in DOMAIN image.layers : i \in Nat
      BY DEF LockEntry, Local
    <3>2. \A i \in DOMAIN image.layers : i < at[b] + 1 => i < at[b] \/ i = at[b]
      BY <2>1, <3>1
    <3> QED BY <1>7, <2>1, <3>2 DEF ApplyLayer, FittingBelow
  <2>3. root'[b] = Layered(at[b])
    BY <1>7, <2>1, LayerOnTop DEF ApplyLayer, Local
  <2>4. /\ at'[b] = at[b] + 1 /\ at'[b] - 1 = at[b]
        /\ at'[b] \in 1..(Len(image.layers) + 1)
    BY <1>7, <2>1 DEF ApplyLayer, Local, LockEntry
  <2>5. /\ UNCHANGED <<image, pc, archive>> /\ pc[b] = "layers"
        /\ \A c \in Builder \ {b} : at'[c] = at[c] /\ root'[c] = root[c]
        /\ at' \in [Builder -> Nat] /\ DOMAIN root' = Builder
        /\ root' = [c \in Builder |-> root'[c]]
    BY <1>7, <2>1 DEF ApplyLayer, Local
  <2>6. Local'
    BY <2>5 DEF Local
  <2>7. StagedInOrder'
    BY <2>1, <2>2, <2>4, <2>5 DEF StagedInOrder, Past, Settled
  <2>8. RootsInOrder'
    BY <2>3, <2>4, <2>5 DEF RootsInOrder, Settled
  <2>9. DirectoryInOrder'
    BY <2>5 DEF DirectoryInOrder
  <2> QED BY <2>6, <2>7, <2>8, <2>9
<1> QED BY <1>1, <1>2, <1>3, <1>4, <1>5, <1>6, <1>7

\* The steps that settle a build, and those of a settled one.
LEMMA Proceeding ==
    ASSUME IInv, NEW b \in Builder,
           \/ Extract(b) \/ FinishLayers(b) \/ ApplyRecipe(b) \/ Overlay(b) \/ PutArchive(b)
           \/ DigestArchive(b) \/ ListArchive(b) \/ OpenOutput(b) \/ WriteOutput(b)
    PROVE  IInv'
<1> USE DEF local
<1>1. /\ at \in [Builder -> Nat]
      /\ DOMAIN root = Builder /\ root = [c \in Builder |-> root[c]]
  BY DEF IInv, Local
<1>2. CASE Extract(b)
  <2>1. root'[b] \in Bases /\ Grounded
    BY <1>1, <1>2 DEF IInv, Bases, Pocketed, Grounded, Extract
  <2> QED BY <1>1, <1>2, <2>1, Onward DEF Extract
<1>3. CASE ApplyRecipe(b)
  <2>1. root[b] \in Bootstrapped /\ image.kind = "apt-snapshot" /\ Grounded
    BY <1>3 DEF IInv, RootsInOrder, StagedInOrder, Past, ApplyRecipe
  <2>2. Recipe(root[b]) \in Bases
    BY <2>1 DEF Bases
  <2>3. root'[b] = Recipe(root[b])
    BY <1>1, <1>3 DEF ApplyRecipe
  <2> QED BY <1>1, <1>3, <2>1, <2>2, <2>3, Onward DEF ApplyRecipe
<1>4. ASSUME Settled(b), NEW l, Goto(b, l),
             l \in {"overlay", "archive", "digest", "list", "open", "write"},
             at' \in [Builder -> Nat], \A c \in Builder \ {b} : at'[c] = at[c],
             UNCHANGED <<image, root>>, archive' \in {archive, Made(b)}
      PROVE  IInv'
  <2>1. root[b] \in Bases /\ Grounded
    BY <1>4 DEF IInv, RootsInOrder, StagedInOrder, Past
  <2>2. archive' = archive \/ archive'.tree \in Bases
    BY <1>4, <2>1 DEF Made
  <2> QED BY <1>1, <1>4, <2>1, <2>2, Onward
<1>5. CASE Overlay(b)
  BY <1>1, <1>4, <1>5 DEF Overlay, Settled
<1>6. CASE PutArchive(b)
  BY <1>1, <1>4, <1>6 DEF PutArchive, Settled
<1>7. CASE DigestArchive(b)
  BY <1>1, <1>4, <1>7 DEF DigestArchive, Settled
<1>8. CASE ListArchive(b)
  BY <1>1, <1>4, <1>8 DEF ListArchive, Settled
<1>9. CASE OpenOutput(b)
  BY <1>1, <1>4, <1>9 DEF OpenOutput, Settled
<1>10. CASE WriteOutput(b)
  BY <1>1, <1>4, <1>10 DEF WriteOutput, Settled
<1>11. CASE FinishLayers(b)
  <2>1. /\ image.kind = "oci" /\ Named /\ FittingBelow(at[b])
        /\ at[b] \in 1..(Len(image.layers) + 1) /\ root[b] = Layered(at[b] - 1)
    BY <1>11 DEF IInv, FinishLayers, StagedInOrder, RootsInOrder
  <2>2. image.layers \in Seq(Descriptor)
    BY DEF IInv, Local, LockEntry
  <2>3. Fitting
    BY <1>11, <2>1, <2>2 DEF FinishLayers, Fitting, FittingBelow
  <2>4. at[b] - 1 = Len(image.layers)
    BY <1>11, <2>1, <2>2 DEF FinishLayers
  <2>5. root[b] \in Bases
    BY <2>1, <2>4 DEF Bases
  <2> QED BY <1>1, <1>11, <2>1, <2>3, <2>5, Onward DEF FinishLayers, Grounded, Pocketed
<1> QED BY <1>2, <1>3, <1>5, <1>6, <1>7, <1>8, <1>9, <1>10, <1>11

LEMMA Inductive == IInv /\ [Next]_vars => IInv'
<1> SUFFICES ASSUME IInv, [Next]_vars PROVE IInv'
  OBVIOUS
<1>1. CASE UNCHANGED vars
  <2> USE <1>1, SameLock DEF vars, IInv
  <2>1. Local'
    BY DEF Local
  <2>2. StagedInOrder' /\ RootsInOrder' /\ DirectoryInOrder'
    BY DEF StagedInOrder, RootsInOrder, DirectoryInOrder, Past, Settled
  <2> QED BY <2>1, <2>2
<1>2. ASSUME NEW b \in Builder, Return(b) \/ Stop(b) PROVE IInv'
  BY <1>2, Leaving DEF Return, Stop
<1> QED BY <1>1, <1>2, Approaching, Proceeding DEF Next

LEMMA Always == Spec => []IInv
  BY Initially, Inductive, PTL DEF Spec

\* Any two builds have one base inventory after the recipe, and what lies in the directory
\* was made from it, whatever noise the bootstraps of build() left.
THEOREM BaseReproduces == Spec => []BaseIsReproducible
<1>1. IInv => BaseIsReproducible
  BY BasesAgree DEF IInv, RootsInOrder, DirectoryInOrder, BaseIsReproducible
<1> QED BY <1>1, Always, PTL

\* No bootstrap runs, and no archive of pockets exists, before every pocket was verified
\* and found to agree with the others and with the keyring's snapshot; and a root holds
\* of an OCI image the layers that were checked so far, all of them before it is archived.
THEOREM BootstrapIsVerified == Spec => []NothingUnverified
<1>1. ASSUME IInv PROVE PocketsVerified
  <2> SUFFICES ASSUME Pocketed, archive # NoArchive \/ \E b \in Builder : Past(b)
               PROVE  \E s \in Snapshot, r \in Release :
                         /\ \A i \in DOMAIN image.pockets :
                               LET p == image.pockets[i]
                               IN  p = [suite |-> p.suite, snapshot |-> s,
                                        signedSuite |-> p.suite, release |-> r,
                                        intact |-> TRUE]
                         /\ <<s, image.suite>> \in
                               {<<image.keyringAt, image.pockets[i].suite>> :
                                    i \in DOMAIN image.pockets}
    BY DEF PocketsVerified, Pocketed, Past
  <2>1. Verified
    BY <1>1 DEF IInv, StagedInOrder, DirectoryInOrder, Grounded
  <2>2. image.pockets \in Seq(Pocket) /\ image.pockets # <<>>
    BY <1>1, <2>1 DEF IInv, Local, LockEntry, Pocketed, Verified, Valid, ValidPockets
  <2>3. 1 \in DOMAIN image.pockets /\ \A i \in DOMAIN image.pockets : image.pockets[i] \in Pocket
    BY <2>2
  <2> DEFINE s == image.pockets[1].snapshot
             r == image.pockets[1].release
  <2>4. s \in Snapshot /\ r \in Release
    BY <2>3 DEF Pocket
  <2>5. ASSUME NEW i \in DOMAIN image.pockets
        PROVE  image.pockets[i] = [suite |-> image.pockets[i].suite, snapshot |-> s,
                                   signedSuite |-> image.pockets[i].suite, release |-> r,
                                   intact |-> TRUE]
    <3>1. image.pockets[i] \in Pocket
      BY <2>3
    <3>2. image.pockets[i].snapshot = s /\ image.pockets[i].release = r
      BY <2>1, <2>3 DEF Verified, Valid, ValidPockets
    <3>3. image.pockets[i].intact = TRUE
          /\ image.pockets[i].signedSuite = image.pockets[i].suite
      BY <2>1, <3>1 DEF Verified, AcceptsPocket, Pocket
    <3> QED BY <3>1, <3>2, <3>3 DEF Pocket
  <2>6. <<s, image.suite>> \in {<<image.keyringAt, image.pockets[i].suite>> :
                                    i \in DOMAIN image.pockets}
    <3>1. PICK i \in DOMAIN image.pockets : image.pockets[i].suite = image.suite
      BY <2>1 DEF Verified, Valid, ValidPockets
    <3>2. image.keyringAt = s
      BY <2>1 DEF Verified, Valid, ValidPockets
    <3> QED BY <3>1, <3>2
  <2> QED BY <2>4, <2>5, <2>6
<1>2. ASSUME IInv PROVE LayersAsLocked
  <2> SUFFICES ASSUME image.kind = "oci" PROVE LayersAsLocked
    BY DEF LayersAsLocked
  <2> DEFINE whole == Len(image.layers)
  <2>1. image.layers \in Seq(Descriptor) /\ whole \in Nat /\ DOMAIN image.layers = 1..whole
    BY <1>2 DEF IInv, Local, LockEntry
  <2>2. Grounded => CheckedTo(whole)
    BY <2>1 DEF Grounded, Named, Fitting, CheckedTo
  <2>3. Bases = {Layered(whole)}
    BY DEF Bases
  <2>4. ASSUME NEW b \in Builder, Settled(b)
        PROVE  CheckedTo(whole) /\ root[b] = Layered(whole)
    BY <1>2, <2>2, <2>3, <2>4 DEF IInv, StagedInOrder, RootsInOrder, Past
  <2>5. ASSUME NEW b \in Builder, root[b] # Blank
        PROVE  \E k \in 1..whole : CheckedTo(k) /\ root[b] = Layered(k)
    <3>1. CASE pc[b] = "layers"
      <4>1. /\ Named /\ FittingBelow(at[b]) /\ at[b] \in 1..(whole + 1)
            /\ root[b] = Layered(at[b] - 1)
        BY <1>2, <3>1 DEF IInv, StagedInOrder, RootsInOrder
      <4>2. at[b] - 1 \in 1..whole
        BY <2>1, <2>5, <4>1, NothingLayered
      <4>3. CheckedTo(at[b] - 1)
        BY <2>1, <4>1, <4>2 DEF Named, FittingBelow, CheckedTo
      <4> QED BY <4>1, <4>2, <4>3
    <3>2. CASE Settled(b)
      <4>1. CheckedTo(whole) /\ root[b] = Layered(whole)
        BY <2>4, <3>2
      <4>2. whole # 0
        BY <2>5, <4>1, NothingLayered
      <4> QED BY <2>1, <4>1, <4>2
    <3>3. pc[b] \notin {"bootstrap", "recipe", "off", "materialize"}
      BY <1>2, <2>5 DEF IInv, RootsInOrder
    <3>4. pc[b] # "stage"
      BY <1>2 DEF IInv, StagedInOrder, Pocketed
    <3>5. pc[b] \in {"off", "materialize", "layers", "stage", "bootstrap", "recipe", "overlay",
                     "archive", "digest", "list", "open", "write"}
      BY <1>2 DEF IInv, Local
    <3> QED BY <3>1, <3>2, <3>3, <3>4, <3>5 DEF Settled
  <2>6. ASSUME archive # NoArchive
        PROVE  CheckedTo(whole) /\ archive.tree = Layered(whole)
    BY <1>2, <2>2, <2>3, <2>6 DEF IInv, DirectoryInOrder
  <2> QED BY <2>4, <2>5, <2>6 DEF LayersAsLocked
<1>3. IInv => NothingUnverified
  BY <1>1, <1>2 DEF NothingUnverified
<1> QED BY <1>3, Always, PTL

-----------------------------------------------------------------------------
(* Types                                                                   *)

Labels == {"off", "materialize", "layers", "stage", "bootstrap", "recipe", "overlay",
           "archive", "digest", "list", "open", "write"}

Types ==
    /\ LockEntry(image) /\ pc \in [Builder -> Labels] /\ at \in [Builder -> Nat]
    /\ root \in [Builder -> Tree] /\ removed \in [Builder -> SUBSET Removal]
    /\ shim \in [Builder -> Shim \cup {NoShim}]
    /\ digest \in [Builder -> Archive \cup {NoArchive}]
    /\ listed \in [Builder -> Archive \cup {NoArchive}]
    /\ text \in [Builder -> SUBSET Archive]
    /\ archive \in Archive \cup {NoArchive} /\ described \in [File -> SUBSET Archive]
    /\ starts \in 0..MaxStarts /\ spoiled \in BOOLEAN

\* What a build has when it is where it is.
Equipped(b) ==
    /\ pc[b] \notin {"layers", "stage", "open", "write"} => at[b] = 1
    /\ pc[b] = "archive" \/ Writing(b) => shim[b] \in Shim
    /\ Writing(b) => archive # NoArchive
    /\ pc[b] \in {"list", "open", "write"} => digest[b] # NoArchive
    /\ pc[b] \in {"open", "write"} => listed[b] # NoArchive
    /\ pc[b] = "write" => at[b] \in DOMAIN Metadata

TypeInv == Types /\ \A b \in Builder : Equipped(b)

LEMMA OverIsTree ==
    ASSUME NEW t \in Tree, NEW l \in Blob PROVE Over(t, Holds[l]) \in Tree
<1>1. PICK u \in Tree, ps \in SUBSET Path : Holds[l] = [p \in ps |-> u[p]]
  BY PathAssumption
<1>2. DOMAIN Holds[l] = ps /\ \A p \in ps : Holds[l][p] = u[p]
  BY <1>1
<1>3. Over(t, Holds[l]) = [p \in Path |-> IF p \in ps THEN u[p] ELSE t[p]]
  BY <1>2 DEF Over
<1> QED BY <1>3 DEF Tree

LEMMA RecipeIsTree == ASSUME NEW t \in Tree PROVE Recipe(t) \in Tree
BY DEF Recipe, Tree

LEMMA MadeIsArchive ==
    ASSUME TypeInv, NEW b \in Builder, pc[b] = "archive" \/ Writing(b)
    PROVE  Made(b) \in Archive
BY DEF TypeInv, Types, Equipped, Made, Archive

LEMMA TypeInit == Init => TypeInv
<1> SUFFICES ASSUME Init PROVE TypeInv
  OBVIOUS
<1>1. Blank \in Tree
  BY DEF Blank, Tree
<1>2. LockEntry(image)
  BY ImageAssumption DEF Init
<1>3. starts \in 0..MaxStarts
  BY PathAssumption DEF Init
<1>4. Types
  BY <1>1, <1>2, <1>3 DEF Init, Types, Labels
<1>5. \A b \in Builder : Equipped(b)
  BY DEF Init, Equipped, Writing
<1> QED BY <1>4, <1>5 DEF TypeInv

LEMMA LeavingTypes ==
    ASSUME TypeInv, NEW b \in Builder, Leave(b), spoiled' \in BOOLEAN PROVE TypeInv'
<1>1. Blank \in Tree
  BY DEF Blank, Tree
<1>2. Types'
  BY <1>1 DEF TypeInv, Types, Leave, Goto, Labels, LockEntry
<1>3. \A c \in Builder : Equipped(c)'
  BY DEF TypeInv, Types, Equipped, Leave, Goto, Writing
<1> QED BY <1>2, <1>3 DEF TypeInv

\* The steps up to the archive, and those of writing.
LEMMA BaseTypes ==
    ASSUME TypeInv, NEW b \in Builder,
           \/ Start(b) \/ Extract(b) \/ ReadManifest(b) \/ ApplyLayer(b) \/ FinishLayers(b)
           \/ ReadLock(b) \/ StagePocket(b) \/ FinishStaging(b) \/ Bootstrap(b) \/ ApplyRecipe(b)
           \/ Overlay(b)
    PROVE  TypeInv'
<1> USE DEF TypeInv, Types, Goto, local
<1>0. LockEntry(image)' <=> image' = image /\ LockEntry(image)
  <2>1. UNCHANGED image
    BY DEF Start, Extract, ReadManifest, ApplyLayer, FinishLayers, ReadLock, StagePocket,
           FinishStaging, Bootstrap, ApplyRecipe, Overlay
  <2> QED BY <2>1, SameLock
<1>1. root' \in [Builder -> Tree]
  <2>1. CASE Extract(b)
    BY <2>1 DEF Extract, LockEntry
  <2>2. CASE ApplyLayer(b)
    <3>1. image.layers[at[b]] \in Descriptor
      <4>1. image.layers \in Seq(Descriptor) /\ at[b] \in DOMAIN image.layers
        BY <2>2 DEF ApplyLayer, LockEntry
      <4> QED BY <4>1
    <3>2. image.layers[at[b]].blob \in Blob
      BY <3>1 DEF Descriptor
    <3> QED BY <2>2, <3>2, OverIsTree DEF ApplyLayer
  <2>3. CASE Bootstrap(b)
    BY <2>3, BootstrapAssumption DEF Bootstrap
  <2>4. CASE ApplyRecipe(b)
    BY <2>4, RecipeIsTree DEF ApplyRecipe
  <2>5. CASE Start(b) \/ ReadManifest(b) \/ FinishLayers(b) \/ ReadLock(b) \/ StagePocket(b)
             \/ FinishStaging(b) \/ Overlay(b)
    BY <2>5 DEF Start, ReadManifest, FinishLayers, ReadLock, StagePocket, FinishStaging, Overlay
  <2> QED BY <2>1, <2>2, <2>3, <2>4, <2>5
<1>2. removed' \in [Builder -> SUBSET Removal] /\ shim' \in [Builder -> Shim \cup {NoShim}]
  BY DEF Start, Extract, ReadManifest, ApplyLayer, FinishLayers, ReadLock, StagePocket,
         FinishStaging, Bootstrap, ApplyRecipe, Overlay
<1>3. pc' \in [Builder -> Labels] /\ at' \in [Builder -> Nat]
  BY DEF Start, Extract, ReadManifest, ApplyLayer, FinishLayers, ReadLock, StagePocket,
         FinishStaging, Bootstrap, ApplyRecipe, Overlay, Labels
<1>4. /\ UNCHANGED <<image, digest, listed, text, archive, described, spoiled>>
      /\ starts' \in 0..MaxStarts
  BY PathAssumption
  DEF Start, Extract, ReadManifest, ApplyLayer, FinishLayers, ReadLock, StagePocket,
      FinishStaging, Bootstrap, ApplyRecipe, Overlay
<1>5. \A c \in Builder : Equipped(c)'
  <2>1. \A c \in Builder \ {b} : pc'[c] = pc[c] /\ at'[c] = at[c] /\ shim'[c] = shim[c]
    BY DEF Start, Extract, ReadManifest, ApplyLayer, FinishLayers, ReadLock, StagePocket,
           FinishStaging, Bootstrap, ApplyRecipe, Overlay
  <2>2. \A c \in Builder \ {b} : Equipped(c)'
    BY <1>4, <2>1 DEF Equipped, Writing
  <2>3. /\ ~Writing(b)'
        /\ pc'[b] \notin {"layers", "stage", "open", "write"} => at'[b] = 1
    BY DEF Start, Extract, ReadManifest, ApplyLayer, FinishLayers, ReadLock, StagePocket,
           FinishStaging, Bootstrap, ApplyRecipe, Overlay, Equipped, Writing
  <2>4. pc'[b] = "archive" => shim'[b] \in Shim
    BY DEF Start, Extract, ReadManifest, ApplyLayer, FinishLayers, ReadLock, StagePocket,
           FinishStaging, Bootstrap, ApplyRecipe, Overlay
  <2>5. Equipped(b)'
    BY <2>3, <2>4 DEF Equipped, Writing
  <2> QED BY <2>2, <2>5
<1> QED BY <1>0, <1>1, <1>2, <1>3, <1>4, <1>5

LEMMA OutputTypes ==
    ASSUME TypeInv, NEW b \in Builder,
           \/ PutArchive(b) \/ DigestArchive(b) \/ ListArchive(b) \/ OpenOutput(b) \/ WriteOutput(b)
    PROVE  TypeInv'
<1> USE DEF TypeInv, Types, Goto, local
<1>0. UNCHANGED <<image, root, removed, shim, starts>> /\ LockEntry(image)'
  <2>1. UNCHANGED <<image, root, removed, shim, starts>>
    BY DEF PutArchive, DigestArchive, ListArchive, OpenOutput, WriteOutput
  <2> QED BY <2>1, SameLock
<1>1. CASE PutArchive(b)
  <2>1. Made(b) \in Archive /\ Made(b) # NoArchive
    BY <1>1, MadeIsArchive, PathAssumption DEF PutArchive
  <2>2. Types'
    BY <1>0, <1>1, <2>1 DEF PutArchive, Labels
  <2>3. \A c \in Builder : Equipped(c)'
    BY <1>1, <2>1 DEF PutArchive, Equipped, Writing
  <2> QED BY <2>2, <2>3
<1>2. CASE DigestArchive(b)
  <2>1. archive # NoArchive
    BY <1>2 DEF DigestArchive, Equipped, Writing
  <2>2. Types'
    BY <1>0, <1>2 DEF DigestArchive, Labels
  <2>3. \A c \in Builder : Equipped(c)'
    BY <1>2, <2>1 DEF DigestArchive, Equipped, Writing
  <2> QED BY <2>2, <2>3
<1>3. CASE ListArchive(b)
  <2>1. archive # NoArchive
    BY <1>3 DEF ListArchive, Equipped, Writing
  <2>2. Types'
    BY <1>0, <1>3 DEF ListArchive, Labels
  <2>3. \A c \in Builder : Equipped(c)'
    BY <1>3, <2>1 DEF ListArchive, Equipped, Writing
  <2> QED BY <2>2, <2>3
<1>4. CASE OpenOutput(b)
  <2>1. /\ listed[b] \in Archive /\ digest[b] \in Archive /\ archive \in Archive
        /\ Made(b) \in Archive
    BY <1>4, MadeIsArchive DEF OpenOutput, Equipped, Writing
  <2>2. \A f : Describe(b, f) \subseteq Archive
    BY <2>1 DEF Describe
  <2>3. Metadata[at[b]] \in File
    BY <1>4 DEF OpenOutput, File
  <2>5. /\ text' \in [Builder -> SUBSET Archive] /\ described' \in [File -> SUBSET Archive]
        /\ pc' \in [Builder -> Labels]
        /\ UNCHANGED <<at, digest, listed, archive, spoiled>>
    BY <1>4, <2>2, <2>3 DEF OpenOutput, Labels
  <2>6. Types'
    <3>1. root' \in [Builder -> Tree] /\ at' \in [Builder -> Nat]
      BY <1>0, <2>5
    <3>2. removed' \in [Builder -> SUBSET Removal] /\ shim' \in [Builder -> Shim \cup {NoShim}]
      BY <1>0, <2>5
    <3>3. /\ digest' \in [Builder -> Archive \cup {NoArchive}]
          /\ listed' \in [Builder -> Archive \cup {NoArchive}]
          /\ archive' \in Archive \cup {NoArchive}
      BY <1>0, <2>5
    <3>4. starts' \in 0..MaxStarts /\ spoiled' \in BOOLEAN
      BY <1>0, <2>5
    <3> QED BY <1>0, <2>5, <3>1, <3>2, <3>3, <3>4
  <2>4. \A c \in Builder : Equipped(c)'
    BY <1>4 DEF OpenOutput, Equipped, Writing
  <2> QED BY <2>6, <2>4
<1>5. CASE WriteOutput(b)
  <2>3. Metadata[at[b]] \in File
    BY <1>5 DEF WriteOutput, Equipped, File
  <2>4. /\ described' \in [File -> SUBSET Archive]
        /\ pc' \in [Builder -> Labels] /\ at' \in [Builder -> Nat]
        /\ UNCHANGED <<digest, listed, text, archive, spoiled>>
    BY <1>5, <2>3 DEF WriteOutput, Labels
  <2>5. /\ root' \in [Builder -> Tree] /\ removed' \in [Builder -> SUBSET Removal]
        /\ shim' \in [Builder -> Shim \cup {NoShim}] /\ text' \in [Builder -> SUBSET Archive]
    BY <1>0, <2>4
  <2>6. /\ digest' \in [Builder -> Archive \cup {NoArchive}]
        /\ listed' \in [Builder -> Archive \cup {NoArchive}]
        /\ archive' \in Archive \cup {NoArchive}
    BY <2>4
  <2>1. Types'
    BY <1>0, <2>4, <2>5, <2>6
  <2>2. \A c \in Builder : Equipped(c)'
    BY <1>5 DEF WriteOutput, Equipped, Writing
  <2> QED BY <2>1, <2>2
<1> QED BY <1>1, <1>2, <1>3, <1>4, <1>5

LEMMA TypeStep == TypeInv /\ [Next]_vars => TypeInv'
<1> SUFFICES ASSUME TypeInv, [Next]_vars PROVE TypeInv'
  OBVIOUS
<1>1. CASE UNCHANGED vars
  BY <1>1, SameLock DEF vars, local, TypeInv, Types, Equipped, Writing
<1>2. ASSUME NEW b \in Builder, Return(b) \/ Stop(b) PROVE TypeInv'
  BY <1>2, LeavingTypes DEF Return, Stop, TypeInv, Types, Writing
<1> QED BY <1>1, <1>2, BaseTypes, OutputTypes DEF Next

\* All that builds hold and write is of its type, for any lock entry and number of builds.
THEOREM BuildTypes == Spec => []TypeOK
<1>1. TypeInv => TypeOK
  BY DEF TypeInv, Types, TypeOK, Labels
<1> QED BY <1>1, TypeInit, TypeStep, PTL DEF Spec

-----------------------------------------------------------------------------
(* Outputs                                                                 *)

\* What b has read is the archive in the directory.
Agreed(b) ==
    Writing(b) =>
        /\ Made(b) = archive
        /\ pc[b] \in {"list", "open", "write"} => digest[b] = archive
        /\ pc[b] \in {"open", "write"} => listed[b] = archive
        /\ pc[b] = "write" => text[b] = {archive}

\* b will write file f before it returns.
Pending(b, f) ==
    \/ pc[b] \in {"digest", "list"}
    \/ pc[b] \in {"open", "write"} /\ \E i \in DOMAIN Metadata : i >= at[b] /\ Metadata[i] = f

Covered(f) == described[f] = {archive} \/ \E b \in Builder : Pending(b, f)

OutputInv ==
    archive # NoArchive /\ ~spoiled =>
        (\A b \in Builder : Agreed(b)) /\ (\A f \in File : Covered(f))

Stands(c) == /\ pc'[c] = pc[c] /\ at'[c] = at[c] /\ Made(c)' = Made(c)
             /\ digest'[c] = digest[c] /\ listed'[c] = listed[c] /\ text'[c] = text[c]

LEMMA StandingAgrees ==
    ASSUME NEW c \in Builder, Stands(c), archive' = archive, Agreed(c) PROVE Agreed(c)'
BY DEF Stands, Agreed, Writing

LEMMA StandingPends ==
    ASSUME NEW c \in Builder, Stands(c), NEW f \in File PROVE Pending(c, f)' <=> Pending(c, f)
BY DEF Stands, Pending

\* All but the one who steps stand.
LEMMA OthersStand ==
    ASSUME TypeInv, NEW b \in Builder, [Next]_vars,
           \/ Start(b) \/ Extract(b) \/ ReadManifest(b) \/ ApplyLayer(b) \/ FinishLayers(b)
           \/ ReadLock(b) \/ StagePocket(b) \/ FinishStaging(b) \/ Bootstrap(b) \/ ApplyRecipe(b)
           \/ Overlay(b) \/ PutArchive(b) \/ DigestArchive(b) \/ ListArchive(b) \/ OpenOutput(b)
           \/ WriteOutput(b) \/ Return(b) \/ Stop(b),
           NEW c \in Builder \ {b}
    PROVE  Stands(c)
<1> USE DEF TypeInv, Types, Goto, local, Stands, Made
<1>1. CASE \/ Start(b) \/ Extract(b) \/ ReadManifest(b) \/ ApplyLayer(b) \/ FinishLayers(b)
           \/ ReadLock(b) \/ StagePocket(b) \/ FinishStaging(b)
  BY <1>1 DEF Start, Extract, ReadManifest, ApplyLayer, FinishLayers, ReadLock, StagePocket,
              FinishStaging
<1>2. CASE \/ Bootstrap(b) \/ ApplyRecipe(b) \/ Overlay(b) \/ PutArchive(b) \/ DigestArchive(b)
           \/ ListArchive(b)
  BY <1>2 DEF Bootstrap, ApplyRecipe, Overlay, PutArchive, DigestArchive, ListArchive
<1>3. CASE OpenOutput(b) \/ WriteOutput(b) \/ Return(b) \/ Stop(b)
  BY <1>3 DEF OpenOutput, WriteOutput, Return, Stop, Leave
<1> QED BY <1>1, <1>2, <1>3

\* A step of one who writes neither before nor after, and that leaves the outputs alone.
LEMMA AsideKeeps ==
    ASSUME OutputInv, NEW b \in Builder, ~Writing(b), ~Writing(b)',
           \A c \in Builder \ {b} : Stands(c), UNCHANGED <<archive, described>>,
           spoiled' = spoiled
    PROVE  OutputInv'
<1> SUFFICES ASSUME archive' # NoArchive, ~spoiled'
             PROVE  (\A c \in Builder : Agreed(c)') /\ (\A f \in File : Covered(f)')
  BY DEF OutputInv
<1>1. (\A c \in Builder : Agreed(c)) /\ (\A f \in File : Covered(f))
  BY DEF OutputInv
<1>2. \A c \in Builder : Agreed(c)'
  <2>1. Agreed(b)'
    BY DEF Agreed
  <2> QED BY <1>1, <2>1, StandingAgrees
<1>3. ASSUME NEW f \in File PROVE Covered(f)'
  <2>1. \A c \in Builder : Pending(c, f) => Pending(c, f)'
    <3>1. ~Pending(b, f)
      BY DEF Pending, Writing
    <3> QED BY <3>1, StandingPends
  <2> QED BY <1>1, <2>1 DEF Covered
<1> QED BY <1>2, <1>3

LEMMA MetadataIndex == DOMAIN Metadata = 1..4 /\ Len(Metadata) = 4
BY DEF Metadata

\* Whoever writes and agrees describes the archive alone.
LEMMA DescribesOne ==
    ASSUME NEW b \in Builder, pc[b] = "open", Agreed(b), NEW f \in File
    PROVE  Describe(b, f) = {archive}
BY DEF Agreed, Writing, Describe

\* A new archive is the one that all others who are writing have made, or the
\* history says otherwise; and whoever put it there has all files before it.
LEMMA PuttingKeeps ==
    ASSUME TypeInv, OutputInv, NEW b \in Builder, PutArchive(b),
           \A c \in Builder \ {b} : Stands(c)
    PROVE  OutputInv'
<1> SUFFICES ASSUME ~spoiled'
             PROVE  (\A c \in Builder : Agreed(c)') /\ (\A f \in File : Covered(f)')
  BY DEF OutputInv
<1>1. pc'[b] = "digest" /\ archive' = Made(b) /\ Made(b)' = Made(b)
  BY DEF PutArchive, TypeInv, Types, Goto, Made, local
<1>2. \A f \in File : Covered(f)'
  BY <1>1 DEF Covered, Pending
<1>3. Agreed(b)'
  BY <1>1 DEF Agreed, Writing
<1>4. ASSUME NEW c \in Builder \ {b}, Writing(c) PROVE Agreed(c)'
  <2>1. c \in OthersWriting(b)
    BY <1>4 DEF OthersWriting
  <2>2. ~spoiled /\ Made(c) = Made(b)
    BY <2>1 DEF PutArchive
  <2>3. archive # NoArchive
    BY <1>4 DEF TypeInv, Equipped
  <2>4. Agreed(c)
    BY <2>2, <2>3 DEF OutputInv
  <2>5. archive' = archive
    BY <1>1, <1>4, <2>2, <2>4 DEF Agreed
  <2> QED BY <2>4, <2>5, StandingAgrees
<1>5. ASSUME NEW c \in Builder \ {b}, ~Writing(c) PROVE Agreed(c)'
  BY <1>5 DEF Stands, Agreed, Writing
<1> QED BY <1>2, <1>3, <1>4, <1>5

\* The two readings, and the two halves of each metadata file.
LEMMA WritingKeeps ==
    ASSUME TypeInv, OutputInv, NEW b \in Builder,
           DigestArchive(b) \/ ListArchive(b) \/ OpenOutput(b) \/ WriteOutput(b),
           \A c \in Builder \ {b} : Stands(c)
    PROVE  OutputInv'
<1> USE DEF TypeInv, Types, Goto, local
<1>1. archive' = archive /\ spoiled' = spoiled /\ Writing(b) /\ Made(b)' = Made(b)
  BY DEF DigestArchive, ListArchive, OpenOutput, WriteOutput, Writing, Made
<1> SUFFICES ASSUME archive # NoArchive, ~spoiled
             PROVE  (\A c \in Builder : Agreed(c)') /\ (\A f \in File : Covered(f)')
  BY <1>1 DEF OutputInv
<1>2. (\A c \in Builder : Agreed(c)) /\ (\A f \in File : Covered(f))
  BY DEF OutputInv
<1>3. \A c \in Builder \ {b} : Agreed(c)'
  BY <1>1, <1>2, StandingAgrees
<1>4. ASSUME NEW f \in File, described'[f] = described[f], Pending(b, f) => Pending(b, f)'
      PROVE  Covered(f)'
  <2>1. \A c \in Builder : Pending(c, f) => Pending(c, f)'
    BY <1>4, StandingPends
  <2> QED BY <1>1, <1>2, <1>4, <2>1 DEF Covered
<1>5. CASE DigestArchive(b)
  <2>1. pc'[b] = "list" /\ digest'[b] = archive
    BY <1>5 DEF DigestArchive
  <2>2. Agreed(b)'
    BY <1>1, <1>2, <2>1 DEF Agreed, Writing
  <2>3. \A f \in File : Covered(f)'
    BY <2>1 DEF Covered, Pending
  <2> QED BY <1>3, <2>2, <2>3
<1>6. CASE ListArchive(b)
  <2>1. /\ pc[b] = "list" /\ pc'[b] = "open" /\ at'[b] = 1
        /\ listed'[b] = archive /\ digest'[b] = digest[b]
    BY <1>6 DEF ListArchive, Equipped
  <2>2. Agreed(b)'
    BY <1>1, <1>2, <2>1 DEF Agreed, Writing
  <2>3. \A f \in File : Pending(b, f)'
    BY <2>1, MetadataIndex DEF Pending, File
  <2> QED BY <1>3, <2>2, <2>3 DEF Covered
<1>7. CASE OpenOutput(b)
  <2>1. /\ pc[b] = "open" /\ pc'[b] = "write" /\ at'[b] = at[b] /\ at[b] \in DOMAIN Metadata
        /\ listed'[b] = listed[b] /\ digest'[b] = digest[b]
        /\ text'[b] = Describe(b, Metadata[at[b]])
    BY <1>7 DEF OpenOutput
  <2>2. Metadata[at[b]] \in File
    BY <2>1 DEF File
  <2>3. text'[b] = {archive}
    BY <1>2, <2>1, <2>2, DescribesOne
  <2>4. Agreed(b)'
    BY <1>1, <1>2, <2>1, <2>3 DEF Agreed, Writing
  <2>5. ASSUME NEW f \in File PROVE Covered(f)'
    <3>1. CASE f = Metadata[at[b]]
      <4>1. Pending(b, f)'
        BY <2>1, <3>1, MetadataIndex DEF Pending
      <4> QED BY <4>1 DEF Covered
    <3>2. CASE f # Metadata[at[b]]
      <4>1. described'[f] = described[f]
        BY <1>7, <3>2 DEF OpenOutput
      <4>2. Pending(b, f) => Pending(b, f)'
        BY <2>1 DEF Pending
      <4> QED BY <1>4, <4>1, <4>2
    <3> QED BY <3>1, <3>2
  <2> QED BY <1>3, <2>4, <2>5
<1>8. CASE WriteOutput(b)
  <2>1. /\ pc[b] = "write" /\ pc'[b] = "open" /\ at'[b] = at[b] + 1 /\ at[b] \in DOMAIN Metadata
        /\ listed'[b] = listed[b] /\ digest'[b] = digest[b]
    BY <1>8 DEF WriteOutput, Equipped
  <2>2. text[b] = {archive}
    BY <1>1, <1>2, <2>1 DEF Agreed
  <2>3. Agreed(b)'
    BY <1>1, <1>2, <2>1 DEF Agreed, Writing
  <2>4. ASSUME NEW f \in File PROVE Covered(f)'
    <3>1. CASE f = Metadata[at[b]]
      <4>1. described'[f] = {archive}
        BY <1>8, <2>2, <3>1 DEF WriteOutput
      <4> QED BY <1>1, <4>1 DEF Covered
    <3>2. CASE f # Metadata[at[b]]
      <4>1. described'[f] = described[f]
        BY <1>8, <3>2 DEF WriteOutput
      <4>2. Pending(b, f) => Pending(b, f)'
        <5>1. ASSUME Pending(b, f) PROVE Pending(b, f)'
          <6>1. PICK i \in DOMAIN Metadata : i >= at[b] /\ Metadata[i] = f
            BY <2>1, <5>1 DEF Pending
          <6>2. i # at[b]
            BY <3>2, <6>1
          <6>3. i >= at'[b]
            BY <2>1, <6>1, <6>2, MetadataIndex
          <6> QED BY <2>1, <6>1, <6>3 DEF Pending
        <5> QED BY <5>1
      <4> QED BY <1>4, <4>1, <4>2
    <3> QED BY <3>1, <3>2
  <2> QED BY <1>3, <2>3, <2>4
<1> QED BY <1>5, <1>6, <1>7, <1>8

\* Who leaves with a file unwritten spoils the outputs.
LEMMA LeavingKeeps ==
    ASSUME TypeInv, OutputInv, NEW b \in Builder, Return(b) \/ Stop(b),
           \A c \in Builder \ {b} : Stands(c)
    PROVE  OutputInv'
<1>1. UNCHANGED <<archive, described>> /\ pc'[b] = "off"
  BY DEF Return, Stop, Leave, TypeInv, Types, Goto
<1>2. ~Writing(b)'
  BY <1>1 DEF Writing
<1> SUFFICES ASSUME archive # NoArchive, ~spoiled'
             PROVE  (\A c \in Builder : Agreed(c)') /\ (\A f \in File : Covered(f)')
  BY <1>1 DEF OutputInv
<1>3. ~spoiled
  BY DEF Return, Stop
<1>4. (\A c \in Builder : Agreed(c)) /\ (\A f \in File : Covered(f))
  BY <1>3 DEF OutputInv
<1>5. \A f \in File : ~Pending(b, f)
  <2>1. CASE Return(b)
    <3>1. pc[b] = "open" /\ at[b] \in Nat /\ at[b] > 4
      BY <2>1, MetadataIndex DEF Return, TypeInv, Types
    <3> QED BY <3>1, MetadataIndex DEF Pending
  <2>2. CASE Stop(b)
    BY <2>2 DEF Stop, Writing, Pending
  <2> QED BY <2>1, <2>2
<1>6. \A c \in Builder : Agreed(c)'
  <2>1. Agreed(b)'
    BY <1>2 DEF Agreed
  <2> QED BY <1>1, <1>4, <2>1, StandingAgrees
<1>7. ASSUME NEW f \in File PROVE Covered(f)'
  <2>1. \A c \in Builder : Pending(c, f) => Pending(c, f)'
    BY <1>5, StandingPends
  <2> QED BY <1>1, <1>4, <2>1 DEF Covered
<1> QED BY <1>6, <1>7

LEMMA OutputStep == TypeInv /\ OutputInv /\ [Next]_vars => OutputInv'
<1> SUFFICES ASSUME TypeInv, OutputInv, [Next]_vars PROVE OutputInv'
  OBVIOUS
<1>1. CASE UNCHANGED vars
  BY <1>1 DEF vars, local, OutputInv, Agreed, Covered, Pending, Writing, Made
<1>2. ASSUME NEW b \in Builder,
             \/ Start(b) \/ Extract(b) \/ ReadManifest(b) \/ ApplyLayer(b) \/ FinishLayers(b)
             \/ ReadLock(b) \/ StagePocket(b) \/ FinishStaging(b) \/ Bootstrap(b)
             \/ ApplyRecipe(b) \/ Overlay(b)
      PROVE  OutputInv'
  <2>1. \A c \in Builder \ {b} : Stands(c)
    BY <1>2, OthersStand
  <2>2. /\ ~Writing(b) /\ ~Writing(b)'
        /\ UNCHANGED <<archive, described>> /\ spoiled' = spoiled
    BY <1>2 DEF Start, Extract, ReadManifest, ApplyLayer, FinishLayers, ReadLock, StagePocket,
       FinishStaging, Bootstrap, ApplyRecipe, Overlay, Goto, Writing, TypeInv, Types
  <2> QED BY <2>1, <2>2, AsideKeeps
<1>3. ASSUME NEW b \in Builder, PutArchive(b) PROVE OutputInv'
  BY <1>3, OthersStand, PuttingKeeps
<1>4. ASSUME NEW b \in Builder,
             DigestArchive(b) \/ ListArchive(b) \/ OpenOutput(b) \/ WriteOutput(b)
      PROVE  OutputInv'
  BY <1>4, OthersStand, WritingKeeps
<1>5. ASSUME NEW b \in Builder, Return(b) \/ Stop(b) PROVE OutputInv'
  BY <1>5, OthersStand, LeavingKeeps
<1> QED BY <1>1, <1>2, <1>3, <1>4, <1>5 DEF Next

\* When nobody is writing and the history is clean, the four metadata files describe the
\* archive beside them, for any number of builds that share the directory.
THEOREM OutputsDescribe == Spec => []OutputsAgree
<1>1. Init => OutputInv
  BY DEF Init, OutputInv
<1>2. OutputInv => OutputsAgree
  BY DEF OutputInv, OutputsAgree, Covered, Pending, Writing
<1> QED BY <1>1, <1>2, TypeInit, TypeStep, OutputStep, PTL DEF Spec
=============================================================================

----------------------------- MODULE BuildTarget -----------------------------
(***************************************************************************)
(* build() of build-image.py: from an entry of sources.lock.json to the    *)
(* archive and the four metadata files in the output directory.  The       *)
(* layers of an OCI image are compared with the lock and extracted one     *)
(* over the other; pocketed snapshots are staged and verified first, and   *)
(* a bootstrap leaves noise that the declared fixups and removals take     *)
(* away; the archive is renamed into place and read back, the metadata     *)
(* files are written over what is there.  Any build can stop at any point, *)
(* and two may share the directory.                                        *)
(*                                                                         *)
(* Downloads are those of VerifiedCache.  A metadata file is abstracted to *)
(* the set of archives that its fields were computed from.                 *)
(***************************************************************************)
EXTENDS Naturals, Sequences

CONSTANTS
    Builder,                \* invocations for one target and one --output-dir
    Image,                  \* the entries the lock file may hold for the target
    Suite, Snapshot,        \* names of pockets; roots of archive snapshots
    Release,                \* (Codename, Origin) pairs of signed metadata
    Blob, Config,           \* layer blobs; OCI configs
    Platform, PlatformOf,   \* PlatformOf[c]: what a config says it is for
    Holds,                  \* Holds[l]: what layer l puts at a path, if anything
    Path,                   \* paths of the root that are told apart
    Noise,                  \* file contents other than declared ones
    Fixup,                  \* Fixup[p]: the declared text of path p
    Removal,                \* the paths declared to be removed
    Seat,                   \* the path that the overlay takes
    Shim,                   \* shared objects the compiler may emit
    Absent, Folder,         \* no node; a directory
    NoPockets,              \* a lock entry without pockets
    NoArchive, NoShim,      \* no archive file; nothing compiled yet
    Bootstrapped,           \* trees mmdebstrap may produce for the target
    MaxStarts               \* bound: how many builds are started

Pocket == [suite : Suite, snapshot : Snapshot, signedSuite : Suite, release : Release,
           intact : BOOLEAN]    \* gpgv accepts, indexes are listed and of their size

\* known: its media type is; sized: the descriptor has the size of the blob.
Descriptor == [blob : Blob, known : BOOLEAN, sized : BOOLEAN]

\* A path that is the content of a path stands for a symlink to it.
Tree == [Path -> Noise \cup {Fixup[p] : p \in DOMAIN Fixup} \cup Path \cup {Absent, Folder}]

Archive == [tree : Tree, removed : SUBSET Removal, shim : Shim]

\* tree is what the pinned rootfs holds, manifest what the pinned OCI manifest says,
\* suite the primary pocket, keyringAt the snapshot that the keyring package is
\* downloaded from.
LockEntry(i) ==
    /\ i.kind \in {"termux-rootfs", "oci", "apt-snapshot"}
    /\ i.tree \in Tree
    /\ i.layers \in Seq(Descriptor) /\ i.config \in Config /\ i.platform \in Platform
    /\ i.manifest \in [layers : Seq(Descriptor), config : Config]
    /\ i.pockets = NoPockets \/ i.pockets \in Seq(Pocket)
    /\ i.suite \in Suite
    /\ i.keyringAt \in Snapshot

ASSUME ImageAssumption == \A i \in Image : LockEntry(i)

ASSUME PathAssumption ==
    /\ DOMAIN Fixup \subseteq Path /\ Removal \subseteq Path /\ Seat \in Path
    /\ Seat \notin DOMAIN Fixup \cup Removal
    /\ PlatformOf \in [Config -> Platform]
    /\ \A l \in Blob : \E t \in Tree, ps \in SUBSET Path : Holds[l] = [p \in ps |-> t[p]]
    /\ NoArchive \notin Archive
    /\ MaxStarts \in Nat

\* Bootstraps of one snapshot differ in what is declared to be fixed or removed only.
ASSUME BootstrapAssumption ==
    /\ Bootstrapped \subseteq Tree
    /\ \A s, t \in Bootstrapped : \A p \in Path \ (DOMAIN Fixup \cup Removal) : s[p] = t[p]

VARIABLES
    image,      \* the lock entry of the target
    pc,         \* where each build is
    at,         \* the position of its loop over pockets, layers or metadata files
    root,       \* its work / "rootfs" before the overlay
    removed,    \* the removals it applied
    shim,       \* the library it compiled
    digest,     \* the archive it digested, as sha256_file found it
    listed,     \* the archive it inventoried, as archive_inventory found it
    text,       \* the metadata about to be written
    archive,    \* the archive in the output directory
    described,  \* described[f]: the archives that metadata file f describes
    starts,     \* how many builds were started
    spoiled     \* history: a build stopped or met another archive while writing

local == <<root, removed, shim, digest, listed, text>>
vars == <<image, pc, at, root, removed, shim, digest, listed, text,
          archive, described, starts, spoiled>>

Metadata == <<"files", "overlay", "provenance", "spdx">>
File == {Metadata[i] : i \in DOMAIN Metadata}
Blank == [p \in Path |-> Absent]
Writing(b) == pc[b] \in {"digest", "list", "open", "write"}
Settled(b) == pc[b] \in {"overlay", "archive", "digest", "list", "open", "write"}

TypeOK ==
    /\ LockEntry(image)
    /\ pc \in [Builder -> {"off", "materialize", "layers", "stage", "bootstrap", "recipe", "overlay",
                           "archive", "digest", "list", "open", "write"}]
    /\ at \in [Builder -> Nat]
    /\ root \in [Builder -> Tree]
    /\ removed \in [Builder -> SUBSET Removal]
    /\ shim \in [Builder -> Shim \cup {NoShim}]
    /\ \A b \in Builder : \A a \in {digest[b], listed[b], archive} \ {NoArchive} : a \in Archive
    /\ \A b \in Builder : text[b] \subseteq Archive
    /\ \A f \in File : described[f] \subseteq Archive
    /\ DOMAIN described = File
    /\ starts \in 0..MaxStarts
    /\ spoiled \in BOOLEAN

Init ==
    /\ image \in Image
    /\ pc = [b \in Builder |-> "off"]
    /\ at = [b \in Builder |-> 1]
    /\ root = [b \in Builder |-> Blank]
    /\ removed = [b \in Builder |-> {}]
    /\ shim = [b \in Builder |-> NoShim]
    /\ digest = [b \in Builder |-> NoArchive]
    /\ listed = [b \in Builder |-> NoArchive]
    /\ text = [b \in Builder |-> {}]
    /\ archive = NoArchive
    /\ described = [f \in File |-> {}]
    /\ starts = 0
    /\ spoiled = FALSE

-----------------------------------------------------------------------------
Goto(b, label) == pc' = [pc EXCEPT ![b] = label]

\* build() reads the lock; a fresh temporary directory will hold all it makes.
Start(b) ==
    /\ pc[b] = "off"
    /\ starts < MaxStarts
    /\ starts' = starts + 1
    /\ Goto(b, "materialize")
    /\ UNCHANGED <<image, at, local, archive, described, spoiled>>

\* The process ends, and with it its variables and its temporary directory.
Leave(b) ==
    /\ Goto(b, "off")
    /\ at' = [at EXCEPT ![b] = 1]
    /\ root' = [root EXCEPT ![b] = Blank]
    /\ removed' = [removed EXCEPT ![b] = {}]
    /\ shim' = [shim EXCEPT ![b] = NoShim]
    /\ digest' = [digest EXCEPT ![b] = NoArchive]
    /\ listed' = [listed EXCEPT ![b] = NoArchive]
    /\ text' = [text EXCEPT ![b] = {}]
    /\ UNCHANGED <<image, archive, described, starts>>

\* Extraction of the termux archive.
Extract(b) ==
    /\ pc[b] = "materialize"
    /\ image.kind = "termux-rootfs"
    /\ root' = [root EXCEPT ![b] = image.tree]
    /\ Goto(b, "overlay")
    /\ UNCHANGED <<image, at, removed, shim, digest, listed, text, archive, described,
                   starts, spoiled>>

\* materialize_oci() up to the layers: the manifest names the locked config and
\* layers, and the config the locked platform.
ReadManifest(b) ==
    /\ pc[b] = "materialize"
    /\ image.kind = "oci"
    /\ image.manifest = [layers |-> image.layers, config |-> image.config]
    /\ PlatformOf[image.config] = image.platform
    /\ Goto(b, "layers")
    /\ UNCHANGED <<image, at, local, archive, described, starts, spoiled>>

\* extract_archive() over what is there, as LayerExtraction has it.
Over(t, holds) == [p \in Path |-> IF p \in DOMAIN holds THEN holds[p] ELSE t[p]]

\* Mutant: a layer is extracted first and compared with the lock afterwards.
ApplyLayer_ChecksAfter(b) ==
    /\ pc[b] = "layers"
    /\ at[b] \in DOMAIN image.layers
    /\ LET layer == image.layers[at[b]]
       IN  /\ root' = [root EXCEPT ![b] = Over(@, Holds[layer.blob])]
           /\ at' = [at EXCEPT ![b] = IF layer.known /\ layer.sized THEN @ + 1 ELSE @]
    /\ UNCHANGED <<image, pc, removed, shim, digest, listed, text, archive, described,
                   starts, spoiled>>

ApplyLayer(b) ==
    /\ pc[b] = "layers"
    /\ at[b] \in DOMAIN image.layers
    /\ LET layer == image.layers[at[b]]
       IN  /\ layer.known /\ layer.sized
           /\ root' = [root EXCEPT ![b] = Over(@, Holds[layer.blob])]
    /\ at' = [at EXCEPT ![b] = @ + 1]
    /\ UNCHANGED <<image, pc, removed, shim, digest, listed, text, archive, described,
                   starts, spoiled>>

FinishLayers(b) ==
    /\ pc[b] = "layers"
    /\ at[b] > Len(image.layers)
    /\ Goto(b, "overlay")
    /\ at' = [at EXCEPT ![b] = 1]
    /\ UNCHANGED <<image, local, archive, described, starts, spoiled>>

\* parse_apt_pockets() accepts, and the keyring package lies in the pockets' snapshot.
ValidPockets(ps) ==
    /\ ps # <<>>
    /\ \A i, j \in DOMAIN ps : ps[i].suite = ps[j].suite => i = j
    /\ \A i \in DOMAIN ps : ps[i].snapshot = ps[1].snapshot
    /\ \E i \in DOMAIN ps : ps[i].suite = image.suite
    /\ image.keyringAt = ps[1].snapshot

\* The one-pocket lock has only its InRelease to fetch before the bootstrap.
ReadLock(b) ==
    /\ pc[b] = "materialize"
    /\ image.kind = "apt-snapshot"
    /\ \/ image.pockets = NoPockets /\ Goto(b, "bootstrap")
       \/ image.pockets # NoPockets /\ ValidPockets(image.pockets) /\ Goto(b, "stage")
    /\ UNCHANGED <<image, at, local, archive, described, starts, spoiled>>

\* Mutant: a pocket's signed Suite is not compared.
AcceptsPocket_AnySuite(p) == p.intact

\* gpgv, the signed Suite, and every component's index in the signed SHA256 list.
AcceptsPocket(p) == p.intact /\ p.signedSuite = p.suite

StagePocket(b) ==
    /\ pc[b] = "stage"
    /\ at[b] \in DOMAIN image.pockets
    /\ AcceptsPocket(image.pockets[at[b]])
    /\ at' = [at EXCEPT ![b] = @ + 1]
    /\ UNCHANGED <<image, pc, local, archive, described, starts, spoiled>>

\* After the last pocket: len(set(codenames)) == 1 and len(set(origins)) == 1.
FinishStaging(b) ==
    /\ pc[b] = "stage"
    /\ at[b] > Len(image.pockets)
    /\ \A i, j \in DOMAIN image.pockets : image.pockets[i].release = image.pockets[j].release
    /\ Goto(b, "bootstrap")
    /\ at' = [at EXCEPT ![b] = 1]
    /\ UNCHANGED <<image, local, archive, described, starts, spoiled>>

\* The container verifies the keyring again, and mmdebstrap emits a plain tar.
Bootstrap(b) ==
    /\ pc[b] = "bootstrap"
    /\ \E t \in Bootstrapped : root' = [root EXCEPT ![b] = t]
    /\ Goto(b, "recipe")
    /\ UNCHANGED <<image, at, removed, shim, digest, listed, text, archive, described,
                   starts, spoiled>>

\* Mutant: a fixup is written through the symlink that is there.
Recipe_ThroughLinks(t) ==
    [p \in Path |-> IF \E q \in DOMAIN Fixup : t[q] = p
                    THEN Fixup[CHOOSE q \in DOMAIN Fixup : t[q] = p]
                    ELSE IF p \in DOMAIN Fixup /\ t[p] \notin Path THEN Fixup[p]
                    ELSE IF p \in Removal THEN Absent ELSE t[p]]

\* Mutant: a removed path drops out of the tree.
Recipe_Shrinks(t) ==
    [p \in Path \ Removal |-> IF p \in DOMAIN Fixup THEN Fixup[p] ELSE t[p]]

\* A symlink is unlinked before its fixup is written; removals come last.
Recipe(t) == [p \in Path |-> IF p \in Removal THEN Absent
                             ELSE IF p \in DOMAIN Fixup THEN Fixup[p]
                             ELSE t[p]]

\* A directory in the place of a fixup or of a removal is an error (Stop).
ApplyRecipe(b) ==
    /\ pc[b] = "recipe"
    /\ \A p \in DOMAIN Fixup \cup Removal : root[b][p] # Folder
    /\ root' = [root EXCEPT ![b] = Recipe(@)]
    /\ removed' = [removed EXCEPT ![b] = {p \in Removal : p \in DOMAIN Fixup
                                                            \/ root[b][p] # Absent}]
    /\ Goto(b, "overlay")
    /\ UNCHANGED <<image, at, shim, digest, listed, text, archive, described, starts, spoiled>>

\* The base must not hold an overlay path, not even as a dangling symlink.
Overlay(b) ==
    /\ pc[b] = "overlay"
    /\ root[b][Seat] = Absent
    /\ \E s \in Shim : shim' = [shim EXCEPT ![b] = s]
    /\ Goto(b, "archive")
    /\ UNCHANGED <<image, at, root, removed, digest, listed, text, archive, described,
                   starts, spoiled>>

-----------------------------------------------------------------------------
\* Base inventory, shim and the removals of the recipe are inside the archive.
Made(b) == [tree |-> root[b], removed |-> removed[b], shim |-> shim[b]]

OthersWriting(b) == {c \in Builder \ {b} : Writing(c)}

\* canonical_archive() or compress_tar(): temporary.replace(output).
PutArchive(b) ==
    /\ pc[b] = "archive"
    /\ archive' = Made(b)
    /\ Goto(b, "digest")
    /\ spoiled' = \E c \in OthersWriting(b) : spoiled \/ Made(c) # Made(b)
    /\ UNCHANGED <<image, at, local, described, starts>>

DigestArchive(b) ==
    /\ pc[b] = "digest"
    /\ digest' = [digest EXCEPT ![b] = archive]
    /\ Goto(b, "list")
    /\ UNCHANGED <<image, at, root, removed, shim, listed, text, archive, described,
                   starts, spoiled>>

\* The inventory of what is in the directory now; its overlay paths must be complete.
ListArchive(b) ==
    /\ pc[b] = "list"
    /\ listed' = [listed EXCEPT ![b] = archive]
    /\ Goto(b, "open")
    /\ UNCHANGED <<image, at, root, removed, shim, digest, text, archive, described,
                   starts, spoiled>>

\* What canonical_json() is given for the f-th file: the provenance also stats the archive.
Describe(b, f) ==
    {listed[b]}
        \cup (IF f \in {"overlay", "provenance", "spdx"} THEN {Made(b)} ELSE {})
        \cup (IF f = "provenance" THEN {digest[b], archive} ELSE {})

\* Mutant: what is there already is written again.
OpenOutput_Keeps(b) ==
    /\ pc[b] = "open"
    /\ at[b] \in DOMAIN Metadata
    /\ LET f == Metadata[at[b]]
       IN  text' = [text EXCEPT ![b] = IF described[f] = {} THEN Describe(b, f)
                                       ELSE described[f]]
    /\ described' = [described EXCEPT ![Metadata[at[b]]] = {}]
    /\ Goto(b, "write")
    /\ UNCHANGED <<image, at, root, removed, shim, digest, listed, archive, starts, spoiled>>

\* write_bytes(): the text is computed, then the file is truncated.
OpenOutput(b) ==
    /\ pc[b] = "open"
    /\ at[b] \in DOMAIN Metadata
    /\ text' = [text EXCEPT ![b] = Describe(b, Metadata[at[b]])]
    /\ described' = [described EXCEPT ![Metadata[at[b]]] = {}]
    /\ Goto(b, "write")
    /\ UNCHANGED <<image, at, root, removed, shim, digest, listed, archive, starts, spoiled>>

WriteOutput(b) ==
    /\ pc[b] = "write"
    /\ described' = [described EXCEPT ![Metadata[at[b]]] = text[b]]
    /\ at' = [at EXCEPT ![b] = @ + 1]
    /\ Goto(b, "open")
    /\ UNCHANGED <<image, local, archive, starts, spoiled>>

Return(b) ==
    /\ pc[b] = "open"
    /\ at[b] > Len(Metadata)
    /\ Leave(b)
    /\ UNCHANGED spoiled

\* Any exception, which main() reports, or the end of the process from outside.
Stop(b) ==
    /\ pc[b] # "off"
    /\ Leave(b)
    /\ spoiled' = (spoiled \/ Writing(b))

Next == \E b \in Builder :
    \/ Start(b) \/ Extract(b) \/ ReadManifest(b) \/ ApplyLayer(b) \/ FinishLayers(b)
    \/ ReadLock(b) \/ StagePocket(b) \/ FinishStaging(b) \/ Bootstrap(b) \/ ApplyRecipe(b)
    \/ Overlay(b) \/ PutArchive(b) \/ DigestArchive(b) \/ ListArchive(b) \/ OpenOutput(b)
    \/ WriteOutput(b) \/ Return(b) \/ Stop(b)

Spec == Init /\ [][Next]_vars

-----------------------------------------------------------------------------
\* Nothing that was bootstrapped from pockets, and no archive, comes from pockets of
\* which one is unverified, of another snapshot or release, or signed for another
\* suite; and they include the suite and the snapshot of the keyring
\* (stage_multi_pocket_inputs "does not start bootstrap").
PocketsVerified ==
    image.kind = "apt-snapshot" /\ image.pockets # NoPockets
        /\ (archive # NoArchive \/ \E b \in Builder :
                                     Settled(b) \/ pc[b] \in {"bootstrap", "recipe"})
        => \E s \in Snapshot, r \in Release :
              /\ \A i \in DOMAIN image.pockets :
                    LET p == image.pockets[i]
                    IN  p = [suite |-> p.suite, snapshot |-> s, signedSuite |-> p.suite,
                             release |-> r, intact |-> TRUE]
              /\ <<s, image.suite>> \in {<<image.keyringAt, image.pockets[i].suite>> :
                                             i \in DOMAIN image.pockets}

\* What the topmost layer that has a path puts there.
Layered(k) ==
    [p \in Path |->
        LET having == {i \in 1..k : p \in DOMAIN Holds[image.layers[i].blob]}
            top == CHOOSE i \in having : \A j \in having : j <= i
        IN  IF having = {} THEN Absent ELSE Holds[image.layers[top].blob][p]]

\* Manifest and lock name the same layers and config, the config is for the locked
\* platform, and the first k layers are of a known type and of the locked size.
CheckedTo(k) ==
    /\ image.manifest = [layers |-> image.layers, config |-> image.config]
    /\ PlatformOf[image.config] = image.platform
    /\ \A i \in 1..k : image.layers[i].known /\ image.layers[i].sized

\* Layers are extracted one by one, each after its own check: whatever is in a root is
\* what the layers checked so far put there, and a later layer has left nothing.  Only
\* when all were checked does a build go on, and the root beyond extraction, and an
\* archive, has at every path what the topmost layer with that path says, however the
\* build got there and whatever was in the directory (materialize_oci).
LayersAsLocked ==
    image.kind = "oci" =>
        LET whole == Len(image.layers)
        IN  /\ \A b \in Builder :
                  /\ root[b] # Blank => \E k \in 1..whole : CheckedTo(k) /\ root[b] = Layered(k)
                  /\ Settled(b) => CheckedTo(whole) /\ root[b] = Layered(whole)
            /\ archive # NoArchive => CheckedTo(whole) /\ archive.tree = Layered(whole)

\* Only what the lock names and the build has verified gets into a root or an archive:
\* pockets as a whole before a bootstrap, layers one by one before each is extracted.
NothingUnverified == PocketsVerified /\ LayersAsLocked

\* Any two builds of a target agree on the base inventory once the recipe is applied,
\* whatever noise their bootstraps left, and so does what lies in the directory
\* ("the reproducible identity is the post-fixup base inventory digest").
BaseIsReproducible ==
    \A b, c \in Builder :
        Settled(b) => /\ Settled(c) => root[b] = root[c]
                      /\ archive # NoArchive => root[b] = archive.tree

\* When nobody is writing and, since a build last began to write alone, none stopped
\* or met a different archive while writing, the four metadata files describe the archive
\* beside them: each of them wholly, whatever older or partial files were there, and
\* also after builds that yield the same archive ran side by side.
OutputsAgree ==
    archive # NoArchive /\ ~spoiled /\ (\A b \in Builder : ~Writing(b))
        => \A f \in File : described[f] = {archive}
=============================================================================

--------------------------- MODULE ChangeClassifier ---------------------------
(***************************************************************************)
(* scripts/change-classifier.py: which CI mode a push gets, and when a     *)
(* release intent is bound to the governed inputs of a tree.  A tree maps  *)
(* every path to its contents; SHA-256 is injective, so a fingerprint is   *)
(* the governed part of the tree itself.  Edits and moves are staged in    *)
(* git's index, and a commit takes the index.  validate-change.sh judges   *)
(* what the working tree holds against HEAD, and that need not be what is  *)
(* staged.  CI judges each push against the tip pushed before it.          *)
(***************************************************************************)
EXTENDS Naturals

CONSTANTS
    Path, IntentPath,   \* paths; release-intent.json
    Material,           \* is_material_path()
    Fast,               \* is_fast_path(): overlaps Material under tests/
    Hashed,             \* material paths that are no bytecode: material_paths()
    Blob, Absent,       \* file contents; no file
    Similar,            \* pairs of contents between which git may see a rename
    Version,            \* versions an intent may declare
    Worktree,           \* bound: what the gate may find, as files in the working
                        \* tree and the paths that are in no index by then
    MaxEdits            \* bound: changes of the index between two pushes

ASSUME PathAssumption ==
    /\ Hashed \subseteq Material
    /\ Material \cup Fast \subseteq Path
    /\ IntentPath \in Path \ (Material \cup Fast)
    /\ Absent \notin Blob
    /\ MaxEdits \in Nat

VARIABLES
    tip,            \* the tree of the last push to main
    local,          \* the tree of the last local commit
    index,          \* what is staged: the tree of the next commit
    gated,          \* the gate passed each local commit as fast, seeing all of it
    verdict,        \* the mode of the last push, "error" when classify failed
    hid,            \* the last diff reported a governed path only by its new name
    constructed,    \* fingerprints for which a push requested construction
    spotless,       \* no push failed to classify or hid a governed path
    released,       \* the last push that was not fast is a release
    edits           \* edits since the last push

vars == <<tip, local, index, gated, verdict, hid, constructed, spotless, released, edits>>
pushed == <<tip, verdict, hid, constructed, spotless, released>>

Mode == {"fast", "material", "release", "error"}
Contents == Blob \cup {Absent}
Fingerprints == [Hashed -> Contents]
\* sound: schema, keys, version syntax, target list and catalogue are accepted.
Intent == [version : Version, fingerprint : Fingerprints, sound : BOOLEAN]

Tree == {t \in [Path -> Contents \cup Intent] :
            \A p \in Path : IF p = IntentPath THEN t[p] \in Intent \cup {Absent}
                                              ELSE t[p] \in Contents}

-----------------------------------------------------------------------------
\* Mutant: every file is hashed, governed or not.
Fingerprint_Everything(t) == [p \in Path |-> t[p]]

Fingerprint(t) == [p \in Hashed |-> t[p]]

\* "no governed material inputs were found"
HasMaterials(t) == \E p \in Hashed : t[p] # Absent

\* Mutant: the fingerprint in the intent is not compared.
ValidIntent_Unbound(t) ==
    t[IntentPath] # Absent /\ t[IntentPath].sound /\ HasMaterials(t)

ValidIntent(t) ==
    /\ t[IntentPath] # Absent
    /\ t[IntentPath].sound
    /\ HasMaterials(t)
    /\ t[IntentPath].fingerprint = Fingerprint(t)

Differing(base, head) == {p \in Path : base[p] # head[p]}

\* What git diff may report as renames: deleted paths matched to added ones.
Renames(base, head) ==
    LET pairs == {r \in Path \X Path :
                    /\ base[r[1]] # Absent /\ head[r[1]] = Absent
                    /\ base[r[2]] = Absent /\ head[r[2]] # Absent
                    /\ <<base[r[1]], head[r[2]]>> \in Similar}
    IN  {m \in SUBSET pairs : \A r, s \in m : r[1] = s[1] <=> r[2] = s[2]}

\* Mutant: --diff-filter without D.
GitChangedPaths_NoDeletions(base, head, renames) ==
    {p \in Differing(base, head) : head[p] # Absent}

\* git diff --name-only prints a rename as its new path.
GitChangedPaths(base, head, renames) ==
    Differing(base, head) \ {r[1] : r \in renames}

\* Mutant: a path on the fast list is fast even when it is a governed input.
NeedsConstruction_FastFirst(p) == p \notin Fast

NeedsConstruction(p) == p \in Material \/ p \notin Fast

\* Against no base, git ls-tree: all there is.
Listed(t) == {p \in Path : t[p] # Absent}

ClassifyPaths(changed, head) ==
    IF IntentPath \in changed THEN IF ValidIntent(head) THEN "release" ELSE "error"
    ELSE IF ~HasMaterials(head) THEN "error"
    ELSE IF \E p \in changed : NeedsConstruction(p) THEN "material" ELSE "fast"

\* What git diff finds at the paths it compares: a path taken out of the index counts
\* as deleted, wherever a file of that name is.
Tracked(t, untracked) == [p \in Path |-> IF p \in untracked THEN Absent ELSE t[p]]

\* Mutant: git diff alone, which says nothing of files git does not track.
WorktreePaths_TrackedOnly(base, t, untracked, renames) ==
    GitChangedPaths(base, Tracked(t, untracked), renames)

\* The changed paths of WORKTREE: git diff and git ls-files --others.  No file that
\* .gitignore names (bytecode, caches) is among them, and none is committed.
WorktreePaths(base, t, untracked, renames) ==
    GitChangedPaths(base, Tracked(t, untracked), renames) \cup (untracked \cap Listed(t))

-----------------------------------------------------------------------------
TypeOK ==
    /\ tip \in Tree /\ local \in Tree /\ index \in Tree
    /\ gated \in BOOLEAN
    /\ verdict \in Mode
    /\ constructed \subseteq Fingerprints
    /\ hid \in BOOLEAN /\ spotless \in BOOLEAN /\ released \in BOOLEAN
    /\ edits \in Nat

\* The first push had nothing to be compared with.
Init ==
    /\ tip \in {t \in Tree : ClassifyPaths(Listed(t), t) # "error"}
    /\ local = tip /\ index = tip /\ gated = TRUE
    /\ verdict = ClassifyPaths(Listed(tip), tip)
    /\ hid = FALSE /\ spotless = TRUE
    /\ released = (verdict = "release")
    /\ constructed = {Fingerprint(tip)}
    /\ edits = 0

Change(t) ==
    /\ edits < MaxEdits
    /\ edits' = edits + 1
    /\ index' = t
    /\ UNCHANGED <<local, gated, pushed>>

Edit(p, x) == p # IntentPath /\ Change([index EXCEPT ![p] = x])

Move(p, q) ==
    /\ IntentPath \notin {p, q} /\ index[p] # Absent /\ index[q] = Absent
    /\ Change([index EXCEPT ![p] = Absent, ![q] = index[p]])

\* release-intent.json gets the fingerprint that the fingerprint command prints; it
\* may be that of an earlier tree, since edits follow.
Declare(v, sound) ==
    Change([index EXCEPT ![IntentPath] =
        [version |-> v, fingerprint |-> Fingerprint(index), sound |-> sound]])

Withdraw == Change([index EXCEPT ![IntentPath] = Absent])

\* validate-change.sh with its default base, over a working tree of which some paths
\* are in no index: fast, and no rename stood for the removal of a path that is not.
GatePasses(work, untracked, m) ==
    /\ ClassifyPaths(WorktreePaths(local, work, untracked, m), work) = "fast"
    /\ \A r \in m : ~NeedsConstruction(r[1])

\* Nothing that is staged was undone in the working tree: git diff compares HEAD with
\* that, and would not know of it.
Shown(work) == \A p \in Path : index[p] # local[p] => work[p] # local[p]

\* git commit takes the index.  The gate is up to the contributor; it may have run over
\* more than is staged, and before files were added to the index or taken out of it.
Commit ==
    /\ local # index
    /\ gated' \in BOOLEAN
    /\ gated' => /\ gated
                 /\ \E w \in Worktree :
                       /\ Shown(w.files)
                       /\ \E m \in Renames(local, Tracked(w.files, w.untracked)) :
                             GatePasses(w.files, w.untracked, m)
    /\ local' = index
    /\ UNCHANGED <<index, edits, pushed>>

\* The local commits are pushed, and classified by ci.yml.  What is staged and not
\* committed by then has no part in it, and may as well be staged later.
Push ==
    /\ index = local
    /\ \E m \in Renames(tip, local) :
          LET mode == ClassifyPaths(GitChangedPaths(tip, local, m), local)
              hides == \E r \in m : r[1] \in Hashed \cup {IntentPath}
          IN  /\ verdict' = mode
              /\ hid' = hides
              /\ spotless' = (spotless /\ mode # "error" /\ ~hides)
              /\ constructed' = IF mode \in {"material", "release"}
                                  THEN constructed \cup {Fingerprint(local)}
                                  ELSE constructed
              /\ released' = (mode = "release" \/ (released /\ mode = "fast" /\ ~hides))
    /\ tip' = local
    /\ gated' = TRUE /\ edits' = 0
    /\ UNCHANGED <<local, index>>

Next ==
    \/ \E p \in Path, x \in Contents : Edit(p, x)
    \/ \E p, q \in Path : Move(p, q)
    \/ \E v \in Version, sound \in BOOLEAN : Declare(v, sound)
    \/ Withdraw
    \/ Commit
    \/ Push

Spec == Init /\ [][Next]_vars

-----------------------------------------------------------------------------
(* Properties                                                              *)

\* As long as no push failed to classify and no rename hid a governed path,
\* the governed inputs at the tip are inputs some push had constructed: a fast
\* verdict never lets new ones through (classify_paths).
TipIsConstructed == spotless => Fingerprint(tip) \in constructed

\* A release classification stays valid under the fast pushes that follow it:
\* the declared fingerprint is still that of the tip, which is what
\* validate-release-intent compares once more on a tag.
ReleaseStands ==
    released => /\ tip[IntentPath] # Absent
                /\ tip[IntentPath].fingerprint = Fingerprint(tip)

\* README: fast is for proven non-image inputs, so that a fast push leaves the
\* governed inputs as they were.
FastIsInert ==
    [][tip' # tip /\ verdict' = "fast" => Fingerprint(tip') = Fingerprint(tip)]_vars

\* What does hold of fast pushes: only a rename can hide a governed input.
OnlyRenamesHide ==
    [][tip' # tip /\ verdict' = "fast" /\ ~hid' => Fingerprint(tip') = Fingerprint(tip)]_vars

\* The local gate foretells CI: when it called every commit since the last push fast,
\* with nothing hidden by a rename and nothing staged that the working tree had undone,
\* the push is fast.  What else the working tree held, and which files git knew of at
\* that time, does not matter.
GatePredicts == [][tip' # tip /\ gated => verdict' = "fast"]_vars
=============================================================================

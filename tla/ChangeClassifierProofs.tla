------------------------ MODULE ChangeClassifierProofs ------------------------
(***************************************************************************)
(* Proofs about ChangeClassifier for any sets of paths, contents and       *)
(* versions.  The two invariants need no strengthening: each rests on this *)
(* that a fast verdict over a diff that hides nothing leaves every         *)
(* governed path and the intent alone.  What the gate foretells rests on   *)
(* an invariant of the commits since the last push, OnlyFastCommitted.     *)
(***************************************************************************)
EXTENDS ChangeClassifier, TLAPS

\* A fast verdict whose diff hid no governed path says that no governed path
\* differs, and that the intent is not among the changes.
LEMMA FastMeansEqual ==
    ASSUME NEW base, NEW head, NEW m \in Renames(base, head),
           ClassifyPaths(GitChangedPaths(base, head, m), head) = "fast",
           \A r \in m : r[1] \notin Hashed \cup {IntentPath}
    PROVE  /\ \A p \in Hashed : base[p] = head[p]
           /\ base[IntentPath] = head[IntentPath]
<1> DEFINE changed == GitChangedPaths(base, head, m)
<1>1. IntentPath \notin changed /\ \A p \in changed : ~NeedsConstruction(p)
  BY DEF ClassifyPaths
<1>2. \A p \in Hashed \cup {IntentPath} : p \in Differing(base, head) => p \in changed
  BY DEF GitChangedPaths
<1>3. \A p \in Hashed : NeedsConstruction(p)
  BY PathAssumption DEF NeedsConstruction
<1> QED
  BY <1>1, <1>2, <1>3, PathAssumption DEF Differing

LEMMA FastMeansSameFingerprint ==
    ASSUME NEW base, NEW head, \A p \in Hashed : base[p] = head[p]
    PROVE  Fingerprint(base) = Fingerprint(head)
BY DEF Fingerprint

\* What a push decides, for one choice of the renames git reports.
LEMMA PushChoice ==
    ASSUME Push
    PROVE  \E m \in Renames(tip, local) :
              /\ tip' = local
              /\ verdict' = ClassifyPaths(GitChangedPaths(tip, local, m), local)
              /\ hid' = (\E r \in m : r[1] \in Hashed \cup {IntentPath})
              /\ spotless' = (spotless /\ verdict' # "error" /\ ~hid')
              /\ constructed' = IF verdict' \in {"material", "release"}
                                  THEN constructed \cup {Fingerprint(local)}
                                  ELSE constructed
              /\ released' = (verdict' = "release" \/ (released /\ verdict' = "fast" /\ ~hid'))
BY Zenon DEF Push

LEMMA ModeType ==
    ASSUME NEW changed, NEW head
    PROVE  ClassifyPaths(changed, head) \in Mode
BY DEF ClassifyPaths, Mode

\* Steps other than Push leave what the invariants speak of unchanged.
LEMMA OnlyPushMoves ==
    ASSUME [Next]_vars, ~Push
    PROVE  UNCHANGED <<tip, verdict, hid, constructed, spotless, released>>
BY DEF Next, vars, pushed, Edit, Move, Declare, Withdraw, Change, Commit

\* Only a rename hides a governed input from a fast verdict, for any two trees.
THEOREM OnlyRenamesCanHide == Spec => OnlyRenamesHide
<1>1. [Next]_vars => (tip' # tip /\ verdict' = "fast" /\ ~hid' => Fingerprint(tip') = Fingerprint(tip))
  <2> SUFFICES ASSUME [Next]_vars, tip' # tip, verdict' = "fast", ~hid'
               PROVE  Fingerprint(tip') = Fingerprint(tip)
    OBVIOUS
  <2>1. Push
    BY OnlyPushMoves
  <2>2. PICK m \in Renames(tip, local) :
              /\ tip' = local
              /\ verdict' = ClassifyPaths(GitChangedPaths(tip, local, m), local)
              /\ hid' = (\E r \in m : r[1] \in Hashed \cup {IntentPath})
    BY <2>1, PushChoice
  <2>3. \A p \in Hashed : tip[p] = local[p]
    BY <2>2, FastMeansEqual
  <2> QED
    BY <2>2, <2>3, FastMeansSameFingerprint
<1> QED
  BY <1>1, PTL DEF Spec, OnlyRenamesHide

\* The governed inputs at the tip were constructed, as long as no push failed
\* to classify and no rename hid a governed path: classify_paths lets nothing through.
THEOREM TipStaysConstructed == Spec => []TipIsConstructed
<1>1. Init => TipIsConstructed
  BY DEF Init, TipIsConstructed
<1>2. TipIsConstructed /\ [Next]_vars => TipIsConstructed'
  <2> SUFFICES ASSUME TipIsConstructed, [Next]_vars, spotless'
               PROVE  Fingerprint(tip)' \in constructed'
    BY DEF TipIsConstructed
  <2>1. CASE ~Push
    <3>1. UNCHANGED <<tip, constructed, spotless>>
      BY <2>1, OnlyPushMoves
    <3>2. Fingerprint(tip)' = Fingerprint(tip)
      BY <3>1 DEF Fingerprint
    <3> QED BY <3>1, <3>2 DEF TipIsConstructed
  <2>2. CASE Push
    <3>1. PICK m \in Renames(tip, local) :
              /\ tip' = local
              /\ verdict' = ClassifyPaths(GitChangedPaths(tip, local, m), local)
              /\ hid' = (\E r \in m : r[1] \in Hashed \cup {IntentPath})
              /\ spotless' = (spotless /\ verdict' # "error" /\ ~hid')
              /\ constructed' = IF verdict' \in {"material", "release"}
                                  THEN constructed \cup {Fingerprint(local)}
                                  ELSE constructed
      BY <2>2, PushChoice
    <3>2. Fingerprint(tip)' = Fingerprint(local)
      BY <3>1 DEF Fingerprint
    <3>3. CASE verdict' \in {"material", "release"}
      BY <3>1, <3>2, <3>3
    <3>4. CASE verdict' = "fast"
      <4>1. spotless /\ \A r \in m : r[1] \notin Hashed \cup {IntentPath}
        BY <3>1
      <4>2. \A p \in Hashed : tip[p] = local[p]
        BY <3>1, <3>4, <4>1, FastMeansEqual
      <4>3. Fingerprint(tip) = Fingerprint(local)
        BY <4>2, FastMeansSameFingerprint
      <4> QED BY <3>1, <3>2, <3>4, <4>1, <4>3 DEF TipIsConstructed
    <3> QED BY <3>1, <3>3, <3>4, ModeType DEF Mode
  <2> QED BY <2>1, <2>2
<1> QED BY <1>1, <1>2, PTL DEF Spec

\* A release classification survives the fast pushes after it.
THEOREM ReleaseKeepsStanding == Spec => []ReleaseStands
<1>1. Init => ReleaseStands
  BY DEF Init, ReleaseStands, ClassifyPaths, ValidIntent
<1>2. ReleaseStands /\ [Next]_vars => ReleaseStands'
  <2> SUFFICES ASSUME ReleaseStands, [Next]_vars, released'
               PROVE  /\ tip'[IntentPath] # Absent
                      /\ tip'[IntentPath].fingerprint = Fingerprint(tip)'
    BY DEF ReleaseStands
  <2>1. CASE ~Push
    <3>1. UNCHANGED <<tip, released>>
      BY <2>1, OnlyPushMoves
    <3>2. Fingerprint(tip)' = Fingerprint(tip)
      BY <3>1 DEF Fingerprint
    <3> QED BY <3>1, <3>2 DEF ReleaseStands
  <2>2. CASE Push
    <3>1. PICK m \in Renames(tip, local) :
              /\ tip' = local
              /\ verdict' = ClassifyPaths(GitChangedPaths(tip, local, m), local)
              /\ hid' = (\E r \in m : r[1] \in Hashed \cup {IntentPath})
              /\ released' = (verdict' = "release" \/ (released /\ verdict' = "fast" /\ ~hid'))
      BY <2>2, PushChoice
    <3>2. Fingerprint(tip)' = Fingerprint(local)
      BY <3>1 DEF Fingerprint
    <3>3. CASE verdict' = "release"
      <4>1. ValidIntent(local)
        BY <3>1, <3>3 DEF ClassifyPaths
      <4> QED BY <3>1, <3>2, <4>1 DEF ValidIntent
    <3>4. CASE released /\ verdict' = "fast" /\ ~hid'
      <4>1. \A r \in m : r[1] \notin Hashed \cup {IntentPath}
        BY <3>1, <3>4
      <4>2. (\A p \in Hashed : tip[p] = local[p]) /\ tip[IntentPath] = local[IntentPath]
        BY <3>1, <3>4, <4>1, FastMeansEqual
      <4>3. Fingerprint(tip) = Fingerprint(local)
        BY <4>2, FastMeansSameFingerprint
      <4> QED BY <3>1, <3>2, <3>4, <4>2, <4>3 DEF ReleaseStands
    <3> QED BY <3>1, <3>3, <3>4
  <2> QED BY <2>1, <2>2
<1> QED BY <1>1, <1>2, PTL DEF Spec
-----------------------------------------------------------------------------
(* The local gate                                                          *)

\* What commits that the gate passed leave to be pushed.
OnlyFastCommitted ==
    gated => /\ \A p \in Path : tip[p] # local[p] => ~NeedsConstruction(p)
             /\ local # tip => HasMaterials(local)

\* A gate that passes a working tree has seen every path in which it differs from
\* HEAD: git diff names it, a rename stands for it, or it is a file in no index.
LEMMA PassedIsFast ==
    ASSUME NEW work, NEW untracked, NEW m \in Renames(local, Tracked(work, untracked)),
           GatePasses(work, untracked, m)
    PROVE  /\ \A p \in Path : local[p] # work[p] => ~NeedsConstruction(p)
           /\ HasMaterials(work)
<1> DEFINE changed == WorktreePaths(local, work, untracked, m)
<1>1. /\ ClassifyPaths(changed, work) = "fast"
      /\ \A r \in m : ~NeedsConstruction(r[1])
  BY DEF GatePasses
<1>2. HasMaterials(work) /\ \A p \in changed : ~NeedsConstruction(p)
  BY <1>1 DEF ClassifyPaths
<1>3. ASSUME NEW p \in Path, local[p] # work[p], p \notin {r[1] : r \in m}
      PROVE  p \in changed
  BY <1>3 DEF WorktreePaths, GitChangedPaths, Differing, Tracked, Listed
<1> QED BY <1>1, <1>2, <1>3

\* What is staged and shown in a working tree that passed is fast, and the governed
\* inputs are those of HEAD in all three.
LEMMA CommitKeepsFast == OnlyFastCommitted /\ Commit => OnlyFastCommitted'
<1> SUFFICES ASSUME OnlyFastCommitted, Commit, gated'
             PROVE  /\ \A p \in Path : tip'[p] # local'[p] => ~NeedsConstruction(p)
                    /\ local' # tip' => HasMaterials(local')
  BY DEF OnlyFastCommitted, NeedsConstruction, HasMaterials
<1>1. tip' = tip /\ local' = index /\ gated
  BY Zenon DEF Commit, pushed
<1>2. PICK w \in Worktree :
         /\ Shown(w.files)
         /\ \E m \in Renames(local, Tracked(w.files, w.untracked)) :
               GatePasses(w.files, w.untracked, m)
  BY Zenon DEF Commit
<1> DEFINE work == w.files
<1>9. PICK m \in Renames(local, Tracked(work, w.untracked)) : GatePasses(work, w.untracked, m)
  BY <1>2
<1>3. /\ \A p \in Path : local[p] # work[p] => ~NeedsConstruction(p)
      /\ HasMaterials(work)
  BY <1>9, PassedIsFast
<1>4. \A p \in Path : local[p] # index[p] => ~NeedsConstruction(p)
  BY <1>2, <1>3 DEF Shown
<1>5. \A p \in Hashed : p \in Path /\ NeedsConstruction(p)
  BY PathAssumption DEF NeedsConstruction
<1>6. HasMaterials(index)
  BY <1>3, <1>4, <1>5 DEF HasMaterials
<1> QED BY <1>1, <1>4, <1>6 DEF OnlyFastCommitted

LEMMA FastIsKept == Spec => []OnlyFastCommitted
<1>1. Init => OnlyFastCommitted
  BY DEF Init, OnlyFastCommitted
<1>2. OnlyFastCommitted /\ [Next]_vars => OnlyFastCommitted'
  <2> SUFFICES ASSUME OnlyFastCommitted, [Next]_vars PROVE OnlyFastCommitted'
    OBVIOUS
  <2>1. CASE Commit
    BY <2>1, CommitKeepsFast
  <2>2. CASE Push
    <3>1. tip' = local'
      BY <2>2 DEF Push
    <3> QED BY <3>1 DEF OnlyFastCommitted
  <2>3. CASE UNCHANGED <<tip, local, gated>>
    BY <2>3 DEF OnlyFastCommitted, NeedsConstruction, HasMaterials
  <2> QED
    BY <2>1, <2>2, <2>3 DEF Next, vars, pushed, Edit, Move, Declare, Withdraw, Change
<1> QED BY <1>1, <1>2, PTL DEF Spec

\* The local gate foretells CI, for any paths, contents and working trees: commits that
\* it called fast, each against HEAD, with nothing hidden by a rename and nothing staged
\* that the working tree had undone, make a fast push.
THEOREM GateForetells == Spec => GatePredicts
<1>1. OnlyFastCommitted /\ [Next]_vars => [tip' # tip /\ gated => verdict' = "fast"]_vars
  <2> SUFFICES ASSUME OnlyFastCommitted, [Next]_vars, tip' # tip, gated
               PROVE  verdict' = "fast"
    OBVIOUS
  <2>1. Push
    BY OnlyPushMoves
  <2>2. PICK m \in Renames(tip, local) :
            /\ tip' = local
            /\ verdict' = ClassifyPaths(GitChangedPaths(tip, local, m), local)
    BY <2>1, PushChoice
  <2>3. HasMaterials(local) /\ \A p \in Path : tip[p] # local[p] => ~NeedsConstruction(p)
    BY <2>2 DEF OnlyFastCommitted
  <2>4. NeedsConstruction(IntentPath)
    BY PathAssumption DEF NeedsConstruction
  <2>5. \A p \in GitChangedPaths(tip, local, m) : p # IntentPath /\ ~NeedsConstruction(p)
    BY <2>3, <2>4 DEF GitChangedPaths, Differing
  <2> QED BY <2>2, <2>3, <2>5 DEF ClassifyPaths
<1> QED BY <1>1, FastIsKept, PTL DEF Spec, GatePredicts
-----------------------------------------------------------------------------
(* Types                                                                   *)

LEMMA FingerprintType ==
    ASSUME NEW t \in Tree PROVE Fingerprint(t) \in Fingerprints
<1>1. \A p \in Hashed : p \in Path /\ p # IntentPath
  BY PathAssumption
<1> QED BY <1>1 DEF Tree, Fingerprint, Fingerprints

LEMMA ChangeType ==
    ASSUME NEW t \in Tree, TypeOK, Change(t) PROVE TypeOK'
BY DEF Change, pushed, TypeOK

\* What is staged and what is committed stay trees, and all that is recorded of pushes keeps its type.
THEOREM ClassifierTypes == Spec => []TypeOK
<1>1. Init => TypeOK
  <2> SUFFICES ASSUME Init PROVE TypeOK
    OBVIOUS
  <2>1. tip \in Tree /\ local \in Tree /\ index \in Tree
    BY DEF Init
  <2>2. verdict \in Mode
    BY ModeType DEF Init
  <2>3. constructed \subseteq Fingerprints
    BY <2>1, FingerprintType DEF Init
  <2> QED BY <2>1, <2>2, <2>3 DEF Init, TypeOK
<1>2. TypeOK /\ [Next]_vars => TypeOK'
  <2> SUFFICES ASSUME TypeOK, [Next]_vars PROVE TypeOK'
    OBVIOUS
  <2>1. ASSUME NEW p \in Path, NEW x \in Contents, Edit(p, x) PROVE TypeOK'
    <3>1. p # IntentPath /\ [index EXCEPT ![p] = x] \in Tree
      BY <2>1 DEF Edit, TypeOK, Tree
    <3> QED BY <2>1, <3>1, ChangeType DEF Edit
  <2>2. ASSUME NEW p \in Path, NEW q \in Path, Move(p, q) PROVE TypeOK'
    <3>1. [index EXCEPT ![p] = Absent, ![q] = index[p]] \in Tree
      BY <2>2 DEF Move, TypeOK, Tree, Contents
    <3> QED BY <2>2, <3>1, ChangeType DEF Move
  <2>3. ASSUME NEW v \in Version, NEW sound \in BOOLEAN, Declare(v, sound) PROVE TypeOK'
    <3> DEFINE i == [version |-> v, fingerprint |-> Fingerprint(index), sound |-> sound]
    <3>1. i \in Intent
      BY FingerprintType DEF TypeOK, Intent
    <3>2. [index EXCEPT ![IntentPath] = i] \in Tree
      BY <3>1 DEF TypeOK, Tree
    <3> QED BY <2>3, <3>2, ChangeType DEF Declare
  <2>4. CASE Withdraw
    <3>1. [index EXCEPT ![IntentPath] = Absent] \in Tree
      BY PathAssumption DEF TypeOK, Tree, Contents
    <3> QED BY <2>4, <3>1, ChangeType DEF Withdraw
  <2>5. CASE Commit
    BY <2>5 DEF Commit, pushed, TypeOK
  <2>6. CASE Push
    <3>1. PICK m \in Renames(tip, local) :
              /\ tip' = local
              /\ verdict' = ClassifyPaths(GitChangedPaths(tip, local, m), local)
              /\ hid' = (\E r \in m : r[1] \in Hashed \cup {IntentPath})
              /\ spotless' = (spotless /\ verdict' # "error" /\ ~hid')
              /\ constructed' = IF verdict' \in {"material", "release"}
                                  THEN constructed \cup {Fingerprint(local)}
                                  ELSE constructed
              /\ released' = (verdict' = "release" \/ (released /\ verdict' = "fast" /\ ~hid'))
      BY <2>6, PushChoice
    <3>2. verdict' \in Mode
      BY <3>1, ModeType
    <3>3. hid' \in BOOLEAN /\ spotless' \in BOOLEAN /\ released' \in BOOLEAN
      BY Zenon, <3>1
    <3>4. constructed' \subseteq Fingerprints
      BY <3>1, FingerprintType DEF TypeOK
    <3>5. gated' \in BOOLEAN /\ edits' \in Nat /\ local' \in Tree /\ index' \in Tree /\ tip' \in Tree
      BY <2>6 DEF Push, TypeOK
    <3> QED BY <3>2, <3>3, <3>4, <3>5 DEF TypeOK
  <2>7. CASE UNCHANGED vars
    BY <2>7 DEF vars, TypeOK
  <2> QED BY <2>1, <2>2, <2>3, <2>4, <2>5, <2>6, <2>7 DEF Next
<1> QED BY <1>1, <1>2, PTL DEF Spec
=============================================================================

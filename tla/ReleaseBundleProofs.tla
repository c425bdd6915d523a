------------------------- MODULE ReleaseBundleProofs -------------------------
(***************************************************************************)
(* What build-manifest.py accepts and what comes of it, for any number of  *)
(* candidates, files, faults and versions.  First, only create writes      *)
(* checksums, so a directory that agrees with its own is one that create   *)
(* left.  Second, an accepted directory holds the archives its candidate   *)
(* names, so what is published is an identity that validate_catalogue saw. *)
(***************************************************************************)
EXTENDS ReleaseBundle, TLAPS

Untouched == UNCHANGED vars

\* Everything but publishing, and but preparing.
Handling ==
    \/ \E payload \in [Payload -> Content] : Merge(payload)
    \/ \E r \in Candidate, n \in Attempt : WriteManifest(r, n)
    \/ WriteChecksums
    \/ \E r \in Release : Validate(r)
    \/ FaultyFile

Preparing ==
    \E r \in Candidate, version \in [Archive -> Version], digest \in [Archive -> Content],
       decision \in [Archive -> Decision \cup {None}] : Prepare(r, version, digest, decision)

LEMMA Steps ==
    ASSUME [Next]_vars
    PROVE  Handling \/ Preparing \/ (\E r \in Candidate : Publish(r)) \/ Untouched
BY DEF Next, Handling, Preparing, Untouched

-----------------------------------------------------------------------------
(* Directories                                                             *)

Whole(d) ==
    /\ d = [payload |-> d.payload, extra |-> d.extra, manifest |-> d.manifest,
            checksums |-> d.checksums]
    /\ d.extra \in BOOLEAN

\* A manifest of a candidate copies its catalogue.
Copies(m) == m.release \in Candidate => m.catalogue # Absent

Recorded ==
    /\ Whole(dir)
    /\ \A d \in created : d = Left(d.checksums) /\ Copies(d.manifest)
    /\ dir.manifest # Absent => Copies(dir.manifest)
    /\ dir.checksums # Absent => Left(dir.checksums) \in created

Backed ==
    accepted # Absent => /\ dir.manifest # Absent /\ dir.checksums # Absent
                         /\ dir \in created /\ dir.manifest.release = accepted

DirInv == Recorded /\ Backed

LEMMA RecordedInit == Init => DirInv
<1> SUFFICES ASSUME Init PROVE DirInv
  OBVIOUS
<1>1. PICK payload \in [Payload -> Content] : dir = Merged(payload)
  BY DEF Init
<1>2. PICK c \in Content, n \in Attempt : created = {LegacyDir(c, n)}
  BY DEF Init
<1>3. LegacyDir(c, n) = Left(LegacyDir(c, n).checksums)
  BY DEF LegacyDir, Left
<1>4. Copies(LegacyDir(c, n).manifest)
  BY BundleAssumption DEF LegacyDir, LegacyManifest, Left, Copies
<1>5. Whole(dir) /\ dir.manifest = Absent /\ dir.checksums = Absent
  BY <1>1 DEF Merged, Whole
<1> QED
  BY <1>2, <1>3, <1>4, <1>5 DEF Init, DirInv, Recorded, Backed

\* A directory that agrees with its checksums is one that create left.
LEMMA AgreementIsCreation ==
    ASSUME Recorded, NEW r \in Release, Accepts(dir, r)
    PROVE  dir \in created
<1>1. dir.extra = FALSE
  BY DEF Accepts, Holds, Recorded, Whole
<1>2. Left(dir.checksums) = dir
  BY <1>1 DEF Accepts, Recorded, Whole, Left
<1> QED
  BY <1>2 DEF Recorded, Accepts

\* Faults put together what is there.
LEMMA FaultsRecord ==
    ASSUME Recorded, FaultyFile
    PROVE  Recorded' /\ accepted' = Absent
<1>1. CASE \E p \in Payload, c \in Content \cup {Absent} : Fault([dir EXCEPT !.payload[p] = c])
  BY <1>1 DEF Fault, Recorded, Whole, Left, Copies
<1>2. CASE Fault([dir EXCEPT !.extra = TRUE])
  BY <1>2 DEF Fault, Recorded, Whole, Left, Copies
<1>3. CASE Fault([dir EXCEPT !.manifest = Absent])
  BY <1>3 DEF Fault, Recorded, Whole, Left, Copies
<1>4. CASE Fault([dir EXCEPT !.checksums = Absent])
  BY <1>4 DEF Fault, Recorded, Whole, Left, Copies
<1>5. CASE \E d \in created, names \in SUBSET Payload, manifest, checksums \in BOOLEAN :
              Fault(Mixed(d, names, manifest, checksums))
  <2>1. PICK d \in created, names \in SUBSET Payload, manifest, checksums \in BOOLEAN :
              Fault(Mixed(d, names, manifest, checksums))
    BY <1>5
  <2>2. /\ dir' = Mixed(d, names, manifest, checksums)
        /\ UNCHANGED created /\ accepted' = Absent
    BY <2>1 DEF Fault
  <2>3. Whole(dir')
    BY <2>2 DEF Mixed, Whole, Recorded
  <2>4. dir'.manifest \in {d.manifest, dir.manifest} /\ dir'.checksums \in {d.checksums, dir.checksums}
    BY <2>2 DEF Mixed
  <2>5. dir'.manifest # Absent => Copies(dir'.manifest)
    BY <2>4 DEF Recorded
  <2>6. dir'.checksums # Absent => Left(dir'.checksums) \in created
    BY <2>4 DEF Recorded
  <2> QED
    BY <2>2, <2>3, <2>5, <2>6 DEF Recorded
<1> QED
  BY <1>1, <1>2, <1>3, <1>4, <1>5 DEF FaultyFile

LEMMA DirStep == DirInv /\ [Next]_vars => DirInv'
<1> SUFFICES ASSUME DirInv, [Next]_vars PROVE DirInv'
  OBVIOUS
<1>1. CASE Preparing \/ (\E r \in Candidate : Publish(r)) \/ Untouched
  <2>1. UNCHANGED <<dir, created, accepted>>
    BY <1>1 DEF Preparing, Prepare, Publish, Untouched, vars
  <2> QED
    BY <2>1 DEF DirInv, Recorded, Backed, Whole
<1>2. ASSUME NEW payload \in [Payload -> Content], Merge(payload) PROVE DirInv'
  BY <1>2 DEF Merge, Merged, DirInv, Recorded, Backed, Whole
<1>3. ASSUME NEW r \in Candidate, NEW n \in Attempt, WriteManifest(r, n) PROVE DirInv'
  <2>1. /\ dir' = [dir EXCEPT !.manifest = ManifestFor(dir, r, n)]
        /\ UNCHANGED <<created, accepted>>
        /\ dir.manifest = Absent /\ intent[r] # Absent
    BY <1>3 DEF WriteManifest, Creatable
  <2>2. accepted = Absent
    BY <2>1 DEF DirInv, Backed
  <2>3. Copies(dir'.manifest)
    BY <2>1 DEF DirInv, Recorded, Whole, ManifestFor, Copies
  <2> QED
    BY <2>1, <2>2, <2>3 DEF DirInv, Recorded, Backed, Whole
<1>4. CASE WriteChecksums
  <2> DEFINE c == [payload |-> dir.payload, manifest |-> dir.manifest]
  <2>1. /\ dir' = [dir EXCEPT !.checksums = c] /\ created' = created \cup {Left(dir'.checksums)}
        /\ dir.checksums = Absent /\ dir.manifest # Absent /\ UNCHANGED accepted
    BY <1>4 DEF WriteChecksums
  <2>2. accepted = Absent
    BY <2>1 DEF DirInv, Backed
  <2>3. dir'.checksums = c /\ dir'.manifest = dir.manifest
    BY <2>1 DEF DirInv, Recorded, Whole
  <2>4. Left(c).checksums = c /\ Copies(Left(c).manifest)
    BY <2>1 DEF Left, DirInv, Recorded
  <2>5. \A d \in created' : d = Left(d.checksums) /\ Copies(d.manifest)
    BY <2>1, <2>3, <2>4 DEF DirInv, Recorded
  <2>6. Whole(dir')
    BY <2>1 DEF DirInv, Recorded, Whole
  <2> QED
    BY <2>1, <2>2, <2>3, <2>5, <2>6 DEF DirInv, Recorded, Backed
<1>5. ASSUME NEW r \in Release, Validate(r) PROVE DirInv'
  <2>1. UNCHANGED <<dir, created>> /\ accepted' = IF Accepts(dir, r) THEN r ELSE Absent
    BY <1>5 DEF Validate
  <2>2. CASE Accepts(dir, r)
    BY <2>1, <2>2, AgreementIsCreation DEF Accepts, DirInv, Recorded, Backed, Whole
  <2>3. CASE ~Accepts(dir, r)
    BY <2>1, <2>3 DEF DirInv, Recorded, Backed, Whole
  <2> QED
    BY <2>2, <2>3
<1>6. CASE FaultyFile
  BY <1>6, FaultsRecord DEF DirInv, Backed
<1> QED
  BY <1>1, <1>2, <1>3, <1>4, <1>5, <1>6, Steps DEF Handling

LEMMA DirAlways == Spec => []DirInv
BY RecordedInit, DirStep, PTL DEF Spec

\* What validate accepts, create has left, for any files, attempts and faults.
THEOREM AcceptanceIsCreation == Spec => []AcceptedIsCreated
<1>1. DirInv => AcceptedIsCreated
  BY DEF DirInv, Backed, AcceptedIsCreated
<1> QED
  BY <1>1, DirAlways, PTL

-----------------------------------------------------------------------------
(* Candidates                                                              *)

\* Intents are what validate_catalogue accepted, for good; and an accepted directory
\* holds the archives that its candidate names.
Prepared ==
    /\ intent = [r \in Candidate |-> intent[r]]
    /\ \A r \in Candidate : intent[r] # Absent => \A n \in Archive : ValidRecord(intent[r][n])
    /\ published \subseteq {r \in Candidate : intent[r] # Absent}
    /\ accepted \in Candidate => intent[accepted] # Absent /\ CatalogueMatches(dir, accepted)

CandidateInv == DirInv /\ Prepared

LEMMA PreparedInit == Init => Prepared
BY BundleAssumption DEF Init, Prepared

\* A directory that changes is not an accepted one any more.
LEMMA ChangeForgets ==
    ASSUME DirInv, Handling, dir' # dir
    PROVE  accepted' = Absent
<1>1. ASSUME NEW payload \in [Payload -> Content], Merge(payload) PROVE accepted' = Absent
  BY <1>1 DEF Merge
<1>2. ASSUME NEW r \in Candidate, NEW n \in Attempt, WriteManifest(r, n) PROVE accepted' = Absent
  BY <1>2 DEF WriteManifest, Creatable, DirInv, Backed
<1>3. CASE WriteChecksums
  BY <1>3 DEF WriteChecksums, DirInv, Backed
<1>4. ASSUME NEW r \in Release, Validate(r) PROVE accepted' = Absent
  BY <1>4 DEF Validate
<1>5. CASE FaultyFile
  BY <1>5, FaultsRecord DEF DirInv
<1> QED
  BY <1>1, <1>2, <1>3, <1>4, <1>5 DEF Handling

LEMMA HandlingKeeps ==
    ASSUME Handling
    PROVE  UNCHANGED <<intent, history, current, published, serial>>
BY DEF Handling, Merge, WriteManifest, WriteChecksums, Validate, FaultyFile, Fault, ledger

\* Only validate accepts.
LEMMA HandlingAccepts ==
    ASSUME DirInv, Handling, accepted' # accepted, accepted' # Absent
    PROVE  \E r \in Release : Validate(r) /\ Accepts(dir, r) /\ accepted' = r
<1>1. ASSUME FaultyFile PROVE FALSE
  BY <1>1, FaultsRecord DEF DirInv
<1>2. \A payload \in [Payload -> Content] : ~Merge(payload)
  BY DEF Merge
<1>3. \A r \in Candidate, n \in Attempt : ~WriteManifest(r, n)
  BY DEF WriteManifest
<1>4. ~WriteChecksums
  BY DEF WriteChecksums
<1>5. PICK r \in Release : Validate(r)
  BY <1>1, <1>2, <1>3, <1>4 DEF Handling
<1> QED
  BY <1>5 DEF Validate

LEMMA PreparedStep == CandidateInv /\ [Next]_vars => Prepared'
<1> SUFFICES ASSUME CandidateInv, [Next]_vars PROVE Prepared'
  OBVIOUS
<1>1. CASE Handling
  <2>1. UNCHANGED <<intent, published>>
    BY <1>1, HandlingKeeps
  <2>2. ASSUME accepted' \in Candidate
        PROVE  intent[accepted'] # Absent /\ CatalogueMatches(dir', accepted')
    <3>1. accepted' # Absent /\ dir' = dir
      BY <2>2, <1>1, ChangeForgets, BundleAssumption DEF CandidateInv
    <3>2. CASE accepted' = accepted
      BY <3>1, <3>2, <2>2 DEF CandidateInv, Prepared
    <3>3. CASE accepted' # accepted
      <4>1. PICK r \in Release : Validate(r) /\ Accepts(dir, r) /\ accepted' = r
        BY <1>1, <3>1, <3>3, HandlingAccepts DEF CandidateInv
      <4>2. Copies(dir.manifest)
        BY <4>1 DEF CandidateInv, DirInv, Recorded, Accepts
      <4>3. CatalogueMatches(dir, r)
        BY <4>1, <4>2, <2>2 DEF Accepts, CatalogueAgrees, Copies
      <4> QED
        BY <4>1, <4>3, <3>1, <2>2 DEF Validate
    <3> QED
      BY <3>2, <3>3
  <2> QED
    BY <2>1, <2>2 DEF CandidateInv, Prepared, CatalogueMatches
<1>2. CASE Preparing
  <2>1. PICK r \in Candidate, version \in [Archive -> Version], digest \in [Archive -> Content],
             decision \in [Archive -> Decision \cup {None}] : Prepare(r, version, digest, decision)
    BY <1>2 DEF Preparing
  <2> DEFINE c == [n \in Archive |-> [version |-> version[n], digest |-> digest[n],
                                      previous |-> history[n], decision |-> decision[n]]]
  <2>2. /\ intent[r] = Absent /\ intent' = [intent EXCEPT ![r] = c]
        /\ \A n \in Archive : ValidRecord(c[n])
        /\ UNCHANGED <<dir, accepted, published>>
    BY <2>1 DEF Prepare, ledger
  <2> HIDE DEF c
  <2>3. \A s \in Candidate : intent'[s] = IF s = r THEN c ELSE intent[s]
    BY <2>2 DEF CandidateInv, Prepared
  <2>4. accepted # r /\ r \notin published
    BY <2>2 DEF CandidateInv, Prepared
  <2>5. intent' = [s \in Candidate |-> intent'[s]]
    BY <2>2 DEF CandidateInv, Prepared
  <2>6. \A s \in Candidate : intent'[s] # Absent => \A n \in Archive : ValidRecord(intent'[s][n])
    BY <2>2, <2>3 DEF CandidateInv, Prepared
  <2>7. published' \subseteq {s \in Candidate : intent'[s] # Absent}
    BY <2>2, <2>3, <2>4 DEF CandidateInv, Prepared
  <2>8. accepted' \in Candidate => intent'[accepted'] # Absent /\ CatalogueMatches(dir, accepted)'
    BY <2>2, <2>3, <2>4 DEF CandidateInv, Prepared, CatalogueMatches
  <2> QED
    BY <2>5, <2>6, <2>7, <2>8 DEF Prepared
<1>3. ASSUME NEW r \in Candidate, Publish(r) PROVE Prepared'
  <2>1. UNCHANGED <<intent, dir, accepted>> /\ accepted = r /\ published' = published \cup {r}
    BY <1>3 DEF Publish
  <2> QED
    BY <2>1 DEF CandidateInv, Prepared, CatalogueMatches
<1>4. CASE Untouched
  BY <1>4 DEF Untouched, vars, CandidateInv, Prepared, CatalogueMatches
<1> QED
  BY <1>1, <1>2, <1>3, <1>4, Steps

LEMMA CandidateAlways == Spec => []CandidateInv
<1>1. Init => CandidateInv
  BY RecordedInit, PreparedInit DEF CandidateInv
<1>2. CandidateInv /\ [Next]_vars => CandidateInv'
  BY DirStep, PreparedStep DEF CandidateInv
<1> QED
  BY <1>1, <1>2, PTL DEF Spec

-----------------------------------------------------------------------------
(* Types                                                                   *)

TypedInv == CandidateInv /\ TypeOK

\* What a publication adds: the identity of the intent, with the accepted bytes.
Named(r, n) == [version |-> intent[r][n].version, digest |-> intent[r][n].digest]

LEMMA PublishesIntent ==
    ASSUME CandidateInv, TypeOK, NEW r \in Candidate, Publish(r)
    PROVE  /\ intent[r] # Absent /\ intent[r] \in Catalogued
           /\ UNCHANGED intent /\ published' = published \cup {r}
           /\ current' = [n \in Archive |-> Named(r, n)]
           /\ history' = [n \in Archive |-> history[n] \cup {Named(r, n)}]
           /\ serial' = (serial /\ \A n \in Archive : intent[r][n].previous = history[n])
<1>1. accepted = r
  BY DEF Publish
<1>2. intent[r] # Absent /\ CatalogueMatches(dir, r)
  BY <1>1 DEF CandidateInv, Prepared
<1>3. intent[r] \in Catalogued
  BY <1>2 DEF TypeOK
<1>4. current' = [n \in Archive |-> [version |-> intent[r][n].version, digest |-> dir.payload[n]]]
  BY DEF Publish
<1>5. current' = [n \in Archive |-> Named(r, n)]
  BY <1>2, <1>4 DEF CatalogueMatches, Named
<1>6. history' = [n \in Archive |-> history[n] \cup {Named(r, n)}]
  BY <1>5 DEF Publish
<1> QED
  BY <1>2, <1>3, <1>5, <1>6 DEF Publish

LEMMA NamedType ==
    ASSUME NEW r \in Candidate, intent[r] \in Catalogued, NEW n \in Archive
    PROVE  intent[r][n] \in Record /\ Named(r, n) \in Identity
BY DEF Catalogued, Record, Named, Identity

LEMMA DirTypes ==
    ASSUME TypedInv, Handling
    PROVE  Dir(dir)' /\ \A d \in created' : Dir(d)
<1> USE DEF TypedInv, TypeOK
<1>1. ASSUME NEW payload \in [Payload -> Content], Merge(payload) PROVE Dir(dir)' /\ \A d \in created' : Dir(d)
  BY <1>1 DEF Merge, Merged, Dir, Files
<1>2. ASSUME NEW r \in Candidate, NEW n \in Attempt, WriteManifest(r, n)
      PROVE  Dir(dir)' /\ \A d \in created' : Dir(d)
  <2>1. /\ dir' = [dir EXCEPT !.manifest = ManifestFor(dir, r, n)] /\ UNCHANGED created
        /\ dir.checksums = Absent /\ intent[r] # Absent
    BY <1>2 DEF WriteManifest, Creatable
  <2>2. ManifestFor(dir, r, n) \in Manifest
    BY <2>1 DEF ManifestFor, Manifest, Release, Dir
  <2>3. /\ dir'.payload = dir.payload /\ dir'.extra = dir.extra /\ dir'.checksums = dir.checksums
        /\ dir'.manifest = ManifestFor(dir, r, n)
    BY <2>1 DEF CandidateInv, DirInv, Recorded, Whole
  <2> QED
    BY <2>1, <2>2, <2>3 DEF Dir
<1>3. CASE WriteChecksums
  <2> DEFINE c == [payload |-> dir.payload, manifest |-> dir.manifest]
  <2>1. /\ dir' = [dir EXCEPT !.checksums = c] /\ created' = created \cup {Left(dir'.checksums)}
        /\ dir.manifest # Absent
    BY <1>3 DEF WriteChecksums
  <2>2. /\ dir'.payload = dir.payload /\ dir'.extra = dir.extra /\ dir'.checksums = c
        /\ dir'.manifest = dir.manifest
    BY <2>1 DEF CandidateInv, DirInv, Recorded, Whole
  <2>3. Dir(dir')
    BY <2>1, <2>2 DEF Dir, Checksums
  <2>4. Dir(Left(c))
    BY <2>1 DEF Dir, Left, Checksums
  <2> QED
    BY <2>1, <2>2, <2>3, <2>4
<1>4. ASSUME NEW r \in Release, Validate(r) PROVE Dir(dir)' /\ \A d \in created' : Dir(d)
  BY <1>4 DEF Validate
<1>5. ASSUME NEW d, Fault(d), Dir(d) PROVE Dir(dir)' /\ \A e \in created' : Dir(e)
  BY <1>5 DEF Fault
<1>6. CASE FaultyFile
  <2>1. ASSUME NEW p \in Payload, NEW c \in Content \cup {Absent}
        PROVE  Dir([dir EXCEPT !.payload[p] = c])
    BY DEF Dir, Files, CandidateInv, DirInv, Recorded, Whole
  <2>2. Dir([dir EXCEPT !.extra = TRUE])
    BY DEF Dir, CandidateInv, DirInv, Recorded, Whole
  <2>3. Dir([dir EXCEPT !.manifest = Absent]) /\ Dir([dir EXCEPT !.checksums = Absent])
    BY DEF Dir, CandidateInv, DirInv, Recorded, Whole
  <2>4. ASSUME NEW d \in created, NEW names \in SUBSET Payload,
               NEW manifest \in BOOLEAN, NEW checksums \in BOOLEAN
        PROVE  Dir(Mixed(d, names, manifest, checksums))
    <3>1. Dir(d) /\ Dir(dir)
      OBVIOUS
    <3> DEFINE e == Mixed(d, names, manifest, checksums)
    <3>2. /\ e.payload \in Files /\ e.extra = dir.extra
          /\ e.manifest \in {d.manifest, dir.manifest} /\ e.checksums \in {d.checksums, dir.checksums}
      BY <3>1 DEF Mixed, Dir, Files
    <3> QED
      BY <3>1, <3>2 DEF Dir
  <2> QED
    BY <1>5, <1>6, <2>1, <2>2, <2>3, <2>4 DEF FaultyFile
<1> QED
  BY <1>1, <1>2, <1>3, <1>4, <1>6 DEF Handling

LEMMA TypeInit == Init => TypeOK
<1> SUFFICES ASSUME Init PROVE TypeOK
  OBVIOUS
<1>1. PICK payload \in [Payload -> Content] : dir = Merged(payload)
  BY DEF Init
<1>2. PICK c \in Content, n \in Attempt : created = {LegacyDir(c, n)}
  BY DEF Init
<1>3. Dir(dir)
  BY <1>1 DEF Dir, Merged, Files
<1>4. LegacyFiles(c) \in Files
  BY DEF LegacyFiles, Files
<1>5. LegacyManifest(c, n) \in Manifest
  BY <1>4 DEF Manifest, LegacyManifest, Release
<1>6. Dir(LegacyDir(c, n))
  BY <1>4, <1>5 DEF Dir, LegacyDir, Left, Checksums
<1> QED
  BY <1>2, <1>3, <1>6, BundleAssumption DEF Init, TypeOK

LEMMA TypeStep == TypedInv /\ [Next]_vars => TypeOK'
<1> SUFFICES ASSUME TypedInv, [Next]_vars PROVE TypeOK'
  OBVIOUS
<1>1. CASE Handling
  <2>1. Dir(dir)' /\ \A d \in created' : Dir(d)
    BY <1>1, DirTypes
  <2>2. UNCHANGED <<intent, history, current, published, serial>>
    BY <1>1, HandlingKeeps
  <2>3. accepted' \in Release \cup {Absent}
    BY <1>1, HandlingAccepts DEF TypedInv, CandidateInv, TypeOK
  <2>4. faults' \in 0..MaxFaults
    BY <1>1, BundleAssumption
    DEF Handling, Merge, WriteManifest, WriteChecksums, Validate, FaultyFile, Fault, TypedInv, TypeOK
  <2> QED
    BY <2>1, <2>2, <2>3, <2>4 DEF TypedInv, TypeOK
<1>2. CASE Preparing
  <2>1. PICK r \in Candidate, version \in [Archive -> Version], digest \in [Archive -> Content],
             decision \in [Archive -> Decision \cup {None}] : Prepare(r, version, digest, decision)
    BY <1>2 DEF Preparing
  <2> DEFINE c == [n \in Archive |-> [version |-> version[n], digest |-> digest[n],
                                      previous |-> history[n], decision |-> decision[n]]]
  <2>2. c \in Catalogued
    BY DEF Catalogued, Record, TypedInv, TypeOK
  <2>3. intent' = [intent EXCEPT ![r] = c] /\ UNCHANGED <<dir, created, accepted, ledger, faults>>
    BY <2>1 DEF Prepare
  <2> HIDE DEF c
  <2>4. \A s \in Candidate : intent'[s] = IF s = r THEN c ELSE intent[s]
    BY <2>3 DEF TypedInv, CandidateInv, Prepared
  <2> QED
    BY <2>2, <2>3, <2>4 DEF TypedInv, TypeOK, ledger
<1>3. ASSUME NEW r \in Candidate, Publish(r) PROVE TypeOK'
  <2>1. UNCHANGED <<intent, dir, created, accepted, faults>> /\ published' = published \cup {r}
    BY <1>3 DEF Publish
  <2>2. /\ current' = [n \in Archive |-> Named(r, n)]
        /\ history' = [n \in Archive |-> history[n] \cup {Named(r, n)}]
        /\ intent[r] \in Catalogued
    BY <1>3, PublishesIntent DEF TypedInv
  <2>3. \A n \in Archive : Named(r, n) \in Identity
    BY <2>2, NamedType
  <2>4. serial' \in BOOLEAN
    BY <1>3, PublishesIntent DEF TypedInv
  <2> QED
    BY <2>1, <2>2, <2>3, <2>4 DEF TypedInv, TypeOK
<1>4. CASE Untouched
  BY <1>4 DEF Untouched, vars, TypedInv, TypeOK
<1> QED
  BY <1>1, <1>2, <1>3, <1>4, Steps

LEMMA TypedAlways == Spec => []TypedInv
<1>1. Init => TypedInv
  BY RecordedInit, PreparedInit, TypeInit DEF TypedInv, CandidateInv
<1>2. TypedInv /\ [Next]_vars => TypedInv'
  BY DirStep, PreparedStep, TypeStep DEF TypedInv, CandidateInv
<1> QED
  BY <1>1, <1>2, PTL DEF Spec

\* The types of bundles, intents and releases, for any files and candidates.
THEOREM BundleTypes == Spec => []TypeOK
BY TypedAlways, PTL DEF TypedInv

-----------------------------------------------------------------------------
(* Undisturbed bundles                                                     *)

\* A manifest that is right about its directory.
Right(m, d) ==
    /\ m \in Manifest /\ m.files = d.payload
    /\ m.catalogue # Absent =>
          /\ m.release \in Candidate /\ intent[m.release] # Absent
          /\ m.catalogue = intent[m.release] /\ CatalogueMatches(d, m.release)

\* All that validate asks of a directory but the release.
Sound(d) ==
    /\ Right(d.manifest, d)
    /\ KnownTargets(d.manifest) /\ Holds(d, Targets(d.manifest))
    /\ d.checksums \in Checksums
    /\ d.checksums = [payload |-> d.payload, manifest |-> d.manifest]

Undisturbed ==
    faults = 0 =>
        /\ \A d \in created : Sound(d)
        /\ dir.manifest # Absent => Right(dir.manifest, dir) /\ Holds(dir, Payload)

LEMMA SoundIsAccepted ==
    ASSUME NEW d, Sound(d), NEW r \in Release
    PROVE  Accepts(d, r) <=> d.manifest.release = r
<1>1. d.manifest # Absent /\ d.checksums # Absent
  BY FileAssumption DEF Sound, Right
<1>2. d.manifest.release = r => CatalogueAgrees(d, r)
  BY DEF CatalogueAgrees, Sound, Right
<1> QED
  BY <1>1, <1>2 DEF Accepts, Sound, Right

LEMMA LegacyIsSound ==
    ASSUME NEW c \in Content, NEW n \in Attempt
    PROVE  Sound(LegacyDir(c, n))
<1> DEFINE m == LegacyManifest(c, n)
           d == LegacyDir(c, n)
<1>1. LegacyFiles(c) \in Files
  BY DEF LegacyFiles, Files
<1>2. /\ d.payload = LegacyFiles(c) /\ d.manifest = m /\ d.extra = FALSE
      /\ d.checksums = [payload |-> d.payload, manifest |-> m]
      /\ m.files = LegacyFiles(c) /\ m.catalogue = Absent
  BY DEF LegacyDir, Left, LegacyManifest
<1>3. m \in Manifest
  BY <1>1 DEF LegacyManifest, Manifest, Release
<1>4. Targets(m) = Historical
  BY <1>2, BundleAssumption DEF Targets, LegacyFiles
<1>5. Holds(d, Targets(m))
  BY <1>2, <1>4, BundleAssumption DEF Holds, LegacyFiles
<1> QED
  BY <1>1, <1>2, <1>3, <1>4, <1>5 DEF Sound, Right, KnownTargets, Checksums

LEMMA UndisturbedInit == Init => Undisturbed
<1> SUFFICES ASSUME Init PROVE Undisturbed
  OBVIOUS
<1>1. PICK payload \in [Payload -> Content] : dir = Merged(payload)
  BY DEF Init
<1>2. PICK c \in Content, n \in Attempt : created = {LegacyDir(c, n)}
  BY DEF Init
<1> QED
  BY <1>1, <1>2, LegacyIsSound DEF Undisturbed, Merged

\* Intents are prepared once, so what was right stays right.
LEMMA SoundStays ==
    ASSUME TypedInv, \A r \in Candidate : intent[r] # Absent => intent'[r] = intent[r]
    PROVE  /\ \A d : Sound(d) => Sound(d)'
           /\ \A m, d : Right(m, d) => Right(m, d)'
<1>1. ASSUME NEW m, NEW d, Right(m, d) PROVE Right(m, d)'
  BY <1>1 DEF Right, CatalogueMatches
<1> QED
  BY <1>1 DEF Sound, Right, KnownTargets, Targets, Holds, CatalogueMatches

\* Handling of bundles leaves the intents alone; it makes a directory right or fresh.
LEMMA HandlingUndisturbed ==
    ASSUME TypedInv, Undisturbed, Handling, faults' = 0
    PROVE  Undisturbed'
<1>0. UNCHANGED intent
  BY HandlingKeeps
<1>1. /\ \A d : Sound(d) => Sound(d)'
      /\ \A m, d : Right(m, d) => Right(m, d)'
  BY <1>0, SoundStays
<1>2. ~FaultyFile /\ faults = 0
  <2>1. ASSUME FaultyFile PROVE FALSE
    <3>1. faults' = faults + 1 /\ faults \in Nat
      BY <2>1, BundleAssumption DEF FaultyFile, Fault, TypedInv, TypeOK
    <3> QED BY <3>1
  <2> QED BY <2>1 DEF Handling, Merge, WriteManifest, WriteChecksums, Validate
<1>3. ASSUME NEW payload \in [Payload -> Content], Merge(payload) PROVE Undisturbed'
  <2>1. dir' = Merged(payload) /\ UNCHANGED created
    BY <1>3 DEF Merge
  <2> QED BY <1>1, <1>2, <2>1 DEF Undisturbed, Merged
<1>4. ASSUME NEW r \in Candidate, NEW n \in Attempt, WriteManifest(r, n) PROVE Undisturbed'
  <2>1. /\ dir' = [dir EXCEPT !.manifest = ManifestFor(dir, r, n)] /\ UNCHANGED created
        /\ intent[r] # Absent /\ Holds(dir, Payload) /\ CatalogueMatches(dir, r)
    BY <1>4 DEF WriteManifest, Creatable
  <2>2. /\ dir'.payload = dir.payload /\ dir'.extra = dir.extra
        /\ dir'.manifest = ManifestFor(dir, r, n)
    BY <2>1 DEF TypedInv, CandidateInv, DirInv, Recorded, Whole
  <2>3. ManifestFor(dir, r, n) \in Manifest
    BY <2>1 DEF ManifestFor, Manifest, Release, Dir, TypedInv, TypeOK
  <2>4. Right(dir.manifest, dir)'
    BY <1>0, <2>1, <2>2, <2>3 DEF Right, ManifestFor, CatalogueMatches
  <2>5. Holds(dir', Payload)
    BY <2>1, <2>2 DEF Holds
  <2> QED BY <1>1, <1>2, <2>1, <2>4, <2>5 DEF Undisturbed, Right, CatalogueMatches, Holds
<1>5. CASE WriteChecksums
  <2> DEFINE c == [payload |-> dir.payload, manifest |-> dir.manifest]
  <2>1. /\ dir' = [dir EXCEPT !.checksums = c] /\ created' = created \cup {Left(dir'.checksums)}
        /\ dir.manifest # Absent
    BY <1>5 DEF WriteChecksums
  <2>2. /\ dir'.payload = dir.payload /\ dir'.extra = dir.extra
        /\ dir'.manifest = dir.manifest /\ dir'.checksums = c
    BY <2>1 DEF TypedInv, CandidateInv, DirInv, Recorded, Whole
  <2>3. Right(dir.manifest, dir) /\ Holds(dir, Payload)
    BY <1>2, <2>1 DEF Undisturbed
  <2>4. Right(dir.manifest, Left(c)) /\ Holds(Left(c), Payload)
    BY <2>3 DEF Right, Left, Holds, CatalogueMatches
  <2>5. Targets(dir.manifest) = Payload
    BY <2>3 DEF Targets, Right, Holds
  <2>6. c \in Checksums
    BY <2>3 DEF Right, Checksums, Dir, TypedInv, TypeOK
  <2>7. Sound(Left(c))
    BY <2>4, <2>5, <2>6 DEF Sound, KnownTargets, Left
  <2>8. Right(dir.manifest, dir') /\ Holds(dir', Payload)
    BY <2>2, <2>3 DEF Right, Holds, CatalogueMatches
  <2>9. \A d \in created' : Sound(d)'
    BY <1>1, <1>2, <2>1, <2>2, <2>7 DEF Undisturbed
  <2>10. Right(dir.manifest, dir)'
    BY <1>0, <2>2, <2>8 DEF Right, CatalogueMatches
  <2> QED BY <2>2, <2>8, <2>9, <2>10 DEF Undisturbed, Right, Holds, CatalogueMatches
<1>6. ASSUME NEW r \in Release, Validate(r) PROVE Undisturbed'
  <2>1. UNCHANGED <<dir, created>>
    BY <1>6 DEF Validate
  <2> QED BY <1>1, <1>2, <2>1 DEF Undisturbed, Right, Holds, CatalogueMatches
<1> QED
  BY <1>2, <1>3, <1>4, <1>5, <1>6 DEF Handling

LEMMA UndisturbedStep == TypedInv /\ Undisturbed /\ [Next]_vars => Undisturbed'
<1> SUFFICES ASSUME TypedInv, Undisturbed, [Next]_vars PROVE Undisturbed'
  OBVIOUS
<1>1. CASE Handling
  BY <1>1, HandlingUndisturbed DEF Undisturbed
<1>2. CASE ~Handling
  <2>1. UNCHANGED <<dir, created, faults>>
    BY <1>2, Steps DEF Preparing, Prepare, Publish, Untouched, vars
  <2>2. \A r \in Candidate : intent[r] # Absent => intent'[r] = intent[r]
    BY <1>2, Steps DEF Preparing, Prepare, Publish, Untouched, vars, TypedInv, CandidateInv, Prepared
  <2>3. /\ \A d : Sound(d) => Sound(d)'
        /\ \A m, d : Right(m, d) => Right(m, d)'
    BY <2>2, SoundStays
  <2> QED BY <2>1, <2>3 DEF Undisturbed, Right, Holds, CatalogueMatches
<1> QED BY <1>1, <1>2

\* What create leaves undisturbed, validate accepts for its release and for no other,
\* for any number of bundles, candidates and files.
THEOREM CreationIsAcceptance == Spec => []CreatedIsAccepted
<1>1. Undisturbed => CreatedIsAccepted
  BY SoundIsAccepted DEF Undisturbed, CreatedIsAccepted
<1> QED BY <1>1, UndisturbedInit, UndisturbedStep, TypedAlways, PTL DEF Spec

-----------------------------------------------------------------------------
(* Histories                                                               *)

\* What other actions leave alone.
LEMMA OthersKeepLedger ==
    ASSUME Handling \/ Untouched
    PROVE  UNCHANGED <<intent, history, current, published, serial>>
BY HandlingKeeps DEF Untouched, vars

LEMMA PreparingKeepsLedger ==
    ASSUME Preparing PROVE UNCHANGED <<history, current, published, serial>>
BY DEF Preparing, Prepare, ledger

LEMMA ImmutableStep == TypedInv /\ IdentityIsImmutable /\ [Next]_vars => IdentityIsImmutable'
<1> SUFFICES ASSUME TypedInv, IdentityIsImmutable, [Next]_vars PROVE IdentityIsImmutable'
  OBVIOUS
<1>1. CASE Handling \/ Preparing \/ Untouched
  BY <1>1, OthersKeepLedger, PreparingKeepsLedger DEF IdentityIsImmutable
<1>2. ASSUME NEW r \in Candidate, Publish(r), serial', NEW n \in Archive
      PROVE  Unambiguous(history'[n])
  <2>0. /\ intent[r] # Absent
        /\ history' = [m \in Archive |-> history[m] \cup {Named(r, m)}]
        /\ serial' = (serial /\ \A m \in Archive : intent[r][m].previous = history[m])
    BY <1>2, PublishesIntent DEF TypedInv
  <2>1. history'[n] = history[n] \cup {Named(r, n)} /\ intent[r][n].previous = history[n]
    BY <1>2, <2>0
  <2>2. ValidRecord(intent[r][n])
    BY <2>0 DEF TypedInv, CandidateInv, Prepared
  <2> QED
    BY <2>1, <2>2 DEF ValidRecord, Unambiguous, Named
<1> QED
  BY <1>1, <1>2, Steps DEF IdentityIsImmutable

\* When no candidate missed a release, one version is one archive, for any versions.
THEOREM IdentitiesStay == Spec => []IdentityIsImmutable
<1>1. Init => IdentityIsImmutable
  BY DEF Init, IdentityIsImmutable, Unambiguous
<1> QED
  BY <1>1, ImmutableStep, TypedAlways, PTL DEF Spec

-----------------------------------------------------------------------------
(* Order of versions                                                       *)

LEMMA VersionParts ==
    ASSUME NEW v \in Version PROVE v[1] \in Nat /\ v[2] \in Nat /\ v[3] \in Nat
BY CatalogueAssumption

LEMMA VersionsDiffer ==
    ASSUME NEW v \in Version, NEW w \in Version, SameLine(v, w), v[3] = w[3] PROVE v = w
<1>1. v \in Nat \X Nat \X Nat /\ w \in Nat \X Nat \X Nat
  BY CatalogueAssumption
<1> QED
  BY <1>1 DEF SameLine

LEMMA BelowTransitive ==
    ASSUME NEW u \in Version, NEW v \in Version, NEW w \in Version, Below(u, v), Below(v, w)
    PROVE  Below(u, w)
BY VersionParts DEF Below

LEMMA BelowIrreflexive == ASSUME NEW v \in Version PROVE ~Below(v, v)
BY VersionParts DEF Below

\* Between two versions of a line there is only that line.
LEMMA LinesAreConvex ==
    ASSUME NEW u \in Version, NEW v \in Version, NEW w \in Version,
           Below(u, v), Below(v, w), SameLine(u, w)
    PROVE  SameLine(u, v) /\ SameLine(v, w)
BY VersionParts DEF Below, SameLine

With(record) == record.previous \cup {[version |-> record.version, digest |-> record.digest]}

NoneSkipped(identities) ==
    \A v, w \in Versions(identities) : SameLine(v, w) =>
        \A u \in Version : SameLine(u, v) /\ Below(v, u) /\ Below(u, w) => u \in Versions(identities)

LEMMA WithVersions ==
    ASSUME NEW record \in Record
    PROVE  /\ Versions(With(record)) = Versions(record.previous) \cup {record.version}
           /\ record.version \in Version /\ Versions(record.previous) \subseteq Version
<1>1. record.version \in Version /\ record.previous \subseteq Identity
  BY DEF Record
<1>2. Versions(record.previous) \subseteq Version
  BY <1>1 DEF Versions, Identity
<1> DEFINE new == [version |-> record.version, digest |-> record.digest]
<1>3. new.version = record.version
  OBVIOUS
<1>4. Versions(With(record)) = {i.version : i \in record.previous \cup {new}}
  BY DEF With, Versions
<1>5. {i.version : i \in record.previous \cup {new}} = Versions(record.previous) \cup {record.version}
  <2> HIDE DEF new
  <2> QED
    BY <1>3 DEF Versions
<1> QED
  BY <1>1, <1>2, <1>4, <1>5

\* A record that validate_catalogue accepts is the latest, and skips no patch.
LEMMA RecordAdvances ==
    ASSUME NEW record \in Record, ValidRecord(record), NoneSkipped(record.previous)
    PROVE  IsLatest(record.version, With(record)) /\ NoneSkipped(With(record))
<1> DEFINE new == record.version
           old == Versions(record.previous)
<1>0. /\ Versions(With(record)) = old \cup {new} /\ new \in Version /\ old \subseteq Version
  BY WithVersions
<1>1. CASE record.previous = {}
  <2>1. old = {}
    BY <1>1 DEF Versions
  <2> QED
    BY <1>0, <2>1, BelowIrreflexive, BelowTransitive DEF IsLatest, NoneSkipped
<1>2. CASE record.previous # {}
  <2>1. PICK latest \in Version : IsLatest(latest, record.previous) /\ Advances(record, latest)
    BY <1>2 DEF ValidRecord, Starts
  <2>2. \A w \in old : w = latest \/ Below(w, latest)
    BY <2>1 DEF IsLatest
  <2>3. latest \in old
    BY <2>1 DEF IsLatest
  <2>4. new = latest \/ Below(latest, new)
    BY <2>1 DEF Advances
  <2>5. \A w \in old : w = new \/ Below(w, new)
    BY <1>0, <2>2, <2>3, <2>4, BelowTransitive
  <2>6. IsLatest(new, With(record))
    BY <1>0, <2>5 DEF IsLatest
  <2>7. ASSUME NEW v \in old \cup {new}, NEW w \in old \cup {new}, SameLine(v, w),
               NEW u \in Version, SameLine(u, v), Below(v, u), Below(u, w)
        PROVE  u \in old \cup {new}
    <3>1. v # new
      <4>1. SUFFICES ASSUME v = new PROVE FALSE
        OBVIOUS
      <4>2. Below(new, w)
        BY <4>1, <2>7, <1>0, BelowTransitive
      <4>3. w = new \/ Below(w, new)
        BY <2>5
      <4> QED
        BY <4>2, <4>3, <1>0, BelowTransitive, BelowIrreflexive
    <3>2. CASE w \in old
      BY <3>1, <3>2, <2>7 DEF NoneSkipped
    <3>3. CASE w = new /\ new = latest
      BY <3>1, <3>3, <2>3, <2>7 DEF NoneSkipped
    <3>4. CASE w = new /\ Below(latest, new)
      <4>1. v = latest \/ Below(v, latest)
        BY <3>1, <2>2
      <4>2. SameLine(v, latest) /\ SameLine(latest, new)
        <5>1. CASE v = latest
          BY <5>1, <3>4, <2>7 DEF SameLine
        <5>2. CASE Below(v, latest)
          BY <5>2, <3>4, <2>7, <1>0, <2>3, LinesAreConvex
        <5> QED
          BY <4>1, <5>1, <5>2
      <4>3. new[3] = latest[3] + 1
        <5>1. new # latest
          BY <3>4, <1>0, BelowIrreflexive
        <5> QED
          BY <5>1, <4>2, <2>1 DEF Advances
      <4>4. SameLine(u, latest)
        BY <4>2, <2>7 DEF SameLine
      <4>5. u[3] <= latest[3]
        BY <4>2, <4>3, <4>4, <3>4, <2>7, <1>0, <2>3, VersionParts DEF SameLine, Below
      <4>6. u = latest \/ Below(u, latest)
        BY <4>4, <4>5, <1>0, <2>3, VersionParts, VersionsDiffer DEF SameLine, Below
      <4>7. CASE u = latest
        BY <4>7, <2>3
      <4>8. CASE Below(u, latest)
        BY <4>8, <4>2, <3>1, <2>3, <2>7 DEF NoneSkipped
      <4> QED
        BY <4>6, <4>7, <4>8
    <3> QED
      BY <3>2, <3>3, <3>4, <2>4, <2>7
  <2>8. NoneSkipped(With(record))
    <3> HIDE DEF new, old
    <3> QED
      BY <1>0, <2>7 DEF NoneSkipped
  <2> QED
    BY <2>6, <2>8
<1> QED
  BY <1>1, <1>2

\* A publication that lists all releases before it, one name at a time.
LEMMA SerialPublication ==
    ASSUME TypedInv, NEW r \in Candidate, Publish(r), serial', NEW n \in Archive
    PROVE  /\ serial /\ intent[r][n] \in Record /\ ValidRecord(intent[r][n])
           /\ intent[r][n].previous = history[n]
           /\ history'[n] = With(intent[r][n]) /\ current'[n].version = intent[r][n].version
<1>1. /\ intent[r] # Absent /\ intent[r] \in Catalogued
      /\ current' = [m \in Archive |-> Named(r, m)]
      /\ history' = [m \in Archive |-> history[m] \cup {Named(r, m)}]
      /\ serial' = (serial /\ \A m \in Archive : intent[r][m].previous = history[m])
  BY PublishesIntent DEF TypedInv
<1>2. ValidRecord(intent[r][n]) /\ intent[r][n] \in Record
  BY <1>1, NamedType DEF TypedInv, CandidateInv, Prepared
<1>3. serial /\ intent[r][n].previous = history[n]
  BY <1>1
<1>4. history'[n] = With(intent[r][n])
  BY <1>1, <1>3 DEF With, Named
<1>5. current'[n].version = intent[r][n].version
  BY <1>1 DEF Named
<1> QED
  BY <1>2, <1>3, <1>4, <1>5

LEMMA AdvanceStep == TypedInv /\ HistoryAdvances /\ [Next]_vars => HistoryAdvances'
<1> SUFFICES ASSUME TypedInv, HistoryAdvances, [Next]_vars PROVE HistoryAdvances'
  OBVIOUS
<1>1. CASE Handling \/ Preparing \/ Untouched
  BY <1>1, OthersKeepLedger, PreparingKeepsLedger DEF HistoryAdvances
<1>2. ASSUME NEW r \in Candidate, Publish(r), serial', NEW n \in Archive
      PROVE  NoneSkipped(history'[n]) /\ IsLatest(current'[n].version, history'[n])
  <2>1. NoneSkipped(history[n])
    BY <1>2, SerialPublication DEF HistoryAdvances, NoneSkipped
  <2> QED
    BY <1>2, <2>1, SerialPublication, RecordAdvances
<1>3. ASSUME NEW r \in Candidate, Publish(r) PROVE HistoryAdvances'
  BY <1>2, <1>3 DEF HistoryAdvances, NoneSkipped
<1> QED
  BY <1>1, <1>3, Steps

\* No patch is skipped and the last release is the highest, in any lines of versions.
THEOREM ReleasesAdvance == Spec => []HistoryAdvances
<1>1. Init => HistoryAdvances
  BY DEF Init, HistoryAdvances, Versions
<1> QED
  BY <1>1, AdvanceStep, TypedAlways, PTL DEF Spec

-----------------------------------------------------------------------------
(* Candidates side by side                                                 *)

Lists(r, n, v) == v \in Versions(intent[r][n].previous)

\* Every identity was released first by a candidate that does not list its version.
Originated ==
    \A n \in Archive :
        /\ \A i \in history[n] : \E r \in published : Named(r, n) = i /\ ~Lists(r, n, i.version)
        /\ \A r \in Candidate : intent[r] # Absent => intent[r][n].previous \subseteq history[n]

\* One that lists the version of its own identity lists that identity.
LEMMA ListedIsReleased ==
    ASSUME TypedInv, Originated, NEW r \in Candidate, intent[r] # Absent, NEW n \in Archive,
           Lists(r, n, intent[r][n].version)
    PROVE  Named(r, n) \in history[n]
<1>1. intent[r][n] \in Record /\ ValidRecord(intent[r][n])
  BY NamedType DEF TypedInv, TypeOK, CandidateInv, Prepared
<1>2. PICK i \in intent[r][n].previous : i.version = intent[r][n].version
  BY DEF Lists, Versions
<1>3. i \in Identity
  BY <1>1 DEF Record
<1>4. i.digest = intent[r][n].digest
  BY <1>1, <1>2 DEF ValidRecord
<1>5. i = Named(r, n)
  BY <1>2, <1>3, <1>4 DEF Identity, Named
<1> QED
  BY <1>5 DEF Originated

LEMMA OriginStep == TypedInv /\ Originated /\ [Next]_vars => Originated'
<1> SUFFICES ASSUME TypedInv, Originated, [Next]_vars PROVE Originated'
  OBVIOUS
<1>1. CASE Handling \/ Untouched
  BY <1>1, OthersKeepLedger DEF Originated, Named, Lists
<1>2. CASE Preparing
  <2>1. PICK r \in Candidate, version \in [Archive -> Version], digest \in [Archive -> Content],
             decision \in [Archive -> Decision \cup {None}] : Prepare(r, version, digest, decision)
    BY <1>2 DEF Preparing
  <2> DEFINE c == [n \in Archive |-> [version |-> version[n], digest |-> digest[n],
                                      previous |-> history[n], decision |-> decision[n]]]
  <2>2. intent[r] = Absent /\ intent' = [intent EXCEPT ![r] = c] /\ UNCHANGED <<history, published>>
    BY <2>1 DEF Prepare, ledger
  <2>3. \A n \in Archive : c[n].previous = history[n]
    OBVIOUS
  <2> HIDE DEF c
  <2>4. \A s \in Candidate : intent'[s] = IF s = r THEN c ELSE intent[s]
    BY <2>2 DEF TypedInv, CandidateInv, Prepared
  <2>5. published \subseteq Candidate /\ r \notin published
    BY <2>2 DEF TypedInv, CandidateInv, Prepared
  <2>6. \A s \in published : intent'[s] = intent[s]
    BY <2>4, <2>5
  <2> QED
    BY <2>2, <2>3, <2>4, <2>6 DEF Originated, Named, Lists
<1>3. ASSUME NEW r \in Candidate, Publish(r) PROVE Originated'
  <2>1. /\ intent[r] # Absent /\ UNCHANGED intent /\ published' = published \cup {r}
        /\ history' = [n \in Archive |-> history[n] \cup {Named(r, n)}]
    BY <1>3, PublishesIntent DEF TypedInv
  <2>2. ASSUME NEW n \in Archive, NEW i \in history'[n]
        PROVE  \E s \in published' : Named(s, n) = i /\ ~Lists(s, n, i.version)
    <3>1. CASE i \in history[n]
      BY <3>1, <2>1 DEF Originated
    <3>2. CASE i \notin history[n]
      <4>1. i = Named(r, n)
        BY <3>2, <2>1
      <4>2. ~Lists(r, n, i.version)
        BY <4>1, <3>2, <2>1, ListedIsReleased DEF Named
      <4> QED
        BY <4>1, <4>2, <2>1
    <3> QED
      BY <3>1, <3>2
  <2>3. ASSUME NEW n \in Archive, NEW s \in Candidate, intent'[s] # Absent
        PROVE  intent'[s][n].previous \subseteq history'[n]
    BY <2>1, <2>3 DEF Originated
  <2> QED
    BY <2>1, <2>2, <2>3 DEF Originated, Named, Lists
<1> QED
  BY <1>1, <1>2, <1>3, Steps

\* What collides was prepared side by side, and nothing is released on top of it.
THEOREM CollisionsStop == Spec => []CollisionStops
<1>1. Init => Originated
  BY BundleAssumption DEF Init, Originated
<1>2. Spec => []Originated
  BY <1>1, OriginStep, TypedAlways, PTL DEF Spec
<1>3. TypedInv /\ Originated => CollisionStops
  <2> SUFFICES ASSUME TypedInv, Originated PROVE CollisionStops
    OBVIOUS
  <2>1. ASSUME NEW n \in Archive, NEW r \in published PROVE Unambiguous(intent[r][n].previous)
    BY <2>1 DEF TypedInv, CandidateInv, Prepared, ValidRecord
  <2>2. ASSUME NEW n \in Archive, NEW i \in history[n], NEW j \in history[n], i.version = j.version
        PROVE  \E r, s \in published : /\ Named(r, n) = i /\ Named(s, n) = j
                                       /\ ~Lists(r, n, i.version) /\ ~Lists(s, n, i.version)
    BY <2>2 DEF Originated
  <2> QED
    BY <2>1, <2>2 DEF CollisionStops, Named, Lists
<1> QED
  BY <1>2, <1>3, TypedAlways, PTL
=============================================================================

---------------------------- MODULE ReleaseBundle ----------------------------
(***************************************************************************)
(* build-manifest.py create and validate, and the releases that come of    *)
(* them.  A release candidate is a commit whose release intent declares an *)
(* identity for every maintained archive and lists the identities released *)
(* before.  Several candidates may be prepared side by side.  The payload  *)
(* files of a run are merged into a directory, create adds a manifest and  *)
(* a checksum file, and a directory that validate accepts for a candidate  *)
(* is published.  On the way files are lost, added, damaged, or replaced   *)
(* by those of another bundle; a bundle of the historical schema, without  *)
(* a catalogue and with fewer targets, is among these.                     *)
(***************************************************************************)
EXTENDS Catalogue

CONSTANTS
    Payload,        \* names of the payload files of all targets
    Historical,     \* those of the historical targets
    Archive,        \* the archives of the maintained targets
    Absent,         \* no such file, no such intent
    Candidate,      \* commits with a schema-2 release intent
    Legacy,         \* the release of schema 1
    Attempt,        \* run attempts; recorded, but not requested
    MaxCreated,     \* bound: bundles created
    MaxFaults       \* bound: files changed behind the back of the program

ASSUME BundleAssumption ==
    /\ Archive \subseteq Payload /\ Historical \subseteq Payload
    /\ Absent \notin Content \cup Candidate \cup {Legacy}
    /\ Legacy \notin Candidate
    /\ MaxCreated \in Nat /\ MaxFaults \in Nat

Release == Candidate \cup {Legacy}
Catalogued == [Archive -> Record]

VARIABLES
    intent,     \* intent[r]: the catalogue of candidate r's release intent
    dir,        \* the directory: payload files, whether there is another file,
                \* manifest, checksums
    created,    \* directories that create left, with the files that belong there
    accepted,   \* the release that validate has accepted the directory for
    history,    \* history[n]: published identities of archive n
    current,    \* current[n]: the identity of n in the last release
    published,  \* candidates published
    serial,     \* whether each of these had listed all releases before it
    faults      \* files changed so far

vars == <<intent, dir, created, accepted, history, current, published, serial, faults>>
ledger == <<history, current, published, serial>>

\* A manifest names the release it was made for: repository, commit, fingerprint,
\* version, workflow and run.  The commit determines the catalogue, which schema 2 copies.
Files == [Payload -> Content \cup {Absent}]
Manifest == [release : Release, attempt : Attempt, catalogue : Catalogued \cup {Absent},
             files : Files]
Checksums == [payload : Files, manifest : Manifest]

ASSUME FileAssumption == Absent \notin Manifest \cup Checksums

Dir(d) ==
    /\ d.payload \in Files /\ d.extra \in BOOLEAN
    /\ d.manifest \in Manifest \cup {Absent} /\ d.checksums \in Checksums \cup {Absent}

TypeOK ==
    /\ \A r \in Candidate : intent[r] = Absent \/ intent[r] \in Catalogued
    /\ Dir(dir)
    /\ \A d \in created : Dir(d)
    /\ accepted \in Release \cup {Absent}
    /\ history \in [Archive -> SUBSET Identity]
    /\ \A n \in Archive : current[n] = Absent \/ current[n] \in Identity
    /\ published \subseteq Candidate /\ serial \in BOOLEAN
    /\ faults \in 0..MaxFaults

-----------------------------------------------------------------------------
\* A bundle of the schema-1 program, of the historical targets.
LegacyFiles(c) == [p \in Payload |-> IF p \in Historical THEN c ELSE Absent]

LegacyManifest(c, n) ==
    [release |-> Legacy, attempt |-> n, catalogue |-> Absent, files |-> LegacyFiles(c)]

\* What create leaves: the checksums are those of all other files.
Left(c) == [payload |-> c.payload, extra |-> FALSE, manifest |-> c.manifest, checksums |-> c]

LegacyDir(c, n) == Left([payload |-> LegacyFiles(c), manifest |-> LegacyManifest(c, n)])

\* The names that a manifest lists: all targets, or for schema 1 the historical ones.
Targets(m) == {p \in Payload : m.files[p] # Absent}

KnownTargets(m) ==
    Targets(m) = Payload \/ (m.catalogue = Absent /\ Targets(m) = Historical)

\* regular_files(): these and no others.
Holds(d, names) ==
    /\ \A p \in Payload : d.payload[p] # Absent <=> p \in names
    /\ ~d.extra

\* The archives are the ones that the release intent of the checkout names.
CatalogueMatches(d, r) ==
    \A n \in Archive : d.payload[n] = intent[r][n].digest

\* What create_manifest() asks of the directory.
Creatable(d, r) ==
    /\ intent[r] # Absent
    /\ d.manifest = Absent /\ d.checksums = Absent /\ Holds(d, Payload)
    /\ CatalogueMatches(d, r)

ManifestFor(d, r, n) ==
    [release |-> r, attempt |-> n, catalogue |-> intent[r], files |-> d.payload]

\* The catalogue check of validate_manifest(), which schema 1 does not have.
CatalogueAgrees(d, r) ==
    d.manifest.catalogue # Absent =>
        /\ r \in Candidate /\ d.manifest.catalogue = intent[r]
        /\ CatalogueMatches(d, r)

\* Mutant: SHA256SUMS is not read back.
Accepts_WithoutSums(d, r) ==
    /\ d.manifest # Absent /\ d.checksums # Absent
    /\ KnownTargets(d.manifest) /\ Holds(d, Targets(d.manifest))
    /\ CatalogueAgrees(d, r)
    /\ d.manifest.release = r
    /\ d.manifest.files = d.payload

\* Mutant: the manifest is taken for whatever release it names.
Accepts_AnyRelease(d, r) ==
    /\ d.manifest # Absent /\ d.checksums # Absent
    /\ KnownTargets(d.manifest) /\ Holds(d, Targets(d.manifest))
    /\ CatalogueAgrees(d, r)
    /\ d.checksums = [payload |-> d.payload, manifest |-> d.manifest]

\* validate_manifest() for release r, in a checkout of its commit.
Accepts(d, r) ==
    /\ d.manifest # Absent /\ d.checksums # Absent
    /\ KnownTargets(d.manifest) /\ Holds(d, Targets(d.manifest))
    /\ CatalogueAgrees(d, r)
    /\ d.manifest.release = r
    /\ d.manifest.files = d.payload
    /\ d.checksums = [payload |-> d.payload, manifest |-> d.manifest]

-----------------------------------------------------------------------------
Merged(payload) ==
    [payload |-> payload, extra |-> FALSE, manifest |-> Absent, checksums |-> Absent]

Init ==
    /\ intent = [r \in Candidate |-> Absent]
    /\ \E payload \in [Payload -> Content] : dir = Merged(payload)
    /\ \E c \in Content, n \in Attempt : created = {LegacyDir(c, n)}
    /\ accepted = Absent
    /\ history = [n \in Archive |-> {}] /\ current = [n \in Archive |-> Absent]
    /\ published = {} /\ serial = TRUE
    /\ faults = 0

\* A release intent over the history as it is now, accepted by validate_catalogue:
\* in classify and again in create and validate.
Prepare(r, version, digest, decision) ==
    LET c == [n \in Archive |-> [version |-> version[n], digest |-> digest[n],
                                 previous |-> history[n], decision |-> decision[n]]]
    IN  /\ intent[r] = Absent
        /\ \A n \in Archive : ValidRecord(c[n])
        /\ intent' = [intent EXCEPT ![r] = c]
        /\ UNCHANGED <<dir, created, accepted, ledger, faults>>

\* The artifacts of a run are merged into a fresh directory.
Merge(payload) ==
    /\ Cardinality(created) < MaxCreated
    /\ dir' = Merged(payload) /\ accepted' = Absent
    /\ UNCHANGED <<intent, created, ledger, faults>>

\* create_manifest() up to writing BUILD-MANIFEST.json ...
WriteManifest(r, n) ==
    /\ Cardinality(created) < MaxCreated
    /\ Creatable(dir, r)
    /\ dir' = [dir EXCEPT !.manifest = ManifestFor(dir, r, n)]
    /\ UNCHANGED <<intent, created, accepted, ledger, faults>>

\* ... and SHA256SUMS, from the files as they are now.
WriteChecksums ==
    /\ dir.manifest # Absent /\ dir.checksums = Absent
    /\ \A p \in Payload : dir.payload[p] # Absent
    /\ dir' = [dir EXCEPT !.checksums = [payload |-> dir.payload, manifest |-> dir.manifest]]
    /\ created' = created \cup {Left(dir'.checksums)}
    /\ UNCHANGED <<intent, accepted, ledger, faults>>

Validate(r) ==
    /\ r \in Candidate => intent[r] # Absent
    /\ accepted' = IF Accepts(dir, r) THEN r ELSE Absent
    /\ UNCHANGED <<intent, dir, created, ledger, faults>>

\* Mutant: the record of the intent is published as it is.
Publish_WholeRecord(r) ==
    /\ accepted = r /\ r \notin published
    /\ current' = intent[r]
    /\ history' = [n \in Archive |-> history[n] \cup {current'[n]}]
    /\ published' = published \cup {r}
    /\ serial' = (serial /\ \A n \in Archive : intent[r][n].previous = history[n])
    /\ UNCHANGED <<intent, dir, created, accepted, faults>>

\* The directory that was accepted is published, once per candidate.
Publish(r) ==
    /\ accepted = r /\ r \notin published
    /\ current' = [n \in Archive |-> [version |-> intent[r][n].version,
                                      digest |-> dir.payload[n]]]
    /\ history' = [n \in Archive |-> history[n] \cup {current'[n]}]
    /\ published' = published \cup {r}
    /\ serial' = (serial /\ \A n \in Archive : intent[r][n].previous = history[n])
    /\ UNCHANGED <<intent, dir, created, accepted, faults>>

\* Something happens to the directory behind the back of the program ...
Fault(d) ==
    /\ faults < MaxFaults
    /\ faults' = faults + 1 /\ dir' = d /\ accepted' = Absent
    /\ UNCHANGED <<intent, created, ledger>>

\* Files of another bundle in the place of those of the same names.
Mixed(d, names, manifest, checksums) ==
    [payload |-> [p \in Payload |-> IF p \in names THEN d.payload[p] ELSE dir.payload[p]],
     extra |-> dir.extra,
     manifest |-> IF manifest THEN d.manifest ELSE dir.manifest,
     checksums |-> IF checksums THEN d.checksums ELSE dir.checksums]

\* ... a file disappears, is damaged or added, or files come from another bundle.
FaultyFile ==
    \/ \E p \in Payload, c \in Content \cup {Absent} : Fault([dir EXCEPT !.payload[p] = c])
    \/ Fault([dir EXCEPT !.extra = TRUE])
    \/ Fault([dir EXCEPT !.manifest = Absent])
    \/ Fault([dir EXCEPT !.checksums = Absent])
    \/ \E d \in created, names \in SUBSET Payload, manifest, checksums \in BOOLEAN :
          Fault(Mixed(d, names, manifest, checksums))

Next ==
    \/ \E r \in Candidate, version \in [Archive -> Version], digest \in [Archive -> Content],
          decision \in [Archive -> Decision \cup {None}] : Prepare(r, version, digest, decision)
    \/ \E payload \in [Payload -> Content] : Merge(payload)
    \/ \E r \in Candidate, n \in Attempt : WriteManifest(r, n)
    \/ WriteChecksums
    \/ \E r \in Release : Validate(r)
    \/ \E r \in Candidate : Publish(r)
    \/ FaultyFile

Spec == Init /\ [][Next]_vars

-----------------------------------------------------------------------------
(* Properties                                                              *)

\* An accepted directory is, file by file, one that create had left for the
\* requested release: nothing is lost, added, damaged or mixed in from another
\* run or attempt, even when the files disagree only among themselves.  A bundle
\* of the historical schema is accepted for its own release only.
AcceptedIsCreated ==
    accepted # Absent => dir \in created /\ dir.manifest.release = accepted

\* What an undisturbed create left is accepted for its release, and for no
\* other, whatever has been prepared and published since: the two commands agree
\* about what a bundle is.
CreatedIsAccepted ==
    faults = 0 => \A d \in created : \A r \in Release :
        (r \in Candidate => intent[r] # Absent) =>
            (Accepts(d, r) <=> d.manifest.release = r)

\* As long as every published candidate had listed all releases before it, a name
\* and version stand for the same bytes in all of them, those of the bundles.
IdentityIsImmutable == serial => \A n \in Archive : Unambiguous(history[n])

\* Under the same condition no patch number of a major.minor line is skipped:
\* between any two published rebuilds all rebuilds were published.  And the last
\* release carries the highest version of each name: customers who follow releases
\* never go back.
HistoryAdvances ==
    serial => \A n \in Archive :
        /\ \A v, w \in Versions(history[n]) : SameLine(v, w) =>
              \A u \in Version : SameLine(u, v) /\ Below(v, u) /\ Below(u, w) =>
                  u \in Versions(history[n])
        /\ current[n] # Absent => IsLatest(current[n].version, history[n])

\* Two archives are released under one version only by candidates prepared side by
\* side, neither of which lists that version; and nothing is released on top of
\* such a pair, for no candidate that lists both identities is published.
CollisionStops ==
    \A n \in Archive :
        LET Names(r, i) == [version |-> intent[r][n].version, digest |-> intent[r][n].digest] = i
            Lists(r, v) == v \in Versions(intent[r][n].previous)
        IN  /\ \A i, j \in history[n] : i.version = j.version /\ i # j =>
                  \E r, s \in published : /\ Names(r, i) /\ Names(s, j)
                                         /\ ~Lists(r, i.version) /\ ~Lists(s, i.version)
            /\ \A r \in published : Unambiguous(intent[r][n].previous)
=============================================================================

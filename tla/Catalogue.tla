------------------------------ MODULE Catalogue ------------------------------
(***************************************************************************)
(* build-manifest.py's validate_catalogue: what the record of a name in a  *)
(* release intent must look like next to the identities of that name in    *)
(* the releases before it.  ReleaseBundle says how these come about.       *)
(***************************************************************************)
EXTENDS Naturals, FiniteSets

CONSTANTS
    Version,        \* versions of the form <<major, minor, patch>>
    Content,        \* contents of files; a SHA-256 digest is what it was computed from
    Decision,       \* ADR identifiers
    None            \* no versionDecision

ASSUME CatalogueAssumption ==
    /\ Version \subseteq Nat \X Nat \X Nat
    /\ None \notin Decision

Identity == [version : Version, digest : Content]

\* Target and name of a record determine each other (MAINTAINED_NAMES).
Record == [version : Version, digest : Content, previous : SUBSET Identity,
           decision : Decision \cup {None}]

\* Comparison of the tuples that image_version returns.
Below(v, w) ==
    \/ v[1] < w[1]
    \/ v[1] = w[1] /\ v[2] < w[2]
    \/ v[1] = w[1] /\ v[2] = w[2] /\ v[3] < w[3]

Versions(identities) == {i.version : i \in identities}

IsLatest(v, identities) ==
    /\ v \in Versions(identities)
    /\ \A w \in Versions(identities) : w = v \/ Below(w, v)

SameLine(v, w) == v[1] = w[1] /\ v[2] = w[2]

\* Mutant: only the patch number is compared with the previous one.
Advances_PatchOnly(r, latest) ==
    \/ r.version = latest /\ r.decision = None
    \/ r.version[3] = latest[3] + 1 /\ r.decision = None
    \/ ~SameLine(latest, r.version) /\ r.decision # None

\* What is asked of a version next to the latest previous one.
Advances(r, latest) ==
    \/ r.version = latest /\ r.decision = None
    \/ /\ Below(latest, r.version) /\ SameLine(latest, r.version)
       /\ r.version[3] = latest[3] + 1 /\ r.decision = None
    \/ Below(latest, r.version) /\ ~SameLine(latest, r.version) /\ r.decision # None

\* One version stands for one archive.
Unambiguous(identities) ==
    \A i, j \in identities : i.version = j.version => i.digest = j.digest

Starts(r) ==
    IF r.previous = {}
      THEN r.version = <<0, 1, 0>> /\ r.decision = None
      ELSE \E latest \in Version : IsLatest(latest, r.previous) /\ Advances(r, latest)

\* Mutant: a known version may come with other bytes.
ValidRecord_Reusable(r) == Unambiguous(r.previous) /\ Starts(r)

\* Mutant: the list of previous releases becomes a mapping without a look at doubles.
ValidRecord_Ambiguous(r) ==
    /\ r.version \in Versions(r.previous) =>
          \E i \in r.previous : i.version = r.version /\ i.digest = r.digest
    /\ Starts(r)

ValidRecord(r) ==
    /\ Unambiguous(r.previous)
    /\ \A i \in r.previous : i.version = r.version => i.digest = r.digest
    /\ Starts(r)
=============================================================================

--------------------------- MODULE ReleasePipeline ---------------------------
(***************************************************************************)
(* .github/workflows/ci.yml and release.yml.  Every push to main gets a CI *)
(* run; runs share one concurrency group, so a newer run cancels an older  *)
(* one.  A run classifies the push, builds and verifies every target,      *)
(* boots every built target, and in release mode packs the results into a  *)
(* bundle.  Pushing a tag starts a release flow that publishes the bundle  *)
(* of the tagged commit.  Jobs fail, runs are cancelled and rerun,         *)
(* artifacts expire and tags move between any two steps.                   *)
(*                                                                         *)
(* Commit k is the k-th push and run k its CI run.  A commit is abstracted *)
(* to its material fingerprint and its release intent; the classification  *)
(* by paths is ChangeClassifier's subject.  A build of a target gives one  *)
(* of several variants: builds need not be reproducible.                   *)
(***************************************************************************)
EXTENDS Naturals, Sequences, FiniteSets

CONSTANTS
    Target,         \* the targets of the CI matrix
    Fp,             \* material-input fingerprints
    Version,        \* versions an intent can declare
    Variant,        \* what a build of one commit and target can come out as
    None,           \* no artifact, bundle, tag, or release
    Base,           \* trees that main may hold when a behaviour starts
    MaxCommits,     \* bound: pushes to main, the first one included
    MaxReruns,      \* bound: reruns of runs
    MaxTagPushes    \* bound: tag pushes, one release flow each

Commit == 1..MaxCommits
Flow == 1..MaxTagPushes

ASSUME PipelineAssumption ==
    /\ MaxCommits \in Nat \ {0}
    /\ MaxReruns \in Nat
    /\ MaxTagPushes \in Nat
    /\ Target # {}
    /\ None \notin Variant \cup Nat

Intent == [version : Version, fp : Fp]
Tree == [fp : Fp, intent : Intent]
Bundle == [commit : Commit, version : Version, fp : Fp, files : [Target -> Variant]]

ASSUME BaseAssumption == Base \subseteq Tree

ASSUME NoBundle == None \notin Bundle

Outcome == {"todo", "ok", "failed"}
Status == {"none", "pending", "running", "success", "failure", "cancelled"}

VARIABLES
    main,       \* the trees pushed to main, in order
    status,     \* status[k] of run k
    gate,       \* outcome of the classify and unit jobs of run k
    image,      \* image[k][t]: outcome of image job t of run k
    built,      \* built[k][t]: variants the last image job t of run k built
    artifact,   \* artifact[k][t]: contents of qualified-t-k, None when expired
    proot,      \* proot[k][t]: outcome of proot job t of run k
    smoked,     \* smoked[k][t]: variant that proot job t of run k booted
    package,    \* package[k]: outcome of the package job
    bundle,     \* bundle[k]: contents of the retained release bundle
    retained,   \* commits whose bundle artifact has not expired
    reruns,     \* reruns so far
    tags,       \* tags[v]: the commit tag v points at
    flow,       \* the release flows, in order of their tag pushes
    published   \* published[v]: the bundle released as v

ci == <<main, status, gate, image, built, artifact, proot, smoked, package, bundle>>
vars == <<ci, retained, reruns, tags, flow, published>>

Step == {"validate", "locate", "download", "verify", "publish", "done", "failed"}
FlowState == [tag : Version, sha : Commit, step : Step, files : Bundle \cup {None}]

TypeOK ==
    /\ main \in Seq(Tree) /\ Len(main) \in Commit
    /\ status \in [Commit -> Status]
    /\ gate \in [Commit -> Outcome]
    /\ image \in [Commit -> [Target -> Outcome]]
    /\ built \in [Commit -> [Target -> SUBSET Variant]]
    /\ artifact \in [Commit -> [Target -> Variant \cup {None}]]
    /\ proot \in [Commit -> [Target -> Outcome]]
    /\ smoked \in [Commit -> [Target -> Variant \cup {None}]]
    /\ package \in [Commit -> Outcome]
    /\ bundle \in [Commit -> Bundle \cup {None}]
    /\ retained \subseteq Commit
    /\ reruns \in Nat
    /\ tags \in [Version -> Commit \cup {None}]
    /\ flow \in Seq(FlowState) /\ Len(flow) \in 0..MaxTagPushes
    /\ published \in [Version -> Bundle \cup {None}]

\* A first commit whose targets were constructed and whose CI succeeded.
Init ==
    /\ main \in {<<t>> : t \in Base}
    /\ status = [k \in Commit |-> IF k = 1 THEN "success" ELSE "none"]
    /\ gate = [k \in Commit |-> IF k = 1 THEN "ok" ELSE "todo"]
    /\ image = [k \in Commit |-> [t \in Target |-> IF k = 1 THEN "ok" ELSE "todo"]]
    /\ built = [k \in Commit |-> [t \in Target |-> {}]]
    /\ artifact = [k \in Commit |-> [t \in Target |-> None]]
    /\ proot = [k \in Commit |-> [t \in Target |-> IF k = 1 THEN "ok" ELSE "todo"]]
    /\ smoked = [k \in Commit |-> [t \in Target |-> None]]
    /\ package = [k \in Commit |-> "todo"]
    /\ bundle = [k \in Commit |-> None]
    /\ retained = {}
    /\ reruns = 0
    /\ tags = [v \in Version |-> None]
    /\ flow = <<>>
    /\ published = [v \in Version |-> None]

-----------------------------------------------------------------------------
(* Continuous integration                                                  *)

ValidIntent(tree) == tree.intent.fp = tree.fp

\* classify --base event.before --head sha: against the previous push.
Mode(k) ==
    IF k = 1 THEN "material"
    ELSE IF main[k].intent # main[k - 1].intent
           THEN IF ValidIntent(main[k]) THEN "release" ELSE "error"
    ELSE IF main[k].fp # main[k - 1].fp THEN "material" ELSE "fast"

\* Joining the concurrency group: the newest waiting run replaces other waiting ones.
Enqueue(k) ==
    status' = [j \in Commit |-> IF j = k THEN "pending"
                                ELSE IF status[j] = "pending" THEN "cancelled"
                                ELSE status[j]]

PushMain(tree) ==
    /\ Len(main) < MaxCommits
    /\ main' = Append(main, tree)
    /\ Enqueue(Len(main) + 1)
    /\ UNCHANGED <<gate, image, built, artifact, proot, smoked, package, bundle,
                   retained, reruns, tags, flow, published>>

StartRun(k) ==
    /\ status[k] = "pending"
    /\ \A j \in Commit : status[j] # "running"
    /\ status' = [status EXCEPT ![k] = "running"]
    /\ UNCHANGED <<main, gate, image, built, artifact, proot, smoked, package, bundle,
                   retained, reruns, tags, flow, published>>

\* cancel-in-progress: a waiting run ends the running one.
Cancel(k) ==
    /\ status[k] = "running"
    /\ \E j \in Commit : status[j] = "pending"
    /\ status' = [status EXCEPT ![k] = "cancelled"]
    /\ UNCHANGED <<main, gate, image, built, artifact, proot, smoked, package, bundle,
                   retained, reruns, tags, flow, published>>

\* The classify and unit jobs; a ClassificationError fails the former.
Gate(k, outcome) ==
    /\ status[k] = "running" /\ gate[k] = "todo"
    /\ Mode(k) = "error" => outcome = "failed"
    /\ gate' = [gate EXCEPT ![k] = outcome]
    /\ UNCHANGED <<main, status, image, built, artifact, proot, smoked, package, bundle,
                   retained, reruns, tags, flow, published>>

ImageReady(k, t) ==
    status[k] = "running" /\ gate[k] = "ok" /\ Mode(k) # "fast" /\ image[k][t] = "todo"

\* Mutant: the two output trees are not compared.
ImagePasses_NoDiff(k, t, a, b) ==
    /\ ImageReady(k, t)
    /\ image' = [image EXCEPT ![k][t] = "ok"]
    /\ built' = [built EXCEPT ![k][t] = IF Mode(k) = "release" THEN {a, b} ELSE {a}]
    /\ artifact' = [artifact EXCEPT ![k][t] = a]
    /\ UNCHANGED <<main, status, gate, proot, smoked, package, bundle,
                   retained, reruns, tags, flow, published>>

\* build-qualified-target.sh: build a, in release mode also build b and diff,
\* verify natively; then the upload of out/a.
ImagePasses(k, t, a, b) ==
    /\ ImageReady(k, t)
    /\ Mode(k) = "release" => a = b
    /\ image' = [image EXCEPT ![k][t] = "ok"]
    /\ built' = [built EXCEPT ![k][t] = IF Mode(k) = "release" THEN {a, b} ELSE {a}]
    /\ artifact' = [artifact EXCEPT ![k][t] = a]
    /\ UNCHANGED <<main, status, gate, proot, smoked, package, bundle,
                   retained, reruns, tags, flow, published>>

\* A build, the comparison, the native checks or the upload fails.
ImageFails(k, t) ==
    /\ ImageReady(k, t)
    /\ image' = [image EXCEPT ![k][t] = "failed"]
    /\ UNCHANGED <<main, status, gate, built, artifact, proot, smoked, package, bundle,
                   retained, reruns, tags, flow, published>>

\* needs: [classify, image]: every matrix job of image has succeeded.
ProotReady(k, t) ==
    status[k] = "running" /\ (\A u \in Target : image[k][u] = "ok") /\ proot[k][t] = "todo"

ProotPasses(k, t) ==
    /\ ProotReady(k, t)
    /\ artifact[k][t] # None
    /\ proot' = [proot EXCEPT ![k][t] = "ok"]
    /\ smoked' = [smoked EXCEPT ![k][t] = artifact[k][t]]
    /\ UNCHANGED <<main, status, gate, image, built, artifact, package, bundle,
                   retained, reruns, tags, flow, published>>

\* The artifact has expired, or the smoke test fails.
ProotFails(k, t) ==
    /\ ProotReady(k, t)
    /\ proot' = [proot EXCEPT ![k][t] = "failed"]
    /\ UNCHANGED <<main, status, gate, image, built, artifact, smoked, package, bundle,
                   retained, reruns, tags, flow, published>>

PackageReady(k) ==
    /\ status[k] = "running" /\ Mode(k) = "release" /\ package[k] = "todo"
    /\ \A t \in Target : proot[k][t] = "ok"

\* Mutant: the artifacts are not checked against the complete payload set.
PackagePasses_Incomplete(k) ==
    /\ PackageReady(k)
    /\ package' = [package EXCEPT ![k] = "ok"]
    /\ bundle' = [bundle EXCEPT ![k] =
            [commit |-> k, version |-> main[k].intent.version, fp |-> main[k].fp,
             files |-> artifact[k]]]
    /\ retained' = retained \cup {k}
    /\ UNCHANGED <<main, status, gate, image, built, artifact, proot, smoked,
                   reruns, tags, flow, published>>

\* The artifacts of all targets, create and validate, attest, upload.
PackagePasses(k) ==
    /\ PackageReady(k)
    /\ \A t \in Target : artifact[k][t] # None
    /\ package' = [package EXCEPT ![k] = "ok"]
    /\ bundle' = [bundle EXCEPT ![k] =
            [commit |-> k, version |-> main[k].intent.version, fp |-> main[k].fp,
             files |-> artifact[k]]]
    /\ retained' = retained \cup {k}
    /\ UNCHANGED <<main, status, gate, image, built, artifact, proot, smoked,
                   reruns, tags, flow, published>>

\* Also: the catalogue in the intent names other digests than were built.
PackageFails(k) ==
    /\ PackageReady(k)
    /\ package' = [package EXCEPT ![k] = "failed"]
    /\ UNCHANGED <<main, status, gate, image, built, artifact, proot, smoked, bundle,
                   retained, reruns, tags, flow, published>>

AllJobsOk(k) ==
    /\ gate[k] = "ok"
    /\ Mode(k) # "fast" => \A t \in Target : proot[k][t] = "ok"
    /\ Mode(k) = "release" => package[k] = "ok"

\* fail-fast is off: the other jobs of a matrix still run.
NoJobLeft(k) ==
    /\ gate[k] # "todo"
    /\ \A t \in Target : ~ImageReady(k, t) /\ ~ProotReady(k, t)
    /\ ~PackageReady(k)

\* Mutant: a run that lost a job is left hanging.
Finish_OnlySuccess(k) ==
    /\ status[k] = "running" /\ AllJobsOk(k)
    /\ status' = [status EXCEPT ![k] = "success"]
    /\ UNCHANGED <<main, gate, image, built, artifact, proot, smoked, package, bundle,
                   retained, reruns, tags, flow, published>>

Finish(k) ==
    /\ status[k] = "running" /\ NoJobLeft(k)
    /\ status' = [status EXCEPT ![k] = IF AllJobsOk(k) THEN "success" ELSE "failure"]
    /\ UNCHANGED <<main, gate, image, built, artifact, proot, smoked, package, bundle,
                   retained, reruns, tags, flow, published>>

Again(outcome) == IF outcome = "failed" THEN "todo" ELSE outcome

\* Mutant: image jobs are repeated, but the smoke tests that passed are kept.
RerunFailed_AllImages(k) ==
    /\ status[k] \in {"failure", "cancelled"} /\ reruns < MaxReruns
    /\ reruns' = reruns + 1
    /\ Enqueue(k)
    /\ gate' = [gate EXCEPT ![k] = Again(@)]
    /\ image' = [image EXCEPT ![k] = [t \in Target |-> "todo"]]
    /\ proot' = [proot EXCEPT ![k] = [t \in Target |-> Again(@[t])]]
    /\ package' = [package EXCEPT ![k] = Again(@)]
    /\ UNCHANGED <<main, built, artifact, smoked, bundle, retained, tags, flow, published>>

\* "Re-run failed jobs": jobs that succeeded keep their outcome and artifacts.
RerunFailed(k) ==
    /\ status[k] \in {"failure", "cancelled"} /\ reruns < MaxReruns
    /\ reruns' = reruns + 1
    /\ Enqueue(k)
    /\ gate' = [gate EXCEPT ![k] = Again(@)]
    /\ image' = [image EXCEPT ![k] = [t \in Target |-> Again(@[t])]]
    /\ proot' = [proot EXCEPT ![k] = [t \in Target |-> Again(@[t])]]
    /\ package' = [package EXCEPT ![k] = Again(@)]
    /\ UNCHANGED <<main, built, artifact, smoked, bundle, retained, tags, flow, published>>

\* retention-days: 2 for a qualified target, 90 for a bundle.  Nothing reads the
\* targets of a run that succeeded.
ExpireArtifact(k, t) ==
    /\ artifact[k][t] # None /\ status[k] # "success"
    /\ artifact' = [artifact EXCEPT ![k][t] = None]
    /\ UNCHANGED <<main, status, gate, image, built, proot, smoked, package, bundle,
                   retained, reruns, tags, flow, published>>

ExpireBundle(k) ==
    /\ k \in retained
    /\ retained' = retained \ {k}
    /\ UNCHANGED <<ci, reruns, tags, flow, published>>

-----------------------------------------------------------------------------
(* Publication                                                             *)

\* Creating or moving a tag on a commit of main starts a release flow.
PushTag(v, k) ==
    /\ Len(flow) < MaxTagPushes
    /\ k \in 1..Len(main)
    /\ tags' = [tags EXCEPT ![v] = k]
    /\ flow' = Append(flow, [tag |-> v, sha |-> k, step |-> "validate", files |-> None])
    /\ UNCHANGED <<ci, retained, reruns, published>>

At(i, step) == i \in DOMAIN flow /\ flow[i].step = step

\* Flow i goes from one step to the next, or its job fails.
Advance(i, from, ok, to) ==
    /\ At(i, from)
    /\ flow' = [flow EXCEPT ![i].step = IF ok THEN to ELSE "failed"]

\* validate-release-intent --release-tag, in the checkout of the tagged commit.
Validate(i) ==
    /\ Advance(i, "validate",
               /\ ValidIntent(main[flow[i].sha])
               /\ main[flow[i].sha].intent.version = flow[i].tag, "locate")
    /\ UNCHANGED <<ci, retained, reruns, tags, published>>

\* Mutant: the flow waits for a run that has not succeeded yet.
Locate_Polls(i) ==
    /\ At(i, "locate")
    /\ flow' = IF status[flow[i].sha] = "success" /\ flow[i].sha \in retained
                 THEN [flow EXCEPT ![i].step = "download"] ELSE flow
    /\ UNCHANGED <<ci, retained, reruns, tags, published>>

\* A successful run for the commit with an unexpired bundle.
Locate(i) ==
    /\ Advance(i, "locate",
               status[flow[i].sha] = "success" /\ flow[i].sha \in retained, "download")
    /\ UNCHANGED <<ci, retained, reruns, tags, published>>

Download(i) ==
    /\ At(i, "download")
    /\ flow' = [flow EXCEPT ![i] =
            IF flow[i].sha \in retained
              THEN [@ EXCEPT !.step = "verify", !.files = bundle[flow[i].sha]]
              ELSE [@ EXCEPT !.step = "failed"]]
    /\ UNCHANGED <<ci, retained, reruns, tags, published>>

\* build-manifest.py validate against tag, commit and fingerprint, then the
\* attestation of every file.
Verify(i) ==
    /\ Advance(i, "verify",
               /\ flow[i].files.version = flow[i].tag
               /\ flow[i].files.commit = flow[i].sha
               /\ flow[i].files.fp = main[flow[i].sha].fp, "publish")
    /\ UNCHANGED <<ci, retained, reruns, tags, published>>

\* Mutant: an existing release is written again.
Publish_Clobbers(i) ==
    /\ Advance(i, "publish", TRUE, "done")
    /\ published' = [published EXCEPT ![flow[i].tag] = flow[i].files]
    /\ UNCHANGED <<ci, retained, reruns, tags>>

\* gh release create fails when the tag has a release.
Publish(i) ==
    /\ Advance(i, "publish", published[flow[i].tag] = None, "done")
    /\ published' = IF published[flow[i].tag] = None
                      THEN [published EXCEPT ![flow[i].tag] = flow[i].files]
                      ELSE published
    /\ UNCHANGED <<ci, retained, reruns, tags>>

\* A command of a step fails for a reason of its own (network, rate limit).
FlowFails(i) ==
    /\ i \in DOMAIN flow /\ flow[i].step \notin {"done", "failed"}
    /\ flow' = [flow EXCEPT ![i].step = "failed"]
    /\ UNCHANGED <<ci, retained, reruns, tags, published>>

-----------------------------------------------------------------------------
RunStep(k) ==
    \/ StartRun(k) \/ Cancel(k) \/ Finish(k)
    \/ \E outcome \in {"ok", "failed"} : Gate(k, outcome)
    \/ \E t \in Target :
          \/ \E a, b \in Variant : ImagePasses(k, t, a, b)
          \/ ImageFails(k, t) \/ ProotPasses(k, t) \/ ProotFails(k, t)
    \/ PackagePasses(k) \/ PackageFails(k)

FlowStep(i) ==
    Validate(i) \/ Locate(i) \/ Download(i) \/ Verify(i) \/ Publish(i)

\* Maintainers push and rerun; GitHub lets artifacts expire.
Environment ==
    \/ \E tree \in Tree : PushMain(tree)
    \/ \E k \in Commit : RerunFailed(k) \/ ExpireBundle(k)
    \/ \E k \in Commit, t \in Target : ExpireArtifact(k, t)
    \/ \E v \in Version, k \in Commit : PushTag(v, k)

Next ==
    \/ \E k \in Commit : RunStep(k)
    \/ \E i \in Flow : FlowStep(i) \/ FlowFails(i)
    \/ Environment

Spec == Init /\ [][Next]_vars

\* GitHub schedules every runnable job, and every job ends (its own timeouts).
\* The steps of a flow are executed; they need not fail.
Fairness ==
    /\ \A k \in Commit : WF_vars(RunStep(k))
    /\ \A i \in Flow : WF_vars(FlowStep(i))

FairSpec == Spec /\ Fairness

-----------------------------------------------------------------------------
(* Properties                                                              *)

\* A bundle holds, for every target, exactly the bytes that the proot job of
\* the same run booted, through cancellations, reruns of some jobs and expiry.
BundleIsSmoked ==
    \A k \in Commit : bundle[k] # None =>
        \A t \in Target : bundle[k].files[t] = smoked[k][t]

\* What is published as v: every target built twice with the same result and
\* booted by a run that succeeded on a commit whose intent declares v for
\* its own material inputs.
PublishedIsQualified ==
    \A v \in Version : published[v] # None =>
        LET b == published[v]
        IN  /\ status[b.commit] = "success"
            /\ main[b.commit].intent = [version |-> v, fp |-> main[b.commit].fp]
            /\ \A t \in Target : /\ built[b.commit][t] = {b.files[t]}
                                 /\ smoked[b.commit][t] = b.files[t]

\* The pipeline implements the ledger: publish once, qualified bundles only.
Ledger == INSTANCE ReleaseLedger WITH
    qualified <- {bundle[k] : k \in {j \in Commit : status[j] = "success" /\ bundle[j] # None}},
    released <- published

LedgerSpec == Ledger!Spec

\* No run waits or runs for ever, however pushes, cancellations and failures
\* fall: the concurrency group never wedges.
RunsEnd ==
    \A k \in Commit :
        status[k] \in {"pending", "running"}
            ~> status[k] \in {"success", "failure", "cancelled"}

\* A release flow publishes or fails; it never waits for a run to succeed.
FlowsEnd ==
    \A i \in Flow : Len(flow) >= i ~> (Len(flow) >= i /\ flow[i].step \in {"done", "failed"})

\* Neither CI nor a release is left hanging, whatever the other does meanwhile.
PipelineEnds == RunsEnd /\ FlowsEnd

\* README: in material mode each target is constructed.  The governed inputs
\* of a tip whose CI is green were constructed by some run.
GreenTipIsConstructed ==
    status[Len(main)] = "success" =>
        \E k \in 1..Len(main) : /\ main[k].fp = main[Len(main)].fp
                                /\ \A t \in Target : image[k][t] = "ok"

\* README: the tag of a release points at the commit it was built from.
TagPointsAtRelease ==
    [][\A v \in Version :
          published'[v] # published[v] => tags[v] = published'[v].commit]_vars
=============================================================================

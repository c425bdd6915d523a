------------------------ MODULE ReleasePipelineProofs ------------------------
(***************************************************************************)
(* Proofs about ReleasePipeline for any targets, any number of pushes,     *)
(* reruns and tag pushes.  The invariant has two parts: what the jobs of a *)
(* run have established by their outcomes, through reruns and expiry, and  *)
(* what a release flow knows of the run it located.                        *)
(***************************************************************************)
EXTENDS ReleasePipeline, TLAPS

\* The steps of a run, by what they change.
Scheduling == \E k \in Commit : StartRun(k) \/ Cancel(k) \/ Finish(k)
Gating == \E k \in Commit, outcome \in {"ok", "failed"} : Gate(k, outcome)
Imaging == \E k \in Commit, t \in Target :
               (\E a, b \in Variant : ImagePasses(k, t, a, b)) \/ ImageFails(k, t)
Booting == \E k \in Commit, t \in Target : ProotPasses(k, t) \/ ProotFails(k, t)
Packing == \E k \in Commit : PackagePasses(k) \/ PackageFails(k)
Pushing == \E tree \in Tree : PushMain(tree)
Rerunning == \E k \in Commit : RerunFailed(k)
Expiring == \/ \E k \in Commit : ExpireBundle(k)
            \/ \E k \in Commit, t \in Target : ExpireArtifact(k, t)
Tagging == \E v \in Version, k \in Commit : PushTag(v, k)
Flowing == \E i \in Flow : FlowStep(i) \/ FlowFails(i)

LEMMA Steps ==
    ASSUME [Next]_vars
    PROVE  \/ Scheduling \/ Gating \/ Imaging \/ Booting \/ Packing
           \/ Pushing \/ Rerunning \/ Expiring \/ Tagging \/ Flowing
           \/ UNCHANGED vars
BY DEF Next, RunStep, Environment, Scheduling, Gating, Imaging, Booting, Packing, Pushing,
       Rerunning, Expiring, Tagging, Flowing

-----------------------------------------------------------------------------
(* Types                                                                   *)

RunTypes ==
    /\ main \in Seq(Tree) /\ Len(main) \in Commit
    /\ status \in [Commit -> Status]
    /\ gate \in [Commit -> Outcome]
    /\ image \in [Commit -> [Target -> Outcome]]
    /\ built \in [Commit -> [Target -> SUBSET Variant]]
    /\ artifact \in [Commit -> [Target -> Variant \cup {None}]]
    /\ proot \in [Commit -> [Target -> Outcome]]
    /\ smoked \in [Commit -> [Target -> Variant \cup {None}]]
    /\ package \in [Commit -> Outcome]
    /\ bundle \in [Commit -> Bundle \cup {None}]

FlowTypes ==
    /\ tags \in [Version -> Commit \cup {None}]
    /\ flow \in Seq(FlowState) /\ Len(flow) \in 0..MaxTagPushes
    /\ published \in [Version -> Bundle \cup {None}]

\* Only what was pushed has a run.
Started ==
    \A k \in Commit : k > Len(main) =>
        /\ status[k] = "none" /\ package[k] = "todo" /\ bundle[k] = None
        /\ \A t \in Target : image[k][t] = "todo" /\ proot[k][t] = "todo"

LEMMA RunIsPushed ==
    ASSUME RunTypes, Started, NEW k \in Commit, status[k] # "none"
    PROVE  k \in 1..Len(main)
<1>1. ~(k > Len(main))
  BY DEF Started
<1> QED
  BY <1>1, PipelineAssumption DEF RunTypes, Commit

RunBundle(k) == [commit |-> k, version |-> main[k].intent.version, fp |-> main[k].fp,
                 files |-> artifact[k]]

LEMMA PackedIsBundle ==
    ASSUME RunTypes, Started, NEW k \in Commit, PackagePasses(k)
    PROVE  RunBundle(k) \in Bundle
<1>1. status[k] = "running" /\ \A t \in Target : artifact[k][t] # None
  BY DEF PackagePasses, PackageReady
<1>2. main[k] \in Tree
  <2>1. k \in 1..Len(main)
    BY <1>1, RunIsPushed
  <2> QED BY <2>1 DEF RunTypes
<1>3. artifact[k] \in [Target -> Variant]
  BY <1>1 DEF RunTypes
<1> QED BY <1>2, <1>3 DEF RunBundle, Bundle, Tree, Intent

LEMMA RunTypesStep ==
    ASSUME RunTypes, Started, [Next]_vars PROVE RunTypes'
<1> USE PipelineAssumption DEF RunTypes, Commit, Status, Outcome
<1>1. CASE Scheduling
  BY <1>1 DEF Scheduling, StartRun, Cancel, Finish
<1>2. CASE Gating
  BY <1>2 DEF Gating, Gate
<1>3. CASE Imaging
  <2>1. PICK k \in Commit, t \in Target :
            (\E a, b \in Variant : ImagePasses(k, t, a, b)) \/ ImageFails(k, t)
    BY <1>3 DEF Imaging
  <2>2. ASSUME NEW a \in Variant, NEW b \in Variant, ImagePasses(k, t, a, b) PROVE RunTypes'
    BY <2>1, <2>2 DEF ImagePasses
  <2>3. CASE ImageFails(k, t)
    BY <2>1, <2>3 DEF ImageFails
  <2> QED BY <2>1, <2>2, <2>3
<1>4. CASE Booting
  <2>1. PICK k \in Commit, t \in Target : ProotPasses(k, t) \/ ProotFails(k, t)
    BY <1>4 DEF Booting
  <2>2. CASE ProotPasses(k, t)
    BY <2>1, <2>2 DEF ProotPasses
  <2>3. CASE ProotFails(k, t)
    BY <2>1, <2>3 DEF ProotFails
  <2> QED BY <2>1, <2>2, <2>3
<1>5. CASE Packing
  <2>1. PICK k \in Commit : PackagePasses(k) \/ PackageFails(k)
    BY <1>5 DEF Packing
  <2>2. CASE PackagePasses(k)
    BY <2>1, <2>2, PackedIsBundle DEF PackagePasses, RunBundle
  <2>3. CASE PackageFails(k)
    BY <2>3 DEF PackageFails
  <2> QED BY <2>1, <2>2, <2>3
<1>6. CASE Pushing
  BY <1>6 DEF Pushing, PushMain, Enqueue
<1>7. CASE Rerunning
  BY <1>7 DEF Rerunning, RerunFailed, Enqueue, Again
<1>8. CASE Expiring
  <2>1. ASSUME NEW k \in Commit, NEW t \in Target, ExpireArtifact(k, t) PROVE RunTypes'
    BY <2>1 DEF ExpireArtifact
  <2> QED BY <1>8, <2>1 DEF Expiring, ExpireBundle, ci
<1>9. CASE Tagging \/ Flowing \/ UNCHANGED vars
  BY <1>9 DEF Tagging, PushTag, Flowing, FlowStep, FlowFails, Validate, Locate, Download, Verify,
              Publish, ci, vars
<1> QED
  BY <1>1, <1>2, <1>3, <1>4, <1>5, <1>6, <1>7, <1>8, <1>9, Steps

LEMMA StartedStep ==
    ASSUME RunTypes, Started, [Next]_vars PROVE Started'
<1>0. Len(main) \in Nat /\ MaxCommits \in Nat /\ \A k \in Commit : k \in Nat
  BY PipelineAssumption DEF RunTypes, Commit
<1>1. CASE Scheduling
  BY <1>1 DEF Scheduling, StartRun, Cancel, Finish, Started, RunTypes
<1>2. CASE Gating
  BY <1>2 DEF Gating, Gate, Started
<1>3. CASE Imaging
  <2>1. PICK k \in Commit, t \in Target :
            (\E a, b \in Variant : ImagePasses(k, t, a, b)) \/ ImageFails(k, t)
    BY <1>3 DEF Imaging
  <2>2. status[k] = "running" /\ UNCHANGED <<main, status, package, bundle, proot>>
    BY <2>1 DEF ImagePasses, ImageFails, ImageReady
  <2>3. \E outcome : image' = [image EXCEPT ![k][t] = outcome]
    BY <2>1 DEF ImagePasses, ImageFails
  <2>4. \A j \in Commit : j # k => image'[j] = image[j]
    BY <2>3 DEF RunTypes
  <2> QED BY <2>2, <2>4 DEF Started
<1>4. CASE Booting
  <2>1. PICK k \in Commit, t \in Target : ProotPasses(k, t) \/ ProotFails(k, t)
    BY <1>4 DEF Booting
  <2>2. status[k] = "running" /\ UNCHANGED <<main, status, package, bundle, image>>
    BY <2>1 DEF ProotPasses, ProotFails, ProotReady
  <2>3. \E outcome : proot' = [proot EXCEPT ![k][t] = outcome]
    BY <2>1 DEF ProotPasses, ProotFails
  <2>4. \A j \in Commit : j # k => proot'[j] = proot[j]
    BY <2>3 DEF RunTypes
  <2> QED BY <2>2, <2>4 DEF Started
<1>5. CASE Packing
  BY <1>5 DEF Packing, PackagePasses, PackageFails, PackageReady, Started, RunTypes
<1>6. CASE Pushing
  <2>1. Len(main') = Len(main) + 1
    BY <1>6 DEF Pushing, PushMain, RunTypes
  <2>2. \A k \in Commit : k > Len(main) + 1 => status'[k] = status[k]
    BY <1>0, <1>6 DEF Pushing, PushMain, Enqueue, Started
  <2> QED BY <1>0, <1>6, <2>1, <2>2 DEF Pushing, PushMain, Started
<1>7. CASE Rerunning
  <2>1. PICK k \in Commit : RerunFailed(k)
    BY <1>7 DEF Rerunning
  <2>2. k <= Len(main) /\ UNCHANGED <<main, bundle>>
    BY <1>0, <2>1 DEF RerunFailed, Started
  <2>3. \A j \in Commit : j # k =>
            /\ image'[j] = image[j] /\ proot'[j] = proot[j] /\ package'[j] = package[j]
            /\ status[j] = "none" => status'[j] = "none"
    BY <2>1 DEF RerunFailed, Enqueue, RunTypes
  <2>4. ASSUME NEW j \in Commit, j > Len(main) PROVE j # k
    BY <1>0, <2>2, <2>4
  <2> QED BY <2>2, <2>3, <2>4 DEF Started
<1>8. CASE Expiring \/ Tagging \/ Flowing \/ UNCHANGED vars
  <2>1. UNCHANGED <<main, status, package, bundle, image, proot>>
    BY <1>8 DEF Expiring, ExpireBundle, ExpireArtifact, Tagging, PushTag, Flowing, FlowStep,
                FlowFails, Validate, Locate, Download, Verify, Publish, ci, vars
  <2> QED BY <2>1 DEF Started
<1> QED
  BY <1>1, <1>2, <1>3, <1>4, <1>5, <1>6, <1>7, <1>8, Steps

LEMMA FlowTypesStep ==
    ASSUME RunTypes, FlowTypes, [Next]_vars PROVE FlowTypes'
<1> USE DEF FlowTypes
<1>1. CASE Tagging
  <2>1. PICK v \in Version, k \in Commit : PushTag(v, k)
    BY <1>1 DEF Tagging
  <2>2. [tag |-> v, sha |-> k, step |-> "validate", files |-> None] \in FlowState
    BY <2>1 DEF FlowState, Step
  <2> QED
    BY <2>1, <2>2, PipelineAssumption DEF PushTag
<1>2. CASE Flowing
  <2>1. PICK i \in Flow : FlowStep(i) \/ FlowFails(i)
    BY <1>2 DEF Flowing
  <2>2. i \in DOMAIN flow
    BY <2>1 DEF FlowStep, FlowFails, Validate, Locate, Download, Verify, Publish, Advance, At
  <2>3. flow[i] \in FlowState
    BY <2>2
  <2>4. ASSUME NEW f \in FlowState, flow' = [flow EXCEPT ![i] = f],
               UNCHANGED <<tags, published>>
        PROVE  FlowTypes'
    BY <2>2, <2>4
  <2>5. ASSUME NEW to \in Step, flow' = [flow EXCEPT ![i].step = to]
        PROVE  flow' \in Seq(FlowState) /\ Len(flow') = Len(flow)
    <3>1. flow' = [flow EXCEPT ![i] = [flow[i] EXCEPT !.step = to]]
      BY <2>2, <2>5
    <3>2. [flow[i] EXCEPT !.step = to] \in FlowState
      BY <2>3 DEF FlowState
    <3> QED BY <2>2, <3>1, <3>2
  <2>6. CASE FlowFails(i) \/ Validate(i) \/ Locate(i) \/ Verify(i)
    BY <2>5, <2>6 DEF FlowFails, Validate, Locate, Verify, Advance, Step
  <2>7. CASE Download(i)
    <3>1. bundle[flow[i].sha] \in Bundle \cup {None}
      BY <2>3 DEF FlowState, RunTypes
    <3> QED BY <2>3, <2>4, <2>7, <3>1 DEF Download, FlowState, Step
  <2>8. CASE Publish(i)
    <3>1. published' \in [Version -> Bundle \cup {None}]
      BY <2>3, <2>8 DEF Publish, FlowState
    <3> QED BY <2>5, <2>8, <3>1 DEF Publish, Advance, Step
  <2> QED
    BY <2>1, <2>6, <2>7, <2>8 DEF FlowStep
<1>3. CASE ~Tagging /\ ~Flowing
  <2>1. UNCHANGED <<tags, flow, published>>
    BY <1>3, Steps DEF Scheduling, StartRun, Cancel, Finish, Gating, Gate, Imaging, ImagePasses,
       ImageFails, Booting, ProotPasses, ProotFails, Packing, PackagePasses, PackageFails,
       Pushing, PushMain, Rerunning, RerunFailed, Expiring, ExpireBundle, ExpireArtifact, vars
  <2> QED BY <2>1
<1> QED
  BY <1>1, <1>2, <1>3

Counts == retained \subseteq Commit /\ reruns \in Nat

LEMMA CountsStep ==
    ASSUME Counts, [Next]_vars PROVE Counts'
<1> USE DEF Counts
<1>1. CASE Packing
  BY <1>1 DEF Packing, PackagePasses, PackageFails
<1>2. CASE Rerunning
  BY <1>2 DEF Rerunning, RerunFailed
<1>3. CASE Expiring
  BY <1>3 DEF Expiring, ExpireBundle, ExpireArtifact
<1>4. CASE Scheduling \/ Gating \/ Imaging \/ Booting \/ Pushing
  BY <1>4 DEF Scheduling, StartRun, Cancel, Finish, Gating, Gate, Imaging, ImagePasses,
              ImageFails, Booting, ProotPasses, ProotFails, Pushing, PushMain
<1>5. CASE Tagging \/ Flowing \/ UNCHANGED vars
  BY <1>5 DEF Tagging, PushTag, Flowing, FlowStep, FlowFails, Validate, Locate, Download, Verify,
              Publish, vars
<1> QED
  BY <1>1, <1>2, <1>3, <1>4, <1>5, Steps

TypeInv == RunTypes /\ Started /\ FlowTypes /\ Counts

LEMMA TypeInit == Init => TypeInv
<1> SUFFICES ASSUME Init PROVE TypeInv
  OBVIOUS
<1>1. PICK tree \in Base : main = <<tree>>
  BY DEF Init
<1>2. main \in Seq(Tree) /\ Len(main) = 1
  BY <1>1, BaseAssumption
<1>3. 1 \in Commit /\ MaxTagPushes \in Nat
  BY PipelineAssumption DEF Commit
<1>4. RunTypes
  BY <1>2, <1>3 DEF Init, RunTypes, Status, Outcome
<1>5. Started
  BY <1>2, <1>3, PipelineAssumption DEF Init, Started, Commit
<1>6. FlowTypes /\ Counts
  BY <1>3 DEF Init, FlowTypes, Counts
<1> QED
  BY <1>4, <1>5, <1>6 DEF TypeInv

LEMMA TypeStep == TypeInv /\ [Next]_vars => TypeInv'
BY RunTypesStep, StartedStep, FlowTypesStep, CountsStep DEF TypeInv

\* Runs, artifacts, flows and releases keep their types for any number of targets,
\* pushes, reruns and tags.
THEOREM PipelineTypes == Spec => []TypeOK
<1>1. TypeInv => TypeOK
  BY DEF TypeInv, RunTypes, FlowTypes, Counts, TypeOK
<1> QED BY <1>1, TypeInit, TypeStep, PTL DEF Spec

-----------------------------------------------------------------------------
(* What the outcomes of jobs establish                                     *)

\* In release mode an image job that passed built one variant, twice.
Constructed(k) ==
    Mode(k) = "release" =>
        \A t \in Target : image[k][t] = "ok" =>
            \E v \in Variant : built[k][t] = {v} /\ artifact[k][t] \in {v, None}

\* A proot job that passed booted what was built, and no image is built after it.
Booted(k) ==
    \A t \in Target : proot[k][t] = "ok" =>
        /\ \A u \in Target : image[k][u] = "ok"
        /\ Mode(k) = "release" => smoked[k][t] # None /\ built[k][t] = {smoked[k][t]}

\* A bundle is that of its run, and no job of the run comes after it.
Packed(k) ==
    bundle[k] # None =>
        /\ package[k] = "ok" /\ Mode(k) = "release"
        /\ \A t \in Target : proot[k][t] = "ok" /\ bundle[k].files[t] = smoked[k][t]
        /\ bundle[k].commit = k /\ bundle[k].version = main[k].intent.version
        /\ bundle[k].fp = main[k].fp

Evident(k) == Constructed(k) /\ Booted(k) /\ Packed(k)
Evidence == \A k \in Commit : Evident(k)

\* A mode is that of a push and the one before it.
LEMMA ModeStays ==
    ASSUME TypeInv, [Next]_vars, NEW k \in 1..Len(main)
    PROVE  main'[k] = main[k] /\ Mode(k)' = Mode(k) /\ k \in 1..Len(main')
<1>1. main' = main \/ \E tree \in Tree : main' = Append(main, tree)
  BY Steps DEF Scheduling, StartRun, Cancel, Finish, Gating, Gate, Imaging, ImagePasses,
     ImageFails, Booting, ProotPasses, ProotFails, Packing, PackagePasses, PackageFails,
     Pushing, PushMain, Rerunning, RerunFailed, Expiring, ExpireBundle, ExpireArtifact,
     Tagging, PushTag, Flowing, FlowStep, FlowFails, Validate, Locate, Download, Verify,
     Publish, ci, vars
<1>2. \A j \in 1..Len(main) : main'[j] = main[j] /\ j \in 1..Len(main')
  BY <1>1 DEF TypeInv, RunTypes
<1>3. k = 1 \/ k - 1 \in 1..Len(main)
  BY DEF TypeInv, RunTypes, Commit
<1> QED
  BY <1>2, <1>3 DEF Mode, ValidIntent

\* What a step leaves alone stays evident.
LEMMA StaysEvident ==
    ASSUME TypeInv, [Next]_vars, NEW k \in 1..Len(main), k \in Commit, Evident(k),
           image'[k] = image[k], built'[k] = built[k], artifact'[k] = artifact[k],
           proot'[k] = proot[k], smoked'[k] = smoked[k],
           bundle'[k] = bundle[k], package'[k] = package[k]
    PROVE  Evident(k)'
<1>1. main'[k] = main[k] /\ Mode(k)' = Mode(k)
  BY ModeStays
<1> QED
  BY <1>1 DEF Evident, Constructed, Booted, Packed

\* An image job runs before any smoke test and bundle of its run.
LEMMA ImageEvident ==
    ASSUME TypeInv, [Next]_vars, NEW k \in Commit, k \in 1..Len(main), Evident(k),
           NEW t \in Target,
           (\E a, b \in Variant : ImagePasses(k, t, a, b)) \/ ImageFails(k, t)
    PROVE  Evident(k)'
<1>0. main'[k] = main[k] /\ Mode(k)' = Mode(k)
  BY ModeStays
<1>1. image[k][t] = "todo" /\ UNCHANGED <<proot, smoked, package, bundle>>
  BY DEF ImagePasses, ImageFails, ImageReady
<1>2. \A u \in Target : proot[k][u] # "ok"
  BY <1>1 DEF Evident, Booted
<1>3. bundle[k] = None
  BY <1>2, PipelineAssumption DEF Evident, Packed
<1>4. Booted(k)' /\ Packed(k)'
  BY <1>1, <1>2, <1>3 DEF Booted, Packed
<1>5. Constructed(k)'
  <2>1. CASE ImageFails(k, t)
    <3>1. /\ image' = [image EXCEPT ![k][t] = "failed"]
          /\ UNCHANGED <<built, artifact>>
      BY <2>1 DEF ImageFails
    <3>2. \A u \in Target : image'[k][u] = "ok" => image[k][u] = "ok"
      BY <3>1 DEF TypeInv, RunTypes
    <3> QED BY <1>0, <3>1, <3>2 DEF Evident, Constructed
  <2>2. ASSUME NEW a \in Variant, NEW b \in Variant, ImagePasses(k, t, a, b)
        PROVE  Constructed(k)'
    <3>1. CASE Mode(k) # "release"
      BY <1>0, <3>1 DEF Constructed
    <3>2. CASE Mode(k) = "release"
      <4>1. built'[k][t] = {a} /\ artifact'[k][t] = a
        BY <2>2, <3>2 DEF ImagePasses, TypeInv, RunTypes
      <4>2. \A u \in Target \ {t} : /\ image'[k][u] = image[k][u]
                                    /\ built'[k][u] = built[k][u]
                                    /\ artifact'[k][u] = artifact[k][u]
        BY <2>2 DEF ImagePasses, TypeInv, RunTypes
      <4> QED BY <1>0, <4>1, <4>2, <3>2 DEF Evident, Constructed
    <3> QED BY <3>1, <3>2
  <2> QED BY <2>1, <2>2
<1> QED BY <1>4, <1>5 DEF Evident

\* A smoke test boots the artifact of an image job, and is not repeated after success.
LEMMA ProotEvident ==
    ASSUME TypeInv, [Next]_vars, NEW k \in Commit, k \in 1..Len(main), Evident(k),
           NEW t \in Target, ProotPasses(k, t) \/ ProotFails(k, t)
    PROVE  Evident(k)'
<1>0. main'[k] = main[k] /\ Mode(k)' = Mode(k)
  BY ModeStays
<1>1. /\ proot[k][t] = "todo" /\ \A u \in Target : image[k][u] = "ok"
      /\ UNCHANGED <<image, built, artifact, package, bundle>>
  BY DEF ProotPasses, ProotFails, ProotReady
<1>2. bundle[k] = None
  BY <1>1 DEF Evident, Packed
<1>3. Constructed(k)' /\ Packed(k)'
  BY <1>0, <1>1, <1>2 DEF Evident, Constructed, Packed
<1>4. \A u \in Target \ {t} : proot'[k][u] = proot[k][u] /\ smoked'[k][u] = smoked[k][u]
  BY DEF ProotPasses, ProotFails, TypeInv, RunTypes
<1>5. proot'[k][t] = "ok" => smoked'[k][t] = artifact[k][t] /\ artifact[k][t] # None
  <2>1. CASE ProotPasses(k, t)
    BY <2>1 DEF ProotPasses, TypeInv, RunTypes
  <2>2. CASE ProotFails(k, t)
    BY <2>2 DEF ProotFails, TypeInv, RunTypes
  <2> QED BY <2>1, <2>2
<1>6. Mode(k) = "release" /\ artifact[k][t] # None => built[k][t] = {artifact[k][t]}
  BY <1>1 DEF Evident, Constructed
<1>7. Booted(k)'
  BY <1>0, <1>1, <1>4, <1>5, <1>6 DEF Evident, Booted
<1> QED BY <1>3, <1>7 DEF Evident

\* The bundle is made of what was booted.
LEMMA PackageEvident ==
    ASSUME TypeInv, [Next]_vars, NEW k \in Commit, k \in 1..Len(main), Evident(k),
           PackagePasses(k) \/ PackageFails(k)
    PROVE  Evident(k)'
<1>0. main'[k] = main[k] /\ Mode(k)' = Mode(k)
  BY ModeStays
<1>1. /\ PackageReady(k) /\ UNCHANGED <<image, built, artifact, proot, smoked>>
  BY DEF PackagePasses, PackageFails
<1>2. Constructed(k)' /\ Booted(k)'
  BY <1>0, <1>1 DEF Evident, Constructed, Booted
<1>3. CASE PackageFails(k)
  <2>1. bundle'[k] = bundle[k] /\ bundle[k] = None
    BY <1>1, <1>3 DEF PackageFails, PackageReady, Evident, Packed
  <2> QED BY <1>2, <2>1 DEF Evident, Packed
<1>4. CASE PackagePasses(k)
  <2>1. /\ \A t \in Target : artifact[k][t] # None
        /\ package'[k] = "ok"
        /\ bundle'[k] = [commit |-> k, version |-> main[k].intent.version, fp |-> main[k].fp,
                         files |-> artifact[k]]
    BY <1>4 DEF PackagePasses, TypeInv, RunTypes
  <2>2. Mode(k) = "release" /\ \A t \in Target : proot[k][t] = "ok"
    BY <1>1 DEF PackageReady
  <2>3. \A t \in Target : artifact[k][t] = smoked[k][t]
    BY <2>1, <2>2 DEF Evident, Constructed, Booted
  <2>4. Packed(k)'
    BY <1>0, <1>1, <2>1, <2>2, <2>3 DEF Packed
  <2> QED BY <1>2, <2>4 DEF Evident
<1> QED BY <1>3, <1>4

\* A rerun repeats what failed; expiry takes artifacts away.
LEMMA RerunEvident ==
    ASSUME TypeInv, [Next]_vars, NEW k \in Commit, k \in 1..Len(main), Evident(k), RerunFailed(k)
    PROVE  Evident(k)'
<1>0. main'[k] = main[k] /\ Mode(k)' = Mode(k)
  BY ModeStays
<1>1. /\ UNCHANGED <<built, artifact, smoked, bundle>>
      /\ package'[k] = "ok" <=> package[k] = "ok"
      /\ \A t \in Target : /\ image'[k][t] = "ok" <=> image[k][t] = "ok"
                           /\ proot'[k][t] = "ok" <=> proot[k][t] = "ok"
  BY DEF RerunFailed, Again, TypeInv, RunTypes
<1> QED BY <1>0, <1>1 DEF Evident, Constructed, Booted, Packed

LEMMA ExpiryEvident ==
    ASSUME TypeInv, [Next]_vars, NEW k \in Commit, k \in 1..Len(main), Evident(k),
           NEW t \in Target, ExpireArtifact(k, t)
    PROVE  Evident(k)'
<1>0. main'[k] = main[k] /\ Mode(k)' = Mode(k)
  BY ModeStays
<1>1. /\ UNCHANGED <<image, built, proot, smoked, package, bundle>>
      /\ \A u \in Target : artifact'[k][u] \in {artifact[k][u], None}
  BY DEF ExpireArtifact, TypeInv, RunTypes
<1> QED BY <1>0, <1>1 DEF Evident, Constructed, Booted, Packed

LEMMA EvidenceInit == Init => Evidence
<1> SUFFICES ASSUME Init, NEW k \in Commit PROVE Evident(k)
  BY DEF Evidence
<1>1. k = 1 => Mode(k) = "material"
  BY DEF Mode
<1>2. k # 1 => \A t \in Target : image[k][t] = "todo" /\ proot[k][t] = "todo"
  BY DEF Init
<1>3. bundle[k] = None /\ \A t \in Target : k = 1 => image[k][t] = "ok"
  BY DEF Init
<1> QED BY <1>1, <1>2, <1>3 DEF Evident, Constructed, Booted, Packed

LEMMA EvidenceStep ==
    ASSUME TypeInv, Evidence, [Next]_vars PROVE Evidence'
<1> SUFFICES ASSUME NEW k \in Commit PROVE Evident(k)'
  BY DEF Evidence
<1>0. Evident(k)
  BY DEF Evidence
<1>1. CASE k \notin 1..Len(main)
  <2>1. k > Len(main)
    BY <1>1 DEF TypeInv, RunTypes, Commit
  <2>2. /\ bundle[k] = None
        /\ \A t \in Target : image[k][t] = "todo" /\ proot[k][t] = "todo"
    BY <2>1 DEF TypeInv, Started
  <2>3. CASE Pushing
    BY <2>2, <2>3 DEF Pushing, PushMain, Evident, Constructed, Booted, Packed
  <2>4. CASE ~Pushing
    <3>1. UNCHANGED main
      BY <2>4, Steps DEF Scheduling, StartRun, Cancel, Finish, Gating, Gate, Imaging, ImagePasses,
         ImageFails, Booting, ProotPasses, ProotFails, Packing, PackagePasses, PackageFails,
         Rerunning, RerunFailed, Expiring, ExpireBundle, ExpireArtifact,
         Tagging, PushTag, Flowing, FlowStep, FlowFails, Validate, Locate, Download, Verify,
         Publish, ci, vars
    <3>2. Started'
      BY TypeStep DEF TypeInv
    <3>3. /\ bundle'[k] = None
          /\ \A t \in Target : image'[k][t] = "todo" /\ proot'[k][t] = "todo"
      BY <2>1, <3>1, <3>2 DEF Started
    <3> QED BY <3>3 DEF Evident, Constructed, Booted, Packed
  <2> QED BY <2>3, <2>4
<1>2. CASE k \in 1..Len(main)
  <2> DEFINE Same == /\ image'[k] = image[k] /\ built'[k] = built[k] /\ artifact'[k] = artifact[k]
                     /\ proot'[k] = proot[k] /\ smoked'[k] = smoked[k]
                     /\ bundle'[k] = bundle[k] /\ package'[k] = package[k]
  <2>0. Same => Evident(k)'
    BY <1>0, <1>2, StaysEvident
  <2> HIDE DEF Same
  <2>1. CASE Scheduling \/ Gating \/ Pushing \/ Tagging \/ Flowing \/ UNCHANGED vars
    <3>1. UNCHANGED <<image, built, artifact, proot, smoked, bundle, package>>
      BY <2>1 DEF Scheduling, StartRun, Cancel, Finish, Gating, Gate, Pushing, PushMain, Tagging,
         PushTag, Flowing, FlowStep, FlowFails, Validate, Locate, Download, Verify, Publish, ci, vars
    <3> QED BY <2>0, <3>1 DEF Same
  <2>2. CASE Imaging
    <3>1. PICK j \in Commit, t \in Target :
              (\E a, b \in Variant : ImagePasses(j, t, a, b)) \/ ImageFails(j, t)
      BY <2>2 DEF Imaging
    <3>2. j # k => Same
      BY <3>1 DEF ImagePasses, ImageFails, TypeInv, RunTypes, Same
    <3> QED BY <1>0, <1>2, <2>0, <3>1, <3>2, ImageEvident
  <2>3. CASE Booting
    <3>1. PICK j \in Commit, t \in Target : ProotPasses(j, t) \/ ProotFails(j, t)
      BY <2>3 DEF Booting
    <3>2. j # k => Same
      BY <3>1 DEF ProotPasses, ProotFails, TypeInv, RunTypes, Same
    <3> QED BY <1>0, <1>2, <2>0, <3>1, <3>2, ProotEvident
  <2>4. CASE Packing
    <3>1. PICK j \in Commit : PackagePasses(j) \/ PackageFails(j)
      BY <2>4 DEF Packing
    <3>2. j # k => Same
      BY <3>1 DEF PackagePasses, PackageFails, TypeInv, RunTypes, Same
    <3> QED BY <1>0, <1>2, <2>0, <3>1, <3>2, PackageEvident
  <2>5. CASE Rerunning
    <3>1. PICK j \in Commit : RerunFailed(j)
      BY <2>5 DEF Rerunning
    <3>2. j # k => Same
      BY <3>1 DEF RerunFailed, TypeInv, RunTypes, Same
    <3> QED BY <1>0, <1>2, <2>0, <3>1, <3>2, RerunEvident
  <2>6. CASE \E j \in Commit : ExpireBundle(j)
    BY <2>0, <2>6 DEF ExpireBundle, ci, Same
  <2>7. CASE \E j \in Commit, t \in Target : ExpireArtifact(j, t)
    <3>1. PICK j \in Commit, t \in Target : ExpireArtifact(j, t)
      BY <2>7
    <3>2. j # k => Same
      BY <3>1 DEF ExpireArtifact, TypeInv, RunTypes, Same
    <3> QED BY <1>0, <1>2, <2>0, <3>1, <3>2, ExpiryEvident
  <2> QED
    BY <2>1, <2>2, <2>3, <2>4, <2>5, <2>6, <2>7, Steps DEF Expiring
<1> QED BY <1>1, <1>2

\* A bundle is what the smoke tests of its run booted, for any targets and any order of
\* jobs, reruns and expiry.
THEOREM BundlesAreSmoked == Spec => []BundleIsSmoked
<1>1. Evidence => BundleIsSmoked
  BY DEF Evidence, Evident, Packed, BundleIsSmoked
<1>2. TypeInv /\ Evidence /\ [Next]_vars => Evidence'
  BY EvidenceStep
<1> QED BY <1>1, <1>2, TypeInit, TypeStep, EvidenceInit, PTL DEF Spec

-----------------------------------------------------------------------------
(* Release flows                                                           *)

\* A flow past a step has what the step looked for, and has it still.
Informed(f) ==
    /\ f.sha \in 1..Len(main)
    /\ f.step \in {"locate", "download", "verify", "publish", "done"} =>
           ValidIntent(main[f.sha]) /\ main[f.sha].intent.version = f.tag
    /\ f.step \in {"download", "verify", "publish", "done"} =>
           status[f.sha] = "success" /\ bundle[f.sha] # None
    /\ f.step \in {"verify", "publish", "done"} => f.files = bundle[f.sha]

\* A release is the bundle of a run that succeeded and stays what it was.
Backed(v) ==
    published[v] # None =>
        /\ published[v].commit \in Commit /\ status[published[v].commit] = "success"
        /\ bundle[published[v].commit] = published[v] /\ published[v].version = v

FlowInv ==
    /\ \A k \in retained : bundle[k] # None
    /\ \A i \in DOMAIN flow : Informed(flow[i])
    /\ \A v \in Version : Backed(v)

LEMMA FlowInit == Init => FlowInv
BY DEF Init, FlowInv, Informed, Backed

\* A success is final, and so is a bundle.
LEMMA RunsAreFinal ==
    ASSUME TypeInv, Evidence, [Next]_vars, NEW k \in Commit
    PROVE  /\ status[k] = "success" => status'[k] = "success"
           /\ bundle[k] # None => bundle'[k] = bundle[k]
<1>1. status[k] = "success" => status'[k] = "success"
  <2>1. CASE Scheduling
    BY <2>1 DEF Scheduling, StartRun, Cancel, Finish, TypeInv, RunTypes
  <2>2. CASE Pushing
    <3>1. Len(main) + 1 \in Commit /\ Len(main) + 1 > Len(main) /\ Enqueue(Len(main) + 1)
      BY <2>2, PipelineAssumption DEF Pushing, PushMain, TypeInv, RunTypes, Commit
    <3>2. status[Len(main) + 1] = "none"
      BY <3>1 DEF TypeInv, Started
    <3> QED BY <3>1, <3>2 DEF Enqueue
  <2>3. CASE Rerunning
    BY <2>3 DEF Rerunning, RerunFailed, Enqueue
  <2>4. CASE Gating \/ Imaging \/ Booting \/ Packing \/ Expiring \/ Tagging \/ Flowing \/ UNCHANGED vars
    BY <2>4 DEF Gating, Gate, Imaging, ImagePasses, ImageFails, Booting, ProotPasses, ProotFails,
       Packing, PackagePasses, PackageFails, Expiring, ExpireBundle, ExpireArtifact, Tagging, PushTag,
       Flowing, FlowStep, FlowFails, Validate, Locate, Download, Verify, Publish, ci, vars
  <2> QED BY <2>1, <2>2, <2>3, <2>4, Steps
<1>2. bundle[k] # None => bundle'[k] = bundle[k]
  <2>1. CASE Packing
    BY <2>1 DEF Packing, PackagePasses, PackageFails, PackageReady, TypeInv, RunTypes,
                Evidence, Evident, Packed
  <2>2. CASE ~Packing
    BY <2>2, Steps DEF Scheduling, StartRun, Cancel, Finish, Gating, Gate, Imaging, ImagePasses,
       ImageFails, Booting, ProotPasses, ProotFails, Pushing, PushMain, Rerunning, RerunFailed,
       Expiring, ExpireBundle, ExpireArtifact, Tagging, PushTag, Flowing, FlowStep, FlowFails,
       Validate, Locate, Download, Verify, Publish, ci, vars
  <2> QED BY <2>1, <2>2
<1> QED BY <1>1, <1>2

LEMMA FlowsStayInformed ==
    ASSUME TypeInv, Evidence, [Next]_vars, NEW f \in FlowState, Informed(f)
    PROVE  Informed(f)'
<1>1. f.sha \in Commit /\ f.sha \in 1..Len(main)
  BY DEF FlowState, Informed
<1>2. main'[f.sha] = main[f.sha] /\ f.sha \in 1..Len(main')
  BY <1>1, ModeStays
<1>3. /\ status[f.sha] = "success" => status'[f.sha] = "success"
      /\ bundle[f.sha] # None => bundle'[f.sha] = bundle[f.sha]
  BY <1>1, RunsAreFinal
<1> QED BY <1>2, <1>3 DEF Informed, ValidIntent

LEMMA ReleasesStayBacked ==
    ASSUME TypeInv, Evidence, [Next]_vars, NEW v \in Version, Backed(v), published'[v] = published[v]
    PROVE  Backed(v)'
BY RunsAreFinal DEF Backed, TypeInv, FlowTypes

LEMMA FlowInvStep ==
    ASSUME TypeInv, Evidence, FlowInv, [Next]_vars PROVE FlowInv'
<1>0. \A i \in DOMAIN flow : flow[i] \in FlowState /\ Informed(flow[i])
  BY DEF TypeInv, FlowTypes, FlowInv
<1>1. \A k \in retained' : bundle'[k] # None
  <2>1. CASE Packing
    <3>1. PICK k \in Commit : PackagePasses(k) \/ PackageFails(k)
      BY <2>1 DEF Packing
    <3>2. CASE PackagePasses(k)
      <4>1. RunBundle(k) # None
        BY <3>2, PackedIsBundle, NoBundle DEF TypeInv
      <4>2. bundle' = [bundle EXCEPT ![k] = RunBundle(k)] /\ retained' = retained \cup {k}
        BY <3>2 DEF PackagePasses, RunBundle
      <4> QED BY <4>1, <4>2 DEF TypeInv, RunTypes, Counts, FlowInv
    <3>3. CASE PackageFails(k)
      BY <3>3 DEF PackageFails, FlowInv
    <3> QED BY <3>1, <3>2, <3>3
  <2>2. CASE ~Packing
    <3>1. retained' \subseteq retained /\ retained \subseteq Commit
      BY <2>2, Steps DEF Scheduling, StartRun, Cancel, Finish, Gating, Gate, Imaging, ImagePasses,
         ImageFails, Booting, ProotPasses, ProotFails, Pushing, PushMain, Rerunning, RerunFailed,
         Expiring, ExpireBundle, ExpireArtifact, Tagging, PushTag, Flowing, FlowStep, FlowFails,
         Validate, Locate, Download, Verify, Publish, ci, vars, TypeInv, Counts
    <3> QED BY <3>1, RunsAreFinal DEF FlowInv
  <2> QED BY <2>1, <2>2
<1>2. CASE Tagging
  <2>1. PICK v \in Version, k \in Commit : PushTag(v, k)
    BY <1>2 DEF Tagging
  <2> DEFINE f == [tag |-> v, sha |-> k, step |-> "validate", files |-> None]
  <2>2. f \in FlowState /\ Informed(f)
    BY <2>1 DEF PushTag, FlowState, Step, Informed
  <2>3. Informed(f)'
    BY <2>1 DEF PushTag, ci, Informed
  <2>4. flow' = Append(flow, f) /\ UNCHANGED published
    BY <2>1 DEF PushTag
  <2>5. \A i \in DOMAIN flow' : flow'[i] = f \/ (i \in DOMAIN flow /\ flow'[i] = flow[i])
    BY <2>2, <2>4 DEF TypeInv, FlowTypes
  <2>6. \A i \in DOMAIN flow' : Informed(flow[i])'
    BY <1>0, <2>3, <2>5, FlowsStayInformed DEF Informed
  <2>7. \A u \in Version : Backed(u)'
    BY <2>4, ReleasesStayBacked DEF FlowInv
  <2> QED BY <1>1, <2>6, <2>7 DEF FlowInv
<1>3. CASE Flowing
  <2>1. PICK i \in Flow : FlowStep(i) \/ FlowFails(i)
    BY <1>3 DEF Flowing
  <2>2. i \in DOMAIN flow /\ UNCHANGED <<ci, retained>>
    BY <2>1 DEF FlowStep, FlowFails, Validate, Locate, Download, Verify, Publish, Advance, At
  <2>3. flow[i] \in FlowState /\ Informed(flow[i])
    BY <1>0, <2>2
  <2>4. \E f : flow' = [flow EXCEPT ![i] = f]
    BY <2>1, <2>2 DEF FlowStep, FlowFails, Validate, Locate, Download, Verify, Publish, Advance
  <2>5. DOMAIN flow' = DOMAIN flow /\ \A j \in DOMAIN flow : j # i => flow'[j] = flow[j]
    BY <2>4
  <2>6. Informed(flow[i])'
    <3>1. CASE FlowFails(i)
      BY <2>2, <2>3, <3>1 DEF FlowFails, Informed, FlowState, ci
    <3>2. CASE Validate(i)
      BY <2>2, <2>3, <3>2 DEF Validate, Advance, At, Informed, FlowState, ci, ValidIntent
    <3>3. CASE Locate(i)
      BY <2>2, <2>3, <3>3 DEF Locate, Advance, At, Informed, FlowState, ci, ValidIntent, FlowInv
    <3>4. CASE Download(i)
      BY <2>2, <2>3, <3>4 DEF Download, At, Informed, FlowState, ci, ValidIntent
    <3>5. CASE Verify(i)
      BY <2>2, <2>3, <3>5 DEF Verify, Advance, At, Informed, FlowState, ci, ValidIntent
    <3>6. CASE Publish(i)
      BY <2>2, <2>3, <3>6 DEF Publish, Advance, At, Informed, FlowState, ci, ValidIntent
    <3> QED BY <2>1, <3>1, <3>2, <3>3, <3>4, <3>5, <3>6 DEF FlowStep
  <2>7. \A j \in DOMAIN flow' : Informed(flow[j])'
    BY <1>0, <2>2, <2>5, <2>6, FlowsStayInformed DEF Informed
  <2>8. ASSUME NEW v \in Version PROVE Backed(v)'
    <3>1. CASE published'[v] = published[v]
      BY <2>8, <3>1, ReleasesStayBacked DEF FlowInv
    <3>2. CASE published'[v] # published[v]
      <4>1. Publish(i)
        BY <2>1, <3>2 DEF FlowStep, FlowFails, Validate, Locate, Download, Verify
      <4>2. /\ published' = [published EXCEPT ![flow[i].tag] = flow[i].files]
            /\ flow[i].step = "publish"
        BY <3>2, <4>1 DEF Publish, Advance, At
      <4>3. flow[i].tag = v /\ published'[v] = flow[i].files
        BY <2>8, <3>2, <4>2 DEF TypeInv, FlowTypes
      <4>4. /\ flow[i].files = bundle[flow[i].sha] /\ bundle[flow[i].sha] # None
            /\ status[flow[i].sha] = "success" /\ main[flow[i].sha].intent.version = v
            /\ flow[i].sha \in Commit
        BY <2>3, <4>2, <4>3 DEF Informed, FlowState
      <4>5. Packed(flow[i].sha)
        BY <4>4 DEF Evidence, Evident
      <4> QED BY <2>2, <4>3, <4>4, <4>5 DEF Backed, Packed, ci
    <3> QED BY <3>1, <3>2
  <2> QED BY <1>1, <2>7, <2>8 DEF FlowInv
<1>4. CASE ~Tagging /\ ~Flowing
  <2>1. UNCHANGED <<flow, published>>
    BY <1>4, Steps DEF Scheduling, StartRun, Cancel, Finish, Gating, Gate, Imaging, ImagePasses,
       ImageFails, Booting, ProotPasses, ProotFails, Packing, PackagePasses, PackageFails,
       Pushing, PushMain, Rerunning, RerunFailed, Expiring, ExpireBundle, ExpireArtifact, vars
  <2>2. \A i \in DOMAIN flow : Informed(flow[i])'
    BY <1>0, <2>1, FlowsStayInformed DEF Informed
  <2>3. \A v \in Version : Backed(v)'
    BY <2>1, ReleasesStayBacked DEF FlowInv
  <2> QED BY <1>1, <2>1, <2>2, <2>3 DEF FlowInv
<1> QED BY <1>2, <1>3, <1>4

PipelineInv == TypeInv /\ Evidence /\ FlowInv

LEMMA PipelineInit == Init => PipelineInv
BY TypeInit, EvidenceInit, FlowInit DEF PipelineInv

LEMMA PipelineStep == PipelineInv /\ [Next]_vars => PipelineInv'
BY TypeStep, EvidenceStep, FlowInvStep DEF PipelineInv

\* What is published was built twice alike, booted, and declared by its commit, however
\* runs, reruns, expiry, tags and flows interleave.
THEOREM PublicationIsQualified == Spec => []PublishedIsQualified
<1>1. PipelineInv => PublishedIsQualified
  <2> SUFFICES ASSUME PipelineInv, NEW v \in Version, published[v] # None
               PROVE  LET b == published[v]
                      IN  /\ status[b.commit] = "success"
                          /\ main[b.commit].intent = [version |-> v, fp |-> main[b.commit].fp]
                          /\ \A t \in Target : /\ built[b.commit][t] = {b.files[t]}
                                               /\ smoked[b.commit][t] = b.files[t]
    BY DEF PublishedIsQualified
  <2> DEFINE k == published[v].commit
  <2>1. /\ k \in Commit /\ status[k] = "success"
        /\ bundle[k] = published[v] /\ published[v].version = v
    BY DEF PipelineInv, FlowInv, Backed
  <2>2. /\ Mode(k) = "release" /\ main[k].intent.version = v
        /\ \A t \in Target : proot[k][t] = "ok" /\ published[v].files[t] = smoked[k][t]
    BY <2>1 DEF PipelineInv, Evidence, Evident, Packed
  <2>3. \A t \in Target : built[k][t] = {smoked[k][t]}
    BY <2>1, <2>2 DEF PipelineInv, Evidence, Evident, Booted
  <2>4. main[k] \in Tree
    <3>1. k \in 1..Len(main)
      BY <2>1, RunIsPushed DEF PipelineInv, TypeInv
    <3> QED BY <3>1 DEF PipelineInv, TypeInv, RunTypes
  <2>5. main[k].intent.fp = main[k].fp
    BY <2>2 DEF Mode, ValidIntent
  <2>6. main[k].intent = [version |-> v, fp |-> main[k].fp]
    BY <2>2, <2>4, <2>5 DEF Tree, Intent
  <2> QED BY <2>1, <2>2, <2>3, <2>6
<1> QED BY <1>1, PipelineInit, PipelineStep, PTL DEF Spec

-----------------------------------------------------------------------------
(* The ledger                                                              *)

Qualified == {bundle[k] : k \in {j \in Commit : status[j] = "success" /\ bundle[j] # None}}

\* A run that ends in success adds its bundle, and no other step adds or takes one.
LEMMA QualifiedGrows ==
    ASSUME PipelineInv, [Next]_vars
    PROVE  Qualified' = Qualified \/ \E b \in Bundle : Qualified' = Qualified \cup {b}
<1> USE DEF PipelineInv, TypeInv
<1>1. CASE \E k \in Commit : Finish(k)
  <2>1. PICK k \in Commit : Finish(k)
    BY <1>1
  <2>2. UNCHANGED bundle /\ status[k] = "running" /\ bundle[k] \in Bundle \cup {None}
        /\ \A j \in Commit : j # k => status'[j] = status[j]
    BY <2>1 DEF Finish, RunTypes
  <2>3. CASE status'[k] = "success" /\ bundle[k] # None
    <3>1. Qualified' = Qualified \cup {bundle[k]}
      BY <2>2, <2>3 DEF Qualified
    <3> QED BY <2>2, <2>3, <3>1
  <2>4. CASE ~(status'[k] = "success" /\ bundle[k] # None)
    BY <2>2, <2>4 DEF Qualified
  <2> QED BY <2>3, <2>4
<1>2. CASE ~\E k \in Commit : Finish(k)
  <2>1. \A k \in Commit : status'[k] = "success" <=> status[k] = "success"
    <3>1. \A k \in Commit : status'[k] = "success" => status[k] = "success"
      BY <1>2, Steps DEF Scheduling, StartRun, Cancel, Gating, Gate, Imaging, ImagePasses,
         ImageFails, Booting, ProotPasses, ProotFails, Packing, PackagePasses, PackageFails,
         Pushing, PushMain, Enqueue, Rerunning, RerunFailed, Expiring, ExpireBundle,
         ExpireArtifact, Tagging, PushTag, Flowing, FlowStep, FlowFails, Validate, Locate,
         Download, Verify, Publish, ci, vars, RunTypes
    <3> QED BY <3>1, RunsAreFinal
  <2>2. \A k \in Commit : status[k] = "success" => bundle'[k] = bundle[k]
    <3>1. CASE Packing
      BY <3>1 DEF Packing, PackagePasses, PackageFails, PackageReady, RunTypes
    <3>2. CASE ~Packing
      BY <3>2, Steps DEF Scheduling, StartRun, Cancel, Finish, Gating, Gate, Imaging, ImagePasses,
         ImageFails, Booting, ProotPasses, ProotFails, Pushing, PushMain, Rerunning, RerunFailed,
         Expiring, ExpireBundle, ExpireArtifact, Tagging, PushTag, Flowing, FlowStep, FlowFails,
         Validate, Locate, Download, Verify, Publish, ci, vars
    <3> QED BY <3>1, <3>2
  <2> QED BY <2>1, <2>2 DEF Qualified
<1> QED BY <1>1, <1>2

\* The pipeline publishes what the ledger may publish: qualified bundles, once.
THEOREM PipelineKeepsLedger == Spec => LedgerSpec
<1>1. Init => Ledger!Init
  BY DEF Init, Ledger!Init
<1>2. PipelineInv /\ [Next]_vars => [Ledger!Next]_(Ledger!vars)
  <2> SUFFICES ASSUME PipelineInv, [Next]_vars PROVE [Ledger!Next]_(Ledger!vars)
    OBVIOUS
  <2>1. CASE published' = published
    <3>1. CASE Qualified' = Qualified
      BY <2>1, <3>1 DEF Ledger!vars, Qualified
    <3>2. CASE \E b \in Bundle : Qualified' = Qualified \cup {b}
      BY <2>1, <3>2 DEF Ledger!Next, Ledger!Qualify, Qualified
    <3> QED BY <3>1, <3>2, QualifiedGrows
  <2>2. CASE published' # published
    <3>1. PICK i \in Flow : Publish(i)
      BY <2>2, Steps DEF Scheduling, StartRun, Cancel, Finish, Gating, Gate, Imaging, ImagePasses,
         ImageFails, Booting, ProotPasses, ProotFails, Packing, PackagePasses, PackageFails,
         Pushing, PushMain, Rerunning, RerunFailed, Expiring, ExpireBundle, ExpireArtifact,
         Tagging, PushTag, Flowing, FlowStep, FlowFails, Validate, Locate, Download, Verify, vars
    <3> DEFINE v == flow[i].tag
               b == flow[i].files
    <3>2. /\ i \in DOMAIN flow /\ flow[i].step = "publish" /\ UNCHANGED ci
          /\ published[v] = None /\ published' = [published EXCEPT ![v] = b]
      BY <2>2, <3>1 DEF Publish, Advance, At
    <3>3. flow[i] \in FlowState /\ Informed(flow[i])
      BY <3>2 DEF PipelineInv, FlowInv, TypeInv, FlowTypes
    <3>4. /\ b = bundle[flow[i].sha] /\ b # None /\ status[flow[i].sha] = "success"
          /\ main[flow[i].sha].intent.version = v /\ flow[i].sha \in Commit
          /\ v \in Version /\ b \in Bundle \cup {None}
      BY <3>2, <3>3 DEF Informed, FlowState
    <3>5. b.version = v
      BY <3>4 DEF PipelineInv, Evidence, Evident, Packed
    <3>6. b \in Qualified /\ Qualified' = Qualified
      BY <3>2, <3>4 DEF Qualified, ci
    <3>7. Ledger!Publish(v, b)
      BY <3>2, <3>5, <3>6 DEF Ledger!Publish, Qualified
    <3> QED BY <3>4, <3>7 DEF Ledger!Next
  <2> QED BY <2>1, <2>2
<1> QED
  BY <1>1, <1>2, PipelineInit, PipelineStep, PTL DEF Spec, LedgerSpec, Ledger!Spec
=============================================================================

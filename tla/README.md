# Verification of the Liskov runtime images

TLA+ models of the build, qualification and release machinery in this
repository, the TLC runs that check them, and TLAPS proofs of their most
important properties. The modules are read next to the code: each definition
stands for lines of it, listed under `map` in `PROJECT.json`.

## The system

The repository builds root filesystem archives reproducibly from inputs pinned
in `sources.lock.json`, proves them on PRoot, and publishes them.

| Component | State it keeps | Operations | Interacts with |
| --- | --- | --- | --- |
| Download cache (`build-image.py`: `download`, `cache_path`, `verify_digest`, `_fetch_pinned`, the keyring branch) | digest-named files, temporary files, a running SHA-256 | find and verify, stream, compare, rename, clean up, extract in place | other builds through the directory; the HTTP server; extraction, gpgv and tar re-open its files |
| OCI materialization (`materialize_oci`, `extract_archive`) | the root tree, pending hard links, directories to fix | whiteouts, members, link rounds, modes | takes layers from the cache, leaves a tree to the build |
| Snapshot and pocket staging (`stage_multi_pocket_inputs`, `mmdebstrap-docker.sh`) | staged release files, indexes, packages | parse, verify, stage, bootstrap | cache, gpgv, mmdebstrap in a container |
| Image build (`build`, overlay, inventory, SPDX, metadata) | temporary root, archive and metadata files | materialize, overlay, archive, rename, describe | all of the above |
| Archive and inspection (`canonical_archive`, `canonical_overlay_archive`, `compress_tar`, `archive_inventory`, `inspect-artifact.py`) | two processes, two pipes, a temporary file | start, pipe, wait, rename, list, inspect | the build; tar and xz; the CI job that inspects |
| Change classifier (`change-classifier.py`, `validate-change.sh`) | none: a function of two trees or a tree and a working tree | classify, fingerprint, validate an intent | git; the CI and release workflows and the local gate call it |
| CI and release (`ci.yml`, `release.yml`, `build-qualified-target.sh`) | runs, jobs, artifacts, tags, releases | push, classify, build twice, smoke, package, rerun, cancel, tag, publish | GitHub; every script |
| Release manifest and catalogue (`build-manifest.py`) | the manifest, checksums, the history of identities | create, validate | package job, release flow, later catalogues |
| Smoke test (`smoke-rootfs.sh`, `bridge-smoke-server.py`, `untrusted-tls-server.py`, `snapshot-tls-trust.py`) | background processes, ready and method files, the CA bundle of the rootfs | start, poll, run, wait, judge, hold and restore the bundle, clean up | the helper, curl and openssl in the rootfs |
| getifaddrs override (`assets/getifaddrs_override.c`) | heap blocks of a list | allocate, free | the preloading process |

What is hard: two builds meet in the cache directory and any of them can be
killed; a path is verified once and used long after; a layer's members come in
any order; each push is classified only against the one before it, while a newer
run cancels an older one; jobs rerun, artifacts expire and tags move between the
steps of a release; a history of identities is checked one candidate at a time,
though several may be prepared at once; layers, a manifest and a lock file are
compared piecemeal; tar, xz and the build wait for each other over bounded pipes;
background servers are found by polling files, and a test that could not reach
them may look like one that was refused. `PROJECT.json` lists these under
`hazards`, each with its line and the properties that catch it.

## Modules

| Module | Models | Kind |
| --- | --- | --- |
| `VerifiedCache` | the cache directory and concurrent builds | state machine |
| `PinnedStore` | what the cache promises: a handed-out pin stays verified | abstract specification |
| `VerifiedCacheProofs` | type correctness, five properties and the refinement | proofs |
| `ChangeClassifier` | classification of pushed trees, and of the working tree before a commit | state machine over pure operators |
| `ChangeClassifierProofs` | types, the invariants of the classification, hidden renames, the local gate | proofs |
| `LayerExtraction` | one call of `extract_archive()` over any lower tree | algorithm against a reference meaning |
| `LayerExtractionProofs` | types (what is there is a tree); what is left is the layer; what is refused has a reason; extraction ends | proofs |
| `ReleasePipeline` | CI runs, jobs, artifacts, reruns, tags, release flows | composition of the workflows |
| `ReleaseLedger` | what the pipeline promises: publish once, qualified only | abstract specification |
| `ReleasePipelineProofs` | types, what is bundled and published, the refinement of `ReleaseLedger` | proofs |
| `Catalogue` | `validate_catalogue` of one record | pure operators |
| `ReleaseBundle` | candidates, their bundle directories under faults, and the releases | state machine, extends `Catalogue` |
| `ReleaseBundleProofs` | types; acceptance is creation; identities stay and advance; collisions stop | proofs |
| `BuildTarget` | pockets, layers, bootstrap, overlay and outputs of overlapping builds | state machine |
| `BuildTargetProofs` | types, verification before bootstrap and layering, one base inventory, agreement of the outputs | proofs |
| `ArchiveOutput` | tar, xz and the build around one archive, and its inspection | interleaved processes |
| `ArchiveOutputProofs` | types, wholeness and inspection of the archives of trees and of v4 targets, that a call ends | proofs |
| `BridgeSmoke` | script, server and client of the smoke test, and the proof of the trust store | interleaved processes |
| `BridgeSmokeProofs` | types, the exit trap, judgement after the end, what a pass means, that every wait is served | proofs |

`MC*` modules give the constants of the runs.

### VerifiedCache

A file is abstracted to how much of the pinned bytes it holds: `n` parts, all
of them (`Complete`), or `Wrong`. `cache` and `temp` are the directory;
`pc`, `pid`, `want`, `streamed` and `held` are the local state of each build.
`Begin`, `Verify`, `Request`, `OpenTemp`, `ReadChunk`, `EndOfBody`, `Compare`,
`Replace`, `Cleanup` are the statements of `download()` between which other
processes can run; `DownloadFails` is any exception in its `try` block and
`Kill` a SIGKILL, after which process ids are reused. `OpenEntry`, `WriteEntry`
and `ExtractFails` are the in-place extraction of the foreign keyring.

`HeldIsPinned` and `StoreSpec` are about downloaded pins only. For the keyring
the code promises less: another build may truncate the entry while this one is
using it, and gpgv then fails closed; and a build that stops between `OpenEntry`
and `WriteEntry`, or whose package holds other bytes, leaves an unverified file
under the pin, on which every later build fails until it is removed by hand.

### ChangeClassifier

A tree gives every path a blob or nothing; `Fingerprint` is the set of governed
paths with their blobs, which stands for the hash. `Edit`, `Move`, `Declare`
and `Withdraw` are what a contributor stages, `Commit` takes what is staged after
`validate-change.sh` was run or not, `Push` classifies the commits against
the previous push as `ci.yml` does. `GitChangedPaths` follows git with
its default rename detection, which names a moved file by its new path only
(confirmed with git 2.39); `OnlyRenamesHide` says that this is the only way in
which a fast verdict can let a change of governed inputs through, and
`FastIsInert`, the claim of the README, fails by it. `NeedsConstruction` and
`ClassifyPaths` are the decision of `classify_paths`, errors included.

The gate compares the working tree with HEAD, and a commit takes the index; the two
need not agree. So `Commit` chooses what the working tree held when the gate ran
(its files and which of them were in no index by then: the constant `Worktree`). `Tracked` is
what git diff compares with HEAD: a file taken out of the index counts as deleted even
when it is still there. `WorktreePaths` adds the files that only `git ls-files --others`
finds. With its default base the gate sees uncommitted changes only, so one gate says
nothing about commits before it; `GatePredicts` is about pushes whose every commit went
through the gate. Two things escape a gate, and the variable `gated` is false after
them: a rename, which hides the removed path, and a change that is staged and then
undone in the working tree, which git diff <base> (`change-classifier.py:205`) does not
look at and which is committed all the same (`Shown`). The second is as real as the
first: without `Shown` a removal that is staged and undone passes as fast and is pushed
as material. The repository promises nothing about it, so it is a condition here and
no finding. Files that `.gitignore` names are taken not to be committed.

### ReleasePipeline

Commit `k` is the `k`-th push and run `k` its run. `Enqueue` and `Cancel` are the
concurrency group with `cancel-in-progress`; `Gate`, `Image*`, `Proot*` and
`Package*` are the jobs with their `needs` and `if`; `RerunFailed` keeps the jobs
that succeeded; artifacts expire at any time. A build yields one of several
variants, so reproducibility is checked by the double build and not assumed.
A release flow goes through `Validate`, `Locate`, `Download`, `Verify`,
`Publish`; tags can move meanwhile. The classification is abstracted to a
comparison of fingerprints and intents: with `ChangeClassifier` beside it, the
two modules split the question at the function `classify_paths`.
Pull-request runs construct nothing and are left out.

### Catalogue and ReleaseBundle

`Catalogue` is `validate_catalogue` as operators: `ValidRecord` is a record of a
release intent next to the identities it lists. In `ReleaseBundle` a candidate
is a commit with such an intent (`Prepare`, over the history as it is then).
`Merge` fills a fresh directory with the files of a run, `WriteManifest` and
`WriteChecksums` are `create` in its two steps, `Fault` loses, damages, adds or
replaces files, also by those of other bundles, at any point, `Validate` is
`validate` in a checkout of the candidate or of the historical release, and
`Publish` releases what was accepted last. A digest is the content itself.
`WriteManifest` looks at a payload once: `create` compares the catalogue's digest and
hashes for the manifest in two reads, between which a fault could fall; `validate`
makes both comparisons again, so such a bundle is not accepted.

Nothing in the code serialises candidates; the README of the repository makes
the complete history an input of its callers. The model has the variable `serial`
for that: whether every candidate had listed all releases before it. With it
identities are immutable and advance (`IdentityIsImmutable`, `HistoryAdvances`).
Without it a version can be released twice; `CollisionStops` says what remains:
only by candidates side by side, and nothing is released on top of such a pair.

### LayerExtraction

`tree` is the root; `Hide` is the first pass; `MakeDir`, `MakeFile`, `QueueLink`
and `OmitDevice` are the second; `LinkOne` and `EndRound` the rounds; `Finish`
the directory modes; `Fail` every exception. `IsLayering` is the reference: a
declarative meaning of the members as a set, without passes, order or rounds.
`Plain` says for which archives a set has one meaning. A directory entry over a
lower symlink is not plain: the code keeps the symlink if it leads to a
directory. `LayerAssumption` leaves out one more kind of archive, with a hard link
below a name that the same archive makes a symlink: the link is checked against the
tree as it is at its turn among the members and made when the rounds come, through
whatever is there by then. Symlinks have targets among the paths, and a chain of symlinks leads
nowhere. One call over any lower tree is the step of the loop over layers in
`materialize_oci`, which is `BuildTarget`'s `ApplyLayer`. Extraction without
whiteouts is the case of archives that hold none.

### BuildTarget

One target and one `--output-dir`. `image` is its lock entry; `root`, `removed`,
`shim`, `digest`, `listed` and `text` are the local state of each build; `archive`
and `described` are the directory. `ReadLock`, `StagePocket` and `FinishStaging`
are `parse_apt_pockets` and `stage_multi_pocket_inputs`; `Bootstrap` yields any
of the trees mmdebstrap may leave; `ApplyRecipe` is fixups and removals; `Extract`
is the pinned root archive. `ReadManifest`, `ApplyLayer` and `FinishLayers` are
`materialize_oci`: the manifest, config and platform against the lock, then one
layer after the other, each verified before it is extracted over the tree so far
(`Over`; how, is `LayerExtraction`'s matter). A later layer may fail its check when
earlier ones are extracted already: `LayersAsLocked` says that a root then holds
those earlier ones and nothing else, and that only a whole image goes on. The manifest is what the registry
serves under the pinned digest and may disagree with the lock in any of these; a
registry that serves other bytes is the digest check of the cache. A metadata
file is the set of archives its fields were computed from, none when it is missing
or truncated, so a file that mixes two archives shows. `OpenOutput` truncates and `WriteOutput` fills it.
`spoiled` is a history variable: a build stopped while it wrote, or met one that
writes another archive. Without it `OutputsAgree` does not hold, and the code
does not promise it: each qualified build gets a directory of its own.
`BootstrapAssumption` is what the lock file's fixups and removals are chosen
for: bootstraps of one snapshot differ in those paths only. Private temporary
names and the rename are those of `VerifiedCache`; what happens between the tree
and the archive is `ArchiveOutput`'s.

### ArchiveOutput

One call of `build()` from its finished tree, or its v4 base archive, to the
inventory. `tar`, `xz` and `pc` are the three processes; `pipe` holds members and
`diag` messages, both bounded; `held` is the build's own copy of the reading end.
`StartTar` to `Judge` and `Replace` are the statements of `canonical_archive` and
`compress_tar`; `Tar*` and `Xz*` are what the programs do, including to
complain, leave a member out, or die. `Overlaid` is `canonical_overlay_archive`: the
members of the base, normalized and in their order, then the missing directories and
the overlay files, each `Sorted` by name; `OverlayRefuses` is what it refuses.
`Inspected` is `inspect-artifact.py`. What a name unpacks to (`Meaning`) ignores
the order of members and follows hard links; `OutputIsWhole` compares it with the
finished tree, which for a tree is the tree and for a v4 base the base with the
overlay. The order is a part of `OutputIsWhole` of its own: directories come before the
overlay files in them (`DirectoriesFirst`), and hard links after their targets when
they do in what is archived (`LinksFollow`). Extraction by this repository copes with
any order; other programs unpack an archive in one pass.

`OverlayAssumption` is about the constants of the script: the overlay is not empty,
lies in directories, and is not among the removed helpers. `JobAssumption` is about
what `build()` archives: a tree has each name once, directories first, and under the names of the overlay what
`build()` wrote there; the hard links of a v4 base have targets, as `extract_archive()` has
been through the same base before.

Two things the code leaves open, both in the model. tar's messages are read only
when xz has ended: tar can wait for room for one while the build waits for xz and
xz for tar. It takes tens of kilobytes of messages; `CallEnds` excepts exactly
that state (`Stuck`). And a v4 base with a symlink above an overlay path is
archived and inspected without complaint, although extracting it would put the
overlay elsewhere or refuse it; the run has such a base.

`OnlyMessagesBlock` says that `Stuck` is the only way in which the three wait for
each other; `BuildCan`, `TarCan` and `XzCan` are what each of them waits for.

### BridgeSmoke

The script's `Spawn`, `Note` (`bridge_pid=$!`), `Poll`, `Launch`, `Attend`,
`Collect`, `Check`, the exit trap `Clean*`, and `Interrupt` for a failing command
or signal; the server's `Boot`, `OpenReady`, `WriteReady` (creating a file and
writing it are two steps), `Accept`, `Answer`, `Report`; the client, which is not
part of the repository, connects and exits as it likes. The three bridge rounds
of the script differ in names and request counts only, and the plan of the run
has two, then the TLS round, whose server never ends by itself.

`WaitsAreServed` says that every wait of the script and of its trap is for a server
or a client that can go on; the TLS server, which never ends by itself, is waited for
only after it was killed.

The TLS round is one step of `prove_snapshot_tls_trust`, with `Support`, `Verify`,
`Live`, `Hold` and `Missing` around it. A rootfs may ship any `Store`: a bundle
and a hashed directory that vouch for the archive, the untrusted fixture, both or
neither. While the bundle is moved aside, openssl may give up on the missing file or
may look into the hashed directory, which stays: the script has a branch for either.
The port is read as soon as the ready file exists, so it may be read
empty, and the server may die: curl then fails with another status than 60.
`TrustProven` says that the test passes for a right store only, whatever the
processes did, and leaves it as it was. The model takes it that the fixture's
certificate is valid but for its issuer, as it is until 2035: an expired one
has status 60 with any store.

## Runs

| Run | Question | Bounds, and why they are enough |
| --- | --- | --- |
| `cache` | Do concurrent builds, failures, kills and reused ids ever damage or mis-deliver a download? Does every call end? | 2 builds, one package and its keyring, 2 ids, files of 2 parts, 2 kills: two writers of one pin, a stale temporary file met again by its id, a partial file |
| `classifier` | Does a fast verdict let governed changes through? Does a release verdict stand? Does the local gate foretell CI? | 5 paths of all classes, one blob, pushes of up to 3 edits in any commits: a move and an intent leave one edit; the gate finds the script, no intent and any other files, all of them in an index or with a fixture and an unclassified file that are in none |
| `classifier_rename` | Is a fast push inert? No: finding | as `classifier`, no gate |
| `pipeline_qualification` | Is what is bundled and published what was built twice and booted? | 2 targets, 2 variants, 3 pushes, one rerun, one tag, two versions: a partial failure, a replaced run, a rerun with mixed artifacts |
| `pipeline_ledger` | Is a version published at most once, and from a qualified bundle? Do runs and flows end? | main starts at a releasable tree, 2 flows of one version and two fingerprints, cancellation; no reruns, which `pipeline_qualification` has |
| `pipeline_cancelled` | Is a green tip constructed? No: finding | 2 to 3 pushes |
| `pipeline_moved_tag` | Does the tag point at what is released under it? No: finding | 2 tag pushes |
| `bundle` | Is exactly what was created accepted? Do released identities stay and advance, also when candidates collide? | 3 candidates, 2 contents, one archive and one new file, 4 versions in two lines, 4 creations, one fault that may mix any files of two bundles: two candidates side by side and a third on top, a skipped patch, a step back |
| `layer` | Does extraction leave what the layer means, or refuse for a reason? Does it end? | all archives of 3 of 22 members on 4 paths, 7 lower trees: a link to a link to a file, a link before its replaced target, whiteouts around both |
| `build` | Does anything unverified reach a base, does the recipe take away the noise, do the outputs agree? | all sets of up to 2 pockets with every attribute right or wrong, lists of up to 2 layers that fit the manifest or not, a bootstrap with files, a link and a missing file, 2 compilers, 3 builds of which 2 overlap: an overlap of equal and of unequal archives, a stop between any two outputs and a build over its remains |
| `smoke` | Are results judged after the end, does a pass prove the store, is nothing left behind, is every wait served, does everything end? | rounds of 1 and 3 requests and TLS, 2 polls, all 64 stores |
| `archive` | Is an archive in place whole and fit for inspection? Can the three wait for each other? Does the call end? | pipes of 2 members and 2 messages, 3 messages, a tree of 4 and one of 2 members, all base archives of 3 of 9 members: a full and an empty pipe at every death, a double, a link before its target, a directory that is there or missing |

Three statements of the repository fail, each with a run that shows it
(`findings`): a rename hides a governed change, the run of a material push is
cancelled under a green tip, and a tag moves during its release.

`CHECK_DEADLOCK FALSE` stands only in configurations whose environment is
bounded (no pushes, candidates or builds left): the real system would go on. The
modules whose program ends (`LayerExtraction`, `BridgeSmoke`, `ArchiveOutput`) have
an `Ended` step instead, so that any other stop is an error.

## Fairness

- `VerifiedCache`: a process that is not killed is scheduled, and a body ends:
  the server closes it or the socket timeout of `urlopen` raises. Weak fairness
  of a builder's steps, and of `EndOfBody` by itself since reading on is always
  possible. Starting, exiting and being killed are not fair.
- `ReleasePipeline`: GitHub schedules runnable jobs and ends every job by its
  timeout. Pushes, reruns, expiry and tags are not fair.
- `LayerExtraction` needs none: `Descends` says that every step moves on in a
  well-founded order, and deadlock checking that only `Ended` stops.
- `ArchiveOutput`: the build, tar and xz are scheduled while they can go on. Deaths,
  messages that are never written and kills are not fair. `CallProceeds` is the part of
  `CallEnds` that needs no fairness: every step lowers a measure (`CallGetsOn`) and
  leaves somebody who can go on (`OnlyMessagesBlock`). It is proved.
- `BridgeSmoke`: processes are scheduled, the accept and receive timeouts of the
  bridge server fire, and the client ends. The last is an assumption about the
  helper; curl has `--max-time`. `SmokeProceeds` (`SmokeGetsOn`, `WaitsAreServed`) is
  the part of `EverythingEnds` that needs none, and is proved.

## Proofs

Every theorem holds for all values of the constants under the named assumptions
of its module.

- `VerifiedCacheProofs`. The inductive invariant `IInv` joins: live builds have
  different ids (`LivePidsDiffer`); calls are where their pins allow; the
  temporary file of a live download is exactly what its digest has seen
  (`TempIsPrivate`), which needs the first; what passed the comparison is
  complete; what was renamed and what is held is complete. From it follow
  `TypeCorrect`, `HeldStaysPinned`, `DigestedIsRenamed`, `FailuresSpareEntries`,
  `FinallyRemoves`, and step by step the refinement `CacheImplementsStore`.
- `ChangeClassifierProofs`. `FastMeansEqual`: without failures and hiding renames
  a fast verdict means equal governed inputs; so the constructed inputs stay those
  of the tip (`TipStaysConstructed`) and a valid release intent stays valid
  (`ReleaseKeepsStanding`). A gate has seen every path in which the working tree
  differs from HEAD (`PassedIsFast`), and what is staged differs nowhere else when
  nothing of it was undone (`CommitKeepsFast`); so while every commit was gated, only
  fast paths differ from the last push (`OnlyFastCommitted`), which makes the push fast
  (`GateForetells`), for any set of working trees. Without the failures ruled out first, a fast push of other
  inputs is one whose diff renamed a governed path (`OnlyRenamesCanHide`).
  `ClassifierTypes` is type correctness.
- `BuildTargetProofs`. The invariant says how far each build has verified its
  pockets or layers (`StagedInOrder`), that a root past the recipe is one of
  `Bases` and one among layers is what the layers so far make (`Layered`), and the
  same of the archive. `Bases` has one element by `BootstrapAssumption`, hence
  `BaseReproduces`; `BootstrapIsVerified` needs no assumption on pockets or layers.
  `OutputsDescribe` is by `OutputInv`: while the history is clean, whoever writes has
  read the archive that is there (`Agreed`), and a file that does not describe it yet
  is before somebody who is writing (`Pending`). It needs `BuildTypes`, as an
  archive that is there is told from none.
- `BridgeSmokeProofs`. `TrapEndsServers` needs that a running server is known to
  the trap outside the gap of `Note` (`ServerIsKnown`). `PassMeansTrusted` is by
  `TrustSoFar`: what each check past in the script has established of a store
  that does not change, where a status of 60 came from a server that was reached
  while the bundle was in place. `JudgedAfterEnd` is by `RoundSoFar`, what a round
  has come to; `SmokeTypes` is type correctness. `SmokesProceed` needs `ServersFit`: a
  client that is waited for was started, a server that only serves is that of a TLS
  round and is dead once the trap waits for it, and a bridge that listens has requests left.
- `LayerExtractionProofs`. `LayerTypes` includes that the root is a tree at every
  step: what removes a path removes what is below it, and what is made has its parents.
  Every round but the last makes a link, so the rounds left exceed the links left, and
  `range()` is never used up with links left over (`NoLinkLeftOver`); every step
  descends (`ExtractionDescends`). `LayersAreCorrect` follows each path through the
  passes (`MeaningInv`): after the whiteouts so far it has what is below, unless one of
  them hides it; after the members so far what they mean (`PassInv`), in any order,
  as a plain archive gives a name one meaning; and in the rounds (`RoundInv`) nothing
  changes but links and directories above their targets, and each link
  still waits or is the file of its target, which no later step replaces.
  `RefusalsHaveReasons` needs in addition (`PendingInv`) that a round without progress
  has seen all waiting links without their files: these are the links that are
  `Unresolvable`.
- `ArchiveOutputProofs`. As long as tar has nothing to say, what xz has read, what is
  in the pipe and what tar has not come to are the members it was given, in their order
  (`Stream`); both statuses are good only when the last two are empty (`ArchiveInv`).
  For a v4 target these members are `Overlaid`, and the first sections show what that
  contains: the sorting order is total and transitive, so finitely many names have a
  sorted sequence, which has each of them once (`CanBeSorted`, `SortedOnce`); no name of
  the result is there twice (`JoinedUnique`), and each means what it meant in the base
  or what the overlay says (`OverlaidMeans`), in an order that one pass can unpack
  (`OverlaidInOrder`, from where the three parts begin). Instead of an induction over the number of
  names, which the prover cannot use, the proofs take the least number for which a claim
  fails (`LeastNumber`). Hence `ArchivesAreWhole` and `FinishedPasses`, for trees
  and v4 bases. `CallsProceed` joins that only messages
  block, from who holds which end of the pipe, and that each step lowers a measure.
- `ReleaseBundleProofs`. Only `create` writes checksums, so a directory that agrees
  with its own was left by one (`DirInv`), and one that is accepted holds what its
  candidate names (`AcceptanceIsCreation`); one that no fault has touched is
  accepted (`CreationIsAcceptance`). `IdentitiesStay` and `ReleasesAdvance` are about
  serial candidates, from the order of versions (`RecordAdvances`); `CollisionsStop`
  follows every released identity to the candidate that it came from. Assumed is
  only that the mark of a missing file is neither a content nor a file that
  `create` writes.
- `ReleasePipelineProofs`. The invariant is about the order of jobs: what a passed
  job of a run establishes (`Evidence`: `Constructed`, `Booted`, `Packed`), that a
  success and a bundle are final (`RunsAreFinal`), and what a release flow past each
  of its steps has and keeps (`FlowInv`). Releases are backed by it
  (`PublicationIsQualified`), bundles are booted (`BundlesAreSmoked`), and as the
  qualified bundles only grow (`QualifiedGrows`), every step is
  one of `ReleaseLedger` or none (`PipelineKeepsLedger`).

Every invariant of a passing run, and every action property and refinement, is stated
by a theorem. Only model-checked is what needs fairness: `CallsEnd`, `PipelineEnds`,
`CallEnds`, `EverythingEnds`. The prover reaches neither fairness nor ENABLED; that the
conditions in `CallProceeds` and `SmokeProceeds` are those under which the processes
can take steps is what the liveness properties of the same runs check. The
bounds of the runs are the ones given above.

## Not modelled

The getifaddrs override: one sequential C function that keeps nothing between calls;
its hazard, an allocation that fails half way, is in reach of a test that makes
`calloc` fail at every point in turn. SPDX documents and dpkg-status parsing:
formatting of one file, and two builds compare it. The native and proot-distro
checks: one program after the other on one file, an outcome of a job in
`ReleasePipeline`. The builds of proot and of the cross compiler: straight-line
scripts around containers. Registry tokens and requests: their results are the
cache's, and a failure ends the build (`Stop`).

## Plan

Done, in this order: the cache and its store, the classifier, the pipeline and
its ledger, catalogue and bundle, layer extraction, the smoke test, the build of
a target with its snapshot staging; then OCI layers, the local gate, the proof of
the trust store, candidates side by side and the historical schema, archives and
their inspection; proofs for every state machine.

1. The part of `CallsEnd` and `PipelineEnds` that needs no fairness, as `CallProceeds`
   is of `CallEnds`: between two pushes or reruns the jobs outstanding become fewer.
2. What a directory entry over a lower symlink comes to: `IsLayering` for such layers,
   which are not plain now.
3. A model of the getifaddrs override, should it come to keep state.

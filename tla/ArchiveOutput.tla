---------------------------- MODULE ArchiveOutput ----------------------------
(***************************************************************************)
(* How a finished tree becomes the archive in the output directory, and    *)
(* what is asked of it there.  canonical_archive() runs tar and xz side by *)
(* side over a bounded pipe, with tar's diagnostics in a second pipe that  *)
(* is read only when xz has ended; canonical_overlay_archive() copies the  *)
(* base archive of a v4 target member by member, appends the overlay, and  *)
(* compress_tar() runs xz alone over the result.  The archive is then      *)
(* listed by archive_inventory() and judged by inspect-artifact.py.        *)
(*                                                                         *)
(* An archive is a sequence of members.  Names are below the archive root, *)
(* as sequences; the bytes of a file are known by the name they came with. *)
(***************************************************************************)
EXTENDS Naturals, Sequences, FiniteSets

CONSTANTS
    Name,           \* member names, as sequences of numbers in sorting order
    OverlayPaths,   \* those of OVERLAY_PATHS
    Removed,        \* those of REMOVED_HELPER_PATHS
    Job,            \* what to archive: [kind |-> "tree" or "v4", members |-> ...]
    Shipped,        \* the bytes of the overlay files
    None,           \* no link target, no bytes, nothing there
    PipeSize,       \* members that the pipe between tar and xz holds
    DiagSize,       \* messages that the pipe of tar's diagnostics holds
    MaxFlaws        \* bound: messages of tar

Kind == {"file", "dir", "symlink", "link"}
\* inside: name and link target are under the root; canonical: owner and time are set.
Member == [name : Name, kind : Kind, to : Name \cup {None}, bytes : Name \cup {None, Shipped},
           inside : BOOLEAN, canonical : BOOLEAN]

ASSUME ArchiveAssumption ==
    /\ Name \subseteq Seq(Nat) /\ OverlayPaths \subseteq Name /\ Removed \subseteq Name
    /\ None \notin Name /\ Shipped \notin Name \cup {None}
    /\ \A j \in Job : j.kind \in {"tree", "v4"} /\ j.members \in Seq(Member)
    /\ PipeSize \in Nat \ {0} /\ DiagSize \in Nat \ {0} /\ MaxFlaws \in Nat

VARIABLES
    job,        \* the call
    pc,         \* where the build is
    tar, xz,    \* the processes
    todo,       \* members that tar has not come to
    flaws,      \* members that tar had something to say about
    diag,       \* messages in the pipe of its diagnostics
    pipe,       \* members between tar, or the uncompressed file, and xz
    held,       \* whether the build holds the reading end of the pipe
    got,        \* members that xz has read
    temp,       \* the temporary file
    output      \* the archive in the output directory

vars == <<job, pc, tar, xz, todo, flaws, diag, pipe, held, got, temp, output>>
tarring == <<tar, todo, flaws, diag>>
packing == <<xz, got>>
files == <<temp, output>>

\* A file: absent, not yet an archive, one of an earlier build, or an archive.
File(is, members) == [is |-> is, members |-> members]
NoFile == File("absent", <<>>)

Ends == {"done", "refused", "failed", "raised", "killed"}

TypeOK ==
    /\ job \in Job
    /\ pc \in {"start", "open", "tar", "xz", "communicate", "drain", "replace", "list"} \cup Ends
    /\ tar \in {"none", "runs", "complains", "ok", "bad"} /\ xz \in {"none", "runs", "ok", "bad"}
    /\ \A s \in {todo, pipe, got} : s \in Seq(Member)
    /\ flaws \in 0..MaxFlaws /\ diag \in 0..DiagSize
    /\ job.kind = "tree" => Len(pipe) <= PipeSize
    /\ held \in BOOLEAN
    /\ temp.is \in {"absent", "open", "archive"} /\ output.is \in {"absent", "older", "archive"}
    /\ temp.members \in Seq(Member) /\ output.members \in Seq(Member)

-----------------------------------------------------------------------------
(* The archive of a v4 target                                              *)

Above(n) == {p \in Name : Len(p) < Len(n) /\ SubSeq(n, 1, Len(p)) = p}
Names(a) == {a[i].name : i \in DOMAIN a}
Unique(a) == \A i, j \in DOMAIN a : a[i].name = a[j].name => i = j

\* What the order of members has to be for one pass over the archive to unpack it.
LinksFollow(a) ==
    \A i, j \in DOMAIN a : a[i].kind = "link" /\ a[j].name = a[i].to => j < i
DirectoriesFirst(a) ==
    \A i \in DOMAIN a : a[i].name \in OverlayPaths =>
        \A n \in Above(a[i].name) : \E j \in DOMAIN a : j < i /\ a[j].name = n

\* OVERLAY_PATHS are a few files in directories, and none of REMOVED_HELPER_PATHS.
ASSUME OverlayAssumption ==
    /\ OverlayPaths # {} /\ IsFiniteSet(OverlayPaths) /\ OverlayPaths \cap Removed = {}
    /\ \A n \in OverlayPaths : Above(n) \cap (OverlayPaths \cup Removed) = {}

\* tar names the files of a tree once, sorted, with the owner and the time it is given,
\* and build() has written the overlay files; the hard links of a v4 base have targets,
\* as it has been unpacked before.
ASSUME JobAssumption ==
    \A j \in Job :
        /\ j.kind = "tree" =>
              /\ Unique(j.members) /\ DirectoriesFirst(j.members)
              /\ \A i \in DOMAIN j.members :
                    /\ j.members[i].canonical
                    /\ j.members[i].name \in OverlayPaths =>
                          j.members[i].kind = "file" /\ j.members[i].bytes = Shipped
        /\ j.kind = "v4" =>
              \A i \in DOMAIN j.members :
                  j.members[i].kind = "link" => j.members[i].to \in Names(j.members)

\* The order of Python's sorted() and of tar --sort=name.
Precedes(p, q) ==
    \/ p \in Above(q)
    \/ \E i \in DOMAIN p \cap DOMAIN q : p[i] < q[i] /\ \A k \in 1..(i - 1) : p[k] = q[k]

Sorted(names) ==
    CHOOSE s \in [1..Cardinality(names) -> names] :
        \A i, j \in DOMAIN s : i < j => Precedes(s[i], s[j])

Entry(n, kind, bytes) ==
    [name |-> n, kind |-> kind, to |-> None, bytes |-> bytes, inside |-> TRUE, canonical |-> TRUE]

\* Mutant: owner and time are left as they are.
Normalized_AsIs(m) == m

\* normalized_tar_info(): owner, time and names are those of the release.
Normalized(m) == [m EXCEPT !.canonical = TRUE]

\* A member out of the base root, a double, or a member in an overlay file's place.
OverlayRefuses(base) ==
    \/ \E i \in DOMAIN base : ~base[i].inside
    \/ ~Unique(base)
    \/ Names(base) \cap OverlayPaths # {}

\* Mutant: the files come before the directories that are missing.
Overlaid_FilesFirst(base) ==
    LET missing == (UNION {Above(n) : n \in OverlayPaths}) \ Names(base)
        dirs == Sorted(missing)
        added == Sorted(OverlayPaths)
    IN  [i \in DOMAIN base |-> Normalized(base[i])]
        \o [i \in DOMAIN added |-> Entry(added[i], "file", Shipped)]
        \o [i \in DOMAIN dirs |-> Entry(dirs[i], "dir", None)]

\* Mutant: hard links are sorted to the front, like directories.
Overlaid_LinksFirst(base) ==
    LET missing == (UNION {Above(n) : n \in OverlayPaths}) \ Names(base)
        dirs == Sorted(missing)
        added == Sorted(OverlayPaths)
        Links(m) == m.kind = "link"
        Rest(m) == m.kind # "link"
        copy == SelectSeq(base, Links) \o SelectSeq(base, Rest)
    IN  [i \in DOMAIN copy |-> Normalized(copy[i])]
        \o [i \in DOMAIN dirs |-> Entry(dirs[i], "dir", None)]
        \o [i \in DOMAIN added |-> Entry(added[i], "file", Shipped)]

\* canonical_overlay_archive(): the base, the missing directories, the overlay.
Overlaid(base) ==
    LET missing == (UNION {Above(n) : n \in OverlayPaths}) \ Names(base)
        dirs == Sorted(missing)
        added == Sorted(OverlayPaths)
    IN  [i \in DOMAIN base |-> Normalized(base[i])]
        \o [i \in DOMAIN dirs |-> Entry(dirs[i], "dir", None)]
        \o [i \in DOMAIN added |-> Entry(added[i], "file", Shipped)]

-----------------------------------------------------------------------------
(* The build                                                               *)

Init ==
    /\ job \in Job
    /\ pc = "start"
    /\ tar = "none" /\ xz = "none" /\ todo = <<>> /\ flaws = 0 /\ diag = 0
    /\ pipe = <<>> /\ held = FALSE /\ got = <<>>
    /\ temp = NoFile /\ output \in {NoFile, File("older", <<>>)}

Goto(to) == pc' = to /\ UNCHANGED job

\* The uncompressed tar of a v4 target; a finished tree is read by tar itself.
Prepare ==
    /\ pc = "start"
    /\ IF job.kind = "tree"
         THEN Goto("open") /\ UNCHANGED pipe
         ELSE \/ OverlayRefuses(job.members) /\ Goto("refused") /\ UNCHANGED pipe
              \/ /\ ~OverlayRefuses(job.members)
                 /\ Goto("open") /\ pipe' = Overlaid(job.members)
    /\ UNCHANGED <<tarring, packing, held, files>>

OpenTemp ==
    /\ pc = "open"
    /\ Goto(IF job.kind = "tree" THEN "tar" ELSE "xz") /\ temp' = File("open", <<>>)
    /\ UNCHANGED <<tarring, packing, pipe, held, output>>

StartTar ==
    /\ pc = "tar"
    /\ Goto("xz") /\ tar' = "runs" /\ todo' = job.members /\ held' = TRUE
    /\ UNCHANGED <<flaws, diag, packing, pipe, files>>

\* Mutant: tar_process.stdout stays open in the build.
StartXz_KeepsPipe ==
    /\ pc = "xz"
    /\ Goto("communicate") /\ xz' = "runs"
    /\ UNCHANGED <<tarring, pipe, held, got, files>>

\* xz reads the pipe; the build closes its own copy.
StartXz ==
    /\ pc = "xz"
    /\ Goto("communicate") /\ xz' = "runs" /\ held' = FALSE
    /\ UNCHANGED <<tarring, pipe, got, files>>

\* Popen raises: nothing is cleaned up, and the build ends.
StartFails ==
    /\ pc \in {"tar", "xz"}
    /\ Goto("raised") /\ held' = FALSE
    /\ UNCHANGED <<tarring, packing, pipe, files>>

\* communicate() returns when xz has ended.
Communicate ==
    /\ pc = "communicate" /\ xz # "runs"
    /\ Goto("drain")
    /\ UNCHANGED <<tarring, packing, pipe, held, files>>

\* tar_process.stderr.read() takes what comes ...
Drain ==
    /\ pc = "drain" /\ diag > 0
    /\ diag' = 0
    /\ UNCHANGED <<job, pc, tar, todo, flaws, packing, pipe, held, files>>

\* Mutant: tar's status is not looked at.
Good_XzOnly == xz = "ok"

\* Mutant: xz's status is not looked at.
Good_TarOnly == tar # "bad"

\* Both statuses.  The uncompressed tar of a v4 target comes from the build itself.
Good == xz = "ok" /\ tar # "bad"

\* Mutant: a bad status starts the two over again.
Judge_Retries ==
    /\ pc = "drain" /\ tar \notin {"runs", "complains"}
    /\ Goto(IF Good THEN "replace" ELSE IF job.kind = "tree" THEN "tar" ELSE "xz")
    /\ UNCHANGED <<tarring, packing, pipe, held, files>>

\* ... until tar has ended; then the statuses count.
Judge ==
    /\ pc = "drain" /\ tar \notin {"runs", "complains"}
    /\ \/ Good /\ Goto("replace") /\ UNCHANGED temp
       \/ ~Good /\ Goto("failed") /\ temp' = NoFile
    /\ UNCHANGED <<tarring, packing, pipe, held, output>>

Replace ==
    /\ pc = "replace"
    /\ Goto("list") /\ output' = temp /\ temp' = NoFile
    /\ UNCHANGED <<tarring, packing, pipe, held>>

\* The overlay paths of the inventory, in its order, are OVERLAY_PATHS, sorted.
OverlayListed(a) ==
    /\ OverlayPaths \subseteq Names(a)
    /\ \A i, j \in DOMAIN a :
          i < j /\ {a[i].name, a[j].name} \subseteq OverlayPaths => Precedes(a[i].name, a[j].name)

\* archive_inventory() reads every member, or fails on one out of the root.
List ==
    /\ pc = "list"
    /\ LET a == output.members IN
       Goto(IF (\A i \in DOMAIN a : a[i].inside) /\ OverlayListed(a) THEN "done" ELSE "failed")
    /\ UNCHANGED <<tarring, packing, pipe, held, files>>

Kill ==
    /\ pc \notin Ends
    /\ Goto("killed") /\ held' = FALSE
    /\ UNCHANGED <<tarring, packing, pipe, files>>

-----------------------------------------------------------------------------
(* tar and xz                                                              *)

Readers == held \/ xz = "runs"

\* A member goes into the pipe when there is room; without a reader tar is gone.
TarWrites ==
    /\ tar = "runs" /\ todo # <<>>
    /\ \/ /\ Readers /\ Len(pipe) < PipeSize
          /\ pipe' = Append(pipe, Head(todo)) /\ todo' = Tail(todo) /\ UNCHANGED tar
       \/ ~Readers /\ tar' = "bad" /\ UNCHANGED <<pipe, todo>>
    /\ UNCHANGED <<job, pc, flaws, diag, packing, held, files>>

\* A member cannot be read, or changes meanwhile: it may be left out ...
TarFindsFlaw ==
    /\ tar = "runs" /\ todo # <<>> /\ flaws < MaxFlaws
    /\ tar' = "complains" /\ flaws' = flaws + 1 /\ todo' \in {todo, Tail(todo)}
    /\ UNCHANGED <<job, pc, diag, packing, pipe, held, files>>

\* ... and a message is written, when there is room and a reader.
TarComplains ==
    /\ tar = "complains"
    /\ \/ pc \notin Ends /\ diag < DiagSize /\ tar' = "runs" /\ diag' = diag + 1
       \/ pc \in Ends /\ tar' = "bad" /\ UNCHANGED diag
    /\ UNCHANGED <<job, pc, todo, flaws, packing, pipe, held, files>>

TarEnds ==
    /\ tar = "runs" /\ todo = <<>>
    /\ tar' = IF flaws = 0 THEN "ok" ELSE "bad"
    /\ UNCHANGED <<job, pc, todo, flaws, diag, packing, pipe, held, files>>

XzReads ==
    /\ xz = "runs" /\ pipe # <<>>
    /\ got' = Append(got, Head(pipe)) /\ pipe' = Tail(pipe)
    /\ UNCHANGED <<job, pc, tarring, xz, held, files>>

\* At the end of its input, when no one can write any more.
XzEnds ==
    /\ xz = "runs" /\ pipe = <<>> /\ tar \notin {"runs", "complains"}
    /\ xz' = "ok" /\ temp' = File("archive", got)
    /\ UNCHANGED <<job, pc, tarring, got, pipe, held, output>>

\* A fatal error, or a signal.
TarDies ==
    /\ tar \in {"runs", "complains"}
    /\ tar' = "bad"
    /\ UNCHANGED <<job, pc, todo, flaws, diag, packing, pipe, held, files>>

XzDies ==
    /\ xz = "runs"
    /\ xz' = "bad"
    /\ UNCHANGED <<job, pc, tarring, got, pipe, held, files>>

-----------------------------------------------------------------------------
Build ==
    \/ Prepare \/ OpenTemp \/ StartTar \/ StartXz \/ Communicate \/ Drain \/ Judge
    \/ Replace \/ List

Tar == TarWrites \/ TarFindsFlaw \/ TarComplains \/ TarEnds
Xz == XzReads \/ XzEnds

AllEnded == pc \in Ends /\ tar \notin {"runs", "complains"} /\ xz # "runs"

Ended == AllEnded /\ UNCHANGED vars

Next == Build \/ StartFails \/ Kill \/ Tar \/ TarDies \/ Xz \/ XzDies \/ Ended

Spec == Init /\ [][Next]_vars

\* Processes are scheduled.
Fairness == WF_vars(Build) /\ WF_vars(Tar) /\ WF_vars(Xz)

FairSpec == Spec /\ Fairness

-----------------------------------------------------------------------------
(* What is asked of an archive                                             *)

Forbidden(m) == m.name \in Removed \/ (m.kind \in {"symlink", "link"} /\ m.to \in Removed)

\* inspect-artifact.py
Inspected(a) ==
    /\ a # <<>> /\ Unique(a)
    /\ \A i \in DOMAIN a : a[i].inside /\ a[i].canonical /\ ~Forbidden(a[i])
    /\ \A n \in OverlayPaths :
          \E i \in DOMAIN a : a[i].name = n /\ a[i].kind = "file" /\ a[i].bytes = Shipped

\* What a name is once an archive is unpacked; a hard link is its target.
Meaning(a, n) ==
    LET Named(p) == {i \in DOMAIN a : a[i].name = p}
        Plain(m) == [kind |-> m.kind, to |-> m.to, bytes |-> m.bytes]
    IN  IF Named(n) = {} THEN None
        ELSE LET m == a[CHOOSE i \in Named(n) : TRUE] IN
             IF m.kind # "link" THEN Plain(m)
             ELSE IF ~m.inside \/ Named(m.to) = {}
                    THEN [kind |-> "dangling", to |-> m.to, bytes |-> None]
             ELSE Plain(a[CHOOSE i \in Named(m.to) : TRUE])

\* What the finished tree has under a name.
Wanted(n) ==
    IF job.kind = "tree" \/ n \in Names(job.members) THEN Meaning(job.members, n)
    ELSE IF n \in OverlayPaths THEN Meaning(<<Entry(n, "file", Shipped)>>, n)
    ELSE IF \E p \in OverlayPaths : n \in Above(p) THEN Meaning(<<Entry(n, "dir", None)>>, n)
    ELSE None

\* An archive in the output directory is whole: it unpacks to the finished tree,
\* name by name and with the bytes of every hard link, whichever of tar, xz and
\* the build failed, was cut off or was killed on the way.  One pass unpacks it:
\* directories come before overlay files, and hard links after their targets when
\* they do in what is archived.  A call that fails by itself leaves no temporary
\* file beside it, except when it cannot start a process.
OutputIsWhole ==
    /\ output.is = "archive" =>
          /\ \A n \in Name : Meaning(output.members, n) = Wanted(n)
          /\ DirectoriesFirst(output.members)
          /\ LinksFollow(job.members) => LinksFollow(output.members)
    /\ pc \in {"done", "refused", "failed"} => temp = NoFile

\* An archive that a build calls finished passes inspection, unless the base
\* itself brings the removed helper or a link to it: the two scripts agree about
\* what an archive is.
FinishedIsInspected ==
    pc = "done" =>
        \/ Inspected(output.members)
        \/ \E i \in DOMAIN job.members : Forbidden(job.members[i])

\* tar waits for room for a message while the build waits for xz and xz for tar.
Stuck == pc = "communicate" /\ tar = "complains" /\ diag = DiagSize /\ pipe = <<>>

\* The call ends, and so do tar and xz, whichever of them dies first, unless they
\* are stuck.
CallEnds == <>[]AllEnded \/ <>[]Stuck

\* Who can take a step, by what each of them waits for.
BuildCan ==
    \/ pc \in {"start", "open", "tar", "xz", "replace", "list"}
    \/ pc = "communicate" /\ xz # "runs"
    \/ pc = "drain" /\ (diag > 0 \/ tar \notin {"runs", "complains"})
TarCan ==
    \/ tar = "runs" /\ (todo = <<>> \/ ~Readers \/ Len(pipe) < PipeSize)
    \/ tar = "complains" /\ (pc \in Ends \/ diag < DiagSize)
XzCan == xz = "runs" /\ (pipe # <<>> \/ tar \notin {"runs", "complains"})

\* The three never wait for each other in any other way: a full pipe has a reader or
\* its writer is told, an empty one a writer or its reader is told, and a build that
\* waits for one of them waits for one that can end.
OnlyMessagesBlock == AllEnded \/ Stuck \/ BuildCan \/ TarCan \/ XzCan

\* Steps of the build that are ahead, and what can happen beside it meanwhile: a
\* member is still to be written and then read, or complained of.
Ahead(label) ==
    CASE label = "start" -> 8 [] label = "open" -> 7 [] label = "tar" -> 6 [] label = "xz" -> 5
      [] label = "communicate" -> 4 [] label = "drain" -> 3 [] label = "replace" -> 2
      [] label = "list" -> 1 [] OTHER -> 0
TarAhead == IF tar = "complains" THEN 3 ELSE IF tar = "runs" THEN 1 ELSE 0
XzAhead == IF xz = "runs" THEN 1 ELSE 0
Beside == 4 * (MaxFlaws - flaws) + 2 * Len(todo) + Len(pipe) + diag + TarAhead + XzAhead

\* The build gets on, or there is less to do beside it.
CallGetsOn ==
    \/ Ahead(pc') < Ahead(pc)
    \/ pc' = pc /\ Beside' \in 0..(Beside - 1)

\* What CallEnds rests on, for any tree and any sizes of the pipes: no step goes round
\* in a circle, so a call takes finitely many, and each leaves somebody who can take
\* the next, until all has ended or tar is stuck.
CallProceeds == [][CallGetsOn /\ OnlyMessagesBlock']_vars
=============================================================================

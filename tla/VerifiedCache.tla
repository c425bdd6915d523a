---------------------------- MODULE VerifiedCache ----------------------------
(***************************************************************************)
(* The digest-named cache directory that every run of build-image.py       *)
(* shares, and the processes that fill it.  Downloaded inputs are streamed *)
(* into a private temporary file, compared and renamed into place; the     *)
(* foreign keyring is extracted from a cached package straight into its    *)
(* entry.  Any process can be killed between two steps.                    *)
(*                                                                         *)
(* A file is abstracted to how much of the pinned bytes it holds: n in     *)
(* 0..Size when it is exactly the first n parts of them, Wrong otherwise.  *)
(***************************************************************************)
EXTENDS Naturals, FiniteSets

CONSTANTS
    Builder,        \* build-image.py invocations that may run side by side
    Pid,            \* process ids the operating system hands out
    Fetched,        \* pins filled by download()
    Extracted,      \* pins filled by extract_deb_data_file()
    Package,        \* Package[k]: the fetched pin that extracted pin k comes from
    Misdescribed,   \* extracted pins whose package holds other bytes than locked
    Size,           \* parts of a complete file
    Absent, Wrong,  \* no file; a file that is no prefix of the pinned bytes
    InitialEntry,   \* what the directory may hold before the first build
    MaxKills        \* bound: how often a builder is killed

Pin == Fetched \cup Extracted
Content == 0..Size \cup {Wrong}
Complete == Size

ASSUME CacheAssumption ==
    /\ Fetched \cap Extracted = {}
    /\ Package \in [Extracted -> Fetched]
    /\ Misdescribed \subseteq Extracted
    /\ Size \in Nat \ {0}
    /\ Absent \notin Nat
    /\ Wrong \notin Nat \cup {Absent}
    /\ InitialEntry \subseteq Content \cup {Absent}
    /\ MaxKills \in Nat

VARIABLES
    cache,      \* cache[p]: the entry at cache_path(p)
    temp,       \* temp[<<p, i>>]: the file .<name of p>.<pid i>.tmp
    pc,         \* where each builder is
    pid,        \* the process id of each builder
    want,       \* the pin the current call is for
    streamed,   \* what the running SHA-256 of download() has digested
    held,       \* pins whose path has been returned to the builder
    kills       \* how many builders were killed so far

vars == <<cache, temp, pc, pid, want, streamed, held, kills>>

Download == {"request", "open", "stream", "compare", "replace", "unlink", "unwind"}
Busy == Download \cup {"verify", "extract", "write"}

TypeOK ==
    /\ cache \in [Pin -> Content \cup {Absent}]
    /\ temp \in [Pin \X Pid -> Content \cup {Absent}]
    /\ pc \in [Builder -> Busy \cup {"off", "idle"}]
    /\ pid \in [Builder -> Pid]
    /\ want \in [Builder -> Pin]
    /\ streamed \in [Builder -> Content]
    /\ held \in [Builder -> SUBSET Pin]
    /\ kills \in Nat

Init ==
    /\ cache \in [Pin -> InitialEntry]
    /\ temp = [f \in Pin \X Pid |-> Absent]
    /\ pc = [b \in Builder |-> "off"]
    /\ pid \in [Builder -> Pid]
    /\ want \in [Builder -> Pin]
    /\ streamed = [b \in Builder |-> 0]
    /\ held = [b \in Builder |-> {}]
    /\ kills = 0

-----------------------------------------------------------------------------
Goto(b, label) == pc' = [pc EXCEPT ![b] = label]

\* Mutant: the temporary file is named after its pin only.
TempName_NoPid(b) == <<want[b], CHOOSE i \in Pid : TRUE>>

\* destination.with_name(f".{destination.name}.{os.getpid()}.tmp")
TempName(b) == <<want[b], pid[b]>>

\* Mutant: surplus bytes go unnoticed.
Extend_Unbounded(c, right) == IF right /\ c \in Nat THEN c + 1 ELSE Wrong

\* A file of content c after one more part, which is the next pinned part or not.
Extend(c, right) == IF right /\ c \in 0..(Size - 1) THEN c + 1 ELSE Wrong

LivePids == {pid[b] : b \in {c \in Builder : pc[c] # "off"}}

\* A BuildError or OSError leaves build(): main() reports it and the process ends.
Abort(b) == /\ Goto(b, "off")
            /\ held' = [held EXCEPT ![b] = {}]

Start(b) ==
    /\ pc[b] = "off"
    /\ \E i \in Pid \ LivePids : pid' = [pid EXCEPT ![b] = i]
    /\ Goto(b, "idle")
    /\ UNCHANGED <<cache, temp, want, streamed, held, kills>>

Exit(b) ==
    /\ pc[b] = "idle"
    /\ Abort(b)
    /\ UNCHANGED <<cache, temp, pid, want, streamed, kills>>

-----------------------------------------------------------------------------
\* The is_file() test at the head of download() and of the keyring branch.
Begin(b) ==
    /\ pc[b] = "idle"
    /\ \E p \in Pin \ held[b] :
          /\ p \in Extracted => Package[p] \in held[b]
          /\ want' = [want EXCEPT ![b] = p]
          /\ Goto(b, CASE cache[p] # Absent -> "verify"
                       [] p \in Fetched /\ cache[p] = Absent -> "request"
                       [] OTHER -> "extract")
    /\ UNCHANGED <<cache, temp, pid, streamed, held, kills>>

\* Mutant: an existing entry is taken as it is.
Verify_Trusting(b) ==
    /\ pc[b] = "verify"
    /\ held' = [held EXCEPT ![b] = @ \cup {want[b]}]
    /\ Goto(b, "idle")
    /\ UNCHANGED <<cache, temp, pid, want, streamed, kills>>

\* verify_digest() of an entry: found, or just extracted.
Verify(b) ==
    /\ pc[b] = "verify"
    /\ IF cache[want[b]] = Complete
         THEN /\ held' = [held EXCEPT ![b] = @ \cup {want[b]}]
              /\ Goto(b, "idle")
         ELSE Abort(b)
    /\ UNCHANGED <<cache, temp, pid, want, streamed, kills>>

\* urlopen() within its timeout: an answer with status 200, or an error.
Request(b) ==
    /\ pc[b] = "request"
    /\ \/ Goto(b, "open")
       \/ Goto(b, "unwind")
    /\ UNCHANGED <<cache, temp, pid, want, streamed, held, kills>>

OpenTemp(b) ==
    /\ pc[b] = "open"
    /\ temp' = [temp EXCEPT ![TempName(b)] = 0]
    /\ streamed' = [streamed EXCEPT ![b] = 0]
    /\ Goto(b, "stream")
    /\ UNCHANGED <<cache, pid, want, held, kills>>

ReadChunk(b) ==
    /\ pc[b] = "stream"
    /\ \E right \in BOOLEAN :
          /\ streamed' = [streamed EXCEPT ![b] = Extend(@, right)]
          /\ temp' = [temp EXCEPT ![TempName(b)] = Extend(@, right)]
    /\ UNCHANGED <<cache, pc, pid, want, held, kills>>

\* read() returns b"", wherever the server stops.
EndOfBody(b) ==
    /\ pc[b] = "stream"
    /\ Goto(b, "compare")
    /\ UNCHANGED <<cache, temp, pid, want, streamed, held, kills>>

\* Mutant: a mismatch is downloaded again, without a limit.
Compare_Retries(b) ==
    /\ pc[b] = "compare"
    /\ Goto(b, IF streamed[b] = Complete THEN "replace" ELSE "request")
    /\ UNCHANGED <<cache, temp, pid, want, streamed, held, kills>>

Compare(b) ==
    /\ pc[b] = "compare"
    /\ Goto(b, IF streamed[b] = Complete THEN "replace" ELSE "unwind")
    /\ UNCHANGED <<cache, temp, pid, want, streamed, held, kills>>

Replace(b) ==
    /\ pc[b] = "replace"
    /\ cache' = [cache EXCEPT ![want[b]] = temp[TempName(b)]]
    /\ temp' = [temp EXCEPT ![TempName(b)] = Absent]
    /\ Goto(b, "unlink")
    /\ UNCHANGED <<pid, want, streamed, held, kills>>

\* Mutant: the temporary file is only removed when nothing was raised.
DownloadFails_NoFinally(b) ==
    /\ pc[b] \in {"open", "stream", "replace"}
    /\ Abort(b)
    /\ UNCHANGED <<cache, temp, pid, want, streamed, kills>>

\* An exception between opening the temporary file and the end of the try block.
DownloadFails(b) ==
    /\ pc[b] \in {"open", "stream", "replace"}
    /\ Goto(b, "unwind")
    /\ UNCHANGED <<cache, temp, pid, want, streamed, held, kills>>

\* The finally clause, then the return or the exception it was reached with.
Cleanup(b) ==
    /\ temp' = [temp EXCEPT ![TempName(b)] = Absent]
    /\ \/ /\ pc[b] = "unlink"
          /\ held' = [held EXCEPT ![b] = @ \cup {want[b]}]
          /\ Goto(b, "idle")
       \/ /\ pc[b] = "unwind"
          /\ Abort(b)
    /\ UNCHANGED <<cache, pid, want, streamed, kills>>

-----------------------------------------------------------------------------
\* destination.write_bytes(): the entry itself is truncated, then written.
OpenEntry(b) ==
    /\ pc[b] = "extract"
    /\ cache' = [cache EXCEPT ![want[b]] = 0]
    /\ Goto(b, "write")
    /\ UNCHANGED <<temp, pid, want, streamed, held, kills>>

WriteEntry(b) ==
    /\ pc[b] = "write"
    /\ cache' = [cache EXCEPT ![want[b]] =
                    IF want[b] \in Misdescribed THEN Wrong ELSE Complete]
    /\ Goto(b, "verify")
    /\ UNCHANGED <<temp, pid, want, streamed, held, kills>>

\* No data.tar member, no such file in it, a tar failure, a full disk.
ExtractFails(b) ==
    /\ pc[b] \in {"extract", "write"}
    /\ Abort(b)
    /\ UNCHANGED <<cache, temp, pid, want, streamed, kills>>

-----------------------------------------------------------------------------
\* The process is killed: no finally clause runs.
Kill(b) ==
    /\ pc[b] # "off" /\ kills < MaxKills
    /\ kills' = kills + 1
    /\ Abort(b)
    /\ UNCHANGED <<cache, temp, pid, want, streamed>>

\* What a running call does by itself.
Proceed(b) ==
    \/ Verify(b) \/ Request(b) \/ OpenTemp(b) \/ ReadChunk(b) \/ EndOfBody(b)
    \/ Compare(b) \/ Replace(b) \/ DownloadFails(b) \/ Cleanup(b)
    \/ OpenEntry(b) \/ WriteEntry(b) \/ ExtractFails(b)

Step(b) == Start(b) \/ Begin(b) \/ Exit(b) \/ Proceed(b) \/ Kill(b)

Next == \E b \in Builder : Step(b)

\* A process that is not killed is scheduled, and every response body ends:
\* the server closes it or the 60 s socket timeout raises.
Fairness == \A b \in Builder : WF_vars(Proceed(b)) /\ WF_vars(EndOfBody(b))

Spec == Init /\ [][Next]_vars

FairSpec == Spec /\ Fairness

-----------------------------------------------------------------------------
(* Properties                                                              *)

\* The path download() returned still names the pinned bytes however long the
\* build keeps using it and whatever other builds, downloads of the same pin
\* and kills happen meanwhile: nobody digests the file a second time.
HeldIsPinned == \A b \in Builder : \A p \in held[b] \cap Fetched : cache[p] = Complete

\* A downloaded entry changes only by becoming complete, so a failed, truncated,
\* mismatching or killed download never damages the cache (temporary.replace).
EntriesOnlyComplete ==
    [][\A p \in Fetched : cache'[p] # cache[p] => cache'[p] = Complete]_vars

\* Until somebody is killed, every temporary file belongs to a live download:
\* the finally clause removes it on success, mismatch, HTTP error and exception.
NoLitter ==
    kills = 0 =>
        \A f \in DOMAIN temp : temp[f] # Absent =>
            \E b \in Builder : pc[b] \in Download /\ f = TempName(b)

\* Two downloads of one pin never write the same temporary file, even after
\* process ids were reused: only then is the digest in memory that of the file.
TempIsPrivate ==
    \A b \in Builder : pc[b] \in {"stream", "compare", "replace"} =>
        temp[TempName(b)] = streamed[b]

\* A call for an input ends, ready or failed, unless its process is killed
\* (which also ends it).
CallsEnd == \A b \in Builder : pc[b] \in Busy ~> pc[b] \in {"off", "idle"}

\* The downloaded part of the cache is a PinnedStore.
Store == INSTANCE PinnedStore WITH
    Pin <- Fetched,
    verified <- {p \in Fetched : cache[p] = Complete},
    relied <- [b \in Builder |-> held[b] \cap Fetched]

StoreSpec == Store!Spec
=============================================================================

------------------------- MODULE VerifiedCacheProofs -------------------------
(***************************************************************************)
(* Proofs about VerifiedCache for any number of builders, pins, process    *)
(* ids, parts of a file and kills.  The inductive invariant adds to the    *)
(* checked ones what relates the program counter of a download to the      *)
(* files: live process ids differ, so temporary files are private, so what *)
(* was digested in memory is what is renamed into place.                   *)
(***************************************************************************)
EXTENDS VerifiedCache, TLAPS

\* Live builders are different processes.
LivePidsDiffer ==
    \A b, c \in Builder :
        b # c /\ pc[b] # "off" /\ pc[c] # "off" => pid[b] # pid[c]

\* download() serves the fetched pins, extract_deb_data_file() the extracted ones.
CallsMatchPins ==
    \A b \in Builder : /\ pc[b] \in Download => want[b] \in Fetched
                       /\ pc[b] \in {"extract", "write"} => want[b] \in Extracted

\* Only a matching digest leads to the rename.
ReplaceIsChecked == \A b \in Builder : pc[b] = "replace" => streamed[b] = Complete

\* After the rename the entry is there to be returned.
ReplacedIsPinned == \A b \in Builder : pc[b] = "unlink" => cache[want[b]] = Complete

IInv ==
    /\ TypeOK
    /\ LivePidsDiffer
    /\ CallsMatchPins
    /\ TempIsPrivate
    /\ ReplaceIsChecked
    /\ ReplacedIsPinned
    /\ HeldIsPinned

-----------------------------------------------------------------------------
\* A file stays within its possible contents as parts are appended.
LEMMA ExtendType ==
    ASSUME NEW c \in Content \cup {Absent}, NEW right \in BOOLEAN
    PROVE  Extend(c, right) \in Content
BY CacheAssumption DEF Extend, Content

LEMMA CompleteType == 0 \in Content /\ Complete \in Content /\ Wrong \in Content
                      /\ Absent \notin Content
BY CacheAssumption DEF Content, Complete

\* One case per action.
LEMMA TypeStep == TypeOK /\ [Next]_vars => TypeOK'
<1> SUFFICES ASSUME TypeOK, [Next]_vars PROVE TypeOK'
  OBVIOUS
<1> USE CacheAssumption, CompleteType DEF TypeOK, Download, Busy, Goto, Abort
<1>1. CASE UNCHANGED vars
  BY <1>1 DEF vars
<1>2. ASSUME NEW b \in Builder, Step(b) PROVE TypeOK'
  <2>0. TempName(b) \in Pin \X Pid
    BY DEF TempName
  <2>1. CASE Start(b)
    BY <2>1 DEF Start
  <2>2. CASE Exit(b)
    BY <2>2 DEF Exit
  <2>3. CASE Begin(b)
    BY <2>3 DEF Begin
  <2>4. CASE Verify(b)
    BY <2>4 DEF Verify
  <2>5. CASE Request(b)
    BY <2>5 DEF Request
  <2>6. CASE OpenTemp(b)
    BY <2>6, <2>0 DEF OpenTemp
  <2>7. CASE ReadChunk(b)
    <3>1. PICK right \in BOOLEAN :
             /\ streamed' = [streamed EXCEPT ![b] = Extend(@, right)]
             /\ temp' = [temp EXCEPT ![TempName(b)] = Extend(@, right)]
      BY <2>7 DEF ReadChunk
    <3>2. streamed' \in [Builder -> Content]
      BY <3>1, ExtendType
    <3>3. Extend(temp[TempName(b)], right) \in Content
      BY ExtendType, <2>0
    <3>4. temp' \in [Pin \X Pid -> Content \cup {Absent}]
      BY <3>1, <3>3, <2>0
    <3> QED BY <2>7, <3>2, <3>4 DEF ReadChunk
  <2>8. CASE EndOfBody(b)
    BY <2>8 DEF EndOfBody
  <2>9. CASE Compare(b)
    BY <2>9 DEF Compare
  <2>10. CASE Replace(b)
    BY <2>10, <2>0 DEF Replace
  <2>11. CASE DownloadFails(b)
    BY <2>11 DEF DownloadFails
  <2>12. CASE Cleanup(b)
    BY <2>12, <2>0 DEF Cleanup
  <2>13. CASE OpenEntry(b)
    BY <2>13 DEF OpenEntry
  <2>14. CASE WriteEntry(b)
    BY <2>14 DEF WriteEntry
  <2>15. CASE ExtractFails(b)
    BY <2>15 DEF ExtractFails
  <2>16. CASE Kill(b)
    BY <2>16 DEF Kill
  <2> QED
    BY <1>2, <2>1, <2>2, <2>3, <2>4, <2>5, <2>6, <2>7, <2>8, <2>9, <2>10,
       <2>11, <2>12, <2>13, <2>14, <2>15, <2>16 DEF Step, Proceed
<1> QED BY <1>1, <1>2 DEF Next

LEMMA TypeInit == Init => TypeOK
BY CacheAssumption, CompleteType DEF Init, TypeOK, Busy

\* Every variable of the cache keeps its type in every reachable state.
THEOREM TypeCorrect == Spec => []TypeOK
BY TypeInit, TypeStep, PTL DEF Spec

-----------------------------------------------------------------------------
(* The inductive invariant                                                 *)

LEMMA InvInit == Init => IInv
BY TypeInit DEF Init, IInv, LivePidsDiffer, CallsMatchPins, TempIsPrivate,
                ReplaceIsChecked, ReplacedIsPinned, HeldIsPinned, Download

\* Every step of every builder preserves the invariant, conjunct by conjunct.
LEMMA InvStep == IInv /\ [Next]_vars => IInv'
<1> SUFFICES ASSUME IInv, [Next]_vars PROVE IInv'
  OBVIOUS
<1>0. TypeOK /\ TypeOK'
  BY TypeStep DEF IInv
<1> USE CacheAssumption, CompleteType, <1>0
<1>1. CASE UNCHANGED vars
  BY <1>1 DEF vars, IInv, LivePidsDiffer, CallsMatchPins, TempIsPrivate, TempName,
              ReplaceIsChecked, ReplacedIsPinned, HeldIsPinned
<1>2. ASSUME NEW b \in Builder, Step(b) PROVE IInv'
  <2> USE DEF TypeOK, Goto, Abort, Download, TempName
  <2>1. LivePidsDiffer'
    <3>1. CASE Start(b)
      <4>1. PICK i \in Pid \ LivePids : pid' = [pid EXCEPT ![b] = i]
        BY <3>1 DEF Start
      <4> QED
        BY <3>1, <4>1 DEF Start, LivePids, IInv, LivePidsDiffer
    <3>2. CASE ~Start(b)
      <4>1. pid' = pid /\ \A c \in Builder : pc'[c] # "off" => pc[c] # "off"
        BY <1>2, <3>2 DEF Step, Proceed, Begin, Exit, Verify, Request, OpenTemp,
             ReadChunk, EndOfBody, Compare, Replace, DownloadFails, Cleanup,
             OpenEntry, WriteEntry, ExtractFails, Kill
      <4> QED BY <4>1 DEF IInv, LivePidsDiffer
    <3> QED BY <3>1, <3>2
  <2>2. CallsMatchPins'
    BY <1>2 DEF Step, Proceed, Start, Begin, Exit, Verify, Request, OpenTemp,
         ReadChunk, EndOfBody, Compare, Replace, DownloadFails, Cleanup,
         OpenEntry, WriteEntry, ExtractFails, Kill, IInv, CallsMatchPins, Pin
  <2>3. ReplaceIsChecked'
    BY <1>2 DEF Step, Proceed, Start, Begin, Exit, Verify, Request, OpenTemp,
         ReadChunk, EndOfBody, Compare, Replace, DownloadFails, Cleanup,
         OpenEntry, WriteEntry, ExtractFails, Kill, IInv, ReplaceIsChecked
  \* A fetched entry keeps its bytes, or gets the right ones.
  <2>4. \A p \in Fetched : cache'[p] = cache[p] \/ cache'[p] = Complete
    <3>1. CASE Replace(b)
      BY <3>1 DEF Replace, IInv, TempIsPrivate, ReplaceIsChecked
    <3>2. CASE OpenEntry(b) \/ WriteEntry(b)
      BY <3>2 DEF OpenEntry, WriteEntry, IInv, CallsMatchPins, Pin
    <3>3. CASE ~(Replace(b) \/ OpenEntry(b) \/ WriteEntry(b))
      BY <1>2, <3>3 DEF Step, Proceed, Start, Begin, Exit, Verify, Request, OpenTemp,
           ReadChunk, EndOfBody, Compare, DownloadFails, Cleanup, ExtractFails, Kill
    <3> QED BY <3>1, <3>2, <3>3
  <2>5. TempIsPrivate'
    \* The other builders' temporary files are not touched.
    <3>1. ASSUME NEW c \in Builder \ {b}, pc'[c] \in {"stream", "compare", "replace"}
          PROVE  temp'[TempName(c)'] = streamed'[c]
      <4>1. pc'[c] = pc[c] /\ streamed'[c] = streamed[c] /\ TempName(c)' = TempName(c)
        BY <1>2 DEF Step, Proceed, Start, Begin, Exit, Verify, Request, OpenTemp,
             ReadChunk, EndOfBody, Compare, Replace, DownloadFails, Cleanup,
             OpenEntry, WriteEntry, ExtractFails, Kill
      <4>2. temp' = temp \/ (pc[b] # "off" /\ \A f \in Pin \X Pid :
                                f # TempName(b) => temp'[f] = temp[f])
        BY <1>2 DEF Step, Proceed, Start, Begin, Exit, Verify, Request, OpenTemp,
             ReadChunk, EndOfBody, Compare, Replace, DownloadFails, Cleanup,
             OpenEntry, WriteEntry, ExtractFails, Kill
      <4>3. pc[b] # "off" => TempName(c) # TempName(b)
        BY <3>1, <4>1 DEF IInv, LivePidsDiffer
      <4>4. TempName(c) \in Pin \X Pid
        OBVIOUS
      <4> HIDE DEF TempName
      <4> QED BY <3>1, <4>1, <4>2, <4>3, <4>4 DEF IInv, TempIsPrivate
    <3>2. ASSUME pc'[b] \in {"stream", "compare", "replace"}
          PROVE  temp'[TempName(b)'] = streamed'[b]
      <4>1. CASE OpenTemp(b)
        BY <4>1 DEF OpenTemp
      <4>2. CASE ReadChunk(b)
        BY <4>2 DEF ReadChunk, IInv, TempIsPrivate
      <4>3. CASE ~OpenTemp(b) /\ ~ReadChunk(b)
        BY <1>2, <3>2, <4>3 DEF Step, Proceed, Start, Begin, Exit, Verify, Request,
             EndOfBody, Compare, Replace, DownloadFails, Cleanup, OpenEntry,
             WriteEntry, ExtractFails, Kill, IInv, TempIsPrivate
      <4> QED BY <4>1, <4>2, <4>3
    <3> QED BY <3>1, <3>2 DEF TempIsPrivate
  <2>6. ReplacedIsPinned'
    <3>1. CASE Replace(b)
      BY <3>1, <2>4 DEF Replace, IInv, TempIsPrivate, ReplaceIsChecked,
                        ReplacedIsPinned, CallsMatchPins
    <3>2. CASE ~Replace(b)
      <4>1. \A c \in Builder : pc'[c] = "unlink" => pc[c] = "unlink" /\ want'[c] = want[c]
        BY <1>2, <3>2 DEF Step, Proceed, Start, Begin, Exit, Verify, Request, OpenTemp,
             ReadChunk, EndOfBody, Compare, DownloadFails, Cleanup,
             OpenEntry, WriteEntry, ExtractFails, Kill
      <4> QED BY <4>1, <2>4 DEF IInv, ReplacedIsPinned, CallsMatchPins
    <3> QED BY <3>1, <3>2
  <2>7. HeldIsPinned'
    <3>1. \A c \in Builder : \A p \in held'[c] : p \in held[c] \/ cache[p] = Complete
      <4>1. CASE Verify(b)
        BY <4>1 DEF Verify
      <4>2. CASE Cleanup(b)
        BY <4>2 DEF Cleanup, IInv, ReplacedIsPinned
      <4>3. CASE ~Verify(b) /\ ~Cleanup(b)
        <5>1. \A c \in Builder : held'[c] \subseteq held[c]
          BY <1>2, <4>3 DEF Step, Proceed, Start, Begin, Exit, Request, OpenTemp,
               ReadChunk, EndOfBody, Compare, Replace, DownloadFails,
               OpenEntry, WriteEntry, ExtractFails, Kill
        <5> QED BY <5>1
      <4> QED BY <4>1, <4>2, <4>3
    <3> QED BY <3>1, <2>4 DEF IInv, HeldIsPinned
  <2> QED BY <2>1, <2>2, <2>3, <2>5, <2>6, <2>7 DEF IInv
<1> QED BY <1>1, <1>2 DEF Next

LEMMA Invariance == Spec => []IInv
BY InvInit, InvStep, PTL DEF Spec

\* A downloaded input keeps the pinned bytes for as long as a build relies on
\* its path, without the build looking at its digest again.
THEOREM HeldStaysPinned == Spec => []HeldIsPinned
BY Invariance, PTL DEF IInv

\* The digest computed in memory is that of the temporary file that is renamed.
THEOREM DigestedIsRenamed == Spec => []TempIsPrivate
BY Invariance, PTL DEF IInv

-----------------------------------------------------------------------------
(* Action property, refinement and temporary files                         *)

LEMMA EntryStep ==
    ASSUME IInv, [Next]_vars
    PROVE  \A p \in Fetched : cache'[p] # cache[p] => cache'[p] = Complete
<1> USE CacheAssumption, CompleteType DEF IInv, TypeOK, Pin
<1>1. CASE UNCHANGED vars
  BY <1>1 DEF vars
<1>2. ASSUME NEW b \in Builder, Step(b)
      PROVE  \A p \in Fetched : cache'[p] # cache[p] => cache'[p] = Complete
  <2>1. CASE Replace(b)
    BY <2>1 DEF Replace, TempIsPrivate, ReplaceIsChecked
  <2>2. CASE OpenEntry(b) \/ WriteEntry(b)
    BY <2>2 DEF OpenEntry, WriteEntry, CallsMatchPins
  <2>3. CASE ~(Replace(b) \/ OpenEntry(b) \/ WriteEntry(b))
    BY <1>2, <2>3 DEF Step, Proceed, Start, Begin, Exit, Verify, Request, OpenTemp,
         ReadChunk, EndOfBody, Compare, DownloadFails, Cleanup, ExtractFails, Kill
  <2> QED BY <2>1, <2>2, <2>3
<1> QED BY <1>1, <1>2 DEF Next

\* Whatever fails or is killed, a downloaded entry only ever becomes complete.
THEOREM FailuresSpareEntries == Spec => EntriesOnlyComplete
<1>1. IInv /\ [Next]_vars =>
        [\A p \in Fetched : cache'[p] # cache[p] => cache'[p] = Complete]_vars
  BY EntryStep
<1> QED BY <1>1, Invariance, PTL DEF Spec, EntriesOnlyComplete

\* A builder only comes to hold a pin whose entry is complete at that moment.
LEMMA HoldStep ==
    ASSUME IInv, NEW b \in Builder, Step(b)
    PROVE  \/ held' = held
           \/ held' = [held EXCEPT ![b] = {}]
           \/ \E p \in Pin : /\ cache[p] = Complete /\ cache' = cache
                             /\ held' = [held EXCEPT ![b] = @ \cup {p}]
<1> USE DEF IInv, TypeOK
<1>1. CASE Verify(b)
  BY <1>1 DEF Verify, Abort
<1>2. CASE Cleanup(b)
  BY <1>2 DEF Cleanup, Abort, ReplacedIsPinned
<1>3. CASE ~Verify(b) /\ ~Cleanup(b)
  BY <1>3 DEF Step, Proceed, Start, Begin, Exit, Request, OpenTemp, ReadChunk,
       EndOfBody, Compare, Replace, DownloadFails, OpenEntry, WriteEntry,
       ExtractFails, Kill, Abort
<1> QED BY <1>1, <1>2, <1>3

\* A step that changes an entry changes no builder's set of held pins.
LEMMA CacheOrHeld ==
    ASSUME NEW b \in Builder, Step(b), cache' # cache
    PROVE  held' = held /\ \E c : cache' = [cache EXCEPT ![want[b]] = c]
BY DEF Step, Proceed, Start, Begin, Exit, Verify, Request, OpenTemp, ReadChunk,
     EndOfBody, Compare, Replace, DownloadFails, Cleanup, OpenEntry, WriteEntry,
     ExtractFails, Kill, Abort

\* Every step of the cache is a step of the store, or none.
LEMMA StoreStep ==
    ASSUME IInv, [Next]_vars
    PROVE  [Store!Next]_(Store!vars)
<1> USE CacheAssumption DEF Store!vars, IInv, TypeOK, Pin
<1> DEFINE good == {p \in Fetched : cache[p] = Complete}
           relied == [b \in Builder |-> held[b] \cap Fetched]
<1>1. CASE UNCHANGED vars
  BY <1>1 DEF vars
<1>2. ASSUME NEW b \in Builder, Step(b) PROVE [Store!Next]_(Store!vars)
  <2>1. CASE cache' = cache
    <3>1. CASE held' = held
      <4>1. good' = good /\ relied' = relied
        BY <2>1, <3>1
      <4> QED BY <4>1
    <3>2. CASE held' = [held EXCEPT ![b] = {}]
      <4>0. \A c \in Builder : held'[c] \cap Fetched =
                                 IF c = b THEN {} ELSE held[c] \cap Fetched
        BY <3>2
      <4>1. good' = good /\ relied' = [relied EXCEPT ![b] = {}]
        BY <2>1, <4>0, Zenon
      <4>2. Store!Forget(b)
        BY <4>1 DEF Store!Forget
      <4> QED BY <4>2 DEF Store!Next
    <3>3. ASSUME NEW p \in Pin, cache[p] = Complete,
                 held' = [held EXCEPT ![b] = @ \cup {p}]
          PROVE  [Store!Next]_(Store!vars)
      <4>1. CASE p \in Fetched
        <5>0. \A c \in Builder : held'[c] \cap Fetched =
                 IF c = b THEN (held[b] \cap Fetched) \cup {p} ELSE held[c] \cap Fetched
          BY <3>3, <4>1
        <5>1. p \in good /\ good' = good /\ relied' = [relied EXCEPT ![b] = @ \cup {p}]
          BY <2>1, <3>3, <4>1, <5>0, Zenon
        <5>2. Store!Rely(b, p)
          BY <5>1 DEF Store!Rely
        <5> QED BY <5>2, <4>1 DEF Store!Next
      <4>2. CASE p \notin Fetched
        <5>1. relied' = relied
          BY <3>3, <4>2
        <5> QED BY <2>1, <5>1
      <4> QED BY <4>1, <4>2
    <3> QED BY <1>2, <3>1, <3>2, <3>3, HoldStep
  <2>2. CASE cache' # cache
    <3>1. held' = held /\ \E c : cache' = [cache EXCEPT ![want[b]] = c]
      BY <1>2, <2>2, CacheOrHeld
    <3>2. CASE want[b] \in Fetched /\ cache'[want[b]] = Complete
      <4>1. PICK p \in Fetched : p = want[b]
        BY <3>2
      <4>2. good' = good \cup {p} /\ relied' = relied
        BY <3>1, <3>2, <4>1
      <4>3. Store!Publish(p)
        BY <4>2 DEF Store!Publish
      <4> QED BY <4>3 DEF Store!Next
    <3>3. CASE ~(want[b] \in Fetched /\ cache'[want[b]] = Complete)
      <4>1. good' = good
        BY <1>2, <3>1, <3>3, EntryStep DEF Next
      <4> QED BY <3>1, <4>1
    <3> QED BY <3>2, <3>3
  <2> QED BY <2>1, <2>2
<1> QED BY <1>1, <1>2 DEF Next

LEMMA StoreInit == Init => Store!Init
BY DEF Init, Store!Init

\* The downloaded part of the cache implements the store the builds rely on.
THEOREM CacheImplementsStore == Spec => StoreSpec
BY Invariance, StoreInit, StoreStep, PTL DEF Spec, StoreSpec, Store!Spec

LEMMA LitterStep == TypeOK /\ NoLitter /\ [Next]_vars => NoLitter'
<1> SUFFICES ASSUME TypeOK, NoLitter, [Next]_vars PROVE NoLitter'
  OBVIOUS
<1> USE DEF TypeOK, NoLitter, Goto, Abort, Download, TempName
<1>1. CASE UNCHANGED vars
  BY <1>1 DEF vars
<1>2. ASSUME NEW b \in Builder, Step(b), kills' = 0,
             NEW f \in Pin \X Pid, temp'[f] # Absent
      PROVE  \E c \in Builder : pc'[c] \in Download /\ f = TempName(c)'
  <2>1. kills = 0
    BY <1>2 DEF Step, Proceed, Start, Begin, Exit, Verify, Request, OpenTemp,
         ReadChunk, EndOfBody, Compare, Replace, DownloadFails, Cleanup,
         OpenEntry, WriteEntry, ExtractFails, Kill
  <2>2. \A c \in Builder \ {b} : pc'[c] = pc[c] /\ TempName(c)' = TempName(c)
    BY <1>2 DEF Step, Proceed, Start, Begin, Exit, Verify, Request, OpenTemp,
         ReadChunk, EndOfBody, Compare, Replace, DownloadFails, Cleanup,
         OpenEntry, WriteEntry, ExtractFails, Kill
  <2>3. CASE f = TempName(b)
    BY <1>2, <2>1, <2>2, <2>3 DEF Step, Proceed, Start, Begin, Exit, Verify, Request,
         OpenTemp, ReadChunk, EndOfBody, Compare, Replace, DownloadFails, Cleanup,
         OpenEntry, WriteEntry, ExtractFails, Kill
  <2>4. CASE f # TempName(b)
    <3>1. temp[f] # Absent
      BY <1>2, <2>4 DEF Step, Proceed, Start, Begin, Exit, Verify, Request, OpenTemp,
           ReadChunk, EndOfBody, Compare, Replace, DownloadFails, Cleanup,
           OpenEntry, WriteEntry, ExtractFails, Kill
    <3>2. PICK c \in Builder : pc[c] \in Download /\ f = TempName(c)
      BY <2>1, <3>1
    <3> QED BY <2>2, <2>4, <3>2
  <2> QED BY <2>3, <2>4
<1>3. DOMAIN temp' = Pin \X Pid
  BY TypeStep
<1> QED BY <1>1, <1>2, <1>3 DEF Next

\* No build that was not killed leaves a temporary file behind.
THEOREM FinallyRemoves == Spec => []NoLitter
<1>1. Init => NoLitter
  BY DEF Init, NoLitter
<1> QED BY <1>1, TypeCorrect, LitterStep, PTL DEF Spec
=============================================================================

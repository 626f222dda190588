------------------------- MODULE TimelineFeed_proofs -------------------------
(***************************************************************************)
(* Proofs about Timeline, for every set of clients and contents, every     *)
(* bound and both stores, and about FeedAnchor, for every set of events    *)
(* and workers and every bound.  The two modules share no name, and no     *)
(* statement relates one to the other.                                     *)
(***************************************************************************)
EXTENDS Timeline, FeedAnchor, TLAPS

-----------------------------------------------------------------------------
(* The timeline.                                                              *)

\* The rows that patches have computed are as good as those in the table.
PatchesMatchContent ==
    \A c \in Clients : \A e \in patching[c] :
        e.sha = EventSha(e.index, e.content) /\ e.id[1] = e.index

\* Ids and indexes of the events, without what follows for new events.
IndexesAreKeys ==
    /\ \A e \in events : e.id[1] = e.index
    /\ \A e, f \in events : e.index = f.index => e = f

\* A request that has passed the check of the anchor endpoint holds the frozen
\* manifest.
AnchorsNameManifest == \A c \in Clients : step[c] = "anchor" => frozen /\ seen[c] = manifest

\* The inductive invariant.
IInv ==
    /\ TypeOK
    /\ HashesMatchContent
    /\ PatchesMatchContent
    /\ IndexesAreKeys
    /\ FrozenManifestCoversEvents
    /\ AnchorsNameManifest
    /\ ReceiptsCommitToEvents

-----------------------------------------------------------------------------
(* The operators. *)

\* A new event is well typed, carries its own hash and is named by its index.
LEMMA NewEventFacts ==
    ASSUME NEW i \in Nat, NEW content \in Contents
    PROVE  /\ NewEvent(i, content) \in Event
           /\ NewEvent(i, content).sha = EventSha(i, content)
           /\ NewEvent(i, content).index = i
           /\ NewEvent(i, content).content = content
           /\ NewEvent(i, content).id[1] = i
  BY DEF NewEvent, Event, Hash, EventSha

\* A patch keeps id and index and hashes the new content.
LEMMA PatchedFacts ==
    ASSUME NEW e \in Event, NEW new \in Contents
    PROVE  /\ Patched(e, new) \in Event
           /\ Patched(e, new).sha = EventSha(e.index, new)
           /\ Patched(e, new).content = new
           /\ Patched(e, new).index = e.index
           /\ Patched(e, new).id = e.id
  BY DEF Patched, Event, Hash, EventSha

\* The manifest of well-typed events.
LEMMA EventHashesType == events \in SUBSET Event => EventHashes \in Manifest
  BY DEF EventHashes, Event, Manifest

-----------------------------------------------------------------------------
(* The edits of a timeline that is not frozen. *)

\* What an edit has to guarantee for the invariant.
LEMMA EditKeepsInvariant ==
    ASSUME IInv, ~frozen,
           UNCHANGED <<frozen, manifest, seen, receipts>>,
           step' \in [Clients -> {"idle", "read", "patch", "freeze", "anchor"}],
           \A c \in Clients : step'[c] = "anchor" => step[c] = "anchor",
           patching' \in [Clients -> SUBSET Event],
           PatchesMatchContent',
           events' \in SUBSET Event,
           HashesMatchContent',
           IndexesAreKeys'
    PROVE  IInv'
  BY DEF IInv, TypeOK, FrozenManifestCoversEvents, AnchorsNameManifest, ReceiptsCommitToEvents

\* Appending and duplicating insert a new event at the next index.
LEMMA InsertStep ==
    ASSUME IInv, NEW i \in 0 .. MaxIndex, NEW content \in Contents,
           NotFrozen, NextIndex(i), Insert(NewEvent(i, content)),
           UNCHANGED <<frozen, manifest, patching, seen, step, receipts>>
    PROVE  IInv'
<1> DEFINE n == NewEvent(i, content)
<1>1. /\ n \in Event
      /\ n.sha = EventSha(n.index, n.content) /\ n.index = i /\ n.id[1] = i
  BY NewEventFacts
<1> HIDE DEF n
<1>2. events' = events \cup {n}
  BY DEF Insert, n
<1>3. events' \in SUBSET Event
  BY <1>1, <1>2 DEF IInv, TypeOK
<1>4. HashesMatchContent'
  BY <1>1, <1>2 DEF IInv, HashesMatchContent
<1>5. IndexesAreKeys'
  <2>1. \A e \in events : e.index # i
    BY DEF NextIndex, IInv, TypeOK, Event
  <2> QED
    BY <1>1, <1>2, <2>1 DEF IInv, IndexesAreKeys
<1> QED
  BY <1>3, <1>4, <1>5, EditKeepsInvariant DEF IInv, TypeOK, PatchesMatchContent, NotFrozen

\* Deleting an event.
LEMMA DeleteStep == ASSUME IInv, NEW c \in Clients, DeleteEvent(c) PROVE IInv'
<1>1. events' \subseteq events
  BY DEF DeleteEvent
<1>2. events' \in SUBSET Event /\ HashesMatchContent' /\ IndexesAreKeys'
  BY <1>1 DEF IInv, TypeOK, HashesMatchContent, IndexesAreKeys
<1> QED
  BY <1>2, EditKeepsInvariant DEF DeleteEvent, IInv, TypeOK, PatchesMatchContent, NotFrozen

\* Patching with SQLite replaces an event by one with the same id and index.
LEMMA PatchStep == ASSUME IInv, NEW c \in Clients, PatchEvent(c) PROVE IInv'
<1>1. PICK e \in events, new \in Contents : events' = (events \ {e}) \cup {Patched(e, new)}
  BY DEF PatchEvent
<1> DEFINE n == Patched(e, new)
<1>2. /\ e \in Event /\ n \in Event
      /\ n.sha = EventSha(n.index, n.content) /\ n.index = e.index /\ n.id = e.id
  BY PatchedFacts DEF IInv, TypeOK
<1> HIDE DEF n
<1>3. events' = (events \ {e}) \cup {n}
  BY <1>1 DEF n
<1>4. events' \in SUBSET Event
  BY <1>2, <1>3 DEF IInv, TypeOK
<1>5. HashesMatchContent'
  BY <1>2, <1>3 DEF IInv, HashesMatchContent
<1>6. IndexesAreKeys'
  BY <1>2, <1>3 DEF IInv, IndexesAreKeys
<1> QED
  BY <1>4, <1>5, <1>6, EditKeepsInvariant
     DEF PatchEvent, IInv, TypeOK, PatchesMatchContent, NotFrozen

\* Patching with PostgreSQL writes a row that was computed earlier: its id
\* still names the index of the event it replaces.
LEMMA PatchWriteStep == ASSUME IInv, NEW c \in Clients, PatchWrite(c), ~frozen PROVE IInv'
<1>1. PICK new \in patching[c] :
        events' = {IF e.id = new.id THEN [new EXCEPT !.index = e.index] ELSE e : e \in events}
  BY DEF PatchWrite, NotFrozen
<1>2. new \in Event /\ new.sha = EventSha(new.index, new.content) /\ new.id[1] = new.index
  BY DEF IInv, TypeOK, PatchesMatchContent
<1> DEFINE row(e) == IF e.id = new.id THEN [new EXCEPT !.index = e.index] ELSE e
<1>3. \A e \in events : e \in Event /\ e.sha = EventSha(e.index, e.content) /\ e.id[1] = e.index
  BY DEF IInv, TypeOK, HashesMatchContent, IndexesAreKeys
<1>4. ASSUME NEW e \in events
      PROVE  /\ row(e) \in Event
             /\ row(e).sha = EventSha(row(e).index, row(e).content)
             /\ row(e).index = e.index /\ row(e).id = e.id
  <2>1. CASE e.id = new.id
    <3>1. new.index = e.index
      BY <2>1, <1>2, <1>3
    <3>2. row(e) = new
      BY <2>1, <3>1, <1>2 DEF Event
    <3> QED
      BY <2>1, <3>1, <3>2, <1>2
  <2>2. CASE e.id # new.id
    BY <2>2, <1>3
  <2> QED
    BY <2>1, <2>2
<1>5. events' = {row(e) : e \in events}
  BY <1>1
<1> HIDE DEF row
<1>6. events' \in SUBSET Event /\ HashesMatchContent'
  BY <1>4, <1>5 DEF HashesMatchContent
<1>7. IndexesAreKeys'
  BY <1>3, <1>4, <1>5 DEF IInv, IndexesAreKeys
<1>8. /\ patching' \in [Clients -> SUBSET Event] /\ PatchesMatchContent'
      /\ step' \in [Clients -> {"idle", "read", "patch", "freeze", "anchor"}]
      /\ \A d \in Clients : step'[d] = "anchor" => step[d] = "anchor"
  BY DEF PatchWrite, IInv, TypeOK, PatchesMatchContent
<1> QED
  BY <1>6, <1>7, <1>8, EditKeepsInvariant DEF PatchWrite

-----------------------------------------------------------------------------
(* The steps that leave the events alone. *)

\* Reading, the checks of the endpoints and the stuttering step.
LEMMA ReadSteps ==
    ASSUME IInv, NEW c \in Clients,
           \/ ReadTimeline(c) \/ FreezeCheck(c) \/ AnchorCheck(c)
           \/ PatchWrite(c) /\ frozen
    PROVE  IInv'
<1>1. UNCHANGED <<events, frozen, manifest, receipts>>
  BY DEF ReadTimeline, FreezeCheck, AnchorCheck, PatchWrite, NotFrozen, IInv, TypeOK
<1>2. TypeOK' /\ PatchesMatchContent' /\ AnchorsNameManifest'
  BY EventHashesType DEF ReadTimeline, FreezeCheck, AnchorCheck, PatchWrite, NotFrozen, IInv,
     TypeOK, PatchesMatchContent, AnchorsNameManifest
<1> QED
  BY <1>1, <1>2 DEF IInv, HashesMatchContent, IndexesAreKeys, FrozenManifestCoversEvents,
     ReceiptsCommitToEvents, EventHashes

\* A PostgreSQL patch reads an event and computes the new row.
LEMMA PatchReadStep == ASSUME IInv, NEW c \in Clients, PatchRead(c) PROVE IInv'
<1>1. PICK e \in events, new \in Contents : patching' = [patching EXCEPT ![c] = {Patched(e, new)}]
  BY DEF PatchRead
<1>2. e \in Event /\ e.id[1] = e.index
  BY DEF IInv, TypeOK, IndexesAreKeys
<1>3. patching' \in [Clients -> SUBSET Event] /\ PatchesMatchContent'
  BY <1>1, <1>2, PatchedFacts DEF IInv, TypeOK, PatchesMatchContent
<1> QED
  BY <1>3 DEF PatchRead, IInv, TypeOK, HashesMatchContent, IndexesAreKeys, AnchorsNameManifest,
     FrozenManifestCoversEvents, ReceiptsCommitToEvents, EventHashes

\* Freezing pins the manifest of the events, once.
LEMMA FreezeStep == ASSUME IInv, NEW c \in Clients, Freeze(c) PROVE IInv'
<1>1. /\ UNCHANGED <<events, patching, seen, receipts>>
      /\ step' \in [Clients -> {"idle", "read", "patch", "freeze", "anchor"}]
      /\ \A d \in Clients : step'[d] = "anchor" => step[d] = "anchor"
  BY DEF Freeze, IInv, TypeOK
<1>2. \/ UNCHANGED <<frozen, manifest>>
      \/ ~frozen /\ frozen' = TRUE /\ manifest' = EventHashes
  BY DEF Freeze, ManifestMatches
<1>3. EventHashes \in Manifest
  BY EventHashesType DEF IInv, TypeOK
<1>4. TypeOK' /\ HashesMatchContent' /\ PatchesMatchContent' /\ IndexesAreKeys'
  BY <1>1, <1>2, <1>3 DEF IInv, TypeOK, HashesMatchContent, PatchesMatchContent, IndexesAreKeys
<1>5. EventHashes' = EventHashes
  BY <1>1 DEF EventHashes
<1>6. FrozenManifestCoversEvents'
  BY <1>2, <1>5 DEF IInv, FrozenManifestCoversEvents
<1>7. AnchorsNameManifest'
  BY <1>1, <1>2 DEF IInv, AnchorsNameManifest
<1>8. ReceiptsCommitToEvents'
  BY <1>1, <1>2, <1>5 DEF IInv, ReceiptsCommitToEvents
<1> QED
  BY <1>4, <1>6, <1>7, <1>8 DEF IInv

\* A receipt commits to the manifest its request was checked against.
LEMMA CreateReceiptStep == ASSUME IInv, NEW c \in Clients, CreateReceipt(c) PROVE IInv'
<1>1. frozen /\ seen[c] = EventHashes
  BY DEF CreateReceipt, IInv, AnchorsNameManifest, FrozenManifestCoversEvents
<1>2. receipts' = receipts \cup {seen[c]}
  BY DEF CreateReceipt
<1>3. ReceiptsCommitToEvents'
  BY <1>1, <1>2 DEF CreateReceipt, IInv, ReceiptsCommitToEvents, EventHashes
<1>4. TypeOK'
  BY <1>2 DEF CreateReceipt, IInv, TypeOK
<1> QED
  BY <1>3, <1>4 DEF CreateReceipt, IInv, TypeOK, HashesMatchContent, PatchesMatchContent,
     IndexesAreKeys, AnchorsNameManifest, FrozenManifestCoversEvents, EventHashes

-----------------------------------------------------------------------------
(* The theorems. *)

\* The initial state satisfies the inductive invariant.
LEMMA InvariantInit == Init => IInv
  BY DEF Init, IInv, TypeOK, Manifest, HashesMatchContent, PatchesMatchContent, IndexesAreKeys,
     AnchorsNameManifest, FrozenManifestCoversEvents, ReceiptsCommitToEvents

\* Every step keeps it.
LEMMA InvariantStep == IInv /\ [Next]_vars => IInv'
<1> SUFFICES ASSUME IInv, [Next]_vars PROVE IInv'
  OBVIOUS
<1>1. CASE UNCHANGED vars
  BY <1>1 DEF vars, IInv, TypeOK, HashesMatchContent, PatchesMatchContent, IndexesAreKeys,
     AnchorsNameManifest, FrozenManifestCoversEvents, ReceiptsCommitToEvents, EventHashes
<1>2. ASSUME NEW c \in Clients, AppendEvent(c) PROVE IInv'
  BY <1>2, InsertStep DEF AppendEvent
<1>3. ASSUME NEW c \in Clients, DuplicateEvent(c) PROVE IInv'
  <2>1. PICK i \in 0 .. MaxIndex, e \in events : NextIndex(i) /\ Insert(NewEvent(i, e.content))
    BY <1>3 DEF DuplicateEvent
  <2>2. e.content \in Contents
    BY DEF IInv, TypeOK, Event
  <2> QED
    BY <1>3, <2>1, <2>2, InsertStep DEF DuplicateEvent
<1>4. ASSUME NEW c \in Clients, DeleteEvent(c) \/ PatchEvent(c) \/ PatchRead(c) PROVE IInv'
  BY <1>4, DeleteStep, PatchStep, PatchReadStep
<1>5. ASSUME NEW c \in Clients, PatchWrite(c) PROVE IInv'
  BY <1>5, PatchWriteStep, ReadSteps
<1>6. ASSUME NEW c \in Clients, ReadTimeline(c) \/ FreezeCheck(c) \/ AnchorCheck(c) PROVE IInv'
  BY <1>6, ReadSteps
<1>7. ASSUME NEW c \in Clients, Freeze(c) \/ CreateReceipt(c) PROVE IInv'
  BY <1>7, FreezeStep, CreateReceiptStep
<1> QED
  BY <1>1, <1>2, <1>3, <1>4, <1>5, <1>6, <1>7 DEF Next

\* The inductive invariant holds in every reachable state.
LEMMA Invariance == Spec => []IInv
  BY InvariantInit, InvariantStep, PTL DEF Spec

\* Every reachable state has its types.
THEOREM TypeCorrect == Spec => []TypeOK
<1>1. IInv => TypeOK
  BY DEF IInv
<1> QED
  BY <1>1, Invariance, PTL

\* Whatever edits race with the freeze, the frozen manifest is that of the
\* events, and every receipt commits to them.
THEOREM ManifestCoversEvents == Spec => [](FrozenManifestCoversEvents /\ ReceiptsCommitToEvents)
<1>1. IInv => FrozenManifestCoversEvents /\ ReceiptsCommitToEvents
  BY DEF IInv
<1> QED
  BY <1>1, Invariance, PTL

\* The stored hash of every event is that of its index and content.
THEOREM HashesAreCurrent == Spec => []HashesMatchContent
<1>1. IInv => HashesMatchContent
  BY DEF IInv
<1> QED
  BY <1>1, Invariance, PTL

\* Ids name indexes, indexes are keys, and a new event never meets an id in use.
THEOREM IdsAreUnique == Spec => []IdsNameIndexes
<1>1. IInv => IdsNameIndexes
  <2> SUFFICES ASSUME IInv PROVE IdsNameIndexes
    OBVIOUS
  <2>1. ASSUME NEW i \in 0 .. MaxIndex, NEW content \in Contents, NextIndex(i), NEW e \in events
        PROVE  e.id # EventSha(i, content)
    <3>1. e.id[1] = e.index /\ e.index < i /\ e.index \in Nat
      BY <2>1 DEF IInv, IndexesAreKeys, NextIndex, TypeOK, Event
    <3>2. e.index # i
      BY <3>1
    <3> QED
      BY <3>1, <3>2 DEF EventSha
  <2> QED
    BY <2>1 DEF IInv, IndexesAreKeys, IdsNameIndexes
<1> QED
  BY <1>1, Invariance, PTL

\* Nothing about a frozen timeline ever changes.
THEOREM FrozenForGood == Spec => FrozenIsFinal
<1>1. TypeOK /\ [Next]_vars
        => [frozen => UNCHANGED <<events, frozen, manifest>>]_<<events, frozen, manifest>>
  <2> SUFFICES ASSUME TypeOK, [Next]_vars, frozen PROVE UNCHANGED <<events, frozen, manifest>>
    OBVIOUS
  <2>1. CASE UNCHANGED vars
    BY <2>1 DEF vars
  <2>2. ASSUME NEW c \in Clients,
               \/ AppendEvent(c) \/ DuplicateEvent(c) \/ DeleteEvent(c) \/ PatchEvent(c)
        PROVE  FALSE
    BY <2>2 DEF AppendEvent, DuplicateEvent, DeleteEvent, PatchEvent, NotFrozen
  <2>3. ASSUME NEW c \in Clients,
               \/ PatchRead(c) \/ PatchWrite(c) \/ ReadTimeline(c) \/ FreezeCheck(c)
               \/ Freeze(c) \/ AnchorCheck(c) \/ CreateReceipt(c)
        PROVE  UNCHANGED <<events, frozen, manifest>>
    BY <2>3 DEF PatchRead, PatchWrite, ReadTimeline, FreezeCheck, Freeze, AnchorCheck,
       CreateReceipt, NotFrozen
  <2> QED
    BY <2>1, <2>2, <2>3 DEF Next
<1> QED
  BY <1>1, TypeCorrect, PTL DEF Spec, FrozenIsFinal

-----------------------------------------------------------------------------
(* The public feed.                                                           *)

FeedBusy == {"submit", "mark_done", "read_attempts", "mark_failed"}

\* A stale claim is still processing; event and job exist together; a worker
\* has one job while it is busy with it, and no longer among its claims.
FeedWorkerOk(w) ==
    /\ pc[w] \in FeedBusy <=> job[w] # {}
    /\ \A d, e \in job[w] : d = e
    /\ job[w] \cap claimed[w] = {}
    /\ pc[w] \in {"idle", "claim"} => claimed[w] = {}

FeedTypes ==
    /\ FeedTypeOK
    /\ \A w \in Workers : FeedWorkerOk(w)

FeedRowOk(e) ==
    /\ e \in stale => jobs[e].status = "processing"
    /\ feed_events[e].status = "missing" <=> jobs[e].status = "missing"

FeedInv == FeedTypes /\ EventFollowsJob /\ \A e \in Events : FeedRowOk(e)

\* Worker w has had its broadcast of e and has not recorded the outcome.
FeedSpent(e) == \E w \in Workers : e \in job[w] /\ pc[w] \in FeedBusy \ {"submit"}

\* A claim that does not outlast its owner is held by one worker, for a job
\* that is processing and not stale, and the attempts it read are still those
\* of the job.
FeedClaimOk(e) ==
    /\ \A w \in Workers : e \in claimed[w] \cup job[w] =>
            /\ jobs[e].status = "processing" /\ e \notin stale
            /\ pc[w] = "mark_failed" /\ e \in job[w] => read[w] = jobs[e].attempts + 1
            /\ \A v \in Workers : e \in claimed[v] \cup job[v] => v = w
    /\ jobs[e].status = "failed" <=> jobs[e].attempts >= MaxAttempts
    /\ sent[e] <= jobs[e].attempts + crashes
                    + (IF jobs[e].status = "done" \/ FeedSpent(e) THEN 1 ELSE 0)

FeedClaims == \A e \in Events \ Slow : FeedClaimOk(e)

\* The outcomes a worker records: both rows of its job are written, and the
\* claim is over.
LEMMA FeedOutcome ==
  ASSUME FeedTypes, NEW w \in Workers, MarkDone(w) \/ MarkFailed(w)
  PROVE  \E e \in Events :
            /\ job[w] = {e} /\ job' = [job EXCEPT ![w] = {}] /\ pc' = [pc EXCEPT ![w] = "next"]
            /\ read' = [read EXCEPT ![w] = 0] /\ stale' = stale \ {e}
            /\ UNCHANGED <<overtaken, sent, claimed, crashes>>
            /\ jobs' \in [Events -> JobRow] /\ feed_events' \in [Events -> EventRow]
            /\ \A d \in Events \ {e} : jobs'[d] = jobs[d] /\ feed_events'[d] = feed_events[d]
            /\ feed_events'[e].attempts = IF pc[w] = "mark_done" THEN feed_events[e].attempts ELSE read[w]
            /\ jobs'[e].attempts = IF pc[w] = "mark_done" THEN jobs[e].attempts ELSE read[w]
            /\ \/ pc[w] = "mark_done" /\ jobs'[e].status = "done" /\ feed_events'[e].status = "anchored"
               \/ /\ pc[w] = "mark_failed"
                  /\ jobs'[e].status = Outcome(read[w]) /\ feed_events'[e].status = Outcome(read[w])
<1> USE DEF FeedTypes, FeedTypeOK
<1>0. PICK e \in Events : job[w] = {e}
  BY DEF FeedWorkerOk, FeedBusy, MarkDone, MarkFailed
<1>1. jobs[e] \in JobRow /\ feed_events[e] \in EventRow /\ read[w] \in Nat
  OBVIOUS
<1>2. CASE MarkDone(w)
  <2>1. /\ jobs' = [jobs EXCEPT ![e] = DoneJob(jobs[e])]
        /\ feed_events' = [feed_events EXCEPT ![e] = AnchoredEvent(feed_events[e], read[w])]
    BY <1>0, <1>2 DEF MarkDone
  <2>2. /\ DoneJob(jobs[e]) \in JobRow /\ DoneJob(jobs[e]).status = "done"
        /\ DoneJob(jobs[e]).attempts = jobs[e].attempts
    BY <1>1 DEF DoneJob, JobRow, JobStatuses
  <2>3. /\ AnchoredEvent(feed_events[e], read[w]) \in EventRow
        /\ AnchoredEvent(feed_events[e], read[w]).status = "anchored"
        /\ AnchoredEvent(feed_events[e], read[w]).attempts = feed_events[e].attempts
    BY <1>1 DEF AnchoredEvent, EventRow, EventStatuses
  <2> QED
    BY <1>0, <1>2, <2>1, <2>2, <2>3 DEF MarkDone
<1>3. CASE MarkFailed(w)
  <2>1. PICK o \in {"failed", "queued"} : o = Outcome(read[w])
    BY DEF Outcome
  <2>2. PICK new : new = [status |-> o, attempts |-> read[w]]
    OBVIOUS
  <2>3. PICK row : row = [feed_events[e] EXCEPT !.status = o, !.attempts = read[w]]
    OBVIOUS
  <2>4. /\ jobs' = [jobs EXCEPT ![e] = new]
        /\ feed_events' = [feed_events EXCEPT ![e] = row]
    <3>1. \E d \in job[w] :
            /\ jobs' = [jobs EXCEPT ![d] = [status |-> o, attempts |-> read[w]]]
            /\ feed_events' = [feed_events EXCEPT ![d].status = o, ![d].attempts = read[w]]
      BY <1>3, <2>1 DEF MarkFailed
    <3>2. /\ jobs' = [jobs EXCEPT ![e] = [status |-> o, attempts |-> read[w]]]
          /\ feed_events' = [feed_events EXCEPT ![e].status = o, ![e].attempts = read[w]]
      BY <1>0, <3>1
    <3>3. PICK first : first = [feed_events[e] EXCEPT !.status = o]
      OBVIOUS
    <3>4. row = [first EXCEPT !.attempts = read[w]]
      BY <1>1, <2>3, <3>3 DEF EventRow
    <3>5. PICK table : table = [feed_events EXCEPT ![e] = first]
      OBVIOUS
    <3>6. feed_events' = [table EXCEPT ![e].attempts = read[w]]
      BY <3>2, <3>3, <3>5
    <3>7. feed_events' = [feed_events EXCEPT ![e] = row]
      BY <3>4, <3>5, <3>6
    <3> QED
      BY <2>2, <3>2, <3>7
  <2>5. new \in JobRow /\ new.status = o /\ new.attempts = read[w]
    BY <1>1, <2>2 DEF JobRow, JobStatuses
  <2>6. row \in EventRow /\ row.status = o /\ row.attempts = read[w]
    BY <1>1, <2>3 DEF EventRow, EventStatuses
  <2> QED
    BY <1>0, <1>3, <2>1, <2>4, <2>5, <2>6 DEF MarkFailed
<1> QED
  BY <1>2, <1>3

\* The broadcast of the job in hand.
LEMMA FeedBroadcast ==
  ASSUME FeedTypes, NEW w \in Workers, SubmitReturns(w) \/ SubmitRaises(w)
  PROVE  \E e \in Events :
            /\ job[w] = {e} /\ pc[w] = "submit"
            /\ UNCHANGED <<feed_events, jobs, stale, overtaken, claimed, job, crashes>>
            /\ sent' = sent \/ sent' = [sent EXCEPT ![e] = @ + 1]
            /\ \/ pc' = [pc EXCEPT ![w] = "mark_done"]
               \/ pc' = [pc EXCEPT ![w] = "read_attempts"]
            /\ \E t \in Nat : read' = [read EXCEPT ![w] = t]
<1> USE DEF FeedTypes, FeedTypeOK
<1>1. PICK e \in Events : job[w] = {e}
  BY DEF FeedWorkerOk, FeedBusy, SubmitReturns, SubmitRaises
<1>2. CASE SubmitReturns(w)
  <2>1. sent[e] + 1 \in Nat
    OBVIOUS
  <2>2. read' = [read EXCEPT ![w] = sent[e] + 1] /\ sent' = [sent EXCEPT ![e] = @ + 1]
    BY <1>1, <1>2 DEF SubmitReturns
  <2> QED
    BY <1>1, <1>2, <2>1, <2>2 DEF SubmitReturns
<1>3. CASE SubmitRaises(w)
  <2>1. read[w] \in Nat /\ read' = [read EXCEPT ![w] = read[w]]
    BY <1>3 DEF SubmitRaises
  <2> QED
    BY <1>1, <1>3, <2>1 DEF SubmitRaises
<1> QED
  BY <1>2, <1>3

\* What a claim and a recovery do to the rows.
LEMMA FeedClaimed ==
  ASSUME FeedTypeOK, NEW B \in SUBSET Events
  PROVE  /\ ClaimedJobs(B) \in [Events -> JobRow] /\ ClaimedEvents(B) \in [Events -> EventRow]
         /\ \A e \in Events :
              /\ ClaimedJobs(B)[e].attempts = jobs[e].attempts
              /\ ClaimedEvents(B)[e].attempts = feed_events[e].attempts
              /\ e \notin B => ClaimedJobs(B)[e] = jobs[e] /\ ClaimedEvents(B)[e] = feed_events[e]
              /\ e \in B => ClaimedJobs(B)[e].status = "processing"
              /\ feed_events[e].status \in {"pending", "queued", "failed"} /\ e \in B
                   => ClaimedEvents(B)[e].status = "queued"
              /\ feed_events[e].status \notin {"pending", "queued", "failed"}
                   => ClaimedEvents(B)[e] = feed_events[e]
<1> USE DEF FeedTypeOK
<1>1. ASSUME NEW e \in Events
      PROVE  /\ [jobs[e] EXCEPT !.status = "processing"] \in JobRow
             /\ [jobs[e] EXCEPT !.status = "processing"].status = "processing"
             /\ [jobs[e] EXCEPT !.status = "processing"].attempts = jobs[e].attempts
  BY DEF JobRow, JobStatuses
<1>2. ASSUME NEW e \in Events
      PROVE  /\ [feed_events[e] EXCEPT !.status = "queued"] \in EventRow
             /\ [feed_events[e] EXCEPT !.status = "queued"].status = "queued"
             /\ [feed_events[e] EXCEPT !.status = "queued"].attempts = feed_events[e].attempts
  BY DEF EventRow, EventStatuses
<1>3. \A e \in Events : jobs[e] \in JobRow /\ feed_events[e] \in EventRow
  OBVIOUS
<1>4. ClaimedJobs(B) \in [Events -> JobRow]
  BY <1>1, <1>3 DEF ClaimedJobs
<1>5. ClaimedEvents(B) \in [Events -> EventRow]
  BY <1>2, <1>3 DEF ClaimedEvents
<1>6. \A e \in Events : /\ ClaimedJobs(B)[e].attempts = jobs[e].attempts
                        /\ e \notin B => ClaimedJobs(B)[e] = jobs[e]
                        /\ e \in B => ClaimedJobs(B)[e].status = "processing"
  BY <1>1 DEF ClaimedJobs
<1>7. \A e \in Events :
        /\ ClaimedEvents(B)[e].attempts = feed_events[e].attempts
        /\ e \notin B => ClaimedEvents(B)[e] = feed_events[e]
        /\ feed_events[e].status \in {"pending", "queued", "failed"} /\ e \in B
             => ClaimedEvents(B)[e].status = "queued"
        /\ feed_events[e].status \notin {"pending", "queued", "failed"}
             => ClaimedEvents(B)[e] = feed_events[e]
  BY <1>2 DEF ClaimedEvents
<1> QED
  BY <1>4, <1>5, <1>6, <1>7

\* What the recovery of stale jobs leaves of a row.
LEMMA FeedRecovered ==
  ASSUME FeedTypeOK
  PROVE  /\ Recovered \in [Events -> JobRow]
         /\ \A e \in Events : /\ Recovered[e].attempts = jobs[e].attempts
                              /\ e \notin stale => Recovered[e] = jobs[e]
                              /\ e \in stale => Recovered[e].status = "queued"
<1>1. ASSUME NEW e \in Events
      PROVE  /\ jobs[e] \in JobRow /\ [jobs[e] EXCEPT !.status = "queued"] \in JobRow
             /\ [jobs[e] EXCEPT !.status = "queued"].status = "queued"
             /\ [jobs[e] EXCEPT !.status = "queued"].attempts = jobs[e].attempts
  BY DEF FeedTypeOK, JobRow, JobStatuses
<1> QED
  BY <1>1 DEF Recovered

\* Types and what workers hold are preserved.
LEMMA FeedTypesStep ==
  ASSUME FeedTypes, [FeedNext]_feedVars
  PROVE  FeedTypes'
<1> USE DEF FeedTypes, FeedTypeOK
<1>1. ASSUME FeedTypeOK', NEW w \in Workers, FeedWorkerOk(w)',
             \A v \in Workers \ {w} : pc'[v] = pc[v] /\ job'[v] = job[v] /\ claimed'[v] = claimed[v]
      PROVE  FeedTypes'
  BY <1>1 DEF FeedWorkerOk
<1>2. ASSUME NEW e \in Events, InsertEvent(e) \/ Age(e)
      PROVE  FeedTypes'
  <2>1. UNCHANGED <<pc, claimed, job, read, crashes, sent>>
    BY <1>2 DEF InsertEvent, Age
  <2>2. InsertEvent(e) => FeedTypeOK'
    BY <2>1 DEF InsertEvent, EventRow, JobRow, EventStatuses, JobStatuses
  <2>3. Age(e) => FeedTypeOK'
    BY <2>1 DEF Age
  <2> QED
    BY <1>2, <2>1, <2>2, <2>3 DEF FeedWorkerOk
<1>3. ASSUME NEW w \in Workers, StartCycle(w)
      PROVE  FeedTypes'
  <2>1. FeedTypeOK'
    BY <1>3, FeedRecovered DEF StartCycle, PCs
  <2> QED
    BY <1>1, <1>3, <2>1 DEF StartCycle, FeedWorkerOk, FeedBusy
<1>4. ASSUME NEW w \in Workers, Claim(w)
      PROVE  FeedTypes'
  <2>1. PICK batch \in SUBSET Queued :
           jobs' = ClaimedJobs(batch) /\ feed_events' = ClaimedEvents(batch)
             /\ claimed' = [claimed EXCEPT ![w] = batch]
    BY <1>4 DEF Claim
  <2>2. batch \in SUBSET Events
    BY DEF Queued
  <2>3. /\ pc' = [pc EXCEPT ![w] = "next"] /\ pc[w] = "claim"
        /\ UNCHANGED <<stale, overtaken, sent, job, read, crashes>>
    BY <1>4 DEF Claim
  <2>4. FeedTypeOK'
    BY <2>1, <2>2, <2>3, FeedClaimed DEF PCs
  <2>5. FeedWorkerOk(w)'
    BY <2>1, <2>2, <2>3 DEF FeedWorkerOk, FeedBusy
  <2> QED
    BY <1>1, <2>1, <2>3, <2>4, <2>5
<1>5. ASSUME NEW w \in Workers, NextJob(w)
      PROVE  FeedTypes'
  <2>1. FeedTypeOK'
    BY <1>5 DEF NextJob, tables, PCs
  <2>2. FeedWorkerOk(w)'
    BY <1>5 DEF NextJob, FeedWorkerOk, FeedBusy
  <2> QED
    BY <1>1, <1>5, <2>1, <2>2 DEF NextJob
<1>6. ASSUME NEW w \in Workers, EndCycle(w) \/ MarkDoneRaises(w) \/ Crash(w)
      PROVE  FeedTypes'
  <2>1. FeedTypeOK'
    BY <1>6 DEF EndCycle, MarkDoneRaises, Crash, tables, PCs
  <2>2. FeedWorkerOk(w)'
    BY <1>6 DEF EndCycle, MarkDoneRaises, Crash, FeedWorkerOk, FeedBusy
  <2> QED
    BY <1>1, <1>6, <2>1, <2>2 DEF EndCycle, MarkDoneRaises, Crash
<1>7. ASSUME NEW w \in Workers, ReadAttempts(w)
      PROVE  FeedTypes'
  <2>1. PICK e \in Events : job[w] = {e} /\ read' = [read EXCEPT ![w] = jobs[e].attempts + 1]
    <3>1. PICK e \in job[w] : read' = [read EXCEPT ![w] = jobs[e].attempts + 1]
      BY <1>7 DEF ReadAttempts
    <3>2. e \in Events /\ job[w] = {e}
      BY DEF FeedWorkerOk
    <3> QED
      BY <3>1, <3>2
  <2>2. jobs[e].attempts + 1 \in Nat
    BY DEF JobRow
  <2>3. FeedTypeOK'
    BY <1>7, <2>1, <2>2 DEF ReadAttempts, tables, PCs
  <2>4. FeedWorkerOk(w)'
    BY <1>7 DEF ReadAttempts, FeedWorkerOk, FeedBusy
  <2> QED
    BY <1>1, <1>7, <2>3, <2>4 DEF ReadAttempts
<1>8. ASSUME NEW w \in Workers, SubmitReturns(w) \/ SubmitRaises(w)
      PROVE  FeedTypes'
  <2>1. PICK e \in Events :
            /\ job[w] = {e} /\ pc[w] = "submit"
            /\ UNCHANGED <<feed_events, jobs, stale, overtaken, claimed, job, crashes>>
            /\ sent' = sent \/ sent' = [sent EXCEPT ![e] = @ + 1]
            /\ pc' = [pc EXCEPT ![w] = "mark_done"] \/ pc' = [pc EXCEPT ![w] = "read_attempts"]
            /\ \E t \in Nat : read' = [read EXCEPT ![w] = t]
    BY <1>8, FeedBroadcast
  <2>2. sent' \in [Events -> Nat] /\ read' \in [Workers -> Nat] /\ pc' \in [Workers -> PCs]
    BY <2>1 DEF PCs
  <2>3. FeedTypeOK'
    BY <2>1, <2>2
  <2>4. FeedWorkerOk(w)'
    BY <2>1 DEF FeedWorkerOk, FeedBusy
  <2> QED
    BY <1>1, <2>1, <2>3, <2>4
<1>9. ASSUME NEW w \in Workers, MarkDone(w) \/ MarkFailed(w)
      PROVE  FeedTypes'
  <2>1. PICK e \in Events :
            /\ job' = [job EXCEPT ![w] = {}] /\ pc' = [pc EXCEPT ![w] = "next"]
            /\ read' = [read EXCEPT ![w] = 0] /\ stale' = stale \ {e}
            /\ UNCHANGED <<overtaken, sent, claimed, crashes>>
            /\ jobs' \in [Events -> JobRow] /\ feed_events' \in [Events -> EventRow]
    BY <1>9, FeedOutcome
  <2>2. FeedTypeOK'
    BY <2>1 DEF PCs
  <2>3. FeedWorkerOk(w)'
    BY <2>1 DEF FeedWorkerOk, FeedBusy
  <2> QED
    BY <1>1, <2>1, <2>2, <2>3
<1>10. CASE UNCHANGED feedVars
  BY <1>10 DEF feedVars, FeedWorkerOk
<1> QED
  BY <1>2, <1>3, <1>4, <1>5, <1>6, <1>7, <1>8, <1>9, <1>10 DEF FeedNext, Cycle

\* Event and job of one id.
FeedAgrees(e) ==
    /\ feed_events[e].status = "anchored" <=> jobs[e].status = "done"
    /\ feed_events[e].status = "failed" <=> jobs[e].status = "failed"
    /\ jobs[e].status = "processing" => feed_events[e].status = "queued"
    /\ feed_events[e].attempts = jobs[e].attempts

\* Steps that leave both rows alone.
LEMMA FeedRowsFrame ==
  ASSUME FeedInv, feed_events' = feed_events, jobs' = jobs,
         \A e \in Events : e \in stale' => jobs[e].status = "processing"
  PROVE  \A e \in Events : FeedAgrees(e)' /\ FeedRowOk(e)'
  BY DEF FeedInv, EventFollowsJob, FeedAgrees, FeedRowOk

\* Every step keeps event and job together, recovered claims included.
LEMMA FeedRows ==
  ASSUME FeedInv, [FeedNext]_feedVars
  PROVE  \A e \in Events : FeedAgrees(e)' /\ FeedRowOk(e)'
<1> USE DEF FeedInv, FeedTypes, FeedTypeOK
<1>0. \A e \in Events : FeedAgrees(e) /\ FeedRowOk(e)
  BY DEF EventFollowsJob, FeedAgrees
<1>1. ASSUME NEW e \in Events, InsertEvent(e)
      PROVE  \A d \in Events : FeedAgrees(d)' /\ FeedRowOk(d)'
  <2>1. /\ \A d \in Events \ {e} : jobs'[d] = jobs[d] /\ feed_events'[d] = feed_events[d]
        /\ feed_events[e].status = "missing" /\ jobs'[e].status = "queued" /\ feed_events'[e].status = "pending"
        /\ jobs'[e].attempts = jobs[e].attempts /\ feed_events'[e].attempts = feed_events[e].attempts
        /\ stale' = stale
    BY <1>1 DEF InsertEvent, JobRow, EventRow
  <2>2. jobs[e].status = "missing"
    BY <1>0, <2>1 DEF FeedRowOk
  <2> QED
    BY <1>0, <2>1, <2>2 DEF FeedAgrees, FeedRowOk
<1>2. ASSUME NEW w \in Workers, StartCycle(w)
      PROVE  \A e \in Events : FeedAgrees(e)' /\ FeedRowOk(e)'
  <2>1. feed_events' = feed_events /\ stale' = {} /\ jobs' = Recovered
    BY <1>2 DEF StartCycle
  <2>2. ASSUME NEW e \in Events
        PROVE  FeedAgrees(e)' /\ FeedRowOk(e)'
    <3>1. CASE e \in stale
      <4>1. jobs[e].status = "processing" /\ jobs'[e].status = "queued"
            /\ jobs'[e].attempts = jobs[e].attempts
        BY <1>0, <2>1, <3>1, FeedRecovered DEF FeedRowOk
      <4> QED
        BY <1>0, <2>1, <4>1 DEF FeedAgrees, FeedRowOk
    <3>2. CASE e \notin stale
      <4>1. jobs'[e] = jobs[e]
        BY <2>1, <3>2, FeedRecovered
      <4> QED
        BY <1>0, <2>1, <4>1 DEF FeedAgrees, FeedRowOk
    <3> QED
      BY <3>1, <3>2
  <2> QED
    BY <2>2
<1>3. ASSUME NEW w \in Workers, Claim(w)
      PROVE  \A e \in Events : FeedAgrees(e)' /\ FeedRowOk(e)'
  <2>1. PICK batch \in SUBSET Queued :
           jobs' = ClaimedJobs(batch) /\ feed_events' = ClaimedEvents(batch) /\ stale' = stale
    BY <1>3 DEF Claim
  <2>2. batch \in SUBSET Events /\ \A e \in batch : jobs[e].status = "queued"
    BY DEF Queued
  <2>3. ASSUME NEW e \in Events
        PROVE  FeedAgrees(e)' /\ FeedRowOk(e)'
    <3>1. CASE e \in batch
      <4>1. feed_events[e].status \in {"pending", "queued", "failed"}
        BY <1>0, <2>2, <3>1 DEF FeedAgrees, FeedRowOk, EventRow, EventStatuses
      <4>2. /\ jobs'[e].status = "processing" /\ jobs'[e].attempts = jobs[e].attempts
            /\ feed_events'[e].status = "queued" /\ feed_events'[e].attempts = feed_events[e].attempts
        BY <2>1, <2>2, <3>1, <4>1, FeedClaimed
      <4> QED
        BY <1>0, <2>1, <4>2 DEF FeedAgrees, FeedRowOk
    <3>2. CASE e \notin batch
      <4>1. jobs'[e] = jobs[e] /\ feed_events'[e] = feed_events[e]
        BY <2>1, <2>2, <3>2, FeedClaimed
      <4> QED
        BY <1>0, <2>1, <4>1 DEF FeedAgrees, FeedRowOk
    <3> QED
      BY <3>1, <3>2
  <2> QED
    BY <2>3
<1>4. ASSUME NEW w \in Workers, MarkDone(w) \/ MarkFailed(w)
      PROVE  \A d \in Events : FeedAgrees(d)' /\ FeedRowOk(d)'
  <2>1. PICK e \in Events :
            /\ stale' = stale \ {e}
            /\ \A d \in Events \ {e} : jobs'[d] = jobs[d] /\ feed_events'[d] = feed_events[d]
            /\ feed_events'[e].attempts = IF pc[w] = "mark_done" THEN feed_events[e].attempts ELSE read[w]
            /\ jobs'[e].attempts = IF pc[w] = "mark_done" THEN jobs[e].attempts ELSE read[w]
            /\ \/ pc[w] = "mark_done" /\ jobs'[e].status = "done" /\ feed_events'[e].status = "anchored"
               \/ jobs'[e].status = Outcome(read[w]) /\ feed_events'[e].status = Outcome(read[w])
    BY <1>4, FeedOutcome
  <2>2. jobs'[e].attempts = feed_events'[e].attempts
    BY <1>0, <2>1 DEF FeedAgrees
  <2> QED
    BY <1>0, <2>1, <2>2 DEF FeedAgrees, FeedRowOk, Outcome
<1>5. ASSUME \/ \E e \in Events : Age(e)
             \/ \E w \in Workers : \/ NextJob(w) \/ EndCycle(w) \/ SubmitReturns(w)
                     \/ SubmitRaises(w)
                                   \/ MarkDoneRaises(w) \/ ReadAttempts(w) \/ Crash(w)
             \/ UNCHANGED feedVars
      PROVE  \A e \in Events : FeedAgrees(e)' /\ FeedRowOk(e)'
  <2>1. feed_events' = feed_events /\ jobs' = jobs
    BY <1>5 DEF Age, NextJob, EndCycle, SubmitReturns, SubmitRaises,
            MarkDoneRaises, ReadAttempts,
       Crash, tables, feedVars
  <2>2. \A e \in Events : e \in stale' => jobs[e].status = "processing"
    BY <1>0, <1>5 DEF FeedRowOk, Age, NextJob, EndCycle, SubmitReturns,
            SubmitRaises, MarkDoneRaises,
       ReadAttempts, Crash, tables, feedVars
  <2> QED
    BY <2>1, <2>2, FeedRowsFrame
<1> QED
  BY <1>1, <1>2, <1>3, <1>4, <1>5 DEF FeedNext, Cycle

\* Initially the tables are empty and nobody works.
LEMMA FeedInitially ==
  FeedInit => FeedInv /\ FeedClaims
<1> SUFFICES ASSUME FeedInit PROVE FeedInv /\ FeedClaims
  OBVIOUS
<1>1. FeedTypes
  BY DEF FeedInit, FeedTypes, FeedTypeOK, FeedWorkerOk, FeedBusy, EventRow, JobRow,
          EventStatuses, JobStatuses,
     PCs, NoTx
<1>2. FeedInv
  BY <1>1 DEF FeedInit, FeedInv, EventFollowsJob, FeedRowOk
<1>3. FeedClaims
  BY FeedConstants DEF FeedInit, FeedClaims, FeedClaimOk, FeedSpent
<1> QED
  BY <1>2, <1>3

\* The rows of feed_events and jobs agree in every reachable state.
LEMMA FeedInvStep == FeedInv /\ [FeedNext]_feedVars => FeedInv'
<1> SUFFICES ASSUME FeedInv, [FeedNext]_feedVars PROVE FeedInv'
  OBVIOUS
<1>1. FeedTypes'
  BY FeedTypesStep DEF FeedInv
<1>2. \A e \in Events : FeedAgrees(e)' /\ FeedRowOk(e)'
  BY FeedRows
<1> QED
  BY <1>1, <1>2 DEF FeedInv, FeedAgrees, EventFollowsJob

\* What the public feed shows of an event follows its job, even when a claim
\* is recovered while its first owner still runs.
THEOREM FeedEventsFollowJobs == FeedSpec => []EventFollowsJob
<1>1. FeedInv => EventFollowsJob
  BY DEF FeedInv
<1> QED
  BY <1>1, FeedInitially, FeedInvStep, PTL DEF FeedSpec

Holds(w, e) == e \in claimed[w] \cup job[w]

\* A step that leaves the row of e alone and gives e to no further worker.
LEMMA FeedClaimFrame ==
  ASSUME NEW e \in Events, FeedTypes, FeedTypes', FeedClaimOk(e),
         jobs'[e] = jobs[e], sent'[e] = sent[e], crashes' = crashes,
         \A w \in Workers : Holds(w, e)' => Holds(w, e) /\ e \notin stale',
         \A w \in Workers : pc'[w] = "mark_failed" /\ e \in job'[w]
                              => read'[w] = jobs[e].attempts + 1,
         FeedSpent(e) => FeedSpent(e)'
  PROVE  FeedClaimOk(e)'
<1>1. jobs[e].attempts \in Nat /\ crashes \in Nat /\ sent[e] \in Nat
  BY DEF FeedTypes, FeedTypeOK, JobRow
<1>2. sent'[e] <= jobs'[e].attempts + crashes'
                    + (IF jobs'[e].status = "done" \/ FeedSpent(e)' THEN 1 ELSE 0)
  BY <1>1 DEF FeedClaimOk
<1>3. \A w \in Workers : Holds(w, e)' =>
        /\ jobs'[e].status = "processing" /\ e \notin stale'
        /\ pc'[w] = "mark_failed" /\ e \in job'[w] => read'[w] = jobs'[e].attempts + 1
        /\ \A v \in Workers : Holds(v, e)' => v = w
  BY DEF FeedClaimOk, Holds
<1>4. jobs'[e].status = "failed" <=> jobs'[e].attempts >= MaxAttempts
  BY DEF FeedClaimOk
<1> QED
  BY <1>2, <1>3, <1>4 DEF FeedClaimOk, Holds

\* A broadcast by the owner of the claim.
LEMMA FeedClaimBroadcast ==
  ASSUME NEW e \in Events, FeedTypes, FeedTypes', FeedClaimOk(e),
         NEW w \in Workers, SubmitReturns(w) \/ SubmitRaises(w)
  PROVE  FeedClaimOk(e)'
<1>1. PICK d \in Events :
          /\ job[w] = {d} /\ pc[w] = "submit"
          /\ UNCHANGED <<feed_events, jobs, stale, overtaken, claimed, job, crashes>>
          /\ sent' = sent \/ sent' = [sent EXCEPT ![d] = @ + 1]
          /\ pc' = [pc EXCEPT ![w] = "mark_done"] \/ pc' = [pc EXCEPT ![w] = "read_attempts"]
          /\ \E t \in Nat : read' = [read EXCEPT ![w] = t]
  BY FeedBroadcast DEF FeedTypes
<1>2. \A v \in Workers : Holds(v, e)' <=> Holds(v, e)
  BY <1>1 DEF Holds
<1>3. \A v \in Workers : pc'[v] = "mark_failed" => v # w /\ pc[v] = "mark_failed" /\ read'[v] = read[v]
  BY <1>1 DEF FeedTypes, FeedTypeOK
<1>4. \A v \in Workers : pc'[v] = "mark_failed" /\ e \in job'[v] => read'[v] = jobs[e].attempts + 1
  BY <1>1, <1>3 DEF FeedClaimOk
<1>5. FeedSpent(e) => FeedSpent(e)'
  BY <1>1 DEF FeedSpent, FeedBusy, FeedTypes, FeedTypeOK
<1>6. \A v \in Workers : Holds(v, e) => e \notin stale'
  BY <1>1 DEF FeedClaimOk, Holds
<1>7. CASE sent'[e] = sent[e]
  BY <1>1, <1>2, <1>4, <1>5, <1>6, <1>7, FeedClaimFrame
<1>8. CASE sent'[e] # sent[e]
  <2>1. d = e /\ sent'[e] = sent[e] + 1 /\ sent[e] \in Nat
    BY <1>1, <1>8 DEF FeedTypes, FeedTypeOK
  <2>2. jobs[e].status = "processing" /\ ~FeedSpent(e)
    BY <1>1, <2>1 DEF FeedClaimOk, FeedSpent, FeedBusy
  <2>3. FeedSpent(e)'
    BY <1>1, <2>1 DEF FeedSpent, FeedBusy, FeedTypes, FeedTypeOK
  <2>4. jobs[e].attempts \in Nat /\ crashes \in Nat
    BY DEF FeedTypes, FeedTypeOK, JobRow
  <2>5. sent'[e] <= jobs'[e].attempts + crashes' + 1
    BY <1>1, <2>1, <2>2, <2>4 DEF FeedClaimOk
  <2> QED
    BY <1>1, <1>2, <1>4, <1>6, <2>3, <2>5 DEF FeedClaimOk, Holds
<1> QED
  BY <1>7, <1>8

\* The outcome recorded by the owner of the claim.
LEMMA FeedClaimOutcome ==
  ASSUME NEW e \in Events, FeedTypes, FeedTypes', FeedClaimOk(e),
         NEW w \in Workers, MarkDone(w) \/ MarkFailed(w)
  PROVE  FeedClaimOk(e)'
<1>1. PICK d \in Events :
          /\ job[w] = {d} /\ job' = [job EXCEPT ![w] = {}] /\ pc' = [pc EXCEPT ![w] = "next"]
          /\ read' = [read EXCEPT ![w] = 0] /\ stale' = stale \ {d}
          /\ UNCHANGED <<overtaken, sent, claimed, crashes>>
          /\ \A k \in Events \ {d} : jobs'[k] = jobs[k] /\ feed_events'[k] = feed_events[k]
          /\ jobs'[d].attempts = IF pc[w] = "mark_done" THEN jobs[d].attempts ELSE read[w]
          /\ \/ pc[w] = "mark_done" /\ jobs'[d].status = "done"
             \/ pc[w] = "mark_failed" /\ jobs'[d].status = Outcome(read[w])
  BY FeedOutcome
<1>2. \A v \in Workers : Holds(v, e)' => Holds(v, e)
  BY <1>1 DEF Holds, FeedTypes, FeedTypeOK
<1>3. CASE d # e
  <2>1. FeedSpent(e) => FeedSpent(e)'
    BY <1>1, <1>3 DEF FeedSpent, FeedBusy, FeedTypes, FeedTypeOK
  <2>2. \A v \in Workers : pc'[v] = "mark_failed" /\ e \in job'[v] => read'[v] = jobs[e].attempts + 1
    BY <1>1 DEF FeedClaimOk, FeedTypes, FeedTypeOK
  <2>3. \A v \in Workers : Holds(v, e) => e \notin stale'
    BY <1>1 DEF FeedClaimOk, Holds
  <2> QED
    BY <1>1, <1>2, <1>3, <2>1, <2>2, <2>3, FeedClaimFrame
<1>4. CASE d = e
  <2>1. \A v \in Workers : ~Holds(v, e)'
    BY <1>1, <1>2, <1>4 DEF Holds, FeedClaimOk, FeedTypes, FeedTypeOK, FeedWorkerOk
  <2>2. jobs[e].status = "processing" /\ ~(jobs[e].attempts >= MaxAttempts)
    BY <1>1, <1>4 DEF FeedClaimOk
  <2>3. jobs[e].attempts \in Nat /\ crashes \in Nat /\ sent[e] \in Nat /\ read[w] \in Nat
        /\ MaxAttempts \in Nat
    BY FeedConstants DEF FeedTypes, FeedTypeOK, JobRow
  <2>4. sent[e] <= jobs[e].attempts + crashes + 1
    BY <2>3 DEF FeedClaimOk
  <2>5. CASE pc[w] = "mark_done"
    <3>1. jobs'[e].status = "done" /\ jobs'[e].attempts = jobs[e].attempts
      BY <1>1, <1>4, <2>5
    <3> QED
      BY <1>1, <2>1, <2>2, <2>4, <3>1 DEF FeedClaimOk, Holds
  <2>6. CASE pc[w] = "mark_failed"
    <3>1. read[w] = jobs[e].attempts + 1
      BY <1>1, <1>4, <2>6 DEF FeedClaimOk
    <3>2. jobs'[e].status = Outcome(read[w]) /\ jobs'[e].attempts = read[w]
      BY <1>1, <1>4, <2>6
    <3>3. jobs'[e].status = "failed" <=> jobs'[e].attempts >= MaxAttempts
      BY <2>3, <3>2 DEF Outcome
    <3>4. jobs'[e].status # "done"
      BY <3>2 DEF Outcome
    <3>5. sent'[e] <= jobs'[e].attempts + crashes'
      BY <1>1, <2>3, <2>4, <3>1, <3>2
    <3>6. ~FeedSpent(e)'
      BY <2>1 DEF FeedSpent, Holds
    <3>7. jobs'[e].attempts \in Nat /\ crashes' \in Nat
      BY <1>1, <2>3, <3>2
    <3> QED
      BY <2>1, <3>3, <3>4, <3>5, <3>6, <3>7 DEF FeedClaimOk, Holds
  <2> QED
    BY <1>1, <2>5, <2>6
<1> QED
  BY <1>3, <1>4

\* A claim of the cycle takes queued rows, which nobody holds.
LEMMA FeedClaimClaim ==
  ASSUME NEW e \in Events, FeedTypes, FeedTypes', FeedRowOk(e), FeedClaimOk(e),
         NEW w \in Workers, Claim(w)
  PROVE  FeedClaimOk(e)'
<1>1. PICK batch \in SUBSET Queued :
         jobs' = ClaimedJobs(batch) /\ claimed' = [claimed EXCEPT ![w] = batch]
  BY DEF Claim
<1>2. batch \in SUBSET Events /\ \A d \in batch : jobs[d].status = "queued"
  BY DEF Queued
<1>3. /\ pc' = [pc EXCEPT ![w] = "next"] /\ pc[w] = "claim"
      /\ UNCHANGED <<stale, overtaken, sent, job, read, crashes>>
  BY DEF Claim
<1>4. claimed[w] = {} /\ job[w] = {}
  BY <1>3 DEF FeedTypes, FeedWorkerOk, FeedBusy
<1>5. \A v \in Workers : pc'[v] = "mark_failed" => pc[v] = "mark_failed"
  BY <1>3 DEF FeedTypes, FeedTypeOK
<1>6. FeedSpent(e)' <=> FeedSpent(e)
  BY <1>3, <1>4 DEF FeedSpent, FeedTypes, FeedTypeOK
<1>7. CASE e \notin batch
  <2>1. jobs'[e] = jobs[e]
    BY <1>1, <1>2, <1>7, FeedClaimed DEF FeedTypes
  <2>2. \A v \in Workers : Holds(v, e)' => Holds(v, e) /\ e \notin stale'
    BY <1>1, <1>3, <1>7 DEF Holds, FeedClaimOk, FeedTypes, FeedTypeOK
  <2>3. \A v \in Workers : pc'[v] = "mark_failed" /\ e \in job'[v] => read'[v] = jobs[e].attempts + 1
    BY <1>3, <1>5 DEF FeedClaimOk
  <2> QED
    BY <1>3, <1>6, <2>1, <2>2, <2>3, FeedClaimFrame
<1>8. CASE e \in batch
  <2>1. jobs'[e].status = "processing" /\ jobs'[e].attempts = jobs[e].attempts
    BY <1>1, <1>2, <1>8, FeedClaimed DEF FeedTypes
  <2>2. jobs[e].status = "queued" /\ e \notin stale
    BY <1>2, <1>8 DEF FeedRowOk
  <2>3. \A v \in Workers : ~Holds(v, e)
    BY <2>2 DEF FeedClaimOk, Holds
  <2>4. \A v \in Workers : Holds(v, e)' => v = w /\ e \notin job'[v]
    BY <1>1, <1>3, <2>3 DEF Holds, FeedTypes, FeedTypeOK
  <2>5. sent'[e] <= jobs'[e].attempts + crashes'
                    + (IF jobs'[e].status = "done" \/ FeedSpent(e)' THEN 1 ELSE 0)
    BY <1>3, <1>6, <2>1, <2>2 DEF FeedClaimOk
  <2> QED
    BY <1>3, <2>1, <2>2, <2>4, <2>5 DEF FeedClaimOk, Holds
<1> QED
  BY <1>7, <1>8

\* Recovery takes stale rows, which nobody holds.
LEMMA FeedClaimStart ==
  ASSUME NEW e \in Events, FeedTypes, FeedTypes', FeedRowOk(e), FeedClaimOk(e),
         NEW w \in Workers, StartCycle(w)
  PROVE  FeedClaimOk(e)'
<1>1. /\ pc' = [pc EXCEPT ![w] = "claim"] /\ pc[w] = "idle" /\ jobs' = Recovered /\ stale' = {}
      /\ UNCHANGED <<sent, claimed, job, read, crashes>>
  BY DEF StartCycle
<1>2. \A v \in Workers : Holds(v, e)' <=> Holds(v, e)
  BY <1>1 DEF Holds
<1>3. \A v \in Workers : pc'[v] = "mark_failed" => pc[v] = "mark_failed"
  BY <1>1 DEF FeedTypes, FeedTypeOK
<1>4. job[w] = {}
  BY <1>1 DEF FeedTypes, FeedWorkerOk, FeedBusy
<1>5. FeedSpent(e)' <=> FeedSpent(e)
  BY <1>1, <1>4 DEF FeedSpent, FeedTypes, FeedTypeOK
<1>6. CASE e \notin stale
  <2>1. jobs'[e] = jobs[e]
    BY <1>1, <1>6, FeedRecovered DEF FeedTypes
  <2>2. \A v \in Workers : pc'[v] = "mark_failed" /\ e \in job'[v] => read'[v] = jobs[e].attempts + 1
    BY <1>1, <1>3 DEF FeedClaimOk
  <2> QED
    BY <1>1, <1>2, <1>5, <2>1, <2>2, FeedClaimFrame
<1>7. CASE e \in stale
  <2>1. jobs'[e].status = "queued" /\ jobs'[e].attempts = jobs[e].attempts
    BY <1>1, <1>7, FeedRecovered DEF FeedTypes
  <2>2. jobs[e].status = "processing"
    BY <1>7 DEF FeedRowOk
  <2>3. \A v \in Workers : ~Holds(v, e)'
    BY <1>2, <1>7 DEF FeedClaimOk, Holds
  <2>4. sent'[e] <= jobs'[e].attempts + crashes'
                    + (IF jobs'[e].status = "done" \/ FeedSpent(e)' THEN 1 ELSE 0)
    BY <1>1, <1>5, <2>1, <2>2 DEF FeedClaimOk
  <2> QED
    BY <2>1, <2>2, <2>3, <2>4 DEF FeedClaimOk, Holds
<1> QED
  BY <1>6, <1>7

\* A crash is paid for.
LEMMA FeedClaimCrash ==
  ASSUME NEW e \in Events, FeedTypes, FeedTypes', FeedClaimOk(e), NEW w \in Workers, Crash(w)
  PROVE  FeedClaimOk(e)'
<1>1. /\ UNCHANGED <<jobs, stale, sent>> /\ crashes' = crashes + 1
      /\ pc' = [pc EXCEPT ![w] = "idle"] /\ claimed' = [claimed EXCEPT ![w] = {}]
      /\ job' = [job EXCEPT ![w] = {}] /\ read' = [read EXCEPT ![w] = 0]
  BY DEF Crash, tables
<1>2. \A v \in Workers : Holds(v, e)' => v # w /\ Holds(v, e)
  BY <1>1 DEF Holds, FeedTypes, FeedTypeOK
<1>3. jobs[e].attempts \in Nat /\ crashes \in Nat /\ sent[e] \in Nat
  BY DEF FeedTypes, FeedTypeOK, JobRow
<1>4. sent[e] <= jobs[e].attempts + crashes + 1
  BY <1>3 DEF FeedClaimOk
<1>5. sent'[e] <= jobs'[e].attempts + crashes'
                    + (IF jobs'[e].status = "done" \/ FeedSpent(e)' THEN 1 ELSE 0)
  <2>1. sent[e] <= jobs[e].attempts + (crashes + 1)
    BY <1>3, <1>4
  <2>2. jobs[e].attempts + (crashes + 1) \in Nat
    BY <1>3
  <2> QED
    BY <1>1, <1>3, <2>1, <2>2
<1>6. \A v \in Workers : v # w => pc'[v] = pc[v] /\ job'[v] = job[v] /\ read'[v] = read[v]
  BY <1>1 DEF FeedTypes, FeedTypeOK
<1> QED
  BY <1>1, <1>2, <1>5, <1>6 DEF FeedClaimOk, Holds

\* The remaining steps.
LEMMA FeedClaimRest ==
  ASSUME NEW e \in Events \ Slow, FeedInv, FeedTypes', FeedClaimOk(e),
         \/ \E d \in Events : InsertEvent(d) \/ Age(d)
         \/ \E w \in Workers : NextJob(w) \/ EndCycle(w) \/ MarkDoneRaises(w)
                 \/ ReadAttempts(w)
         \/ UNCHANGED feedVars
  PROVE  FeedClaimOk(e)'
<1> USE DEF FeedInv, FeedTypes, FeedTypeOK
<1>1. ASSUME jobs'[e] = jobs[e], sent' = sent, crashes' = crashes,
             \A v \in Workers : Holds(v, e)' => Holds(v, e),
             \A v \in Workers : Holds(v, e) => e \notin stale',
             \A v \in Workers : pc'[v] = "mark_failed" /\ e \in job'[v]
                                  => read'[v] = jobs[e].attempts + 1,
             FeedSpent(e) => FeedSpent(e)'
      PROVE  FeedClaimOk(e)'
  BY <1>1, FeedClaimFrame
<1>2. \A v \in Workers : Holds(v, e) => e \notin stale
  BY DEF FeedClaimOk, Holds
<1>3. \A v \in Workers : pc[v] = "mark_failed" /\ e \in job[v] => read[v] = jobs[e].attempts + 1
  BY DEF FeedClaimOk
<1>4. ASSUME NEW d \in Events, InsertEvent(d)
      PROVE  FeedClaimOk(e)'
  <2>1. /\ UNCHANGED <<stale, sent, pc, claimed, job, read, crashes>>
        /\ feed_events[d].status = "missing" /\ jobs' = [jobs EXCEPT ![d].status = "queued"]
    BY <1>4 DEF InsertEvent
  <2>2. CASE d # e
    BY <1>1, <1>2, <1>3, <2>1, <2>2 DEF Holds, FeedSpent
  <2>3. CASE d = e
    <3>1. jobs[e].status = "missing"
      BY <2>1, <2>3 DEF FeedRowOk
    <3>2. jobs'[e].status = "queued" /\ jobs'[e].attempts = jobs[e].attempts
      BY <2>1, <2>3 DEF JobRow
    <3>3. \A v \in Workers : ~Holds(v, e)'
      BY <2>1, <3>1 DEF Holds, FeedClaimOk
    <3>4. sent'[e] <= jobs'[e].attempts + crashes'
                    + (IF jobs'[e].status = "done" \/ FeedSpent(e)' THEN 1 ELSE 0)
      BY <2>1, <3>1, <3>2 DEF FeedClaimOk, FeedSpent
    <3> QED
      BY <3>1, <3>2, <3>3, <3>4 DEF FeedClaimOk, Holds
  <2> QED
    BY <2>2, <2>3
<1>5. ASSUME NEW d \in Events, Age(d)
      PROVE  FeedClaimOk(e)'
  <2>1. /\ UNCHANGED <<jobs, sent, pc, claimed, job, read, crashes>> /\ stale' = stale \cup {d}
    BY <1>5 DEF Age
  <2>2. d = e => ~InFlight(e)
    BY <1>5 DEF Age
  <2>3. \A v \in Workers : Holds(v, e) => e \notin stale'
    BY <1>2, <2>1, <2>2 DEF InFlight, Holds
  <2> QED
    BY <1>1, <1>3, <2>1, <2>3 DEF Holds, FeedSpent
<1>6. ASSUME NEW w \in Workers, NextJob(w)
      PROVE  FeedClaimOk(e)'
  <2>1. /\ UNCHANGED <<jobs, stale, sent, read, crashes>> /\ pc' = [pc EXCEPT ![w] = "submit"]
        /\ pc[w] = "next"
    BY <1>6 DEF NextJob, tables
  <2>2. job[w] = {}
    BY <2>1 DEF FeedWorkerOk, FeedBusy
  <2>3. \A v \in Workers : Holds(v, e)' => Holds(v, e)
    BY <1>6 DEF NextJob, Holds
  <2>4. \A v \in Workers : v # w => pc'[v] = pc[v] /\ job'[v] = job[v]
    BY <1>6 DEF NextJob
  <2>5. FeedSpent(e) => FeedSpent(e)'
    BY <2>2, <2>4 DEF FeedSpent
  <2>6. \A v \in Workers : pc'[v] = "mark_failed" => v # w
    BY <2>1
  <2> QED
    BY <1>1, <1>2, <1>3, <2>1, <2>3, <2>4, <2>5, <2>6
<1>7. ASSUME NEW w \in Workers, EndCycle(w) \/ MarkDoneRaises(w)
      PROVE  FeedClaimOk(e)'
  <2>1. /\ UNCHANGED <<jobs, stale, sent, claimed, job, crashes>>
    BY <1>7 DEF EndCycle, MarkDoneRaises, tables
  <2>2. /\ pc[w] \in {"next", "mark_done"} /\ pc'[w] \in {"idle", "read_attempts"}
        /\ pc[w] = "mark_done" => pc'[w] = "read_attempts"
        /\ \A v \in Workers : v # w => pc'[v] = pc[v] /\ read'[v] = read[v]
    BY <1>7 DEF EndCycle, MarkDoneRaises
  <2>3. pc[w] = "next" => job[w] = {}
    BY DEF FeedWorkerOk, FeedBusy
  <2>4. FeedSpent(e) => FeedSpent(e)'
    BY <2>1, <2>2, <2>3 DEF FeedSpent, FeedBusy
  <2>5. \A v \in Workers : pc'[v] = "mark_failed" => v # w
    BY <2>2
  <2> QED
    BY <1>1, <1>2, <1>3, <2>1, <2>2, <2>4, <2>5 DEF Holds
<1>8. ASSUME NEW w \in Workers, ReadAttempts(w)
      PROVE  FeedClaimOk(e)'
  <2>1. /\ UNCHANGED <<jobs, stale, sent, claimed, job, crashes>>
        /\ pc' = [pc EXCEPT ![w] = "mark_failed"]
    BY <1>8 DEF ReadAttempts, tables
  <2>2. e \in job[w] => read'[w] = jobs[e].attempts + 1
    <3>1. PICK d \in job[w] : read' = [read EXCEPT ![w] = jobs[d].attempts + 1]
      BY <1>8 DEF ReadAttempts
    <3>2. e \in job[w] => d = e
      BY DEF FeedWorkerOk
    <3> QED
      BY <3>1, <3>2
  <2>3. \A v \in Workers : v # w => pc'[v] = pc[v] /\ read'[v] = read[v]
    BY <1>8 DEF ReadAttempts
  <2>4. FeedSpent(e) => FeedSpent(e)'
    BY <2>1 DEF FeedSpent, FeedBusy
  <2>5. \A v \in Workers : pc'[v] = "mark_failed" /\ e \in job'[v] => read'[v] = jobs[e].attempts + 1
    BY <1>3, <2>1, <2>2, <2>3
  <2> QED
    BY <1>1, <1>2, <2>1, <2>4, <2>5 DEF Holds
<1>9. CASE UNCHANGED feedVars
  BY <1>1, <1>2, <1>3, <1>9 DEF feedVars, Holds, FeedSpent
<1> QED
  BY <1>4, <1>5, <1>6, <1>7, <1>8, <1>9

\* The accounts are inductive, given the rows.
LEMMA FeedClaimsStep ==
  ASSUME FeedInv, FeedInv', FeedClaims, [FeedNext]_feedVars
  PROVE  FeedClaims'
<1>1. ASSUME NEW e \in Events \ Slow
      PROVE  FeedClaimOk(e)'
  <2>1. FeedTypes /\ FeedTypes' /\ FeedRowOk(e) /\ FeedClaimOk(e)
    BY DEF FeedInv, FeedClaims
  <2> QED
    BY <2>1, FeedClaimBroadcast, FeedClaimOutcome, FeedClaimClaim, FeedClaimStart, FeedClaimCrash,
       FeedClaimRest DEF FeedNext, Cycle
<1> QED
  BY <1>1 DEF FeedClaims

\* The accounts hold in every reachable state.
LEMMA FeedClaimsInvariance ==
  FeedSpec => [](FeedInv /\ FeedClaims)
  BY FeedInitially, FeedInvStep, FeedClaimsStep, PTL DEF FeedSpec

\* For an event whose claims go stale only after a crash: one broadcast for each
\* failure, crash and success, an end after the attempts, one owner at a time.
THEOREM FeedAttemptsCounted == FeedSpec => []AttemptsAccountedFor
<1>1. ASSUME FeedInv, FeedClaims
      PROVE  AttemptsAccountedFor
  <2>1. ASSUME NEW e \in Events \ Slow
        PROVE  /\ sent[e] <= jobs[e].attempts + crashes +
                      (IF jobs[e].status \in {"processing", "done"} THEN 1 ELSE 0)
               /\ jobs[e].status = "failed" <=> jobs[e].attempts >= MaxAttempts
               /\ \A v, w \in Workers :
                    v # w => e \notin (claimed[v] \cup job[v]) \cap (claimed[w] \cup job[w])
    <3>1. FeedClaimOk(e)
      BY <1>1 DEF FeedClaims
    <3>2. FeedSpent(e) => jobs[e].status = "processing"
      BY <3>1 DEF FeedSpent, FeedClaimOk
    <3>3. jobs[e].attempts \in Nat /\ crashes \in Nat /\ sent[e] \in Nat
      BY <1>1 DEF FeedInv, FeedTypes, FeedTypeOK, JobRow
    <3>4. sent[e] <= jobs[e].attempts + crashes +
                      (IF jobs[e].status \in {"processing", "done"} THEN 1 ELSE 0)
      BY <3>1, <3>2, <3>3 DEF FeedClaimOk
    <3> QED
      BY <3>1, <3>4 DEF FeedClaimOk
  <2> QED
    BY <2>1 DEF AttemptsAccountedFor
<1> QED
  BY <1>1, FeedClaimsInvariance, PTL

\* The outcome of such an event is final.
THEOREM FeedOutcomesFinal == FeedSpec => OutcomeIsFinal
<1>1. ASSUME FeedInv, FeedClaims, [FeedNext]_feedVars, NEW e \in Events \ Slow,
             feed_events[e].status \in {"anchored", "failed"}
      PROVE  feed_events'[e] = feed_events[e]
  <2>0. FeedTypes /\ FeedTypeOK /\ FeedAgrees(e) /\ FeedRowOk(e) /\ FeedClaimOk(e)
    BY <1>1 DEF FeedInv, FeedTypes, FeedClaims, EventFollowsJob, FeedAgrees
  <2>1. ASSUME NEW d \in Events, InsertEvent(d)
        PROVE  feed_events'[e] = feed_events[e]
    BY <1>1, <2>0, <2>1 DEF InsertEvent, FeedTypeOK
  <2>2. ASSUME NEW w \in Workers, Claim(w)
        PROVE  feed_events'[e] = feed_events[e]
    <3>1. PICK batch \in SUBSET Queued : feed_events' = ClaimedEvents(batch)
      BY <2>2 DEF Claim
    <3>2. batch \in SUBSET Events /\ e \notin batch
      BY <1>1, <2>0 DEF Queued, FeedAgrees
    <3> QED
      BY <2>0, <3>1, <3>2, FeedClaimed
  <2>3. ASSUME NEW w \in Workers, MarkDone(w) \/ MarkFailed(w)
        PROVE  feed_events'[e] = feed_events[e]
    <3>1. PICK d \in Events : job[w] = {d} /\ \A k \in Events \ {d} : feed_events'[k] = feed_events[k]
      BY <2>0, <2>3, FeedOutcome
    <3>2. d # e
      BY <1>1, <2>0, <3>1 DEF FeedClaimOk, FeedAgrees
    <3> QED
      BY <3>1, <3>2
  <2>4. ASSUME \/ \E d \in Events : Age(d)
               \/ \E w \in Workers : \/ StartCycle(w) \/ NextJob(w) \/ EndCycle(w)
                                     \/ SubmitReturns(w) \/ SubmitRaises(w)
                                     \/ MarkDoneRaises(w) \/ ReadAttempts(w) \/ Crash(w)
               \/ UNCHANGED feedVars
        PROVE  feed_events'[e] = feed_events[e]
    BY <2>4 DEF Age, StartCycle, NextJob, EndCycle, SubmitReturns,
            SubmitRaises, MarkDoneRaises,
       ReadAttempts, Crash, tables, feedVars
  <2> QED
    BY <1>1, <2>1, <2>2, <2>3, <2>4 DEF FeedNext, Cycle
<1>2. FeedInv /\ FeedClaims /\ [FeedNext]_feedVars
        => [\A e \in Events \ Slow :
              feed_events[e].status \in {"anchored", "failed"} => feed_events'[e] = feed_events[e]]_feed_events
  BY <1>1
<1> QED
  BY <1>2, FeedClaimsInvariance, PTL DEF FeedSpec, OutcomeIsFinal

-----------------------------------------------------------------------------
(* The public feed implements the job queue of AnchorJobs.                    *)

\* Where a job is, seen from the worker that holds it.
Stage(w, e) ==
    IF e \in claimed[w] \/ pc[w] = "submit" THEN "claimed"
    ELSE IF pc[w] = "mark_done" THEN "broadcast"
    ELSE "refused"

StageOk(e) ==
    /\ \A w \in Workers : Holds(w, e) => JobState(e) = Stage(w, e)
    /\ (\A w \in Workers : ~Holds(w, e)) =>
          JobState(e) = IF jobs[e].status = "processing" THEN "lost" ELSE jobs[e].status

StagesOk == \A e \in Events \ Slow : StageOk(e)

\* A claim has one owner, who determines where the job is.
LEMMA FeedStages == FeedInv /\ FeedClaims => StagesOk
<1> SUFFICES ASSUME FeedInv, FeedClaims, NEW e \in Events \ Slow
             PROVE  StageOk(e)
  BY DEF StagesOk
<1>1. FeedClaimOk(e) /\ \A w \in Workers : FeedWorkerOk(w)
  BY DEF FeedClaims, FeedInv, FeedTypes
<1>2. ASSUME NEW w \in Workers, Holds(w, e)
      PROVE  JobState(e) = Stage(w, e)
  <2>1. \A v \in Workers : e \in claimed[v] \cup job[v] => v = w
    BY <1>1, <1>2 DEF FeedClaimOk, Holds
  <2>2. e \in job[w] => e \notin claimed[w] /\ pc[w] \in FeedBusy
    BY <1>1 DEF FeedWorkerOk
  <2> QED
    BY <1>2, <2>1, <2>2 DEF JobState, InHands, Stage, Holds, FeedBusy
<1>3. ASSUME \A w \in Workers : ~Holds(w, e)
      PROVE  JobState(e) = IF jobs[e].status = "processing" THEN "lost" ELSE jobs[e].status
  BY <1>3 DEF JobState, InHands, Holds
<1> QED
  BY <1>2, <1>3 DEF StageOk

\* The moves of the job queue, row by row.
LEMMA QueueMoved ==
  ASSUME NEW S \in SUBSET (Events \ Slow), NEW to,
         \A e \in Events \ Slow : JobState(e)' = IF e \in S THEN to ELSE JobState(e)
  PROVE  Queue!Moved(S, to)
  BY DEF Queue!Moved

LEMMA QueueIn ==
  ASSUME NEW e \in Events \ Slow, NEW states
  PROVE  Queue!In(e, states) <=> JobState(e) \in states
  BY DEF Queue!In

\* Nothing but the states of jobs changes.
QueueKeeps ==
    /\ \A e \in Events \ Slow : jobs'[e].attempts = jobs[e].attempts /\ sent'[e] = sent[e]
    /\ crashes' = crashes

QueueSteps == [Queue!Next]_<<[e \in Events \ Slow |-> JobState(e)],
                             [e \in Events \ Slow |-> jobs[e].attempts],
                             [e \in Events \ Slow |-> sent[e]], crashes>>

LEMMA QueueStutters ==
  ASSUME QueueKeeps, \A e \in Events \ Slow : JobState(e)' = JobState(e)
  PROVE  QueueSteps
  BY DEF QueueKeeps, QueueSteps

LEMMA QueueClaims ==
  ASSUME QueueKeeps, NEW S \in SUBSET (Events \ Slow),
         \A e \in S : JobState(e) = "queued",
         \A e \in Events \ Slow : JobState(e)' = IF e \in S THEN "claimed" ELSE JobState(e)
  PROVE  QueueSteps
<1>1. Queue!Claim(S)
  BY QueueMoved DEF Queue!Claim, Queue!In, QueueKeeps
<1> QED
  BY <1>1 DEF QueueSteps, Queue!Next

LEMMA QueueRecovers ==
  ASSUME QueueKeeps, NEW S \in SUBSET (Events \ Slow),
         \A e \in S : JobState(e) = "lost",
         \A e \in Events \ Slow : JobState(e)' = IF e \in S THEN "queued" ELSE JobState(e)
  PROVE  QueueSteps
<1>1. Queue!Recover(S)
  BY QueueMoved DEF Queue!Recover, Queue!In, QueueKeeps
<1> QED
  BY <1>1 DEF QueueSteps, Queue!Next

LEMMA QueueOneMoved ==
  ASSUME NEW d \in Events \ Slow, NEW to, JobState(d)' = to,
         \A e \in Events \ Slow : e # d => JobState(e)' = JobState(e)
  PROVE  Queue!Moved({d}, to)
  BY QueueMoved

LEMMA QueueEnqueues ==
  ASSUME QueueKeeps, NEW d \in Events \ Slow,
         JobState(d) = "missing", JobState(d)' = "queued",
         \A e \in Events \ Slow : e # d => JobState(e)' = JobState(e)
  PROVE  QueueSteps
<1>1. Queue!Enqueue(d)
  BY QueueOneMoved DEF Queue!Enqueue, Queue!In, QueueKeeps
<1> QED
  BY <1>1 DEF QueueSteps, Queue!Next

LEMMA QueueBroadcasts ==
  ASSUME crashes' = crashes, NEW d \in Events \ Slow,
         \A e \in Events \ Slow :
            /\ jobs'[e].attempts = jobs[e].attempts
            /\ sent'[e] = IF e = d THEN sent[e] + 1 ELSE sent[e],
         JobState(d) = "claimed", JobState(d)' = "broadcast",
         \A e \in Events \ Slow : e # d => JobState(e)' = JobState(e)
  PROVE  QueueSteps
<1>1. Queue!Broadcast(d)
  BY QueueOneMoved DEF Queue!Broadcast, Queue!In
<1> QED
  BY <1>1 DEF QueueSteps, Queue!Next

LEMMA QueueRefuses ==
  ASSUME crashes' = crashes, NEW d \in Events \ Slow,
         \A e \in Events \ Slow : jobs'[e].attempts = jobs[e].attempts,
         \/ /\ JobState(d) \in {"claimed", "broadcast"}
            /\ \A e \in Events \ Slow : sent'[e] = sent[e]
         \/ /\ JobState(d) = "claimed"
            /\ \A e \in Events \ Slow : sent'[e] = IF e = d THEN sent[e] + 1 ELSE sent[e],
         JobState(d)' = "refused",
         \A e \in Events \ Slow : e # d => JobState(e)' = JobState(e)
  PROVE  QueueSteps
<1>1. Queue!Refuse(d)
  BY QueueOneMoved DEF Queue!Refuse, Queue!In
<1> QED
  BY <1>1 DEF QueueSteps, Queue!Next

LEMMA QueueSucceeds ==
  ASSUME QueueKeeps, NEW d \in Events \ Slow,
         JobState(d) = "broadcast", JobState(d)' = "done",
         \A e \in Events \ Slow : e # d => JobState(e)' = JobState(e)
  PROVE  QueueSteps
<1>1. Queue!Succeed(d)
  BY QueueOneMoved DEF Queue!Succeed, Queue!In, QueueKeeps
<1> QED
  BY <1>1 DEF QueueSteps, Queue!Next

LEMMA QueueFails ==
  ASSUME crashes' = crashes, NEW d \in Events \ Slow,
         \A e \in Events \ Slow :
            /\ jobs'[e].attempts = IF e = d THEN jobs[e].attempts + 1 ELSE jobs[e].attempts
            /\ sent'[e] = sent[e],
         JobState(d) = "refused",
         \/ JobState(d)' = "failed"
         \/ JobState(d)' = "queued" /\ jobs[d].attempts + 1 < MaxAttempts,
         \A e \in Events \ Slow : e # d => JobState(e)' = JobState(e)
  PROVE  QueueSteps
<1>1. Queue!Fail(d)
  BY QueueOneMoved DEF Queue!Fail, Queue!In
<1> QED
  BY <1>1 DEF QueueSteps, Queue!Next

LEMMA QueueLoses ==
  ASSUME NEW S \in SUBSET (Events \ Slow), crashes' = crashes + 1,
         \A e \in Events \ Slow :
            /\ jobs'[e].attempts = jobs[e].attempts
            /\ sent'[e] = sent[e]
            /\ JobState(e)' = IF e \in S THEN "lost" ELSE JobState(e),
         \A e \in S : JobState(e) \in {"claimed", "broadcast", "refused"}
  PROVE  QueueSteps
<1>1. Queue!Abandon(S, {})
  BY DEF Queue!Abandon, Queue!In
<1> QED
  BY <1>1 DEF QueueSteps, Queue!Next

-----------------------------------------------------------------------------
(* The steps of the feed as steps of the queue. *)

\* A job whose row and owner stay as they are stays where it is.
LEMMA StageFrame ==
  ASSUME StagesOk, StagesOk', NEW e \in Events \ Slow,
         jobs'[e].status = jobs[e].status,
         \A w \in Workers : Holds(w, e)' <=> Holds(w, e),
         \A w \in Workers : Holds(w, e) => Stage(w, e)' = Stage(w, e)
  PROVE  JobState(e)' = JobState(e)
<1>1. StageOk(e) /\ StageOk(e)'
  BY DEF StagesOk
<1> QED
  BY <1>1 DEF StageOk

\* Storing an event queues its job.
LEMMA InsertQueues ==
  ASSUME FeedInv, FeedClaims, StagesOk, StagesOk', NEW d \in Events, InsertEvent(d)
  PROVE  QueueSteps
<1>0. FeedTypes /\ FeedTypeOK
  BY DEF FeedInv, FeedTypes
<1>1. /\ feed_events[d].status = "missing" /\ jobs' = [jobs EXCEPT ![d].status = "queued"]
      /\ UNCHANGED <<sent, pc, claimed, job, crashes>>
  BY DEF InsertEvent
<1>2. jobs[d].status = "missing"
  BY <1>1 DEF FeedInv, FeedRowOk
<1>3. \A e \in Events : /\ jobs'[e].attempts = jobs[e].attempts
                        /\ e # d => jobs'[e].status = jobs[e].status
                        /\ e = d => jobs'[e].status = "queued"
  BY <1>0, <1>1 DEF FeedTypeOK, JobRow
<1>4. QueueKeeps
  BY <1>1, <1>3 DEF QueueKeeps
<1>5. \A e, w : Holds(w, e)' = Holds(w, e) /\ Stage(w, e)' = Stage(w, e)
  BY <1>1 DEF Holds, Stage
<1>6. \A e \in Events \ Slow : e # d => JobState(e)' = JobState(e)
  BY <1>3, <1>5, StageFrame
<1>7. CASE d \in Slow
  BY <1>4, <1>6, <1>7, QueueStutters
<1>8. CASE d \notin Slow
  <2>1. \A w \in Workers : ~Holds(w, d)
    BY <1>2, <1>8 DEF FeedClaims, FeedClaimOk, Holds
  <2>2. JobState(d) = "missing"
    BY <1>2, <1>8, <2>1 DEF StagesOk, StageOk
  <2>3. \A w \in Workers : ~Holds(w, d)'
    BY <1>5, <2>1
  <2>4. JobState(d)' = "queued"
    BY <1>3, <1>8, <2>3 DEF StagesOk, StageOk
  <2> QED
    BY <1>4, <1>6, <1>8, <2>2, <2>4, QueueEnqueues
<1> QED
  BY <1>7, <1>8

\* A new cycle recovers claims that nobody holds any more.
LEMMA StartRecovers ==
  ASSUME FeedInv, FeedClaims, StagesOk, StagesOk', NEW w \in Workers, StartCycle(w)
  PROVE  QueueSteps
<1>0. FeedTypes /\ FeedTypeOK
  BY DEF FeedInv, FeedTypes
<1>1. /\ pc[w] = "idle" /\ pc' = [pc EXCEPT ![w] = "claim"] /\ jobs' = Recovered
      /\ UNCHANGED <<sent, claimed, job, crashes>>
  BY DEF StartCycle
<1>2. \A e \in Events : /\ jobs'[e].attempts = jobs[e].attempts
                        /\ e \notin stale => jobs'[e].status = jobs[e].status
                        /\ e \in stale => jobs'[e].status = "queued" /\ jobs[e].status = "processing"
  BY <1>0, <1>1, FeedRecovered DEF FeedInv, FeedRowOk
<1>3. QueueKeeps
  BY <1>1, <1>2 DEF QueueKeeps
<1>4. \A e : \A v \in Workers : /\ Holds(v, e)' = Holds(v, e)
                                /\ Holds(v, e) => Stage(v, e)' = Stage(v, e)
  BY <1>0, <1>1 DEF Holds, Stage, FeedTypes, FeedWorkerOk, FeedTypeOK, FeedBusy
<1>5. \A e \in Events \ Slow : e \notin stale => JobState(e)' = JobState(e)
  BY <1>2, <1>4, StageFrame
<1>6. ASSUME NEW e \in Events \ Slow, e \in stale
      PROVE  JobState(e) = "lost" /\ JobState(e)' = "queued"
  <2>1. \A v \in Workers : ~Holds(v, e)
    BY <1>6 DEF FeedClaims, FeedClaimOk, Holds
  <2>2. \A v \in Workers : ~Holds(v, e)'
    BY <1>4, <2>1
  <2> QED
    BY <1>2, <1>6, <2>1, <2>2 DEF StagesOk, StageOk
<1>7. PICK S \in SUBSET (Events \ Slow) : S = stale \ Slow
  BY <1>0 DEF FeedTypeOK
<1> QED
  BY <1>3, <1>5, <1>6, <1>7, QueueRecovers

\* A claim takes queued jobs, which nobody holds.
LEMMA ClaimClaims ==
  ASSUME FeedInv, FeedClaims, FeedTypes', StagesOk, StagesOk', NEW w \in Workers, Claim(w)
  PROVE  QueueSteps
<1>0. FeedTypes /\ FeedTypeOK
  BY DEF FeedInv, FeedTypes
<1>1. PICK batch \in SUBSET Queued :
        /\ pc[w] = "claim" /\ pc' = [pc EXCEPT ![w] = "next"] /\ jobs' = ClaimedJobs(batch)
        /\ claimed' = [claimed EXCEPT ![w] = batch] /\ UNCHANGED <<sent, job, crashes>>
  BY DEF Claim
<1>2. batch \in SUBSET Events /\ \A e \in batch : jobs[e].status = "queued"
  BY <1>1 DEF Queued
<1>3. \A e \in Events : /\ jobs'[e].attempts = jobs[e].attempts
                        /\ e \notin batch => jobs'[e].status = jobs[e].status
  BY <1>0, <1>1, <1>2, FeedClaimed
<1>4. QueueKeeps
  BY <1>1, <1>3 DEF QueueKeeps
<1>5. claimed[w] = {} /\ job[w] = {}
  BY <1>0, <1>1 DEF FeedTypes, FeedWorkerOk, FeedBusy
<1>6. \A e \in Events : \A v \in Workers :
        e \notin batch => /\ Holds(v, e)' = Holds(v, e)
                          /\ Holds(v, e) => Stage(v, e)' = Stage(v, e)
  BY <1>0, <1>1, <1>5 DEF Holds, Stage, FeedTypeOK
<1>7. \A e \in Events \ Slow : e \notin batch => JobState(e)' = JobState(e)
  BY <1>3, <1>6, StageFrame
<1>8. ASSUME NEW e \in Events \ Slow, e \in batch
      PROVE  JobState(e) = "queued" /\ JobState(e)' = "claimed"
  <2>1. \A v \in Workers : ~Holds(v, e)
    BY <1>2, <1>8 DEF FeedClaims, FeedClaimOk, Holds
  <2>2. e \in claimed'[w]
    BY <1>0, <1>1, <1>8 DEF FeedTypeOK
  <2>3. Holds(w, e)' /\ Stage(w, e)' = "claimed"
    BY <2>2 DEF Holds, Stage
  <2> QED
    BY <1>2, <1>8, <2>1, <2>3 DEF StagesOk, StageOk
<1>9. PICK S \in SUBSET (Events \ Slow) : S = batch \ Slow
  BY <1>2
<1> QED
  BY <1>4, <1>7, <1>8, <1>9, QueueClaims

\* A worker takes up a job it has claimed, ends its cycle, or reads attempts.
LEMMA QuietSteps ==
  ASSUME FeedInv, FeedClaims, StagesOk, StagesOk', NEW w \in Workers,
         NextJob(w) \/ EndCycle(w) \/ ReadAttempts(w)
  PROVE  QueueSteps
<1>0. FeedTypes /\ FeedTypeOK
  BY DEF FeedInv, FeedTypes
<1>1. UNCHANGED <<jobs, sent, crashes>>
  BY DEF NextJob, EndCycle, ReadAttempts, tables
<1>2. QueueKeeps
  BY <1>1 DEF QueueKeeps
<1>3. \A e \in Events : \A v \in Workers :
        /\ Holds(v, e)' = Holds(v, e)
        /\ Holds(v, e) => Stage(v, e)' = Stage(v, e)
  <2>1. CASE NextJob(w)
    <3>1. PICK d \in claimed[w] : /\ pc[w] = "next" /\ pc' = [pc EXCEPT ![w] = "submit"]
                                  /\ job' = [job EXCEPT ![w] = {d}]
                                  /\ claimed' = [claimed EXCEPT ![w] = claimed[w] \ {d}]
      BY <2>1 DEF NextJob
    <3>2. job[w] = {}
      BY <1>0, <3>1 DEF FeedTypes, FeedWorkerOk, FeedBusy
    <3>3. job'[w] \cup claimed'[w] = claimed[w] /\ pc'[w] = "submit"
      BY <1>0, <3>1 DEF FeedTypeOK
    <3>4. \A v \in Workers : v # w => job'[v] = job[v] /\ claimed'[v] = claimed[v] /\ pc'[v] = pc[v]
      BY <1>0, <3>1 DEF FeedTypeOK
    <3> QED
      BY <3>2, <3>3, <3>4 DEF Holds, Stage
  <2>2. CASE EndCycle(w)
    <3>1. job[w] = {}
      BY <1>0, <2>2 DEF FeedTypes, FeedWorkerOk, FeedBusy, EndCycle
    <3> QED
      BY <1>0, <2>2, <3>1 DEF EndCycle, tables, Holds, Stage, FeedTypeOK
  <2>3. CASE ReadAttempts(w)
    BY <1>0, <2>3 DEF ReadAttempts, tables, Holds, Stage, FeedTypeOK
  <2> QED
    BY <2>1, <2>2, <2>3
<1>4. \A e \in Events \ Slow : JobState(e)' = JobState(e)
  BY <1>1, <1>3, StageFrame
<1> QED
  BY <1>2, <1>4, QueueStutters

\* A claim that is passed over grows stale.
LEMMA AgeIsQuiet ==
  ASSUME StagesOk, StagesOk', NEW d \in Events, Age(d)
  PROVE  QueueSteps
<1>1. UNCHANGED <<jobs, sent, pc, claimed, job, crashes>>
  BY DEF Age
<1>2. QueueKeeps /\ \A e, v : Holds(v, e)' = Holds(v, e) /\ Stage(v, e)' = Stage(v, e)
  BY <1>1 DEF QueueKeeps, Holds, Stage
<1>3. \A e \in Events \ Slow : JobState(e)' = JobState(e)
  BY <1>1, <1>2, StageFrame
<1> QED
  BY <1>2, <1>3, QueueStutters

\* A submission is a broadcast or a refusal of the job in hand.
LEMMA SubmitsOne ==
  ASSUME FeedInv, FeedClaims, StagesOk, StagesOk', NEW w \in Workers,
         SubmitReturns(w) \/ SubmitRaises(w)
  PROVE  QueueSteps
<1>0. FeedTypes /\ FeedTypeOK
  BY DEF FeedInv, FeedTypes
<1>1. PICK d \in Events :
        /\ job[w] = {d} /\ pc[w] = "submit"
        /\ UNCHANGED <<jobs, claimed, job, crashes>>
        /\ sent' = sent \/ sent' = [sent EXCEPT ![d] = @ + 1]
        /\ \/ pc' = [pc EXCEPT ![w] = "mark_done"]
           \/ pc' = [pc EXCEPT ![w] = "read_attempts"]
  BY <1>0, FeedBroadcast
<1>2. \A e \in Events : \A v \in Workers :
        /\ Holds(v, e)' = Holds(v, e)
        /\ e # d /\ Holds(v, e) => Stage(v, e)' = Stage(v, e)
  BY <1>0, <1>1 DEF Holds, Stage, FeedTypeOK
<1>3. \A e \in Events \ Slow : e # d => JobState(e)' = JobState(e)
  BY <1>1, <1>2, StageFrame
<1>4. \A e \in Events : e # d => sent'[e] = sent[e]
  BY <1>0, <1>1 DEF FeedTypeOK
<1>5. CASE d \in Slow
  <2>1. QueueKeeps
    BY <1>1, <1>4, <1>5 DEF QueueKeeps
  <2> QED
    BY <1>3, <1>5, <2>1, QueueStutters
<1>6. CASE d \notin Slow
  <2>1. Holds(w, d) /\ Stage(w, d) = "claimed" /\ Holds(w, d)' /\ d \notin claimed'[w]
    BY <1>0, <1>1 DEF Holds, Stage, FeedTypes, FeedWorkerOk
  <2>2. JobState(d) = "claimed" /\ JobState(d)' = Stage(w, d)'
    BY <1>6, <2>1 DEF StagesOk, StageOk
  <2>3. CASE SubmitReturns(w)
    <3>1. pc'[w] = "mark_done" /\ sent' = [sent EXCEPT ![d] = @ + 1]
      BY <1>0, <1>1, <2>3 DEF SubmitReturns, FeedTypeOK
    <3>2. JobState(d)' = "broadcast"
      BY <2>1, <2>2, <3>1 DEF Stage
    <3>3. \A e \in Events \ Slow : sent'[e] = IF e = d THEN sent[e] + 1 ELSE sent[e]
      BY <1>0, <3>1 DEF FeedTypeOK
    <3> QED
      BY <1>1, <1>3, <1>6, <2>2, <3>2, <3>3, QueueBroadcasts
  <2>4. CASE SubmitRaises(w)
    <3>1. pc'[w] = "read_attempts"
      BY <1>0, <2>4 DEF SubmitRaises, FeedTypeOK
    <3>2. JobState(d)' = "refused"
      BY <2>1, <2>2, <3>1 DEF Stage
    <3>3. \/ \A e \in Events \ Slow : sent'[e] = sent[e]
          \/ \A e \in Events \ Slow : sent'[e] = IF e = d THEN sent[e] + 1 ELSE sent[e]
      BY <1>0, <1>1 DEF FeedTypeOK
    <3> QED
      BY <1>1, <1>3, <1>6, <2>2, <3>2, <3>3, QueueRefuses
  <2> QED
    BY <2>3, <2>4
<1> QED
  BY <1>5, <1>6

\* A transaction that cannot be recorded is a failed attempt.
LEMMA MarkDoneRefuses ==
  ASSUME FeedInv, FeedClaims, StagesOk, StagesOk', NEW w \in Workers, MarkDoneRaises(w)
  PROVE  QueueSteps
<1>0. FeedTypes /\ FeedTypeOK /\ FeedWorkerOk(w)
  BY DEF FeedInv, FeedTypes
<1>1. /\ pc[w] = "mark_done" /\ pc' = [pc EXCEPT ![w] = "read_attempts"]
      /\ UNCHANGED <<jobs, sent, claimed, job, crashes>>
  BY DEF MarkDoneRaises, tables
<1>2. PICK d \in Events : job[w] = {d}
  BY <1>0, <1>1 DEF FeedWorkerOk, FeedBusy, FeedTypeOK
<1>3. \A e \in Events : \A v \in Workers :
        /\ Holds(v, e)' = Holds(v, e)
        /\ e # d /\ Holds(v, e) => Stage(v, e)' = Stage(v, e)
  BY <1>0, <1>1, <1>2 DEF Holds, Stage, FeedTypeOK
<1>4. \A e \in Events \ Slow : e # d => JobState(e)' = JobState(e)
  BY <1>1, <1>3, StageFrame
<1>5. CASE d \in Slow
  <2>1. QueueKeeps
    BY <1>1 DEF QueueKeeps
  <2> QED
    BY <1>4, <1>5, <2>1, QueueStutters
<1>6. CASE d \notin Slow
  <2>1. d \notin claimed[w] /\ pc'[w] = "read_attempts"
    BY <1>0, <1>1, <1>2 DEF FeedWorkerOk, FeedTypeOK
  <2>2. Holds(w, d) /\ Holds(w, d)' /\ Stage(w, d) = "broadcast" /\ Stage(w, d)' = "refused"
    BY <1>1, <1>2, <2>1 DEF Holds, Stage
  <2>3. JobState(d) = "broadcast" /\ JobState(d)' = "refused"
    BY <1>6, <2>2 DEF StagesOk, StageOk
  <2> QED
    BY <1>1, <1>4, <1>6, <2>3, QueueRefuses
<1> QED
  BY <1>5, <1>6

\* A recorded outcome settles the job in hand, or counts a failed attempt.
LEMMA OutcomeSettles ==
  ASSUME FeedInv, FeedClaims, FeedTypes', StagesOk, StagesOk', NEW w \in Workers,
         MarkDone(w) \/ MarkFailed(w)
  PROVE  QueueSteps
<1>0. FeedTypes /\ FeedTypeOK /\ FeedWorkerOk(w)
  BY DEF FeedInv, FeedTypes
<1>1. PICK d \in Events :
        /\ job[w] = {d} /\ job' = [job EXCEPT ![w] = {}] /\ pc' = [pc EXCEPT ![w] = "next"]
        /\ UNCHANGED <<overtaken, sent, claimed, crashes>>
        /\ \A e \in Events \ {d} : jobs'[e] = jobs[e]
        /\ jobs'[d].attempts = IF pc[w] = "mark_done" THEN jobs[d].attempts ELSE read[w]
        /\ \/ pc[w] = "mark_done" /\ jobs'[d].status = "done"
           \/ pc[w] = "mark_failed" /\ jobs'[d].status = Outcome(read[w])
  BY <1>0, FeedOutcome
<1>2. \A e \in Events : \A v \in Workers :
        e # d => /\ Holds(v, e)' = Holds(v, e)
                 /\ Holds(v, e) => Stage(v, e)' = Stage(v, e)
  BY <1>0, <1>1 DEF Holds, Stage, FeedTypeOK
<1>3. \A e \in Events \ Slow : e # d => JobState(e)' = JobState(e)
  BY <1>1, <1>2, StageFrame
<1>4. CASE d \in Slow
  <2>1. QueueKeeps
    BY <1>1, <1>4 DEF QueueKeeps
  <2> QED
    BY <1>3, <1>4, <2>1, QueueStutters
<1>5. CASE d \notin Slow
  <2>1. FeedClaimOk(d) /\ Holds(w, d) /\ d \notin claimed[w]
    BY <1>0, <1>1, <1>5 DEF FeedClaims, Holds, FeedWorkerOk
  <2>2. \A v \in Workers : ~Holds(v, d)'
    <3>1. \A v \in Workers : v # w => ~Holds(v, d)
      BY <2>1 DEF FeedClaimOk, Holds
    <3> QED
      BY <1>0, <1>1, <2>1, <3>1 DEF Holds, FeedTypeOK
  <2>3. JobState(d) = Stage(w, d)
    BY <1>5, <2>1 DEF StagesOk, StageOk
  <2>4. jobs'[d].status # "processing" => JobState(d)' = jobs'[d].status
    BY <1>5, <2>2 DEF StagesOk, StageOk
  <2>5. CASE pc[w] = "mark_done"
    <3>1. JobState(d) = "broadcast" /\ JobState(d)' = "done"
      BY <1>1, <2>1, <2>3, <2>4, <2>5 DEF Stage
    <3>2. QueueKeeps
      BY <1>1, <2>5 DEF QueueKeeps
    <3> QED
      BY <1>3, <1>5, <3>1, <3>2, QueueSucceeds
  <2>6. CASE pc[w] = "mark_failed"
    <3>1. JobState(d) = "refused"
      BY <2>1, <2>3, <2>6 DEF Stage
    <3>2. jobs'[d].status = Outcome(read[w]) /\ read[w] = jobs[d].attempts + 1
      BY <1>1, <2>1, <2>6 DEF FeedClaimOk
    <3>3. MaxAttempts \in Nat /\ jobs[d].attempts \in Nat
      BY <1>0, FeedConstants DEF FeedTypeOK, JobRow
    <3>4. \/ JobState(d)' = "failed"
          \/ JobState(d)' = "queued" /\ jobs[d].attempts + 1 < MaxAttempts
      BY <2>4, <3>2, <3>3 DEF Outcome
    <3>5. \A e \in Events \ Slow :
            /\ jobs'[e].attempts = IF e = d THEN jobs[e].attempts + 1 ELSE jobs[e].attempts
            /\ sent'[e] = sent[e]
      BY <1>1, <2>6, <3>2
    <3> QED
      BY <1>1, <1>3, <1>5, <3>1, <3>4, <3>5, QueueFails
  <2> QED
    BY <1>1, <2>5, <2>6
<1> QED
  BY <1>4, <1>5

\* A crash loses the claims of its worker and no other.
LEMMA CrashLoses ==
  ASSUME FeedInv, FeedClaims, StagesOk, StagesOk', NEW w \in Workers, Crash(w)
  PROVE  QueueSteps
<1>0. FeedTypes /\ FeedTypeOK
  BY DEF FeedInv, FeedTypes
<1>1. /\ crashes' = crashes + 1 /\ pc' = [pc EXCEPT ![w] = "idle"]
      /\ claimed' = [claimed EXCEPT ![w] = {}] /\ job' = [job EXCEPT ![w] = {}]
      /\ UNCHANGED <<jobs, sent>>
  BY DEF Crash, tables
<1>2. \A e \in Events : \A v \in Workers :
        /\ v # w => Holds(v, e)' = Holds(v, e) /\ Stage(v, e)' = Stage(v, e)
        /\ ~Holds(w, e)'
  BY <1>0, <1>1 DEF Holds, Stage, FeedTypeOK
<1>3. \A e \in Events \ Slow : ~Holds(w, e) => JobState(e)' = JobState(e)
  BY <1>1, <1>2, StageFrame
<1>4. ASSUME NEW e \in Events \ Slow, Holds(w, e)
      PROVE  JobState(e) \in {"claimed", "broadcast", "refused"} /\ JobState(e)' = "lost"
  <2>1. jobs[e].status = "processing" /\ \A v \in Workers : v # w => ~Holds(v, e)
    BY <1>4 DEF FeedClaims, FeedClaimOk, Holds
  <2>2. \A v \in Workers : ~Holds(v, e)'
    BY <1>2, <2>1
  <2> QED
    BY <1>1, <1>4, <2>1, <2>2 DEF StagesOk, StageOk, Stage
<1>5. PICK S \in SUBSET (Events \ Slow) : S = {e \in Events \ Slow : Holds(w, e)}
  OBVIOUS
<1> QED
  BY <1>1, <1>3, <1>4, <1>5, QueueLoses

\* Every step of the feed is a step of the queue, or leaves it alone.
LEMMA FeedStepsQueue ==
  ASSUME FeedInv, FeedInv', FeedClaims, StagesOk, StagesOk', [FeedNext]_feedVars
  PROVE  QueueSteps
<1>1. FeedTypes'
  BY DEF FeedInv
<1>2. CASE UNCHANGED feedVars
  <2>1. QueueKeeps /\ UNCHANGED jobs
        /\ \A e, v : Holds(v, e)' = Holds(v, e) /\ Stage(v, e)' = Stage(v, e)
    BY <1>2 DEF feedVars, QueueKeeps, Holds, Stage
  <2>2. \A e \in Events \ Slow : JobState(e)' = JobState(e)
    BY <2>1, StageFrame
  <2> QED
    BY <2>1, <2>2, QueueStutters
<1> QED
  BY <1>1, <1>2, InsertQueues, AgeIsQuiet, StartRecovers, ClaimClaims, QuietSteps, SubmitsOne,
     MarkDoneRefuses, OutcomeSettles, CrashLoses DEF FeedNext, Cycle

\* In the beginning every job is missing.
LEMMA FeedStartsQueue == FeedInit => Queue!Init
<1> SUFFICES ASSUME FeedInit PROVE Queue!Init
  OBVIOUS
<1>1. \A e \in Events \ Slow : JobState(e) = "missing"
  BY DEF FeedInit, JobState, InHands
<1> QED
  BY <1>1 DEF FeedInit, Queue!Init

\* For events whose claims go stale only after a crash, anchoring the public
\* feed implements the job queue of AnchorJobs.
THEOREM FeedKeepsQueue == FeedSpec => QueueIsKept
<1>1. FeedInv /\ FeedClaims /\ FeedInv' /\ FeedClaims' /\ StagesOk /\ StagesOk'
        /\ [FeedNext]_feedVars
        => [Queue!Next]_<<[e \in Events \ Slow |-> JobState(e)],
                          [e \in Events \ Slow |-> jobs[e].attempts],
                          [e \in Events \ Slow |-> sent[e]], crashes>>
  BY FeedStepsQueue DEF QueueSteps
<1> QED
  BY <1>1, FeedStages, FeedStartsQueue, FeedClaimsInvariance, PTL
     DEF FeedSpec, QueueIsKept, Queue!Spec

=============================================================================

------------------------ MODULE SigningCeremony_proofs ------------------------
(***************************************************************************)
(* Proofs about SigningCeremony, for every set of recipients and requests  *)
(* and every bound.                                                        *)
(***************************************************************************)
EXTENDS SigningCeremony, FiniteSetTheorems, TLAPS

-----------------------------------------------------------------------------
(* What the steps do to a request. *)

\* Arrive makes a new completion of the request.
LEMMA ArriveEffect ==
  ASSUME TypeOK, NEW q \in Requests, NEW s \in Signers, NEW body \in Copies,
         Arrive(q, "complete", s, body)
  PROVE  /\ req' \in [Requests -> Request]
         /\ req'[q].kind = "complete" /\ req'[q].by = s /\ req'[q].body = body
         /\ req'[q].pc = "arrived" /\ req'[q].full = FALSE
         /\ \A r \in Requests : r # q => req'[r] = req[r]
<1>1. Idle \in Request
  BY DEF Idle, Request, Kinds, Signers, Copies, PCs, Draft, SentDraft
<1>2. [Idle EXCEPT !.kind = "complete", !.by = s, !.body = body, !.pc = "arrived"] \in Request
  BY <1>1 DEF Request, Kinds, PCs
<1>3. /\ req' \in [Requests -> Request]
      /\ \A r \in Requests : r # q => req'[r] = req[r]
      /\ req'[q] = [Idle EXCEPT !.kind = "complete", !.by = s, !.body = body, !.pc = "arrived"]
  BY <1>2 DEF Arrive, TypeOK
<1> QED
  BY <1>3 DEF Idle

\* Goto forgets the pending write.
LEMMA GotoEffect ==
  ASSUME TypeOK, NEW q \in Requests, NEW step \in PCs, Goto(q, step)
  PROVE  /\ req' \in [Requests -> Request]
         /\ req'[q].pc = step /\ req'[q].next = SentDraft /\ req'[q].seen = 0
         /\ req'[q].kind = req[q].kind /\ req'[q].by = req[q].by /\ req'[q].body = req[q].body
         /\ req'[q].base = req[q].base /\ req'[q].full = req[q].full
         /\ \A r \in Requests : r # q => req'[r] = req[r]
<1>1. req \in [Requests -> Request] /\ req[q] \in Request
  BY DEF TypeOK
<1>2. SentDraft \in Draft
  BY DEF SentDraft, Draft
<1>3. [req[q] EXCEPT !.next = SentDraft, !.seen = 0, !.pc = step] \in Request
  BY <1>1, <1>2 DEF Request
<1>4. req' = [req EXCEPT ![q] = [req[q] EXCEPT !.next = SentDraft, !.seen = 0, !.pc = step]]
  BY <1>1 DEF Goto, Request
<1>5. req'[q] = [req[q] EXCEPT !.next = SentDraft, !.seen = 0, !.pc = step]
      /\ req' \in [Requests -> Request] /\ \A r \in Requests : r # q => req'[r] = req[r]
  BY <1>1, <1>3, <1>4
<1> QED
  BY <1>1, <1>5 DEF Request

\* Prepare notes the write.
LEMMA PrepareEffect ==
  ASSUME TypeOK, NEW q \in Requests, NEW d \in Draft, NEW rev \in Nat, NEW step \in PCs,
         Prepare(q, d, rev, step)
  PROVE  /\ req' \in [Requests -> Request]
         /\ req'[q].pc = step /\ req'[q].next = d /\ req'[q].seen = rev
         /\ req'[q].kind = req[q].kind /\ req'[q].by = req[q].by /\ req'[q].body = req[q].body
         /\ req'[q].base = SentDraft /\ req'[q].full = req[q].full
         /\ \A r \in Requests : r # q => req'[r] = req[r]
<1>1. req \in [Requests -> Request] /\ req[q] \in Request
  BY DEF TypeOK
<1>2. SentDraft \in Draft
  BY DEF SentDraft, Draft
<1>3. [req[q] EXCEPT !.base = SentDraft, !.next = d, !.seen = rev, !.pc = step] \in Request
  BY <1>1, <1>2 DEF Request
<1>4. req' = [req EXCEPT ![q] = [req[q] EXCEPT !.base = SentDraft, !.next = d, !.seen = rev, !.pc = step]]
  BY <1>1 DEF Prepare, Request
<1>5. req'[q] = [req[q] EXCEPT !.base = SentDraft, !.next = d, !.seen = rev, !.pc = step]
      /\ req' \in [Requests -> Request] /\ \A r \in Requests : r # q => req'[r] = req[r]
  BY <1>1, <1>3, <1>4
<1> QED
  BY <1>1, <1>5 DEF Request

\* Answer leaves the answer of a completion, or nothing.
LEMMA AnswerEffect ==
  ASSUME TypeOK, NEW q \in Requests, NEW full \in BOOLEAN, Answer(q, full)
  PROVE  /\ req' \in [Requests -> Request]
         /\ req'[q].kind = "complete" /\ req'[q].body = "clean"
         /\ req'[q].pc = IF req[q].kind = "complete" THEN "answered" ELSE "idle"
         /\ req'[q].full => full
         /\ \A r \in Requests : r # q => req'[r] = req[r]
         /\ lock' \in Requests \cup {None}
         /\ \A r \in Requests : lock = r /\ r # q => lock' = r
<1>1. Idle \in Request
  BY DEF Idle, Request, Kinds, Signers, Copies, PCs, Draft, SentDraft
<1>2. [Idle EXCEPT !.pc = "answered", !.full = full] \in Request
  BY <1>1 DEF Request, PCs
<1>3. lock' \in Requests \cup {None} /\ \A r \in Requests : lock = r /\ r # q => lock' = r
  BY DEF Answer, Release, TypeOK
<1>4. /\ req' \in [Requests -> Request]
      /\ \A r \in Requests : r # q => req'[r] = req[r]
      /\ req'[q] = IF req[q].kind = "complete"
                     THEN [Idle EXCEPT !.pc = "answered", !.full = full] ELSE Idle
  BY <1>1, <1>2 DEF Answer, TypeOK
<1> QED
  BY <1>3, <1>4 DEF Idle

-----------------------------------------------------------------------------
(* Type correctness. *)

\* The drafts that the handlers compute are drafts.
LEMMA DraftTypes ==
  ASSUME TypeOK, NEW q \in Requests
  PROVE  /\ draft \in Draft /\ req[q] \in Request
         /\ SentDraft \in Draft
         /\ Merged(q) \in Draft /\ RegistrySeen(q) \in Draft
         /\ Preserving(req[q].next) \in Draft
         /\ [draft EXCEPT !.snap = TRUE] \in Draft
         /\ [draft EXCEPT !.evidence = TRUE] \in Draft
         /\ [draft EXCEPT !.emailed = TRUE] \in Draft
         /\ [draft EXCEPT !.active = FALSE, !.live = {}, !.rev = @ + 1] \in Draft
<1>1. draft \in Draft /\ req[q] \in Request
  BY DEF TypeOK
<1>2. req[q].base \in Draft /\ req[q].next \in Draft /\ req[q].by \in Signers
  BY <1>1 DEF Request
<1>3. SentDraft \in Draft
  BY DEF SentDraft, Draft
<1>4. Merged(q) \in Draft
  BY <1>1, <1>2 DEF Merged, Draft
<1>5. RegistrySeen(q) \in Draft
  BY <1>1, <1>2 DEF RegistrySeen
<1>6. Preserving(req[q].next) \in Draft
  BY <1>1, <1>2 DEF Preserving, Draft
<1>7. /\ [draft EXCEPT !.snap = TRUE] \in Draft
      /\ [draft EXCEPT !.evidence = TRUE] \in Draft
      /\ [draft EXCEPT !.emailed = TRUE] \in Draft
  BY <1>1 DEF Draft
<1>8. [draft EXCEPT !.active = FALSE, !.live = {}, !.rev = @ + 1] \in Draft
  <2>1. draft.rev + 1 \in Nat
    BY <1>1 DEF Draft
  <2>2. \A n \in Nat : [draft EXCEPT !.active = FALSE, !.live = {}, !.rev = n] \in Draft
    BY <1>1 DEF Draft
  <2> QED
    BY <2>1, <2>2
<1> QED
  BY <1>1, <1>3, <1>4, <1>5, <1>6, <1>7, <1>8

\* What Merge prepares.
NextOf(q) ==
  LET seen == RegistrySeen(q)
      next == [Merged(q) EXCEPT !.live = seen.live, !.rev = seen.rev]
  IN  IF req[q].by = Owner THEN next ELSE Spent(next, req[q].by)

\* It is a draft, and the revision it was computed for is a number.
LEMMA MergeTypes ==
  ASSUME TypeOK, NEW q \in Requests
  PROVE  NextOf(q) \in Draft /\ RegistrySeen(q).rev \in Nat
<1>1. Merged(q) \in Draft /\ RegistrySeen(q) \in Draft
  BY DraftTypes
<1>2. [Merged(q) EXCEPT !.live = RegistrySeen(q).live, !.rev = RegistrySeen(q).rev] \in Draft
  BY <1>1 DEF Draft
<1>3. ASSUME NEW d \in Draft PROVE Spent(d, req[q].by) \in Draft
  <2>1. d.rev + 1 \in Nat /\ d.live \ {req[q].by} \in SUBSET Recipients
    BY DEF Draft
  <2>2. \A n \in Nat, l \in SUBSET Recipients : [d EXCEPT !.live = l, !.rev = n] \in Draft
    BY DEF Draft
  <2> QED
    BY <2>1, <2>2 DEF Spent
<1>4. RegistrySeen(q).rev \in Nat
  BY <1>1 DEF Draft
<1> QED
  BY <1>2, <1>3, <1>4 DEF NextOf

\* What may build a snapshot again counts it.
LEMMA RebuildTypes ==
  ASSUME TypeOK, rebuilds' = rebuilds \/ Rebuild
  PROVE  /\ rebuilds' \in Nat /\ rebuilds \in Nat
         /\ rebuilds' = rebuilds \/ (draft.snap /\ rebuilds' = rebuilds + 1)
<1>1. rebuilds \in Nat
  BY DEF TypeOK
<1>2. rebuilds' = rebuilds \/ (draft.snap /\ rebuilds' = rebuilds + 1)
  BY DEF Rebuild
<1> QED
  BY <1>1, <1>2

\* The steps of a request keep the types.
LEMMA ServeTypes ==
  ASSUME TypeOK, NEW q \in Requests, Serve(q)
  PROVE  TypeOK'
<1> USE DEF browser, counts, server
<1>1. CASE Authorize(q)
  <2>1. CASE Goto(q, "queued") /\ UNCHANGED lock
    <3>1. req' \in [Requests -> Request]
      BY <2>1, GotoEffect DEF PCs
    <3> QED
      BY <1>1, <2>1, <3>1 DEF Authorize, TypeOK
  <2>2. CASE Refuse(q)
    <3>1. req' \in [Requests -> Request] /\ lock' \in Requests \cup {None}
      BY <2>2, AnswerEffect DEF Refuse
    <3> QED
      BY <1>1, <3>1 DEF Authorize, TypeOK
  <2> QED
    BY <1>1, <2>1, <2>2 DEF Authorize
<1>2. CASE Begin(q)
  <2>1. CASE req' = [req EXCEPT ![q].pc = "merge", ![q].base = draft] /\ lock' = q
    <3>1. [req[q] EXCEPT !.pc = "merge", !.base = draft] \in Request
      BY DraftTypes DEF Request, PCs, Locked
    <3>2. req' = [req EXCEPT ![q] = [req[q] EXCEPT !.pc = "merge", !.base = draft]]
      BY <2>1 DEF TypeOK, Request
    <3>3. req' \in [Requests -> Request]
      BY <3>1, <3>2 DEF TypeOK
    <3> QED
      BY <1>2, <2>1, <3>3 DEF Begin, TypeOK
  <2>2. CASE Refuse(q)
    <3>1. req' \in [Requests -> Request] /\ lock' \in Requests \cup {None}
      BY <2>2, AnswerEffect DEF Refuse
    <3> QED
      BY <1>2, <3>1 DEF Begin, TypeOK
  <2> QED
    BY <1>2, <2>1, <2>2 DEF Begin
<1>3. CASE Merge(q)
  <2>1. Prepare(q, NextOf(q), RegistrySeen(q).rev, "store")
    BY <1>3 DEF Merge, NextOf
  <2>2. req' \in [Requests -> Request]
    BY <2>1, MergeTypes, PrepareEffect DEF PCs, Locked
  <2> QED
    BY <1>3, <2>2 DEF Merge, TypeOK
<1>4. CASE Store(q)
  <2>1. draft' \in Draft
    BY <1>4, DraftTypes DEF Store, Stored, Request
  <2>2. req' \in [Requests -> Request] /\ lock' \in Requests \cup {None}
    <3>1. CASE Goto(q, "snapshot") /\ UNCHANGED lock
      BY <3>1, GotoEffect DEF TypeOK, PCs, Locked
    <3>2. CASE Answer(q, FALSE)
      BY <3>2, AnswerEffect
    <3> QED
      BY <1>4, <3>1, <3>2 DEF Store
  <2> QED
    BY <1>4, <2>1, <2>2 DEF Store, TypeOK
<1>5. CASE StoreConflicts(q)
  <2>1. req' \in [Requests -> Request] /\ lock' \in Requests \cup {None}
    BY <1>5, AnswerEffect DEF StoreConflicts, Refuse
  <2> QED
    BY <1>5, <2>1 DEF StoreConflicts, TypeOK
<1>6. CASE SnapshotStage(q)
  <2>1. req' \in [Requests -> Request]
    <3>1. CASE Goto(q, "evidence")
      BY <3>1, GotoEffect DEF PCs, Locked
    <3>2. CASE Prepare(q, [draft EXCEPT !.snap = TRUE], draft.rev, "snapshot_write")
      BY <3>2, DraftTypes, PrepareEffect DEF PCs, Locked, Draft
    <3> QED
      BY <1>6, <3>1, <3>2 DEF SnapshotStage
  <2>2. rebuilds' \in Nat
    <3>1. rebuilds' = rebuilds \/ Rebuild
      BY <1>6 DEF SnapshotStage
    <3> QED
      BY <3>1, RebuildTypes
  <2> QED
    BY <1>6, <2>1, <2>2 DEF SnapshotStage, TypeOK
<1>7. CASE EvidenceStage(q)
  <2>1. req' \in [Requests -> Request]
    <3>1. CASE Goto(q, "emails")
      BY <3>1, GotoEffect DEF PCs, Locked
    <3>2. CASE Prepare(q, [draft EXCEPT !.evidence = TRUE], draft.rev, "evidence_write")
      BY <3>2, DraftTypes, PrepareEffect DEF PCs, Locked, Draft
    <3> QED
      BY <1>7, <3>1, <3>2 DEF EvidenceStage
  <2> QED
    BY <1>7, <2>1 DEF EvidenceStage, TypeOK
<1>8. CASE EmailStage(q)
  <2>1. req' \in [Requests -> Request] /\ lock' \in Requests \cup {None}
    <3>1. CASE Answer(q, TRUE)
      BY <3>1, AnswerEffect
    <3>2. CASE Goto(q, "record") /\ UNCHANGED lock
      BY <3>2, GotoEffect DEF TypeOK, PCs, Locked
    <3> QED
      BY <1>8, <3>1, <3>2 DEF EmailStage
  <2>2. mailed' \in Nat
    <3>1. mailed \in Nat
      BY DEF TypeOK
    <3>2. mailed' = mailed \/ mailed' = mailed + 1
      BY <1>8 DEF EmailStage
    <3> QED
      BY <3>1, <3>2
  <2> QED
    BY <1>8, <2>1, <2>2 DEF EmailStage, TypeOK
<1>9. CASE RecordStage(q)
  <2>1. req' \in [Requests -> Request] /\ lock' \in Requests \cup {None}
    <3>1. CASE Answer(q, TRUE)
      BY <3>1, AnswerEffect
    <3>2. CASE Prepare(q, [draft EXCEPT !.emailed = TRUE], draft.rev, "record_write") /\ UNCHANGED lock
      BY <3>2, DraftTypes, PrepareEffect DEF TypeOK, PCs, Locked, Draft
    <3> QED
      BY <1>9, <3>1, <3>2 DEF RecordStage
  <2> QED
    BY <1>9, <2>1 DEF RecordStage, TypeOK
<1>10. CASE WriteStage(q)
  <2>1. draft' \in Draft
    BY <1>10, DraftTypes DEF WriteStage
  <2>2. req' \in [Requests -> Request] /\ lock' \in Requests \cup {None}
    <3>1. ASSUME NEW step \in {"evidence", "emails", "mail_queued"}, Goto(q, step), UNCHANGED lock
          PROVE  req' \in [Requests -> Request] /\ lock' \in Requests \cup {None}
      BY <3>1, GotoEffect DEF TypeOK, PCs, Locked
    <3>2. ASSUME NEW full \in BOOLEAN, Answer(q, full)
          PROVE  req' \in [Requests -> Request] /\ lock' \in Requests \cup {None}
      BY <3>2, AnswerEffect
    <3> QED
      BY <1>10, <3>1, <3>2 DEF WriteStage, Refuse
  <2> QED
    BY <1>10, <2>1, <2>2 DEF WriteStage, TypeOK
<1>11. CASE EnsureLock(q)
  <2>1. req' \in [Requests -> Request]
    BY <1>11, GotoEffect DEF EnsureLock, PCs, Locked
  <2> QED
    BY <1>11, <2>1 DEF EnsureLock, TypeOK
<1>12. CASE Unread(q)
  <2>1. Idle \in Request
    BY DraftTypes DEF Idle, Request, Kinds, Signers, Copies, PCs
  <2> QED
    BY <1>12, <2>1 DEF Unread, TypeOK
<1> QED
  BY <1>1, <1>2, <1>3, <1>4, <1>5, <1>6, <1>7, <1>8, <1>9, <1>10, <1>11, <1>12 DEF Serve

\* The steps of the owner's other requests keep the types.
LEMMA OwnerTypes ==
  ASSUME TypeOK, NEW q \in Requests, Cancel(q) \/ EnsureSnapshot(q)
  PROVE  TypeOK'
<1> USE DEF browser, counts, server
<1>1. Owner \in Signers /\ "clean" \in Copies /\ {"cancel", "ensure"} \subseteq Kinds
      /\ {"store", "mail_queued", "snapshot_write"} \subseteq PCs
  BY DEF Signers, Copies, Kinds, PCs, Locked
<1>2. ASSUME NEW d \in Draft, NEW k \in Kinds, NEW step \in PCs, NEW rev \in Nat
      PROVE  [Idle EXCEPT !.kind = k, !.pc = step, !.seen = rev, !.next = d] \in Request
  BY <1>1, DraftTypes DEF Idle, Request
<1>3. ASSUME NEW k \in Kinds, NEW step \in PCs
      PROVE  [Idle EXCEPT !.kind = k, !.pc = step] \in Request
  BY <1>1, DraftTypes DEF Idle, Request
<1>4. draft.rev \in Nat
  BY DraftTypes DEF Draft
<1>5. CASE Cancel(q)
  <2>1. [Idle EXCEPT !.kind = "cancel", !.pc = "store", !.seen = draft.rev,
           !.next = [draft EXCEPT !.active = FALSE, !.live = {}, !.rev = @ + 1]] \in Request
    BY <1>1, <1>2, <1>4, DraftTypes
  <2>2. req' \in [Requests -> Request]
    BY <1>5, <2>1 DEF Cancel, TypeOK
  <2>3. cancels' \in Nat
    <3>1. cancels \in Nat
      BY DEF TypeOK
    <3>2. cancels' = cancels + 1
      BY <1>5 DEF Cancel
    <3> QED
      BY <3>1, <3>2
  <2> QED
    BY <1>5, <2>2, <2>3 DEF Cancel, TypeOK
<1>6. CASE EnsureSnapshot(q)
  <2>1. [Idle EXCEPT !.kind = "ensure", !.pc = "mail_queued"] \in Request
    BY <1>1, <1>3
  <2>2. [Idle EXCEPT !.kind = "ensure", !.pc = "snapshot_write", !.seen = draft.rev,
           !.next = [draft EXCEPT !.snap = TRUE]] \in Request
    BY <1>1, <1>2, <1>4, DraftTypes
  <2>3. req' \in [Requests -> Request]
    BY <1>6, <2>1, <2>2 DEF EnsureSnapshot, TypeOK
  <2>4. rebuilds' \in Nat
    <3>1. rebuilds' = rebuilds \/ Rebuild
      BY <1>6 DEF EnsureSnapshot
    <3> QED
      BY <3>1, RebuildTypes
  <2> QED
    BY <1>6, <2>3, <2>4 DEF EnsureSnapshot, TypeOK
<1> QED
  BY <1>5, <1>6

\* What a page shows after a completion is well typed.
LEMMA SettleTypes ==
  ASSUME TypeOK, NEW s \in Signers, NEW full \in BOOLEAN, Settle(s, full)
  PROVE  /\ page' \in [Signers -> {"closed", "open", "sending", "retrying", "finished"}]
         /\ marks' \in [Signers -> SUBSET Signers]
         /\ awaits' \in [Signers -> Requests \cup {None}]
<1>1. Marked(s, full) \in SUBSET Signers
  BY DEF Marked, TypeOK
<1> QED
  BY <1>1 DEF Settle, TypeOK

\* The steps of the browsers keep the types.
LEMMA BrowserTypes ==
  ASSUME TypeOK, NEW s \in Signers
  PROVE  /\ Open(s) \/ OpenRefused(s) => TypeOK'
         /\ \A q \in Requests :
              Finish(s, q) \/ Receive(s, q) \/ PostAgain(s, q) \/ Disconnect(s, q) => TypeOK'
<1> USE DEF browser, counts, server
<1>1. StampedCopy(s) \in Copies
  BY DEF StampedCopy, Copies, TypeOK
<1>2. Idle \in Request
  BY DraftTypes DEF Idle, Request, Kinds, Signers, Copies, PCs, SentDraft, Draft
<1>3. ASSUME Open(s) PROVE TypeOK'
  <2>1. marks' \in [Signers -> SUBSET Signers]
    BY <1>3 DEF Open, TypeOK
  <2>2. copy' \in [Signers -> Copies]
    BY <1>3 DEF Open, TypeOK, Copies
  <2> QED
    BY <1>3, <2>1, <2>2 DEF Open, TypeOK
<1>4. ASSUME OpenRefused(s) PROVE TypeOK'
  BY <1>4 DEF OpenRefused, TypeOK
<1>5. ASSUME NEW q \in Requests, Finish(s, q) PROVE TypeOK'
  <2>1. req' \in [Requests -> Request]
    BY <1>1, <1>5, ArriveEffect DEF Finish
  <2> QED
    BY <1>1, <1>5, <2>1 DEF Finish, TypeOK
<1>6. ASSUME NEW q \in Requests, Receive(s, q) PROVE TypeOK'
  <2>1. (req[q].full \/ page[s] = "retrying") \in BOOLEAN
    OBVIOUS
  <2>2. Settle(s, req[q].full \/ page[s] = "retrying")
    BY <1>6 DEF Receive
  <2>3. /\ page' \in [Signers -> {"closed", "open", "sending", "retrying", "finished"}]
        /\ marks' \in [Signers -> SUBSET Signers]
        /\ awaits' \in [Signers -> Requests \cup {None}]
    BY <2>1, <2>2, SettleTypes
  <2>4. req' \in [Requests -> Request]
    BY <1>2, <1>6 DEF Receive, TypeOK
  <2> QED
    BY <1>6, <2>3, <2>4 DEF Receive, TypeOK
<1>7. ASSUME NEW q \in Requests, PostAgain(s, q) PROVE TypeOK'
  <2>1. req' \in [Requests -> Request]
    BY <1>1, <1>7, ArriveEffect DEF PostAgain
  <2> QED
    BY <1>1, <1>7, <2>1 DEF PostAgain, TypeOK
<1>8. ASSUME NEW q \in Requests, Disconnect(s, q) PROVE TypeOK'
  <2>1. (page[s] = "retrying") \in BOOLEAN
    OBVIOUS
  <2>2. Settle(s, page[s] = "retrying")
    BY <1>8 DEF Disconnect
  <2>3. /\ page' \in [Signers -> {"closed", "open", "sending", "retrying", "finished"}]
        /\ marks' \in [Signers -> SUBSET Signers]
        /\ awaits' \in [Signers -> Requests \cup {None}]
    BY <2>1, <2>2, SettleTypes
  <2>4. req' \in [Requests -> Request]
    <3>1. [req EXCEPT ![q] = Idle] \in [Requests -> Request]
      BY <1>2 DEF TypeOK
    <3> QED
      BY <1>8, <3>1 DEF Disconnect, TypeOK
  <2>5. faults' \in Nat
    <3>1. faults \in Nat
      BY DEF TypeOK
    <3>2. faults' = faults + 1
      BY <1>8 DEF Disconnect
    <3> QED
      BY <3>1, <3>2
  <2> QED
    BY <1>8, <2>3, <2>4, <2>5 DEF Disconnect, TypeOK
<1> QED
  BY <1>3, <1>4, <1>5, <1>6, <1>7, <1>8

\* Every step keeps the types.
LEMMA TypeStep == TypeOK /\ [Next]_vars => TypeOK'
<1> SUFFICES ASSUME TypeOK, [Next]_vars PROVE TypeOK'
  OBVIOUS
<1> USE DEF browser, counts, server
<1>1. CASE UNCHANGED vars
  BY <1>1 DEF vars, TypeOK
<1>2. CASE OwnerRefresh
  BY <1>2, DraftTypes DEF OwnerRefresh, TypeOK, Draft
<1>3. CASE Crash
  <2>1. Idle \in Request
    BY DEF Idle, Request, Kinds, Signers, Copies, PCs, SentDraft, Draft
  <2>2. marks' \in [Signers -> SUBSET Signers]
    BY <1>3 DEF Crash, TypeOK, Marked
  <2>3. faults' \in Nat
    <3>1. faults \in Nat
      BY DEF TypeOK
    <3>2. faults' = faults + 1
      BY <1>3 DEF Crash
    <3> QED
      BY <3>1, <3>2
  <2>4. page' \in [Signers -> {"closed", "open", "sending", "retrying", "finished"}]
    BY <1>3 DEF Crash, TypeOK
  <2> QED
    BY <1>3, <2>1, <2>2, <2>3, <2>4 DEF Crash, TypeOK
<1> QED
  BY <1>1, <1>2, <1>3, ServeTypes, OwnerTypes, BrowserTypes DEF Next

\* The ceremony starts in a typed state.
LEMMA TypeInit == Init => TypeOK
<1>1. Idle \in Request /\ SentDraft \in Draft
  BY DEF Idle, Request, Kinds, Signers, Copies, PCs, SentDraft, Draft
<1> QED
  BY <1>1 DEF Init, TypeOK, Copies

\* The types hold in every state of the ceremony.
THEOREM TypeCorrect == Spec => []TypeOK
  BY TypeInit, TypeStep, PTL DEF Spec

-----------------------------------------------------------------------------
(* The lock. *)

\* Two writes are under way without the lock: that of a cancellation, and that
\* of the snapshot which the owner asks for.
Cancelling(x) == x.kind = "cancel" /\ x.pc = "store"
Ensuring(x) == x.kind = "ensure" /\ x.pc = "snapshot_write"

\* A request x holds the lock.
Holding(x) == x.pc \in Locked /\ ~Cancelling(x) /\ ~Ensuring(x)

\* Where requests of each kind can be.
KindOk(x) ==
  /\ x.pc \in {"idle", "arrived", "queued", "merge", "snapshot", "evidence",
               "evidence_write", "answered"} => x.kind = "complete"
  /\ x.pc = "store" => x.kind \in {"complete", "cancel"}
  /\ x.pc = "snapshot_write" => x.kind \in {"complete", "ensure"}
  /\ x.pc = "mail_queued" => x.kind = "ensure"
  /\ x.pc \in {"emails", "record", "record_write"} => x.kind \in {"complete", "ensure"}

LockInv == \A q \in Requests : KindOk(req[q]) /\ (Holding(req[q]) => lock = q)

\* A step of one request leaves the lock of the others alone.
LEMMA LockFrame ==
  ASSUME LockInv, NEW q \in Requests,
         \A r \in Requests : r # q => req'[r] = req[r],
         \A r \in Requests : lock = r /\ r # q => lock' = r,
         KindOk(req'[q]), Holding(req'[q]) => lock' = q
  PROVE  LockInv'
<1>1. ASSUME NEW r \in Requests PROVE KindOk(req'[r]) /\ (Holding(req'[r]) => lock' = r)
  BY DEF LockInv
<1> QED
  BY <1>1 DEF LockInv

\* A request that is idle or answered is of the kind Idle has, and holds no lock.
LEMMA AnswerLocks ==
  ASSUME TypeOK, LockInv, NEW q \in Requests, NEW full \in BOOLEAN, Answer(q, full)
  PROVE  LockInv'
<1>1. KindOk(req'[q]) /\ ~Holding(req'[q])
  BY AnswerEffect DEF Idle, KindOk, Holding, Locked
<1> QED
  BY <1>1, AnswerEffect, LockFrame

\* A request that moves on without the lock changing hands.
LEMMA MoveLocks ==
  ASSUME LockInv, NEW q \in Requests, lock' = lock,
         \A r \in Requests : r # q => req'[r] = req[r],
         KindOk(req'[q]), Holding(req'[q]) => Holding(req[q])
  PROVE  LockInv'
  BY LockFrame DEF LockInv

\* The lock excludes: each request that writes under it has it.
LEMMA LockStep == TypeOK /\ LockInv /\ [Next]_vars => LockInv'
<1> SUFFICES ASSUME TypeOK, LockInv, [Next]_vars PROVE LockInv'
  OBVIOUS
<1> USE DEF browser, counts, server
<1>0. /\ KindOk(Idle) /\ ~Holding(Idle)
  BY DEF Idle, KindOk, Holding, Locked
<1>1. CASE UNCHANGED vars \/ OwnerRefresh \/ \E s \in Signers : Open(s) \/ OpenRefused(s)
  BY <1>1 DEF vars, OwnerRefresh, Open, OpenRefused, LockInv
<1>2. CASE Crash
  BY <1>0, <1>2 DEF Crash, LockInv
<1>3. ASSUME NEW q \in Requests, Serve(q) PROVE LockInv'
  <2>1. KindOk(req[q]) /\ (Holding(req[q]) => lock = q) /\ req[q] \in Request
    BY DEF LockInv, TypeOK
  <2>2. CASE Authorize(q)
    <3>1. CASE Goto(q, "queued") /\ UNCHANGED lock
      <4>1. req'[q].pc = "queued" /\ req'[q].kind = req[q].kind
            /\ \A r \in Requests : r # q => req'[r] = req[r]
        BY <3>1, GotoEffect DEF PCs
      <4>2. KindOk(req'[q]) /\ (Holding(req'[q]) => Holding(req[q]))
        BY <2>1, <2>2, <3>1, <4>1 DEF Authorize, KindOk, Holding, Locked, Cancelling, Ensuring
      <4> QED
        BY <2>2, <3>1, <4>1, <4>2, MoveLocks DEF Authorize
    <3> QED
      BY <2>2, <3>1, AnswerLocks DEF Authorize, Refuse
  <2>3. CASE Begin(q)
    <3>1. CASE req' = [req EXCEPT ![q].pc = "merge", ![q].base = draft] /\ lock' = q
      <4>1. req'[q].pc = "merge" /\ req'[q].kind = "complete"
        BY <2>1, <2>3, <3>1 DEF Begin, KindOk, TypeOK, Request
      <4>2. KindOk(req'[q])
        BY <4>1 DEF KindOk
      <4>3. \A r \in Requests : lock # r
        BY <2>3, CeremonyAssumption DEF Begin
      <4>4. \A r \in Requests : r # q => req'[r] = req[r]
        BY <3>1 DEF TypeOK
      <4> QED
        BY <3>1, <4>2, <4>3, <4>4, LockFrame
    <3> QED
      BY <2>3, <3>1, AnswerLocks DEF Begin, Refuse
  <2>4. CASE Merge(q)
    <3>1. Prepare(q, NextOf(q), RegistrySeen(q).rev, "store") /\ lock' = lock
      BY <2>4 DEF Merge, NextOf
    <3>2. req'[q].pc = "store" /\ req'[q].kind = req[q].kind
          /\ \A r \in Requests : r # q => req'[r] = req[r]
      BY <3>1, MergeTypes, PrepareEffect DEF PCs, Locked
    <3>3. KindOk(req'[q]) /\ (Holding(req'[q]) => Holding(req[q]))
      BY <2>1, <2>4, <3>2 DEF Merge, KindOk, Holding, Locked, Cancelling, Ensuring
    <3> QED
      BY <3>1, <3>2, <3>3, MoveLocks
  <2>5. CASE Store(q)
    <3>1. CASE req[q].kind = "complete" /\ Goto(q, "snapshot") /\ UNCHANGED lock
      <4>1. req'[q].pc = "snapshot" /\ req'[q].kind = req[q].kind
            /\ \A r \in Requests : r # q => req'[r] = req[r]
        BY <3>1, GotoEffect DEF PCs, Locked
      <4>2. KindOk(req'[q]) /\ (Holding(req'[q]) => Holding(req[q]))
        BY <2>1, <2>5, <3>1, <4>1 DEF Store, KindOk, Holding, Locked, Cancelling, Ensuring
      <4> QED
        BY <2>5, <3>1, <4>1, <4>2, MoveLocks DEF Store
    <3> QED
      BY <2>5, <3>1, AnswerLocks DEF Store
  <2>6. CASE StoreConflicts(q)
    BY <2>6, AnswerLocks DEF StoreConflicts, Refuse
  <2>7. CASE SnapshotStage(q)
    <3>0. draft.rev \in Nat
      BY DraftTypes DEF Draft
    <3>1. CASE Goto(q, "evidence")
      <4>1. req'[q].pc = "evidence" /\ req'[q].kind = req[q].kind
            /\ \A r \in Requests : r # q => req'[r] = req[r]
        BY <3>1, GotoEffect DEF PCs, Locked
      <4>2. KindOk(req'[q]) /\ (Holding(req'[q]) => Holding(req[q]))
        BY <2>1, <2>7, <3>1, <4>1 DEF SnapshotStage, KindOk, Holding, Locked, Cancelling, Ensuring
      <4> QED
        BY <2>7, <3>1, <4>1, <4>2, MoveLocks DEF SnapshotStage
    <3>2. CASE Prepare(q, [draft EXCEPT !.snap = TRUE], draft.rev, "snapshot_write")
      <4>0. PICK d \in Draft : d = [draft EXCEPT !.snap = TRUE]
        BY DraftTypes
      <4>1. req'[q].pc = "snapshot_write" /\ req'[q].kind = req[q].kind
            /\ \A r \in Requests : r # q => req'[r] = req[r]
        BY <3>2, <3>0, <4>0, PrepareEffect DEF PCs, Locked
      <4>2. KindOk(req'[q]) /\ (Holding(req'[q]) => Holding(req[q]))
        BY <2>1, <2>7, <3>2, <4>1 DEF SnapshotStage, KindOk, Holding, Locked, Cancelling, Ensuring
      <4> QED
        BY <2>7, <3>2, <4>1, <4>2, MoveLocks DEF SnapshotStage
    <3> QED
      BY <2>7, <3>1, <3>2 DEF SnapshotStage
  <2>8. CASE EvidenceStage(q)
    <3>0. draft.rev \in Nat
      BY DraftTypes DEF Draft
    <3>1. CASE Goto(q, "emails")
      <4>1. req'[q].pc = "emails" /\ req'[q].kind = req[q].kind
            /\ \A r \in Requests : r # q => req'[r] = req[r]
        BY <3>1, GotoEffect DEF PCs, Locked
      <4>2. KindOk(req'[q]) /\ (Holding(req'[q]) => Holding(req[q]))
        BY <2>1, <2>8, <3>1, <4>1 DEF EvidenceStage, KindOk, Holding, Locked, Cancelling, Ensuring
      <4> QED
        BY <2>8, <3>1, <4>1, <4>2, MoveLocks DEF EvidenceStage
    <3>2. CASE Prepare(q, [draft EXCEPT !.evidence = TRUE], draft.rev, "evidence_write")
      <4>0. PICK d \in Draft : d = [draft EXCEPT !.evidence = TRUE]
        BY DraftTypes
      <4>1. req'[q].pc = "evidence_write" /\ req'[q].kind = req[q].kind
            /\ \A r \in Requests : r # q => req'[r] = req[r]
        BY <3>2, <3>0, <4>0, PrepareEffect DEF PCs, Locked
      <4>2. KindOk(req'[q]) /\ (Holding(req'[q]) => Holding(req[q]))
        BY <2>1, <2>8, <3>2, <4>1 DEF EvidenceStage, KindOk, Holding, Locked, Cancelling, Ensuring
      <4> QED
        BY <2>8, <3>2, <4>1, <4>2, MoveLocks DEF EvidenceStage
    <3> QED
      BY <2>8, <3>1, <3>2 DEF EvidenceStage
  <2>9. CASE EmailStage(q)
    <3>1. CASE Goto(q, "record") /\ UNCHANGED lock
      <4>1. req'[q].pc = "record" /\ req'[q].kind = req[q].kind
            /\ \A r \in Requests : r # q => req'[r] = req[r]
        BY <3>1, GotoEffect DEF PCs, Locked
      <4>2. KindOk(req'[q]) /\ (Holding(req'[q]) => Holding(req[q]))
        BY <2>1, <2>9, <3>1, <4>1 DEF EmailStage, KindOk, Holding, Locked, Cancelling, Ensuring
      <4> QED
        BY <2>9, <3>1, <4>1, <4>2, MoveLocks DEF EmailStage
    <3> QED
      BY <2>9, <3>1, AnswerLocks DEF EmailStage
  <2>10. CASE RecordStage(q)
    <3>1. CASE Prepare(q, [draft EXCEPT !.emailed = TRUE], draft.rev, "record_write") /\ UNCHANGED lock
      <4>0. draft.rev \in Nat /\ \E d \in Draft : d = [draft EXCEPT !.emailed = TRUE]
        BY DraftTypes DEF Draft
      <4>1. req'[q].pc = "record_write" /\ req'[q].kind = req[q].kind
            /\ \A r \in Requests : r # q => req'[r] = req[r]
        BY <3>1, <4>0, PrepareEffect DEF PCs, Locked
      <4>2. KindOk(req'[q]) /\ (Holding(req'[q]) => Holding(req[q]))
        BY <2>1, <2>10, <3>1, <4>1 DEF RecordStage, KindOk, Holding, Locked, Cancelling, Ensuring
      <4> QED
        BY <2>10, <3>1, <4>1, <4>2, MoveLocks DEF RecordStage
    <3> QED
      BY <2>10, <3>1, AnswerLocks DEF RecordStage
  <2>11. CASE WriteStage(q)
    <3>1. ASSUME NEW step \in {"evidence", "emails", "mail_queued"}, Goto(q, step), UNCHANGED lock,
                 \/ req[q].pc = "snapshot_write" /\ req[q].kind = "complete" /\ step = "evidence"
                 \/ req[q].pc = "snapshot_write" /\ req[q].kind = "ensure" /\ step = "mail_queued"
                 \/ req[q].pc = "evidence_write" /\ step = "emails"
          PROVE  LockInv'
      <4>1. step \in PCs
        BY DEF PCs, Locked
      <4>2. req'[q].pc = step /\ req'[q].kind = req[q].kind
            /\ \A r \in Requests : r # q => req'[r] = req[r]
        BY <3>1, <4>1, GotoEffect
      <4>3. KindOk(req'[q]) /\ (Holding(req'[q]) => Holding(req[q]))
        BY <2>1, <3>1, <4>2 DEF KindOk, Holding, Locked, Cancelling, Ensuring
      <4> QED
        BY <3>1, <4>2, <4>3, MoveLocks
    <3>2. CASE Answer(q, TRUE) \/ Answer(q, FALSE)
      BY <3>2, AnswerLocks
    <3> QED
      BY <2>11, <3>1, <3>2 DEF WriteStage, Refuse
  <2>12. CASE EnsureLock(q)
    <3>1. req'[q].pc = "emails" /\ req'[q].kind = "ensure"
          /\ \A r \in Requests : r # q => req'[r] = req[r]
      BY <2>1, <2>12, GotoEffect DEF EnsureLock, KindOk, PCs, Locked
    <3>2. KindOk(req'[q])
      BY <3>1 DEF KindOk
    <3>3. lock' = q /\ \A r \in Requests : lock # r
      BY <2>12, CeremonyAssumption DEF EnsureLock
    <3> QED
      BY <3>1, <3>2, <3>3, LockFrame
  <2>13. CASE Unread(q)
    BY <1>0, <2>13, LockFrame DEF Unread, TypeOK
  <2> QED
    BY <1>3, <2>2, <2>3, <2>4, <2>5, <2>6, <2>7, <2>8, <2>9, <2>10, <2>11, <2>12, <2>13 DEF Serve
<1>4. ASSUME NEW q \in Requests, Cancel(q) \/ EnsureSnapshot(q) PROVE LockInv'
  <2>1. KindOk(req'[q]) /\ ~Holding(req'[q]) /\ lock' = lock
        /\ \A r \in Requests : r # q => req'[r] = req[r]
    <3>1. CASE Cancel(q)
      BY <3>1 DEF Cancel, KindOk, Holding, Cancelling, Idle, TypeOK
    <3>2. CASE EnsureSnapshot(q)
      <4>1. /\ req'[q].kind = "ensure" /\ req'[q].pc \in {"mail_queued", "snapshot_write"}
            /\ \A r \in Requests : r # q => req'[r] = req[r]
        BY <3>2 DEF EnsureSnapshot, Idle, TypeOK
      <4>2. KindOk(req'[q]) /\ ~Holding(req'[q])
        BY <4>1 DEF KindOk, Holding, Ensuring, Locked
      <4> QED
        BY <3>2, <4>1, <4>2 DEF EnsureSnapshot
    <3> QED
      BY <1>4, <3>1, <3>2
  <2> QED
    BY <2>1, LockFrame
<1>5. ASSUME NEW s \in Signers, NEW q \in Requests,
             Finish(s, q) \/ Receive(s, q) \/ PostAgain(s, q) \/ Disconnect(s, q)
      PROVE  LockInv'
  <2>1. StampedCopy(s) \in Copies
    BY DEF StampedCopy, Copies, TypeOK
  <2>2. CASE Finish(s, q) \/ PostAgain(s, q)
    <3>1. Arrive(q, "complete", s, StampedCopy(s)) /\ lock' = lock
      BY <2>2 DEF Finish, PostAgain
    <3>2. req'[q].pc = "arrived" /\ req'[q].kind = "complete"
          /\ \A r \in Requests : r # q => req'[r] = req[r]
      BY <2>1, <3>1, ArriveEffect
    <3>3. KindOk(req'[q]) /\ ~Holding(req'[q])
      BY <3>2 DEF KindOk, Holding, Locked
    <3> QED
      BY <3>1, <3>2, <3>3, MoveLocks
  <2>3. CASE Receive(s, q) \/ Disconnect(s, q)
    <3>1. lock' = lock /\ (req' = req \/ req' = [req EXCEPT ![q] = Idle])
      BY <2>3 DEF Receive, Disconnect
    <3>2. CASE req' = req
      BY <3>1, <3>2 DEF LockInv
    <3>3. CASE req' = [req EXCEPT ![q] = Idle]
      BY <1>0, <3>1, <3>3, LockFrame DEF TypeOK
    <3> QED
      BY <3>1, <3>2, <3>3
  <2> QED
    BY <1>5, <2>2, <2>3
<1> QED
  BY <1>1, <1>2, <1>3, <1>4, <1>5 DEF Next

-----------------------------------------------------------------------------
(* Stale drafts.  Handlers write back whole drafts that they loaded before.  *)
(* The invariant says how far the stored draft can have moved away from      *)
(* them: by the signature of the owner and by the artefacts, but never by a  *)
(* recipient's signature that the write would lose.                          *)

\* The signatures of the recipients in a draft.
Others(d) == d.signed \ {Owner}

AllRecipients == Recipients \subseteq draft.signed

\* What ArtefactsRestOnSignatures says of the stored draft, of any draft.
Founded(d) ==
  /\ d.executed <=> AllSigned(d)
  /\ d.snap => d.executed
  /\ d.evidence => d.snap
  /\ d.emailed => d.snap \/ cancels > 0

\* A cancellation has withdrawn the packet after every recipient signed.
Withdrawn == draft.live = {} /\ AllRecipients /\ cancels > 0

\* Writing d loses the signature of the owner only after a withdrawal.
KeepsOwner(d) == Owner \in draft.signed /\ Owner \notin d.signed => Withdrawn

Copy(d) == Founded(d) /\ KeepsOwner(d)

\* The draft a completion has loaded under the lock.
MergeOk(x) == x.pc = "merge" =>
  /\ Copy(x.base) /\ ~x.base.snap
  /\ Others(x.base) = Others(draft)
  /\ x.base.rev <= draft.rev
  /\ x.base.rev = draft.rev =>
       x.base.live = draft.live /\ (Owner \in x.base.signed => Owner \in draft.signed)

\* The draft it is going to store.
StoreOk(x) == x.pc = "store" /\ x.kind = "complete" =>
  /\ Copy(x.next)
  /\ x.by \in x.next.signed
  /\ Others(x.next) = Others(draft) \cup ({x.by} \ {Owner})
  /\ x.by = Owner => x.next.rev = x.seen
  /\ x.by # Owner =>
       /\ x.next.rev = x.seen + 1 /\ x.seen <= draft.rev
       /\ x.seen = draft.rev =>
            /\ x.next.live = draft.live \ {x.by}
            /\ Owner \in x.next.signed => Owner \in draft.signed

\* The draft a cancellation is going to store.
CancelOk(x) == Cancelling(x) =>
  /\ cancels > 0
  /\ Founded(x.next) /\ x.next.live = {}
  /\ x.next.rev = x.seen + 1 /\ x.seen <= draft.rev
  /\ x.seen = draft.rev =>
       /\ Others(x.next) = Others(draft)
       /\ Owner \in x.next.signed /\ Owner \notin draft.signed => Withdrawn

\* The draft with the next artefact.
WriteOk(x) == x.pc \in {"snapshot_write", "evidence_write", "record_write"} =>
  /\ Copy(x.next) /\ Others(x.next) = Others(draft)
  /\ x.pc = "snapshot_write" => x.next.snap
  /\ Ensuring(x) /\ Owner \notin draft.signed => Withdrawn

Late == {"snapshot", "snapshot_write", "evidence", "evidence_write", "emails",
         "record", "record_write"}

\* What follows the last signature.
LateOk(x) ==
  /\ x.pc \in Late \cup {"mail_queued"} => AllRecipients
  /\ x.pc = "record" => draft.snap \/ cancels > 0
  /\ x.full => AllRecipients

RequestOk(x) == MergeOk(x) /\ StoreOk(x) /\ CancelOk(x) /\ WriteOk(x) /\ LateOk(x)

CopiesInv ==
  /\ ArtefactsRestOnSignatures
  /\ \A q \in Requests : RequestOk(req[q])
  /\ page[Owner] = "retrying" => AllRecipients

\* How the stored draft can change at all ...
Evolves ==
  /\ Others(draft) \subseteq Others(draft')
  /\ draft.rev <= draft'.rev
  /\ draft'.live \subseteq draft.live
  /\ draft'.rev = draft.rev => draft'.live = draft.live /\ Others(draft') = Others(draft)
  /\ cancels <= cancels'
  /\ Owner \in draft.signed /\ Owner \notin draft'.signed =>
       draft'.live = {} /\ cancels' > 0 /\ (draft'.rev = draft.rev => AllRecipients')

\* ... and how it can change while another request holds the lock.
Outside ==
  /\ Others(draft') = Others(draft)
  /\ Owner \notin draft.signed /\ Owner \in draft'.signed => Withdrawn'
  /\ Owner \in draft.signed /\ Owner \notin draft'.signed => draft'.rev # draft.rev
  /\ draft.snap \/ cancels > 0 => draft'.snap \/ cancels' > 0

\* Facts about the values a step starts from and leads to.
LEMMA DraftFacts ==
  ASSUME TypeOK
  PROVE  /\ draft.signed \subseteq Signers /\ draft.live \subseteq Recipients /\ draft.rev \in Nat
         /\ draft.executed \in BOOLEAN /\ draft.active \in BOOLEAN /\ draft.snap \in BOOLEAN
         /\ draft.evidence \in BOOLEAN /\ draft.emailed \in BOOLEAN
         /\ cancels \in Nat /\ faults \in Nat /\ mailed \in Nat
         /\ AllRecipients <=> Others(draft) = Recipients
  BY CeremonyAssumption DEF TypeOK, Draft, AllRecipients, Others, Signers

\* A withdrawal is not undone.
LEMMA WithdrawnStays ==
  ASSUME TypeOK, TypeOK', Evolves
  PROVE  (Withdrawn => Withdrawn') /\ (AllRecipients => AllRecipients')
<1>1. AllRecipients => AllRecipients'
  BY CeremonyAssumption DEF Evolves, AllRecipients, Others
<1>2. cancels \in Nat /\ cancels' \in Nat
  BY DraftFacts DEF TypeOK
<1> QED
  BY <1>1, <1>2 DEF Withdrawn, Evolves

\* A draft stays founded.
LEMMA FoundedStays ==
  ASSUME TypeOK, TypeOK', Evolves, NEW d, Founded(d)
  PROVE  Founded(d)'
<1>1. cancels \in Nat /\ cancels' \in Nat
  BY DEF TypeOK
<1> QED
  BY <1>1 DEF Founded, Evolves, AllSigned

\* A request that does not hold the lock is not affected by any change.
LEMMA WithoutLock ==
  ASSUME TypeOK, TypeOK', Evolves, NEW x \in Request, KindOk(x), ~Holding(x), RequestOk(x)
  PROVE  RequestOk(x)'
<1>1. (Withdrawn => Withdrawn') /\ (AllRecipients => AllRecipients')
  BY WithdrawnStays
<1>2. draft.rev \in Nat /\ draft'.rev \in Nat /\ cancels \in Nat /\ cancels' \in Nat
      /\ draft.signed \subseteq Signers /\ draft'.signed \subseteq Signers
  BY DEF TypeOK, Draft
<1>3. x.pc \notin Late \ {"snapshot_write"} /\ x.pc # "merge"
  BY DEF Holding, Cancelling, Ensuring, Late, Locked, KindOk
<1>4. MergeOk(x)' /\ StoreOk(x)'
  BY <1>3 DEF MergeOk, StoreOk, Holding, Cancelling, Ensuring, Locked, KindOk
<1>5. CancelOk(x)'
  <2> SUFFICES ASSUME Cancelling(x) PROVE CancelOk(x)'
    BY DEF CancelOk
  <2>1. Founded(x.next)' /\ cancels' > 0
    BY <1>2, FoundedStays DEF RequestOk, CancelOk, Evolves
  <2>2. x.next.live = {} /\ x.next.rev = x.seen + 1 /\ x.seen <= draft'.rev /\ x.seen \in Nat
    BY <1>2 DEF RequestOk, CancelOk, Evolves, Request
  <2>3. ASSUME x.seen = draft'.rev
        PROVE  /\ Others(x.next) = Others(draft')
               /\ Owner \in x.next.signed /\ Owner \notin draft'.signed => Withdrawn'
    <3>1. x.seen = draft.rev /\ draft'.rev = draft.rev
      BY <1>2, <2>2, <2>3 DEF RequestOk, CancelOk, Evolves
    <3>2. Others(x.next) = Others(draft')
      BY <3>1 DEF RequestOk, CancelOk, Evolves
    <3>3. ASSUME Owner \in x.next.signed, Owner \notin draft'.signed PROVE Withdrawn'
      <4>1. CASE Owner \in draft.signed
        BY <3>1, <3>3, <4>1 DEF Evolves, Withdrawn
      <4>2. CASE Owner \notin draft.signed
        BY <1>1, <3>1, <3>3, <4>2 DEF RequestOk, CancelOk
      <4> QED
        BY <4>1, <4>2
    <3> QED
      BY <3>2, <3>3
  <2> QED
    BY <2>1, <2>2, <2>3 DEF CancelOk, Others
<1>6. WriteOk(x)'
  <2> SUFFICES ASSUME x.pc \in {"snapshot_write", "evidence_write", "record_write"}
               PROVE  WriteOk(x)'
    BY DEF WriteOk
  <2>1. Ensuring(x) /\ AllRecipients
    BY <1>3 DEF Late, Holding, Cancelling, Locked, RequestOk, LateOk
  <2>2. Founded(x.next) /\ x.next.snap /\ Others(x.next) = Others(draft)
    BY <2>1 DEF RequestOk, WriteOk, Copy, Ensuring
  <2>3. Owner \in x.next.signed
    BY <2>2 DEF Founded, AllSigned, Signers
  <2>4. Others(x.next) = Others(draft')
    BY <1>1, <1>2, <2>1, <2>2, CeremonyAssumption DEF AllRecipients, Others, Signers
  <2>5. Founded(x.next)'
    BY <2>2, FoundedStays
  <2>6. ASSUME Owner \notin draft'.signed PROVE Withdrawn'
    <3>1. CASE Owner \in draft.signed
      BY <1>1, <2>1, <2>6, <3>1 DEF Evolves, Withdrawn
    <3>2. CASE Owner \notin draft.signed
      BY <1>1, <2>1, <3>2 DEF RequestOk, WriteOk, Ensuring
    <3> QED
      BY <3>1, <3>2
  <2> QED
    BY <2>2, <2>3, <2>4, <2>5, <2>6 DEF WriteOk, Copy, KeepsOwner, Others
<1>7. LateOk(x)'
  BY <1>1, <1>3 DEF RequestOk, LateOk, Late
<1> QED
  BY <1>4, <1>5, <1>6, <1>7 DEF RequestOk

\* A request that holds the lock is not affected by a change from outside.
LEMMA UnderLock ==
  ASSUME TypeOK, TypeOK', Evolves, Outside, NEW x \in Request, KindOk(x), Holding(x), RequestOk(x)
  PROVE  RequestOk(x)'
<1>1. (Withdrawn => Withdrawn') /\ (AllRecipients => AllRecipients')
  BY WithdrawnStays
<1>2. draft.rev \in Nat /\ draft'.rev \in Nat /\ x.seen \in Nat /\ x.base.rev \in Nat
  BY DEF TypeOK, Draft, Request
<1>3. ASSUME NEW d, Copy(d) PROVE Copy(d)'
  <2>1. Founded(d)'
    BY <1>3, FoundedStays DEF Copy
  <2>2. KeepsOwner(d)'
    BY <1>1, <1>3 DEF Copy, KeepsOwner, Outside
  <2> QED
    BY <2>1, <2>2 DEF Copy
<1>4. MergeOk(x)'
  <2> SUFFICES ASSUME x.pc = "merge" PROVE MergeOk(x)'
    BY DEF MergeOk
  <2>1. Copy(x.base)' /\ ~x.base.snap /\ Others(x.base) = Others(draft') /\ x.base.rev <= draft'.rev
    BY <1>2, <1>3 DEF RequestOk, MergeOk, Evolves, Outside
  <2>2. ASSUME x.base.rev = draft'.rev
        PROVE  x.base.live = draft'.live /\ (Owner \in x.base.signed => Owner \in draft'.signed)
    <3>1. x.base.rev = draft.rev /\ draft'.rev = draft.rev
      BY <1>2, <2>2 DEF RequestOk, MergeOk, Evolves
    <3> QED
      BY <3>1 DEF RequestOk, MergeOk, Evolves, Outside
  <2> QED
    BY <2>1, <2>2 DEF MergeOk, Others
<1>5. StoreOk(x)'
  <2> SUFFICES ASSUME x.pc = "store", x.kind = "complete" PROVE StoreOk(x)'
    BY DEF StoreOk
  <2>1. /\ Copy(x.next)' /\ x.by \in x.next.signed
        /\ Others(x.next) = Others(draft') \cup ({x.by} \ {Owner})
        /\ x.by = Owner => x.next.rev = x.seen
        /\ x.by # Owner => x.next.rev = x.seen + 1 /\ x.seen <= draft'.rev
    BY <1>2, <1>3 DEF RequestOk, StoreOk, Evolves, Outside
  <2>2. ASSUME x.by # Owner, x.seen = draft'.rev
        PROVE  /\ x.next.live = draft'.live \ {x.by}
               /\ Owner \in x.next.signed => Owner \in draft'.signed
    <3>1. x.seen = draft.rev /\ draft'.rev = draft.rev
      BY <1>2, <2>2 DEF RequestOk, StoreOk, Evolves
    <3> QED
      BY <2>2, <3>1 DEF RequestOk, StoreOk, Evolves, Outside
  <2> QED
    BY <2>1, <2>2 DEF StoreOk, Others
<1>6. CancelOk(x)'
  BY DEF CancelOk, Holding
<1>7. WriteOk(x)'
  <2> SUFFICES ASSUME x.pc \in {"snapshot_write", "evidence_write", "record_write"}
               PROVE  WriteOk(x)'
    BY DEF WriteOk
  <2>1. Copy(x.next)' /\ Others(x.next) = Others(draft') /\ (x.pc = "snapshot_write" => x.next.snap)
    BY <1>3 DEF RequestOk, WriteOk, Outside
  <2> QED
    BY <2>1 DEF WriteOk, Holding, Others
<1>8. LateOk(x)'
  BY <1>1 DEF RequestOk, LateOk, Outside
<1> QED
  BY <1>4, <1>5, <1>6, <1>7, <1>8 DEF RequestOk

\* A request that a step leaves alone keeps its part of the invariant.
LEMMA StandingBy ==
  ASSUME TypeOK, TypeOK', LockInv, CopiesInv, Evolves, NEW r \in Requests, req'[r] = req[r],
         Outside \/ ~Holding(req[r])
  PROVE  RequestOk(req[r])'
<1>1. PICK x \in Request : x = req[r]
  BY DEF TypeOK
<1>2. KindOk(x) /\ RequestOk(x)
  BY <1>1 DEF LockInv, CopiesInv
<1>3. RequestOk(x)'
  BY <1>1, <1>2, WithoutLock, UnderLock
<1> QED
  BY <1>1, <1>3 DEF RequestOk, MergeOk, StoreOk, CancelOk, WriteOk, LateOk

\* A step of one request: the others keep their parts of the invariant, those
\* that hold the lock if the step is one from outside.
LEMMA CopiesFrame ==
  ASSUME TypeOK, TypeOK', LockInv, CopiesInv, Evolves, NEW q \in Requests,
         \A r \in Requests : r # q => req'[r] = req[r],
         Holding(req[q]) \/ Outside,
         RequestOk(req[q])', ArtefactsRestOnSignatures',
         page'[Owner] = "retrying" => AllRecipients'
  PROVE  CopiesInv'
<1>1. ASSUME NEW r \in Requests PROVE RequestOk(req[r])'
  <2>1. CASE r = q
    BY <2>1
  <2>2. CASE r # q
    <3>1. Outside \/ ~Holding(req[r])
      BY <2>2 DEF LockInv
    <3> QED
      BY <2>2, <3>1, StandingBy
  <2> QED
    BY <2>1, <2>2
<1> QED
  BY <1>1 DEF CopiesInv

\* A step that leaves the stored draft alone is one from outside.
LEMMA StillDraft ==
  ASSUME TypeOK, TypeOK', draft' = draft, cancels <= cancels'
  PROVE  /\ Evolves /\ Outside
         /\ (AllRecipients => AllRecipients')
         /\ (ArtefactsRestOnSignatures => ArtefactsRestOnSignatures')
<1>1. cancels \in Nat /\ cancels' \in Nat /\ draft.rev \in Nat
  BY DEF TypeOK, Draft
<1>2. Evolves /\ Outside
  BY <1>1 DEF Evolves, Outside, Others
<1>3. ArtefactsRestOnSignatures => ArtefactsRestOnSignatures'
  BY <1>1 DEF ArtefactsRestOnSignatures, AllSigned
<1> QED
  BY <1>2, <1>3 DEF AllRecipients

\* What the invariant asks of a request that has no draft at hand.
LEMMA WithoutDraft ==
  ASSUME TypeOK', NEW q \in Requests,
         \/ req'[q].pc \in {"idle", "arrived", "queued", "answered"}
         \/ AllRecipients' /\ req'[q].pc \in {"mail_queued", "snapshot", "evidence", "emails"}
         \/ AllRecipients' /\ req'[q].pc = "record" /\ (draft'.snap \/ cancels' > 0),
         req'[q].full => AllRecipients'
  PROVE  RequestOk(req[q])'
<1>1. /\ req'[q].pc \notin {"merge", "store", "snapshot_write", "evidence_write", "record_write"}
      /\ req'[q].pc \in Late \cup {"mail_queued"} => AllRecipients'
      /\ req'[q].pc = "record" => draft'.snap \/ cancels' > 0
  BY DEF Late
<1> QED
  BY <1>1 DEF RequestOk, MergeOk, StoreOk, CancelOk, WriteOk, LateOk, Cancelling

\* The end of a handler: it reports the agreement as executed after every
\* recipient's signature only.
LEMMA AnswerOk ==
  ASSUME TypeOK, TypeOK', NEW q \in Requests, NEW full \in BOOLEAN, Answer(q, full),
         full => AllRecipients'
  PROVE  RequestOk(req[q])' /\ \A r \in Requests : r # q => req'[r] = req[r]
<1>1. /\ req'[q].pc \in {"idle", "answered"} /\ (req'[q].full => AllRecipients')
      /\ \A r \in Requests : r # q => req'[r] = req[r]
  BY AnswerEffect
<1> QED
  BY <1>1, WithoutDraft

\* A step to a stage that has no draft at hand.
LEMMA GotoOk ==
  ASSUME TypeOK, TypeOK', CopiesInv, NEW q \in Requests, AllRecipients => AllRecipients',
         \/ Goto(q, "queued")
         \/ \E step \in {"mail_queued", "snapshot", "evidence", "emails"} : AllRecipients' /\ Goto(q, step)
         \/ AllRecipients' /\ Goto(q, "record") /\ (draft'.snap \/ cancels' > 0)
  PROVE  RequestOk(req[q])' /\ \A r \in Requests : r # q => req'[r] = req[r]
<1>1. PICK step \in {"queued", "mail_queued", "snapshot", "evidence", "emails", "record"} :
        /\ Goto(q, step)
        /\ step # "queued" => AllRecipients'
        /\ step = "record" => draft'.snap \/ cancels' > 0
  OBVIOUS
<1>2. step \in PCs
  BY DEF PCs, Locked
<1>3. req'[q].pc = step /\ req'[q].full = req[q].full
      /\ \A r \in Requests : r # q => req'[r] = req[r]
  BY <1>1, <1>2, GotoEffect
<1>4. req'[q].full => AllRecipients'
  BY <1>3 DEF CopiesInv, RequestOk, LateOk
<1> QED
  BY <1>1, <1>3, <1>4, WithoutDraft
\* The draft that Merge prepares, field by field.
LEMMA NextFields ==
  ASSUME TypeOK, NEW q \in Requests
  PROVE  /\ NextOf(q).snap = draft.snap /\ NextOf(q).evidence = draft.evidence
         /\ NextOf(q).live = RegistrySeen(q).live \ ({req[q].by} \ {Owner})
         /\ NextOf(q).rev = IF req[q].by = Owner THEN RegistrySeen(q).rev ELSE RegistrySeen(q).rev + 1
         /\ req[q].by \in draft.signed =>
              /\ NextOf(q).signed = draft.signed /\ NextOf(q).executed = draft.executed
              /\ NextOf(q).emailed = draft.emailed
         /\ req[q].by \notin draft.signed =>
              /\ NextOf(q).signed = req[q].base.signed \cup {req[q].by}
              /\ NextOf(q).executed = (req[q].base.executed \/ NextOf(q).signed = Signers)
              /\ NextOf(q).emailed = req[q].base.emailed
<1>1. Merged(q) \in Draft /\ RegistrySeen(q) \in Draft
  BY DraftTypes
<1>2. PICK d \in Draft : d = [Merged(q) EXCEPT !.live = RegistrySeen(q).live, !.rev = RegistrySeen(q).rev]
  BY <1>1 DEF Draft
<1>3. /\ d.signed = Merged(q).signed /\ d.executed = Merged(q).executed
      /\ d.snap = Merged(q).snap /\ d.evidence = Merged(q).evidence /\ d.emailed = Merged(q).emailed
      /\ d.live = RegistrySeen(q).live /\ d.rev = RegistrySeen(q).rev
  BY <1>1, <1>2 DEF Draft
<1>4. NextOf(q) = IF req[q].by = Owner THEN d ELSE Spent(d, req[q].by)
  BY <1>2 DEF NextOf
<1>5. /\ NextOf(q).signed = d.signed /\ NextOf(q).executed = d.executed
      /\ NextOf(q).snap = d.snap /\ NextOf(q).evidence = d.evidence /\ NextOf(q).emailed = d.emailed
      /\ NextOf(q).live = d.live \ ({req[q].by} \ {Owner})
      /\ NextOf(q).rev = IF req[q].by = Owner THEN d.rev ELSE d.rev + 1
  <2>1. CASE req[q].by = Owner
    BY <1>4, <2>1
  <2>2. CASE req[q].by # Owner
    BY <1>4, <2>2 DEF Spent, Draft
  <2> QED
    BY <2>1, <2>2
<1>6. /\ Merged(q).snap = draft.snap /\ Merged(q).evidence = draft.evidence
      /\ req[q].by \in draft.signed => Merged(q) = draft
      /\ req[q].by \notin draft.signed =>
           /\ Merged(q).signed = req[q].base.signed \cup {req[q].by}
           /\ Merged(q).executed = (req[q].base.executed \/ Merged(q).signed = Signers)
           /\ Merged(q).emailed = req[q].base.emailed
  BY DEF Merged, TypeOK, Draft
<1> QED
  BY <1>3, <1>5, <1>6

\* Merge: the draft to store.
LEMMA MergeStep ==
  ASSUME TypeOK, TypeOK', LockInv, CopiesInv, NEW q \in Requests, Merge(q)
  PROVE  CopiesInv'
<1> USE DEF browser, counts, server
<1> DEFINE by == req[q].by
           base == req[q].base
           next == NextOf(q)
<1>1. Prepare(q, next, RegistrySeen(q).rev, "store") /\ draft' = draft /\ cancels' = cancels /\ page' = page
  BY DEF Merge, NextOf
<1>2. /\ req'[q].pc = "store" /\ req'[q].next = next /\ req'[q].seen = RegistrySeen(q).rev
      /\ req'[q].kind = "complete" /\ req'[q].by = by /\ req'[q].full = req[q].full
      /\ \A r \in Requests : r # q => req'[r] = req[r]
  <2>1. "store" \in PCs /\ req[q].kind = "complete"
    BY DEF Merge, PCs, Locked
  <2> QED
    BY <1>1, <2>1, MergeTypes, PrepareEffect
<1>3. /\ Copy(base) /\ ~base.snap /\ Others(base) = Others(draft) /\ base.rev <= draft.rev
      /\ base.rev = draft.rev =>
           base.live = draft.live /\ (Owner \in base.signed => Owner \in draft.signed)
      /\ Founded(draft)
  BY DEF Merge, CopiesInv, RequestOk, MergeOk, Founded, ArtefactsRestOnSignatures
<1>4. draft \in Draft /\ base \in Draft /\ by \in Signers /\ cancels \in Nat /\ next \in Draft
  BY MergeTypes DEF TypeOK, Request
<1>5. StoreOk(req'[q])
  <2>1. CASE by \in draft.signed
    <3>1. RegistrySeen(q) = draft
      BY <2>1 DEF RegistrySeen
    <3>2. /\ next.signed = draft.signed /\ next.executed = draft.executed
          /\ next.emailed = draft.emailed /\ next.snap = draft.snap /\ next.evidence = draft.evidence
          /\ next.live = draft.live \ ({by} \ {Owner})
          /\ next.rev = IF by = Owner THEN draft.rev ELSE draft.rev + 1
      BY <2>1, <3>1, NextFields
    <3>3. Copy(next)
      BY <1>3, <3>2 DEF Copy, Founded, KeepsOwner, AllSigned
    <3>4. Others(next) = Others(draft) \cup ({by} \ {Owner})
      BY <2>1, <3>2 DEF Others
    <3> QED
      BY <1>2, <1>4, <2>1, <3>1, <3>2, <3>3, <3>4 DEF StoreOk, Draft
  <2>2. CASE by \notin draft.signed
    <3>1. RegistrySeen(q) = base
      BY <2>2 DEF RegistrySeen
    <3>2. /\ next.signed = base.signed \cup {by}
          /\ next.executed = (base.executed \/ next.signed = Signers)
          /\ next.emailed = base.emailed /\ next.snap = draft.snap /\ next.evidence = draft.evidence
          /\ next.live = base.live \ ({by} \ {Owner})
          /\ next.rev = IF by = Owner THEN base.rev ELSE base.rev + 1
      BY <2>2, <3>1, NextFields
    <3>3. ~draft.snap /\ ~draft.evidence
      BY <1>3, <1>4, <2>2 DEF Founded, AllSigned
    <3>4. Founded(next)
      <4>1. next.executed <=> next.signed = Signers
        BY <1>3, <1>4, <3>2 DEF Copy, Founded, AllSigned
      <4>2. next.emailed => cancels > 0
        BY <1>3, <3>2 DEF Copy, Founded
      <4> QED
        BY <3>2, <3>3, <4>1, <4>2 DEF Founded, AllSigned
    <3>5. KeepsOwner(next)
      BY <1>3, <3>2 DEF Copy, KeepsOwner
    <3>6. Others(next) = Others(draft) \cup ({by} \ {Owner})
      BY <1>3, <3>2 DEF Others
    <3>7. by # Owner /\ base.rev = draft.rev =>
            /\ next.live = draft.live \ {by}
            /\ Owner \in next.signed => Owner \in draft.signed
      BY <1>3, <3>2
    <3> HIDE DEF by, base, next
    <3> QED
      BY <1>2, <1>3, <1>4, <3>1, <3>2, <3>4, <3>5, <3>6, <3>7 DEF StoreOk, Copy, Draft
  <2> QED
    BY <2>1, <2>2
<1>6. RequestOk(req[q])'
  <2>1. StoreOk(req[q])'
    BY <1>1, <1>5 DEF StoreOk, Copy, Founded, AllSigned, KeepsOwner, Withdrawn, AllRecipients, Others
  <2>2. req[q].full => AllRecipients
    BY DEF CopiesInv, RequestOk, LateOk
  <2> QED
    BY <1>1, <1>2, <2>1, <2>2
       DEF RequestOk, MergeOk, CancelOk, WriteOk, LateOk, Late, Cancelling, AllRecipients
<1>7. cancels <= cancels'
  BY <1>1, <1>4
<1>8. Evolves /\ Outside /\ (AllRecipients => AllRecipients') /\ ArtefactsRestOnSignatures'
  BY <1>1, <1>7, StillDraft DEF CopiesInv
<1>9. page'[Owner] = "retrying" => AllRecipients'
  BY <1>1, <1>8 DEF CopiesInv
<1> QED
  BY <1>2, <1>6, <1>8, <1>9, CopiesFrame

\* The draft that a stage after the last signature prepares.
LEMMA WriteDraft ==
  ASSUME TypeOK, TypeOK', LockInv, CopiesInv, NEW q \in Requests, NEW d \in Draft,
         NEW step \in {"snapshot_write", "evidence_write", "record_write"},
         Prepare(q, d, draft.rev, step), draft' = draft, cancels' = cancels, page' = page,
         Holding(req[q]), req[q].kind = "complete" \/ step # "snapshot_write",
         AllRecipients, Founded(d), d.signed = draft.signed, step = "snapshot_write" => d.snap
  PROVE  CopiesInv'
<1>1. /\ req'[q].pc = step /\ req'[q].next = d /\ req'[q].kind = req[q].kind
      /\ req'[q].full = req[q].full /\ \A r \in Requests : r # q => req'[r] = req[r]
  BY DraftTypes, PrepareEffect DEF PCs, Locked, Draft
<1>2. cancels <= cancels'
  BY DEF TypeOK
<1>3. Evolves /\ Outside /\ AllRecipients' /\ ArtefactsRestOnSignatures'
  BY <1>2, StillDraft DEF CopiesInv
<1>4. WriteOk(req[q])'
  <2>1. ~Ensuring(req'[q])
    BY <1>1 DEF Ensuring
  <2>2. Others(d) = Others(draft) /\ Copy(d)
    BY DEF Others, Copy, KeepsOwner
  <2> QED
    BY <1>1, <2>1, <2>2
       DEF WriteOk, Copy, Founded, AllSigned, KeepsOwner, Withdrawn, AllRecipients, Others
<1>5. RequestOk(req[q])'
  BY <1>1, <1>3, <1>4 DEF RequestOk, MergeOk, StoreOk, CancelOk, LateOk, Late, Cancelling
<1>6. page'[Owner] = "retrying" => AllRecipients'
  BY <1>3
<1> QED
  BY <1>1, <1>3, <1>5, <1>6, CopiesFrame

\* What the invariant says of a request in one of the stages.
LEMMA StageFacts ==
  ASSUME TypeOK, LockInv, CopiesInv, NEW q \in Requests
  PROVE  /\ Founded(draft)
         /\ req[q].pc \in Late \cup {"mail_queued"} => AllRecipients
         /\ req[q].full => AllRecipients
         /\ req[q].pc \in {"merge", "snapshot", "evidence", "evidence_write", "emails", "record",
                           "record_write"} => Holding(req[q])
         /\ req[q].pc \in {"merge", "snapshot", "evidence"} => req[q].kind = "complete"
         /\ (draft.executed => AllSigned(draft)) /\ (AllSigned(draft) => AllRecipients)
<1>1. Founded(draft) /\ RequestOk(req[q])
  BY DEF CopiesInv, ArtefactsRestOnSignatures, Founded
<1> QED
  BY <1>1 DEF Founded, RequestOk, LateOk, LockInv, KindOk, Holding, Locked, Cancelling, Ensuring,
              AllSigned, AllRecipients, Signers

\* The stages that only move on.
LEMMA MoveStep ==
  ASSUME TypeOK, TypeOK', LockInv, CopiesInv, NEW q \in Requests,
         Authorize(q) \/ StoreConflicts(q) \/ EmailStage(q) \/ EnsureLock(q) \/ Unread(q)
  PROVE  CopiesInv'
<1> USE DEF browser, counts, server
<1>1. draft' = draft /\ cancels' = cancels /\ page' = page
  BY DEF Authorize, StoreConflicts, EmailStage, EnsureLock, Unread
<1>2. cancels <= cancels'
  BY <1>1 DEF TypeOK
<1>3. Evolves /\ Outside /\ (AllRecipients => AllRecipients') /\ ArtefactsRestOnSignatures'
  BY <1>1, <1>2, StillDraft DEF CopiesInv
<1>4. RequestOk(req[q])' /\ \A r \in Requests : r # q => req'[r] = req[r]
  <2>1. CASE Authorize(q) \/ StoreConflicts(q)
    <3>1. Goto(q, "queued") \/ Answer(q, FALSE)
      BY <2>1 DEF Authorize, StoreConflicts, Refuse
    <3> QED
      BY <1>3, <3>1, AnswerOk, GotoOk
  <2>2. CASE EmailStage(q)
    <3>1. AllRecipients'
      BY <1>3, <2>2, StageFacts DEF EmailStage, Late
    <3>2. CASE Answer(q, TRUE)
      BY <3>1, <3>2, AnswerOk
    <3>3. CASE EmailsDue /\ Goto(q, "record")
      BY <1>1, <1>3, <3>1, <3>3, GotoOk DEF EmailsDue
    <3> QED
      BY <2>2, <3>2, <3>3 DEF EmailStage
  <2>3. CASE EnsureLock(q)
    <3>1. AllRecipients' /\ Goto(q, "emails")
      BY <1>3, <2>3, StageFacts DEF EnsureLock
    <3> QED
      BY <1>3, <3>1, GotoOk
  <2>4. CASE Unread(q)
    <3>1. req'[q] = Idle /\ \A r \in Requests : r # q => req'[r] = req[r]
      BY <2>4 DEF Unread, TypeOK
    <3> QED
      BY <3>1, WithoutDraft DEF Idle
  <2> QED
    BY <2>1, <2>2, <2>3, <2>4
<1>5. page'[Owner] = "retrying" => AllRecipients'
  BY <1>1, <1>3 DEF CopiesInv
<1> QED
  BY <1>3, <1>4, <1>5, CopiesFrame

\* Begin: the draft is loaded under the lock, and it has no snapshot.
LEMMA BeginStep ==
  ASSUME TypeOK, TypeOK', LockInv, CopiesInv, NEW q \in Requests, Begin(q)
  PROVE  CopiesInv'
<1> USE DEF browser, counts, server
<1>1. draft' = draft /\ cancels' = cancels /\ page' = page
  BY DEF Begin
<1>2. cancels <= cancels'
  BY <1>1 DEF TypeOK
<1>3. Evolves /\ Outside /\ (AllRecipients => AllRecipients') /\ ArtefactsRestOnSignatures'
  BY <1>1, <1>2, StillDraft DEF CopiesInv
<1>4. RequestOk(req[q])' /\ \A r \in Requests : r # q => req'[r] = req[r]
  <2>1. CASE Refuse(q)
    BY <2>1, AnswerOk DEF Refuse
  <2>2. CASE ~draft.snap /\ req' = [req EXCEPT ![q].pc = "merge", ![q].base = draft]
    <3>1. /\ req'[q].pc = "merge" /\ req'[q].base = draft /\ req'[q].full = req[q].full
          /\ \A r \in Requests : r # q => req'[r] = req[r]
      BY <2>2 DEF TypeOK, Request
    <3>2. Copy(draft) /\ draft.rev <= draft.rev
      BY StageFacts DEF Copy, KeepsOwner, TypeOK, Draft
    <3>3. MergeOk(req[q])'
      BY <1>1, <2>2, <3>1, <3>2
         DEF MergeOk, Copy, Founded, AllSigned, KeepsOwner, Withdrawn, AllRecipients, Others
    <3>4. req[q].full => AllRecipients'
      BY <1>3, StageFacts
    <3> QED
      BY <3>1, <3>3, <3>4 DEF RequestOk, StoreOk, CancelOk, WriteOk, LateOk, Late, Cancelling
  <2> QED
    BY <2>1, <2>2 DEF Begin, Attested
<1>5. page'[Owner] = "retrying" => AllRecipients'
  BY <1>1, <1>3 DEF CopiesInv
<1> QED
  BY <1>3, <1>4, <1>5, CopiesFrame

\* The stages after the last signature that may prepare a write.
LEMMA StageStep ==
  ASSUME TypeOK, TypeOK', LockInv, CopiesInv, NEW q \in Requests,
         SnapshotStage(q) \/ EvidenceStage(q) \/ RecordStage(q)
  PROVE  CopiesInv'
<1> USE DEF browser, counts, server
<1>1. draft' = draft /\ cancels' = cancels /\ page' = page
  BY DEF SnapshotStage, EvidenceStage, RecordStage
<1>2. cancels <= cancels'
  BY <1>1 DEF TypeOK
<1>3. Evolves /\ Outside /\ ArtefactsRestOnSignatures' /\ (AllRecipients => AllRecipients')
  BY <1>1, <1>2, StillDraft DEF CopiesInv
<1>4. AllRecipients /\ AllRecipients'
  BY <1>3, StageFacts DEF SnapshotStage, EvidenceStage, RecordStage, Late
<1>5. page'[Owner] = "retrying" => AllRecipients'
  BY <1>4
<1>6. draft \in Draft /\ draft.rev \in Nat
  BY DEF TypeOK, Draft
<1>7. ASSUME RequestOk(req[q])', \A r \in Requests : r # q => req'[r] = req[r]
      PROVE  CopiesInv'
  BY <1>3, <1>5, <1>7, CopiesFrame
<1>8. CASE SnapshotStage(q)
  <2>1. CASE Goto(q, "evidence")
    BY <1>4, <1>7, <2>1, GotoOk
  <2>2. CASE AllSigned(draft) /\ Prepare(q, [draft EXCEPT !.snap = TRUE], draft.rev, "snapshot_write")
    <3>1. PICK d \in Draft : d = [draft EXCEPT !.snap = TRUE]
      BY DraftTypes
    <3>2. d.snap /\ d.signed = draft.signed /\ d.executed = draft.executed
          /\ d.evidence = draft.evidence /\ d.emailed = draft.emailed
      BY <1>6, <3>1 DEF Draft
    <3>3. Founded(d)
      BY <2>2, <3>2, StageFacts DEF Founded, AllSigned
    <3>4. Holding(req[q]) /\ req[q].kind = "complete"
      BY <1>8, StageFacts DEF SnapshotStage
    <3> QED
      BY <1>1, <1>4, <2>2, <3>1, <3>2, <3>3, <3>4, WriteDraft
  <2> QED
    BY <1>8, <2>1, <2>2 DEF SnapshotStage, Rebuild
<1>9. CASE EvidenceStage(q)
  <2>1. CASE Goto(q, "emails")
    BY <1>4, <1>7, <2>1, GotoOk
  <2>2. CASE EvidenceDue /\ Prepare(q, [draft EXCEPT !.evidence = TRUE], draft.rev, "evidence_write")
    <3>1. PICK d \in Draft : d = [draft EXCEPT !.evidence = TRUE]
      BY DraftTypes
    <3>2. d.snap = draft.snap /\ d.signed = draft.signed /\ d.executed = draft.executed
          /\ d.evidence /\ d.emailed = draft.emailed
      BY <1>6, <3>1 DEF Draft
    <3>3. Founded(d)
      BY <2>2, <3>2, StageFacts DEF Founded, AllSigned, EvidenceDue
    <3>4. Holding(req[q]) /\ req[q].kind = "complete"
      BY <1>9, StageFacts DEF EvidenceStage
    <3> QED
      BY <1>1, <1>4, <2>2, <3>1, <3>2, <3>3, <3>4, WriteDraft
  <2> QED
    BY <1>9, <2>1, <2>2 DEF EvidenceStage
<1>10. CASE RecordStage(q)
  <2>1. CASE Answer(q, TRUE)
    BY <1>4, <1>7, <2>1, AnswerOk
  <2>2. CASE Prepare(q, [draft EXCEPT !.emailed = TRUE], draft.rev, "record_write")
    <3>1. PICK d \in Draft : d = [draft EXCEPT !.emailed = TRUE]
      BY DraftTypes
    <3>2. d.snap = draft.snap /\ d.signed = draft.signed /\ d.executed = draft.executed
          /\ d.evidence = draft.evidence /\ d.emailed
      BY <1>6, <3>1 DEF Draft
    <3>3. Founded(d)
      BY <1>10, <3>2, StageFacts DEF Founded, AllSigned, RecordStage, CopiesInv, RequestOk, LateOk
    <3>4. Holding(req[q])
      BY <1>10, StageFacts DEF RecordStage
    <3> QED
      BY <1>1, <1>4, <2>2, <3>1, <3>2, <3>3, <3>4, WriteDraft
  <2> QED
    BY <1>10, <2>1, <2>2 DEF RecordStage
<1> QED
  BY <1>8, <1>9, <1>10

\* A completion stores its draft.
LEMMA CompletionEvolves ==
  ASSUME TypeOK, TypeOK', LockInv, CopiesInv, NEW q \in Requests, Store(q),
         req[q].kind = "complete"
  PROVE  /\ Evolves /\ ArtefactsRestOnSignatures' /\ Holding(req[q])
         /\ draft'.signed = req[q].next.signed /\ req[q].by \in draft'.signed
         /\ Others(draft') = Others(draft) \cup ({req[q].by} \ {Owner})
         /\ draft'.live = draft.live \ ({req[q].by} \ {Owner})
         /\ req[q].by # Owner /\ Owner \in draft'.signed => Owner \in draft.signed
         /\ Owner \in draft.signed /\ Owner \notin draft'.signed => Withdrawn
<1> USE DEF browser, counts, server
<1> DEFINE by == req[q].by
           next == req[q].next
<1>1. /\ Copy(next) /\ by \in next.signed
      /\ Others(next) = Others(draft) \cup ({by} \ {Owner})
      /\ by = Owner => next.rev = req[q].seen
      /\ by # Owner =>
           /\ next.rev = req[q].seen + 1 /\ req[q].seen <= draft.rev
           /\ req[q].seen = draft.rev =>
                /\ next.live = draft.live \ {by}
                /\ Owner \in next.signed => Owner \in draft.signed
  BY DEF Store, CopiesInv, RequestOk, StoreOk
<1>2. /\ draft \in Draft /\ next \in Draft /\ by \in Signers /\ req[q].seen \in Nat
      /\ draft.rev \in Nat /\ draft' \in Draft
  BY DEF TypeOK, Request, Draft
<1>3. cancels' = cancels /\ cancels \in Nat
  BY DEF Store, TypeOK
<1>4. /\ draft'.signed = next.signed /\ draft'.executed = next.executed /\ draft'.snap = next.snap
      /\ draft'.evidence = next.evidence /\ draft'.emailed = next.emailed
      /\ draft'.live = draft.live \ ({by} \ {Owner})
      /\ draft'.rev = IF by = Owner THEN draft.rev ELSE draft.rev + 1
  <2>1. CASE by = Owner
    <3>1. draft' = Preserving(next)
      BY <1>1, <2>1 DEF Store, Stored
    <3> QED
      BY <1>2, <2>1, <3>1 DEF Preserving, Draft
  <2>2. CASE by # Owner
    <3>1. draft' = next /\ draft.rev = req[q].seen
      BY <1>1, <1>2, <2>2 DEF Store, Stored
    <3> QED
      BY <1>1, <1>2, <2>2, <3>1
  <2> QED
    BY <2>1, <2>2
<1>5. ArtefactsRestOnSignatures'
  BY <1>1, <1>3, <1>4 DEF Copy, Founded, ArtefactsRestOnSignatures, AllSigned
<1>6. Others(draft') = Others(draft) \cup ({by} \ {Owner})
  BY <1>1, <1>4 DEF Others
<1>7. Owner \in draft.signed /\ Owner \notin draft'.signed =>
        draft.live = {} /\ cancels > 0 /\ AllRecipients
  BY <1>1, <1>4 DEF Copy, KeepsOwner, Withdrawn
<1>8. by = Owner => Owner \in draft'.signed
  BY <1>1, <1>4
<1>9. Evolves
  <2> HIDE DEF by, next
  <2>1. Others(draft) \subseteq Others(draft') /\ draft.rev <= draft'.rev /\ cancels <= cancels'
        /\ draft'.live \subseteq draft.live
    BY <1>2, <1>3, <1>4, <1>6
  <2>2. draft'.rev = draft.rev => by = Owner
    BY <1>2, <1>4
  <2>3. draft'.rev = draft.rev => draft'.live = draft.live /\ Others(draft') = Others(draft)
    BY <1>4, <1>6, <2>2
  <2>4. Owner \in draft.signed /\ Owner \notin draft'.signed =>
          draft'.live = {} /\ cancels' > 0 /\ draft'.rev # draft.rev
    BY <1>3, <1>4, <1>7, <1>8, <2>2
  <2> QED
    BY <2>1, <2>3, <2>4 DEF Evolves
<1>10. Holding(req[q])
  BY DEF Store, Holding, Locked, Cancelling, Ensuring
<1>11. by # Owner /\ Owner \in draft'.signed => Owner \in draft.signed
  BY <1>1, <1>2, <1>4 DEF Store, Stored
<1>12. Owner \in draft.signed /\ Owner \notin draft'.signed => Withdrawn
  BY <1>7 DEF Withdrawn
<1> QED
  BY <1>1, <1>4, <1>5, <1>6, <1>9, <1>10, <1>11, <1>12

\* A cancellation stores its draft: it kills every token, and what it changes
\* of the signatures is that of the owner.
LEMMA CancellationEvolves ==
  ASSUME TypeOK, TypeOK', LockInv, CopiesInv, NEW q \in Requests, Store(q),
         req[q].kind = "cancel"
  PROVE  /\ Evolves /\ Outside /\ ArtefactsRestOnSignatures'
         /\ draft' = req[q].next /\ draft'.live = {} /\ draft'.rev = draft.rev + 1
         /\ cancels > 0 /\ draft.rev = req[q].seen
         /\ Owner \notin draft.signed /\ Owner \in draft'.signed => Withdrawn
<1> USE DEF browser, counts, server
<1>1. /\ cancels > 0 /\ Founded(req[q].next) /\ req[q].next.live = {}
      /\ req[q].next.rev = req[q].seen + 1 /\ req[q].seen <= draft.rev
      /\ req[q].seen = draft.rev =>
           /\ Others(req[q].next) = Others(draft)
           /\ Owner \in req[q].next.signed /\ Owner \notin draft.signed => Withdrawn
  BY DEF Store, CopiesInv, RequestOk, CancelOk, Cancelling
<1>2. req[q].seen \in Nat /\ draft.rev \in Nat
  BY DEF TypeOK, Request, Draft
<1>3. cancels' = cancels /\ cancels \in Nat
  BY DEF Store, TypeOK
<1>4. draft' = req[q].next /\ draft.rev = req[q].seen
  BY <1>1, <1>2 DEF Store, Stored
<1>5. Evolves
  BY <1>1, <1>2, <1>3, <1>4 DEF Evolves, Others
<1>6. Outside
  <2>1. AllRecipients => AllRecipients'
    BY <1>5, WithdrawnStays
  <2>2. Owner \notin draft.signed /\ Owner \in draft'.signed => Withdrawn'
    BY <1>1, <1>3, <1>4, <2>1 DEF Withdrawn
  <2> QED
    BY <1>1, <1>2, <1>3, <1>4, <2>2 DEF Outside, Others
<1>7. ArtefactsRestOnSignatures'
  BY <1>1, <1>3, <1>4 DEF Founded, ArtefactsRestOnSignatures, AllSigned
<1> QED
  BY <1>1, <1>4, <1>5, <1>6, <1>7

\* Store: the write of a completion or of a cancellation.
LEMMA StoreStep ==
  ASSUME TypeOK, TypeOK', LockInv, CopiesInv, NEW q \in Requests, Store(q)
  PROVE  CopiesInv'
<1> USE DEF browser, counts, server
<1>1. page' = page
  BY DEF Store
<1>2. req[q].kind \in {"complete", "cancel"}
  BY DEF Store, LockInv, KindOk
<1>3. Evolves /\ ArtefactsRestOnSignatures' /\ (Holding(req[q]) \/ Outside)
  BY <1>2, CompletionEvolves, CancellationEvolves
<1>4. AllRecipients => AllRecipients'
  BY <1>3, WithdrawnStays
<1>5. RequestOk(req[q])' /\ \A r \in Requests : r # q => req'[r] = req[r]
  <2>1. CASE Answer(q, FALSE)
    BY <2>1, AnswerOk
  <2>2. CASE req[q].kind = "complete" /\ AllSigned(req[q].next) /\ Goto(q, "snapshot")
    <3>1. AllRecipients'
      BY <2>2, CompletionEvolves DEF AllSigned, AllRecipients, Signers
    <3> QED
      BY <1>4, <2>2, <3>1, GotoOk
  <2> QED
    BY <2>1, <2>2 DEF Store
<1>6. page'[Owner] = "retrying" => AllRecipients'
  BY <1>1, <1>4 DEF CopiesInv
<1> QED
  BY <1>3, <1>5, <1>6, CopiesFrame

\* The write of a stage.
LEMMA WriteEvolves ==
  ASSUME TypeOK, TypeOK', LockInv, CopiesInv, NEW q \in Requests, WriteStage(q)
  PROVE  /\ Evolves /\ (Holding(req[q]) \/ Outside) /\ ArtefactsRestOnSignatures' /\ AllRecipients'
         /\ draft'.signed = req[q].next.signed /\ Others(draft') = Others(draft)
         /\ draft'.live = draft.live /\ draft'.rev = draft.rev
         /\ Owner \in draft.signed /\ Owner \notin draft'.signed => Withdrawn
         /\ req[q].pc = "snapshot_write" => AllSigned(draft)'
<1> USE DEF browser, counts, server
<1> DEFINE next == req[q].next
<1>1. /\ Copy(next) /\ Others(next) = Others(draft)
      /\ req[q].pc = "snapshot_write" => next.snap
      /\ Ensuring(req[q]) /\ Owner \notin draft.signed => Withdrawn
  BY DEF WriteStage, CopiesInv, RequestOk, WriteOk
<1>2. draft \in Draft /\ next \in Draft /\ draft.rev \in Nat
  BY DEF TypeOK, Request, Draft
<1>3. cancels' = cancels /\ cancels \in Nat
  BY DEF WriteStage, TypeOK
<1>4. /\ draft'.signed = next.signed /\ draft'.executed = next.executed /\ draft'.snap = next.snap
      /\ draft'.evidence = next.evidence /\ draft'.emailed = next.emailed
      /\ draft'.live = draft.live /\ draft'.rev = draft.rev
  BY <1>2 DEF WriteStage, Preserving, Draft
<1>5. ArtefactsRestOnSignatures'
  BY <1>1, <1>3, <1>4 DEF Copy, Founded, ArtefactsRestOnSignatures, AllSigned
<1>6. Others(draft') = Others(draft)
  BY <1>1, <1>4 DEF Others
<1>7. AllRecipients /\ AllRecipients'
  <2>1. AllRecipients
    BY StageFacts DEF WriteStage, Late
  <2> QED
    BY <1>6, <2>1, DraftFacts, CeremonyAssumption DEF AllRecipients, Others
<1>8. Owner \in draft.signed /\ Owner \notin draft'.signed => Withdrawn
  BY <1>1, <1>4 DEF Copy, KeepsOwner
<1>9. Evolves
  BY <1>2, <1>3, <1>4, <1>6, <1>7, <1>8 DEF Evolves, Withdrawn
<1>10. req[q].pc = "snapshot_write" => draft'.signed = Signers /\ draft'.snap
  BY <1>1, <1>4 DEF Copy, Founded, AllSigned
<1>11. Holding(req[q]) \/ Outside
  <2>1. CASE Holding(req[q])
    BY <2>1
  <2>2. CASE ~Holding(req[q])
    <3>1. Ensuring(req[q])
      BY <2>2 DEF WriteStage, Holding, Locked, Cancelling
    <3>2. draft'.signed = Signers /\ draft'.snap
      BY <1>10, <3>1 DEF Ensuring
    <3>3. Owner \notin draft.signed => Withdrawn'
      BY <1>1, <1>3, <1>4, <1>7, <3>1 DEF Withdrawn
    <3> QED
      BY <1>6, <3>2, <3>3 DEF Outside, Signers
  <2> QED
    BY <2>1, <2>2
<1> QED
  BY <1>4, <1>5, <1>6, <1>7, <1>8, <1>9, <1>10, <1>11 DEF AllSigned

\* WriteStage.
LEMMA WriteStep ==
  ASSUME TypeOK, TypeOK', LockInv, CopiesInv, NEW q \in Requests, WriteStage(q)
  PROVE  CopiesInv'
<1> USE DEF browser, counts, server
<1>1. Evolves /\ (Holding(req[q]) \/ Outside) /\ ArtefactsRestOnSignatures' /\ AllRecipients'
  BY WriteEvolves
<1>2. RequestOk(req[q])' /\ \A r \in Requests : r # q => req'[r] = req[r]
  <2>1. CASE Answer(q, TRUE) \/ Answer(q, FALSE)
    BY <1>1, <2>1, AnswerOk
  <2>2. CASE Goto(q, "evidence") \/ Goto(q, "emails") \/ Goto(q, "mail_queued")
    BY <1>1, <2>2, GotoOk
  <2> QED
    BY <2>1, <2>2 DEF WriteStage, Refuse
<1> QED
  BY <1>1, <1>2, CopiesFrame

\* Cancel and EnsureSnapshot: a request of the owner begins without the lock.
LEMMA OwnerStep ==
  ASSUME TypeOK, TypeOK', LockInv, CopiesInv, NEW q \in Requests, Cancel(q) \/ EnsureSnapshot(q)
  PROVE  CopiesInv'
<1> USE DEF browser, counts, server
<1>1. draft' = draft /\ page' = page
  BY DEF Cancel, EnsureSnapshot
<1>2. cancels \in Nat /\ cancels' \in Nat /\ draft.rev \in Nat /\ draft \in Draft
  BY DEF TypeOK, Draft
<1>3. cancels <= cancels'
  BY <1>2 DEF Cancel, EnsureSnapshot
<1>4. Evolves /\ Outside /\ (AllRecipients => AllRecipients') /\ ArtefactsRestOnSignatures'
  BY <1>1, <1>3, StillDraft DEF CopiesInv
<1>5. RequestOk(req[q])' /\ \A r \in Requests : r # q => req'[r] = req[r]
  <2>1. CASE Cancel(q)
    <3>1. PICK d \in Draft : d = [draft EXCEPT !.active = FALSE, !.live = {}, !.rev = @ + 1]
      BY DraftTypes
    <3>2. /\ d.signed = draft.signed /\ d.executed = draft.executed /\ d.snap = draft.snap
          /\ d.evidence = draft.evidence /\ d.emailed = draft.emailed
          /\ d.live = {} /\ d.rev = draft.rev + 1
      BY <1>2, <3>1 DEF Draft
    <3>3. /\ req'[q] = [Idle EXCEPT !.kind = "cancel", !.pc = "store", !.seen = draft.rev, !.next = d]
          /\ \A r \in Requests : r # q => req'[r] = req[r]
      BY <2>1, <3>1 DEF Cancel, TypeOK
    <3>4. /\ req'[q].kind = "cancel" /\ req'[q].pc = "store" /\ req'[q].seen = draft.rev
          /\ req'[q].next = d /\ req'[q].full = FALSE
      BY <3>3 DEF Idle
    <3>5. cancels' > 0
      BY <1>2, <2>1 DEF Cancel
    <3>6. (d.executed <=> AllSigned(d)) /\ (d.snap => d.executed) /\ (d.evidence => d.snap)
      BY <3>2, StageFacts DEF Founded, AllSigned
    <3>7. CancelOk(req[q])'
      <4>1. Others(d) = Others(draft')
        BY <1>1, <3>2 DEF Others
      <4>2. Owner \in d.signed => Owner \in draft'.signed
        BY <1>1, <3>2
      <4>3. draft.rev <= draft'.rev
        BY <1>1, <1>2
      <4> QED
        BY <3>2, <3>4, <3>5, <3>6, <4>1, <4>2, <4>3 DEF CancelOk, Founded, AllSigned, Others
    <3> QED
      BY <3>3, <3>4, <3>7 DEF RequestOk, MergeOk, StoreOk, WriteOk, LateOk, Late
  <2>2. CASE EnsureSnapshot(q)
    <3>1. AllRecipients'
      BY <1>4, <2>2, StageFacts DEF EnsureSnapshot
    <3>2. CASE req' = [req EXCEPT ![q] = [Idle EXCEPT !.kind = "ensure", !.pc = "mail_queued"]]
      <4>1. /\ req'[q].pc = "mail_queued" /\ req'[q].full = FALSE
            /\ \A r \in Requests : r # q => req'[r] = req[r]
        BY <3>2 DEF TypeOK, Idle
      <4> QED
        BY <3>1, <4>1, WithoutDraft
    <3>3. CASE req' = [req EXCEPT ![q] = [Idle EXCEPT
                         !.kind = "ensure", !.pc = "snapshot_write", !.seen = draft.rev,
                         !.next = [draft EXCEPT !.snap = TRUE]]]
      <4>1. PICK d \in Draft : d = [draft EXCEPT !.snap = TRUE]
        BY DraftTypes
      <4>2. d.snap /\ d.signed = draft.signed /\ d.executed = draft.executed
            /\ d.evidence = draft.evidence /\ d.emailed = draft.emailed
        BY <1>2, <4>1 DEF Draft
      <4>3. /\ req'[q] = [Idle EXCEPT !.kind = "ensure", !.pc = "snapshot_write",
                                      !.seen = draft.rev, !.next = d]
            /\ \A r \in Requests : r # q => req'[r] = req[r]
        BY <3>3, <4>1 DEF TypeOK
      <4>4. /\ req'[q].kind = "ensure" /\ req'[q].pc = "snapshot_write" /\ req'[q].next = d
            /\ req'[q].full = FALSE
        BY <4>3 DEF Idle
      <4>5. Founded(d) /\ AllSigned(draft)
        BY <2>2, <4>2, StageFacts DEF Founded, AllSigned, EnsureSnapshot
      <4>6. WriteOk(req[q])'
        <5>1. Owner \in draft'.signed /\ Others(d) = Others(draft')
          BY <1>1, <4>2, <4>5 DEF AllSigned, Others, Signers
        <5>2. Founded(d)'
          BY <1>4, <4>5, FoundedStays
        <5>3. Copy(d)'
          BY <1>1, <4>2, <5>2 DEF Copy, KeepsOwner
        <5> QED
          BY <4>2, <4>4, <5>1, <5>3 DEF WriteOk, Copy, Founded, AllSigned, KeepsOwner, Others
      <4> QED
        BY <3>1, <4>3, <4>4, <4>6 DEF RequestOk, MergeOk, StoreOk, CancelOk, LateOk, Cancelling
    <3> QED
      BY <2>2, <3>2, <3>3 DEF EnsureSnapshot
  <2> QED
    BY <2>1, <2>2
<1>6. page'[Owner] = "retrying" => AllRecipients'
  BY <1>1, <1>4 DEF CopiesInv
<1> QED
  BY <1>4, <1>5, <1>6, CopiesFrame

\* The steps of the browsers.
LEMMA BrowserStep ==
  ASSUME TypeOK, TypeOK', LockInv, CopiesInv, NEW s \in Signers, NEW q \in Requests,
         Finish(s, q) \/ Receive(s, q) \/ PostAgain(s, q) \/ Disconnect(s, q)
  PROVE  CopiesInv'
<1> USE DEF browser, counts, server
<1>1. draft' = draft /\ cancels' = cancels
  BY DEF Finish, Receive, PostAgain, Disconnect
<1>2. cancels <= cancels'
  BY <1>1 DEF TypeOK
<1>3. Evolves /\ Outside /\ (AllRecipients => AllRecipients') /\ ArtefactsRestOnSignatures'
  BY <1>1, <1>2, StillDraft DEF CopiesInv
<1>4. RequestOk(req[q])' /\ \A r \in Requests : r # q => req'[r] = req[r]
  <2>1. CASE Finish(s, q) \/ PostAgain(s, q)
    <3>1. Arrive(q, "complete", s, StampedCopy(s)) /\ StampedCopy(s) \in Copies
      BY <2>1 DEF Finish, PostAgain, StampedCopy, Copies, TypeOK
    <3>2. /\ req'[q].pc = "arrived" /\ req'[q].full = FALSE
          /\ \A r \in Requests : r # q => req'[r] = req[r]
      BY <3>1, ArriveEffect
    <3> QED
      BY <3>2, WithoutDraft
  <2>2. CASE req' = req
    <3>1. \A r \in Requests : r # q => req'[r] = req[r]
      BY <2>2
    <3> QED
      BY <1>3, <2>2, <3>1, StandingBy
  <2>3. CASE req' = [req EXCEPT ![q] = Idle]
    <3>1. req'[q] = Idle /\ \A r \in Requests : r # q => req'[r] = req[r]
      BY <2>3 DEF TypeOK
    <3> QED
      BY <3>1, WithoutDraft DEF Idle
  <2> QED
    BY <2>1, <2>2, <2>3 DEF Receive, Disconnect
<1>5. page'[Owner] = "retrying" => AllRecipients'
  <2>1. CASE PostAgain(s, q)
    <3>1. AllRecipients
      BY <2>1, StageFacts DEF PostAgain
    <3> QED
      BY <1>3, <3>1
  <2>2. CASE Finish(s, q) \/ Receive(s, q) \/ Disconnect(s, q)
    <3>1. page'[Owner] = "retrying" => page[Owner] = "retrying"
      BY <2>2 DEF Finish, Receive, Disconnect, Settle, TypeOK, Signers
    <3> QED
      BY <1>3, <3>1 DEF CopiesInv
  <2> QED
    BY <2>1, <2>2
<1> QED
  BY <1>3, <1>4, <1>5, CopiesFrame

\* The steps that leave the requests alone, and the restart of the server.
LEMMA AsideStep ==
  ASSUME TypeOK, TypeOK', LockInv, CopiesInv,
         \/ UNCHANGED vars \/ OwnerRefresh \/ Crash
         \/ \E s \in Signers : Open(s) \/ OpenRefused(s)
  PROVE  CopiesInv'
<1> USE DEF browser, counts, server
<1>1. draft' = draft /\ cancels' = cancels
  BY DEF vars, OwnerRefresh, Crash, Open, OpenRefused
<1>2. cancels <= cancels'
  BY <1>1 DEF TypeOK
<1>3. Evolves /\ Outside /\ (AllRecipients => AllRecipients') /\ ArtefactsRestOnSignatures'
  BY <1>1, <1>2, StillDraft DEF CopiesInv
<1>4. ASSUME NEW q \in Requests PROVE RequestOk(req[q])'
  <2>1. CASE req' = req
    BY <1>3, <2>1, StandingBy
  <2>2. CASE Crash
    <3>1. req'[q] = Idle
      BY <2>2 DEF Crash
    <3> QED
      BY <3>1, WithoutDraft DEF Idle
  <2> QED
    BY <2>1, <2>2 DEF vars, OwnerRefresh, Open, OpenRefused
<1>5. page'[Owner] = "retrying" => AllRecipients'
  <2>1. page'[Owner] = "retrying" => page[Owner] = "retrying"
    BY DEF vars, OwnerRefresh, Crash, Open, OpenRefused, TypeOK, Signers
  <2> QED
    BY <1>3, <2>1 DEF CopiesInv
<1> QED
  BY <1>3, <1>4, <1>5 DEF CopiesInv

\* No step breaks what the stale drafts are held to.
LEMMA CopiesStep == TypeOK /\ LockInv /\ CopiesInv /\ [Next]_vars => CopiesInv'
<1> SUFFICES ASSUME TypeOK, LockInv, CopiesInv, [Next]_vars PROVE CopiesInv'
  OBVIOUS
<1>1. TypeOK'
  BY TypeStep
<1>2. ASSUME NEW q \in Requests, Serve(q) PROVE CopiesInv'
  BY <1>1, <1>2, MoveStep, BeginStep, MergeStep, StoreStep, StageStep, WriteStep DEF Serve
<1>3. ASSUME NEW q \in Requests, Cancel(q) \/ EnsureSnapshot(q) PROVE CopiesInv'
  BY <1>1, <1>3, OwnerStep
<1>4. ASSUME NEW s \in Signers, NEW q \in Requests,
             Finish(s, q) \/ Receive(s, q) \/ PostAgain(s, q) \/ Disconnect(s, q)
      PROVE  CopiesInv'
  BY <1>1, <1>4, BrowserStep
<1> QED
  BY <1>1, <1>2, <1>3, <1>4, AsideStep DEF Next

\* The ceremony starts with no request and nothing signed.
LEMMA CopiesInit == Init => LockInv /\ CopiesInv
<1> SUFFICES ASSUME Init PROVE LockInv /\ CopiesInv
  OBVIOUS
<1>1. LockInv
  BY DEF Init, LockInv, Idle, KindOk, Holding, Locked
<1>2. ArtefactsRestOnSignatures
  BY DEF Init, SentDraft, ArtefactsRestOnSignatures, AllSigned, Signers
<1>3. \A q \in Requests : RequestOk(req[q])
  BY DEF Init, Idle, RequestOk, MergeOk, StoreOk, CancelOk, WriteOk, LateOk, Late, Cancelling
<1>4. page[Owner] # "retrying"
  BY DEF Init, Signers
<1> QED
  BY <1>1, <1>2, <1>3, <1>4 DEF CopiesInv

\* The invariant of the proofs that follow.
CeremonyInv == TypeOK /\ LockInv /\ CopiesInv

\* Every step keeps it ...
LEMMA CeremonyStep == CeremonyInv /\ [Next]_vars => CeremonyInv'
  BY TypeStep, LockStep, CopiesStep DEF CeremonyInv

\* ... and it holds throughout.
LEMMA CeremonyCorrect == Spec => []CeremonyInv
<1>1. Init => CeremonyInv
  BY TypeInit, CopiesInit DEF CeremonyInv
<1> QED
  BY <1>1, CeremonyStep, PTL DEF Spec

\* Whatever stale drafts the overlapping handlers write back, each artefact of
\* the stored draft rests on the earlier ones (the final event on every
\* signature, the snapshot on the event, the package and the e-mails on the
\* snapshot).
THEOREM ArtefactsCorrect == Spec => []ArtefactsRestOnSignatures
<1>1. CeremonyInv => ArtefactsRestOnSignatures
  BY DEF CeremonyInv, CopiesInv
<1> QED
  BY <1>1, CeremonyCorrect, PTL

-----------------------------------------------------------------------------
(* The ceremony implements the ledger of signatures. *)

\* Each step of the ceremony is a step of the ledger or leaves it alone.
LEMMA LedgerStep == CeremonyInv /\ CeremonyInv' /\ [Next]_vars => [Ledger!Next]_(Ledger!ledger)
<1> SUFFICES ASSUME CeremonyInv, CeremonyInv', [Next]_vars
             PROVE  [Ledger!Next]_(Ledger!ledger)
  OBVIOUS
<1> USE DEF browser, counts, server, CeremonyInv
<1>1. /\ draft.signed \subseteq Signers /\ draft.live \subseteq Recipients
      /\ draft'.signed \subseteq Signers /\ draft'.live \subseteq Recipients
      /\ Owner \notin Recipients /\ draft.executed \in BOOLEAN /\ draft'.executed \in BOOLEAN
  BY CeremonyAssumption DEF TypeOK, Draft
<1>2. draft.executed = (draft.signed = Signers) /\ draft'.executed = (draft'.signed = Signers)
  BY <1>1 DEF CopiesInv, ArtefactsRestOnSignatures, AllSigned
<1>3. CASE draft' = draft
  BY <1>3 DEF Ledger!ledger
<1>4. ASSUME NEW s \in Signers, draft'.signed = draft.signed \cup {s}, draft'.live = draft.live \ {s}
      PROVE  Ledger!Next
  <2>1. Ledger!Record(s)
    BY <1>2, <1>4 DEF Ledger!Record, Ledger!Signers, Signers
  <2> QED
    BY <2>1 DEF Ledger!Next, Ledger!Signers, Signers
<1>5. ASSUME draft'.signed \in {draft.signed, draft.signed \ {Owner}}, draft'.live = {}
      PROVE  Ledger!Next
  BY <1>2, <1>5 DEF Ledger!Withdraw, Ledger!Next, Ledger!Signers, Signers
<1>6. ASSUME NEW q \in Requests, Store(q), req[q].kind = "complete" PROVE Ledger!Next
  <2> DEFINE by == req[q].by
  <2>1. /\ by \in draft'.signed /\ by \in Signers
        /\ Others(draft') = Others(draft) \cup ({by} \ {Owner})
        /\ draft'.live = draft.live \ ({by} \ {Owner})
        /\ by # Owner /\ Owner \in draft'.signed => Owner \in draft.signed
        /\ Owner \in draft.signed /\ Owner \notin draft'.signed => Withdrawn
    BY <1>6, CompletionEvolves DEF TypeOK, Request
  <2> HIDE DEF by
  <2>2. CASE Owner \in draft.signed /\ Owner \notin draft'.signed
    <3>1. draft.live = {} /\ AllRecipients
      BY <2>1, <2>2 DEF Withdrawn
    <3>2. Others(draft') = Others(draft)
      BY <1>1, <2>1, <3>1 DEF AllRecipients, Others, Signers
    <3>3. draft'.signed = draft.signed \ {Owner}
      BY <2>2, <3>2 DEF Others
    <3> QED
      BY <1>5, <2>1, <3>1, <3>3
  <2>3. CASE ~(Owner \in draft.signed /\ Owner \notin draft'.signed)
    <3>1. draft'.signed = draft.signed \cup {by}
      <4>1. CASE by = Owner
        BY <2>1, <4>1 DEF Others
      <4>2. CASE by # Owner
        BY <2>1, <2>3, <4>2 DEF Others
      <4> QED
        BY <4>1, <4>2
    <3>2. draft'.live = draft.live \ {by}
      BY <1>1, <2>1
    <3> QED
      BY <1>4, <2>1, <3>1, <3>2
  <2> QED
    BY <2>2, <2>3
<1>7. ASSUME NEW q \in Requests, Store(q), req[q].kind = "cancel" PROVE Ledger!Next
  <2>1. /\ Others(draft') = Others(draft) /\ draft'.live = {}
        /\ Owner \notin draft.signed /\ Owner \in draft'.signed => Withdrawn
    BY <1>7, CancellationEvolves DEF Outside
  <2>2. CASE Owner \notin draft.signed /\ Owner \in draft'.signed
    <3>1. draft'.signed = draft.signed \cup {Owner} /\ draft'.live = draft.live \ {Owner}
      BY <2>1, <2>2 DEF Others, Withdrawn
    <3> QED
      BY <1>4, <3>1 DEF Signers
  <2>3. CASE ~(Owner \notin draft.signed /\ Owner \in draft'.signed)
    <3>1. draft'.signed \in {draft.signed, draft.signed \ {Owner}}
      BY <2>1, <2>3 DEF Others
    <3> QED
      BY <1>5, <2>1, <3>1
  <2> QED
    BY <2>2, <2>3
<1>8. ASSUME NEW q \in Requests, WriteStage(q) PROVE [Ledger!Next]_(Ledger!ledger)
  <2>1. /\ Others(draft') = Others(draft) /\ draft'.live = draft.live
        /\ Owner \in draft.signed /\ Owner \notin draft'.signed => Withdrawn
    BY <1>8, WriteEvolves
  <2>2. CASE Owner \in draft.signed /\ Owner \notin draft'.signed
    <3>1. draft'.signed = draft.signed \ {Owner} /\ draft'.live = {}
      BY <2>1, <2>2 DEF Others, Withdrawn
    <3> QED
      BY <1>5, <3>1
  <2>3. CASE Owner \notin draft.signed /\ Owner \in draft'.signed
    <3>1. draft'.signed = draft.signed \cup {Owner} /\ draft'.live = draft.live \ {Owner}
      BY <1>1, <2>1, <2>3 DEF Others
    <3> QED
      BY <1>4, <3>1 DEF Signers
  <2>4. CASE Owner \in draft.signed <=> Owner \in draft'.signed
    <3>1. draft'.signed = draft.signed
      BY <2>1, <2>4 DEF Others
    <3> QED
      BY <1>2, <2>1, <3>1 DEF Ledger!ledger
  <2> QED
    BY <2>2, <2>3, <2>4
<1>9. ASSUME NEW q \in Requests, Serve(q) PROVE [Ledger!Next]_(Ledger!ledger)
  <2>1. CASE Store(q)
    <3>1. req[q].kind \in {"complete", "cancel"}
      BY <2>1 DEF Store, LockInv, KindOk
    <3> QED
      BY <1>6, <1>7, <2>1, <3>1
  <2>2. CASE WriteStage(q)
    BY <1>8, <2>2
  <2>3. CASE ~Store(q) /\ ~WriteStage(q)
    <3>1. draft' = draft
      BY <1>9, <2>3 DEF Serve, Authorize, Begin, Merge, StoreConflicts, SnapshotStage, EvidenceStage,
                        EmailStage, RecordStage, EnsureLock, Unread
    <3> QED
      BY <1>3, <3>1
  <2> QED
    BY <2>1, <2>2, <2>3
<1>10. CASE ~\E q \in Requests : Serve(q)
  <2>1. draft' = draft
    BY <1>10 DEF Next, vars, Cancel, EnsureSnapshot, Open, OpenRefused, Finish, Receive, PostAgain,
                 Disconnect, OwnerRefresh, Crash
  <2> QED
    BY <1>3, <2>1
<1> QED
  BY <1>9, <1>10

\* The ceremony keeps the ledger of signatures: a recipient's signature is
\* recorded once, with a live token that it spends, and stays; the agreement is
\* executed by the step that records the last one; only a withdrawal that
\* overlaps the owner's signature loses that one.
THEOREM CeremonyKeepsLedger == Spec => LedgerIsKept
<1>1. Init => Ledger!Init
  BY DEF Init, SentDraft, Ledger!Init
<1>2. CeremonyInv /\ CeremonyInv' /\ [Next]_vars => [Ledger!Next]_(Ledger!ledger)
  BY LedgerStep
<1> QED
  BY <1>1, <1>2, CeremonyCorrect, PTL DEF Spec, LedgerIsKept, Ledger!Spec

-----------------------------------------------------------------------------
(* What the browsers show. *)

\* Every step moves the stored draft as Evolves says.
LEMMA EvolveStep == CeremonyInv /\ CeremonyInv' /\ [Next]_vars => Evolves
<1> SUFFICES ASSUME CeremonyInv, CeremonyInv', [Next]_vars PROVE Evolves
  OBVIOUS
<1> USE DEF browser, counts, server, CeremonyInv
<1>1. ASSUME NEW q \in Requests, Store(q) \/ WriteStage(q) PROVE Evolves
  <2>1. CASE Store(q)
    <3>1. req[q].kind \in {"complete", "cancel"}
      BY <2>1 DEF Store, LockInv, KindOk
    <3> QED
      BY <2>1, <3>1, CompletionEvolves, CancellationEvolves
  <2>2. CASE WriteStage(q)
    BY <2>2, WriteEvolves
  <2> QED
    BY <1>1, <2>1, <2>2
<1>2. CASE \A q \in Requests : ~Store(q) /\ ~WriteStage(q)
  <2>1. draft' = draft
    BY <1>2 DEF Next, vars, Serve, Authorize, Begin, Merge, StoreConflicts, SnapshotStage, EvidenceStage,
                EmailStage, RecordStage, EnsureLock, Unread, Cancel, EnsureSnapshot, Open, OpenRefused,
                Finish, Receive, PostAgain, Disconnect, OwnerRefresh, Crash
  <2>2. cancels' = cancels \/ cancels' = cancels + 1
    BY <1>2 DEF Next, vars, Serve, Authorize, Begin, Merge, StoreConflicts, SnapshotStage, EvidenceStage,
                EmailStage, RecordStage, EnsureLock, Unread, Cancel, EnsureSnapshot, Open, OpenRefused,
                Finish, Receive, PostAgain, Disconnect, OwnerRefresh, Crash
  <2>3. cancels <= cancels'
    <3>1. cancels \in Nat
      BY DEF TypeOK
    <3> QED
      BY <2>2, <3>1
  <2> QED
    BY <2>1, <2>3, StillDraft
<1> QED
  BY <1>1, <1>2

\* The signers that a browser may show as signed.
Known == draft.signed \cup (IF cancels > 0 THEN {Owner} ELSE {})

\* No step takes a signer out of those a browser may show.
LEMMA KnownGrows ==
  ASSUME CeremonyInv, CeremonyInv', [Next]_vars
  PROVE  Known \subseteq Known'
<1>1. Evolves
  BY EvolveStep
<1>2. cancels \in Nat /\ cancels' \in Nat
  BY DEF CeremonyInv, TypeOK
<1> QED
  BY <1>1, <1>2 DEF Known, Evolves, Others

\* No step shows a signer as signed without its signature.
LEMMA MarksStep ==
  CeremonyInv /\ CeremonyInv' /\ OtherMarksAreRecorded /\ [Next]_vars => OtherMarksAreRecorded'
<1> SUFFICES ASSUME CeremonyInv, CeremonyInv', OtherMarksAreRecorded, [Next]_vars
             PROVE  OtherMarksAreRecorded'
  OBVIOUS
<1> USE DEF browser, counts, server, CeremonyInv
<1>1. Known \subseteq Known'
  BY KnownGrows
<1>2. \A t \in Signers : marks[t] \ {t} \subseteq Known
  BY DEF OtherMarksAreRecorded, Known
<1>3. ASSUME \A t \in Signers : marks'[t] \ {t} \subseteq marks[t] \cup Known
      PROVE  OtherMarksAreRecorded'
  <2>1. \A t \in Signers : marks'[t] \ {t} \subseteq Known'
    BY <1>1, <1>2, <1>3
  <2> QED
    BY <2>1 DEF OtherMarksAreRecorded, Known
<1>4. AllRecipients => Signers \ {Owner} \subseteq Known
  BY DEF AllRecipients, Known, Signers
<1>5. marks \in [Signers -> SUBSET Signers]
  BY DEF TypeOK
<1>6. ASSUME NEW s \in Signers, NEW full \in BOOLEAN, Settle(s, full), full /\ s = Owner => AllRecipients
      PROVE  OtherMarksAreRecorded'
  <2>1. Marked(s, full) \ {s} \subseteq marks[s] \cup Known
    BY <1>4, <1>6 DEF Marked
  <2>2. \A t \in Signers : marks'[t] = IF t = s THEN Marked(s, full) ELSE marks[t]
    BY <1>5, <1>6 DEF Settle
  <2> QED
    BY <1>3, <2>1, <2>2
<1>7. page[Owner] = "retrying" => AllRecipients
  BY DEF CopiesInv
<1>8. ASSUME NEW s \in Signers, NEW q \in Requests, Receive(s, q) \/ Disconnect(s, q)
      PROVE  OtherMarksAreRecorded'
  <2>1. PICK full \in BOOLEAN : Settle(s, full) /\ (full => page[s] = "retrying" \/ req[q].full)
    BY <1>8 DEF Receive, Disconnect
  <2>2. full /\ s = Owner => AllRecipients
    BY <1>7, <2>1, StageFacts
  <2> QED
    BY <1>6, <2>1, <2>2
<1>9. ASSUME NEW s \in Signers, Open(s) PROVE OtherMarksAreRecorded'
  <2>1. draft.snap => draft.signed = Signers
    BY DEF CopiesInv, ArtefactsRestOnSignatures, AllSigned
  <2>2. \A t \in Signers : marks'[t] \ {t} \subseteq marks[t] \cup Known
    BY <1>5, <1>9, <2>1 DEF Open, Known
  <2> QED
    BY <1>3, <2>2
<1>10. CASE OwnerRefresh
  <2>1. \A t \in Signers : marks'[t] \ {t} \subseteq marks[t] \cup Known
    BY <1>5, <1>10 DEF OwnerRefresh, Known
  <2> QED
    BY <1>3, <2>1
<1>11. CASE Crash
  <2>1. ASSUME NEW t \in Signers PROVE marks'[t] \ {t} \subseteq marks[t] \cup Known
    <3>1. marks'[t] = marks[t] \/ marks'[t] = Marked(t, page[t] = "retrying")
      BY <1>11 DEF Crash
    <3>2. Marked(t, page[t] = "retrying") \ {t} \subseteq marks[t] \cup Known
      BY <1>4, <1>7 DEF Marked
    <3> QED
      BY <3>1, <3>2
  <2> QED
    BY <1>3, <2>1
<1>12. CASE marks' = marks
  BY <1>3, <1>12
<1>13. ASSUME NEW q \in Requests, Serve(q) \/ Cancel(q) \/ EnsureSnapshot(q) PROVE marks' = marks
  BY <1>13 DEF Serve, Authorize, Begin, Merge, Store, StoreConflicts, SnapshotStage, EvidenceStage,
               EmailStage, RecordStage, WriteStage, EnsureLock, Unread, Cancel, EnsureSnapshot
<1>14. ASSUME NEW s \in Signers, NEW q \in Requests, OpenRefused(s) \/ Finish(s, q) \/ PostAgain(s, q)
       PROVE  marks' = marks
  BY <1>14 DEF OpenRefused, Finish, PostAgain
<1>15. CASE UNCHANGED vars
  BY <1>12, <1>15 DEF vars
<1>16. CASE \E s \in Signers : OpenRefused(s)
  BY <1>12, <1>16 DEF OpenRefused
<1> QED
  BY <1>8, <1>9, <1>10, <1>11, <1>12, <1>13, <1>14, <1>15, <1>16 DEF Next

\* What a browser shows of a recipient other than its own signer is on the
\* server, and what it shows of the owner is, until a packet was cancelled.
THEOREM MarksCorrect == Spec => []OtherMarksAreRecorded
<1>1. Init => OtherMarksAreRecorded
  BY DEF Init, OtherMarksAreRecorded
<1> QED
  BY <1>1, MarksStep, CeremonyCorrect, PTL DEF Spec

-----------------------------------------------------------------------------
(* A ceremony that nothing disturbs. *)

\* Nothing was lost, cancelled or stamped.
Quiet == faults = 0 /\ cancels = 0 /\ ~stampable

\* Every request works with the draft and the registry of the server.
QuietRequest(x) ==
  /\ x.kind # "cancel"
  /\ x.body = "stamped" => AllSigned(draft)
  /\ x.pc = "merge" => x.base.rev = draft.rev
  /\ x.pc = "store" => x.seen = draft.rev /\ x.next.active
  /\ x.pc \in {"snapshot_write", "evidence_write", "record_write"} => x.next.active
  /\ x.kind = "complete" /\ x.pc \in Late => AllSigned(draft)

\* A page has finished with a signature, and waits for a request of its own,
\* which it gets an answer from only after its signature.
QuietPage(s) ==
  /\ copy[s] = "stamped" => AllSigned(draft)
  /\ page[s] = "finished" => s \in draft.signed
  /\ \A q \in Requests : awaits[s] = q =>
       /\ req[q].pc # "idle" /\ req[q].kind = "complete"
       /\ IF req[q].pc = "answered" THEN s \in draft.signed ELSE req[q].by = s
       /\ \A t \in Signers : awaits[t] = q => t = s

QuietDraft == draft.active /\ draft.live = Recipients \ draft.signed

QuietInv ==
  Quiet => /\ QuietDraft
           /\ \A q \in Requests : QuietRequest(req[q])
           /\ \A s \in Signers : QuietPage(s)

\* What the steps of a ceremony that stays quiet start from.
LEMMA QuietBefore ==
  ASSUME CeremonyInv, CeremonyInv', QuietInv, [Next]_vars, Quiet'
  PROVE  /\ Quiet /\ cancels' = cancels /\ faults' = faults
         /\ QuietDraft
         /\ \A q \in Requests : QuietRequest(req[q])
         /\ \A s \in Signers : QuietPage(s)
         /\ draft.signed \subseteq draft'.signed /\ (AllSigned(draft) => AllSigned(draft)')
<1> USE DEF browser, counts, server
<1>1. cancels \in Nat /\ faults \in Nat /\ stampable \in BOOLEAN
      /\ draft.signed \subseteq Signers /\ draft'.signed \subseteq Signers
  BY DEF CeremonyInv, TypeOK, Draft
<1>2. /\ cancels' = cancels \/ cancels' = cancels + 1
      /\ faults' = faults \/ faults' = faults + 1
      /\ stampable' = stampable
  BY DEF Next, vars, Serve, Authorize, Begin, Merge, Store, StoreConflicts, SnapshotStage, EvidenceStage,
         EmailStage, RecordStage, WriteStage, EnsureLock, Unread, Cancel, EnsureSnapshot, Open,
         OpenRefused, Finish, Receive, PostAgain, Disconnect, OwnerRefresh, Crash
<1>3. Quiet /\ cancels' = cancels /\ faults' = faults
  BY <1>1, <1>2 DEF Quiet
<1>4. Evolves
  BY EvolveStep
<1>5. draft.signed \subseteq draft'.signed
  BY <1>1, <1>3, <1>4 DEF Evolves, Others, Quiet
<1>6. AllSigned(draft) => AllSigned(draft)'
  BY <1>1, <1>5 DEF AllSigned
<1> QED
  BY <1>3, <1>5, <1>6 DEF QuietInv

\* A step of one request, which moves on or ends with its signer's signature on
\* the server.
LEMMA QuietFrame ==
  ASSUME CeremonyInv, CeremonyInv', QuietInv, [Next]_vars, Quiet', NEW q \in Requests,
         \A r \in Requests : r # q => req'[r] = req[r],
         UNCHANGED browser, QuietDraft', QuietRequest(req[q])',
         Holding(req[q]) \/ draft'.rev = draft.rev,
         req[q].pc \notin {"idle", "answered"},
         \/ req'[q].pc \notin {"idle", "answered"} /\ req'[q].by = req[q].by
              /\ req'[q].kind = req[q].kind
         \/ req[q].kind = "complete" =>
              req[q].by \in draft'.signed /\ req'[q].kind = "complete" /\ req'[q].pc = "answered"
  PROVE  QuietInv'
<1> USE DEF browser
<1>1. /\ QuietDraft /\ \A r \in Requests : QuietRequest(req[r])
      /\ \A s \in Signers : QuietPage(s)
      /\ draft.signed \subseteq draft'.signed /\ (AllSigned(draft) => AllSigned(draft)')
  BY QuietBefore
<1>2. ASSUME NEW r \in Requests PROVE QuietRequest(req[r])'
  <2>1. CASE r = q
    BY <2>1
  <2>2. CASE r # q /\ draft'.rev = draft.rev
    BY <1>1, <2>2 DEF QuietRequest
  <2>3. CASE r # q /\ Holding(req[q])
    <3>1. ~Holding(req[r]) /\ KindOk(req[r])
      BY <2>3 DEF CeremonyInv, LockInv
    <3>2. req[r].pc \notin {"merge", "store"}
      BY <1>1, <3>1 DEF Holding, KindOk, Cancelling, Ensuring, Locked, QuietRequest
    <3> QED
      BY <1>1, <2>3, <3>2 DEF QuietRequest
  <2> QED
    BY <2>1, <2>2, <2>3
<1>3. ASSUME NEW s \in Signers PROVE QuietPage(s)'
  <2>1. QuietPage(s)
    BY <1>1
  <2>2. copy'[s] = copy[s] /\ page'[s] = page[s] /\ awaits' = awaits
    OBVIOUS
  <2>3. ASSUME NEW r \in Requests, awaits[s] = r
        PROVE  /\ req'[r].pc # "idle" /\ req'[r].kind = "complete"
               /\ IF req'[r].pc = "answered" THEN s \in draft'.signed ELSE req'[r].by = s
               /\ \A t \in Signers : awaits[t] = r => t = s
    <3>1. /\ req[r].pc # "idle" /\ req[r].kind = "complete"
          /\ IF req[r].pc = "answered" THEN s \in draft.signed ELSE req[r].by = s
          /\ \A t \in Signers : awaits[t] = r => t = s
      BY <2>1, <2>3 DEF QuietPage
    <3>2. CASE r = q
      BY <3>1, <3>2
    <3>3. CASE r # q
      BY <1>1, <3>1, <3>3
    <3> QED
      BY <3>2, <3>3
  <2> QED
    BY <1>1, <2>1, <2>2, <2>3 DEF QuietPage
<1> QED
  BY <1>2, <1>3 DEF QuietInv

\* The end of a handler.
LEMMA QuietAnswer ==
  ASSUME CeremonyInv, CeremonyInv', QuietInv, [Next]_vars, Quiet', NEW q \in Requests,
         NEW full \in BOOLEAN, Answer(q, full), UNCHANGED browser, QuietDraft',
         Holding(req[q]) \/ draft'.rev = draft.rev,
         req[q].pc \notin {"idle", "answered"},
         req[q].kind = "complete" => req[q].by \in draft'.signed
  PROVE  QuietInv'
<1>1. /\ req'[q].kind = "complete" /\ req'[q].body = "clean"
      /\ req'[q].pc = IF req[q].kind = "complete" THEN "answered" ELSE "idle"
      /\ \A r \in Requests : r # q => req'[r] = req[r]
  BY AnswerEffect DEF CeremonyInv
<1>2. QuietRequest(req[q])'
  BY <1>1 DEF QuietRequest, Late
<1> QED
  BY <1>1, <1>2, QuietFrame

\* A step to a stage without a draft at hand.
LEMMA QuietGoto ==
  ASSUME CeremonyInv, CeremonyInv', QuietInv, [Next]_vars, Quiet', NEW q \in Requests,
         NEW step \in {"queued", "mail_queued", "snapshot", "evidence", "emails", "record"},
         Goto(q, step), UNCHANGED browser, QuietDraft',
         Holding(req[q]) \/ draft'.rev = draft.rev,
         req[q].pc \notin {"idle", "answered"},
         req[q].kind = "complete" /\ step # "queued" => AllSigned(draft)'
  PROVE  QuietInv'
<1>1. step \in PCs
  BY DEF PCs, Locked
<1>2. /\ req'[q].pc = step /\ req'[q].kind = req[q].kind /\ req'[q].by = req[q].by
      /\ req'[q].body = req[q].body /\ \A r \in Requests : r # q => req'[r] = req[r]
  BY <1>1, GotoEffect DEF CeremonyInv
<1>3. QuietRequest(req[q]) /\ (AllSigned(draft) => AllSigned(draft)')
  BY QuietBefore
<1>4. QuietRequest(req[q])'
  BY <1>2, <1>3 DEF QuietRequest, Late
<1> QED
  BY <1>2, <1>4, QuietFrame

\* A step that prepares a write.
LEMMA QuietPrepare ==
  ASSUME CeremonyInv, CeremonyInv', QuietInv, [Next]_vars, Quiet', NEW q \in Requests,
         NEW d \in Draft, d.active, NEW rev \in Nat,
         NEW step \in {"store", "snapshot_write", "evidence_write", "record_write"},
         Prepare(q, d, rev, step), UNCHANGED browser, draft' = draft,
         req[q].pc \notin {"idle", "answered"},
         step = "store" => rev = draft.rev,
         req[q].kind = "complete" /\ step # "store" => AllSigned(draft)
  PROVE  QuietInv'
<1>1. step \in PCs
  BY DEF PCs, Locked
<1>2. /\ req'[q].pc = step /\ req'[q].kind = req[q].kind /\ req'[q].by = req[q].by
      /\ req'[q].body = req[q].body /\ req'[q].next = d /\ req'[q].seen = rev
      /\ \A r \in Requests : r # q => req'[r] = req[r]
  BY <1>1, PrepareEffect DEF CeremonyInv
<1>3. QuietDraft /\ QuietRequest(req[q]) /\ (AllSigned(draft) => AllSigned(draft)')
  BY QuietBefore
<1>4. QuietRequest(req[q])'
  BY <1>2, <1>3 DEF QuietRequest, Late
<1>5. QuietDraft'
  BY <1>3 DEF QuietDraft
<1> QED
  BY <1>2, <1>4, <1>5, QuietFrame

\* The steps of a request that leave the stored draft alone.
LEMMA QuietServe ==
  ASSUME CeremonyInv, CeremonyInv', QuietInv, [Next]_vars, Quiet', NEW q \in Requests,
         \/ Authorize(q) \/ Begin(q) \/ Merge(q) \/ StoreConflicts(q) \/ SnapshotStage(q)
         \/ EvidenceStage(q) \/ EmailStage(q) \/ RecordStage(q) \/ EnsureLock(q)
  PROVE  QuietInv'
<1> USE DEF browser, counts, server
<1>1. /\ QuietDraft /\ QuietRequest(req[q]) /\ (AllSigned(draft) => AllSigned(draft)')
      /\ draft.signed \subseteq draft'.signed
  BY QuietBefore
<1>2. /\ draft' = draft /\ UNCHANGED browser /\ req[q].pc \notin {"idle", "answered"}
  BY DEF Authorize, Begin, Merge, StoreConflicts, SnapshotStage, EvidenceStage, EmailStage,
         RecordStage, EnsureLock
<1>3. /\ req[q].by \in Signers /\ draft.rev \in Nat /\ draft \in Draft /\ KindOk(req[q])
      /\ TypeOK /\ draft.active
      /\ draft.snap => AllSigned(draft)
  <2>1. draft.snap => AllSigned(draft)
    BY StageFacts DEF CeremonyInv, Founded
  <2> QED
    BY <1>1, <2>1 DEF CeremonyInv, TypeOK, Request, LockInv, Draft, QuietDraft
<1>4. QuietDraft' /\ draft'.rev = draft.rev
  BY <1>1, <1>2 DEF QuietDraft
<1>5. AllSigned(draft) => req[q].by \in draft'.signed
  BY <1>1, <1>3 DEF AllSigned
<1>6. ASSUME NEW full \in BOOLEAN, Answer(q, full),
             req[q].kind = "complete" => req[q].by \in draft.signed
      PROVE  QuietInv'
  BY <1>1, <1>2, <1>4, <1>6, QuietAnswer
<1>7. ASSUME NEW step \in {"queued", "mail_queued", "snapshot", "evidence", "emails", "record"},
             Goto(q, step), req[q].kind = "complete" /\ step # "queued" => AllSigned(draft)
      PROVE  QuietInv'
  BY <1>1, <1>2, <1>4, <1>7, QuietGoto
<1>8. ASSUME NEW d \in Draft, d.active, NEW step \in {"snapshot_write", "evidence_write", "record_write"},
             Prepare(q, d, draft.rev, step), req[q].kind = "complete" => AllSigned(draft)
      PROVE  QuietInv'
  BY <1>2, <1>3, <1>8, QuietPrepare
<1>9. req[q].pc \in Late /\ req[q].kind = "complete" => AllSigned(draft) /\ req[q].by \in draft.signed
  BY <1>1, <1>3 DEF QuietRequest, AllSigned
<1>10. CASE Authorize(q)
  <2>1. CASE Goto(q, "queued")
    BY <1>7, <2>1
  <2>2. CASE ~Authorized(req[q].by) /\ Answer(q, FALSE)
    <3>1. req[q].by \in draft.signed
      BY <1>1, <1>3, <2>2 DEF Authorized, QuietDraft, Signers
    <3> QED
      BY <1>6, <2>2, <3>1
  <2> QED
    BY <1>10, <2>1, <2>2 DEF Authorize, Refuse
<1>11. CASE Begin(q)
  <2>1. CASE Answer(q, FALSE) /\ ~Attested(q)
    <3>1. AllSigned(draft)
      BY <1>1, <1>3, <2>1 DEF Attested, QuietRequest
    <3>2. req[q].by \in draft.signed
      BY <1>3, <3>1 DEF AllSigned
    <3> QED
      BY <1>6, <2>1, <3>2
  <2>2. CASE req' = [req EXCEPT ![q].pc = "merge", ![q].base = draft]
    <3>1. /\ req'[q].pc = "merge" /\ req'[q].base = draft /\ req'[q].kind = req[q].kind
          /\ req'[q].by = req[q].by /\ req'[q].body = req[q].body
          /\ \A r \in Requests : r # q => req'[r] = req[r]
      BY <1>3, <2>2 DEF TypeOK, Request
    <3>2. QuietRequest(req[q])'
      BY <1>1, <1>2, <3>1 DEF QuietRequest, Late
    <3> QED
      BY <1>2, <1>4, <3>1, <3>2, QuietFrame
  <2> QED
    BY <1>3, <1>11, <2>1, <2>2 DEF Begin, Refuse
<1>12. CASE Merge(q)
  <2>1. Prepare(q, NextOf(q), RegistrySeen(q).rev, "store")
    BY <1>12 DEF Merge, NextOf
  <2>2. RegistrySeen(q).rev = draft.rev
    BY <1>1, <1>12 DEF RegistrySeen, QuietRequest, Merge
  <2>3. NextOf(q) \in Draft /\ NextOf(q).active
    <3>1. Merged(q) \in Draft /\ Merged(q).active
      <4>1. Merged(q) \in Draft
        BY <1>3, DraftTypes
      <4>2. Merged(q).active
        BY <1>3 DEF Merged, Draft
      <4> QED
        BY <4>1, <4>2
    <3>2. PICK d \in Draft : d = [Merged(q) EXCEPT !.live = RegistrySeen(q).live, !.rev = RegistrySeen(q).rev]
      BY <1>3, <3>1, DraftTypes DEF Draft
    <3>3. d.active
      BY <3>1, <3>2 DEF Draft
    <3>4. NextOf(q).active
      BY <3>2, <3>3 DEF NextOf, Spent, Draft
    <3> QED
      BY <1>3, <3>4, MergeTypes
  <2> QED
    BY <1>2, <1>3, <2>1, <2>2, <2>3, QuietPrepare
<1>13. CASE StoreConflicts(q)
  BY <1>1, <1>13 DEF StoreConflicts, QuietRequest
<1>14. CASE SnapshotStage(q)
  <2>1. AllSigned(draft)
    BY <1>3, <1>9, <1>14 DEF SnapshotStage, Late, KindOk
  <2>2. PICK d \in Draft : d = [draft EXCEPT !.snap = TRUE]
    BY <1>3, DraftTypes
  <2>3. d.active
    BY <1>3, <2>2 DEF Draft
  <2> QED
    BY <1>7, <1>8, <1>14, <2>1, <2>2, <2>3 DEF SnapshotStage
<1>15. CASE EvidenceStage(q)
  <2>1. AllSigned(draft)
    BY <1>3, <1>9, <1>15 DEF EvidenceStage, Late, KindOk
  <2>2. PICK d \in Draft : d = [draft EXCEPT !.evidence = TRUE]
    BY <1>3, DraftTypes
  <2>3. d.active
    BY <1>3, <2>2 DEF Draft
  <2> QED
    BY <1>7, <1>8, <1>15, <2>1, <2>2, <2>3 DEF EvidenceStage
<1>16. CASE EmailStage(q)
  <2>1. req[q].pc \in Late
    BY <1>16 DEF EmailStage, Late
  <2> QED
    BY <1>6, <1>7, <1>9, <1>16, <2>1 DEF EmailStage
<1>17. CASE RecordStage(q)
  <2>1. req[q].pc \in Late
    BY <1>17 DEF RecordStage, Late
  <2>2. PICK d \in Draft : d = [draft EXCEPT !.emailed = TRUE]
    BY <1>3, DraftTypes
  <2>3. d.active
    BY <1>3, <2>2 DEF Draft
  <2> QED
    BY <1>6, <1>8, <1>9, <1>17, <2>1, <2>2, <2>3 DEF RecordStage
<1>18. CASE EnsureLock(q)
  <2>1. req[q].kind = "ensure"
    BY <1>3, <1>18 DEF EnsureLock, KindOk
  <2> QED
    BY <1>7, <1>18, <2>1 DEF EnsureLock
<1> QED
  BY <1>10, <1>11, <1>12, <1>13, <1>14, <1>15, <1>16, <1>17, <1>18

\* The steps that write the stored draft.
LEMMA QuietWrite ==
  ASSUME CeremonyInv, CeremonyInv', QuietInv, [Next]_vars, Quiet', NEW q \in Requests,
         Store(q) \/ WriteStage(q)
  PROVE  QuietInv'
<1> USE DEF browser, counts, server
<1>1. /\ Quiet /\ QuietDraft /\ QuietRequest(req[q]) /\ (AllSigned(draft) => AllSigned(draft)')
      /\ draft.signed \subseteq draft'.signed
  BY QuietBefore
<1>2. UNCHANGED browser /\ req[q].pc \notin {"idle", "answered"}
  BY DEF Store, WriteStage
<1>3. TypeOK /\ TypeOK' /\ LockInv /\ CopiesInv /\ KindOk(req[q])
  BY DEF CeremonyInv, LockInv
<1>4. draft \in Draft /\ draft' \in Draft /\ req[q].next \in Draft /\ req[q].by \in Signers
  BY <1>3 DEF TypeOK, Request
<1>5. CASE Store(q)
  <2>1. req[q].kind = "complete" /\ req[q].next.active
    BY <1>1, <1>3, <1>5 DEF Store, KindOk, QuietRequest
  <2>2. /\ Holding(req[q]) /\ draft'.signed = req[q].next.signed /\ req[q].by \in draft'.signed
        /\ Others(draft') = Others(draft) \cup ({req[q].by} \ {Owner})
        /\ draft'.live = draft.live \ ({req[q].by} \ {Owner})
    BY <1>3, <1>5, <2>1, CompletionEvolves
  <2>3. draft'.active
    BY <1>4, <1>5, <2>1 DEF Store, Stored, Preserving, Draft
  <2>4. draft'.live = Recipients \ draft'.signed
    BY <1>1, <2>2, CeremonyAssumption DEF QuietDraft, Others
  <2>5. QuietDraft'
    BY <2>3, <2>4 DEF QuietDraft
  <2>6. CASE Answer(q, FALSE)
    BY <1>2, <2>2, <2>5, <2>6, QuietAnswer
  <2>7. CASE AllSigned(req[q].next) /\ Goto(q, "snapshot")
    <3>1. AllSigned(draft)'
      BY <2>2, <2>7 DEF AllSigned
    <3> QED
      BY <1>2, <2>2, <2>5, <2>7, <3>1, QuietGoto
  <2> QED
    BY <1>5, <2>6, <2>7 DEF Store
<1>6. CASE WriteStage(q)
  <2>1. req[q].next.active
    BY <1>1, <1>6 DEF WriteStage, QuietRequest
  <2>2. /\ Others(draft') = Others(draft) /\ draft'.live = draft.live /\ draft'.rev = draft.rev
    BY <1>3, <1>6, WriteEvolves
  <2>3. draft'.active
    BY <1>4, <1>6, <2>1 DEF WriteStage, Preserving, Draft
  <2>4. draft'.live = Recipients \ draft'.signed
    BY <1>1, <2>2, CeremonyAssumption DEF QuietDraft, Others
  <2>5. QuietDraft'
    BY <2>3, <2>4 DEF QuietDraft
  <2>6. req[q].kind = "complete" => AllSigned(draft)' /\ req[q].by \in draft'.signed
    BY <1>1, <1>4, <1>6 DEF WriteStage, QuietRequest, Late, AllSigned
  <2>7. CASE Answer(q, TRUE) \/ Answer(q, FALSE)
    BY <1>2, <2>2, <2>5, <2>6, <2>7, QuietAnswer
  <2>8. CASE Goto(q, "evidence") \/ Goto(q, "emails") \/ Goto(q, "mail_queued")
    BY <1>2, <2>2, <2>5, <2>6, <2>8, QuietGoto
  <2> QED
    BY <1>6, <2>7, <2>8 DEF WriteStage, Refuse
<1> QED
  BY <1>5, <1>6

\* The steps that leave the stored draft and the pages alone, of a request that
\* no page waits for.
LEMMA QuietUnawaited ==
  ASSUME CeremonyInv, CeremonyInv', QuietInv, [Next]_vars, Quiet', NEW q \in Requests,
         Unread(q) \/ EnsureSnapshot(q)
  PROVE  QuietInv'
<1> USE DEF browser, counts, server
<1>1. /\ QuietDraft /\ (AllSigned(draft) => AllSigned(draft)')
      /\ \A r \in Requests : QuietRequest(req[r])
      /\ \A s \in Signers : QuietPage(s)
  BY QuietBefore
<1>2. draft' = draft /\ UNCHANGED browser
  BY DEF Unread, EnsureSnapshot
<1>3. draft \in Draft /\ TypeOK
  BY DEF CeremonyInv, TypeOK
<1>4. \A s \in Signers : awaits[s] # q
  BY <1>1 DEF Unread, EnsureSnapshot, QuietPage
<1>5. QuietRequest(req[q])' /\ \A r \in Requests : r # q => req'[r] = req[r]
  <2>1. CASE req' = [req EXCEPT ![q] = Idle]
    <3>1. req'[q] = Idle /\ \A r \in Requests : r # q => req'[r] = req[r]
      BY <1>3, <2>1 DEF TypeOK
    <3> QED
      BY <3>1 DEF QuietRequest, Idle, Late
  <2>2. CASE req' = [req EXCEPT ![q] = [Idle EXCEPT !.kind = "ensure", !.pc = "mail_queued"]]
    <3>1. /\ req'[q].kind = "ensure" /\ req'[q].pc = "mail_queued" /\ req'[q].body = "clean"
          /\ \A r \in Requests : r # q => req'[r] = req[r]
      BY <1>3, <2>2 DEF TypeOK, Idle
    <3> QED
      BY <3>1 DEF QuietRequest
  <2>3. CASE req' = [req EXCEPT ![q] = [Idle EXCEPT
                       !.kind = "ensure", !.pc = "snapshot_write", !.seen = draft.rev,
                       !.next = [draft EXCEPT !.snap = TRUE]]]
    <3>1. PICK d \in Draft : d = [draft EXCEPT !.snap = TRUE]
      BY <1>3, DraftTypes
    <3>2. d.active
      BY <1>1, <1>3, <3>1 DEF Draft, QuietDraft
    <3>3. /\ req'[q] = [Idle EXCEPT !.kind = "ensure", !.pc = "snapshot_write",
                                    !.seen = draft.rev, !.next = d]
          /\ \A r \in Requests : r # q => req'[r] = req[r]
      BY <1>3, <2>3, <3>1 DEF TypeOK
    <3>4. req'[q].kind = "ensure" /\ req'[q].pc = "snapshot_write" /\ req'[q].body = "clean"
          /\ req'[q].next = d
      BY <3>3 DEF Idle
    <3> QED
      BY <3>2, <3>3, <3>4 DEF QuietRequest
  <2> QED
    BY <2>1, <2>2, <2>3 DEF Unread, EnsureSnapshot
<1>6. ASSUME NEW r \in Requests PROVE QuietRequest(req[r])'
  BY <1>1, <1>2, <1>5 DEF QuietRequest
<1>7. ASSUME NEW s \in Signers PROVE QuietPage(s)'
  BY <1>1, <1>2, <1>4, <1>5 DEF QuietPage
<1>8. QuietDraft'
  BY <1>1, <1>2 DEF QuietDraft
<1> QED
  BY <1>6, <1>7, <1>8 DEF QuietInv

\* A completion is posted.
LEMMA QuietPost ==
  ASSUME CeremonyInv, CeremonyInv', QuietInv, [Next]_vars, Quiet', NEW s \in Signers,
         NEW q \in Requests, Finish(s, q) \/ PostAgain(s, q)
  PROVE  QuietInv'
<1> USE DEF browser, counts, server
<1>1. /\ Quiet /\ QuietDraft /\ (AllSigned(draft) => AllSigned(draft)')
      /\ \A r \in Requests : QuietRequest(req[r])
      /\ \A t \in Signers : QuietPage(t)
  BY QuietBefore
<1>2. draft' = draft /\ TypeOK
  BY DEF Finish, PostAgain, CeremonyInv
<1>3. StampedCopy(s) = copy[s] /\ copy[s] \in Copies
  BY <1>1, <1>2 DEF StampedCopy, Quiet, TypeOK
<1>4. /\ req'[q].kind = "complete" /\ req'[q].by = s /\ req'[q].body = copy[s]
      /\ req'[q].pc = "arrived"
      /\ \A r \in Requests : r # q => req'[r] = req[r]
  <2>1. Arrive(q, "complete", s, StampedCopy(s)) /\ StampedCopy(s) \in Copies
    BY <1>3 DEF Finish, PostAgain
  <2>2. /\ req'[q].kind = "complete" /\ req'[q].by = s /\ req'[q].body = StampedCopy(s)
        /\ req'[q].pc = "arrived"
        /\ \A r \in Requests : r # q => req'[r] = req[r]
    BY <1>2, <2>1, ArriveEffect
  <2> QED
    BY <1>3, <2>2
<1>5. /\ copy' = copy /\ awaits' = [awaits EXCEPT ![s] = q]
      /\ \A t \in Signers : page'[t] = "finished" => page[t] = "finished"
      /\ awaits \in [Signers -> Requests \cup {None}]
  <2>1. copy' = copy
    BY <1>2, <1>3 DEF Finish, PostAgain, TypeOK
  <2>2. awaits' = [awaits EXCEPT ![s] = q]
    BY <1>2 DEF Finish, PostAgain, TypeOK
  <2>3. \A t \in Signers : page'[t] = "finished" => page[t] = "finished"
    BY <1>2 DEF Finish, PostAgain, TypeOK
  <2> QED
    BY <1>2, <2>1, <2>2, <2>3 DEF TypeOK
<1>6. \A t \in Signers : awaits[t] = q => t = s
  BY <1>1 DEF Finish, PostAgain, QuietPage
<1>7. ASSUME NEW r \in Requests PROVE QuietRequest(req[r])'
  <2>1. CASE r = q
    BY <1>1, <1>2, <1>4, <2>1 DEF QuietRequest, QuietPage, Late
  <2>2. CASE r # q
    BY <1>1, <1>2, <1>4, <2>2 DEF QuietRequest
  <2> QED
    BY <2>1, <2>2
<1>8. ASSUME NEW t \in Signers PROVE QuietPage(t)'
  <2>1. QuietPage(t)
    BY <1>1
  <2>2. ASSUME NEW r \in Requests, awaits'[t] = r
        PROVE  /\ req'[r].pc # "idle" /\ req'[r].kind = "complete"
               /\ IF req'[r].pc = "answered" THEN t \in draft'.signed ELSE req'[r].by = t
               /\ \A u \in Signers : awaits'[u] = r => u = t
    <3>1. CASE r = q
      BY <1>4, <1>5, <1>6, <2>2, <3>1
    <3>2. CASE r # q
      <4>1. t # s /\ awaits[t] = r
        BY <1>5, <2>2, <3>2
      <4> QED
        BY <1>2, <1>4, <1>5, <2>1, <3>2, <4>1 DEF QuietPage
    <3> QED
      BY <3>1, <3>2
  <2> QED
    BY <1>2, <1>5, <2>1, <2>2 DEF QuietPage, AllSigned
<1>9. QuietDraft'
  BY <1>1, <1>2 DEF QuietDraft
<1> QED
  BY <1>7, <1>8, <1>9 DEF QuietInv

\* A page opens, is left, or gets its answer.
LEMMA QuietLook ==
  ASSUME CeremonyInv, CeremonyInv', QuietInv, [Next]_vars, Quiet', NEW s \in Signers,
         Open(s) \/ OpenRefused(s) \/ \E q \in Requests : Receive(s, q)
  PROVE  QuietInv'
<1> USE DEF browser, counts, server
<1>1. /\ QuietDraft
      /\ \A r \in Requests : QuietRequest(req[r])
      /\ \A t \in Signers : QuietPage(t)
  BY QuietBefore
<1>2. draft' = draft /\ TypeOK
  BY DEF Open, OpenRefused, Receive, CeremonyInv
<1>3. /\ awaits' = [awaits EXCEPT ![s] = None]
      /\ awaits \in [Signers -> Requests \cup {None}] /\ None \notin Requests
  <2>1. awaits' = [awaits EXCEPT ![s] = None]
    BY DEF Open, OpenRefused, Receive, Settle
  <2> QED
    BY <1>2, <2>1, CeremonyAssumption DEF TypeOK
<1>4. \A r \in Requests : req'[r] = req[r] \/ (req'[r] = Idle /\ awaits[s] = r)
  <2>1. ASSUME NEW q \in Requests, Receive(s, q), NEW r \in Requests
        PROVE  req'[r] = req[r] \/ (req'[r] = Idle /\ awaits[s] = r)
    BY <1>2, <2>1 DEF Receive, TypeOK
  <2>2. CASE Open(s) \/ OpenRefused(s)
    BY <2>2 DEF Open, OpenRefused
  <2> QED
    BY <2>1, <2>2
<1>5. copy'[s] = "stamped" => AllSigned(draft)
  <2>1. draft.snap => AllSigned(draft)
    BY StageFacts, QuietBefore DEF CeremonyInv, CopiesInv, ArtefactsRestOnSignatures
  <2>2. CASE Open(s)
    BY <1>2, <2>1, <2>2 DEF Open, TypeOK
  <2>3. CASE copy' = copy
    BY <1>1, <2>3 DEF QuietPage
  <2> QED
    BY <2>2, <2>3 DEF OpenRefused, Receive
<1>6. page'[s] = "finished" => s \in draft.signed
  <2>1. ASSUME NEW q \in Requests, Receive(s, q) PROVE s \in draft.signed
    BY <1>1, <2>1 DEF Receive, QuietPage
  <2>2. CASE Open(s) \/ OpenRefused(s)
    BY <1>2, <2>2 DEF Open, OpenRefused, TypeOK
  <2> QED
    BY <2>1, <2>2
<1>7. \A t \in Signers : t # s => page'[t] = page[t] /\ copy'[t] = copy[t]
  BY <1>2 DEF Open, OpenRefused, Receive, Settle, TypeOK
<1>8. ASSUME NEW r \in Requests PROVE QuietRequest(req[r])'
  <2>1. CASE req'[r] = req[r]
    BY <1>1, <1>2, <2>1 DEF QuietRequest, AllSigned
  <2>2. CASE req'[r] = Idle
    BY <2>2 DEF QuietRequest, Idle, Late
  <2> QED
    BY <1>4, <2>1, <2>2
<1>9. ASSUME NEW t \in Signers PROVE QuietPage(t)'
  <2>1. QuietPage(t) /\ QuietPage(s)
    BY <1>1
  <2>2. ASSUME NEW r \in Requests, awaits'[t] = r
        PROVE  /\ req'[r].pc # "idle" /\ req'[r].kind = "complete"
               /\ IF req'[r].pc = "answered" THEN t \in draft'.signed ELSE req'[r].by = t
               /\ \A u \in Signers : awaits'[u] = r => u = t
    <3>1. t # s /\ awaits[t] = r
      BY <1>3, <2>2
    <3>2. awaits[s] # r
      BY <2>1, <3>1 DEF QuietPage
    <3>3. req'[r] = req[r]
      BY <1>4, <3>2
    <3>4. \A u \in Signers : awaits'[u] = r => u = t
      BY <1>3, <2>1, <3>1 DEF QuietPage
    <3> QED
      BY <1>2, <2>1, <3>1, <3>3, <3>4 DEF QuietPage
  <2> QED
    BY <1>2, <1>5, <1>6, <1>7, <2>1, <2>2 DEF QuietPage, AllSigned
<1>10. QuietDraft'
  BY <1>1, <1>2 DEF QuietDraft
<1> QED
  BY <1>8, <1>9, <1>10 DEF QuietInv

\* A ceremony that stays quiet keeps its pages and its requests in order.
LEMMA QuietStep == CeremonyInv /\ CeremonyInv' /\ QuietInv /\ [Next]_vars => QuietInv'
<1> SUFFICES ASSUME CeremonyInv, CeremonyInv', QuietInv, [Next]_vars, Quiet' PROVE QuietInv'
  BY DEF QuietInv
<1> USE DEF browser, counts, server
<1>1. Quiet /\ cancels' = cancels /\ faults' = faults
  BY QuietBefore
<1>2. ASSUME NEW q \in Requests, Serve(q) \/ EnsureSnapshot(q) PROVE QuietInv'
  BY <1>2, QuietServe, QuietWrite, QuietUnawaited DEF Serve
<1>3. ASSUME NEW q \in Requests PROVE ~Cancel(q)
  BY <1>1 DEF Cancel, Quiet
<1>4. ASSUME NEW s \in Signers, NEW q \in Requests PROVE ~Disconnect(s, q) /\ ~Crash
  BY <1>1 DEF Disconnect, Crash, Quiet
<1>5. ASSUME NEW s \in Signers, NEW q \in Requests, Finish(s, q) \/ PostAgain(s, q) PROVE QuietInv'
  BY <1>5, QuietPost
<1>6. ASSUME NEW s \in Signers, Open(s) \/ OpenRefused(s) \/ \E q \in Requests : Receive(s, q)
      PROVE  QuietInv'
  BY <1>6, QuietLook
<1>7. CASE UNCHANGED vars \/ OwnerRefresh
  <2>1. UNCHANGED <<draft, req, page, copy, awaits, counts>>
    BY <1>7 DEF vars, OwnerRefresh
  <2> QED
    BY <2>1 DEF QuietInv, Quiet, QuietDraft, QuietRequest, QuietPage, AllSigned
<1>8. ~Crash
  BY <1>1 DEF Crash, Quiet
<1> QED
  BY <1>2, <1>3, <1>4, <1>5, <1>6, <1>7, <1>8 DEF Next

\* A page that finished stands for a signature on the server, unless something
\* was lost, the server restarted, the packet was cancelled or copies are stamped.
THEOREM FinishedCorrect == Spec => []FinishedIsAccountedFor
<1>1. Init => QuietInv
  <2> SUFFICES ASSUME Init PROVE QuietInv
    OBVIOUS
  <2>1. QuietDraft
    BY DEF Init, SentDraft, QuietDraft
  <2>2. \A q \in Requests : QuietRequest(req[q])
    BY DEF Init, Idle, QuietRequest, Late
  <2>3. \A s \in Signers : QuietPage(s)
    BY CeremonyAssumption DEF Init, QuietPage
  <2> QED
    BY <2>1, <2>2, <2>3 DEF QuietInv
<1>2. CeremonyInv /\ QuietInv => FinishedIsAccountedFor
  <2> SUFFICES ASSUME CeremonyInv, QuietInv, NEW s \in Signers, page[s] = "finished",
                      ~(faults + cancels > 0), ~stampable
               PROVE  s \in draft.signed
    BY DEF FinishedIsAccountedFor
  <2>1. faults \in Nat /\ cancels \in Nat
    BY DEF CeremonyInv, TypeOK
  <2>2. faults = 0 /\ cancels = 0
    BY <2>1
  <2>3. QuietPage(s)
    BY <2>2 DEF QuietInv, Quiet
  <2> QED
    BY <2>3 DEF QuietPage
<1> QED
  BY <1>1, <1>2, QuietStep, CeremonyCorrect, PTL DEF Spec

-----------------------------------------------------------------------------
(* The completion e-mails.  A cancellation that loaded the draft before the  *)
(* e-mails went out and is stored later makes every slot of the server able  *)
(* to mail again; otherwise a mailing is paid for once by the first one, once *)
(* by each request of the owner that loaded a draft without the event, and   *)
(* once by each fault and each snapshot that is built over an existing one.  *)

Slots == Cardinality(Requests)

\* The cancellations under way, and the stale drafts that would hide a mailing.
Cancelled == {q \in Requests : Cancelling(req[q])}
Unmailed == {q \in Requests : Ensuring(req[q]) /\ ~req[q].next.emailed}

\* A mailing is possible unless it is known, or about to be, that one went out.
Recording == \E q \in Requests : req[q].pc \in {"record", "record_write"}
Owed == IF draft.emailed \/ Recording THEN 0 ELSE 1

\* What hides a mailing besides.
Lapses == faults + rebuilds

\* The cancellations that have ended, and the mailings still allowed.
Ended == cancels - Cardinality(Cancelled)
Spendable == Lapses + (Ended + 1) * Slots - mailed

Fresh == Spendable >= Slots

Started ==
  /\ draft.snap
  /\ \A q \in Requests : Holding(req[q]) => req[q].pc \in {"emails", "record", "record_write"}
  /\ \A q \in Requests : req[q].pc = "record_write" => req[q].next.snap /\ req[q].next.emailed
  /\ Spendable >= Cardinality(Unmailed) + Owed

MailsInv == Fresh \/ Started

\* The sum grows with the first factor of its product, and with its first term.
LEMMA BudgetGrows ==
  ASSUME NEW a \in Int, NEW b \in Int, NEW n \in Nat, NEW f \in Nat, NEW g \in Nat, NEW m \in Nat,
         a <= b, f <= g
  PROVE  /\ f + (a + 1) * n - m <= g + (b + 1) * n - m
         /\ f < g => f + (a + 1) * n - m + 1 <= g + (b + 1) * n - m
         /\ a < b => f + (a + 1) * n - m + n <= g + (b + 1) * n - m
<1>1. ASSUME NEW x \in Int, NEW y \in Int, x <= y
      PROVE  (x + 1) * n \in Int /\ (y + 1) * n \in Int /\ (x + 1) * n <= (y + 1) * n
  <2>1. PICK k \in Nat : y = x + k
    <3>1. y - x \in Nat /\ y = x + (y - x)
      BY <1>1
    <3> QED
      BY <3>1
  <2>2. (y + 1) * n = (x + 1) * n + k * n
    BY <2>1
  <2>3. k * n \in Nat /\ (x + 1) * n \in Int
    OBVIOUS
  <2> QED
    BY <2>2, <2>3
<1>2. (a + 1) * n \in Int /\ (b + 1) * n \in Int /\ (a + 1) * n <= (b + 1) * n
  BY <1>1
<1>3. ASSUME a < b PROVE (a + 1) * n + n <= (b + 1) * n
  <2>1. a + 1 \in Int /\ a + 1 <= b
    BY <1>3
  <2>2. (a + 1 + 1) * n <= (b + 1) * n
    BY <1>1, <2>1
  <2>3. (a + 1 + 1) * n = (a + 1) * n + n
    OBVIOUS
  <2> QED
    BY <2>2, <2>3
<1> QED
  BY <1>2, <1>3

\* The numbers are integers.
Counted ==
  /\ Slots \in Nat /\ Ended \in Int /\ Spendable \in Int /\ Owed \in {0, 1} /\ Lapses \in Nat
  /\ IsFiniteSet(Cancelled) /\ Cardinality(Cancelled) \in Nat
  /\ IsFiniteSet(Unmailed) /\ Cardinality(Unmailed) \in Nat
  /\ Cardinality(Unmailed) <= Slots

\* They are in every typed state ...
LEMMA MailTypes == TypeOK => Counted
<1> SUFFICES ASSUME TypeOK PROVE Counted
  OBVIOUS
<1>1. IsFiniteSet(Requests)
  BY CeremonyAssumption
<1>2. Cancelled \in SUBSET Requests /\ Unmailed \in SUBSET Requests
  BY DEF Cancelled, Unmailed
<1>3. /\ IsFiniteSet(Cancelled) /\ IsFiniteSet(Unmailed)
      /\ Cardinality(Unmailed) <= Cardinality(Requests)
  BY <1>1, <1>2, FS_Subset
<1>4. Cardinality(Requests) \in Nat /\ Cardinality(Cancelled) \in Nat /\ Cardinality(Unmailed) \in Nat
  BY <1>1, <1>3, FS_CardinalityType
<1>5. cancels \in Nat /\ Lapses \in Nat /\ mailed \in Nat
  <2>1. faults \in Nat /\ rebuilds \in Nat /\ cancels \in Nat /\ mailed \in Nat
    BY DEF TypeOK
  <2> QED
    BY <2>1 DEF Lapses
<1>6. Ended \in Int
  BY <1>4, <1>5 DEF Ended
<1>7. (Ended + 1) * Slots \in Int
  BY <1>4, <1>6 DEF Slots
<1>8. Spendable \in Int
  BY <1>5, <1>7 DEF Spendable
<1> QED
  BY <1>3, <1>4, <1>5, <1>6, <1>8 DEF Counted, Slots, Owed

\* ... and so in the next one.
LEMMA MailTypesNext == TypeOK' => Counted'
  BY MailTypes, PTL

\* With as many ended cancellations or more, no fewer mailings are allowed;
\* one more ended cancellation allows one more of each slot.
LEMMA SpendableGrows ==
  ASSUME TypeOK, TypeOK', Ended <= Ended', Lapses <= Lapses', mailed' = mailed
  PROVE  /\ Spendable <= Spendable'
         /\ Lapses < Lapses' => Spendable + 1 <= Spendable'
         /\ Ended < Ended' => Spendable + Slots <= Spendable'
<1>1. Ended \in Int /\ Ended' \in Int /\ Slots \in Nat
  BY MailTypes, MailTypesNext DEF Counted
<1>2. Lapses \in Nat /\ Lapses' \in Nat /\ mailed \in Nat
  BY MailTypes, MailTypesNext DEF Counted, TypeOK
<1>3. Slots' = Slots
  BY DEF Slots
<1>4. Spendable = Lapses + (Ended + 1) * Slots - mailed
      /\ Spendable' = Lapses' + (Ended' + 1) * Slots - mailed
  BY <1>3 DEF Spendable
<1> QED
  BY <1>1, <1>2, <1>4, BudgetGrows

\* How a step of one request changes what is under way.
LEMMA EndedFrame ==
  ASSUME TypeOK, TypeOK', NEW q \in Requests, \A r \in Requests : r # q => req'[r] = req[r]
  PROVE  /\ (Cancelling(req[q]) <=> Cancelling(req'[q])) => Cardinality(Cancelled') = Cardinality(Cancelled)
         /\ ~Cancelling(req[q]) /\ Cancelling(req'[q]) => Cardinality(Cancelled') = Cardinality(Cancelled) + 1
         /\ Cancelling(req[q]) /\ ~Cancelling(req'[q]) => Cardinality(Cancelled') = Cardinality(Cancelled) - 1
         /\ ~Ensuring(req[q]) /\ ~Ensuring(req'[q]) => Unmailed' = Unmailed
         /\ ~Ensuring(req'[q]) => Unmailed' = Unmailed \ {q}
<1>1. IsFiniteSet(Cancelled)
  BY MailTypes DEF Counted
<1>2. Cancelled' = {r \in Requests : Cancelling(req'[r])}
  BY DEF Cancelled
<1>3. ASSUME Cancelling(req[q]) <=> Cancelling(req'[q]) PROVE Cancelled' = Cancelled
  BY <1>2, <1>3 DEF Cancelled
<1>4. ASSUME ~Cancelling(req[q]), Cancelling(req'[q])
      PROVE  Cardinality(Cancelled') = Cardinality(Cancelled) + 1
  <2>1. Cancelled' = Cancelled \cup {q} /\ q \notin Cancelled
    BY <1>2, <1>4 DEF Cancelled
  <2> QED
    BY <1>1, <2>1, FS_AddElement
<1>5. ASSUME Cancelling(req[q]), ~Cancelling(req'[q])
      PROVE  Cardinality(Cancelled') = Cardinality(Cancelled) - 1
  <2>1. Cancelled' = Cancelled \ {q} /\ q \in Cancelled
    BY <1>2, <1>5 DEF Cancelled
  <2> QED
    BY <1>1, <2>1, FS_RemoveElement
<1>6. Unmailed' = {r \in Requests : Ensuring(req'[r]) /\ ~req'[r].next.emailed}
  BY DEF Unmailed
<1>7. ~Ensuring(req'[q]) => Unmailed' = Unmailed \ {q}
  BY <1>6 DEF Unmailed
<1>8. ~Ensuring(req[q]) /\ ~Ensuring(req'[q]) => Unmailed' = Unmailed
  BY <1>6 DEF Unmailed
<1> QED
  BY <1>3, <1>4, <1>5, <1>7, <1>8

\* Without a mailing, what is allowed stays allowed ...
LEMMA MailFrame ==
  ASSUME TypeOK, TypeOK', MailsInv, mailed' = mailed, Ended <= Ended', Lapses <= Lapses',
         Started =>
           /\ draft'.snap
           /\ \A r \in Requests : Holding(req'[r]) => req'[r].pc \in {"emails", "record", "record_write"}
           /\ \A r \in Requests : req'[r].pc = "record_write" => req'[r].next.snap /\ req'[r].next.emailed
           /\ \/ Cardinality(Unmailed') + Owed' <= Cardinality(Unmailed) + Owed
              \/ /\ Lapses < Lapses'
                 /\ Cardinality(Unmailed') + Owed' <= Cardinality(Unmailed) + Owed + 1
  PROVE  MailsInv'
<1>1. /\ Slots \in Nat /\ Spendable \in Int /\ Spendable' \in Int /\ Owed \in Nat /\ Owed' \in Nat
      /\ Cardinality(Unmailed) \in Nat /\ Cardinality(Unmailed') \in Nat /\ Slots' = Slots
  BY MailTypes, MailTypesNext DEF Counted, Slots
<1>2. Spendable <= Spendable' /\ (Lapses < Lapses' => Spendable + 1 <= Spendable')
  BY SpendableGrows
<1>3. CASE Fresh
  BY <1>1, <1>2, <1>3 DEF Fresh, MailsInv
<1>4. CASE Started
  <2>1. Spendable >= Cardinality(Unmailed) + Owed
    BY <1>4 DEF Started
  <2>2. Spendable' >= Cardinality(Unmailed') + Owed'
    <3>1. CASE Cardinality(Unmailed') + Owed' <= Cardinality(Unmailed) + Owed
      BY <1>1, <1>2, <2>1, <3>1
    <3>2. CASE /\ Lapses < Lapses'
               /\ Cardinality(Unmailed') + Owed' <= Cardinality(Unmailed) + Owed + 1
      BY <1>1, <1>2, <2>1, <3>2
    <3> QED
      BY <1>4, <3>1, <3>2
  <2>3. Started'
    BY <1>4, <2>2 DEF Started
  <2> QED
    BY <2>3 DEF MailsInv
<1> QED
  BY <1>3, <1>4 DEF MailsInv

\* ... and a cancellation that ends allows every slot another one.
LEMMA Refreshed ==
  ASSUME TypeOK, TypeOK', MailsInv, mailed' = mailed, Ended < Ended', Lapses <= Lapses'
  PROVE  MailsInv'
<1>1. /\ Slots \in Nat /\ Spendable \in Int /\ Spendable' \in Int /\ Owed \in Nat
      /\ Cardinality(Unmailed) \in Nat /\ Slots' = Slots
      /\ Ended \in Int /\ Ended' \in Int
  BY MailTypes, MailTypesNext DEF Counted, Slots
<1>2. Spendable >= 0
  BY <1>1 DEF MailsInv, Fresh, Started
<1>3. Ended <= Ended'
  BY <1>1
<1>4. Spendable + Slots <= Spendable'
  BY <1>3, SpendableGrows
<1>5. Spendable' >= Slots'
  BY <1>1, <1>2, <1>4
<1> QED
  BY <1>5 DEF MailsInv, Fresh

\* A step of one request that hides no mailing.
LEMMA OwedFrame ==
  ASSUME TypeOK, TypeOK', NEW q \in Requests, \A r \in Requests : r # q => req'[r] = req[r],
         ~Ensuring(req'[q]), draft.emailed => draft'.emailed,
         req[q].pc \in {"record", "record_write"} =>
           req'[q].pc \in {"record", "record_write"} \/ draft'.emailed
  PROVE  Cardinality(Unmailed') + Owed' <= Cardinality(Unmailed) + Owed
<1>1. /\ Owed \in Nat /\ Owed' \in Nat /\ IsFiniteSet(Unmailed)
      /\ Cardinality(Unmailed) \in Nat /\ Cardinality(Unmailed') \in Nat
  BY MailTypes, MailTypesNext DEF Counted
<1>2. Unmailed' = Unmailed \ {q}
  BY EndedFrame
<1>3. Cardinality(Unmailed \ {q}) <= Cardinality(Unmailed)
  BY <1>1, FS_Subset
<1>4. Owed' <= Owed
  <2>1. draft.emailed \/ Recording => draft'.emailed \/ Recording'
    BY DEF Recording
  <2> QED
    BY <2>1 DEF Owed
<1> QED
  BY <1>1, <1>2, <1>3, <1>4

\* A step of one request that neither mails nor touches the stored draft once
\* the e-mails went out.
LEMMA MailAside ==
  ASSUME CeremonyInv, CeremonyInv', MailsInv, NEW q \in Requests,
         \A r \in Requests : r # q => req'[r] = req[r],
         mailed' = mailed, cancels' = cancels, Lapses <= Lapses',
         ~Cancelling(req[q]), ~Cancelling(req'[q]),
         Started =>
           /\ draft' = draft /\ ~Ensuring(req'[q])
           /\ Holding(req'[q]) => req'[q].pc = "emails"
           /\ req[q].pc \notin {"record", "record_write"}
           /\ req'[q].pc \notin {"record", "record_write"}
  PROVE  MailsInv'
<1>1. TypeOK /\ TypeOK'
  BY DEF CeremonyInv
<1>2. Ended <= Ended'
  <2>1. Cardinality(Cancelled') = Cardinality(Cancelled)
    BY <1>1, EndedFrame
  <2>2. Ended' = Ended /\ Ended \in Int
    BY <1>1, <2>1, MailTypes DEF Ended, Counted
  <2> QED
    BY <2>2
<1>3. ASSUME Started
      PROVE  /\ draft'.snap
             /\ \A r \in Requests : Holding(req'[r]) => req'[r].pc \in {"emails", "record", "record_write"}
             /\ \A r \in Requests : req'[r].pc = "record_write" => req'[r].next.snap /\ req'[r].next.emailed
             /\ Cardinality(Unmailed') + Owed' <= Cardinality(Unmailed) + Owed
  <2>1. draft'.snap
    BY <1>3 DEF Started
  <2>2. ASSUME NEW r \in Requests
        PROVE  /\ Holding(req'[r]) => req'[r].pc \in {"emails", "record", "record_write"}
               /\ req'[r].pc = "record_write" => req'[r].next.snap /\ req'[r].next.emailed
    BY <1>3 DEF Started
  <2>3. Cardinality(Unmailed') + Owed' <= Cardinality(Unmailed) + Owed
    BY <1>1, <1>3, OwedFrame
  <2> QED
    BY <2>1, <2>2, <2>3
<1> QED
  BY <1>1, <1>2, <1>3, MailFrame

\* The e-mails go out: the request that mails has a slot of its own.
LEMMA MailSent ==
  ASSUME CeremonyInv, CeremonyInv', MailsInv, NEW q \in Requests, req[q].pc = "emails",
         EmailsDue, mailed' = mailed + 1, Goto(q, "record"), draft' = draft,
         cancels' = cancels, Lapses' = Lapses
  PROVE  MailsInv'
<1>1. TypeOK /\ TypeOK' /\ LockInv
  BY DEF CeremonyInv
<1>2. /\ req'[q].pc = "record" /\ req'[q].kind = req[q].kind
      /\ \A r \in Requests : r # q => req'[r] = req[r]
  BY <1>1, GotoEffect DEF PCs, Locked
<1>3. Holding(req[q]) /\ \A r \in Requests : r # q => ~Holding(req[r])
  <2>1. Holding(req[q])
    BY DEF Holding, Locked, Cancelling, Ensuring
  <2> QED
    BY <1>1, <2>1 DEF LockInv
<1>4. ~Ensuring(req[q]) /\ ~Ensuring(req'[q]) /\ ~Cancelling(req[q]) /\ ~Cancelling(req'[q])
  BY <1>2 DEF Ensuring, Cancelling
<1>5. Unmailed' = Unmailed /\ Cardinality(Cancelled') = Cardinality(Cancelled)
  BY <1>1, <1>2, <1>4, EndedFrame
<1>6. /\ Slots \in Nat /\ Spendable \in Int /\ Ended \in Int /\ IsFiniteSet(Unmailed)
      /\ Cardinality(Unmailed) \in Nat
  BY <1>1, MailTypes DEF Counted
<1>7. Spendable' = Spendable - 1
  <2>1. Ended' = Ended /\ Slots' = Slots
    BY <1>5 DEF Ended, Slots
  <2>2. (Ended + 1) * Slots \in Int /\ Lapses \in Nat /\ mailed \in Nat
    BY <1>1, <1>6, MailTypes DEF TypeOK, Counted
  <2> QED
    BY <2>1, <2>2 DEF Spendable
<1>8. Recording' /\ Owed' = 0
  BY <1>2 DEF Recording, Owed
<1>9. Cardinality(Unmailed) + 1 <= Slots
  <2>1. q \notin Unmailed /\ Unmailed \cup {q} \in SUBSET Requests
    BY <1>4 DEF Unmailed
  <2>2. Cardinality(Unmailed \cup {q}) = Cardinality(Unmailed) + 1
    BY <1>6, <2>1, FS_AddElement
  <2> QED
    BY <2>1, <2>2, FS_Subset, CeremonyAssumption DEF Slots
<1>10. Spendable >= Cardinality(Unmailed) + 1
  <2>1. CASE Fresh
    BY <1>6, <1>9, <2>1 DEF Fresh
  <2>2. CASE Started
    <3>1. ~Recording
      BY <1>3 DEF Recording, Holding, Locked, Cancelling, Ensuring
    <3>2. Owed = 1
      BY <3>1 DEF Owed, EmailsDue
    <3> QED
      BY <2>2, <3>2 DEF Started
  <2> QED
    BY <2>1, <2>2 DEF MailsInv
<1>11. ASSUME NEW r \in Requests
       PROVE  /\ Holding(req'[r]) => req'[r].pc \in {"emails", "record", "record_write"}
              /\ req'[r].pc # "record_write"
  BY <1>2, <1>3 DEF Holding, Locked, Cancelling, Ensuring
<1>12. Spendable' >= Cardinality(Unmailed') + Owed'
  BY <1>5, <1>6, <1>7, <1>8, <1>10
<1>13. Started'
  BY <1>11, <1>12 DEF Started, EmailsDue
<1> QED
  BY <1>13 DEF MailsInv

\* Store, and its conflict.
LEMMA MailStore ==
  ASSUME CeremonyInv, CeremonyInv', MailsInv, NEW q \in Requests, Store(q) \/ StoreConflicts(q)
  PROVE  MailsInv'
<1> USE DEF browser, counts, server
<1>1. TypeOK /\ TypeOK' /\ KindOk(req[q]) /\ cancels \in Nat /\ Lapses \in Nat
  BY MailTypes DEF CeremonyInv, LockInv, TypeOK, Counted
<1>2. mailed' = mailed /\ cancels' = cancels /\ Lapses' = Lapses
  BY DEF Store, StoreConflicts, Lapses
<1>3. /\ ~Cancelling(req'[q]) /\ \A r \in Requests : r # q => req'[r] = req[r]
  <2>1. CASE Answer(q, FALSE)
    BY <1>1, <2>1, AnswerEffect DEF Cancelling
  <2>2. CASE Goto(q, "snapshot")
    BY <1>1, <2>2, GotoEffect DEF Cancelling, PCs, Locked
  <2> QED
    BY <2>1, <2>2 DEF Store, StoreConflicts, Refuse
<1>4. CASE req[q].kind = "complete"
  <2>1. Holding(req[q]) /\ req[q].pc = "store" /\ ~Cancelling(req[q])
    BY <1>4 DEF Store, StoreConflicts, Holding, Locked, Cancelling, Ensuring
  <2>2. ~Started
    BY <2>1 DEF Started
  <2> QED
    BY <1>1, <1>2, <1>3, <2>1, <2>2, MailAside
<1>5. CASE req[q].kind = "cancel"
  <2>1. Cancelling(req[q])
    BY <1>5 DEF Store, StoreConflicts, Cancelling
  <2>2. Cardinality(Cancelled') = Cardinality(Cancelled) - 1
    BY <1>1, <1>3, <2>1, EndedFrame
  <2>3. Ended < Ended'
    BY <1>1, <1>2, <2>2, MailTypes DEF Ended, Counted
  <2> QED
    BY <1>1, <1>2, <2>3, Refreshed
<1> QED
  BY <1>1, <1>4, <1>5 DEF Store, StoreConflicts, KindOk

\* The write of a stage.
LEMMA MailWrite ==
  ASSUME CeremonyInv, CeremonyInv', MailsInv, NEW q \in Requests, WriteStage(q)
  PROVE  MailsInv'
<1> USE DEF browser, counts, server
<1>1. TypeOK /\ TypeOK' /\ LockInv /\ KindOk(req[q]) /\ cancels \in Nat /\ Lapses \in Nat
  BY MailTypes DEF CeremonyInv, LockInv, TypeOK, Counted
<1>2. mailed' = mailed /\ cancels' = cancels /\ Lapses' = Lapses
  BY DEF WriteStage, Lapses
<1>3. /\ req'[q].pc \in {"idle", "answered", "evidence", "emails", "mail_queued"}
      /\ req[q].pc = "record_write" \/ Ensuring(req[q]) =>
           req'[q].pc \in {"idle", "answered", "mail_queued"}
      /\ \A r \in Requests : r # q => req'[r] = req[r]
  <2>1. CASE Answer(q, TRUE) \/ Answer(q, FALSE)
    BY <1>1, <2>1, AnswerEffect
  <2>2. CASE Goto(q, "evidence") /\ req[q].pc = "snapshot_write" /\ req[q].kind = "complete"
    BY <1>1, <2>2, GotoEffect DEF PCs, Locked, Ensuring
  <2>3. CASE Goto(q, "emails") /\ req[q].pc = "evidence_write"
    BY <1>1, <2>3, GotoEffect DEF PCs, Locked, Ensuring
  <2>4. CASE Goto(q, "mail_queued")
    BY <1>1, <2>4, GotoEffect DEF PCs
  <2> QED
    BY <2>1, <2>2, <2>3, <2>4 DEF WriteStage, Refuse
<1>4. ~Cancelling(req[q]) /\ ~Cancelling(req'[q]) /\ ~Ensuring(req'[q])
  BY <1>3 DEF WriteStage, Cancelling, Ensuring
<1>5. Ended <= Ended'
  <2>1. Ended' = Ended /\ Ended \in Int
    BY <1>1, <1>2, <1>3, <1>4, EndedFrame, MailTypes DEF Ended, Counted
  <2> QED
    BY <2>1
<1>6. draft'.snap = req[q].next.snap /\ draft'.emailed = req[q].next.emailed
  BY <1>1 DEF WriteStage, Preserving, TypeOK, Request, Draft
<1>7. ASSUME Started
      PROVE  /\ draft'.snap
             /\ \A r \in Requests : Holding(req'[r]) => req'[r].pc \in {"emails", "record", "record_write"}
             /\ \A r \in Requests : req'[r].pc = "record_write" => req'[r].next.snap /\ req'[r].next.emailed
             /\ Cardinality(Unmailed') + Owed' <= Cardinality(Unmailed) + Owed
  <2>1. \A r \in Requests :
          /\ Holding(req[r]) => req[r].pc \in {"emails", "record", "record_write"}
          /\ req[r].pc = "record_write" => req[r].next.snap /\ req[r].next.emailed
    BY <1>7 DEF Started
  <2>2. req[q].pc = "record_write" \/ Ensuring(req[q])
    BY <2>1 DEF WriteStage, Holding, Locked, Cancelling, Ensuring
  <2>3. req'[q].pc \in {"idle", "answered", "mail_queued"} /\ ~Holding(req'[q])
    BY <1>3, <2>2 DEF Holding, Locked
  <2>4. draft'.snap
    <3>1. CASE req[q].pc = "record_write"
      BY <1>6, <2>1, <3>1
    <3>2. CASE Ensuring(req[q])
      BY <1>6, <3>2 DEF Ensuring, CeremonyInv, CopiesInv, RequestOk, WriteOk
    <3> QED
      BY <2>2, <3>1, <3>2
  <2>5. ASSUME NEW r \in Requests
        PROVE  /\ Holding(req'[r]) => req'[r].pc \in {"emails", "record", "record_write"}
               /\ req'[r].pc = "record_write" => req'[r].next.snap /\ req'[r].next.emailed
    BY <1>3, <2>1, <2>3
  <2>6. Cardinality(Unmailed') + Owed' <= Cardinality(Unmailed) + Owed
    <3>1. /\ Owed \in Nat /\ Owed' \in {0, 1} /\ IsFiniteSet(Unmailed)
          /\ Cardinality(Unmailed) \in Nat /\ Cardinality(Unmailed') \in Nat
      BY <1>1, MailTypes, MailTypesNext DEF Counted
    <3>2. Unmailed' = Unmailed \ {q}
      BY <1>1, <1>3, <1>4, EndedFrame
    <3>3. CASE draft'.emailed
      <4>1. Owed' = 0
        BY <3>3 DEF Owed
      <4>2. Cardinality(Unmailed \ {q}) <= Cardinality(Unmailed)
        BY <3>1, FS_Subset
      <4> QED
        BY <3>1, <3>2, <4>1, <4>2
    <3>4. CASE ~draft'.emailed
      <4>1. Ensuring(req[q])
        BY <1>6, <2>1, <2>2, <3>4
      <4>2. q \in Unmailed
        BY <1>6, <3>4, <4>1 DEF Unmailed
      <4>3. Cardinality(Unmailed \ {q}) = Cardinality(Unmailed) - 1
        BY <3>1, <4>2, FS_RemoveElement
      <4> QED
        BY <3>1, <3>2, <4>3
    <3> QED
      BY <3>3, <3>4
  <2> QED
    BY <2>4, <2>5, <2>6
<1> QED
  BY <1>1, <1>2, <1>5, <1>7, MailFrame

\* The stages.
LEMMA MailServe ==
  ASSUME CeremonyInv, CeremonyInv', MailsInv, NEW q \in Requests,
         \/ Authorize(q) \/ Begin(q) \/ Merge(q) \/ SnapshotStage(q)
         \/ EvidenceStage(q) \/ EmailStage(q) \/ RecordStage(q) \/ EnsureLock(q) \/ Unread(q)
  PROVE  MailsInv'
<1> USE DEF browser, counts, server
<1>1. /\ TypeOK /\ TypeOK' /\ KindOk(req[q]) /\ draft \in Draft /\ draft.rev \in Nat
      /\ Lapses \in Nat
  BY MailTypes DEF CeremonyInv, LockInv, TypeOK, Draft, Counted
<1>2. /\ draft' = draft /\ cancels' = cancels
      /\ Lapses <= Lapses'
      /\ ~SnapshotStage(q) => Lapses' = Lapses
  <2>1. CASE SnapshotStage(q)
    <3>1. draft' = draft /\ cancels' = cancels /\ faults' = faults /\ (rebuilds' = rebuilds \/ Rebuild)
      BY <2>1 DEF SnapshotStage
    <3>2. rebuilds \in Nat /\ faults \in Nat /\ (rebuilds' = rebuilds \/ rebuilds' = rebuilds + 1)
      BY <1>1, <3>1, RebuildTypes DEF TypeOK
    <3> QED
      BY <2>1, <3>1, <3>2 DEF Lapses
  <2>2. CASE ~SnapshotStage(q)
    <3>1. draft' = draft /\ cancels' = cancels /\ Lapses' = Lapses
      BY <2>2 DEF Authorize, Begin, Merge, EvidenceStage, EmailStage, RecordStage, EnsureLock, Unread, Lapses
    <3> QED
      BY <1>1, <3>1
  <2> QED
    BY <2>1, <2>2
<1>3. ASSUME \A r \in Requests : r # q => req'[r] = req[r], mailed' = mailed,
             ~Cancelling(req[q]), ~Cancelling(req'[q]),
             Started => /\ ~Ensuring(req'[q])
                        /\ Holding(req'[q]) => req'[q].pc = "emails"
                        /\ req[q].pc \notin {"record", "record_write"}
                        /\ req'[q].pc \notin {"record", "record_write"}
      PROVE  MailsInv'
  BY <1>1, <1>2, <1>3, MailAside
<1>4. ASSUME NEW full \in BOOLEAN, Answer(q, full), mailed' = mailed, req[q].pc # "store",
             req[q].pc \notin {"record", "record_write"}
      PROVE  MailsInv'
  <2>1. /\ req'[q].pc \in {"idle", "answered"} /\ \A r \in Requests : r # q => req'[r] = req[r]
    BY <1>1, <1>4, AnswerEffect
  <2> QED
    BY <1>3, <1>4, <2>1 DEF Cancelling, Ensuring, Holding, Locked
<1>5. ASSUME Holding(req[q]), req[q].pc \notin {"emails", "record", "record_write"}
      PROVE  ~Started
  BY <1>5 DEF Started
<1>6. CASE Authorize(q)
  <2>1. CASE Goto(q, "queued")
    <3>1. /\ req'[q].pc = "queued" /\ \A r \in Requests : r # q => req'[r] = req[r]
      BY <1>1, <2>1, GotoEffect DEF PCs
    <3> QED
      BY <1>3, <1>6, <3>1 DEF Authorize, Cancelling, Ensuring, Holding, Locked
  <2> QED
    BY <1>4, <1>6, <2>1 DEF Authorize, Refuse
<1>7. CASE Begin(q)
  <2>1. CASE Attested(q) /\ req' = [req EXCEPT ![q].pc = "merge", ![q].base = draft]
    <3>1. /\ req'[q].pc = "merge" /\ \A r \in Requests : r # q => req'[r] = req[r]
      BY <1>1, <2>1 DEF TypeOK, Request
    <3>2. ~Started
      BY <2>1 DEF Attested, Started
    <3> QED
      BY <1>3, <1>7, <3>1, <3>2 DEF Begin, Cancelling
  <2> QED
    BY <1>4, <1>7, <2>1 DEF Begin, Refuse
<1>8. CASE Merge(q)
  <2>1. Prepare(q, NextOf(q), RegistrySeen(q).rev, "store")
    BY <1>8 DEF Merge, NextOf
  <2>2. /\ req'[q].pc = "store" /\ req'[q].kind = req[q].kind /\ \A r \in Requests : r # q => req'[r] = req[r]
    BY <1>1, <2>1, MergeTypes, PrepareEffect DEF PCs, Locked
  <2>3. ~Started
    BY <1>5, <1>8 DEF Merge, Holding, Locked, Cancelling, Ensuring
  <2> QED
    BY <1>3, <1>8, <2>2, <2>3 DEF Merge, Cancelling
<1>9. CASE SnapshotStage(q) \/ EvidenceStage(q)
  <2>1. ~Started
    BY <1>1, <1>5, <1>9 DEF SnapshotStage, EvidenceStage, KindOk, Holding, Locked, Cancelling, Ensuring
  <2>2. req'[q].pc # "store" /\ \A r \in Requests : r # q => req'[r] = req[r]
    <3>1. CASE Goto(q, "evidence") \/ Goto(q, "emails")
      BY <1>1, <3>1, GotoEffect DEF PCs, Locked
    <3>2. CASE Prepare(q, [draft EXCEPT !.snap = TRUE], draft.rev, "snapshot_write")
      <4>1. \E d \in Draft : d = [draft EXCEPT !.snap = TRUE]
        BY <1>1, DraftTypes
      <4> QED
        BY <1>1, <3>2, <4>1, PrepareEffect DEF PCs, Locked
    <3>3. CASE Prepare(q, [draft EXCEPT !.evidence = TRUE], draft.rev, "evidence_write")
      <4>1. \E d \in Draft : d = [draft EXCEPT !.evidence = TRUE]
        BY <1>1, DraftTypes
      <4> QED
        BY <1>1, <3>3, <4>1, PrepareEffect DEF PCs, Locked
    <3> QED
      BY <1>9, <3>1, <3>2, <3>3 DEF SnapshotStage, EvidenceStage
  <2> QED
    BY <1>3, <1>9, <2>1, <2>2 DEF SnapshotStage, EvidenceStage, Cancelling
<1>10. CASE EmailStage(q)
  <2>1. CASE Answer(q, TRUE) /\ mailed' = mailed
    BY <1>4, <1>10, <2>1 DEF EmailStage
  <2>2. CASE EmailsDue /\ mailed' = mailed + 1 /\ Goto(q, "record")
    <3>1. ~SnapshotStage(q)
      BY <1>10 DEF EmailStage, SnapshotStage
    <3> QED
      BY <1>2, <1>10, <2>2, <3>1, MailSent DEF EmailStage
  <2> QED
    BY <1>10, <2>1, <2>2 DEF EmailStage
<1>11. CASE RecordStage(q)
  <2>0. mailed' = mailed /\ ~Cancelling(req[q])
    BY <1>11 DEF RecordStage, Cancelling
  <2>1. /\ \A r \in Requests : r # q => req'[r] = req[r]
        /\ \/ draft.emailed /\ req'[q].pc \in {"idle", "answered"}
           \/ req'[q].pc = "record_write" /\ req'[q].next.snap = draft.snap /\ req'[q].next.emailed
    <3>1. CASE draft.emailed /\ Answer(q, TRUE)
      BY <1>1, <3>1, AnswerEffect
    <3>2. CASE Prepare(q, [draft EXCEPT !.emailed = TRUE], draft.rev, "record_write")
      <4>1. PICK d \in Draft : d = [draft EXCEPT !.emailed = TRUE]
        BY <1>1, DraftTypes
      <4>2. d.snap = draft.snap /\ d.emailed
        BY <1>1, <4>1 DEF Draft
      <4>3. Prepare(q, d, draft.rev, "record_write") /\ "record_write" \in PCs
        BY <3>2, <4>1 DEF PCs, Locked
      <4>4. /\ req'[q].pc = "record_write" /\ req'[q].next = d
            /\ \A r \in Requests : r # q => req'[r] = req[r]
        BY <1>1, <4>3, PrepareEffect
      <4> QED
        BY <4>2, <4>4
    <3> QED
      BY <1>11, <3>1, <3>2 DEF RecordStage
  <2>2. ~Cancelling(req'[q]) /\ ~Ensuring(req'[q])
    BY <2>1 DEF Cancelling, Ensuring
  <2>3. Ended <= Ended'
    <3>1. Ended' = Ended /\ Ended \in Int
      BY <1>1, <1>2, <2>0, <2>1, <2>2, EndedFrame, MailTypes DEF Ended, Counted
    <3> QED
      BY <3>1
  <2>4. Cardinality(Unmailed') + Owed' <= Cardinality(Unmailed) + Owed
    BY <1>1, <1>2, <2>1, <2>2, OwedFrame
  <2>5. ASSUME Started, NEW r \in Requests
        PROVE  /\ Holding(req'[r]) => req'[r].pc \in {"emails", "record", "record_write"}
               /\ req'[r].pc = "record_write" => req'[r].next.snap /\ req'[r].next.emailed
    <3>1. CASE r = q
      BY <2>1, <2>5, <3>1 DEF Started, Holding, Locked
    <3>2. CASE r # q
      BY <2>1, <2>5, <3>2 DEF Started
    <3> QED
      BY <3>1, <3>2
  <2>6. Started => draft'.snap
    BY <1>2 DEF Started
  <2> QED
    BY <1>1, <1>2, <2>0, <2>3, <2>4, <2>5, <2>6, MailFrame
<1>12. CASE EnsureLock(q)
  <2>1. /\ req'[q].pc = "emails" /\ \A r \in Requests : r # q => req'[r] = req[r]
    BY <1>1, <1>12, GotoEffect DEF EnsureLock, PCs, Locked
  <2> QED
    BY <1>3, <1>12, <2>1 DEF EnsureLock, Cancelling, Ensuring
<1>13. CASE Unread(q)
  <2>1. req'[q].pc = "idle" /\ \A r \in Requests : r # q => req'[r] = req[r]
    BY <1>1, <1>13 DEF Unread, Idle, TypeOK
  <2> QED
    BY <1>3, <1>13, <2>1 DEF Unread, Cancelling, Ensuring, Holding, Locked
<1> QED
  BY <1>6, <1>7, <1>8, <1>9, <1>10, <1>11, <1>12, <1>13

\* The other requests of the owner.
LEMMA MailOwner ==
  ASSUME CeremonyInv, CeremonyInv', MailsInv, NEW q \in Requests, Cancel(q) \/ EnsureSnapshot(q)
  PROVE  MailsInv'
<1> USE DEF browser, counts, server
<1>1. TypeOK /\ TypeOK' /\ cancels \in Nat /\ faults \in Nat /\ rebuilds \in Nat /\ Lapses \in Nat
  BY MailTypes DEF CeremonyInv, TypeOK, Counted
<1>2. draft' = draft /\ mailed' = mailed /\ faults' = faults /\ req[q].pc = "idle"
  BY DEF Cancel, EnsureSnapshot
<1>3. CASE Cancel(q)
  <2>1. /\ req'[q].kind = "cancel" /\ req'[q].pc = "store" /\ \A r \in Requests : r # q => req'[r] = req[r]
    BY <1>1, <1>3 DEF Cancel, TypeOK, Idle
  <2>2. Ended <= Ended'
    <3>1. ~Cancelling(req[q]) /\ Cancelling(req'[q])
      BY <1>2, <2>1 DEF Cancelling
    <3>2. Cardinality(Cancelled') = Cardinality(Cancelled) + 1 /\ cancels' = cancels + 1
      BY <1>1, <1>3, <2>1, <3>1, EndedFrame DEF Cancel
    <3>3. Ended' = Ended /\ Ended \in Int
      BY <1>1, <3>2, MailTypes DEF Ended, Counted
    <3> QED
      BY <3>3
  <2>3. ~Ensuring(req'[q]) /\ ~Holding(req'[q])
    BY <2>1 DEF Ensuring, Holding, Cancelling
  <2>4. Cardinality(Unmailed') + Owed' <= Cardinality(Unmailed) + Owed
    BY <1>1, <1>2, <2>1, <2>3, OwedFrame
  <2>5. ASSUME Started, NEW r \in Requests
        PROVE  /\ Holding(req'[r]) => req'[r].pc \in {"emails", "record", "record_write"}
               /\ req'[r].pc = "record_write" => req'[r].next.snap /\ req'[r].next.emailed
    BY <2>1, <2>3, <2>5 DEF Started
  <2>6. (Started => draft'.snap) /\ Lapses <= Lapses'
    <3>1. Lapses' = Lapses
      BY <1>2, <1>3 DEF Cancel, Lapses
    <3> QED
      BY <1>1, <1>2, <3>1 DEF Started
  <2> QED
    BY <1>1, <1>2, <2>2, <2>4, <2>5, <2>6, MailFrame
<1>4. CASE EnsureSnapshot(q)
  <2>1. cancels' = cancels /\ ~Cancelling(req[q])
    BY <1>2, <1>4 DEF EnsureSnapshot, Cancelling
  <2>2. CASE /\ rebuilds' = rebuilds
             /\ req' = [req EXCEPT ![q] = [Idle EXCEPT !.kind = "ensure", !.pc = "mail_queued"]]
    <3>1. /\ req'[q].pc = "mail_queued" /\ \A r \in Requests : r # q => req'[r] = req[r]
      BY <1>1, <2>2 DEF TypeOK, Idle
    <3>2. Lapses <= Lapses'
      BY <1>1, <1>2, <2>2 DEF Lapses
    <3> QED
      BY <1>1, <1>2, <2>1, <3>1, <3>2, MailAside DEF Cancelling, Ensuring, Holding, Locked
  <2>3. CASE /\ Rebuild
             /\ req' = [req EXCEPT ![q] = [Idle EXCEPT
                  !.kind = "ensure", !.pc = "snapshot_write", !.seen = draft.rev,
                  !.next = [draft EXCEPT !.snap = TRUE]]]
    <3>1. /\ req'[q].kind = "ensure" /\ req'[q].pc = "snapshot_write"
          /\ \A r \in Requests : r # q => req'[r] = req[r]
      BY <1>1, <2>3 DEF TypeOK, Idle
    <3>2. ~Cancelling(req'[q])
      BY <3>1 DEF Cancelling
    <3>3. CASE ~draft.snap
      <4>1. ~Started
        BY <3>3 DEF Started
      <4>2. Lapses <= Lapses'
        <5>1. rebuilds' = rebuilds
          BY <2>3, <3>3 DEF Rebuild
        <5> QED
          BY <1>1, <1>2, <5>1 DEF Lapses
      <4> QED
        BY <1>1, <1>2, <2>1, <3>1, <3>2, <4>1, <4>2, MailAside
    <3>4. CASE draft.snap
      <4>1. Lapses < Lapses' /\ Lapses <= Lapses'
        <5>1. rebuilds' = rebuilds + 1
          BY <2>3, <3>4 DEF Rebuild
        <5> QED
          BY <1>1, <1>2, <5>1 DEF Lapses
      <4>2. Ended <= Ended'
        <5>1. Ended' = Ended /\ Ended \in Int
          BY <1>1, <2>1, <3>1, <3>2, EndedFrame, MailTypes DEF Ended, Counted
        <5> QED
          BY <5>1
      <4>3. Owed' = Owed
        <5>1. Recording' <=> Recording
          BY <1>2, <3>1 DEF Recording
        <5> QED
          BY <1>2, <5>1 DEF Owed
      <4>4. Cardinality(Unmailed') <= Cardinality(Unmailed) + 1
        <5>1. IsFiniteSet(Unmailed) /\ Cardinality(Unmailed) \in Nat
          BY <1>1, MailTypes DEF Counted
        <5>2. Unmailed' \subseteq Unmailed \cup {q}
          BY <3>1 DEF Unmailed
        <5>3. q \notin Unmailed
          BY <1>2 DEF Unmailed, Ensuring
        <5>4. IsFiniteSet(Unmailed \cup {q}) /\ Cardinality(Unmailed \cup {q}) = Cardinality(Unmailed) + 1
          BY <5>1, <5>3, FS_AddElement
        <5> QED
          BY <5>2, <5>4, FS_Subset
      <4>5. Cardinality(Unmailed') + Owed' <= Cardinality(Unmailed) + Owed + 1
        <5>1. Owed \in Nat /\ Cardinality(Unmailed) \in Nat /\ Cardinality(Unmailed') \in Nat
          BY <1>1, MailTypes, MailTypesNext DEF Counted
        <5> QED
          BY <4>3, <4>4, <5>1
      <4>6. ~Holding(req'[q])
        BY <3>1 DEF Holding, Ensuring
      <4>7. ASSUME Started, NEW r \in Requests
            PROVE  /\ Holding(req'[r]) => req'[r].pc \in {"emails", "record", "record_write"}
                   /\ req'[r].pc = "record_write" => req'[r].next.snap /\ req'[r].next.emailed
        BY <3>1, <4>6, <4>7 DEF Started
      <4> QED
        BY <1>1, <1>2, <3>4, <4>1, <4>2, <4>5, <4>7, MailFrame
    <3> QED
      BY <3>3, <3>4
  <2> QED
    BY <1>4, <2>2, <2>3 DEF EnsureSnapshot
<1> QED
  BY <1>3, <1>4

\* The steps of the browsers.
LEMMA MailBrowser ==
  ASSUME CeremonyInv, CeremonyInv', MailsInv, NEW s \in Signers, NEW q \in Requests,
         Finish(s, q) \/ Receive(s, q) \/ PostAgain(s, q) \/ Disconnect(s, q)
  PROVE  MailsInv'
<1> USE DEF browser, counts, server
<1>1. TypeOK /\ TypeOK' /\ cancels \in Nat /\ faults \in Nat /\ rebuilds \in Nat
  BY DEF CeremonyInv, TypeOK
<1>2. draft' = draft /\ mailed' = mailed /\ cancels' = cancels
  BY DEF Finish, Receive, PostAgain, Disconnect
<1>3. Lapses <= Lapses'
  <2>1. rebuilds' = rebuilds /\ (faults' = faults \/ faults' = faults + 1)
    BY DEF Finish, Receive, PostAgain, Disconnect
  <2> QED
    BY <1>1, <2>1 DEF Lapses
<1>4. ASSUME req[q].pc \in {"idle", "arrived", "answered"}, req'[q].pc \in {"idle", "arrived"},
             \A r \in Requests : r # q => req'[r] = req[r]
      PROVE  MailsInv'
  BY <1>1, <1>2, <1>3, <1>4, MailAside DEF Cancelling, Ensuring, Holding, Locked
<1>5. CASE Finish(s, q) \/ PostAgain(s, q)
  <2>1. Arrive(q, "complete", s, StampedCopy(s)) /\ StampedCopy(s) \in Copies
    BY <1>1, <1>5 DEF Finish, PostAgain, StampedCopy, Copies, TypeOK
  <2>2. req'[q].pc = "arrived" /\ \A r \in Requests : r # q => req'[r] = req[r]
    BY <1>1, <2>1, ArriveEffect
  <2>3. req[q].pc \in {"idle", "answered"}
    BY <1>5 DEF Finish, PostAgain
  <2> QED
    BY <1>4, <2>2, <2>3
<1>6. CASE Receive(s, q) \/ (Disconnect(s, q) /\ req' # req)
  <2>1. /\ req' = [req EXCEPT ![q] = Idle]
        /\ req[q].pc \in {"arrived", "answered"}
    <3>1. CASE Receive(s, q)
      BY <3>1 DEF Receive
    <3>2. CASE Disconnect(s, q) /\ req' # req
      BY <3>2 DEF Disconnect
    <3> QED
      BY <1>6, <3>1, <3>2
  <2>2. req'[q].pc = "idle" /\ \A r \in Requests : r # q => req'[r] = req[r]
    BY <1>1, <2>1 DEF TypeOK, Idle
  <2> QED
    BY <1>4, <2>1, <2>2
<1>7. CASE req' = req
  <2>1. /\ Unmailed' = Unmailed /\ Owed' = Owed /\ Ended' = Ended
    BY <1>2, <1>7 DEF Unmailed, Owed, Recording, Ended, Cancelled
  <2>2. /\ Ended \in Int /\ Cardinality(Unmailed) + Owed <= Cardinality(Unmailed) + Owed
    <3>1. Ended \in Int /\ Cardinality(Unmailed) \in Nat /\ Owed \in Nat
      BY <1>1, MailTypes DEF Counted
    <3> QED
      BY <3>1
  <2>3. Ended <= Ended'
    BY <2>1, <2>2
  <2>4. Cardinality(Unmailed') + Owed' <= Cardinality(Unmailed) + Owed
    BY <2>1, <2>2
  <2> QED
    BY <1>1, <1>2, <1>3, <1>7, <2>3, <2>4, MailFrame DEF Started
<1> QED
  BY <1>5, <1>6, <1>7

\* The restart of the server loses the requests, and what they know of a mailing.
LEMMA MailCrash ==
  ASSUME CeremonyInv, CeremonyInv', MailsInv, Crash
  PROVE  MailsInv'
<1> USE DEF browser, counts, server
<1>1. TypeOK /\ TypeOK' /\ cancels \in Nat /\ faults \in Nat /\ rebuilds \in Nat
  BY DEF CeremonyInv, TypeOK
<1>2. /\ draft' = draft /\ mailed' = mailed /\ cancels' = cancels
      /\ faults' = faults + 1 /\ rebuilds' = rebuilds
      /\ req' = [q \in Requests |-> Idle]
  BY DEF Crash
<1>3. Cancelled' = {} /\ Unmailed' = {}
  BY <1>2 DEF Cancelled, Unmailed, Cancelling, Ensuring, Idle
<1>4. Cardinality(Cancelled') = 0 /\ Cardinality(Unmailed') = 0
  BY <1>3, FS_EmptySet
<1>5. /\ Cardinality(Cancelled) \in Nat /\ Cardinality(Unmailed) \in Nat /\ Owed \in Nat
      /\ Owed' \in {0, 1}
  BY <1>1, MailTypes, MailTypesNext DEF Counted
<1>6. Ended <= Ended'
  BY <1>1, <1>2, <1>4, <1>5 DEF Ended
<1>7. Lapses < Lapses' /\ Lapses <= Lapses'
  BY <1>1, <1>2 DEF Lapses
<1>8. Cardinality(Unmailed') + Owed' <= Cardinality(Unmailed) + Owed + 1
  BY <1>4, <1>5
<1>9. \A r \in Requests : ~Holding(req'[r]) /\ req'[r].pc # "record_write"
  BY <1>2 DEF Idle, Holding, Locked
<1>10. Started => draft'.snap
  BY <1>2 DEF Started
<1> QED
  BY <1>1, <1>2, <1>6, <1>7, <1>8, <1>9, <1>10, MailFrame

\* No step mails more than is allowed.
LEMMA MailStep == CeremonyInv /\ CeremonyInv' /\ MailsInv /\ [Next]_vars => MailsInv'
<1> SUFFICES ASSUME CeremonyInv, CeremonyInv', MailsInv, [Next]_vars PROVE MailsInv'
  OBVIOUS
<1> USE DEF browser, counts, server
<1>1. ASSUME NEW q \in Requests, Serve(q) PROVE MailsInv'
  BY <1>1, MailServe, MailStore, MailWrite DEF Serve
<1>2. ASSUME NEW q \in Requests, Cancel(q) \/ EnsureSnapshot(q) PROVE MailsInv'
  BY <1>2, MailOwner
<1>3. ASSUME NEW s \in Signers, NEW q \in Requests,
             Finish(s, q) \/ Receive(s, q) \/ PostAgain(s, q) \/ Disconnect(s, q)
      PROVE  MailsInv'
  BY <1>3, MailBrowser
<1>4. CASE UNCHANGED vars \/ OwnerRefresh \/ \E s \in Signers : Open(s) \/ OpenRefused(s)
  <2>1. UNCHANGED <<draft, req, mailed, cancels, faults, rebuilds>>
    BY <1>4 DEF vars, OwnerRefresh, Open, OpenRefused
  <2> QED
    BY <2>1 DEF MailsInv, Fresh, Started, Spendable, Lapses, Ended, Cancelled, Unmailed, Owed, Recording, Slots
<1> QED
  BY <1>1, <1>2, <1>3, <1>4, MailCrash DEF Next

\* Between two cancellations the completion e-mails go out at most once for each
\* request the server can have under way, and once more for each fault and each
\* snapshot that is built over an existing one.
THEOREM MailingsCorrect == Spec => []MailingsAccountedFor
<1>1. Init => MailsInv
  <2> SUFFICES ASSUME Init PROVE MailsInv
    OBVIOUS
  <2>1. Cancelled = {}
    BY DEF Init, Cancelled, Cancelling, Idle
  <2>2. Ended = 0
    BY <2>1, FS_EmptySet DEF Init, Ended
  <2>3. Slots \in Nat
    BY TypeInit, MailTypes DEF Counted
  <2>4. Spendable = Slots
    BY <2>2, <2>3 DEF Init, Spendable, Lapses
  <2> QED
    BY <2>3, <2>4 DEF MailsInv, Fresh
<1>2. CeremonyInv /\ MailsInv => MailingsAccountedFor
  <2> SUFFICES ASSUME CeremonyInv, MailsInv PROVE MailingsAccountedFor
    OBVIOUS
  <2>1. /\ Slots \in Nat /\ Ended \in Int /\ Spendable \in Int /\ Owed \in Nat
        /\ Cardinality(Unmailed) \in Nat /\ Cardinality(Cancelled) \in Nat
    BY MailTypes DEF Counted, CeremonyInv
  <2>2. Lapses \in Nat /\ cancels \in Nat /\ mailed \in Nat
    BY MailTypes DEF CeremonyInv, TypeOK, Counted
  <2>3. Spendable >= 0
    BY <2>1 DEF MailsInv, Fresh, Started
  <2>4. Ended <= cancels
    BY <2>1, <2>2 DEF Ended
  <2>5. Lapses + (Ended + 1) * Slots - mailed <= Lapses + (cancels + 1) * Slots - mailed
    BY <2>1, <2>2, <2>4, BudgetGrows
  <2>6. (cancels + 1) * Slots \in Nat /\ (1 + cancels) * Slots = (cancels + 1) * Slots
    BY <2>1, <2>2
  <2>7. 0 <= Lapses + (cancels + 1) * Slots - mailed
    BY <2>1, <2>2, <2>3, <2>5, <2>6 DEF Spendable
  <2> HIDE DEF Slots
  <2>8. mailed <= Lapses + (1 + cancels) * Slots
    BY <2>2, <2>6, <2>7
  <2> QED
    BY <2>8 DEF MailingsAccountedFor, Slots, Lapses
<1> QED
  BY <1>1, <1>2, MailStep, CeremonyCorrect, PTL DEF Spec
=============================================================================

---------------------------- MODULE SigningCeremony ----------------------------
(***************************************************************************)
(* The signing ceremony of one agreement (VS01): every signer finishes in  *)
(* a browser, which stamps its copy of the packet, posts the completion    *)
(* and notes who has signed; the server records the signature, and with    *)
(* the last one it builds the signed snapshot, the evidence package and    *)
(* the completion e-mails; the owner can cancel the packet or ask for the  *)
(* snapshot again.                                                         *)
(*                                                                         *)
(* The server runs handlers on threads of one process.  A completion holds *)
(* a lock of the agreement, cancelling does not, and asking for the        *)
(* snapshot takes it only for the e-mails.  Every handler loads the whole  *)
(* draft and writes the whole draft back; only a write that changes the    *)
(* invite registry compares the registry's revision first, and any other   *)
(* write leaves the registry of the stored draft alone.                    *)
(***************************************************************************)
EXTENDS Naturals, FiniteSets

CONSTANTS
    Recipients,  \* signers invited by a token
    Owner,       \* the signer who owns the agreement and has a session
    Requests,    \* HTTP requests the server can have under way
    None,        \* no request
    MaxCancels,  \* bound: cancellations
    MaxRebuilds, \* bound: rebuilds of a snapshot that exists
    MaxFaults    \* bound: restarts of the server, requests or answers that the
                 \* network loses

ASSUME CeremonyAssumption ==
    /\ Owner \notin Recipients
    /\ None \notin Requests
    /\ IsFiniteSet(Requests)
    /\ MaxCancels \in Nat /\ MaxRebuilds \in Nat /\ MaxFaults \in Nat

Signers == Recipients \cup {Owner}

VARIABLES
    draft,    \* the stored agreement
    lock,     \* the request that holds vs01_signer_complete_lock, or None
    req,      \* the requests of the server
    page,     \* page[s]: what the signing page of s shows
    copy,     \* copy[s]: the portable packet in the browser of s
    marks,    \* marks[s]: signers the browser of s shows as "signed"
    awaits,   \* awaits[s]: the request the page of s waits for
    mailed,   \* complete mailings sent out
    cancels, faults,
    rebuilds, \* snapshots built over an existing one
    stampable \* a By/Date line of the accepted corpus takes a stamp, and it is
              \* long enough (1500 characters) for a new seed; never changes

server == <<draft, lock, mailed>>
browser == <<page, copy, marks, awaits>>
counts == <<cancels, faults, rebuilds, stampable>>
vars == <<server, req, browser, counts>>

Draft == [signed : SUBSET Signers,      \* signature_completed events
          executed : BOOLEAN,           \* the "signed" event
          active : BOOLEAN,             \* packet_state
          snap : BOOLEAN,               \* fully_executed_snapshot
          evidence : BOOLEAN,           \* completion_evidence_v1
          emailed : BOOLEAN,            \* the event of the completion e-mails
          live : SUBSET Recipients,     \* recipient_delivery_v1: active tokens
          rev : Nat]                    \* recipient_delivery_v1: revision

Copies == {"clean", "stamped"}
Kinds == {"complete", "cancel", "ensure"}
Locked == {"merge", "store", "snapshot", "snapshot_write", "evidence",
           "evidence_write", "emails", "record", "record_write"}
PCs == Locked \cup {"idle", "arrived", "queued", "mail_queued", "answered"}

Request == [kind : Kinds, by : Signers, body : Copies, pc : PCs,
            base : Draft, next : Draft, seen : Nat, full : BOOLEAN]

TypeOK ==
    /\ draft \in Draft
    /\ lock \in Requests \cup {None}
    /\ req \in [Requests -> Request]
    /\ page \in [Signers -> {"closed", "open", "sending", "retrying", "finished"}]
    /\ copy \in [Signers -> Copies]
    /\ marks \in [Signers -> SUBSET Signers]
    /\ awaits \in [Signers -> Requests \cup {None}]
    /\ {mailed, cancels, faults, rebuilds} \subseteq Nat /\ stampable \in BOOLEAN

\* The packet as the signing links have sent it.
SentDraft == [signed |-> {}, executed |-> FALSE, active |-> TRUE, snap |-> FALSE,
              evidence |-> FALSE, emailed |-> FALSE, live |-> Recipients, rev |-> 0]

Idle == [kind |-> "complete", by |-> Owner, body |-> "clean", pc |-> "idle",
         base |-> SentDraft, next |-> SentDraft, seen |-> 0,
         full |-> FALSE]

Init ==
    /\ draft = SentDraft
    /\ lock = None
    /\ req = [q \in Requests |-> Idle]
    /\ page = [s \in Signers |-> "closed"]
    /\ copy = [s \in Signers |-> "clean"]
    /\ marks = [s \in Signers |-> {}]
    /\ awaits = [s \in Signers |-> None]
    /\ mailed = 0 /\ cancels = 0 /\ faults = 0 /\ rebuilds = 0 /\ stampable \in BOOLEAN

AllSigned(d) == d.signed = Signers

-----------------------------------------------------------------------------
(* Requests. *)

Arrive(q, kind, s, body) ==
    req' = [req EXCEPT ![q] = [Idle EXCEPT !.kind = kind, !.by = s,
                                           !.body = body, !.pc = "arrived"]]

Goto(q, step) == req' = [req EXCEPT ![q].next = SentDraft, ![q].seen = 0, ![q].pc = step]

\* The request writes d next; it has seen revision rev of the registry.
Prepare(q, d, rev, step) ==
    req' = [req EXCEPT ![q].base = SentDraft, ![q].next = d, ![q].seen = rev, ![q].pc = step]

Release(q) == lock' = IF lock = q THEN None ELSE lock

\* The handler ends: the answer of a completion is sent, an owner's request is over.
Answer(q, full) ==
    /\ req' = [req EXCEPT ![q] = IF req[q].kind = "complete"
                                THEN [Idle EXCEPT !.pc = "answered", !.full = full]
                                ELSE Idle]
    /\ Release(q)

Refuse(q) == Answer(q, FALSE)

-----------------------------------------------------------------------------
(* post_vs01_signer_complete. *)

\* The owner has a session, a recipient a token that is active in the registry;
\* this is decided before the lock is taken.
Authorized(s) == s = Owner \/ s \in draft.live

Authorize(q) ==
    /\ req[q].kind = "complete" /\ req[q].pc = "arrived"
    /\ IF Authorized(req[q].by) THEN Goto(q, "queued") /\ UNCHANGED lock
                                ELSE Refuse(q)
    /\ UNCHANGED <<draft, mailed, browser, counts>>

\* The corpus in the body (of the stored packet, if the body has none) has to
\* be the accepted one, and so has that of the stored packet, which the
\* snapshot has replaced by the signed one.
Attested(q) == req[q].body # "stamped" /\ ~draft.snap

Begin(q) ==
    /\ req[q].pc = "queued"
    /\ lock = None
    /\ IF draft.active /\ Attested(q)
         THEN /\ lock' = q
              /\ req' = [req EXCEPT ![q].pc = "merge", ![q].base = draft]
         ELSE Refuse(q)
    /\ UNCHANGED <<draft, mailed, browser, counts>>

\* orchestrate_vs01_signer_complete on the first load, then
\* merge_fresh_audit_for_vs01_signer with a second one: the audit log is that of
\* the second load if it has the signature, else that of the first one with the
\* signature, and with the final event if it is the last signature.
Merged(q) ==
    LET signed == req[q].base.signed \cup {req[q].by}
    IN  IF req[q].by \in draft.signed THEN draft
        ELSE [draft EXCEPT !.signed = signed,
                           !.executed = req[q].base.executed \/ signed = Signers,
                           !.emailed = req[q].base.emailed]

\* supersede_active_invite: the token of the recipient is spent.
Spent(d, s) == [d EXCEPT !.live = @ \ {s}, !.rev = @ + 1]

\* The load whose registry the write of a recipient starts from.
RegistrySeen(q) == IF req[q].by \in draft.signed THEN draft ELSE req[q].base

Merge(q) ==
    /\ req[q].kind = "complete" /\ req[q].pc = "merge"
    /\ LET seen == RegistrySeen(q)
           next == [Merged(q) EXCEPT !.live = seen.live, !.rev = seen.rev]
       IN  Prepare(q, IF req[q].by = Owner THEN next ELSE Spent(next, req[q].by),
                   seen.rev, "store")
    /\ UNCHANGED <<server, browser, counts>>

\* save_draft: the registry of the stored draft is preserved.
Preserving(d) == [d EXCEPT !.live = draft.live, !.rev = draft.rev]

\* Wrong variant: the registry is written without comparing its revision.
StoredUnchecked(q) == draft' = req[q].next

\* save_draft_cas if the registry has changed, else save_draft.
Stored(q) ==
    IF req[q].next.rev = req[q].seen THEN draft' = Preserving(req[q].next)
    ELSE draft.rev = req[q].seen /\ draft' = req[q].next

\* The write of a completion or a cancellation succeeds ...
Store(q) ==
    /\ req[q].pc = "store"
    /\ Stored(q)
    /\ IF req[q].kind = "complete" /\ AllSigned(req[q].next)
         THEN Goto(q, "snapshot") /\ UNCHANGED lock
         ELSE Answer(q, FALSE)
    /\ UNCHANGED <<mailed, browser, counts>>

\* ... or another request has changed the registry (409).
StoreConflicts(q) ==
    /\ req[q].pc = "store"
    /\ req[q].next.rev # req[q].seen
    /\ draft.rev # req[q].seen
    /\ Refuse(q)
    /\ UNCHANGED <<draft, mailed, browser, counts>>

-----------------------------------------------------------------------------
(* What follows the last signature: snapshot, evidence package, e-mails. *)

\* ensure_fully_executed_snapshot_on_draft builds a snapshot that is missing, and
\* builds an existing one again whose corpus it finds to violate the execution
\* block (By and Name of a party differ), every time it is asked: a rebuilt
\* corpus is not looked at.  The draft that was loaded is written back.
Rebuild ==
    /\ AllSigned(draft)
    /\ draft.snap => rebuilds < MaxRebuilds
    /\ rebuilds' = IF draft.snap THEN rebuilds + 1 ELSE rebuilds

\* The snapshot exists, the corpus cannot be built, or the snapshot is written.
SnapshotStage(q) ==
    /\ req[q].pc = "snapshot"
    /\ \/ Goto(q, "evidence") /\ UNCHANGED rebuilds
       \/ Rebuild /\ Prepare(q, [draft EXCEPT !.snap = TRUE], draft.rev, "snapshot_write")
    /\ UNCHANGED <<server, browser, cancels, faults, stampable>>

\* Wrong variant: the package is built without a snapshot.
EvidenceWithoutSnapshot == ~draft.evidence

EvidenceDue == draft.snap /\ ~draft.evidence

EvidenceStage(q) ==
    /\ req[q].pc = "evidence"
    /\ IF EvidenceDue
         THEN Prepare(q, [draft EXCEPT !.evidence = TRUE], draft.rev, "evidence_write")
         ELSE Goto(q, "emails")
    /\ UNCHANGED <<server, browser, counts>>

\* Wrong variant: the event of an earlier mailing is not looked for.
EmailsPossible == draft.snap

EmailsDue == draft.snap /\ ~draft.emailed

\* The e-mails went out before, cannot go out, or are sent now.
EmailStage(q) ==
    /\ req[q].pc = "emails"
    /\ \/ Answer(q, TRUE) /\ UNCHANGED mailed
       \/ /\ EmailsDue
          /\ mailed' = mailed + 1
          /\ Goto(q, "record")
          /\ UNCHANGED lock
    /\ UNCHANGED <<draft, browser, counts>>

\* The event is written unless another request has written it meanwhile.
RecordStage(q) ==
    /\ req[q].pc = "record"
    /\ IF draft.emailed THEN Answer(q, TRUE)
       ELSE Prepare(q, [draft EXCEPT !.emailed = TRUE], draft.rev, "record_write") /\ UNCHANGED lock
    /\ UNCHANGED <<draft, mailed, browser, counts>>

\* Each stage writes the draft it has loaded with save_draft.
WriteStage(q) ==
    /\ req[q].pc \in {"snapshot_write", "evidence_write", "record_write"}
    /\ draft' = Preserving(req[q].next)
    /\ \/ /\ req[q].pc = "snapshot_write" /\ req[q].kind = "complete"
          /\ Goto(q, "evidence") /\ UNCHANGED lock
       \/ /\ req[q].pc = "snapshot_write" /\ req[q].kind = "ensure"
          /\ \/ Refuse(q)
             \/ ~req[q].next.emailed /\ Goto(q, "mail_queued") /\ UNCHANGED lock
       \/ /\ req[q].pc = "evidence_write"
          /\ Goto(q, "emails") /\ UNCHANGED lock
       \/ /\ req[q].pc = "record_write"
          /\ Answer(q, TRUE)
    /\ UNCHANGED <<mailed, browser, counts>>

-----------------------------------------------------------------------------
(* Requests of the owner: cancelling, and asking for the signed snapshot. *)

\* post_signing_packet_cancel: without the lock, every token is superseded.
Cancel(q) ==
    /\ req[q].pc = "idle"
    /\ cancels < MaxCancels
    /\ cancels' = cancels + 1
    /\ req' = [req EXCEPT ![q] = [Idle EXCEPT
         !.kind = "cancel", !.pc = "store", !.seen = draft.rev,
         !.next = [draft EXCEPT !.active = FALSE, !.live = {}, !.rev = @ + 1]]]
    /\ UNCHANGED <<server, browser, faults, rebuilds, stampable>>

\* post_vs01_ensure_signed_snapshot, and post_completed_signed_export_pdf, which
\* sends no e-mails: the snapshot without the lock (the request does nothing if
\* signatures are missing, or all is done) ...
EnsureSnapshot(q) ==
    /\ req[q].pc = "idle"
    /\ AllSigned(draft)
    /\ \/ /\ EmailsDue
          /\ req' = [req EXCEPT ![q] = [Idle EXCEPT !.kind = "ensure", !.pc = "mail_queued"]]
          /\ UNCHANGED rebuilds
       \/ /\ Rebuild
          /\ req' = [req EXCEPT ![q] = [Idle EXCEPT
               !.kind = "ensure", !.pc = "snapshot_write", !.seen = draft.rev,
               !.next = [draft EXCEPT !.snap = TRUE]]]
    /\ UNCHANGED <<server, browser, cancels, faults, stampable>>

\* ... and the e-mails with it.
EnsureLock(q) ==
    /\ req[q].pc = "mail_queued"
    /\ lock = None
    /\ lock' = q
    /\ Goto(q, "emails")
    /\ UNCHANGED <<draft, mailed, browser, counts>>

-----------------------------------------------------------------------------
(* The browser of a signer. *)

\* bootstrapVs01RecipientSigningAuthority: the packet is fetched (an inactive
\* one is refused) and stored over the local copy, which the quota of the
\* browser can prevent.  Another signer is shown as signed if the fetched
\* corpus has the mark, which it has once the signed snapshot replaced it.
\* Opening again is also how a page is left: whatever it waited for is forgotten.
Open(s) ==
    /\ draft.active
    /\ page' = [page EXCEPT ![s] = "open"]
    /\ copy' = [copy EXCEPT ![s] = IF draft.snap THEN "stamped" ELSE "clean"]
    /\ marks' = [marks EXCEPT ![s] = @ \cup IF draft.snap THEN Signers \ {s} ELSE {}]
    /\ awaits' = [awaits EXCEPT ![s] = None]
    /\ UNCHANGED <<server, req, counts>>

OpenRefused(s) ==
    /\ ~draft.active
    /\ page[s] # "closed"
    /\ page' = [page EXCEPT ![s] = "closed"]
    /\ awaits' = [awaits EXCEPT ![s] = None]
    /\ UNCHANGED <<server, req, copy, marks, counts>>

\* Wrong variant: the new seed is taken whatever the corpus.
AlwaysStamped(s) == "stamped"

\* applySignerCompletionToPortablePacket
StampedCopy(s) == IF stampable /\ copy[s] = "clean" THEN "stamped" ELSE copy[s]

\* onFinishSigning: the page says that all is set, then the completion is posted.
Finish(s, q) ==
    /\ page[s] = "open"
    /\ req[q].pc = "idle"
    /\ page' = [page EXCEPT ![s] = "sending"]
    /\ copy' = [copy EXCEPT ![s] = StampedCopy(s)]
    /\ awaits' = [awaits EXCEPT ![s] = q]
    /\ Arrive(q, "complete", s, StampedCopy(s))
    /\ UNCHANGED <<server, marks, counts>>

\* Wrong variant: the signers of the handoff are marked without a word of the server.
MarkedFromHandoff(s, full) == IF s = Owner THEN Signers ELSE marks[s] \cup {s}

\* applyLocalSignerPacketStatus: the own signature counts in any case; only the
\* owner's browser has the handoff that lists the other signers.
Marked(s, full) == IF full /\ s = Owner THEN Signers ELSE marks[s] \cup {s}

\* The completion ends for the page, whatever the answer was; full says if the
\* first answer reported the agreement as fully executed.
Settle(s, full) ==
    /\ page' = [page EXCEPT ![s] = "finished"]
    /\ marks' = [marks EXCEPT ![s] = Marked(s, full)]
    /\ awaits' = [awaits EXCEPT ![s] = None]

\* The answer of the first or the second completion.
Receive(s, q) ==
    /\ awaits[s] = q
    /\ req[q].pc = "answered"
    /\ Settle(s, req[q].full \/ page[s] = "retrying")
    /\ req' = [req EXCEPT ![q] = Idle]
    /\ UNCHANGED <<server, copy, counts>>

\* Fully executed, but e-mails not known to be sent or no local snapshot: the
\* copy is stamped again and posted once more (if anything was stamped).
PostAgain(s, q) ==
    /\ awaits[s] = q
    /\ page[s] = "sending"
    /\ req[q].pc = "answered" /\ req[q].full
    /\ page' = [page EXCEPT ![s] = "retrying"]
    /\ copy' = [copy EXCEPT ![s] = StampedCopy(s)]
    /\ Arrive(q, "complete", s, StampedCopy(s))
    /\ UNCHANGED <<server, marks, awaits, counts>>

\* The connection breaks: the request goes on, or never arrived.
Disconnect(s, q) ==
    /\ awaits[s] = q
    /\ faults < MaxFaults
    /\ faults' = faults + 1
    /\ Settle(s, page[s] = "retrying")
    /\ req' \in {req} \cup {[req EXCEPT ![q] = Idle] : x \in {q} \cap
                              {r \in Requests : req[r].pc = "arrived"}}
    /\ UNCHANGED <<server, copy, cancels, rebuilds, stampable>>

\* Nobody waits for the answer.
Unread(q) ==
    /\ req[q].pc = "answered"
    /\ \A s \in Signers : awaits[s] # q
    /\ req' = [req EXCEPT ![q] = Idle]
    /\ UNCHANGED <<server, browser, counts>>

\* packetStatusFromPublicVerify in the owner's browser: kept if the server has
\* recorded more signatures than the browser shows, or all of them.
OwnerRefresh ==
    /\ \/ AllSigned(draft)
       \/ Cardinality(draft.signed) > Cardinality(marks[Owner])
    /\ marks[Owner] # draft.signed
    /\ marks' = [marks EXCEPT ![Owner] = draft.signed]
    /\ UNCHANGED <<server, req, page, copy, awaits, counts>>

-----------------------------------------------------------------------------
\* The server restarts: its requests and the lock are gone.
Crash ==
    /\ faults < MaxFaults
    /\ faults' = faults + 1
    /\ \E q \in Requests : req[q].pc # "idle"
    /\ req' = [q \in Requests |-> Idle]
    /\ lock' = None
    /\ page' = [s \in Signers |-> IF awaits[s] = None THEN page[s] ELSE "finished"]
    /\ marks' = [s \in Signers |-> IF awaits[s] = None THEN marks[s]
                                   ELSE Marked(s, page[s] = "retrying")]
    /\ awaits' = [s \in Signers |-> None]
    /\ UNCHANGED <<draft, mailed, copy, cancels, rebuilds, stampable>>

Serve(q) ==
    \/ Authorize(q) \/ Begin(q) \/ Merge(q) \/ Store(q) \/ StoreConflicts(q)
    \/ SnapshotStage(q) \/ EvidenceStage(q) \/ EmailStage(q) \/ RecordStage(q)
    \/ WriteStage(q) \/ EnsureLock(q) \/ Unread(q)

Next ==
    \/ \E q \in Requests : Serve(q) \/ Cancel(q) \/ EnsureSnapshot(q)
    \/ \E s \in Signers : Open(s) \/ OpenRefused(s)
    \/ \E s \in Signers, q \in Requests :
          Finish(s, q) \/ Receive(s, q) \/ PostAgain(s, q) \/ Disconnect(s, q)
    \/ OwnerRefresh
    \/ Crash

Spec == Init /\ [][Next]_vars

-----------------------------------------------------------------------------
(* Properties. *)

\* Each later artefact of a draft rests on the earlier ones, whatever stale
\* drafts overlapping handlers write back: the final event on every signature,
\* the snapshot on the final event, the evidence package on the snapshot, and,
\* unless the packet was cancelled, the e-mail event on the snapshot.
ArtefactsRestOnSignatures ==
    /\ draft.executed <=> AllSigned(draft)
    /\ draft.snap => draft.executed
    /\ draft.evidence => draft.snap
    /\ draft.emailed => draft.snap \/ cancels > 0

\* A recipient that the browser of somebody else shows as signed has its
\* signature on the server; so has the owner, unless a packet was cancelled.
OtherMarksAreRecorded ==
    \A s \in Signers :
        marks[s] \ {s} \subseteq draft.signed \cup (IF cancels > 0 THEN {Owner} ELSE {})

\* Between two cancellations, the completion e-mails go out at most once for each
\* request the server can have under way (a stale draft that an overlapping
\* handler of the owner writes back hides that they went out), and once more
\* for each fault and for each snapshot that is built over an existing one, which
\* writes another stale draft back.
MailingsAccountedFor ==
    mailed <= faults + rebuilds + (1 + cancels) * Cardinality(Requests)

\* A page that has finished stands for a signature on the server, unless the
\* network lost something, the server restarted, the packet was cancelled, or
\* the browser stamps its copy, which the server takes for another agreement.
FinishedIsAccountedFor ==
    \A s \in Signers :
        page[s] = "finished" => s \in draft.signed \/ faults + cancels > 0 \/ stampable

\* The ceremony keeps the ledger of signatures.
Ledger == INSTANCE SignatureLedger WITH
    recorded <- draft.signed, usable <- draft.live, sealed <- draft.executed

LedgerIsKept == Ledger!Spec
================================================================================

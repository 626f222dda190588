# Anchoring, timelines, payments, signing and sign-in: TLA+ models and proofs

TLA+ models of the transactional core of the repository: the ledgers of the
back end that decide which commitment is broadcast to a chain, which
transaction a receipt shows, which events a frozen timeline has, what a
payment is settled with, which keys usage spends and which affiliate earnings
are paid; and the three protocols that the web front end
(`src/frontend/src`) and the back end (`src/backend`) run together: locking a
version for signing, the signing ceremony, and signing in with what a guest has
drafted. TLC checks the models on small instances; TLAPS proves the safety
and action properties, and the refinements, for every value of the constants.

The back end is FastAPI endpoints (synchronous ones in a thread pool, possibly
in several processes), stores over SQLite, PostgreSQL or files, and a worker
process. It has almost no in-memory shared state: what makes it hard is that
most operations are *several* statements with network calls between them, that
nothing locks across statements, and that each of the actors can run twice at
once or die half-way. The front end keeps its half of a protocol in local
storage, cookies and component state, which outlive or lose the requests they
belong to.

## 1. Inventory

### Components modelled

| Component | State | Operations | Interacts with |
|---|---|---|---|
| **Receipt-batch anchor jobs** `anchoring/store.py`, `anchor_drainer.py`, `confirmation_poll.py`, `dual_chain_status.py` | `anchor_jobs`: a Bitcoin row and a Dogecoin mirror per Merkle root; status, txid, attempt count, network | insert on batch close, ordered drain with the mirror filter, submission and its outcomes, confirmation poll, operator retry, phase label | anchor cycle, chains, `POST /v1/ops/anchor/retry-job` |
| **Timeline anchoring** `utils/timeline_store.py`, `main.py`, `services/anchor_runner.py` | `receipts.btc_txid`, `timeline_anchor_jobs` | anchor request (batch and immediate mode), re-queue, claim, submit, write-back to job and receipt | timeline store, anchor cycle |
| **Agreement receipts and Merkle batches** `utils/timeline_store.py`, `services/anchor_runner.py` | `agreement_receipts`, `batches`, `batch_receipts` | create receipt, build batch, list, mark started / anchored / failed, set receipt txids, recover stale rows | anchor cycle |
| **Proof anchor queue** `utils/anchor_queue.py` | `anchor_jobs` of its own database | enqueue, claim, anchor, mark done / failed | anchor cycle, paid `/agent/anchor` |
| **Public feed anchoring** `services/claw_feed_store.py` | `feed_events`, `feed_anchor_jobs` | insert, recover stale, claim, mark done / failed | anchor cycle |
| **Timeline store** `utils/timeline_store.py`, `timeline_postgres.py` | events with id, index, content and hash; frozen flag and manifest; receipts | append, duplicate, patch, delete, freeze, anchor | endpoints in `main.py` |
| **Affiliate payouts** `affiliates/payout_batches.py`, `economics/store.py` | `affiliate_earnings`, `affiliate_payout_batches` with items, `affiliate_payouts` | prepare drafts, export, pay, cancel, refund, dispute | operators, Stripe handlers |
| **On-ramp settlement** `payments/service.py`, `store.py`, `reserve_job.py`, `events.py`, `economics/hooks.py` | payments, receipts, reserves, keys and events of a purchase in the on-ramp's store, its events and keys in the treasury, hooks claimed, keys credited, earnings accrued | settle a purchase statement by statement, for a webhook or the reconciliation; release reserves | providers, treasury, key ledger, affiliate earnings |
| **Key ledger** `economics/store.py`, `billing/usage_metering.py` | of an organisation: balance, rows of keys by payment, allocations of usages | `init_schema` with its legacy rows, credit, meter usage | on-ramp settlement, metered endpoints |
| **Signing ceremony (VS01)** `routers/agreements_v2_api.py`, `services/vs01_*.py`, `frontend/src/vs01/` | the draft with its signatures, packet, snapshot, evidence package and e-mail event; the invite registry with its revision; page, packet copy and marks of each browser | complete, cancel, ensure the signed snapshot; open, stamp, finish, retry, refresh | recipient delivery, draft store, e-mail |
| **Versions and signing lock** `agreementVersionStore.ts`, `AgreementReview.tsx`, `AgreementRecipientReview.tsx`, `agreements_v2_api.py`, `agreement_signing_lock_store.py` | local history, last draft seen and local lock; the draft and the lock of the server | load, refresh, commit a revision, finalize, reopen, put and delete the lock, revise, start and complete a version-locked ceremony | draft store, recipient delivery |
| **Sign-in and claimed workspaces** `routers/workspace_auth_api.py`, `auth/*.ts(x)`, `launch/AuthCallbackPage.tsx`, `security/`, `billing/` | anonymous sessions, continuations, owners of drafts, subscriptions; org and cookie of the browser, token and continuation of each tab | mint a session, create a draft, buy, start to sign in, return, restore, finalize-auth, bind-user-org, sign out | draft ownership, checkout |

The **anchor cycle** (`services/anchor_runner.py`, `run_anchor_batch_cycle`) is
the actor of the first five: one execution goes through timeline jobs, proof
jobs, Merkle batches, feed jobs and receipt-batch jobs in that order. It is run
by the scheduled process (`python -m backend.workers.run_anchor_worker`) and by
`POST /admin/anchor/run` (`main.py:1182-1216`), and nothing prevents two
executions at once. "Overlapping cycles" below means exactly that.

### Components not modelled

`PROJECT.json` lists them with their sources and reasons: Stripe webhooks and
subscriptions (section 8); usage economics, the Genesis programme and the
reports of the treasury (independent ledgers);
observability, gamification, integration webhooks (best-effort, they feed
nothing back); the chains and providers (external services); document
generation and the command-line tools (no protocol state). Most of the front
end by volume is rendering, intake forms, the repair of drafted texts and
tests: text in, text out, without state that survives a step, so it has no
transition system to model. Of its pages the parts that take part in a protocol
are modelled.

### Hard behaviours

`PROJECT.json` "hazards" lists each one at its line. In groups:

* *claims.* Timeline and feed jobs are claimed in one transaction; the proof
  queue reads outside its transaction; receipt-batch jobs and Merkle batches are
  not claimed at all.
* *updates guarded by id only.* Almost every status update overwrites whatever
  it finds, so an update decided on an old read can land on a newer row.
* *lost answers.* A submission may reach the chain and raise; the update after a
  good submission may raise inside the same `try`. Both are recorded as
  retryable failures of something that happened.
* *crashes between statements.* Feed and Merkle rows are recovered when stale,
  timeline and proof rows are not. A settlement that failed half-way is not taken
  up again: the repeated webhook finds the payment and is answered `duplicate`.
* *check, then write.* Freeze, retry, export, pay and cancel look at a status
  in one statement and write in another.
* *migration on every use.* The key ledger compares balance and rows in two
  statements and repairs the rows in a third, while others credit and spend.
* *whole-document saves.* A draft is loaded, changed and saved whole
  (`agreement_draft_store.py:185`). Only the invite registry is kept from being
  overwritten, and only a save that changes it compares a revision first. A
  signed snapshot with violations is rebuilt, and an old draft saved with it, each
  time it is asked for.
* *read twice.* A completion reads the signing lock once to see that it is there
  and once for its hash; a sign-in looks for drafts before it lists them to move.
* *two copies.* Lock, packet, signature marks and workspace exist in the browser
  and on the server, and each request, answer and reload can be lost or late.

What makes each component correct is stated by the properties of section 4.

## 2. Modelling conventions

* One action per database statement or transaction. A transaction that reads
  and writes is one action; a read that is used by a later statement is an
  action of its own that stores what it read (`listed`, `polled`, `retrying`,
  `seen`, `todo`, `read`). Consecutive local computation is part of the action
  before or after it.
* A commitment that reaches a chain adds one to `sent`; its txid is the number
  of that broadcast, so different broadcasts have different txids and 0 stands
  for NULL or the string `pending`.
* In the three front-end protocols a handler is split at each load and save of
  the draft, each read of the lock and each statement on the tables of sign-in; a
  page where it awaits an answer. What lies between the statements is local. A text is a model value:
  two texts are equal exactly when their hashes are.
* Rows that do not exist have status `missing` (or `exists = FALSE`); deterministic
  ids (job ids, receipt ids) are the index of the row, so INSERT OR IGNORE and
  primary-key conflicts are guards on that.
* `pc` is where an execution of a cycle or request is; a crash clears its
  locals and leaves the tables. An error raised outside every `try` ends a cycle
  the same way, so `Crash` stands for it too.
* When a LIMIT binds, which rows it takes is left open, except where the order
  matters (receipt-batch jobs, Merkle batches, payout batches).
* Operators whose comment says "wrong variant" are not part of `Spec`. Each is
  a plausible slip in the operation it stands next to, and PROJECT.json
  "mutants" names the property that detects it.

## 3. Modules and their code

`PROJECT.json` "map" gives the lines of every definition.

| Module | State → code | Actions → code |
|---|---|---|
| `ReceiptBatchAnchor` | `jobs` = `anchor_jobs`; `deep` = transactions with enough confirmations | `InsertAnchorJob`; `DrainList/Skip/Choose/End`, `ProcessRefused`, `Submit*`, `Record*` = the loop of `drain_receipt_batch_anchor_jobs`; `Poll*` = `confirmation_poll`; `RetryRead/Write` = `retry_failed_retryable_batch_anchor_job`; `Phase` = `dual_chain_aggregate_phase` |
| `TimelineAnchor` | `receipt`, `jobs` = `receipts`, `timeline_anchor_jobs`; `client` = what a request does next | `RequestAnchor`, `Broadcast*`, `CreateReceipt*`, `Enqueue` = the anchor endpoint; `StartCycle` (re-queue), `Claim`, `Submit*`, `MarkDone`, `SetReceiptTxid`, `MarkFailed` = the first section of the cycle |
| `MerkleBatch` | `receipts`, `batches`, `members` = the three tables; `stale` = anchoring rows older than `stale_seconds` | `StartCycle` (recovery), `ListGroups`, `BuildBatch`, `ListPending`, `MarkStarted`, `Submit*`, `MarkAnchored`, `SetReceiptTxids`, `MarkFailed` |
| `ProofAnchorQueue` | `jobs` = the queue's table; `selected` = rows a cycle read | `Enqueue`, `Select` and `MarkClaimed` = the two halves of `claim_batch`, `Anchor*`, `MarkDone`, `MarkFailed` |
| `FeedAnchor` | `events`, `jobs`; `stale` | `InsertEvent`, `StartCycle` (recovery), `Claim`, `Submit*`, `MarkDone`, `ReadAttempts` and `MarkFailed` = the two halves of `mark_feed_anchor_failed`, `Age` = time passing |
| `Timeline` | `events`, `frozen`, `manifest`; `seen` = the manifest a client sends; `patching` = a row computed before its transaction | `AppendEvent`, `DuplicateEvent`, `DeleteEvent`, `PatchEvent` (SQLite), `PatchRead/Write` (PostgreSQL), `FreezeCheck` and `Freeze`, `AnchorCheck` and `CreateReceipt` |
| `PayoutBatches` | `earnings`, `batches`, `payouts`; `todo` = rows a request has read | `PrepareDrafts`, `ListMatured`, `CreateDraft`; `ExportBatch`/`PayBatch`, `CheckEarning`, `ExportWrite`, `Finalize`; `CancelDraft`, `ClearReservation`, `CancelWrite`; `Refund`, `Dispute` |
| `AnchorJobs` | what `TimelineAnchor` and `FeedAnchor` promise of a job: `state`, failed attempts, broadcasts; `losses` = deaths of holders | `Enqueue`, `Claim`, `Broadcast`, `Refuse`, `Succeed`, `Fail`, `Retry`, `Recover`, `Abandon` |
| `OnrampSettlement` | `rows` of each table, `canonical` = `payment_canonical_events`, `ledger` = events in the treasury, `claimed` = `economics_payment_hook`; `stage` = the next statement of a handler; `due`, `reserve` = the locals of the release job | `Pipeline` = the statements of `settle_onramp_payment` and `after_claw_key_issued` in order; `Receive` = the look-up before it; `InsertPayment`, `InsertReceipt`, `InsertRow`, `Persist` and `Mirror` = the two halves of `emit_event`, `ClaimHook`, `Accrue`, `Answer`; `StartRelease`, `MarkReleased`, `PersistRelease`, `MirrorRelease` = the release job; `Fault` = an error or a death anywhere |
| `KeyLedger` | `available` = `key_balances`, `remaining` = the keys left in the rows of `key_ledger`, `allocated` = `usage_payment_allocation`, `turn` = the order of the credits; `read` = what a session has read | `ReadBalance`, `ReadRows`, `Backfill` = the three statements of the back-fill in `init_schema`; `CreditKeys`; `MeterUsage` with `FifoChoices` = `_fifo_consume`, `RefuseUsage`; `EndSession` |
| `SigningCeremony` | `draft` = the stored draft (`live`, `rev` = its invite registry); `lock` = `vs01_signer_complete_lock`; `req` = handlers under way with the draft they loaded (`base`) and will save (`next`); `page`, `copy`, `marks`, `awaits` = a signer's browser | `Authorize`, `Begin`, `Merge`, `Store`, then `SnapshotStage`, `EvidenceStage`, `EmailStage`, `RecordStage`, `WriteStage` = `post_vs01_signer_complete`; `Rebuild` = a snapshot that is missing, or there and invalid; `Cancel`; `EnsureSnapshot`, `EnsureLock`; `Open` = the recipient's bootstrap, `Finish`, `Receive`, `PostAgain` = `recordVs01SignerCompletion`, `OwnerRefresh` = `packetStatusFromPublicVerify` |
| `SignatureLedger` | what `SigningCeremony` promises: who has signed, whose token still signs, whether the agreement is sealed | `Record`, `Withdraw` |
| `SigningLock` | `draft`, `used` (consumed links), `lock` = the server; `bundle` = a browser's version store; `page` = the lock a review page was loaded with; `commit`, `put`, `revise`, `signing` = requests under way; `blind` = texts a completion took without a hash | `LoadPage`, `Refresh` with `Effect` = the effects of `AgreementReview`; `Commit*` = `commitPendingRevision` and commit-revision; `Finalize`, `Put*`, `Reopen`, `Unlock` = the two locks; `Revise*`; `Start*` = the start of the ceremony; `CompleteLoad`, `CompleteGuard` (first read of the lock), `CompleteCheck` (second read), `CompleteSave` = its completion |
| `WorkspaceClaim` | `session`, `conts`, `owner`, `creating`, `pro` = the server; `org`, `cookie`, `paid`, `signedIn` = the browser, `tab` = a tab's token, continuation and `finalizedUserRef`; `auth` = a tab's finalize or bind request; `handler` = the one each server process runs, at its next statement, with what it has read; `late`, `torn` = drafts and sessions the properties except | `Boot`, `Minted` = `ensureAnonymousSession`; `CreateVerified`, `CreateStored`, `CreateReturned` = `create_agreement_draft`, `CreateWithdrawn` = its roll-back; `Buy`, `CheckoutReturn`; `StartSignIn`, `Callback`, `Restore`, `Rebind` = the callers of the finalizer; `Receive`, `ReadContinuation`, `Verify`, `Look`, `List`, `CheckPlan`, `Move`, `Mark`, `Repair`, `Consume` = the statements of `finalize_auth` and `bind_user_org`, with `RepairFailed` and `HandlerFailed` for errors and crashes at any of them; `Answered` = `finalizeAuthenticatedSession`; `Fault` = these errors, lost answers, sign-outs, reloads, new tabs, a callback opened again |

`MC<module>` extends a module with the model values and the symmetry of its
interchangeable constants. `<module>_proofs` extends a module with its inductive
invariant, lemmas and theorems. Three proof modules hold the proofs of several
specifications that share no variable and about which no joint statement is
made: `TimelineFeed_proofs` (`Timeline` and `FeedAnchor`), `LockAndQueue_proofs`
(`SigningLock` and `ProofAnchorQueue`) and `Payments_proofs` (`PayoutBatches`,
`KeyLedger`, `OnrampSettlement`). That is why those modules prefix their common
names (`FeedNext`, `QueueSpec`, `KeyTypeOK`, `OnrampInit`).

The modules share no variables: each section of the cycle works on its own
tables; the credit that ends a settlement is one row in `OnrampSettlement` and
the action `CreditKeys` in `KeyLedger`; and the version-locked ceremony of
`SigningLock` and the packet ceremony of `SigningCeremony` are two ways to sign,
one of which an agreement uses.

## 4. Runs

| Run | Instance | Shows |
|---|---|---|
| `receipt_cycle` | 2 roots, 1 cycle, networks accepted and refused, 2 submissions per cycle, 1 promotion, 1 crash | `ConfirmedIsDeep`, `ConfirmedIsFinal`; `QueuedIsAttempted` |
| `receipt_overlap` | 1 root, 2 cycles with polls, 1 operator, 1 retry per job | `MirrorAfterCanonical`, `BroadcastsAccountedFor` |
| `timeline_batch` | 2 receipts, 2 requests, 2 cycles, 2 attempts, claim limit 1, 1 crash | `ReceiptTxidIsFinal`; the refinement `QueueIsKept`; `PendingIsResolved` |
| `timeline_immediate` | 2 receipts, 2 clients, 3 requests each, 1 crash | `BroadcastsWithinAttempts` in immediate mode: one broadcast per request |
| `merkle_cycle` | 1 receipt on each of 2 networks (one refused), 2 cycles, 2 batches, 2 attempts, 2 crashes, batches that go stale under their owner | `ReceiptsAgree`, `BroadcastsAccountedFor`, `MembershipAgrees`; `BatchIsResolved` |
| `proof_overlap` | 3 jobs, 2 cycles, claim limit 2, 1 crash | `BroadcastsOncePerWorker`; `JobGetsResult` |
| `feed_cycle` | 2 events (claims of one may go stale under their owner, twice), 2 cycles, 2 attempts, 1 crash | `EventFollowsJob`; the refinement `QueueIsKept`; `EventIsSettled` |
| `timeline_edits` | 2 clients, 2 contents, indexes 0 and 1 | `FrozenManifestCoversEvents`, `IdsNameIndexes` |
| `payments` | payouts: 1 affiliate with 2 earnings, 2 requests, 2 batches, 1 crash; keys: 2 top-ups and 2 usages of 1 and 2 keys, 2 keys from before the ledger; settlement: 2 purchases in one transaction, one of them referred by an affiliate, 2 handlers, 1 release job, 1 fault | `PayoutsCoverEarnings`, `ReservationsAreLive`; `BalanceCanBeSpent`, `BalanceIsConserved`, `OldestCreditFirst`; `KeysIssuedOnce`, `EventsInOrder`, `LossesAreCounted`, `PaymentIsSettled` |
| `signing_ceremony` | the owner and 1 recipient, 2 requests at a time, 1 cancellation, 1 rebuild of an existing snapshot, 1 fault, with and without a corpus that can be stamped | `ArtefactsRestOnSignatures`, `OtherMarksAreRecorded`, `MailingsAccountedFor`, `FinishedIsAccountedFor`; the refinement `LedgerIsKept` |
| `signing_lock` | 1 browser, 2 signers, 2 texts, 2 saves after the first, 2 rows of history | `SignedTextWasLocked`, `SignaturesMatchText`, `SeenIsRecorded` |
| `workspace_claim` | 1 tab, 2 server processes, 2 anonymous sessions, 2 drafts, 1 continuation, 1 purchase, 1 fault | `ClaimedSessionIsEmpty`, `UsedContinuationSettles`, `UserDraftsAreEntitled` |

`payments` explores three specifications that share no variable and no step. In
any interleaving of the three each goes through the states it goes through while
the others rest, so `PaymentsSpec` lets one of them move in a behaviour
(`MCPayments`), and what it finds of each is what a run of it alone would find.

**Stated by theorems only.** Some properties are proved (section 6) and in no run.
`ClaimExclusive`, `BroadcastsWithinAttempts` in batch mode, `AttemptsAccountedFor` and
`OutcomeIsFinal` are aspects of the job queue of `QueueIsKept`, and a key that paid
twice (`KeysPayOnce`) would be missing in `BalanceIsConserved`. The others are
simpler than what their runs check: `ReceiptTxidFromBatch`, `HashesMatchContent`,
`RunbookPhases`, `SignaturesConsumeLinks`, `RowsAreBalance`, `AcknowledgedIsRecorded`.
TLC found each of them to hold on the instances above before it was proved.

**Why these bounds.** Every race listed as a hazard is between two executions,
so two cycles, requests or operators are enough to produce it; one job, root or
batch is enough for races on a row, and a second one is there where rows
compete: for a LIMIT (1 of 2), for a list cut by a refused row. Two attempts
make "retried" and "given up" different. One crash reaches every intermediate
state once; two in `merkle_cycle` let a recovery itself crash. In
`payments` the second purchase is what the unique transaction of a receipt needs
to bite, and the one fault is what strands a settlement or a release; a balance
of 2 keys is larger than one usage and smaller than both, so that usages are
refused, paid from one row, and paid from two rows of different kinds, and four
sessions let an `init_schema` be overtaken by credits and usages alike. In
`signing_ceremony` two requests let any two handlers overlap, and the one
recipient stands against the owner, whose signature needs no token; in
`signing_lock` three values of the time of saving allow two overlapping saves,
and one browser is enough because the others only appear to it through draft
and lock of the server; in `workspace_claim` two processes, the number `run.sh`
starts (`--workers 2`), run two handlers side by side: the second serves a request
of the tab that was reloaded, or closed and opened again, while the first goes
on. The second session is what the reopened tab mints, and of two drafts one can
be moved while the other is stored or withdrawn. More tabs are left to the
theorems, which have any number. What the bounds cut off is the number of repetitions (one rebuild
hides one mailing, and the code may rebuild on every request), and in
`merkle_cycle` batches of more than one receipt (`BatchLimit = 1`; that
`build_next_batch` never puts a receipt in two batches is what
`MembershipAgrees` says of each receipt by itself). All of that concerns what TLC
alone checks; every invariant, action property and refinement above is also
proved for all values of the constants (section 6), under the hypothesis stated
there where it has one. The bounds matter for the liveness properties.

`ListLimit = 2` in `receipt_cycle` stands for 80 in the code: with two roots it is
the smallest limit with which refused mirrors cannot hide every eligible row.
With limit 1, a mirror whose root failed hides the next root for ever; the real
limit has that effect once 80 such mirrors are queued ahead of it, which is the
hazard at `anchor_drainer.py:71`.

**Deadlock.** Requests in `TimelineAnchor` (immediate mode), proof jobs and
timelines can come to an end: all requests made, all jobs settled, timeline
frozen with its receipt; so can the three protocols of the front end, once
everybody has signed, or the bounds on saves, faults and purchases are used up,
and so can the sessions of a key ledger. Their runs say `CHECK_DEADLOCK FALSE`.

**Symmetry** is used in runs without liveness only.

**Type invariants.** Every module with code of its own states one. TLAPS proves
them all: as theorems (`TypeCorrect`, `KeyTypeCorrect`, `OnrampTypeCorrect`), or
within the inductive invariants of `MerkleBatch`, `ProofAnchorQueue` and
`FeedAnchor`.

**Refinements.** `timeline_batch` and `feed_cycle` check that timeline and feed
anchoring implement one abstract job queue, `AnchorJobs`: a job that is claimed
is broadcast at most once, then done, or refused and counted, and a job is queued
again at most `MaxAttempts` times. The tables say only `running` or `processing`
of a claimed row, and neither who holds it nor how far it is; the mapping
`JobState` takes that from the workers (claimed, broadcast, refused, or `lost`
when nobody holds it). What the two differ in is the constant `Recovers`: feed
rows come back when they are stale, timeline rows of a dead cycle stay lost. For
the feed the promise is about events whose claims go stale only after a crash
(`Events \ Slow`): a claim that is recovered under its owner is broadcast by two.

`signing_ceremony` checks that `SigningCeremony` implements
`SignatureLedger` under the mapping `recorded <- draft.signed`,
`usable <- draft.live`, `sealed <- draft.executed`: whatever the handlers load,
merge and write back, every change of the stored draft is the recording of one
signature that spends its token, or a withdrawal, and the agreement is sealed by
exactly the step that records the last signature. The abstract ledger has no
requests, locks or revisions; that a withdrawal may lose the signature of the
owner, and of nobody else, is part of the promise, because the owner signs
without changing the registry whose revision the cancellation compares.

### Properties that depend on cycles not overlapping

Some statements a reader would expect hold only when one cycle runs at a time,
and are checked there: `ConfirmedIsDeep`, `ConfirmedIsFinal`, `RunbookPhases`
(receipt batches; the last one proved only). With two cycles TLC refutes them: the drain does not claim a
row before submitting it, so both cycles broadcast it and the later update
wins. In particular a poll may promote a row whose transaction was replaced
after the poll read it (`store.py:453`). Likewise `ReceiptsAgree` and
`BroadcastsAccountedFor` of Merkle batches, which are stated for histories in
which no cycle ran the Merkle section beside another (`overlapped`): with two,
a batch and its receipts may name different transactions. Retries do not break
the first three, although `receipt_cycle` has none: the theorems about them
allow an operator, retries and crashes beside the one cycle. What survives
overlap is checked with it: `MirrorAfterCanonical`, the broadcast bound per
worker, `MembershipAgrees`, `BatchIsResolved`; `ReceiptTxidFromBatch` is proved with it.

### Where the code and its words part

What the models and TLC show of statements in the repository that its code does
not keep. The models have the behaviour of the code; no run depends on the
statement.

1. *A payment reference is unique for all providers together*
   (`payments/store.py:63`). The docstring of
   `settle_onramp_payment` says "Idempotent on ``provider_payment_id`` (per
   provider)" (`payments/service.py:162`), and the look-up before the insert is by
   provider and reference. The constraint is on the reference alone: a purchase
   whose reference another provider has used finds no payment of its own, is
   refused by the constraint, and is answered "ok", "duplicate": with two purchases
   of one reference TLC finds `AcknowledgedIsRecorded` violated in four steps. While
   references are distinct that cannot happen (`DistinctReferencesAreRecorded`).
2. *`claim_batch` is not atomic* (`utils/anchor_queue.py:90`). Line 31 says it
   "atomically marks jobs as 'claimed'". The SELECT precedes the transaction,
   and the rows selected are returned whether or not the guarded UPDATE changed
   them, so two overlapping cycles anchor the same paid job. Hence
   `BroadcastsOncePerWorker`, and not once.
3. *A paid payout batch can be exported again*
   (`affiliates/payout_batches.py:224`). "draft → exported → paid" (line 1) is
   broken by an export that read `draft`, was overtaken by an export and a
   payment, and then writes `exported` by id. The money stays safe:
   `PayoutsCoverEarnings` holds (and is proved), because the payment transaction
   checks every earning again.
4. *A completion whose packet was stamped is refused*
   (`accepted_review_snapshot.py:634`). The signing page stamps By and Date lines
   into its copy of the corpus before it posts it
   (`vs01SignerCompletionSync.ts:258`); the server compares that corpus with the
   accepted one and answers 400. The page says that all is set either way
   (`Vs01Wizard.tsx:1319`). It happens when the accepted corpus has such lines
   and at least 1500 characters; `stampable` stands for that, and
   `FinishedIsAccountedFor` exempts it.
5. *Reopening the review does not pause signing* (`AgreementReview.tsx:5760`). The
   dialog says "Reopening review pauses signing on the current final version."
   (line 5754); the handler clears the lock of the browser only, and the server's
   lock goes on admitting signatures. `Unlock` is reachable for other clients.
6. *A revision can be saved under signatures* (`agreements_v2_api.py:11662`,
   `:12770`). `_assert_draft_mutable_after_signatures` is there to "Block
   canonical draft edits once any signer has completed the ceremony." (line
   12084); revise with persist and the application of a proposal do not call it,
   and ask for the lock before they load the draft. `SignaturesMatchText` exempts
   these saves by name (`loose`).
7. *A text no lock hashed can be signed* (`agreements_v2_api.py:7151`). Deleting
   the lock is to "Clear signing lock so the owner can edit the draft again
   (invalidates prior sign-only tokens)" (line 7087). A completion that has seen
   the lock and reads it again for the hash finds none then, `if stored_sha and ...`
   (line 7153) skips the comparison, and what it had loaded is signed, also a
   revision saved after the lock was put.
   `SignedTextWasLocked` exempts these texts by name (`blind`).

Further observations that the models make visible: a settlement that fails after
the payment is recorded is never completed, because every later delivery is a
duplicate, and the hooks claim their step before they do it (`LossesAreCounted`
says that a fault loses one settlement or one report of a release, and no more);
a purchase whose transaction already has a receipt gets its keys without one;
sessions that overlap in `init_schema` can insert legacy rows for the same keys
twice, so that usage is traced to a legacy balance which did not exist, while
the balance stays right (`RowsAreBalance` and `BalanceIsConserved` say which of
the two depends on overlap); a crash after a claim, or
between marking a job done and writing the receipt, leaves a timeline receipt
pending for ever (`LostInCrash`; feed and Merkle rows have a recovery, timeline
rows have none); the label of a failed mirror of an unconfirmed root is
`bitcoin_submitted_dogecoin_blocked` in the code (`dual_chain_status.py:59`) and
`mirror_failed_retryable` in the runbook; a paid proof job that failed or was
lost stays that way, a repeated request being ignored by INSERT OR IGNORE; a
cancelled packet becomes active again when a completion that loaded it before
saves after it; a stale save takes a signature away while its link stays
consumed.

*Payouts.* An exported batch of which one earning is refunded or disputed can be
neither paid (the integrity check of `economics/store.py:1963` wants every item
payable) nor cancelled (`payout_batches.py:484` cancels drafts only): its other
earnings stay reserved to it until somebody mends the tables.
`ReservationsAreLive` says that this is the only way to it. A batch that is
cancelled or missing holds no earning, and no race or crash of the requests takes
an earning out of a batch whose other earnings stay.

*Mailings.* `completed_execution_by_name_violations` finds fault with a snapshot
whose By and Name lines differ; such a snapshot is rebuilt each time a completion
or the owner asks for it (`vs01_fully_executed_snapshot.py:535`), without a look
at whether the new one is better (line 622), and the draft that was loaded is saved
with it. A save that comes after the mailing and was loaded before it takes the
e-mail event away, and the next request mails again. `MailingsAccountedFor` counts
the rebuilds.

*Sign-in.* A draft of a guest who signs in without a plan, or who paid before
signing in, stays in the guest workspace (`workspace_auth_api.py:459` runs before
the billing repair), and the browser forgets the session that could claim it
(`postAuthFinalizer.ts:87`). finalize-auth looks for drafts (line 459), then lists
them (207), moves those of the list (227) and claims the session (467), while
threads store drafts: one stored after the list is left behind in the claimed
session, and so is one stored between look and list when the plan defers its
import, since the session was empty at the first look. `late` marks these drafts.
An error or a crash after the move leaves the session live and empty (`torn`);
the repeated request finds no drafts and claims it. A bind that is repeated in
that place does not, since it claims nothing without drafts.

## 5. Fairness

`FairSpec` of each module assumes weak fairness of

* each worker's `Cycle(w)`: a cycle that runs takes its next step, and the
  scheduler starts another one when it is idle. The runbooks require the
  worker to be scheduled; a cycle has no unbounded waiting (network calls have
  time-outs, which are the `SubmitRaises` actions);
* each request's steps (`TimelineAnchor`): a thread of the pool goes on;
* `Age` (feed, Merkle): time passes, so a claim nobody updates becomes stale;
* `Settle(h)` and `Release(j)` (`OnrampFairSpec`): a handler or a release job that
  has begun executes its next statement until it ends. No delivery or retry is
  assumed, and none would help.

The modules of the front-end protocols state no fairness: a signer may never
finish and a tab may be closed at any moment, so the code promises nothing that
must happen, and their properties are safety and refinement.

Nothing is assumed about crashes, failures, operators, or new requests: they
may happen or not. Submissions may fail every time, so the liveness properties
say "gets a transaction *or uses its attempts up*". `QueuedIsAttempted` needs no
success either. `PaymentIsSettled` excuses faults by name: a payment is settled
*or something has failed*.

## 6. Proofs

Every proof module proves for every set of actors and rows, every limit and
every number of crashes and repetitions. Assumptions: the named assumption of
the module (limits are naturals, distinguished values are distinct, and where a
bound counts workers or requests, that these are finitely many, as threads and
processes are) and nothing else, except where said. All invariants, action
properties and refinements that the passing runs check are stated by theorems.

**`TimelineAnchor_proofs`.** `TypeCorrect`; `ClaimsAreExclusive` (no two cycles
hold one job); `BroadcastsBounded` (at most `MaxAttempts` broadcasts of a
commitment in batch mode, one per request in immediate mode); `ReceiptTxidForGood` (a receipt keeps the
transaction it names). `ClaimExclusive` is not inductive: that a claimed row is
not claimed again follows from its being `running`, so `WorkersHoldJobs` says
what status and how many broadcasts the rows have that a worker holds at each
point of its cycle. That in turn needs that rows are held by one worker, so the
two are proved together. `AttemptsBoundBroadcasts` counts: attempts cover the
broadcasts, with one more while the row is running or done. `TxidsComeLast` says
that a receipt has a txid only when its job is done and in nobody's hands,
hence no later step of a cycle writes it; it needs `ModesAreApart`. In immediate
mode `RequestsBoundBroadcasts` counts the requests that are about to broadcast
together with the broadcasts made: each has a request of its own.
`TimelineKeepsQueue` is the refinement of `AnchorJobs` in batch mode. A step of the
cycle, a request or a crash is shown to move exactly the jobs it is about
(`QueueClaims`, `QueueStutters` and their like, one lemma per abstract action); besides
`IInv` it needs that a worker's row in a given step has the status that step
left (`StagesOk`) and that a row that is done was broadcast (`DoneWasSent`), which
makes a crash after `MarkDone` an abstract death that loses no job.

**`TimelineFeed_proofs`, timelines.** `TypeCorrect`, `ManifestCoversEvents`, `HashesAreCurrent`,
`IdsAreUnique`, `FrozenForGood`. The strengthening is about what requests carry
between their statements: a row a patch has computed has the hash of its own
content and the index its id names (`PatchesMatchContent`), and a request that
passed the anchor check holds the frozen manifest (`AnchorsNameManifest`). That a
new event never meets an id in use follows from ids naming indexes: the id
contains the next index, which is greater than every index in the table.

**`Payments_proofs`, payouts.** `TypeCorrect`, `PaidExactlyOnce`, `ReservationsHold`. The
strengthening (`PayoutIInv`): batches have items from the moment they exist and no payout
before (`BatchesHaveItems`), and a request that cleared the reservations of a
batch still finds none when it writes `cancelled` (`RequestsNameBatches`), which
rests on a batch's items being chosen once, among free earnings.

**`Payments_proofs`, key ledger.** `KeyTypeCorrect`, `BalanceAlwaysSpendable`,
`KeysNeverPayTwice`, `BalanceConserved`, `CreditsAreFifo`, `SerialRowsAreBalance`,
for any number of sessions in any interleaving. `BalanceCanBeSpent` is not
inductive, since the balance that a session read may be old when it fills the
rows. `Covered` is: either nobody is past `init_schema` and all have read the
initial balance, or the rows hold at least the balance; a late back-fill only
adds rows, and credits and usages change both sides alike. `KeysHaveRows` says
that a key names the session that inserted it and how far that session is,
hence a row that is inserted is new (`KeysPayOnce`, `BalanceIsConserved`).
`TurnsAreCounted` makes the next credit the newest of all (`OldestCreditFirst`).
`Serially` is for sessions that have not overlapped: the one under way has read
what still holds, so its back-fill makes rows and balance equal. The counting rests
on three lemmas on finite sets of keys (`RowSize`, `DisjointUnion`, `Taken`).

**`Payments_proofs`, settlement.** `OnrampTypeCorrect`, `KeysAreIssuedOnce`,
`EventsAreOrdered`, `LossesNeedFaults`, and `DistinctReferencesAreRecorded` under the
hypothesis that no two providers use one reference, which section 4 shows to be
needed. The invariant follows the pipeline: `Done(i, p)` is what statement i
leaves in the stores, and `ReachedTo(n, p)` says that the stores hold what the
statements before n leave *and nothing of the others*. `PipelinesReach`: every
purchase is settled up to some statement, and a handler that is settling it is at
that statement. That is inductive because only one handler is past the payment
(`OnePipeline`, by the unique reference), and every other property is a
consequence of "exactly a prefix": rows rest on the rows before, events come after
the events before. Each action has a lemma that it takes one statement of
the pipeline, or skips those that are not owed (`Owed`). `LossesNeedFaults` counts: a
step of a handler or a job that is not a fault strands nothing
(`SettleStrandsNobody`, `JobLosesNothing`), because what it leaves is settled or
still in its hands, and a fault adds one loss at most, since a handler has one
purchase and a job reports one release at a time (`LossesStep`).

**`LockAndQueue_proofs`, signing lock.** `TypeCorrect`, `SignedWasLocked`, `SignaturesStayWithText`,
`SignaturesUseLinksUp`. The three are properties of the stored draft, and any
handler may store the copy it holds, however old; so the strengthening (`IInv`)
demands of every copy what is demanded of the draft (`Good`): of the one a
completion or a start of the ceremony holds (`SigningIsGood`, and a copy that is
about to be signed has a text that was hashed, or that there was no hash to
compare with), of a revision's
(`ReviseIsGood`), and of one that commit-revision holds that it has no
signature at all (`CommitIsUnsigned`). What `Good` refers to, the texts hashed
and the links used, only grows, so copies stay good while they wait.
`SeenRevisionsAreRecorded` is about the browser: its invariant (`SeenInv`) says
that what a browser has seen, and what a commit under way has saved, is not newer
than the stored draft, and of the same time only if of the same text; a draft
counts as seen only by a step that adds its row or finds it (`EffectRecords`).

**`WorkspaceClaim_proofs`.** `TypeCorrect`, `ClaimsLeaveNothing`,
`ContinuationsSettleSessions`, `DraftsAreEntitled`, for any number of tabs,
processes, drafts and faults. The strengthening (`HandlerOk`) says what a handler
can rely on between its statements, whatever others do there. `SourceKnown`: its
continuation exists, and drafts are taken from a guest's session only.
`Accounted`: from its first look on, the drafts of the session are those it has
listed or those stored since (`missed`), and only the latter if it found none or
has moved its list; other handlers only take drafts away. `Entitled`: a handler
about to move drafts has seen the plan. `Settles`: a finalize that found drafts
leaves its session settled up to the end, also when another handler moved the
drafts meanwhile: that one is about to claim, or has claimed, or failed
(`torn`). Each statement has a lemma (`LookStep`, `MoveStep`, `MarkStep`, ...); that
it keeps what the other handlers rely on is one lemma for all of them
(`HandlerStays`).

**`SigningCeremony_proofs`.** `TypeCorrect`, `ArtefactsCorrect`, `CeremonyKeepsLedger`,
`MarksCorrect`, `FinishedCorrect`, `MailingsCorrect`. Handlers write back whole
drafts, so the core is to say how far the stored draft can have moved away from
the copy a handler holds. `LockInv` says who holds the lock, and that two writes
are under way without it: a cancellation's, and that of the snapshot the owner
asks for. `CopiesInv` says of every copy, at each step of its handler, that it
has the artefacts its signatures allow, that a write whose revision is still
current loses no recipient's signature, and that it loses the owner's only
after a withdrawal (`KeepsOwner`); the artefacts are written only when every
recipient has signed, after which no recipient's signature changes (`LateOk`).
The case of a step by another request is reduced to two lemmas about how the
stored draft may change at all (`Evolves`), and while someone else holds the lock
(`Outside`).

* *Refinement.* From this invariant every step is a step of `SignatureLedger`
  or a stutter: a store adds exactly one signature and spends exactly its token,
  or withdraws; the other writes change neither.
* *Marks and finish.* Marks follow, since signatures only grow until a
  cancellation. For `FinishedIsAccountedFor`, `QuietInv` describes a ceremony
  without fault, cancellation or stamp: every request then works on the stored
  packet and registry, and a page that waits has a completion of its own.
* *Mailings.* The property is a bound, and the proof an account: `Spendable` is
  what the bound leaves. Either it covers a mailing by every slot (`Fresh`), or
  mailing has `Started` and it covers every write under way that would hide the
  event (`Unmailed`), plus one if nobody has mailed. A write that begins then is a
  rebuild, and pays for itself (`Lapses`). A cancellation makes the
  account `Fresh` when its *write* ends, which is why the bound grows with
  cancellations: one that loaded the draft before the snapshot and is stored
  after the mailing takes snapshot and event off the draft, and every slot can
  mail again.

**`ReceiptBatchAnchor_proofs`.** For any number of cycles, operators, retries and
crashes: `TypeCorrect`; `MirrorCorrect` (the invariant adds that a submitted
Bitcoin row, a mirror in a worker's hands and a recorded outcome are each
evidence of a broadcast, which no retry takes back); `BroadcastsCorrect`
(`AccountInv`: the broadcasts of a job and the workers that may still broadcast
it, `Open`, are together within the bound; a worker that has had its turn
becomes open again only by a crash or by a counted attempt). For at most one
cycle and one operator at a time (`NoOverlap`; any number of executions one
after the other, retries, crashes): `DeepCorrect`, `FinalCorrect`,
`PhasesCorrect`. There what a worker or an operator has read is still so when it
is used (`WorkerReads`, `OperatorReads`), and a mirror row that has been worked
on has its root submitted. `NoOverlap` is needed: section 4 tells what two cycles
do.

**`MerkleBatch_proofs`.** `MerkleMembership` and `MerkleReceiptTxids` with any overlap
(the transaction in a worker's hands carried the batch it writes it to,
`MerkleTxids`); `MerkleReceiptsAgree` and `MerkleBroadcasts` while no two cycles have
overlapped, from `MerkleSerial`: one cycle at a time, whose list still agrees
with the rows.

**`TimelineFeed_proofs`, feed.** `FeedEventsFollowJobs` for all claims, recovered ones
too; `FeedAttemptsCounted`, `FeedOutcomesFinal` and the refinement `FeedKeepsQueue`
for events whose claims go stale only after a crash. `FeedClaims` says of those
that one worker holds a claim, that its row is processing and not stale, and that
the attempts it has read are current; a recovery therefore meets lost claims
only, which is what the refinement maps to `Recover`.

**`LockAndQueue_proofs`, proof queue.** `PaidProofsBroadcastOnce`. As the claim is not
atomic, two workers may hold one job; the invariant counts the workers that may
still broadcast it (`QueueOpen`) together with the broadcasts, within the number
of workers.

**Checked by TLC only.** Liveness under fairness: `QueuedIsAttempted`,
`PendingIsResolved`, `BatchIsResolved`, `JobGetsResult`, `EventIsSettled`,
`PaymentIsSettled`. They need ENABLED and fairness, which the installed provers do not reason about.

## 7. What the models leave out

* The content of commitments: hashing, Merkle trees and proofs, transaction
  building, fees. A hash is what it is computed from.
* A partial patch of an event: an event has one content, so that two PostgreSQL
  patches of different fields overwrite each other (`timeline_store.py:599`) is
  not expressed.
* Reorganisations: a transaction that is deep enough stays so.
* Opening and filling receipt batches before their jobs are inserted.
* That a crash in one section of a cycle skips the later sections of that
  execution: each module starts its section whenever it likes, which allows
  more behaviours.
* *On-ramp:* amounts and the division into reserve and keys (each purchase buys at
  least one key); signatures of webhooks; attribution of a customer to an
  affiliate and the subscription hook, which write nothing that the properties
  are about; when a reserve is due.
* *Key ledger:* one organisation (rows and balances of others are apart);
  `created_at` is taken to follow the order of the credits' transactions; prices.
* The PostgreSQL variant of the payout ledger; wallets, thresholds and amounts
  (which affiliates and earnings qualify is left open).
* *Signing ceremony:* preparing, sending and reissuing a packet (reissue counts
  the signatures of the revision before), field values (two signers that overlap
  can lose one's), mailings that fail for some addresses, tokenless links,
  browser storage that is full, the expiry of tokens.
* *Signing lock:* approvals, which the lock asks for and nothing ties to a text;
  open proposals; the version id a completion sends (a page opened again has
  the current one); that the row a browser locks and the text the server hashes
  may differ; more than one browser in the run (the proofs have any number).
* *Sign-in:* expiry, a subscription that ends, several users of one browser, two
  requests a tab waits for at once (a reload leaves a handler behind and starts
  another), demo and local workspaces, the agreement a continuation names, guests
  that exceed their quota by racing creates. Cookie and org are set in one step.
* Connection-level effects, such as a write lock kept by an unclosed SQLite
  connection.

## 8. Plan

Modelled, checked and proved, in this order: receipt-batch jobs, timeline jobs,
Merkle batches, proof queue, feed, timelines, payouts; the signing ceremony with
its ledger, the signing lock, sign-in; the abstract job queue with its two
refinements; the key ledger and the on-ramp settlement.

Not done, most important first:

1. *Stripe webhooks* (`billing/`, `affiliates/`) as the environment of
   `PayoutBatches`: one earning per invoice, refunds that overtake accruals.
2. *The cycle as a whole*: the five sections composed, so that a crash in one
   skips the others.
3. *Abstract specifications* for Merkle batches and for the settlement (a prefix
   of a pipeline, as in `ReachedTo`), to be used by a composition of settlement
   and key ledger.

---------------------------- MODULE TimelineAnchor ----------------------------
(***************************************************************************)
(* Anchoring of frozen timelines: the request that creates a receipt and   *)
(* enqueues its anchor job, the timeline_anchor_jobs table, and the part   *)
(* of the anchor cycle that claims jobs, submits their commitments and     *)
(* writes the transaction back to the job and to the receipt.              *)
(*                                                                         *)
(* A receipt stands for its deterministic receipt_id: requests with the    *)
(* same timeline, manifest, network and epoch compete for one receipt.     *)
(* Claiming is one transaction; every other database call of a cycle       *)
(* commits on its own, so a cycle can die between any two of them.         *)
(***************************************************************************)
EXTENDS Naturals, FiniteSets

CONSTANTS
    Receipts,     \* receipt ids
    Clients,      \* concurrent requests to /v1/timelines/{id}/anchor
    Workers,      \* executions of the anchor cycle that may overlap
    MaxAttempts,  \* timeline_anchor_max_attempts()
    ClaimLimit,   \* CLAW_TIMELINE_ANCHOR_MAX_PER_BATCH
    Immediate,    \* the deployment anchors in "immediate" mode, not in "batch" mode
    MaxRequests,  \* bound: requests per receipt
    MaxCrashes    \* bound: crashes of workers and clients

ASSUME ConstantsAssumption ==
    /\ MaxAttempts \in Nat \ {0}
    /\ ClaimLimit \in Nat \ {0}
    /\ Immediate \in BOOLEAN
    /\ MaxRequests \in Nat
    /\ MaxCrashes \in Nat

Pending == 0     \* btc_txid "pending", txid NULL; the n-th broadcast of a receipt is n
Statuses == {"missing", "queued", "running", "done", "failed"}

VARIABLES
    receipt,    \* receipt[r]: row exists, and its btc_txid
    jobs,       \* the timeline_anchor_jobs row of each receipt
    sent,       \* sent[r]: transactions that carry r's commitment
    client,     \* what each request is about to do, for which receipt and txid
    requests,   \* requests made for each receipt
    pc,         \* where each worker is in its cycle
    claimed,    \* claimed[w]: claimed jobs it has not started
    job,        \* job[w]: the job it is processing ({} when none)
    txid,       \* the transaction it has just submitted
    crashes

vars == <<receipt, jobs, sent, client, requests, pc, claimed, job, txid, crashes>>
tables == <<receipt, jobs, sent>>
requestVars == <<client, requests>>
workerVars == <<pc, claimed, job, txid>>

JobRow == [status : Statuses, txid : Nat, attempts : Nat]
PCs == {"idle", "claim", "next", "submit", "mark_done", "set_receipt", "mark_failed"}
ClientSteps == {"broadcast", "insert", "enqueue"}

TypeOK ==
    /\ receipt \in [Receipts -> [exists : BOOLEAN, btc_txid : Nat]]
    /\ jobs \in [Receipts -> JobRow]
    /\ sent \in [Receipts -> Nat]
    /\ client \in [Clients -> SUBSET (ClientSteps \X Receipts \X Nat)]
    /\ requests \in [Receipts -> Nat]
    /\ pc \in [Workers -> PCs]
    /\ claimed \in [Workers -> SUBSET Receipts]
    /\ job \in [Workers -> SUBSET Receipts]
    /\ txid \in [Workers -> Nat]
    /\ crashes \in Nat

Init ==
    /\ receipt = [r \in Receipts |-> [exists |-> FALSE, btc_txid |-> Pending]]
    /\ jobs = [r \in Receipts |-> [status |-> "missing", txid |-> 0, attempts |-> 0]]
    /\ sent = [r \in Receipts |-> 0]
    /\ client = [c \in Clients |-> {}]
    /\ requests = [r \in Receipts |-> 0]
    /\ pc = [w \in Workers |-> "idle"]
    /\ claimed = [w \in Workers |-> {}]
    /\ job = [w \in Workers |-> {}]
    /\ txid = [w \in Workers |-> 0]
    /\ crashes = 0

-----------------------------------------------------------------------------
(* The anchor request. *)

\* The timeline is frozen with the manifest the request names.
RequestAnchor(c, r) ==
    /\ client[c] = {}
    /\ requests[r] < MaxRequests
    /\ requests' = [requests EXCEPT ![r] = @ + 1]
    /\ client' = [client EXCEPT ![c] =
            {<<IF Immediate THEN "broadcast" ELSE "insert", r, Pending>>}]
    /\ UNCHANGED <<tables, workerVars, crashes>>

\* Immediate mode submits the commitment before it stores the receipt ...
Broadcast(c, r) ==
    /\ client[c] = {<<"broadcast", r, Pending>>}
    /\ sent' = [sent EXCEPT ![r] = @ + 1]
    /\ client' = [client EXCEPT ![c] = {<<"insert", r, sent[r] + 1>>}]
    /\ UNCHANGED <<receipt, jobs, requests, workerVars, crashes>>

\* ... and the request ends with an error, and no receipt, when that raises.
BroadcastRaises(c, r) ==
    /\ client[c] = {<<"broadcast", r, Pending>>}
    /\ UNCHANGED sent \/ sent' = [sent EXCEPT ![r] = @ + 1]
    /\ client' = [client EXCEPT ![c] = {}]
    /\ UNCHANGED <<receipt, jobs, requests, workerVars, crashes>>

\* The primary key of receipts; wrong variant: INSERT OR REPLACE.
InsertOrReplace(r) == TRUE
Insertable(r) == ~receipt[r].exists

\* create_receipt is a plain INSERT.
CreateReceipt(c, r) ==
    /\ Insertable(r)
    /\ \E t \in 0 .. sent[r] :
        /\ client[c] = {<<"insert", r, t>>}
        /\ receipt' = [receipt EXCEPT ![r] = [exists |-> TRUE, btc_txid |-> t]]
    /\ client' = [client EXCEPT ![c] = IF Immediate THEN {} ELSE {<<"enqueue", r, Pending>>}]
    /\ UNCHANGED <<jobs, sent, requests, workerVars, crashes>>

\* Wrong variant: the request starts over.
ConflictStartsOver(c, r) ==
    /\ receipt[r].exists
    /\ \E t \in 0 .. sent[r] : client[c] = {<<"insert", r, t>>}
    /\ client' = [client EXCEPT ![c] = {<<"broadcast", r, Pending>>}]
    /\ UNCHANGED <<tables, requests, workerVars, crashes>>

\* A second INSERT raises; the request ends with an error and enqueues nothing.
CreateReceiptConflict(c, r) ==
    /\ receipt[r].exists
    /\ \E t \in 0 .. sent[r] : client[c] = {<<"insert", r, t>>}
    /\ client' = [client EXCEPT ![c] = {}]
    /\ UNCHANGED <<tables, requests, workerVars, crashes>>

\* enqueue_timeline_anchor_job: INSERT OR IGNORE.
Enqueue(c, r) ==
    /\ client[c] = {<<"enqueue", r, Pending>>}
    /\ jobs' = IF jobs[r].status = "missing"
                 THEN [jobs EXCEPT ![r].status = "queued"]
                 ELSE jobs
    /\ client' = [client EXCEPT ![c] = {}]
    /\ UNCHANGED <<receipt, sent, requests, workerVars, crashes>>

-----------------------------------------------------------------------------
(* The anchor cycle. *)

\* Wrong variants of the re-queue: it takes running rows too, or gives
\* up one attempt early.
RetryableOrRunning(row) == row.status \in {"failed", "running"} /\ row.attempts < MaxAttempts
RetryableOnceLess(row) == row.status = "failed" /\ row.attempts + 1 < MaxAttempts

\* requeue_retryable_timeline_anchor_failures, at the start of every cycle.
Retryable(row) == row.status = "failed" /\ row.attempts < MaxAttempts

\* Outside batch mode a cycle returns at once.
StartCycle(w) ==
    /\ pc[w] = "idle"
    /\ ~Immediate
    /\ jobs' = [r \in Receipts |->
                  IF Retryable(jobs[r]) THEN [jobs[r] EXCEPT !.status = "queued"] ELSE jobs[r]]
    /\ pc' = [pc EXCEPT ![w] = "claim"]
    /\ UNCHANGED <<receipt, sent, requestVars, claimed, job, txid, crashes>>

Queued == {r \in Receipts : jobs[r].status = "queued"}

\* claim_timeline_anchor_jobs: one transaction selects and marks the rows.
\* Which rows a binding LIMIT selects (the oldest) is left open.
Claim(w) ==
    /\ pc[w] = "claim"
    /\ \E batch \in SUBSET Queued :
        /\ batch = Queued \/ Cardinality(batch) = ClaimLimit
        /\ Cardinality(batch) <= ClaimLimit
        /\ jobs' = [r \in Receipts |->
                      IF r \in batch THEN [jobs[r] EXCEPT !.status = "running"] ELSE jobs[r]]
        /\ claimed' = [claimed EXCEPT ![w] = batch]
    /\ pc' = [pc EXCEPT ![w] = "next"]
    /\ UNCHANGED <<receipt, sent, requestVars, job, txid, crashes>>

NextJob(w) ==
    /\ pc[w] = "next"
    /\ \E r \in claimed[w] :
        /\ job' = [job EXCEPT ![w] = {r}]
        /\ claimed' = [claimed EXCEPT ![w] = @ \ {r}]
    /\ pc' = [pc EXCEPT ![w] = "submit"]
    /\ UNCHANGED <<tables, requestVars, txid, crashes>>

EndCycle(w) ==
    /\ pc[w] = "next"
    /\ claimed[w] = {}
    /\ pc' = [pc EXCEPT ![w] = "idle"]
    /\ UNCHANGED <<tables, requestVars, claimed, job, txid, crashes>>

\* submit_commitment_for_network returns the transaction.
SubmitReturns(w) ==
    /\ pc[w] = "submit"
    /\ \E r \in job[w] :
        /\ sent' = [sent EXCEPT ![r] = @ + 1]
        /\ txid' = [txid EXCEPT ![w] = sent[r] + 1]
    /\ pc' = [pc EXCEPT ![w] = "mark_done"]
    /\ UNCHANGED <<receipt, jobs, requestVars, claimed, job, crashes>>

\* It raises, with or without a broadcast (or the network is disabled).
SubmitRaises(w) ==
    /\ pc[w] = "submit"
    /\ \/ UNCHANGED sent
       \/ \E r \in job[w] : sent' = [sent EXCEPT ![r] = @ + 1]
    /\ pc' = [pc EXCEPT ![w] = "mark_failed"]
    /\ UNCHANGED <<receipt, jobs, requestVars, claimed, job, txid, crashes>>

\* mark_timeline_anchor_done and mark_timeline_anchor_failed, guarded by job id
\* only; a failure keeps the txid it finds.
Done(row, t) == [row EXCEPT !.status = "done", !.txid = t]
Failed(row) == [row EXCEPT !.status = "failed", !.attempts = @ + 1]

MarkDone(w) ==
    /\ pc[w] = "mark_done"
    /\ \E r \in job[w] : jobs' = [jobs EXCEPT ![r] = Done(@, txid[w])]
    /\ pc' = [pc EXCEPT ![w] = "set_receipt"]
    /\ UNCHANGED <<receipt, sent, requestVars, claimed, job, txid, crashes>>

SetReceiptTxid(w) ==
    /\ pc[w] = "set_receipt"
    /\ \E r \in job[w] : receipt' = [receipt EXCEPT ![r].btc_txid = txid[w]]
    /\ pc' = [pc EXCEPT ![w] = "next"]
    /\ job' = [job EXCEPT ![w] = {}]
    /\ txid' = [txid EXCEPT ![w] = 0]
    /\ UNCHANGED <<jobs, sent, requestVars, claimed, crashes>>

\* Either update raises (a locked database): the except clause marks the job
\* failed, although its commitment is on the chain.
UpdateRaises(w) ==
    /\ pc[w] \in {"mark_done", "set_receipt"}
    /\ pc' = [pc EXCEPT ![w] = "mark_failed"]
    /\ txid' = [txid EXCEPT ![w] = 0]
    /\ UNCHANGED <<tables, requestVars, claimed, job, crashes>>

MarkFailed(w) ==
    /\ pc[w] = "mark_failed"
    /\ \E r \in job[w] : jobs' = [jobs EXCEPT ![r] = Failed(@)]
    /\ pc' = [pc EXCEPT ![w] = "next"]
    /\ job' = [job EXCEPT ![w] = {}]
    /\ UNCHANGED <<receipt, sent, requestVars, claimed, txid, crashes>>

\* A cycle dies (its process, or an error of the error path).  Nothing
\* returns its running rows to the queue.
CrashWorker(w) ==
    /\ pc[w] # "idle"
    /\ crashes < MaxCrashes
    /\ crashes' = crashes + 1
    /\ pc' = [pc EXCEPT ![w] = "idle"]
    /\ claimed' = [claimed EXCEPT ![w] = {}]
    /\ job' = [job EXCEPT ![w] = {}]
    /\ txid' = [txid EXCEPT ![w] = 0]
    /\ UNCHANGED <<tables, requestVars>>

CrashClient(c) ==
    /\ client[c] # {}
    /\ crashes < MaxCrashes
    /\ crashes' = crashes + 1
    /\ client' = [client EXCEPT ![c] = {}]
    /\ UNCHANGED <<tables, requests, workerVars>>

-----------------------------------------------------------------------------
Request(c) ==
    \E r \in Receipts :
        \/ Broadcast(c, r) \/ BroadcastRaises(c, r)
        \/ CreateReceipt(c, r) \/ CreateReceiptConflict(c, r) \/ Enqueue(c, r)

Cycle(w) ==
    \/ StartCycle(w) \/ Claim(w) \/ NextJob(w) \/ EndCycle(w)
    \/ SubmitReturns(w) \/ SubmitRaises(w)
    \/ MarkDone(w) \/ SetReceiptTxid(w) \/ UpdateRaises(w) \/ MarkFailed(w)

Next ==
    \/ \E c \in Clients, r \in Receipts : RequestAnchor(c, r)
    \/ \E c \in Clients : Request(c) \/ CrashClient(c)
    \/ \E w \in Workers : Cycle(w) \/ CrashWorker(w)

Spec == Init /\ [][Next]_vars

\* A request and a cycle that run go on; cycles are scheduled again and again.
FairSpec ==
    /\ Spec
    /\ \A c \in Clients : WF_vars(Request(c))
    /\ \A w \in Workers : WF_vars(Cycle(w))

-----------------------------------------------------------------------------
(* Properties. *)

Holds(w) == claimed[w] \cup job[w]

\* claim_timeline_anchor_jobs marks jobs running "to avoid double-processing":
\* no two cycles ever work on one job, whatever fails, is re-queued or crashes.
ClaimExclusive == \A v, w \in Workers : v # w => Holds(v) \cap Holds(w) = {}

\* A commitment is broadcast at most once per attempt: failures that follow a
\* broadcast are retried, but never more than MaxAttempts times, and a crash
\* leaves the job running, so it is not submitted again.  In immediate mode
\* every request may broadcast, the ones whose INSERT conflicts too.
BroadcastsWithinAttempts ==
    \A r \in Receipts :
        /\ sent[r] <= IF Immediate THEN requests[r] ELSE MaxAttempts
        /\ jobs[r].status \in {"queued", "failed"} => sent[r] <= jobs[r].attempts

\* Once a receipt names a transaction it keeps that one: a retry that follows a
\* failed update, a conflicting request or an overlapping cycle never replaces it.
ReceiptTxidIsFinal ==
    [][\A r \in Receipts :
          receipt[r].btc_txid # Pending => receipt'[r] = receipt[r]]_receipt

\* r was lost in a crash: its request died before it enqueued the job, or a
\* cycle died after it claimed the job, or after it marked the job done and
\* before it wrote the transaction to r; nothing makes up for it.
LostInCrash(r) ==
    /\ crashes > 0
    /\ jobs[r].status \in {"missing", "running", "done"}
    /\ \A w \in Workers : r \notin Holds(w)
    /\ \A c \in Clients : client[c] # {<<"enqueue", r, Pending>>}

\* The receipt is "pending until the batch runner broadcasts": it gets a
\* transaction, or its attempts are used up, unless a crash lost it.
PendingIsResolved ==
    \A r \in Receipts :
        receipt[r].exists ~> \/ receipt[r].btc_txid # Pending
                             \/ jobs[r].attempts >= MaxAttempts
                             \/ LostInCrash(r)
\* Where the job of r is: with the worker that has it, lost with one that had
\* it, or at rest.
InHands(r, steps) == \E w \in Workers : pc[w] \in steps /\ r \in job[w]
JobState(r) ==
    IF (\E w \in Workers : r \in claimed[w]) \/ InHands(r, {"submit"}) THEN "claimed"
    ELSE IF InHands(r, {"mark_done", "set_receipt"}) THEN "broadcast"
    ELSE IF InHands(r, {"mark_failed"}) THEN "refused"
    ELSE IF jobs[r].status = "running" THEN "lost"
    ELSE jobs[r].status

Queue == INSTANCE AnchorJobs WITH
    Jobs <- Receipts, Recovers <- FALSE, losses <- crashes,
    state <- [r \in Receipts |-> JobState(r)],
    attempts <- [r \in Receipts |-> jobs[r].attempts]

\* In batch mode anchoring is the job queue of AnchorJobs, although a claim is
\* known to nobody but its worker: every claim is broadcast at most once and
\* then settled or counted, whatever fails, overlaps or crashes in between.
QueueIsKept == Queue!Spec
=============================================================================

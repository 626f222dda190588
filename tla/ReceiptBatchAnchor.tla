-------------------------- MODULE ReceiptBatchAnchor --------------------------
(***************************************************************************)
(* Dual-chain anchoring of receipt-batch Merkle roots: the anchor_jobs     *)
(* table of AnchoringStore, the drain loop that submits queued jobs        *)
(* (Bitcoin before its Dogecoin mirror), the confirmation poll that runs   *)
(* after each drain, and the operator's retry endpoint.                    *)
(*                                                                         *)
(* A worker is one execution of the anchor cycle: the scheduled process or *)
(* an HTTP request to /admin/anchor/run.  Every statement that reaches the *)
(* database is a step of its own; no statement of this component holds a   *)
(* transaction over a read and the write that depends on it.               *)
(***************************************************************************)
EXTENDS Naturals, FiniteSets

CONSTANTS
    Roots,           \* Merkle roots, ordered as the SQL orders them
    Workers,         \* executions of the anchor cycle that may overlap
    Operators,       \* concurrent requests to the retry endpoint
    Networks,        \* networks a job row may name (a subset of AllNetworks)
    MainnetDisabled, \* the mainnet_disabled_flag argument of the drain
    MaxSubmissions,  \* max_submissions: iterations of one drain
    ListLimit,       \* LIMIT of the queued-jobs query
    ConfirmCap,      \* promotions per poll
    MaxRetries,      \* bound: operator retries of one job
    MaxCrashes       \* bound: crashes of workers in a behaviour

AllNetworks == {"testnet", "mainnet", "invalid"}

ASSUME ConstantsAssumption ==
    /\ Roots \subseteq Nat
    /\ IsFiniteSet(Workers)
    /\ Networks \subseteq AllNetworks
    /\ MainnetDisabled \in BOOLEAN
    /\ MaxSubmissions \in Nat \ {0}
    /\ ListLimit \in Nat \ {0}
    /\ ConfirmCap \in Nat
    /\ MaxRetries \in Nat
    /\ MaxCrashes \in Nat

Chains == {"btc", "doge"}
Job == [root : Roots, chain : Chains]
Btc(r) == [root |-> r, chain |-> "btc"]
Doge(r) == [root |-> r, chain |-> "doge"]

FailedStatuses == {"failed_retryable", "failed_terminal"}
Statuses == {"missing", "queued", "submitted_unconfirmed", "confirmed"}
                \cup FailedStatuses

NullTx == 0          \* txid IS NULL; the n-th transaction of a job is n
Row == [status : Statuses, txid : Nat, attempt_count : Nat, network : AllNetworks]

VARIABLES
    jobs,       \* the anchor_jobs table, one row per root and chain
    sent,       \* sent[j]: transactions with j's commitment on its chain
    deep,       \* deep[j]: those with enough confirmations
    pc,         \* where each worker is in its cycle
    budget,     \* iterations or promotions the worker has left
    listed,     \* queued jobs the worker read and has not yet filtered
    job,        \* the job the worker is processing
    txid,       \* the transaction it has just submitted
    polled,     \* rows it read for confirmation: pairs <<job, txid>>
    retrying,   \* retrying[o]: jobs operator o has read as failed_retryable
    crashes     \* crashes so far

store == <<jobs, sent, deep>>
locals == <<pc, budget, listed, job, txid, polled>>
vars == <<jobs, sent, deep, pc, budget, listed, job, txid, polled, retrying, crashes>>

NoJob == [root |-> 0, chain |-> "none"]
PCs == {"idle", "list", "filter", "process", "record", "fail", "poll", "polling"}

TypeOK ==
    /\ jobs \in [Job -> Row]
    /\ sent \in [Job -> Nat]
    /\ deep \in [Job -> SUBSET Nat]
    /\ pc \in [Workers -> PCs]
    /\ budget \in [Workers -> Nat]
    /\ listed \in [Workers -> SUBSET Job]
    /\ job \in [Workers -> Job \cup {NoJob}]
    /\ txid \in [Workers -> Nat]
    /\ polled \in [Workers -> SUBSET (Job \X Nat)]
    /\ retrying \in [Operators -> SUBSET Job]
    /\ crashes \in Nat

Init ==
    /\ jobs = [j \in Job |-> [status |-> "missing", txid |-> NullTx,
                              attempt_count |-> 0, network |-> "invalid"]]
    /\ sent = [j \in Job |-> 0]
    /\ deep = [j \in Job |-> {}]
    /\ pc = [w \in Workers |-> "idle"]
    /\ budget = [w \in Workers |-> 0]
    /\ listed = [w \in Workers |-> {}]
    /\ job = [w \in Workers |-> NoJob]
    /\ txid = [w \in Workers |-> NullTx]
    /\ polled = [w \in Workers |-> {}]
    /\ retrying = [o \in Operators |-> {}]
    /\ crashes = 0

-----------------------------------------------------------------------------
(* The job rows. *)

\* A closed batch inserts the row of one chain (insert_anchor_job).
InsertAnchorJob(j, net) ==
    /\ jobs[j].status = "missing"
    /\ jobs' = [jobs EXCEPT ![j].status = "queued", ![j].network = net]
    /\ UNCHANGED <<sent, deep, locals, retrying, crashes>>

Before(j, k) ==
    \/ j.root < k.root
    \/ j.root = k.root /\ j.chain = "btc" /\ k.chain = "doge"

\* Wrong variant: the query has lost its status filter.
QueuedOrNot == {j \in Job : jobs[j].status # "missing"}

Queued == {j \in Job : jobs[j].status = "queued"}

\* list_ordered_queued_batch_anchor_jobs: the first ListLimit queued rows.
OrderedQueued == {j \in Queued : Cardinality({k \in Queued : Before(k, j)}) < ListLimit}

First(j, S) == j \in S /\ \A k \in S \ {j} : Before(j, k)

\* Wrong variants of Eligible: failed Bitcoin rows are overlooked, a Bitcoin row
\* waits for its mirror.
EligibleUnlessQueued(j) ==
    j.chain = "doge" => jobs[Btc(j.root)].status \notin {"missing", "queued"}
EligibleWithMirror(j) ==
    IF j.chain = "doge" THEN jobs[Btc(j.root)].status = "submitted_unconfirmed"
                        ELSE jobs[Doge(j.root)].status # "missing"

\* _filter_eligible_batch_anchor_jobs for one row: a mirror needs a Bitcoin
\* row that is neither waiting nor failed.
Eligible(j) ==
    j.chain = "doge" =>
        jobs[Btc(j.root)].status \notin {"missing", "queued"} \cup FailedStatuses

\* Wrong variant: the status is not written.
SubmittedStillQueued(row, t) == [row EXCEPT !.txid = t]

\* update_anchor_job_submitted and update_anchor_job_failed, guarded by id only.
Submitted(row, t) == [row EXCEPT !.status = "submitted_unconfirmed", !.txid = t]
Failed(row, status) == [row EXCEPT !.status = status]

\* mark_anchor_job_confirmed, guarded by id only.
Confirmed(row) == [row EXCEPT !.status = "confirmed"]

\* the UPDATE of retry_failed_retryable_batch_anchor_job, guarded by id only.
Requeued(row) ==
    [row EXCEPT !.status = "queued", !.txid = NullTx, !.attempt_count = @ + 1]

-----------------------------------------------------------------------------
(* The drain loop of a worker. *)

StartCycle(w) ==
    /\ pc[w] = "idle"
    /\ pc' = [pc EXCEPT ![w] = "list"]
    /\ budget' = [budget EXCEPT ![w] = MaxSubmissions]
    /\ UNCHANGED <<store, listed, job, txid, polled, retrying, crashes>>

\* One iteration begins with a fresh list of the queued rows.
DrainList(w) ==
    /\ pc[w] = "list"
    /\ budget[w] > 0
    /\ budget' = [budget EXCEPT ![w] = @ - 1]
    /\ listed' = [listed EXCEPT ![w] = OrderedQueued]
    /\ pc' = [pc EXCEPT ![w] = "filter"]
    /\ UNCHANGED <<store, job, txid, polled, retrying, crashes>>

\* The filter reads the Bitcoin row of each mirror in a query of its own.
DrainSkip(w) ==
    /\ pc[w] = "filter"
    /\ \E j \in listed[w] :
        /\ First(j, listed[w])
        /\ ~Eligible(j)
        /\ listed' = [listed EXCEPT ![w] = @ \ {j}]
    /\ UNCHANGED <<store, pc, budget, job, txid, polled, retrying, crashes>>

DrainChoose(w) ==
    /\ pc[w] = "filter"
    /\ \E j \in listed[w] :
        /\ First(j, listed[w])
        /\ Eligible(j)
        /\ job' = [job EXCEPT ![w] = j]
    /\ listed' = [listed EXCEPT ![w] = {}]
    /\ pc' = [pc EXCEPT ![w] = "process"]
    /\ UNCHANGED <<store, budget, txid, polled, retrying, crashes>>

\* The loop ends when nothing is eligible or max_submissions is used up.
DrainEnd(w) ==
    /\ \/ pc[w] = "filter" /\ listed[w] = {}
       \/ pc[w] = "list" /\ budget[w] = 0
    /\ pc' = [pc EXCEPT ![w] = "poll"]
    /\ budget' = [budget EXCEPT ![w] = 0]
    /\ UNCHANGED <<store, listed, job, txid, polled, retrying, crashes>>

\* Rows the drain fails without submitting them.
Refused(net) == net = "invalid" \/ (net = "mainnet" /\ MainnetDisabled)
RefusedStatus(net) == IF net = "invalid" THEN "failed_terminal" ELSE "failed_retryable"

ProcessRefused(w) ==
    /\ pc[w] = "process"
    /\ Refused(jobs[job[w]].network)
    /\ jobs' = [jobs EXCEPT ![job[w]] = Failed(@, RefusedStatus(@.network))]
    /\ pc' = [pc EXCEPT ![w] = "list"]
    /\ job' = [job EXCEPT ![w] = NoJob]
    /\ UNCHANGED <<sent, deep, budget, listed, txid, polled, retrying, crashes>>

\* submit_commitment_for_network returns: the transaction is on the chain.
SubmitReturns(w) ==
    /\ pc[w] = "process"
    /\ ~Refused(jobs[job[w]].network)
    /\ sent' = [sent EXCEPT ![job[w]] = @ + 1]
    /\ txid' = [txid EXCEPT ![w] = sent[job[w]] + 1]
    /\ pc' = [pc EXCEPT ![w] = "record"]
    /\ UNCHANGED <<jobs, deep, budget, listed, job, polled, retrying, crashes>>

\* It raises: nothing was broadcast.
SubmitRaises(w) ==
    /\ pc[w] = "process"
    /\ ~Refused(jobs[job[w]].network)
    /\ pc' = [pc EXCEPT ![w] = "fail"]
    /\ UNCHANGED <<store, budget, listed, job, txid, polled, retrying, crashes>>

\* It raises after the broadcast (the answer was lost): the txid is not known.
SubmitLosesAnswer(w) ==
    /\ pc[w] = "process"
    /\ ~Refused(jobs[job[w]].network)
    /\ sent' = [sent EXCEPT ![job[w]] = @ + 1]
    /\ pc' = [pc EXCEPT ![w] = "fail"]
    /\ UNCHANGED <<jobs, deep, budget, listed, job, txid, polled, retrying, crashes>>

RecordSubmitted(w) ==
    /\ pc[w] = "record"
    /\ jobs' = [jobs EXCEPT ![job[w]] = Submitted(@, txid[w])]
    /\ pc' = [pc EXCEPT ![w] = "list"]
    /\ job' = [job EXCEPT ![w] = NoJob]
    /\ txid' = [txid EXCEPT ![w] = NullTx]
    /\ UNCHANGED <<sent, deep, budget, listed, polled, retrying, crashes>>

\* The except clause also covers the update after a successful submission.
RecordRaises(w) ==
    /\ pc[w] = "record"
    /\ pc' = [pc EXCEPT ![w] = "fail"]
    /\ txid' = [txid EXCEPT ![w] = NullTx]
    /\ UNCHANGED <<store, budget, listed, job, polled, retrying, crashes>>

RecordFailed(w) ==
    /\ pc[w] = "fail"
    /\ jobs' = [jobs EXCEPT ![job[w]] = Failed(@, "failed_retryable")]
    /\ pc' = [pc EXCEPT ![w] = "list"]
    /\ job' = [job EXCEPT ![w] = NoJob]
    /\ UNCHANGED <<sent, deep, budget, listed, txid, polled, retrying, crashes>>

-----------------------------------------------------------------------------
(* The confirmation poll, after the drain of the same cycle. *)

PollList(w) ==
    /\ pc[w] = "poll"
    /\ polled' = [polled EXCEPT ![w] =
            {<<j, jobs[j].txid>> : j \in {k \in Job : jobs[k].status = "submitted_unconfirmed"}}]
    /\ budget' = [budget EXCEPT ![w] = ConfirmCap]
    /\ pc' = [pc EXCEPT ![w] = "polling"]
    /\ UNCHANGED <<store, listed, job, txid, retrying, crashes>>

\* The effective confirmations of a txid against the number required; wrong
\* variant: any known transaction will do.
AnyDepth(j, t) == t \in 1 .. sent[j]
DeepEnough(j, t) == t \in deep[j]

\* The depth asked for is that of the txid read by PollList.
PollPromote(w, j) ==
    /\ pc[w] = "polling"
    /\ budget[w] > 0
    /\ \E t \in 1 .. sent[j] :
        /\ <<j, t>> \in polled[w]
        /\ DeepEnough(j, t)
        /\ polled' = [polled EXCEPT ![w] = @ \ {<<j, t>>}]
    /\ jobs' = [jobs EXCEPT ![j] = Confirmed(@)]
    /\ budget' = [budget EXCEPT ![w] = @ - 1]
    /\ UNCHANGED <<sent, deep, pc, listed, job, txid, retrying, crashes>>

\* Too few confirmations, or the provider gives no answer.
PollSkip(w) ==
    /\ pc[w] = "polling"
    /\ budget[w] > 0
    /\ \E p \in polled[w] : polled' = [polled EXCEPT ![w] = @ \ {p}]
    /\ UNCHANGED <<store, pc, budget, listed, job, txid, retrying, crashes>>

EndCycle(w) ==
    /\ pc[w] = "polling"
    /\ polled[w] = {} \/ budget[w] = 0
    /\ pc' = [pc EXCEPT ![w] = "idle"]
    /\ budget' = [budget EXCEPT ![w] = 0]
    /\ polled' = [polled EXCEPT ![w] = {}]
    /\ UNCHANGED <<store, listed, job, txid, retrying, crashes>>

\* The process dies (or a statement of the error path raises): locals are lost.
Crash(w) ==
    /\ pc[w] # "idle"
    /\ crashes < MaxCrashes
    /\ crashes' = crashes + 1
    /\ pc' = [pc EXCEPT ![w] = "idle"]
    /\ budget' = [budget EXCEPT ![w] = 0]
    /\ listed' = [listed EXCEPT ![w] = {}]
    /\ job' = [job EXCEPT ![w] = NoJob]
    /\ txid' = [txid EXCEPT ![w] = NullTx]
    /\ polled' = [polled EXCEPT ![w] = {}]
    /\ UNCHANGED <<store, retrying>>

-----------------------------------------------------------------------------
(* The operator and the chains. *)

\* The early returns of a retry.
Retryable(j) == jobs[j].status = "failed_retryable"

\* POST /v1/ops/anchor/retry-job reads the row and checks its status ...
RetryRead(o, j) ==
    /\ retrying[o] = {}
    /\ Retryable(j)
    /\ jobs[j].attempt_count < MaxRetries
    /\ retrying' = [retrying EXCEPT ![o] = {j}]
    /\ UNCHANGED <<store, locals, crashes>>

\* ... and re-queues it in a transaction that does not look at it again.
RetryWrite(o) ==
    /\ \E j \in retrying[o] : jobs' = [jobs EXCEPT ![j] = Requeued(@)]
    /\ retrying' = [retrying EXCEPT ![o] = {}]
    /\ UNCHANGED <<sent, deep, locals, crashes>>

\* A broadcast transaction reaches the confirmations its chain requires.
Deepen(j) ==
    /\ \E t \in 1 .. sent[j] :
        /\ t \notin deep[j]
        /\ deep' = [deep EXCEPT ![j] = @ \cup {t}]
    /\ UNCHANGED <<jobs, sent, locals, retrying, crashes>>

-----------------------------------------------------------------------------
Drain(w) ==
    \/ StartCycle(w) \/ DrainList(w) \/ DrainSkip(w) \/ DrainChoose(w) \/ DrainEnd(w)
    \/ ProcessRefused(w)
    \/ SubmitReturns(w) \/ SubmitRaises(w) \/ SubmitLosesAnswer(w)
    \/ RecordSubmitted(w) \/ RecordRaises(w) \/ RecordFailed(w)

Poll(w) == PollList(w) \/ (\E j \in Job : PollPromote(w, j)) \/ PollSkip(w) \/ EndCycle(w)

Next ==
    \/ \E j \in Job, net \in Networks : InsertAnchorJob(j, net)
    \/ \E w \in Workers : Drain(w) \/ Poll(w) \/ Crash(w)
    \/ \E o \in Operators, j \in Job : RetryRead(o, j)
    \/ \E o \in Operators : RetryWrite(o)
    \/ \E j \in Job : Deepen(j)

Spec == Init /\ [][Next]_vars

\* The scheduler starts a cycle again and again and a cycle that runs goes on.
FairSpec == Spec /\ \A w \in Workers : WF_vars(Drain(w) \/ Poll(w))

-----------------------------------------------------------------------------
(* dual_chain_aggregate_phase. *)

IsSubmitted(st) == st \in {"submitted_unconfirmed", "confirmed"}

\* With no mirror row.
PhaseWithoutMirror(bs) ==
    CASE bs = "confirmed" -> "bitcoin_confirmed_mirror_not_enqueued"
      [] bs = "queued" -> "queued"
      [] bs = "submitted_unconfirmed" -> "bitcoin_submitted_mirror_not_enqueued"
      [] bs \in FailedStatuses -> "canonical_failed_retryable"
      [] OTHER -> "partial_or_mixed"

\* The branches that the first matching "if" of the code selects.
Phase(bs, ds) ==
    CASE ds = "missing" -> PhaseWithoutMirror(bs)
      [] bs = "confirmed" /\ ds = "confirmed" -> "fully_anchored"
      [] bs = "confirmed" /\ ds = "queued" -> "bitcoin_confirmed_dogecoin_queued"
      [] bs = "confirmed" /\ ds \in FailedStatuses -> "bitcoin_confirmed_mirror_failed_retryable"
      [] bs = "confirmed" /\ ds = "submitted_unconfirmed" -> "bitcoin_confirmed_dogecoin_pending"
      [] bs = "submitted_unconfirmed" /\ ds = "confirmed" -> "dogecoin_confirmed_bitcoin_pending"
      [] bs = "submitted_unconfirmed" /\ ds = "queued" -> "bitcoin_submitted_dogecoin_queued"
      [] bs = "submitted_unconfirmed" /\ ds \in FailedStatuses -> "bitcoin_submitted_dogecoin_blocked"
      [] bs = "submitted_unconfirmed" /\ ds = "submitted_unconfirmed" -> "both_submitted_unconfirmed"
      [] IsSubmitted(ds) /\ ~IsSubmitted(bs) -> "dogecoin_submitted_bitcoin_not_submitted"
      [] bs \in FailedStatuses /\ ds = "queued" -> "canonical_failed_retryable"
      [] bs = "queued" /\ ds = "queued" -> "queued"
      [] bs = "queued" /\ ds \in FailedStatuses -> "mirror_failed_canonical_pending"
      [] OTHER -> "partial_or_mixed"

PhaseOf(r) == Phase(jobs[Btc(r)].status, jobs[Doge(r)].status)

-----------------------------------------------------------------------------
(* Properties. *)

\* The mirror of a root is never broadcast before the root itself is on the
\* Bitcoin chain, whatever cycles overlap, crash or are retried: the filter of
\* the drain looks at a row that may be stale, but a Bitcoin row it accepts has
\* been submitted at least once.
MirrorAfterCanonical == \A r \in Roots : sent[Doge(r)] > 0 => sent[Btc(r)] > 0

\* A job is broadcast at most once per worker for each attempt the operator
\* granted, plus once for each crash that lost the answer (the drain claims
\* nothing before it submits).
BroadcastsAccountedFor ==
    \A j \in Job :
        sent[j] <= Cardinality(Workers) * (1 + jobs[j].attempt_count) + crashes

\* Without overlapping cycles or operators, a row says confirmed only for a
\* transaction that is deep enough on its chain.
ConfirmedIsDeep ==
    \A j \in Job : jobs[j].status = "confirmed" => jobs[j].txid \in deep[j]

\* Without overlapping cycles or operators, a confirmed row is final: no late
\* drain update, poll or retry rewrites it.
ConfirmedIsFinal ==
    [][\A j \in Job : jobs[j].status = "confirmed" => jobs'[j] = jobs[j]]_jobs

\* Without overlapping cycles or operators, the pairs of row states that arise get the
\* label the runbook's table gives their situation (the row for a failed
\* mirror of an unconfirmed root apart), and never the label of a mirror that
\* is ahead of the canonical chain.
RunbookPhases ==
    \A r \in Roots :
        LET bs == jobs[Btc(r)].status
            ds == jobs[Doge(r)].status
        IN  /\ PhaseOf(r) # "dogecoin_submitted_bitcoin_not_submitted"
            /\ bs = "queued" => PhaseOf(r) = "queued"
            /\ bs \in FailedStatuses => PhaseOf(r) = "canonical_failed_retryable"
            /\ PhaseOf(r) = "fully_anchored" =>
                 /\ jobs[Btc(r)].txid \in deep[Btc(r)]
                 /\ jobs[Doge(r)].txid \in deep[Doge(r)]

\* While the list of queued rows is not cut by its LIMIT, every queued Bitcoin
\* job is eventually attempted,
\* and a queued mirror is attempted once its root is submitted, unless the
\* Bitcoin job leaves that state.
QueuedIsAttempted ==
    \A r \in Roots :
        /\ jobs[Btc(r)].status = "queued" ~> jobs[Btc(r)].status # "queued"
        /\ jobs[Doge(r)].status = "queued" /\ IsSubmitted(jobs[Btc(r)].status)
            ~> \/ jobs[Doge(r)].status # "queued"
               \/ ~IsSubmitted(jobs[Btc(r)].status)
=============================================================================

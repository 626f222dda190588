--------------------------- MODULE ProofAnchorQueue ---------------------------
(***************************************************************************)
(* The queue of paid proof anchors: requests to /agent/anchor enqueue a    *)
(* job in batch mode, an anchor cycle claims the pending jobs, anchors     *)
(* each of them and records the result.                                    *)
(*                                                                         *)
(* claim_batch reads the pending rows outside the transaction that marks   *)
(* them, and works on every row it read, whether or not its guarded update *)
(* changed it.  Nothing leads back to pending.                             *)
(***************************************************************************)
EXTENDS Naturals, FiniteSets

CONSTANTS
    Jobs,       \* job ids: one per Merkle root, commitment and network
    Workers,    \* executions of the anchor cycle that may overlap
    ClaimLimit, \* CLAW_ANCHOR_MAX_PER_BATCH
    MaxCrashes  \* bound: crashes of cycles

ASSUME QueueConstants ==
    IsFiniteSet(Workers) /\ ClaimLimit \in Nat \ {0} /\ MaxCrashes \in Nat

Statuses == {"missing", "pending", "claimed", "done", "failed"}
NoTx == 0     \* anchor_txid NULL; the n-th broadcast of a job is n

VARIABLES
    jobs,      \* the anchor_jobs table of the queue's own database
    sent,      \* sent[j]: transactions that anchor j
    pc,        \* where each worker is in its cycle
    selected,  \* selected[w]: jobs it read and has not anchored yet
    job,       \* job[w]: the job it is processing ({} when none)
    txid,      \* the transaction of that job
    crashes

queueVars == <<jobs, sent, pc, selected, job, txid, crashes>>

PCs == {"idle", "mark_claimed", "next", "anchor", "mark_done", "mark_failed"}

QueueTypeOK ==
    /\ jobs \in [Jobs -> [status : Statuses, txid : Nat]]
    /\ sent \in [Jobs -> Nat]
    /\ pc \in [Workers -> PCs]
    /\ selected \in [Workers -> SUBSET Jobs]
    /\ job \in [Workers -> SUBSET Jobs]
    /\ txid \in [Workers -> Nat]
    /\ crashes \in Nat

QueueInit ==
    /\ jobs = [j \in Jobs |-> [status |-> "missing", txid |-> NoTx]]
    /\ sent = [j \in Jobs |-> 0]
    /\ pc = [w \in Workers |-> "idle"]
    /\ selected = [w \in Workers |-> {}]
    /\ job = [w \in Workers |-> {}]
    /\ txid = [w \in Workers |-> NoTx]
    /\ crashes = 0

Pending == {j \in Jobs : jobs[j].status = "pending"}

\* INSERT OR IGNORE: a request for a job that exists changes nothing.
Enqueue(j) ==
    /\ jobs[j].status = "missing"
    /\ jobs' = [jobs EXCEPT ![j].status = "pending"]
    /\ UNCHANGED <<sent, pc, selected, job, txid, crashes>>

\* The SELECT of claim_batch (which rows a binding LIMIT takes is left open).
Select(w) ==
    /\ pc[w] = "idle"
    /\ Pending # {}
    /\ \E batch \in SUBSET Pending :
        /\ batch = Pending \/ Cardinality(batch) = ClaimLimit
        /\ Cardinality(batch) <= ClaimLimit
        /\ selected' = [selected EXCEPT ![w] = batch]
    /\ pc' = [pc EXCEPT ![w] = "mark_claimed"]
    /\ UNCHANGED <<jobs, sent, job, txid, crashes>>

\* Wrong variant: every pending row is marked, not only those selected.
MarkedAll(batch) == [j \in Jobs |->
    IF jobs[j].status = "pending" THEN [jobs[j] EXCEPT !.status = "claimed"] ELSE jobs[j]]

\* Its UPDATEs, in one transaction, each guarded by status = 'pending'.
Marked(batch) == [j \in Jobs |->
    IF j \in batch /\ jobs[j].status = "pending"
      THEN [jobs[j] EXCEPT !.status = "claimed"] ELSE jobs[j]]

MarkClaimed(w) ==
    /\ pc[w] = "mark_claimed"
    /\ jobs' = Marked(selected[w])
    /\ pc' = [pc EXCEPT ![w] = "next"]
    /\ UNCHANGED <<sent, selected, job, txid, crashes>>

NextJob(w) ==
    /\ pc[w] = "next"
    /\ \E j \in selected[w] :
        /\ job' = [job EXCEPT ![w] = {j}]
        /\ selected' = [selected EXCEPT ![w] = @ \ {j}]
    /\ pc' = [pc EXCEPT ![w] = "anchor"]
    /\ UNCHANGED <<jobs, sent, txid, crashes>>

EndCycle(w) ==
    /\ pc[w] = "next"
    /\ selected[w] = {}
    /\ pc' = [pc EXCEPT ![w] = "idle"]
    /\ UNCHANGED <<jobs, sent, selected, job, txid, crashes>>

\* anchor_proof_fn returns.
AnchorReturns(w) ==
    /\ pc[w] = "anchor"
    /\ \E j \in job[w] :
        /\ sent' = [sent EXCEPT ![j] = @ + 1]
        /\ txid' = [txid EXCEPT ![w] = sent[j] + 1]
    /\ pc' = [pc EXCEPT ![w] = "mark_done"]
    /\ UNCHANGED <<jobs, selected, job, crashes>>

\* It raises, payment required included, with or without a broadcast (or
\* mainnet is disabled).
AnchorRaises(w) ==
    /\ pc[w] = "anchor"
    /\ \/ UNCHANGED sent
       \/ \E j \in job[w] : sent' = [sent EXCEPT ![j] = @ + 1]
    /\ pc' = [pc EXCEPT ![w] = "mark_failed"]
    /\ UNCHANGED <<jobs, selected, job, txid, crashes>>

\* Wrong variant: a failure re-queues the job.
FailedRequeued(row) == [row EXCEPT !.status = "pending"]

\* mark_done and mark_failed are guarded by job id only; a failure keeps the
\* txid it finds.
Done(row, t) == [row EXCEPT !.status = "done", !.txid = t]
Failed(row) == [row EXCEPT !.status = "failed"]

MarkDone(w) ==
    /\ pc[w] = "mark_done"
    /\ \E j \in job[w] : jobs' = [jobs EXCEPT ![j] = Done(@, txid[w])]
    /\ job' = [job EXCEPT ![w] = {}]
    /\ txid' = [txid EXCEPT ![w] = NoTx]
    /\ pc' = [pc EXCEPT ![w] = "next"]
    /\ UNCHANGED <<sent, selected, crashes>>

\* The update raises inside the try.
MarkDoneRaises(w) ==
    /\ pc[w] = "mark_done"
    /\ txid' = [txid EXCEPT ![w] = NoTx]
    /\ pc' = [pc EXCEPT ![w] = "mark_failed"]
    /\ UNCHANGED <<jobs, sent, selected, job, crashes>>

MarkFailed(w) ==
    /\ pc[w] = "mark_failed"
    /\ \E j \in job[w] : jobs' = [jobs EXCEPT ![j] = Failed(@)]
    /\ job' = [job EXCEPT ![w] = {}]
    /\ pc' = [pc EXCEPT ![w] = "next"]
    /\ UNCHANGED <<sent, selected, txid, crashes>>

Crash(w) ==
    /\ pc[w] # "idle"
    /\ crashes < MaxCrashes
    /\ crashes' = crashes + 1
    /\ pc' = [pc EXCEPT ![w] = "idle"]
    /\ selected' = [selected EXCEPT ![w] = {}]
    /\ job' = [job EXCEPT ![w] = {}]
    /\ txid' = [txid EXCEPT ![w] = NoTx]
    /\ UNCHANGED <<jobs, sent>>

-----------------------------------------------------------------------------
Cycle(w) ==
    \/ Select(w) \/ MarkClaimed(w) \/ NextJob(w) \/ EndCycle(w)
    \/ AnchorReturns(w) \/ AnchorRaises(w)
    \/ MarkDone(w) \/ MarkDoneRaises(w) \/ MarkFailed(w)

QueueNext ==
    \/ \E j \in Jobs : Enqueue(j)
    \/ \E w \in Workers : Cycle(w) \/ Crash(w)

QueueSpec == QueueInit /\ [][QueueNext]_queueVars

FairSpec == QueueSpec /\ \A w \in Workers : WF_queueVars(Cycle(w))

-----------------------------------------------------------------------------
(* Properties. *)

\* Each worker broadcasts a job at most once, in all of its cycles, crashes and
\* failures included: with one worker a paid anchor is broadcast at most once.
\* Only a job that was claimed is broadcast, and a result names one of its own
\* broadcasts.
BroadcastsOncePerWorker ==
    \A j \in Jobs :
        /\ sent[j] <= Cardinality(Workers)
        /\ jobs[j].status = "done" => jobs[j].txid \in 1 .. sent[j]
        /\ jobs[j].status \in {"missing", "pending"} => sent[j] = 0 /\ jobs[j].txid = NoTx

\* Unless a cycle crashes, a pending job gets a result.
JobGetsResult ==
    \A j \in Jobs :
        jobs[j].status = "pending" ~> jobs[j].status \in {"done", "failed"} \/ crashes > 0
=============================================================================

---------------------- MODULE ReceiptBatchAnchor_proofs ----------------------
(***************************************************************************)
(* Theorems about ReceiptBatchAnchor, for every number of roots, workers,  *)
(* operators, retries and crashes:                                         *)
(*                                                                         *)
(*   - type correctness (TypeCorrect);                                     *)
(*   - the mirror of a root follows the root (MirrorCorrect);              *)
(*   - broadcasts are accounted for (BroadcastsCorrect);                   *)
(*   - and, while neither cycles nor operators overlap, that a confirmed   *)
(*     row is deep (DeepCorrect) and final (FinalCorrect) and the labels   *)
(*     of the runbook are right (PhasesCorrect).                           *)
(***************************************************************************)
EXTENDS ReceiptBatchAnchor, FiniteSetTheorems, TLAPS

-----------------------------------------------------------------------------
(* Jobs and rows. *)

\* A job is the Bitcoin root or the Dogecoin mirror of its root, and nothing else.
LEMMA JobKinds ==
  /\ NoJob \notin Job
  /\ \A r \in Roots : Btc(r) \in Job /\ Doge(r) \in Job
  /\ \A j \in Job : j = Btc(j.root) \/ j = Doge(j.root)
  /\ \A r, s \in Roots : Btc(r) # Doge(s) /\ (Btc(r) = Btc(s) => r = s) /\ (Doge(r) = Doge(s) => r = s)
  /\ \A r \in Roots : Doge(r).chain = "doge" /\ Doge(r).root = r /\ Btc(r).chain = "btc"
  BY DEF NoJob, Job, Btc, Doge, Chains

\* What the updates of a row do to its columns.
LEMMA RowUpdates ==
  ASSUME NEW row \in Row, NEW t \in Nat, NEW st \in Statuses
  PROVE  /\ Submitted(row, t) \in Row /\ Failed(row, st) \in Row
         /\ Confirmed(row) \in Row /\ Requeued(row) \in Row
         /\ Submitted(row, t).status = "submitted_unconfirmed" /\ Submitted(row, t).txid = t
         /\ Submitted(row, t).attempt_count = row.attempt_count
         /\ Failed(row, st).status = st /\ Failed(row, st).txid = row.txid
         /\ Failed(row, st).attempt_count = row.attempt_count
         /\ Confirmed(row).status = "confirmed" /\ Confirmed(row).txid = row.txid
         /\ Confirmed(row).attempt_count = row.attempt_count
         /\ Requeued(row).status = "queued"
         /\ Requeued(row).attempt_count = row.attempt_count + 1
<1> USE DEF Row, Statuses, FailedStatuses
<1>1. /\ Submitted(row, t) \in Row /\ Submitted(row, t).status = "submitted_unconfirmed"
      /\ Submitted(row, t).txid = t /\ Submitted(row, t).attempt_count = row.attempt_count
  BY DEF Submitted
<1>2. /\ Failed(row, st) \in Row /\ Failed(row, st).status = st
      /\ Failed(row, st).txid = row.txid /\ Failed(row, st).attempt_count = row.attempt_count
  BY DEF Failed
<1>3. /\ Confirmed(row) \in Row /\ Confirmed(row).status = "confirmed"
      /\ Confirmed(row).txid = row.txid /\ Confirmed(row).attempt_count = row.attempt_count
  BY DEF Confirmed
<1>4. /\ Requeued(row) \in Row /\ Requeued(row).status = "queued"
      /\ Requeued(row).attempt_count = row.attempt_count + 1
  <2>1. PICK c \in Nat : c = row.attempt_count + 1
    OBVIOUS
  <2>2. Requeued(row) = [row EXCEPT !.status = "queued", !.txid = 0, !.attempt_count = c]
    BY <2>1 DEF Requeued, NullTx
  <2>3. PICK q \in Row : q = [row EXCEPT !.status = "queued", !.txid = 0]
    OBVIOUS
  <2>4. Requeued(row) = [q EXCEPT !.attempt_count = c] /\ q.status = "queued"
    BY <2>2, <2>3
  <2>5. Requeued(row) \in Row
    BY <2>4
  <2>6. Requeued(row).status = q.status /\ Requeued(row).attempt_count = c
    BY <2>4
  <2> QED
    BY <2>1, <2>4, <2>5, <2>6
<1> QED
  BY <1>1, <1>2, <1>3, <1>4

\* The drain refuses a row with one of the two failed states.
LEMMA RefusedStatuses ==
  \A net : RefusedStatus(net) \in FailedStatuses /\ RefusedStatus(net) \in Statuses
  BY DEF RefusedStatus, FailedStatuses, Statuses

-----------------------------------------------------------------------------
(* Types.  A worker holds a job, a list or polled rows only where its code    *)
(* has them in scope.                                                         *)

Working == {"process", "record", "fail"}

WorkOk(w) ==
    /\ job[w] \in Job <=> pc[w] \in Working
    /\ listed[w] # {} => pc[w] = "filter"
    /\ polled[w] # {} => pc[w] = "polling"

TypeInv == TypeOK /\ \A w \in Workers : WorkOk(w)

\* Every step of the drain keeps the types.
LEMMA TypeDrain ==
  ASSUME TypeInv, NEW w \in Workers, Drain(w)
  PROVE  TypeInv'
<1> USE ConstantsAssumption, JobKinds DEF store, TypeInv, TypeOK, WorkOk, Working, PCs
<1>1. CASE StartCycle(w)
  BY <1>1 DEF StartCycle
<1>2. CASE DrainList(w)
  BY <1>2 DEF DrainList, OrderedQueued, Queued
<1>3. CASE DrainSkip(w)
  BY <1>3 DEF DrainSkip
<1>4. CASE DrainChoose(w)
  BY <1>4 DEF DrainChoose
<1>5. CASE DrainEnd(w)
  BY <1>5 DEF DrainEnd
<1>6. CASE ProcessRefused(w)
  <2>1. Failed(jobs[job[w]], RefusedStatus(jobs[job[w]].network)) \in Row
    BY <1>6, RowUpdates, RefusedStatuses DEF ProcessRefused
  <2> QED
    BY <1>6, <2>1 DEF ProcessRefused
<1>7. CASE SubmitReturns(w)
  BY <1>7 DEF SubmitReturns
<1>8. CASE SubmitRaises(w)
  BY <1>8 DEF SubmitRaises
<1>9. CASE SubmitLosesAnswer(w)
  BY <1>9 DEF SubmitLosesAnswer
<1>10. CASE RecordSubmitted(w)
  <2>1. Submitted(jobs[job[w]], txid[w]) \in Row
    BY <1>10, RowUpdates DEF RecordSubmitted, Statuses
  <2> QED
    BY <1>10, <2>1 DEF RecordSubmitted, NullTx
<1>11. CASE RecordRaises(w)
  BY <1>11 DEF RecordRaises, NullTx
<1>12. CASE RecordFailed(w)
  <2>1. Failed(jobs[job[w]], "failed_retryable") \in Row
    BY <1>12, RowUpdates DEF RecordFailed, Statuses, FailedStatuses
  <2> QED
    BY <1>12, <2>1 DEF RecordFailed
<1> QED
  BY <1>1, <1>2, <1>3, <1>4, <1>5, <1>6, <1>7, <1>8, <1>9, <1>10, <1>11, <1>12 DEF Drain

\* Every step of the poll, and a crash, keep the types.
LEMMA TypePoll ==
  ASSUME TypeInv, NEW w \in Workers, Poll(w) \/ Crash(w)
  PROVE  TypeInv'
<1> USE ConstantsAssumption, JobKinds DEF store, TypeInv, TypeOK, WorkOk, Working, PCs
<1>1. CASE PollList(w)
  <2>1. {<<j, jobs[j].txid>> : j \in {k \in Job : jobs[k].status = "submitted_unconfirmed"}}
          \in SUBSET (Job \X Nat)
    BY DEF Row
  <2> QED
    BY <1>1, <2>1 DEF PollList
<1>2. ASSUME NEW j \in Job, PollPromote(w, j)
      PROVE  TypeInv'
  <2>1. Confirmed(jobs[j]) \in Row
    BY RowUpdates DEF Statuses
  <2> QED
    BY <1>2, <2>1 DEF PollPromote
<1>3. CASE PollSkip(w)
  BY <1>3 DEF PollSkip
<1>4. CASE EndCycle(w)
  BY <1>4 DEF EndCycle
<1>5. CASE Crash(w)
  BY <1>5 DEF Crash, NullTx
<1> QED
  BY <1>1, <1>2, <1>3, <1>4, <1>5 DEF Poll

\* So do the steps of batches, operators and chains.
LEMMA TypeOutside ==
  ASSUME TypeInv,
         \/ \E j \in Job, net \in Networks : InsertAnchorJob(j, net)
         \/ \E o \in Operators, j \in Job : RetryRead(o, j)
         \/ \E o \in Operators : RetryWrite(o)
         \/ \E j \in Job : Deepen(j)
  PROVE  TypeInv'
<1> USE ConstantsAssumption DEF store, locals, TypeInv, TypeOK, WorkOk
<1>1. ASSUME NEW j \in Job, NEW net \in Networks, InsertAnchorJob(j, net)
      PROVE  TypeInv'
  BY <1>1 DEF InsertAnchorJob, Row, Statuses
<1>2. ASSUME NEW o \in Operators, NEW j \in Job, RetryRead(o, j)
      PROVE  TypeInv'
  BY <1>2 DEF RetryRead
<1>3. ASSUME NEW o \in Operators, RetryWrite(o)
      PROVE  TypeInv'
  <2>1. PICK j \in retrying[o] : jobs' = [jobs EXCEPT ![j] = Requeued(@)]
    BY <1>3 DEF RetryWrite
  <2>2. j \in Job /\ Requeued(jobs[j]) \in Row
    BY RowUpdates DEF Statuses
  <2> QED
    BY <1>3, <2>1, <2>2 DEF RetryWrite
<1>4. ASSUME NEW j \in Job, Deepen(j)
      PROVE  TypeInv'
  BY <1>4 DEF Deepen
<1> QED
  BY <1>1, <1>2, <1>3, <1>4

\* The typing invariant is inductive.
LEMMA TypeInit == Init => TypeInv
  BY JobKinds DEF Init, TypeInv, TypeOK, WorkOk, Working, PCs, Row, Statuses, AllNetworks, NullTx

\* Every step keeps the types.
LEMMA TypeStep == TypeInv /\ [Next]_vars => TypeInv'
<1> SUFFICES ASSUME TypeInv, [Next]_vars
             PROVE  TypeInv'
  OBVIOUS
<1>1. CASE UNCHANGED vars
  BY <1>1 DEF vars, TypeInv, TypeOK, WorkOk
<1> QED
  BY <1>1, TypeDrain, TypePoll, TypeOutside DEF Next

\* Tables, chains and workers keep their types in every reachable state.
THEOREM TypeCorrect == Spec => []TypeOK
<1>1. TypeInv => TypeOK
  BY DEF TypeInv
<1> QED
  BY <1>1, TypeInit, TypeStep, PTL DEF Spec

-----------------------------------------------------------------------------
(* The mirror follows the root. *)

\* A Bitcoin row that was submitted stays evidence of a broadcast, however
\* often it is re-queued: that is what lets a worker trust a row it read earlier.
MirrorInv ==
    /\ MirrorAfterCanonical
    /\ \A r \in Roots : IsSubmitted(jobs[Btc(r)].status) => sent[Btc(r)] > 0
    /\ \A w \in Workers, r \in Roots : job[w] = Doge(r) => sent[Btc(r)] > 0
    /\ \A w \in Workers : pc[w] = "record" => sent[job[w]] > 0

-----------------------------------------------------------------------------
(* Broadcasts. *)

Recording(w, j) == pc[w] \in {"record", "fail"} /\ job[w] = j

\* Worker w may broadcast j once more before a crash or another attempt: the
\* row waits and w has not just had its turn, or w has j in hand.
MayBroadcast(w, j) ==
    \/ jobs[j].status \in {"missing", "queued"} /\ ~Recording(w, j)
    \/ j \in listed[w]
    \/ pc[w] = "process" /\ job[w] = j

Open(j) == {w \in Workers : MayBroadcast(w, j)}

Allowed(j) == Cardinality(Workers) * (1 + jobs[j].attempt_count) + crashes

AccountInv == \A j \in Job : sent[j] + Cardinality(Open(j)) <= Allowed(j)

-----------------------------------------------------------------------------
(* One cycle and one operator at a time. *)

NoOverlap ==
    /\ \A v, w \in Workers : v = w
    /\ \A o, p \in Operators : o = p

\* What a worker or an operator has read is still so.
WorkerReads(w) ==
    /\ \A j \in Job : j \in listed[w] \/ job[w] = j => jobs[j].status = "queued"
    /\ \A r \in Roots : job[w] = Doge(r) => IsSubmitted(jobs[Btc(r)].status)
    /\ \A j \in Job, t \in Nat : <<j, t>> \in polled[w] =>
            jobs[j].status = "submitted_unconfirmed" /\ jobs[j].txid = t

OperatorReads(o) == \A j \in retrying[o] : jobs[j].status = "failed_retryable"

\* A mirror row that has been worked on has its root submitted.
MirrorRowFollows(r) ==
    jobs[Doge(r)].status \notin {"missing", "queued"} => IsSubmitted(jobs[Btc(r)].status)

SerialInv ==
    /\ \A w \in Workers : WorkerReads(w)
    /\ \A o \in Operators : OperatorReads(o)
    /\ \A r \in Roots : MirrorRowFollows(r)
    /\ ConfirmedIsDeep

-----------------------------------------------------------------------------
(* What the steps do to the rows. *)

\* The three updates of a worker at its job.
LEMMA UpdateEffect ==
  ASSUME TypeInv, NEW w \in Workers,
         ProcessRefused(w) \/ RecordSubmitted(w) \/ RecordFailed(w)
  PROVE  /\ job[w] \in Job /\ listed[w] = {} /\ polled[w] = {}
         /\ \A k \in Job \ {job[w]} : jobs'[k] = jobs[k]
         /\ jobs'[job[w]].attempt_count = jobs[job[w]].attempt_count
         /\ \/ jobs'[job[w]].status \in FailedStatuses
            \/ /\ pc[w] = "record"
               /\ jobs'[job[w]].status = "submitted_unconfirmed"
               /\ jobs'[job[w]].txid = txid[w]
         /\ pc' = [pc EXCEPT ![w] = "list"] /\ job' = [job EXCEPT ![w] = NoJob]
         /\ sent' = sent /\ deep' = deep /\ listed' = listed /\ polled' = polled
         /\ retrying' = retrying /\ crashes' = crashes
<1> USE DEF TypeInv, TypeOK
<1>0. job[w] \in Job /\ listed[w] = {} /\ polled[w] = {}
  BY DEF WorkOk, Working, ProcessRefused, RecordSubmitted, RecordFailed
<1>1. CASE ProcessRefused(w)
  <2>1. jobs' = [jobs EXCEPT ![job[w]] = Failed(jobs[job[w]], RefusedStatus(jobs[job[w]].network))]
    BY <1>1 DEF ProcessRefused
  <2>2. /\ Failed(jobs[job[w]], RefusedStatus(jobs[job[w]].network)).status \in FailedStatuses
        /\ Failed(jobs[job[w]], RefusedStatus(jobs[job[w]].network)).attempt_count
             = jobs[job[w]].attempt_count
    BY <1>0, RowUpdates, RefusedStatuses
  <2> QED
    BY <1>0, <1>1, <2>1, <2>2 DEF ProcessRefused
<1>2. CASE RecordSubmitted(w)
  <2>1. jobs' = [jobs EXCEPT ![job[w]] = Submitted(jobs[job[w]], txid[w])]
    BY <1>2 DEF RecordSubmitted
  <2>2. /\ Submitted(jobs[job[w]], txid[w]).status = "submitted_unconfirmed"
        /\ Submitted(jobs[job[w]], txid[w]).txid = txid[w]
        /\ Submitted(jobs[job[w]], txid[w]).attempt_count = jobs[job[w]].attempt_count
    <3>1. PICK row \in Row, t \in Nat : row = jobs[job[w]] /\ t = txid[w]
      BY <1>0
    <3>2. /\ Submitted(row, t).status = "submitted_unconfirmed" /\ Submitted(row, t).txid = t
          /\ Submitted(row, t).attempt_count = row.attempt_count
      BY RowUpdates DEF Statuses
    <3> QED
      BY <3>1, <3>2
  <2> QED
    BY <1>0, <1>2, <2>1, <2>2 DEF RecordSubmitted
<1>3. CASE RecordFailed(w)
  BY <1>0, <1>3, RowUpdates DEF RecordFailed, Statuses, FailedStatuses
<1> QED
  BY <1>1, <1>2, <1>3

\* A promotion.
LEMMA PromoteEffect ==
  ASSUME TypeInv, NEW w \in Workers, NEW j \in Job, PollPromote(w, j)
  PROVE  /\ sent[j] > 0
         /\ \E t \in deep[j] : <<j, t>> \in polled[w] /\ polled' = [polled EXCEPT ![w] = @ \ {<<j, t>>}]
         /\ \A k \in Job \ {j} : jobs'[k] = jobs[k]
         /\ jobs'[j].status = "confirmed" /\ jobs'[j].txid = jobs[j].txid
         /\ jobs'[j].attempt_count = jobs[j].attempt_count
         /\ sent' = sent /\ deep' = deep /\ pc' = pc /\ job' = job /\ listed' = listed
         /\ retrying' = retrying /\ crashes' = crashes
<1> USE DEF TypeInv, TypeOK
<1>1. /\ Confirmed(jobs[j]).status = "confirmed" /\ Confirmed(jobs[j]).txid = jobs[j].txid
      /\ Confirmed(jobs[j]).attempt_count = jobs[j].attempt_count
  BY RowUpdates DEF Statuses
<1>2. jobs' = [jobs EXCEPT ![j] = Confirmed(jobs[j])]
  BY DEF PollPromote
<1>3. sent[j] > 0
  BY DEF PollPromote
<1>4. \E t \in deep[j] : <<j, t>> \in polled[w] /\ polled' = [polled EXCEPT ![w] = @ \ {<<j, t>>}]
  BY DEF PollPromote, DeepEnough
<1> QED
  BY <1>1, <1>2, <1>3, <1>4 DEF PollPromote

\* A retry re-queues a row and grants one more attempt.
LEMMA RetryEffect ==
  ASSUME TypeInv, NEW o \in Operators, RetryWrite(o)
  PROVE  \E j \in retrying[o] :
            /\ j \in Job
            /\ \A k \in Job \ {j} : jobs'[k] = jobs[k]
            /\ jobs'[j].status = "queued"
            /\ jobs'[j].attempt_count = jobs[j].attempt_count + 1
<1> USE DEF TypeInv, TypeOK
<1>1. PICK j \in retrying[o] : jobs' = [jobs EXCEPT ![j] = Requeued(jobs[j])]
  BY DEF RetryWrite
<1>2. j \in Job /\ Requeued(jobs[j]).status = "queued"
      /\ Requeued(jobs[j]).attempt_count = jobs[j].attempt_count + 1
  BY RowUpdates DEF Statuses
<1> QED
  BY <1>1, <1>2

\* An insertion queues a missing row.
LEMMA InsertEffect ==
  ASSUME TypeInv, NEW j \in Job, NEW net \in Networks, InsertAnchorJob(j, net)
  PROVE  /\ jobs[j].status = "missing"
         /\ \A k \in Job \ {j} : jobs'[k] = jobs[k]
         /\ jobs'[j].status = "queued" /\ jobs'[j].attempt_count = jobs[j].attempt_count
  BY DEF TypeInv, TypeOK, InsertAnchorJob, Row

-----------------------------------------------------------------------------
(* The mirror follows the root. *)

\* A step keeps the mirror after its root if it sends nothing, submits only
\* roots that were sent, and brings no worker to its record step.
LEMMA MirrorFrame ==
  ASSUME MirrorInv, TypeInv,
         \A j \in Job : sent'[j] = sent[j],
         \A r \in Roots : IsSubmitted(jobs'[Btc(r)].status)
                            => IsSubmitted(jobs[Btc(r)].status) \/ sent[Btc(r)] > 0,
         \A w \in Workers : job'[w] \in {job[w], NoJob},
         \A w \in Workers : pc'[w] = "record" => pc[w] = "record" /\ job'[w] = job[w]
  PROVE  MirrorInv'
<1> USE JobKinds DEF MirrorInv, TypeInv, TypeOK, WorkOk, Working
<1>1. MirrorAfterCanonical'
  BY DEF MirrorAfterCanonical
<1>2. \A r \in Roots : IsSubmitted(jobs'[Btc(r)].status) => sent'[Btc(r)] > 0
  OBVIOUS
<1>3. \A w \in Workers, r \in Roots : job'[w] = Doge(r) => sent'[Btc(r)] > 0
  OBVIOUS
<1>4. \A w \in Workers : pc'[w] = "record" => sent'[job'[w]] > 0
  OBVIOUS
<1> QED
  BY <1>1, <1>2, <1>3, <1>4

\* What can only matter to the mirror: a broadcast, and the choice of a job.
LEMMA MirrorDrain ==
  ASSUME MirrorInv, TypeInv, NEW w \in Workers, Drain(w)
  PROVE  MirrorInv'
<1> USE JobKinds DEF store, TypeInv, TypeOK
<1>1. ASSUME jobs' = jobs, sent' = sent,
             \A v \in Workers : job'[v] \in {job[v], NoJob},
             \A v \in Workers : pc'[v] = "record" => pc[v] = "record" /\ job'[v] = job[v]
      PROVE  MirrorInv'
  BY <1>1, MirrorFrame
<1>2. CASE StartCycle(w) \/ DrainList(w) \/ DrainSkip(w) \/ DrainEnd(w)
  BY <1>1, <1>2 DEF StartCycle, DrainList, DrainSkip, DrainEnd
<1>3. CASE SubmitRaises(w) \/ RecordRaises(w)
  BY <1>1, <1>3 DEF SubmitRaises, RecordRaises
<1>4. CASE DrainChoose(w)
  <2>1. PICK j \in Job : Eligible(j) /\ job' = [job EXCEPT ![w] = j]
    BY <1>4 DEF DrainChoose
  <2>2. jobs' = jobs /\ sent' = sent /\ pc' = [pc EXCEPT ![w] = "process"]
    BY <1>4 DEF DrainChoose
  <2>3. ASSUME NEW r \in Roots, j = Doge(r)
        PROVE  sent[Btc(r)] > 0
    <3>1. jobs[Btc(r)].status \in Statuses
                                    \ ({"missing", "queued"} \cup FailedStatuses)
      BY <2>1, <2>3 DEF Eligible, Row
    <3> QED
      BY <3>1 DEF MirrorInv, IsSubmitted, Statuses
  <2> QED
    BY <2>1, <2>2, <2>3 DEF MirrorInv, MirrorAfterCanonical
<1>5. CASE ProcessRefused(w) \/ RecordSubmitted(w) \/ RecordFailed(w)
  <2>1. ASSUME NEW r \in Roots, IsSubmitted(jobs'[Btc(r)].status)
        PROVE  IsSubmitted(jobs[Btc(r)].status) \/ sent[Btc(r)] > 0
    <3>1. CASE job[w] = Btc(r)
      BY <1>5, <2>1, <3>1, UpdateEffect DEF IsSubmitted, FailedStatuses, MirrorInv
    <3>2. CASE job[w] # Btc(r)
      BY <1>5, <2>1, <3>2, UpdateEffect
    <3> QED
      BY <3>1, <3>2
  <2>2. /\ sent' = sent /\ job' = [job EXCEPT ![w] = NoJob] /\ pc' = [pc EXCEPT ![w] = "list"]
    BY <1>5, UpdateEffect
  <2> QED
    BY <2>1, <2>2, MirrorFrame
<1>6. CASE SubmitReturns(w) \/ SubmitLosesAnswer(w)
  <2>1. job[w] \in Job
    BY <1>6 DEF WorkOk, Working, SubmitReturns, SubmitLosesAnswer
  <2>2. /\ jobs' = jobs /\ job' = job /\ sent' = [sent EXCEPT ![job[w]] = @ + 1]
        /\ \/ pc' = [pc EXCEPT ![w] = "record"]
           \/ pc' = [pc EXCEPT ![w] = "fail"]
    BY <1>6 DEF SubmitReturns, SubmitLosesAnswer
  <2>3. /\ sent'[job[w]] > 0
        /\ \A k \in Job : sent[k] > 0 => sent'[k] > 0
        /\ \A k \in Job : sent'[k] > 0 => sent[k] > 0 \/ k = job[w]
    BY <2>1, <2>2
  <2>4. MirrorAfterCanonical'
    BY <2>3 DEF MirrorInv, MirrorAfterCanonical
  <2>5. \A v \in Workers : pc'[v] = "record" => sent'[job'[v]] > 0
    <3> TAKE v \in Workers
    <3> HAVE pc'[v] = "record"
    <3>1. CASE v = w
      BY <2>2, <2>3, <3>1
    <3>2. CASE v # w
      BY <2>2, <2>3, <3>2 DEF MirrorInv, WorkOk, Working
    <3> QED
      BY <3>1, <3>2
  <2> QED
    BY <2>2, <2>3, <2>4, <2>5 DEF MirrorInv
<1> QED
  BY <1>2, <1>3, <1>4, <1>5, <1>6 DEF Drain

\* The rest of the system broadcasts nothing.
LEMMA MirrorRest ==
  ASSUME MirrorInv, TypeInv,
         \/ \E w \in Workers : Poll(w) \/ Crash(w)
         \/ \E j \in Job, net \in Networks : InsertAnchorJob(j, net)
         \/ \E o \in Operators, j \in Job : RetryRead(o, j)
         \/ \E o \in Operators : RetryWrite(o)
         \/ \E j \in Job : Deepen(j)
  PROVE  MirrorInv'
<1> USE JobKinds DEF store, locals, TypeInv, TypeOK
<1>1. ASSUME jobs' = jobs, sent' = sent,
             \A v \in Workers : job'[v] \in {job[v], NoJob},
             \A v \in Workers : pc'[v] = "record" => pc[v] = "record" /\ job'[v] = job[v]
      PROVE  MirrorInv'
  BY <1>1, MirrorFrame
<1>2. ASSUME NEW w \in Workers, PollList(w) \/ PollSkip(w) \/ EndCycle(w) \/ Crash(w)
      PROVE  MirrorInv'
  BY <1>1, <1>2 DEF PollList, PollSkip, EndCycle, Crash
<1>3. ASSUME NEW w \in Workers, NEW j \in Job, PollPromote(w, j)
      PROVE  MirrorInv'
  <2>1. /\ sent[j] > 0 /\ sent' = sent /\ pc' = pc /\ job' = job
        /\ \A k \in Job \ {j} : jobs'[k] = jobs[k]
    BY <1>3, PromoteEffect
  <2> QED
    BY <2>1, MirrorFrame
<1>4. ASSUME NEW j \in Job, NEW net \in Networks, InsertAnchorJob(j, net)
      PROVE  MirrorInv'
  <2>1. \A k \in Job : IsSubmitted(jobs'[k].status) => IsSubmitted(jobs[k].status)
    BY <1>4, InsertEffect DEF IsSubmitted
  <2> QED
    BY <1>4, <2>1, MirrorFrame DEF InsertAnchorJob
<1>5. ASSUME NEW o \in Operators, NEW j \in Job, RetryRead(o, j)
      PROVE  MirrorInv'
  BY <1>1, <1>5 DEF RetryRead
<1>6. ASSUME NEW o \in Operators, RetryWrite(o)
      PROVE  MirrorInv'
  <2>1. \A k \in Job : IsSubmitted(jobs'[k].status) => IsSubmitted(jobs[k].status)
    BY <1>6, RetryEffect DEF IsSubmitted
  <2> QED
    BY <1>6, <2>1, MirrorFrame DEF RetryWrite
<1>7. ASSUME NEW j \in Job, Deepen(j)
      PROVE  MirrorInv'
  BY <1>1, <1>7 DEF Deepen
<1> QED
  BY <1>2, <1>3, <1>4, <1>5, <1>6, <1>7 DEF Poll

\* Whatever cycles overlap, crash or are retried, the mirror of a root is
\* broadcast only after the root.
THEOREM MirrorCorrect == Spec => []MirrorAfterCanonical
<1>1. Init => MirrorInv
  BY JobKinds DEF Init, MirrorInv, MirrorAfterCanonical, IsSubmitted
<1>2. ASSUME TypeInv, MirrorInv, [Next]_vars
      PROVE  MirrorInv'
  <2>1. CASE UNCHANGED vars
    BY <1>2, <2>1 DEF vars, MirrorInv, MirrorAfterCanonical
  <2> QED
    BY <1>2, <2>1, MirrorDrain, MirrorRest DEF Next
<1>3. MirrorInv => MirrorAfterCanonical
  BY DEF MirrorInv
<1> QED
  BY <1>1, <1>2, <1>3, TypeInit, TypeStep, PTL DEF Spec

-----------------------------------------------------------------------------
(* Broadcasts are accounted for. *)

\* The workers that may broadcast a job are finitely many.
LEMMA OpenIsFinite ==
  ASSUME NEW j \in Job
  PROVE  IsFiniteSet(Open(j)) /\ Cardinality(Open(j)) \in Nat
         /\ Cardinality(Open(j)) <= Cardinality(Workers)
  BY ConstantsAssumption, FS_Subset, FS_CardinalityType DEF Open

\* The same after a step.
LEMMA OpenIsFiniteNext ==
  ASSUME NEW j \in Job
  PROVE  IsFiniteSet(Open(j)') /\ Cardinality(Open(j)') \in Nat
         /\ Cardinality(Open(j)') <= Cardinality(Workers)
  BY ConstantsAssumption, FS_Subset, FS_CardinalityType DEF Open

\* Sets that differ by one worker.
LEMMA OneElementLess ==
  ASSUME NEW S, IsFiniteSet(S), NEW x \in S, NEW T \in SUBSET (S \ {x})
  PROVE  Cardinality(T) <= Cardinality(S) - 1
<1>1. IsFiniteSet(S \ {x}) /\ Cardinality(S \ {x}) = Cardinality(S) - 1
  BY FS_RemoveElement
<1> QED
  BY <1>1, FS_Subset

\* Sets that differ by one worker more.
LEMMA OneElementMore ==
  ASSUME NEW S, IsFiniteSet(S), NEW x, NEW T \in SUBSET (S \cup {x})
  PROVE  Cardinality(T) <= Cardinality(S) + 1
<1>1. /\ IsFiniteSet(S \cup {x})
      /\ Cardinality(S \cup {x}) = IF x \in S THEN Cardinality(S) ELSE Cardinality(S) + 1
  BY FS_AddElement
<1>2. Cardinality(T) <= Cardinality(S \cup {x}) /\ Cardinality(T) \in Nat
  BY <1>1, FS_Subset, FS_CardinalityType
<1>3. Cardinality(S) \in Nat
  BY FS_CardinalityType
<1> QED
  BY <1>1, <1>2, <1>3

\* One attempt more is one broadcast more for each worker.
LEMMA OneAttemptMore ==
  ASSUME NEW n \in Nat, NEW a \in Nat
  PROVE  n * (1 + (a + 1)) = n * (1 + a) + n /\ n * (1 + a) \in Nat
  OBVIOUS

\* What is allowed is a number, and grows with attempts and crashes.
LEMMA AllowedGrows ==
  ASSUME TypeInv, TypeInv', NEW j \in Job
  PROVE  /\ Allowed(j) \in Nat /\ Allowed(j)' \in Nat
         /\ \A d \in Nat : jobs'[j].attempt_count = jobs[j].attempt_count /\ crashes' = crashes + d
                             => Allowed(j)' = Allowed(j) + d
         /\ jobs'[j].attempt_count = jobs[j].attempt_count + 1 /\ crashes' = crashes
                             => Allowed(j)' = Allowed(j) + Cardinality(Workers)
<1>1. PICK n \in Nat : n = Cardinality(Workers)
  BY ConstantsAssumption, FS_CardinalityType
<1>2. PICK a \in Nat : a = jobs[j].attempt_count
  BY DEF TypeInv, TypeOK, Row
<1>3. PICK b \in Nat : b = jobs'[j].attempt_count
  BY DEF TypeInv, TypeOK, Row
<1>4. crashes \in Nat /\ crashes' \in Nat
  BY DEF TypeInv, TypeOK
<1>5. Allowed(j) = n * (1 + a) + crashes /\ Allowed(j)' = n * (1 + b) + crashes'
  BY <1>1, <1>2, <1>3 DEF Allowed
<1>6. n * (1 + a) \in Nat /\ n * (1 + b) \in Nat /\ n * (1 + (a + 1)) = n * (1 + a) + n
  BY OneAttemptMore
<1> QED
  BY <1>1, <1>2, <1>3, <1>4, <1>5, <1>6

\* A step that broadcasts nothing and lets no further worker at the job.
LEMMA AccountFrame ==
  ASSUME TypeInv, TypeInv', AccountInv, NEW j \in Job,
         \A v \in Workers : MayBroadcast(v, j)' => MayBroadcast(v, j),
         sent'[j] = sent[j],
         jobs'[j].attempt_count = jobs[j].attempt_count,
         crashes' = crashes
  PROVE  sent'[j] + Cardinality(Open(j)') <= Allowed(j)'
<1>1. Open(j)' \subseteq Open(j)
  BY DEF Open
<1>2. Cardinality(Open(j)') <= Cardinality(Open(j))
  BY <1>1, OpenIsFinite, FS_Subset
<1>3. sent[j] \in Nat /\ crashes \in Nat
  BY DEF TypeInv, TypeOK
<1>4. Allowed(j)' = Allowed(j) /\ Allowed(j) \in Nat
  <2>1. 0 \in Nat /\ crashes' = crashes + 0
    BY <1>3
  <2> QED
    BY <2>1, AllowedGrows
<1>5. sent[j] + Cardinality(Open(j)) <= Allowed(j)
  BY DEF AccountInv
<1> QED
  BY <1>2, <1>3, <1>4, <1>5, OpenIsFinite, OpenIsFiniteNext

\* A broadcast uses up the turn of its worker.
LEMMA AccountSubmit ==
  ASSUME TypeInv, TypeInv', AccountInv, NEW w \in Workers,
         SubmitReturns(w) \/ SubmitLosesAnswer(w)
  PROVE  AccountInv'
<1> USE DEF TypeInv, TypeOK
<1>1. PICK j \in Job : j = job[w]
  BY DEF WorkOk, Working, SubmitReturns, SubmitLosesAnswer
<1>2. /\ pc[w] = "process" /\ jobs' = jobs /\ job' = job /\ crashes' = crashes /\ listed' = listed
      /\ sent' = [sent EXCEPT ![j] = @ + 1]
      /\ \/ pc' = [pc EXCEPT ![w] = "record"]
         \/ pc' = [pc EXCEPT ![w] = "fail"]
  BY <1>1 DEF SubmitReturns, SubmitLosesAnswer
<1>3. listed[w] = {}
  BY <1>2 DEF WorkOk
<1>4. \A k \in Job, v \in Workers : MayBroadcast(v, k)' => MayBroadcast(v, k)
  BY <1>2 DEF MayBroadcast, Recording
<1>5. ASSUME NEW k \in Job, k # j
      PROVE  sent'[k] + Cardinality(Open(k)') <= Allowed(k)'
  BY <1>2, <1>4, <1>5, AccountFrame
<1>6. sent'[j] + Cardinality(Open(j)') <= Allowed(j)'
  <2>1. w \in Open(j) /\ w \notin Open(j)'
    BY <1>1, <1>2, <1>3 DEF Open, MayBroadcast, Recording
  <2>2. Open(j)' \subseteq Open(j) \ {w}
    BY <1>4, <2>1 DEF Open
  <2>3. Cardinality(Open(j)') <= Cardinality(Open(j)) - 1
    BY <2>1, <2>2, OpenIsFinite, OneElementLess
  <2>4. sent[j] \in Nat /\ sent'[j] = sent[j] + 1
    BY <1>2
  <2>5. Allowed(j)' = Allowed(j) /\ Allowed(j) \in Nat
    <3>1. 0 \in Nat /\ crashes' = crashes + 0
      BY <1>2
    <3> QED
      BY <1>2, <3>1, AllowedGrows
  <2>6. sent[j] + Cardinality(Open(j)) <= Allowed(j)
    BY DEF AccountInv
  <2> QED
    BY <2>3, <2>4, <2>5, <2>6, OpenIsFinite, OpenIsFiniteNext
<1>7. \A k \in Job : sent'[k] + Cardinality(Open(k)') <= Allowed(k)'
  BY <1>5, <1>6
<1> QED
  BY <1>7 DEF AccountInv

\* The other steps of the drain only take workers away from a job.
LEMMA AccountDrain ==
  ASSUME TypeInv, TypeInv', AccountInv, NEW w \in Workers, Drain(w)
  PROVE  AccountInv'
<1> USE DEF store, TypeInv, TypeOK
<1>1. ASSUME sent' = sent, crashes' = crashes,
             \A j \in Job : jobs'[j].attempt_count = jobs[j].attempt_count,
             \A j \in Job, v \in Workers : MayBroadcast(v, j)' => MayBroadcast(v, j)
      PROVE  AccountInv'
  <2>1. \A j \in Job : sent'[j] + Cardinality(Open(j)') <= Allowed(j)'
    BY <1>1, AccountFrame
  <2> QED
    BY <2>1 DEF AccountInv
<1>2. CASE StartCycle(w) \/ DrainSkip(w) \/ DrainEnd(w)
  <2>1. \A j \in Job, v \in Workers : MayBroadcast(v, j)' => MayBroadcast(v, j)
    BY <1>2 DEF StartCycle, DrainSkip, DrainEnd, MayBroadcast, Recording
  <2> QED
    BY <1>1, <1>2, <2>1 DEF StartCycle, DrainSkip, DrainEnd
<1>3. CASE DrainList(w)
  <2>1. \A j \in Job, v \in Workers : MayBroadcast(v, j)' => MayBroadcast(v, j)
    <3>1. OrderedQueued \subseteq {j \in Job : jobs[j].status = "queued"}
      BY DEF OrderedQueued, Queued
    <3> QED
      BY <1>3, <3>1 DEF DrainList, MayBroadcast, Recording
  <2> QED
    BY <1>1, <1>3, <2>1 DEF DrainList
<1>4. CASE DrainChoose(w)
  <2>1. \A j \in Job, v \in Workers : MayBroadcast(v, j)' => MayBroadcast(v, j)
    BY <1>4 DEF DrainChoose, First, MayBroadcast, Recording
  <2> QED
    BY <1>1, <1>4, <2>1 DEF DrainChoose
<1>5. CASE SubmitRaises(w) \/ RecordRaises(w)
  <2>1. \A j \in Job, v \in Workers : MayBroadcast(v, j)' => MayBroadcast(v, j)
    BY <1>5 DEF SubmitRaises, RecordRaises, MayBroadcast, Recording
  <2> QED
    BY <1>1, <1>5, <2>1 DEF SubmitRaises, RecordRaises
<1>6. CASE ProcessRefused(w) \/ RecordSubmitted(w) \/ RecordFailed(w)
  <2>1. PICK j \in Job : j = job[w]
    BY <1>6, UpdateEffect
  <2>2. /\ listed[w] = {} /\ listed' = listed
        /\ \A k \in Job \ {j} : jobs'[k] = jobs[k]
        /\ jobs'[j].attempt_count = jobs[j].attempt_count
        /\ jobs'[j].status \notin {"missing", "queued"}
        /\ pc' = [pc EXCEPT ![w] = "list"] /\ job' = [job EXCEPT ![w] = NoJob]
        /\ sent' = sent /\ crashes' = crashes
    BY <1>6, <2>1, UpdateEffect DEF FailedStatuses
  <2>3. \A k \in Job : jobs'[k].attempt_count = jobs[k].attempt_count
    BY <2>2
  <2>4. ASSUME NEW k \in Job, NEW v \in Workers, MayBroadcast(v, k)'
        PROVE  MayBroadcast(v, k)
    <3>1. CASE v = w
      BY <2>1, <2>2, <2>4, <3>1 DEF MayBroadcast, Recording
    <3>2. CASE v # w
      BY <2>1, <2>2, <2>4, <3>2 DEF MayBroadcast, Recording
    <3> QED
      BY <3>1, <3>2
  <2> QED
    BY <1>1, <2>2, <2>3, <2>4
<1> QED
  BY <1>2, <1>3, <1>4, <1>5, <1>6, AccountSubmit DEF Drain

\* A crash loses one turn that had been used, and is counted.
LEMMA AccountCrash ==
  ASSUME TypeInv, TypeInv', AccountInv, NEW w \in Workers, Crash(w)
  PROVE  AccountInv'
<1> USE DEF store, TypeInv, TypeOK
<1>1. ASSUME NEW j \in Job
      PROVE  sent'[j] + Cardinality(Open(j)') <= Allowed(j)'
  <2>1. Open(j)' \subseteq Open(j) \cup {w}
    BY DEF Crash, Open, MayBroadcast, Recording
  <2>2. Cardinality(Open(j)') <= Cardinality(Open(j)) + 1
    BY <2>1, OpenIsFinite, OneElementMore
  <2>3. Allowed(j)' = Allowed(j) + 1 /\ Allowed(j) \in Nat
    <3>1. 1 \in Nat /\ crashes' = crashes + 1 /\ jobs' = jobs
      BY DEF Crash
    <3> QED
      BY <3>1, AllowedGrows
  <2>4. sent' = sent /\ sent[j] \in Nat
    BY DEF Crash
  <2>5. sent[j] + Cardinality(Open(j)) <= Allowed(j)
    BY DEF AccountInv
  <2> QED
    BY <2>2, <2>3, <2>4, <2>5, OpenIsFinite, OpenIsFiniteNext
<1> QED
  BY <1>1 DEF AccountInv

\* A retry gives every worker a turn, and is counted as an attempt.
LEMMA AccountRetry ==
  ASSUME TypeInv, TypeInv', AccountInv, NEW o \in Operators, RetryWrite(o)
  PROVE  AccountInv'
<1> USE DEF TypeInv, TypeOK
<1>1. PICK j \in Job : /\ \A k \in Job \ {j} : jobs'[k] = jobs[k]
                       /\ jobs'[j].attempt_count = jobs[j].attempt_count + 1
  BY RetryEffect
<1>2. /\ sent' = sent /\ crashes' = crashes
      /\ pc' = pc /\ listed' = listed /\ job' = job
  BY DEF RetryWrite, locals
<1>3. ASSUME NEW k \in Job, k # j
      PROVE  sent'[k] + Cardinality(Open(k)') <= Allowed(k)'
  <2>1. \A v \in Workers : MayBroadcast(v, k)' => MayBroadcast(v, k)
    BY <1>1, <1>2, <1>3 DEF MayBroadcast, Recording
  <2> QED
    BY <1>1, <1>2, <1>3, <2>1, AccountFrame
<1>4. sent'[j] + Cardinality(Open(j)') <= Allowed(j)'
  <2>1. Allowed(j)' = Allowed(j) + Cardinality(Workers) /\ Allowed(j) \in Nat
    BY <1>1, <1>2, AllowedGrows
  <2>2. sent[j] + Cardinality(Open(j)) <= Allowed(j)
    BY DEF AccountInv
  <2>3. sent[j] \in Nat /\ Cardinality(Workers) \in Nat
    BY ConstantsAssumption, FS_CardinalityType
  <2> QED
    BY <1>2, <2>1, <2>2, <2>3, OpenIsFinite, OpenIsFiniteNext
<1>5. \A k \in Job : sent'[k] + Cardinality(Open(k)') <= Allowed(k)'
  BY <1>3, <1>4
<1> QED
  BY <1>5 DEF AccountInv

\* The remaining steps broadcast nothing and give nobody a turn.
LEMMA AccountRest ==
  ASSUME TypeInv, TypeInv', AccountInv,
         \/ \E w \in Workers : Poll(w)
         \/ \E j \in Job, net \in Networks : InsertAnchorJob(j, net)
         \/ \E o \in Operators, j \in Job : RetryRead(o, j)
         \/ \E j \in Job : Deepen(j)
         \/ UNCHANGED vars
  PROVE  AccountInv'
<1> USE DEF store, locals, TypeInv, TypeOK
<1>1. ASSUME sent' = sent, crashes' = crashes,
             \A j \in Job : jobs'[j].attempt_count = jobs[j].attempt_count,
             \A j \in Job, v \in Workers : MayBroadcast(v, j)' => MayBroadcast(v, j)
      PROVE  AccountInv'
  <2>1. \A j \in Job : sent'[j] + Cardinality(Open(j)') <= Allowed(j)'
    BY <1>1, AccountFrame
  <2> QED
    BY <2>1 DEF AccountInv
<1>2. ASSUME NEW w \in Workers, PollList(w) \/ PollSkip(w) \/ EndCycle(w)
      PROVE  AccountInv'
  <2>1. \A j \in Job, v \in Workers : MayBroadcast(v, j)' => MayBroadcast(v, j)
    BY <1>2 DEF PollList, PollSkip, EndCycle, MayBroadcast, Recording
  <2> QED
    BY <1>1, <1>2, <2>1 DEF PollList, PollSkip, EndCycle
<1>3. ASSUME NEW w \in Workers, NEW j \in Job, PollPromote(w, j)
      PROVE  AccountInv'
  <2>1. /\ \A k \in Job \ {j} : jobs'[k] = jobs[k]
        /\ jobs'[j].status = "confirmed" /\ jobs'[j].attempt_count = jobs[j].attempt_count
        /\ sent' = sent /\ pc' = pc /\ job' = job /\ listed' = listed /\ crashes' = crashes
    BY <1>3, PromoteEffect
  <2>2. \A k \in Job, v \in Workers : MayBroadcast(v, k)' => MayBroadcast(v, k)
    BY <2>1 DEF MayBroadcast, Recording
  <2>3. \A k \in Job : jobs'[k].attempt_count = jobs[k].attempt_count
    BY <2>1
  <2> QED
    BY <1>1, <2>1, <2>2, <2>3
<1>4. ASSUME NEW j \in Job, NEW net \in Networks, InsertAnchorJob(j, net)
      PROVE  AccountInv'
  <2>1. /\ \A k \in Job \ {j} : jobs'[k] = jobs[k]
        /\ jobs[j].status = "missing" /\ jobs'[j].attempt_count = jobs[j].attempt_count
    BY <1>4, InsertEffect
  <2>2. /\ sent' = sent /\ crashes' = crashes /\ pc' = pc /\ job' = job /\ listed' = listed
    BY <1>4 DEF InsertAnchorJob
  <2>3. \A k \in Job, v \in Workers : MayBroadcast(v, k)' => MayBroadcast(v, k)
    BY <2>1, <2>2 DEF MayBroadcast, Recording
  <2>4. \A k \in Job : jobs'[k].attempt_count = jobs[k].attempt_count
    BY <2>1
  <2> QED
    BY <1>1, <2>2, <2>3, <2>4
<1>5. CASE \/ \E o \in Operators, j \in Job : RetryRead(o, j)
           \/ \E j \in Job : Deepen(j)
           \/ UNCHANGED vars
  <2>1. jobs' = jobs /\ sent' = sent /\ crashes' = crashes /\ pc' = pc /\ job' = job
        /\ listed' = listed
    BY <1>5 DEF RetryRead, Deepen, vars
  <2>2. \A k \in Job, v \in Workers : MayBroadcast(v, k)' => MayBroadcast(v, k)
    BY <2>1 DEF MayBroadcast, Recording
  <2> QED
    BY <1>1, <2>1, <2>2
<1> QED
  BY <1>2, <1>3, <1>4, <1>5 DEF Poll

\* A job is broadcast at most once per worker for each attempt, plus once for
\* each crash, however the cycles and the operators overlap.
THEOREM BroadcastsCorrect == Spec => []BroadcastsAccountedFor
<1>1. Init => AccountInv
  <2> SUFFICES ASSUME Init
               PROVE  AccountInv
    OBVIOUS
  <2>1. TypeInv
    BY TypeInit
  <2>2. ASSUME NEW j \in Job
        PROVE  sent[j] + Cardinality(Open(j)) <= Allowed(j)
    <3>1. PICK n \in Nat : n = Cardinality(Workers)
      BY ConstantsAssumption, FS_CardinalityType
    <3>2. sent[j] = 0 /\ jobs[j].attempt_count = 0 /\ crashes = 0
      BY DEF Init
    <3>3. Allowed(j) = n * (1 + 0) + 0
      BY <3>1, <3>2 DEF Allowed
    <3>4. Allowed(j) = n
      BY <3>3
    <3> QED
      BY <3>1, <3>2, <3>4, OpenIsFinite
  <2> QED
    BY <2>2 DEF AccountInv
<1>2. ASSUME TypeInv, TypeInv', AccountInv, [Next]_vars
      PROVE  AccountInv'
  BY <1>2, AccountDrain, AccountCrash, AccountRetry, AccountRest DEF Next
<1>3. ASSUME TypeInv, AccountInv
      PROVE  BroadcastsAccountedFor
  <2>1. ASSUME NEW j \in Job
        PROVE  sent[j] <= Allowed(j)
    <3>1. sent[j] \in Nat /\ Allowed(j) \in Int
      <4>1. PICK n \in Nat : n = Cardinality(Workers)
        BY ConstantsAssumption, FS_CardinalityType
      <4>2. PICK a \in Nat : a = jobs[j].attempt_count
        BY <1>3 DEF TypeInv, TypeOK, Row
      <4>3. n * (1 + a) \in Nat
        BY OneAttemptMore
      <4> QED
        BY <1>3, <4>1, <4>2, <4>3 DEF Allowed, TypeInv, TypeOK
    <3> QED
      BY <1>3, <3>1, OpenIsFinite DEF AccountInv
  <2> QED
    BY <2>1 DEF BroadcastsAccountedFor, Allowed
<1> QED
  BY <1>1, <1>2, <1>3, TypeInit, TypeStep, PTL DEF Spec

-----------------------------------------------------------------------------
(* One cycle and one operator at a time. *)

\* Steps that touch no row, no confirmation and no operator keep what concerns
\* the rows alone.
LEMMA SerialFrame ==
  ASSUME SerialInv, jobs' = jobs, deep' = deep, retrying' = retrying,
         \A w \in Workers : WorkerReads(w)'
  PROVE  SerialInv'
<1>1. \A o \in Operators : OperatorReads(o)'
  BY DEF SerialInv, OperatorReads
<1>2. \A r \in Roots : MirrorRowFollows(r)'
  BY DEF SerialInv, MirrorRowFollows
<1>3. ConfirmedIsDeep'
  BY DEF SerialInv, ConfirmedIsDeep
<1> QED
  BY <1>1, <1>2, <1>3 DEF SerialInv

\* An update of the drain at the queued row of its job.
LEMMA SerialUpdate ==
  ASSUME NoOverlap, TypeInv, SerialInv, NEW w \in Workers,
         ProcessRefused(w) \/ RecordSubmitted(w) \/ RecordFailed(w)
  PROVE  SerialInv'
<1> USE DEF TypeInv, TypeOK
<1>1. PICK j \in Job : j = job[w]
  BY UpdateEffect
<1>2. /\ listed'[w] = {} /\ polled'[w] = {} /\ job'[w] = NoJob
      /\ \A k \in Job \ {j} : jobs'[k] = jobs[k]
      /\ jobs'[j].status \in FailedStatuses \cup {"submitted_unconfirmed"}
      /\ deep' = deep /\ retrying' = retrying
  BY <1>1, UpdateEffect
<1>3. jobs[j].status = "queued" /\ \A r \in Roots : j = Doge(r) => IsSubmitted(jobs[Btc(r)].status)
  BY <1>1 DEF SerialInv, WorkerReads
<1>4. \A v \in Workers : WorkerReads(v)'
  BY <1>2, JobKinds DEF NoOverlap, WorkerReads
<1>5. \A o \in Operators : OperatorReads(o)'
  BY <1>2, <1>3 DEF SerialInv, OperatorReads
<1>6. ASSUME NEW r \in Roots
      PROVE  MirrorRowFollows(r)'
  <2>1. CASE j = Doge(r)
    BY <1>2, <1>3, <2>1, JobKinds DEF MirrorRowFollows
  <2>2. CASE j = Btc(r)
    <3>1. jobs[Doge(r)].status \in {"missing", "queued"}
      BY <1>3, <2>2 DEF SerialInv, MirrorRowFollows, IsSubmitted
    <3> QED
      BY <1>2, <2>2, <3>1, JobKinds DEF MirrorRowFollows
  <2>3. CASE j # Doge(r) /\ j # Btc(r)
    BY <1>2, <2>3, JobKinds DEF SerialInv, MirrorRowFollows
  <2> QED
    BY <2>1, <2>2, <2>3
<1>7. ConfirmedIsDeep'
  BY <1>2 DEF SerialInv, ConfirmedIsDeep, FailedStatuses
<1> QED
  BY <1>4, <1>5, <1>6, <1>7 DEF SerialInv

\* The other steps of the drain read rows, or broadcast.
LEMMA SerialDrain ==
  ASSUME NoOverlap, TypeInv, SerialInv, NEW w \in Workers, Drain(w)
  PROVE  SerialInv'
<1> USE JobKinds DEF store, TypeInv, TypeOK
<1>0. WorkerReads(w)
  BY DEF SerialInv
<1>1. ASSUME jobs' = jobs, deep' = deep, retrying' = retrying, WorkerReads(w)'
      PROVE  SerialInv'
  <2>1. \A v \in Workers : WorkerReads(v)'
    BY <1>1 DEF NoOverlap
  <2> QED
    BY <1>1, <2>1, SerialFrame
<1>2. CASE StartCycle(w) \/ DrainSkip(w) \/ DrainEnd(w)
  <2>1. WorkerReads(w)'
    BY <1>0, <1>2 DEF StartCycle, DrainSkip, DrainEnd, WorkerReads
  <2> QED
    BY <1>1, <1>2, <2>1 DEF StartCycle, DrainSkip, DrainEnd
<1>3. CASE DrainList(w)
  <2>1. OrderedQueued \subseteq {j \in Job : jobs[j].status = "queued"}
    BY DEF OrderedQueued, Queued
  <2>2. WorkerReads(w)'
    BY <1>0, <1>3, <2>1 DEF DrainList, WorkerReads
  <2> QED
    BY <1>1, <1>3, <2>2 DEF DrainList
<1>4. CASE DrainChoose(w)
  <2>1. PICK j \in listed[w] : Eligible(j) /\ job' = [job EXCEPT ![w] = j]
    BY <1>4 DEF DrainChoose
  <2>2. jobs' = jobs /\ polled' = polled /\ listed' = [listed EXCEPT ![w] = {}]
    BY <1>4 DEF DrainChoose
  <2>3. j \in Job /\ jobs[j].status = "queued"
    BY <1>0, <2>1 DEF WorkerReads
  <2>4. ASSUME NEW r \in Roots, j = Doge(r)
        PROVE  IsSubmitted(jobs[Btc(r)].status)
    BY <2>1, <2>4 DEF Eligible, IsSubmitted, Row, Statuses
  <2>5. WorkerReads(w)'
    BY <1>0, <2>1, <2>2, <2>3, <2>4 DEF WorkerReads
  <2> QED
    BY <1>1, <1>4, <2>5 DEF DrainChoose
<1>5. CASE SubmitReturns(w) \/ SubmitLosesAnswer(w) \/ SubmitRaises(w) \/ RecordRaises(w)
  <2>1. WorkerReads(w)'
    BY <1>0, <1>5 DEF SubmitReturns, SubmitLosesAnswer, SubmitRaises, RecordRaises, WorkerReads
  <2> QED
    BY <1>1, <1>5, <2>1 DEF SubmitReturns, SubmitLosesAnswer, SubmitRaises, RecordRaises
<1> QED
  BY <1>2, <1>3, <1>4, <1>5, SerialUpdate DEF Drain

\* A promotion confirms the transaction that the row still names.
LEMMA SerialPromote ==
  ASSUME NoOverlap, TypeInv, SerialInv, NEW w \in Workers, NEW j \in Job, PollPromote(w, j)
  PROVE  SerialInv'
<1> USE DEF TypeInv, TypeOK
<1>1. PICK t \in deep[j] : <<j, t>> \in polled[w] /\ polled' = [polled EXCEPT ![w] = @ \ {<<j, t>>}]
  BY PromoteEffect
<1>2. /\ \A k \in Job \ {j} : jobs'[k] = jobs[k]
      /\ jobs'[j].status = "confirmed" /\ jobs'[j].txid = jobs[j].txid
      /\ deep' = deep /\ job' = job /\ listed' = listed /\ retrying' = retrying
  BY PromoteEffect
<1>3. t \in Nat /\ jobs[j].status = "submitted_unconfirmed" /\ jobs[j].txid = t
  <2>1. t \in Nat
    OBVIOUS
  <2> QED
    BY <1>1, <2>1 DEF SerialInv, WorkerReads
<1>4. job[w] \notin Job /\ listed[w] = {}
  BY DEF WorkOk, Working, PollPromote
<1>5. WorkerReads(w)'
  <2>1. ASSUME NEW k \in Job, NEW u \in Nat, <<k, u>> \in polled'[w]
        PROVE  jobs'[k].status = "submitted_unconfirmed" /\ jobs'[k].txid = u
    <3>1. <<k, u>> \in polled[w] /\ <<k, u>> # <<j, t>>
      BY <1>1, <2>1
    <3>2. jobs[k].status = "submitted_unconfirmed" /\ jobs[k].txid = u
      BY <3>1 DEF SerialInv, WorkerReads
    <3>3. k # j
      BY <1>3, <3>1, <3>2
    <3> QED
      BY <1>2, <3>2, <3>3
  <2> QED
    BY <1>2, <1>4, <2>1, JobKinds DEF WorkerReads
<1>6. \A v \in Workers : WorkerReads(v)'
  BY <1>5 DEF NoOverlap
<1>7. \A o \in Operators : OperatorReads(o)'
  BY <1>2, <1>3 DEF SerialInv, OperatorReads
<1>8. ASSUME NEW r \in Roots
      PROVE  MirrorRowFollows(r)'
  <2>1. MirrorRowFollows(r)
    BY DEF SerialInv
  <2>2. CASE j = Doge(r)
    <3>1. IsSubmitted(jobs[Btc(r)].status)
      BY <1>3, <2>1, <2>2 DEF MirrorRowFollows
    <3> QED
      BY <1>2, <2>2, <3>1, JobKinds DEF MirrorRowFollows
  <2>3. CASE j = Btc(r)
    BY <1>2, <2>3 DEF MirrorRowFollows, IsSubmitted
  <2>4. CASE j # Doge(r) /\ j # Btc(r)
    BY <1>2, <2>1, <2>4, JobKinds DEF MirrorRowFollows
  <2> QED
    BY <2>2, <2>3, <2>4
<1>9. ConfirmedIsDeep'
  BY <1>1, <1>2, <1>3 DEF SerialInv, ConfirmedIsDeep
<1> QED
  BY <1>6, <1>7, <1>8, <1>9 DEF SerialInv

\* A retry and an insertion queue rows that no worker has read.
LEMMA SerialQueue ==
  ASSUME NoOverlap, TypeInv, SerialInv,
         \/ \E j \in Job, net \in Networks : InsertAnchorJob(j, net)
         \/ \E o \in Operators : RetryWrite(o)
  PROVE  SerialInv'
<1> USE DEF TypeInv, TypeOK
<1>1. PICK j \in Job :
         /\ jobs[j].status \in {"missing", "failed_retryable"} /\ jobs'[j].status = "queued"
         /\ \A k \in Job \ {j} : jobs'[k] = jobs[k]
         /\ \A o \in Operators : j \notin retrying'[o] /\ retrying'[o] \subseteq retrying[o]
  <2>1. ASSUME NEW j \in Job, NEW net \in Networks, InsertAnchorJob(j, net)
        PROVE  /\ jobs[j].status \in {"missing", "failed_retryable"} /\ jobs'[j].status = "queued"
               /\ \A k \in Job \ {j} : jobs'[k] = jobs[k]
               /\ \A o \in Operators : j \notin retrying'[o] /\ retrying'[o] \subseteq retrying[o]
    <3>1. jobs[j].status = "missing" /\ retrying' = retrying
      BY <2>1 DEF InsertAnchorJob
    <3>2. \A o \in Operators : j \notin retrying[o]
      BY <3>1 DEF SerialInv, OperatorReads
    <3> QED
      BY <2>1, <3>1, <3>2, InsertEffect
  <2>2. ASSUME NEW o \in Operators, RetryWrite(o)
        PROVE  \E j \in Job :
                 /\ jobs[j].status \in {"missing", "failed_retryable"} /\ jobs'[j].status = "queued"
                 /\ \A k \in Job \ {j} : jobs'[k] = jobs[k]
                 /\ \A p \in Operators : j \notin retrying'[p] /\ retrying'[p] \subseteq retrying[p]
    <3>1. PICK j \in retrying[o] :
            j \in Job /\ jobs'[j].status = "queued" /\ \A k \in Job \ {j} : jobs'[k] = jobs[k]
      BY <2>2, RetryEffect
    <3>2. jobs[j].status = "failed_retryable"
      BY DEF SerialInv, OperatorReads
    <3>3. \A p \in Operators : retrying'[p] = {}
      BY <2>2 DEF RetryWrite, NoOverlap
    <3> QED
      BY <3>1, <3>2, <3>3
  <2> QED
    BY <2>1, <2>2
<1>2. /\ deep' = deep /\ job' = job /\ listed' = listed /\ polled' = polled
  BY DEF InsertAnchorJob, RetryWrite, locals
<1>3. ASSUME NEW w \in Workers
      PROVE  WorkerReads(w)'
  <2>1. WorkerReads(w)
    BY DEF SerialInv
  <2>2. ASSUME NEW r \in Roots, job[w] = Doge(r)
        PROVE  IsSubmitted(jobs'[Btc(r)].status)
    BY <1>1, <2>1, <2>2, JobKinds DEF WorkerReads, IsSubmitted
  <2>3. ASSUME NEW k \in Job, NEW t \in Nat, <<k, t>> \in polled[w]
        PROVE  jobs'[k].status = "submitted_unconfirmed" /\ jobs'[k].txid = t
    BY <1>1, <2>1, <2>3 DEF WorkerReads
  <2> QED
    BY <1>1, <1>2, <2>1, <2>2, <2>3 DEF WorkerReads
<1>4. \A o \in Operators : OperatorReads(o)'
  BY <1>1 DEF SerialInv, OperatorReads
<1>5. ASSUME NEW r \in Roots
      PROVE  MirrorRowFollows(r)'
  <2>1. MirrorRowFollows(r)
    BY DEF SerialInv
  <2>2. CASE j = Doge(r)
    BY <1>1, <2>2 DEF MirrorRowFollows
  <2>3. CASE j = Btc(r)
    BY <1>1, <2>1, <2>3, JobKinds DEF MirrorRowFollows, IsSubmitted
  <2>4. CASE j # Doge(r) /\ j # Btc(r)
    BY <1>1, <2>1, <2>4, JobKinds DEF MirrorRowFollows
  <2> QED
    BY <2>2, <2>3, <2>4
<1>6. ConfirmedIsDeep'
  BY <1>1, <1>2 DEF SerialInv, ConfirmedIsDeep
<1> QED
  BY <1>3, <1>4, <1>5, <1>6 DEF SerialInv

\* The remaining steps.
LEMMA SerialRest ==
  ASSUME NoOverlap, TypeInv, SerialInv,
         \/ \E w \in Workers : PollList(w) \/ PollSkip(w) \/ EndCycle(w) \/ Crash(w)
         \/ \E o \in Operators, j \in Job : RetryRead(o, j)
         \/ \E j \in Job : Deepen(j)
         \/ UNCHANGED vars
  PROVE  SerialInv'
<1> USE JobKinds DEF store, locals, TypeInv, TypeOK
<1>1. ASSUME NEW w \in Workers, PollList(w) \/ PollSkip(w) \/ EndCycle(w) \/ Crash(w)
      PROVE  SerialInv'
  <2>1. WorkerReads(w)
    BY DEF SerialInv
  <2>2. PollList(w) => WorkerReads(w)'
    BY <2>1 DEF PollList, WorkerReads
  <2>3. PollSkip(w) \/ EndCycle(w) \/ Crash(w) => WorkerReads(w)'
    BY <2>1 DEF PollSkip, EndCycle, Crash, WorkerReads
  <2>4. WorkerReads(w)'
    BY <1>1, <2>2, <2>3
  <2>5. \A v \in Workers : WorkerReads(v)'
    BY <2>4 DEF NoOverlap
  <2> QED
    BY <1>1, <2>5, SerialFrame DEF PollList, PollSkip, EndCycle, Crash
<1>2. ASSUME NEW o \in Operators, NEW j \in Job, RetryRead(o, j)
      PROVE  SerialInv'
  <2>1. jobs' = jobs /\ deep' = deep /\ jobs[j].status = "failed_retryable"
        /\ retrying' = [retrying EXCEPT ![o] = {j}]
        /\ UNCHANGED <<listed, job, polled>>
    BY <1>2 DEF RetryRead, Retryable
  <2> QED
    BY <2>1 DEF SerialInv, WorkerReads, OperatorReads, MirrorRowFollows, ConfirmedIsDeep
<1>3. ASSUME NEW j \in Job, Deepen(j)
      PROVE  SerialInv'
  <2>1. /\ jobs' = jobs /\ retrying' = retrying /\ UNCHANGED <<listed, job, polled>>
        /\ \A k \in Job : deep[k] \subseteq deep'[k]
    BY <1>3 DEF Deepen
  <2> QED
    BY <2>1 DEF SerialInv, WorkerReads, OperatorReads, MirrorRowFollows, ConfirmedIsDeep
<1>4. CASE UNCHANGED vars
  BY <1>4 DEF vars, SerialInv, WorkerReads, OperatorReads, MirrorRowFollows, ConfirmedIsDeep
<1> QED
  BY <1>1, <1>2, <1>3, <1>4

\* The invariant of serial execution is inductive.
LEMMA SerialStep ==
  ASSUME NoOverlap
  PROVE  TypeInv /\ SerialInv /\ [Next]_vars => SerialInv'
  BY SerialDrain, SerialPromote, SerialQueue, SerialRest DEF Next, Poll

\* It holds in every execution without overlap.
LEMMA SerialInvariance ==
  ASSUME NoOverlap
  PROVE  Spec => [](TypeInv /\ SerialInv)
<1>1. Init => SerialInv
  BY JobKinds DEF Init, SerialInv, WorkerReads, OperatorReads, MirrorRowFollows, ConfirmedIsDeep, IsSubmitted
<1> QED
  BY <1>1, SerialStep, TypeInit, TypeStep, PTL DEF Spec

\* While neither cycles nor operators overlap, a row says confirmed only for a
\* transaction that is deep enough, retries and crashes included.
THEOREM DeepCorrect ==
    ASSUME NoOverlap
    PROVE  Spec => []ConfirmedIsDeep
<1>1. SerialInv => ConfirmedIsDeep
  BY DEF SerialInv
<1> QED
  BY <1>1, SerialInvariance, PTL

\* While neither cycles nor operators overlap, no late drain update, poll or
\* retry rewrites a confirmed row.
THEOREM FinalCorrect ==
    ASSUME NoOverlap
    PROVE  Spec => ConfirmedIsFinal
<1>1. ASSUME TypeInv, SerialInv, [Next]_vars, NEW j \in Job, jobs[j].status = "confirmed"
      PROVE  jobs'[j] = jobs[j]
  <2> USE <1>1 DEF TypeInv, TypeOK
  <2>1. ASSUME NEW w \in Workers, Drain(w)
        PROVE  jobs'[j] = jobs[j]
    <3>1. CASE ProcessRefused(w) \/ RecordSubmitted(w) \/ RecordFailed(w)
      <4>1. job[w] # j
        BY DEF SerialInv, WorkerReads
      <4> QED
        BY <3>1, <4>1, UpdateEffect
    <3>2. CASE ~(ProcessRefused(w) \/ RecordSubmitted(w) \/ RecordFailed(w))
      BY <2>1, <3>2 DEF Drain, store, StartCycle, DrainList, DrainSkip, DrainChoose, DrainEnd,
         SubmitReturns, SubmitRaises, SubmitLosesAnswer, RecordRaises
    <3> QED
      BY <3>1, <3>2
  <2>2. ASSUME NEW w \in Workers, NEW k \in Job, PollPromote(w, k)
        PROVE  jobs'[j] = jobs[j]
    <3>1. PICK t \in deep[k] : <<k, t>> \in polled[w]
      BY <2>2, PromoteEffect
    <3>2. t \in Nat
      OBVIOUS
    <3>3. k # j
      BY <3>1, <3>2 DEF SerialInv, WorkerReads
    <3> QED
      BY <2>2, <3>3, PromoteEffect
  <2>3. ASSUME NEW k \in Job, NEW net \in Networks, InsertAnchorJob(k, net)
        PROVE  jobs'[j] = jobs[j]
    BY <2>3, InsertEffect
  <2>4. ASSUME NEW o \in Operators, RetryWrite(o)
        PROVE  jobs'[j] = jobs[j]
    BY <2>4, RetryEffect DEF SerialInv, OperatorReads
  <2>5. ASSUME \/ \E w \in Workers : PollList(w) \/ PollSkip(w) \/ EndCycle(w) \/ Crash(w)
               \/ \E o \in Operators, k \in Job : RetryRead(o, k)
               \/ \E k \in Job : Deepen(k)
               \/ UNCHANGED vars
        PROVE  jobs'[j] = jobs[j]
    BY <2>5 DEF PollList, PollSkip, EndCycle, Crash, RetryRead, Deepen, store, vars
  <2> QED
    BY <2>1, <2>2, <2>3, <2>4, <2>5 DEF Next, Poll
<1>2. TypeInv /\ SerialInv /\ [Next]_vars
        => [\A j \in Job : jobs[j].status = "confirmed" => jobs'[j] = jobs[j]]_jobs
  BY <1>1
<1> QED
  BY <1>2, SerialInvariance, PTL DEF Spec, ConfirmedIsFinal

\* The labels of a pair of rows whose mirror follows its root.
LEMMA PhaseTable ==
  ASSUME NEW bs \in Statuses, NEW ds \in Statuses,
         ds \notin {"missing", "queued"} => IsSubmitted(bs)
  PROVE  /\ Phase(bs, ds) # "dogecoin_submitted_bitcoin_not_submitted"
         /\ bs = "queued" => Phase(bs, ds) = "queued"
         /\ bs \in FailedStatuses => Phase(bs, ds) = "canonical_failed_retryable"
         /\ Phase(bs, ds) = "fully_anchored" => bs = "confirmed" /\ ds = "confirmed"
  BY DEF Phase, PhaseWithoutMirror, IsSubmitted, Statuses, FailedStatuses

\* While neither cycles nor operators overlap, the pairs of rows get the label
\* of the runbook, and never that of a mirror ahead of its root.
THEOREM PhasesCorrect ==
    ASSUME NoOverlap
    PROVE  Spec => []RunbookPhases
<1>1. ASSUME TypeInv, SerialInv
      PROVE  RunbookPhases
  <2>1. ASSUME NEW r \in Roots
        PROVE  /\ jobs[Btc(r)].status \in Statuses /\ jobs[Doge(r)].status \in Statuses
               /\ MirrorRowFollows(r)
    BY <1>1, JobKinds DEF TypeInv, TypeOK, Row, SerialInv
  <2> QED
    BY <1>1, <2>1, PhaseTable, JobKinds
       DEF RunbookPhases, PhaseOf, MirrorRowFollows, SerialInv, ConfirmedIsDeep
<1> QED
  BY <1>1, SerialInvariance, PTL
=============================================================================

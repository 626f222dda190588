-------------------------- MODULE TimelineAnchor_proofs --------------------------
(***************************************************************************)
(* Proofs about TimelineAnchor, for every set of receipts, clients and     *)
(* workers and every value of the limits and bounds.                       *)
(***************************************************************************)
EXTENDS TimelineAnchor, FiniteSetTheorems, TLAPS

\* What a worker holds at each point of its cycle: the rows it has claimed are
\* running and not yet broadcast in this attempt, and it processes one row at
\* a time, running or already done.
HoldsItsJobs(w) ==
    /\ pc[w] \in {"idle", "claim"} => claimed[w] = {}
    /\ pc[w] \in {"idle", "claim", "next"} => job[w] = {}
    /\ claimed[w] \cap job[w] = {}
    /\ \A r, s \in job[w] : r = s
    /\ \A r \in claimed[w] : jobs[r].status = "running" /\ sent[r] <= jobs[r].attempts
    /\ \A r \in job[w] :
        /\ jobs[r].status \in {"running", "done"}
        /\ pc[w] = "submit" => jobs[r].status = "running" /\ sent[r] <= jobs[r].attempts
        /\ pc[w] = "set_receipt" => jobs[r].status = "done"

WorkersHoldJobs == \A w \in Workers : HoldsItsJobs(w)

\* In batch mode the attempts of a row bound its broadcasts, with one more
\* while a cycle has it or after it succeeded.
Bounded(r) ==
    /\ jobs[r].attempts <= MaxAttempts
    /\ jobs[r].status # "failed" => jobs[r].attempts < MaxAttempts
    /\ jobs[r].status \notin {"running", "done"} => sent[r] <= jobs[r].attempts
    /\ sent[r] <= jobs[r].attempts + 1

AttemptsBoundBroadcasts == ~Immediate => \A r \in Receipts : Bounded(r)

\* Requests broadcast in immediate mode only, cycles run in batch mode only.
ModesAreApart ==
    /\ Immediate => \A w \in Workers : pc[w] = "idle"
    /\ ~Immediate => \A c \in Clients, r \in Receipts, t \in Nat :
            /\ <<"broadcast", r, t>> \notin client[c]
            /\ <<"insert", r, t>> \in client[c] => t = Pending

\* A job is enqueued for a receipt that exists.
JobsHaveReceipts ==
    \A r \in Receipts :
        /\ jobs[r].status # "missing" => receipt[r].exists
        /\ \A c \in Clients, t \in Nat : <<"enqueue", r, t>> \in client[c] => receipt[r].exists

\* Only a finished row that no cycle holds has given its txid to the receipt.
TxidsComeLast ==
    \A r \in Receipts :
        receipt[r].btc_txid # Pending =>
            /\ receipt[r].exists
            /\ ~Immediate => jobs[r].status = "done" /\ \A w \in Workers : r \notin Holds(w)

\* The inductive invariant.
IInv ==
    /\ TypeOK
    /\ WorkersHoldJobs
    /\ ClaimExclusive
    /\ AttemptsBoundBroadcasts
    /\ ModesAreApart
    /\ JobsHaveReceipts
    /\ TxidsComeLast

-----------------------------------------------------------------------------
(* Type correctness. *)

\* A request is at one step, for one receipt, with one transaction.
LEMMA ClientType ==
    ASSUME client \in [Clients -> SUBSET (ClientSteps \X Receipts \X Nat)],
           NEW c \in Clients, NEW r \in Receipts, NEW step \in ClientSteps, NEW t \in Nat
    PROVE  [client EXCEPT ![c] = {<<step, r, t>>}]
              \in [Clients -> SUBSET (ClientSteps \X Receipts \X Nat)]
<1>1. {<<step, r, t>>} \in SUBSET (ClientSteps \X Receipts \X Nat)
  OBVIOUS
<1> QED
  BY <1>1

\* A request that ends leaves nothing behind.
LEMMA ClientEnds ==
    ASSUME client \in [Clients -> SUBSET (ClientSteps \X Receipts \X Nat)], NEW c \in Clients
    PROVE  [client EXCEPT ![c] = {}] \in [Clients -> SUBSET (ClientSteps \X Receipts \X Nat)]
  OBVIOUS

\* The steps of requests keep the types.
LEMMA RequestTypes ==
    ASSUME TypeOK, NEW c \in Clients, NEW r \in Receipts,
           \/ RequestAnchor(c, r) \/ Broadcast(c, r) \/ BroadcastRaises(c, r)
           \/ CreateReceipt(c, r) \/ CreateReceiptConflict(c, r) \/ Enqueue(c, r)
    PROVE  TypeOK'
<1> USE DEF TypeOK, tables, requestVars, workerVars, Pending, ClientSteps
<1>1. CASE RequestAnchor(c, r)
  <2>1. client' \in [Clients -> SUBSET (ClientSteps \X Receipts \X Nat)]
    BY <1>1, ClientType DEF RequestAnchor
  <2> QED
    BY <1>1, <2>1 DEF RequestAnchor
<1>2. CASE Broadcast(c, r)
  <2>1. sent[r] + 1 \in Nat
    OBVIOUS
  <2>2. client' \in [Clients -> SUBSET (ClientSteps \X Receipts \X Nat)]
    BY <1>2, <2>1, ClientType DEF Broadcast
  <2>3. sent' \in [Receipts -> Nat]
    BY <1>2 DEF Broadcast
  <2> QED
    BY <1>2, <2>2, <2>3 DEF Broadcast
<1>3. CASE BroadcastRaises(c, r)
  <2>1. client' \in [Clients -> SUBSET (ClientSteps \X Receipts \X Nat)]
    BY <1>3, ClientEnds DEF BroadcastRaises
  <2>2. sent' \in [Receipts -> Nat]
    BY <1>3 DEF BroadcastRaises
  <2> QED
    BY <1>3, <2>1, <2>2 DEF BroadcastRaises
<1>4. CASE CreateReceipt(c, r)
  <2>1. client' \in [Clients -> SUBSET (ClientSteps \X Receipts \X Nat)]
    BY <1>4, ClientType, ClientEnds DEF CreateReceipt
  <2>2. PICK t \in 0 .. sent[r] :
          receipt' = [receipt EXCEPT ![r] = [exists |-> TRUE, btc_txid |-> t]]
    BY <1>4 DEF CreateReceipt
  <2>3. receipt' \in [Receipts -> [exists : BOOLEAN, btc_txid : Nat]]
    BY <2>2
  <2> QED
    BY <1>4, <2>1, <2>3 DEF CreateReceipt
<1>5. CASE CreateReceiptConflict(c, r)
  <2>1. client' \in [Clients -> SUBSET (ClientSteps \X Receipts \X Nat)]
    BY <1>5, ClientEnds DEF CreateReceiptConflict
  <2> QED
    BY <1>5, <2>1 DEF CreateReceiptConflict
<1>6. CASE Enqueue(c, r)
  <2>1. client' \in [Clients -> SUBSET (ClientSteps \X Receipts \X Nat)]
    BY <1>6, ClientEnds DEF Enqueue
  <2>2. jobs' \in [Receipts -> JobRow]
    BY <1>6 DEF Enqueue, JobRow, Statuses
  <2> QED
    BY <1>6, <2>1, <2>2 DEF Enqueue
<1> QED
  BY <1>1, <1>2, <1>3, <1>4, <1>5, <1>6

\* So does a request that dies.
LEMMA CrashClientTypes ==
    ASSUME TypeOK, NEW c \in Clients, CrashClient(c)
    PROVE  TypeOK'
<1> USE DEF TypeOK, tables, workerVars
<1>1. client' \in [Clients -> SUBSET (ClientSteps \X Receipts \X Nat)]
  BY ClientEnds DEF CrashClient
<1> QED
  BY <1>1 DEF CrashClient

\* The steps of cycles keep the types.
LEMMA CycleTypes ==
    ASSUME TypeOK, NEW w \in Workers, Cycle(w) \/ CrashWorker(w)
    PROVE  TypeOK'
<1> USE DEF TypeOK, tables, requestVars
<1>0. job[w] \in SUBSET Receipts /\ claimed[w] \in SUBSET Receipts
  OBVIOUS
<1>1. CASE StartCycle(w)
  <2>1. jobs' \in [Receipts -> JobRow]
    BY <1>1 DEF StartCycle, JobRow, Statuses
  <2> QED
    BY <1>1, <2>1 DEF StartCycle, PCs
<1>2. CASE Claim(w)
  <2>1. PICK batch \in SUBSET Queued :
          /\ jobs' = [r \in Receipts |->
                IF r \in batch THEN [jobs[r] EXCEPT !.status = "running"] ELSE jobs[r]]
          /\ claimed' = [claimed EXCEPT ![w] = batch]
    BY <1>2 DEF Claim
  <2>2. jobs' \in [Receipts -> JobRow]
    BY <2>1 DEF JobRow, Statuses
  <2>3. claimed' \in [Workers -> SUBSET Receipts]
    BY <2>1 DEF Queued
  <2> QED
    BY <1>2, <2>2, <2>3 DEF Claim, PCs
<1>3. CASE NextJob(w)
  <2>1. PICK r \in claimed[w] :
          /\ job' = [job EXCEPT ![w] = {r}]
          /\ claimed' = [claimed EXCEPT ![w] = @ \ {r}]
    BY <1>3 DEF NextJob
  <2>2. /\ job' \in [Workers -> SUBSET Receipts]
        /\ claimed' \in [Workers -> SUBSET Receipts]
    BY <1>0, <2>1
  <2> QED
    BY <1>3, <2>2 DEF NextJob, PCs
<1>4. CASE EndCycle(w)
  BY <1>4 DEF EndCycle, PCs
<1>5. CASE SubmitReturns(w)
  <2>1. PICK r \in job[w] :
          /\ sent' = [sent EXCEPT ![r] = @ + 1]
          /\ txid' = [txid EXCEPT ![w] = sent[r] + 1]
    BY <1>5 DEF SubmitReturns
  <2>2. sent' \in [Receipts -> Nat] /\ txid' \in [Workers -> Nat]
    BY <1>0, <2>1
  <2> QED
    BY <1>5, <2>2 DEF SubmitReturns, PCs
<1>6. CASE SubmitRaises(w)
  <2>1. sent' \in [Receipts -> Nat]
    BY <1>0, <1>6 DEF SubmitRaises
  <2> QED
    BY <1>6, <2>1 DEF SubmitRaises, PCs
<1>7. CASE MarkDone(w)
  <2>1. PICK r \in job[w] : jobs' = [jobs EXCEPT ![r] = Done(@, txid[w])]
    BY <1>7 DEF MarkDone
  <2>2. jobs' \in [Receipts -> JobRow]
    BY <1>0, <2>1 DEF Done, JobRow, Statuses
  <2> QED
    BY <1>7, <2>2 DEF MarkDone, PCs
<1>8. CASE SetReceiptTxid(w)
  <2>1. PICK r \in job[w] : receipt' = [receipt EXCEPT ![r].btc_txid = txid[w]]
    BY <1>8 DEF SetReceiptTxid
  <2>2. receipt' \in [Receipts -> [exists : BOOLEAN, btc_txid : Nat]]
    BY <1>0, <2>1
  <2> QED
    BY <1>8, <2>2 DEF SetReceiptTxid, PCs
<1>9. CASE UpdateRaises(w)
  BY <1>9 DEF UpdateRaises, PCs
<1>10. CASE MarkFailed(w)
  <2>1. PICK r \in job[w] : jobs' = [jobs EXCEPT ![r] = Failed(@)]
    BY <1>10 DEF MarkFailed
  <2>2. Failed(jobs[r]) \in JobRow
    <3>1. jobs[r] \in JobRow /\ jobs[r].attempts + 1 \in Nat
      BY <1>0 DEF JobRow
    <3> QED
      BY <3>1 DEF Failed, JobRow, Statuses
  <2>3. jobs' \in [Receipts -> JobRow]
    BY <1>0, <2>1, <2>2
  <2> QED
    BY <1>10, <2>3 DEF MarkFailed, PCs
<1>11. CASE CrashWorker(w)
  BY <1>11 DEF CrashWorker, PCs
<1> QED
  BY <1>1, <1>2, <1>3, <1>4, <1>5, <1>6, <1>7, <1>8, <1>9, <1>10, <1>11 DEF Cycle

\* The steps of Next are steps of requests or of cycles.
LEMMA NextSteps ==
    ASSUME Next
    PROVE  \/ \E c \in Clients, r \in Receipts :
                \/ RequestAnchor(c, r) \/ Broadcast(c, r) \/ BroadcastRaises(c, r)
                \/ CreateReceipt(c, r) \/ CreateReceiptConflict(c, r) \/ Enqueue(c, r)
           \/ \E c \in Clients : CrashClient(c)
           \/ \E w \in Workers : Cycle(w) \/ CrashWorker(w)
  BY DEF Next, Request

\* Every step keeps the types.
LEMMA TypeStep == TypeOK /\ [Next]_vars => TypeOK'
<1>1. TypeOK /\ UNCHANGED vars => TypeOK'
  BY DEF TypeOK, vars
<1> QED
  BY <1>1, NextSteps, RequestTypes, CrashClientTypes, CycleTypes

\* Every reachable state has its types.
THEOREM TypeCorrect == Spec => []TypeOK
<1>1. Init => TypeOK
  BY DEF Init, TypeOK, JobRow, Statuses, PCs, Pending
<1> QED
  BY <1>1, TypeStep, PTL DEF Spec

\* The initial state satisfies the inductive invariant.
LEMMA InvariantInit == Init => IInv
  BY ConstantsAssumption DEF Init, IInv, TypeOK, WorkersHoldJobs, HoldsItsJobs, ClaimExclusive,
     Holds, AttemptsBoundBroadcasts, Bounded, ModesAreApart, JobsHaveReceipts, TxidsComeLast,
     JobRow, Statuses, PCs, Pending

-----------------------------------------------------------------------------
(* Requests. *)

\* What the steps of requests may change: a first INSERT of a receipt, a first
\* INSERT of its job, and in immediate mode the broadcasts.
RequestEffect(r) ==
    /\ UNCHANGED workerVars
    /\ jobs' = jobs \/ /\ jobs[r].status = "missing"
                       /\ receipt[r].exists
                       /\ jobs' = [jobs EXCEPT ![r].status = "queued"]
    /\ sent' = sent \/ Immediate
    /\ receipt' = receipt \/ \E t \in Nat :
            /\ ~receipt[r].exists
            /\ ~Immediate => t = Pending
            /\ receipt' = [receipt EXCEPT ![r] = [exists |-> TRUE, btc_txid |-> t]]

\* Such a change keeps the invariants that are not about the requests themselves.
LEMMA RequestKeeps ==
    ASSUME IInv, TypeOK', NEW r \in Receipts, RequestEffect(r)
    PROVE  /\ WorkersHoldJobs' /\ ClaimExclusive' /\ AttemptsBoundBroadcasts'
           /\ TxidsComeLast'
           /\ \A s \in Receipts : /\ receipt[s].exists => receipt'[s].exists
                                  /\ jobs'[s].status # "missing" => receipt'[s].exists
<1> USE DEF workerVars, RequestEffect
<1>1. WorkersHoldJobs'
  <2> SUFFICES ASSUME NEW w \in Workers PROVE HoldsItsJobs(w)'
    BY DEF WorkersHoldJobs
  <2>1. HoldsItsJobs(w) /\ claimed[w] \subseteq Receipts /\ job[w] \subseteq Receipts
    BY DEF IInv, TypeOK, WorkersHoldJobs
  <2>2. CASE Immediate
    <3>1. pc[w] = "idle"
      BY <2>2 DEF IInv, ModesAreApart
    <3> QED
      BY <2>1, <3>1 DEF HoldsItsJobs
  <2>3. CASE ~Immediate
    <3>1. \A s \in claimed[w] \cup job[w] : jobs'[s] = jobs[s] /\ sent'[s] = sent[s]
      BY <2>1, <2>3 DEF HoldsItsJobs, IInv, TypeOK
    <3> QED
      BY <2>1, <3>1 DEF HoldsItsJobs
  <2> QED
    BY <2>2, <2>3
<1>2. ClaimExclusive'
  BY DEF IInv, ClaimExclusive, Holds
<1>3. AttemptsBoundBroadcasts'
  <2> SUFFICES ASSUME ~Immediate, NEW s \in Receipts PROVE Bounded(s)'
    BY DEF AttemptsBoundBroadcasts
  <2>1. Bounded(s) /\ sent'[s] = sent[s] /\ jobs \in [Receipts -> JobRow]
    BY DEF IInv, TypeOK, AttemptsBoundBroadcasts
  <2>2. CASE jobs'[s] = jobs[s]
    BY <2>1, <2>2 DEF Bounded
  <2>3. CASE jobs[s].status = "missing" /\ jobs'[s] = [jobs[s] EXCEPT !.status = "queued"]
    BY <2>1, <2>3 DEF Bounded, JobRow
  <2> QED
    BY <2>1, <2>2, <2>3
<1>4. TxidsComeLast'
  BY DEF IInv, TypeOK, TxidsComeLast, Holds, JobRow, Pending
<1>5. \A s \in Receipts : /\ receipt[s].exists => receipt'[s].exists
                          /\ jobs'[s].status # "missing" => receipt'[s].exists
  BY DEF IInv, TypeOK, JobsHaveReceipts, JobRow
<1> QED
  BY <1>1, <1>2, <1>3, <1>4, <1>5

\* What a request may be about to do.
MayDo(c) ==
    \A s \in Receipts, t \in Nat :
        /\ ~Immediate => <<"broadcast", s, t>> \notin client[c]
        /\ ~Immediate /\ <<"insert", s, t>> \in client[c] => t = Pending
        /\ <<"enqueue", s, t>> \in client[c] => receipt[s].exists

\* What the other requests are about to do, and what this one is about to do
\* next, agree with the mode and with the receipts.
LEMMA RequestNext ==
    ASSUME IInv, NEW c \in Clients, UNCHANGED pc, MayDo(c)',
           \A d \in Clients \ {c} : client'[d] = client[d],
           \A s \in Receipts : /\ receipt[s].exists => receipt'[s].exists
                               /\ jobs'[s].status # "missing" => receipt'[s].exists
    PROVE  ModesAreApart' /\ JobsHaveReceipts'
<1>1. \A d \in Clients : MayDo(d)
  BY DEF IInv, ModesAreApart, JobsHaveReceipts, MayDo
<1>2. \A d \in Clients : MayDo(d)'
  BY <1>1 DEF MayDo
<1>3. ModesAreApart' /\ JobsHaveReceipts'
  BY <1>2 DEF IInv, ModesAreApart, JobsHaveReceipts, MayDo
<1> QED
  BY <1>3

\* The steps of requests keep the inductive invariant.
LEMMA RequestSteps ==
    ASSUME IInv, TypeOK', NEW c \in Clients, NEW r \in Receipts,
           \/ RequestAnchor(c, r) \/ Broadcast(c, r) \/ BroadcastRaises(c, r)
           \/ CreateReceipt(c, r) \/ CreateReceiptConflict(c, r) \/ Enqueue(c, r)
    PROVE  IInv'
<1> USE DEF tables
<1>0. /\ <<"broadcast", r, Pending>> \in client[c] => Immediate
      /\ <<"enqueue", r, Pending>> \in client[c] => receipt[r].exists
      /\ \A t \in Nat : <<"insert", r, t>> \in client[c] => Immediate \/ t = Pending
  BY DEF IInv, ModesAreApart, JobsHaveReceipts, Pending
<1>1. CASE RequestAnchor(c, r)
  <2>1. RequestEffect(r)
    BY <1>1 DEF RequestAnchor, RequestEffect
  <2>2. client' = [client EXCEPT ![c] =
          {<<IF Immediate THEN "broadcast" ELSE "insert", r, Pending>>}]
    BY <1>1 DEF RequestAnchor
  <2>3. UNCHANGED pc
    BY <1>1 DEF RequestAnchor, workerVars
  <2>4. \A s \in Receipts : /\ receipt[s].exists => receipt'[s].exists
                            /\ jobs'[s].status # "missing" => receipt'[s].exists
    BY <2>1, RequestKeeps
  <2>5. MayDo(c)' /\ \A d \in Clients \ {c} : client'[d] = client[d]
    BY <1>0, <2>2, <2>3, <2>4 DEF MayDo, IInv, TypeOK
  <2>6. ModesAreApart' /\ JobsHaveReceipts'
    BY <2>3, <2>4, <2>5, RequestNext
  <2>7. WorkersHoldJobs' /\ ClaimExclusive' /\ AttemptsBoundBroadcasts' /\ TxidsComeLast'
    BY <2>1, RequestKeeps
  <2> QED
    BY <2>6, <2>7 DEF IInv
<1>2. CASE Broadcast(c, r)
  <2>1. RequestEffect(r)
    BY <1>0, <1>2 DEF Broadcast, RequestEffect
  <2>2. client' = [client EXCEPT ![c] = {<<"insert", r, sent[r] + 1>>}]
    BY <1>2 DEF Broadcast
  <2>3. UNCHANGED pc /\ Immediate
    BY <1>0, <1>2 DEF Broadcast, workerVars
  <2>4. \A s \in Receipts : /\ receipt[s].exists => receipt'[s].exists
                            /\ jobs'[s].status # "missing" => receipt'[s].exists
    BY <2>1, RequestKeeps
  <2>5. MayDo(c)' /\ \A d \in Clients \ {c} : client'[d] = client[d]
    BY <1>0, <2>2, <2>3, <2>4 DEF MayDo, IInv, TypeOK
  <2>6. ModesAreApart' /\ JobsHaveReceipts'
    BY <2>3, <2>4, <2>5, RequestNext
  <2>7. WorkersHoldJobs' /\ ClaimExclusive' /\ AttemptsBoundBroadcasts' /\ TxidsComeLast'
    BY <2>1, RequestKeeps
  <2> QED
    BY <2>6, <2>7 DEF IInv
<1>3. CASE BroadcastRaises(c, r) \/ CreateReceiptConflict(c, r)
  <2>1. RequestEffect(r)
    BY <1>0, <1>3 DEF BroadcastRaises, CreateReceiptConflict, RequestEffect
  <2>2. client' = [client EXCEPT ![c] = {}]
    BY <1>3 DEF BroadcastRaises, CreateReceiptConflict
  <2>3. UNCHANGED pc
    BY <1>3 DEF BroadcastRaises, CreateReceiptConflict, workerVars
  <2>4. \A s \in Receipts : /\ receipt[s].exists => receipt'[s].exists
                            /\ jobs'[s].status # "missing" => receipt'[s].exists
    BY <2>1, RequestKeeps
  <2>5. MayDo(c)' /\ \A d \in Clients \ {c} : client'[d] = client[d]
    BY <1>0, <2>2, <2>3, <2>4 DEF MayDo, IInv, TypeOK
  <2>6. ModesAreApart' /\ JobsHaveReceipts'
    BY <2>3, <2>4, <2>5, RequestNext
  <2>7. WorkersHoldJobs' /\ ClaimExclusive' /\ AttemptsBoundBroadcasts' /\ TxidsComeLast'
    BY <2>1, RequestKeeps
  <2> QED
    BY <2>6, <2>7 DEF IInv
<1>4. CASE CreateReceipt(c, r)
  <2>1. PICK t \in 0 .. sent[r] :
          /\ client[c] = {<<"insert", r, t>>}
          /\ receipt' = [receipt EXCEPT ![r] = [exists |-> TRUE, btc_txid |-> t]]
    BY <1>4 DEF CreateReceipt
  <2>2. t \in Nat /\ receipt'[r].exists
    BY <2>1 DEF IInv, TypeOK
  <2>3. RequestEffect(r)
    BY <1>0, <1>4, <2>1, <2>2 DEF CreateReceipt, Insertable, RequestEffect
  <2>4. client' = [client EXCEPT ![c] =
          IF Immediate THEN {} ELSE {<<"enqueue", r, Pending>>}]
    BY <1>4 DEF CreateReceipt
  <2>5. UNCHANGED pc
    BY <1>4 DEF CreateReceipt, workerVars
  <2>6. \A s \in Receipts : /\ receipt[s].exists => receipt'[s].exists
                            /\ jobs'[s].status # "missing" => receipt'[s].exists
    BY <2>3, RequestKeeps
  <2>7. MayDo(c)' /\ \A d \in Clients \ {c} : client'[d] = client[d]
    BY <1>0, <2>2, <2>4, <2>5, <2>6 DEF MayDo, IInv, TypeOK
  <2>8. ModesAreApart' /\ JobsHaveReceipts'
    BY <2>2, <2>4, <2>5, <2>6, <2>7, RequestNext
  <2>9. WorkersHoldJobs' /\ ClaimExclusive' /\ AttemptsBoundBroadcasts' /\ TxidsComeLast'
    BY <2>3, RequestKeeps
  <2> QED
    BY <2>8, <2>9 DEF IInv
<1>5. CASE Enqueue(c, r)
  <2>1. RequestEffect(r)
    BY <1>0, <1>5 DEF Enqueue, RequestEffect
  <2>2. client' = [client EXCEPT ![c] = {}]
    BY <1>5 DEF Enqueue
  <2>3. UNCHANGED pc
    BY <1>5 DEF Enqueue, workerVars
  <2>4. \A s \in Receipts : /\ receipt[s].exists => receipt'[s].exists
                            /\ jobs'[s].status # "missing" => receipt'[s].exists
    BY <2>1, RequestKeeps
  <2>5. MayDo(c)' /\ \A d \in Clients \ {c} : client'[d] = client[d]
    BY <1>0, <2>2, <2>3, <2>4 DEF MayDo, IInv, TypeOK
  <2>6. ModesAreApart' /\ JobsHaveReceipts'
    BY <2>3, <2>4, <2>5, RequestNext
  <2>7. WorkersHoldJobs' /\ ClaimExclusive' /\ AttemptsBoundBroadcasts' /\ TxidsComeLast'
    BY <2>1, RequestKeeps
  <2> QED
    BY <2>6, <2>7 DEF IInv
<1> QED
  BY <1>1, <1>2, <1>3, <1>4, <1>5

\* A request that dies keeps it too.
LEMMA CrashClientStep ==
    ASSUME IInv, TypeOK', NEW c \in Clients, CrashClient(c)
    PROVE  IInv'
<1> USE DEF tables, workerVars, CrashClient
<1>1. WorkersHoldJobs' /\ ClaimExclusive' /\ AttemptsBoundBroadcasts' /\ TxidsComeLast'
  BY DEF IInv, WorkersHoldJobs, HoldsItsJobs, ClaimExclusive, Holds, AttemptsBoundBroadcasts,
         Bounded, TxidsComeLast
<1>2. MayDo(c)' /\ \A d \in Clients \ {c} : client'[d] = client[d]
  BY DEF MayDo, IInv, TypeOK
<1>3. \A s \in Receipts : jobs[s].status # "missing" => receipt[s].exists
  BY DEF IInv, JobsHaveReceipts
<1>4. ModesAreApart' /\ JobsHaveReceipts'
  BY <1>2, <1>3, RequestNext
<1> QED
  BY <1>1, <1>4 DEF IInv

-----------------------------------------------------------------------------
(* Cycles. *)

\* What the steps of a cycle have in common: the other cycles go on with the
\* rows they hold, a finished row that no cycle holds stays as it is, rows are
\* taken from the queue only, and bounds are kept.
CycleEffect(w) ==
    /\ ~Immediate
    /\ UNCHANGED client
    /\ \A v \in Workers \ {w} : pc'[v] = pc[v] /\ claimed'[v] = claimed[v] /\ job'[v] = job[v]
    /\ Holds(w)' \subseteq Holds(w) \cup Queued
    /\ \A r \in Receipts :
        /\ r \notin Holds(w) /\ jobs[r].status \notin {"failed", "queued"} =>
              jobs'[r] = jobs[r] /\ sent'[r] = sent[r]
        /\ jobs'[r].status # "missing" => jobs[r].status # "missing"
        /\ Bounded(r)'

\* A step that is like that, leaves the receipts alone and keeps what its own
\* worker holds in order keeps the inductive invariant.
LEMMA CycleKeeps ==
    ASSUME IInv, TypeOK', NEW w \in Workers, CycleEffect(w), HoldsItsJobs(w)'
    PROVE  /\ WorkersHoldJobs' /\ ClaimExclusive' /\ AttemptsBoundBroadcasts'
           /\ ModesAreApart'
           /\ UNCHANGED receipt => JobsHaveReceipts' /\ TxidsComeLast'
<1>1. ASSUME NEW v \in Workers, v # w PROVE HoldsItsJobs(v)'
  <2>1. HoldsItsJobs(v) /\ claimed[v] \subseteq Receipts /\ job[v] \subseteq Receipts
    BY DEF IInv, TypeOK, WorkersHoldJobs
  <2>2. \A r \in claimed[v] \cup job[v] : r \notin Holds(w)
    BY <1>1 DEF IInv, ClaimExclusive, Holds
  <2>3. \A r \in claimed[v] \cup job[v] : jobs'[r] = jobs[r] /\ sent'[r] = sent[r]
    BY <2>1, <2>2 DEF HoldsItsJobs, CycleEffect
  <2>4. pc'[v] = pc[v] /\ claimed'[v] = claimed[v] /\ job'[v] = job[v]
    BY <1>1 DEF CycleEffect
  <2> QED
    BY <2>1, <2>3, <2>4 DEF HoldsItsJobs
<1>2. WorkersHoldJobs'
  BY <1>1 DEF WorkersHoldJobs
<1>3. \A v \in Workers, r \in Receipts :
        r \in Holds(v) => jobs[r].status \in {"running", "done"}
  BY DEF IInv, WorkersHoldJobs, HoldsItsJobs, Holds
<1>4. \A v \in Workers \ {w} : Holds(v)' = Holds(v) /\ Holds(v) \cap Queued = {}
  BY <1>3 DEF CycleEffect, Holds, Queued
<1>5. ClaimExclusive'
  BY <1>4 DEF IInv, ClaimExclusive, CycleEffect
<1>6. AttemptsBoundBroadcasts' /\ ModesAreApart'
  BY DEF CycleEffect, AttemptsBoundBroadcasts, IInv, ModesAreApart
<1>7. ASSUME UNCHANGED receipt PROVE JobsHaveReceipts' /\ TxidsComeLast'
  <2>1. JobsHaveReceipts'
    BY <1>7 DEF IInv, JobsHaveReceipts, CycleEffect
  <2>2. ASSUME NEW r \in Receipts, receipt[r].btc_txid # Pending
        PROVE  jobs'[r].status = "done" /\ \A v \in Workers : r \notin Holds(v)'
    <3>1. jobs[r].status = "done" /\ \A v \in Workers : r \notin Holds(v)
      BY <2>2 DEF IInv, TxidsComeLast, CycleEffect
    <3> QED
      BY <1>4, <3>1 DEF CycleEffect, Queued
  <2> QED
    BY <1>7, <2>1, <2>2 DEF IInv, TxidsComeLast
<1> QED
  BY <1>2, <1>5, <1>6, <1>7

\* What is known of a cycle that runs.
LEMMA Running ==
    ASSUME IInv, NEW w \in Workers, pc[w] # "idle" \/ ~Immediate
    PROVE  /\ ~Immediate
           /\ HoldsItsJobs(w)
           /\ claimed[w] \subseteq Receipts /\ job[w] \subseteq Receipts
           /\ \A r \in Receipts :
                /\ Bounded(r)
                /\ jobs[r] \in JobRow /\ sent[r] \in Nat
                /\ jobs[r].attempts \in Nat /\ jobs[r].status \in Statuses
           /\ MaxAttempts \in Nat
  BY ConstantsAssumption DEF IInv, TypeOK, WorkersHoldJobs, AttemptsBoundBroadcasts,
     ModesAreApart, JobRow

\* The re-queue touches failed rows with attempts left, which no cycle holds.
LEMMA StartCycleStep ==
    ASSUME IInv, TypeOK', NEW w \in Workers, StartCycle(w)
    PROVE  IInv'
<1> USE DEF StartCycle, requestVars
<1>1. \A r \in Receipts : \/ jobs'[r] = jobs[r]
                         \/ /\ jobs[r].status = "failed" /\ jobs[r].attempts < MaxAttempts
                            /\ jobs'[r] = [jobs[r] EXCEPT !.status = "queued"]
  BY DEF Retryable
<1>2. CycleEffect(w)
  <2>1. ASSUME NEW r \in Receipts PROVE Bounded(r)'
    BY <1>1, Running DEF Bounded, JobRow
  <2>2. ASSUME NEW r \in Receipts, jobs'[r].status # "missing" PROVE jobs[r].status # "missing"
    BY <1>1, <2>2
  <2> QED
    BY <1>1, <2>1, <2>2 DEF CycleEffect, IInv, TypeOK, Holds
<1>3. HoldsItsJobs(w)'
  <2>1. claimed'[w] = {} /\ job'[w] = {} /\ pc'[w] = "claim"
    BY Running DEF HoldsItsJobs, IInv, TypeOK
  <2> QED
    BY <2>1 DEF HoldsItsJobs
<1> QED
  BY <1>2, <1>3, CycleKeeps DEF IInv

\* A claim takes queued rows only, and marks them in the same transaction.
LEMMA ClaimStep ==
    ASSUME IInv, TypeOK', NEW w \in Workers, Claim(w)
    PROVE  IInv'
<1> USE DEF Claim, requestVars
<1>1. PICK batch \in SUBSET Queued :
        /\ jobs' = [r \in Receipts |->
              IF r \in batch THEN [jobs[r] EXCEPT !.status = "running"] ELSE jobs[r]]
        /\ claimed' = [claimed EXCEPT ![w] = batch]
  OBVIOUS
<1>2. \A r \in Receipts :
        /\ r \in batch => /\ jobs[r].status = "queued"
                          /\ jobs'[r] = [jobs[r] EXCEPT !.status = "running"]
        /\ r \notin batch => jobs'[r] = jobs[r]
  BY <1>1 DEF Queued
<1>3. pc[w] = "claim" /\ pc'[w] = "next" /\ claimed'[w] = batch /\ job'[w] = {}
  BY <1>1, Running DEF IInv, TypeOK, HoldsItsJobs
<1>4. CycleEffect(w)
  <2>1. ASSUME NEW r \in Receipts PROVE Bounded(r)'
    BY <1>2, <1>3, Running DEF Bounded, JobRow
  <2>2. ASSUME NEW r \in Receipts, jobs'[r].status # "missing" PROVE jobs[r].status # "missing"
    BY <1>2, <2>2
  <2>3. ASSUME NEW r \in Receipts, jobs[r].status # "queued" PROVE jobs'[r] = jobs[r]
    BY <1>2, <2>3
  <2>4. Holds(w)' \subseteq Queued
    BY <1>1, <1>3 DEF Holds
  <2>5. ~Immediate
    BY <1>3, Running
  <2> QED
    BY <1>1, <2>1, <2>2, <2>3, <2>4, <2>5 DEF CycleEffect, IInv, TypeOK
<1>5. HoldsItsJobs(w)'
  <2>1. \A r \in batch : jobs'[r].status = "running" /\ sent'[r] <= jobs'[r].attempts
    BY <1>1, <1>2, <1>3, Running DEF Bounded, JobRow, Queued
  <2> QED
    BY <1>3, <2>1 DEF HoldsItsJobs
<1> QED
  BY <1>4, <1>5, CycleKeeps DEF IInv

\* A step that leaves the rows alone and holds no more than before.
LEMMA RowsUnchanged ==
    ASSUME IInv, TypeOK', NEW w \in Workers, pc[w] # "idle", UNCHANGED <<jobs, sent, client>>,
           \A v \in Workers \ {w} : pc'[v] = pc[v] /\ claimed'[v] = claimed[v] /\ job'[v] = job[v],
           claimed'[w] \cup job'[w] \subseteq claimed[w] \cup job[w]
    PROVE  CycleEffect(w)
<1>1. ~Immediate /\ \A r \in Receipts : Bounded(r)'
  BY Running DEF Bounded
<1> QED
  BY <1>1 DEF CycleEffect, Holds

\* Taking up the next job, ending the cycle and dying touch no row.
LEMMA NextEndCrashSteps ==
    ASSUME IInv, TypeOK', NEW w \in Workers, NextJob(w) \/ EndCycle(w) \/ CrashWorker(w)
    PROVE  IInv'
<1> USE DEF tables, requestVars
<1>1. CASE NextJob(w)
  <2>1. PICK r \in claimed[w] :
          /\ job' = [job EXCEPT ![w] = {r}]
          /\ claimed' = [claimed EXCEPT ![w] = @ \ {r}]
    BY <1>1 DEF NextJob
  <2>2. /\ pc[w] = "next" /\ pc'[w] = "submit"
        /\ job'[w] = {r} /\ claimed'[w] = claimed[w] \ {r}
    BY <1>1, <2>1 DEF NextJob, IInv, TypeOK
  <2>3. CycleEffect(w)
    BY <1>1, <2>1, <2>2, RowsUnchanged DEF NextJob, IInv, TypeOK
  <2>4. HoldsItsJobs(w)'
    BY <1>1, <2>1, <2>2, Running DEF HoldsItsJobs, NextJob
  <2> QED
    BY <1>1, <2>3, <2>4, CycleKeeps DEF IInv, NextJob
<1>2. CASE EndCycle(w)
  <2>1. CycleEffect(w)
    BY <1>2, RowsUnchanged DEF EndCycle, IInv, TypeOK
  <2>2. pc[w] = "next" /\ pc'[w] = "idle" /\ claimed[w] = {} /\ job[w] = {}
    BY <1>2, Running DEF EndCycle, HoldsItsJobs, IInv, TypeOK
  <2>3. HoldsItsJobs(w)'
    BY <1>2, <2>2 DEF HoldsItsJobs, EndCycle
  <2> QED
    BY <1>2, <2>1, <2>3, CycleKeeps DEF IInv, EndCycle
<1>3. CASE CrashWorker(w)
  <2>1. pc'[w] = "idle" /\ claimed'[w] = {} /\ job'[w] = {}
    BY <1>3 DEF CrashWorker, IInv, TypeOK
  <2>2. CycleEffect(w)
    BY <1>3, <2>1, RowsUnchanged DEF CrashWorker, IInv, TypeOK
  <2>3. HoldsItsJobs(w)'
    BY <2>1 DEF HoldsItsJobs
  <2> QED
    BY <1>3, <2>2, <2>3, CycleKeeps DEF IInv, CrashWorker
<1> QED
  BY <1>1, <1>2, <1>3

\* A step that changes only the row r that this cycle processes, keeps its
\* bounds, and holds no more than before.
LEMMA OwnRow ==
    ASSUME IInv, TypeOK', NEW w \in Workers, pc[w] # "idle", UNCHANGED client,
           \A v \in Workers \ {w} : pc'[v] = pc[v] /\ claimed'[v] = claimed[v] /\ job'[v] = job[v],
           claimed'[w] \cup job'[w] \subseteq claimed[w] \cup job[w],
           NEW r \in job[w], Bounded(r)',
           \A s \in Receipts \ {r} : jobs'[s] = jobs[s] /\ sent'[s] = sent[s]
    PROVE  CycleEffect(w)
<1>1. ~Immediate /\ \A s \in Receipts : Bounded(s)'
  BY Running DEF Bounded
<1>2. r \in Holds(w) /\ jobs[r].status # "missing"
  BY Running DEF Holds, HoldsItsJobs
<1> QED
  BY <1>1, <1>2 DEF CycleEffect, Holds

\* A broadcast uses up what the attempt allows.
LEMMA SubmitSteps ==
    ASSUME IInv, TypeOK', NEW w \in Workers, SubmitReturns(w) \/ SubmitRaises(w)
    PROVE  IInv'
<1> USE DEF SubmitReturns, SubmitRaises, requestVars
<1>1. /\ pc[w] = "submit" /\ pc'[w] \in {"mark_done", "mark_failed"}
      /\ UNCHANGED <<receipt, jobs, client, claimed, job>>
      /\ \A v \in Workers \ {w} : pc'[v] = pc[v]
  BY DEF IInv, TypeOK
<1>2. CASE UNCHANGED sent
  <2>1. CycleEffect(w)
    BY <1>1, <1>2, RowsUnchanged
  <2>2. HoldsItsJobs(w)'
    BY <1>1, <1>2, Running DEF HoldsItsJobs
  <2> QED
    BY <1>1, <2>1, <2>2, CycleKeeps DEF IInv
<1>3. ASSUME NEW r \in job[w], sent' = [sent EXCEPT ![r] = @ + 1] PROVE IInv'
  <2>1. /\ r \in Receipts /\ r \notin claimed[w] /\ sent'[r] = sent[r] + 1
        /\ \A s \in Receipts \ {r} : sent'[s] = sent[s]
    BY <1>1, <1>3, Running DEF IInv, TypeOK, HoldsItsJobs
  <2>2. jobs[r].status = "running" /\ sent[r] <= jobs[r].attempts
    BY <1>1, Running DEF HoldsItsJobs
  <2>3. Bounded(r)'
    BY <1>1, <2>1, <2>2, Running DEF Bounded
  <2>4. CycleEffect(w)
    BY <1>1, <2>1, <2>3, OwnRow
  <2>5. HoldsItsJobs(w)'
    BY <1>1, <2>1, Running DEF HoldsItsJobs
  <2> QED
    BY <1>1, <2>4, <2>5, CycleKeeps DEF IInv
<1> QED
  BY <1>2, <1>3

\* Marking a job done or failed; a failure counts the attempt.
LEMMA MarkSteps ==
    ASSUME IInv, TypeOK', NEW w \in Workers, MarkDone(w) \/ MarkFailed(w)
    PROVE  IInv'
<1> USE DEF requestVars
<1>1. CASE MarkDone(w)
  <2>1. PICK r \in job[w] : jobs' = [jobs EXCEPT ![r] = Done(@, txid[w])]
    BY <1>1 DEF MarkDone
  <2>2. /\ pc[w] = "mark_done" /\ pc'[w] = "set_receipt"
        /\ UNCHANGED <<receipt, sent, client, claimed, job>>
        /\ \A v \in Workers \ {w} : pc'[v] = pc[v]
    BY <1>1 DEF MarkDone, IInv, TypeOK
  <2>3. /\ r \in Receipts /\ r \notin claimed[w] /\ jobs'[r] = Done(jobs[r], txid[w])
        /\ \A s \in Receipts \ {r} : jobs'[s] = jobs[s]
    BY <2>1, <2>2, Running DEF IInv, TypeOK, HoldsItsJobs
  <2>4. jobs'[r].status = "done" /\ jobs'[r].attempts = jobs[r].attempts
    BY <2>2, <2>3, Running DEF Done, JobRow
  <2>5. jobs[r].status \in {"running", "done"} /\ \A s \in job[w] : s = r
    BY <2>2, Running DEF HoldsItsJobs
  <2>6. Bounded(r)'
    BY <2>2, <2>3, <2>4, <2>5, Running DEF Bounded
  <2>7. CycleEffect(w)
    BY <2>2, <2>3, <2>6, OwnRow
  <2>8. HoldsItsJobs(w)'
    BY <2>2, <2>3, <2>4, <2>5, Running DEF HoldsItsJobs
  <2> QED
    BY <2>2, <2>7, <2>8, CycleKeeps DEF IInv
<1>2. CASE MarkFailed(w)
  <2>1. PICK r \in job[w] : jobs' = [jobs EXCEPT ![r] = Failed(@)]
    BY <1>2 DEF MarkFailed
  <2>2. /\ pc[w] = "mark_failed" /\ pc'[w] = "next" /\ job'[w] = {}
        /\ UNCHANGED <<receipt, sent, client, claimed>>
        /\ \A v \in Workers \ {w} : pc'[v] = pc[v] /\ job'[v] = job[v]
    BY <1>2 DEF MarkFailed, IInv, TypeOK
  <2>3. /\ r \in Receipts /\ r \notin claimed[w] /\ jobs'[r] = Failed(jobs[r])
        /\ \A s \in Receipts \ {r} : jobs'[s] = jobs[s]
    BY <2>1, <2>2, Running DEF IInv, TypeOK, HoldsItsJobs
  <2>4. jobs'[r].status = "failed" /\ jobs'[r].attempts = jobs[r].attempts + 1
    BY <2>2, <2>3, Running DEF Failed, JobRow
  <2>5. jobs[r].status \in {"running", "done"}
    BY <2>2, Running DEF HoldsItsJobs
  <2>6. Bounded(r)'
    BY <2>2, <2>3, <2>4, <2>5, Running DEF Bounded
  <2>7. CycleEffect(w)
    BY <2>2, <2>3, <2>6, OwnRow
  <2>8. HoldsItsJobs(w)'
    BY <2>2, <2>3, Running DEF HoldsItsJobs
  <2> QED
    BY <2>2, <2>7, <2>8, CycleKeeps DEF IInv
<1> QED
  BY <1>1, <1>2

\* An update that raises.
LEMMA UpdateRaisesStep ==
    ASSUME IInv, TypeOK', NEW w \in Workers, UpdateRaises(w)
    PROVE  IInv'
<1> USE DEF UpdateRaises, tables, requestVars
<1>1. /\ pc[w] \in {"mark_done", "set_receipt"} /\ pc'[w] = "mark_failed"
      /\ \A v \in Workers \ {w} : pc'[v] = pc[v]
  BY DEF IInv, TypeOK
<1>2. CycleEffect(w)
  BY <1>1, RowsUnchanged
<1>3. HoldsItsJobs(w)'
  BY <1>1, Running DEF HoldsItsJobs
<1> QED
  BY <1>2, <1>3, CycleKeeps DEF IInv

\* The receipt gets its transaction when the row is done, and the cycle lets
\* the row go.
LEMMA SetReceiptTxidStep ==
    ASSUME IInv, TypeOK', NEW w \in Workers, SetReceiptTxid(w)
    PROVE  IInv'
<1> USE DEF requestVars
<1>1. PICK r \in job[w] : receipt' = [receipt EXCEPT ![r].btc_txid = txid[w]]
  BY DEF SetReceiptTxid
<1>2. /\ pc[w] = "set_receipt" /\ pc'[w] = "next" /\ job'[w] = {}
      /\ UNCHANGED <<jobs, sent, client, claimed>>
      /\ \A v \in Workers \ {w} : pc'[v] = pc[v] /\ job'[v] = job[v]
  BY DEF SetReceiptTxid, IInv, TypeOK
<1>3. CycleEffect(w)
  BY <1>2, RowsUnchanged
<1>4. HoldsItsJobs(w)'
  BY <1>2, Running DEF HoldsItsJobs
<1>5. /\ r \in Receipts /\ receipt'[r].exists = receipt[r].exists
      /\ \A s \in Receipts \ {r} : receipt'[s] = receipt[s]
      /\ jobs[r].status = "done" /\ r \notin claimed[w] /\ job[w] = {r}
  BY <1>1, <1>2, Running DEF IInv, TypeOK, HoldsItsJobs
<1>6. JobsHaveReceipts'
  BY <1>2, <1>5 DEF IInv, JobsHaveReceipts
<1>7. \A v \in Workers : r \notin Holds(v)'
  <2>1. \A v \in Workers \ {w} : r \notin Holds(v)
    BY <1>5 DEF IInv, ClaimExclusive, Holds
  <2> QED
    BY <1>2, <1>5, <2>1 DEF Holds
<1>8. \A v \in Workers : Holds(v)' \subseteq Holds(v)
  BY <1>2 DEF Holds
<1>9. TxidsComeLast'
  <2>1. receipt'[r].exists /\ jobs'[r].status = "done"
    BY <1>2, <1>5 DEF IInv, JobsHaveReceipts
  <2> QED
    BY <1>2, <1>5, <1>7, <1>8, <2>1 DEF IInv, TxidsComeLast
<1> QED
  BY <1>3, <1>4, <1>6, <1>9, CycleKeeps DEF IInv

-----------------------------------------------------------------------------
(* The theorems. *)

\* The invariant holds initially and is kept by every step.
THEOREM Invariance == Spec => []IInv
<1>1. ASSUME IInv, [Next]_vars PROVE IInv'
  <2>1. TypeOK'
    BY <1>1, TypeStep DEF IInv
  <2>2. CASE UNCHANGED vars
    BY <1>1, <2>1, <2>2 DEF vars, IInv, WorkersHoldJobs, HoldsItsJobs, ClaimExclusive, Holds,
       AttemptsBoundBroadcasts, Bounded, ModesAreApart, JobsHaveReceipts, TxidsComeLast
  <2>3. ASSUME NEW w \in Workers, Cycle(w) \/ CrashWorker(w) PROVE IInv'
    BY <1>1, <2>1, <2>3, StartCycleStep, ClaimStep, NextEndCrashSteps, SubmitSteps, MarkSteps,
       UpdateRaisesStep, SetReceiptTxidStep DEF Cycle
  <2> QED
    BY <1>1, <2>1, <2>2, <2>3, NextSteps, RequestSteps, CrashClientStep
<1> QED
  BY <1>1, InvariantInit, PTL DEF Spec

\* No two cycles ever work on one job.
THEOREM ClaimsAreExclusive == Spec => []ClaimExclusive
<1>1. IInv => ClaimExclusive
  BY DEF IInv
<1> QED
  BY <1>1, Invariance, PTL

-----------------------------------------------------------------------------
(* Immediate mode. *)

\* The requests that are about to broadcast r.
Waiting(r) == {c \in Clients : client[c] = {<<"broadcast", r, Pending>>}}

\* Nothing is queued, and every broadcast, made or about to be made, has a
\* request of its own.
RequestsBoundBroadcasts ==
    Immediate =>
        /\ \A c \in Clients, r \in Receipts : <<"enqueue", r, Pending>> \notin client[c]
        /\ \A r \in Receipts :
            /\ jobs[r].status = "missing"
            /\ IsFiniteSet(Waiting(r))
            /\ sent[r] + Cardinality(Waiting(r)) <= requests[r]

\* A request more that waits ...
LEMMA OneMore ==
    ASSUME NEW S, IsFiniteSet(S), NEW x, x \notin S
    PROVE  /\ IsFiniteSet(S \cup {x})
           /\ Cardinality(S \cup {x}) = Cardinality(S) + 1
           /\ Cardinality(S) \in Nat
  BY FS_AddElement, FS_CardinalityType

\* ... and one less.
LEMMA OneLess ==
    ASSUME NEW S, IsFiniteSet(S), NEW x \in S
    PROVE  /\ IsFiniteSet(S \ {x})
           /\ Cardinality(S \ {x}) = Cardinality(S) - 1
           /\ Cardinality(S) \in Nat
  BY FS_RemoveElement, FS_CardinalityType

\* A new request is about to broadcast.
LEMMA RequestWaits ==
    ASSUME TypeOK, Immediate, RequestsBoundBroadcasts,
           NEW c \in Clients, NEW r \in Receipts, RequestAnchor(c, r)
    PROVE  RequestsBoundBroadcasts'
<1> USE DEF TypeOK, RequestAnchor, tables
<1>1. /\ client[c] = {} /\ client' = [client EXCEPT ![c] = {<<"broadcast", r, Pending>>}]
      /\ requests' = [requests EXCEPT ![r] = @ + 1]
      /\ sent' = sent /\ jobs' = jobs
  OBVIOUS
<1>2. \A d \in Clients, s \in Receipts : <<"enqueue", s, Pending>> \notin client'[d]
  BY <1>1 DEF RequestsBoundBroadcasts
<1>3. ASSUME NEW s \in Receipts
      PROVE  /\ IsFiniteSet(Waiting(s)')
             /\ sent'[s] + Cardinality(Waiting(s)') <= requests'[s]
  <2>0. /\ IsFiniteSet(Waiting(s)) /\ sent[s] + Cardinality(Waiting(s)) <= requests[s]
        /\ sent[s] \in Nat /\ requests[s] \in Nat
    BY DEF RequestsBoundBroadcasts
  <2>1. CASE s = r
    <3>1. Waiting(s)' = Waiting(s) \cup {c} /\ c \notin Waiting(s)
      BY <1>1, <2>1 DEF Waiting
    <3>2. requests'[s] = requests[s] + 1 /\ sent'[s] = sent[s]
      BY <1>1, <2>1
    <3>3. /\ IsFiniteSet(Waiting(s)') /\ Cardinality(Waiting(s)') = Cardinality(Waiting(s)) + 1
          /\ Cardinality(Waiting(s)) \in Nat
      <4> PICK S : S = Waiting(s)
        OBVIOUS
      <4>1. IsFiniteSet(S) /\ c \notin S /\ Waiting(s)' = S \cup {c}
        BY <2>0, <3>1
      <4>2. /\ IsFiniteSet(S \cup {c}) /\ Cardinality(S \cup {c}) = Cardinality(S) + 1
            /\ Cardinality(S) \in Nat
        BY <4>1, OneMore
      <4> QED
        BY <4>1, <4>2
    <3> QED
      BY <2>0, <3>2, <3>3
  <2>2. CASE s # r
    <3>1. <<"broadcast", r, Pending>> # <<"broadcast", s, Pending>>
      BY <2>2
    <3>2. /\ {<<"broadcast", r, Pending>>} # {<<"broadcast", s, Pending>>}
          /\ {} # {<<"broadcast", s, Pending>>}
      BY <3>1
    <3>3. /\ client'[c] = {<<"broadcast", r, Pending>>}
          /\ \A d \in Clients \ {c} : client'[d] = client[d]
      BY <1>1
    <3>4. Waiting(s)' = Waiting(s)
      BY <1>1, <3>2, <3>3 DEF Waiting
    <3>5. sent'[s] = sent[s] /\ requests'[s] = requests[s]
      BY <1>1, <2>2
    <3> QED
      BY <2>0, <3>4, <3>5
  <2> QED
    BY <2>1, <2>2
<1> QED
  BY <1>1, <1>2, <1>3 DEF RequestsBoundBroadcasts

\* A request broadcasts and waits no longer.
LEMMA RequestBroadcasts ==
    ASSUME TypeOK, Immediate, RequestsBoundBroadcasts,
           NEW c \in Clients, NEW r \in Receipts, Broadcast(c, r) \/ BroadcastRaises(c, r)
    PROVE  RequestsBoundBroadcasts'
<1>1. /\ client[c] = {<<"broadcast", r, Pending>>}
      /\ jobs' = jobs /\ requests' = requests
      /\ sent' = sent \/ sent' = [sent EXCEPT ![r] = @ + 1]
  BY DEF Broadcast, BroadcastRaises
<1>2. PICK next \in SUBSET ({"insert"} \X Receipts \X Nat) : client' = [client EXCEPT ![c] = next]
  <2>1. CASE Broadcast(c, r)
    <3>1. sent[r] + 1 \in Nat
      BY DEF TypeOK
    <3>2. {<<"insert", r, sent[r] + 1>>} \in SUBSET ({"insert"} \X Receipts \X Nat)
      BY <3>1
    <3> QED
      BY <2>1, <3>2 DEF Broadcast
  <2>2. CASE BroadcastRaises(c, r)
    BY <2>2 DEF BroadcastRaises
  <2> QED
    BY <2>1, <2>2
<1>3. \A s \in Receipts : /\ <<"enqueue", s, Pending>> \notin next
                          /\ next # {<<"broadcast", s, Pending>>}
  <2>1. \A m \in next : m[1] = "insert"
    OBVIOUS
  <2>2. \A s \in Receipts : /\ <<"enqueue", s, Pending>>[1] # "insert"
                            /\ <<"broadcast", s, Pending>>[1] # "insert"
    OBVIOUS
  <2>3. \A s \in Receipts : <<"broadcast", s, Pending>> \in {<<"broadcast", s, Pending>>}
    OBVIOUS
  <2>4. ASSUME NEW s \in Receipts PROVE <<"enqueue", s, Pending>> \notin next
    BY <2>1, <2>2
  <2>5. ASSUME NEW s \in Receipts PROVE next # {<<"broadcast", s, Pending>>}
    <3> SUFFICES ASSUME <<"broadcast", s, Pending>> \in next PROVE FALSE
      BY <2>3
    <3> QED
      BY <2>1, <2>2
  <2> QED
    BY <2>4, <2>5
<1>4. \A d \in Clients : client'[d] = IF d = c THEN next ELSE client[d]
  BY <1>2 DEF TypeOK
<1>5. \A d \in Clients, s \in Receipts : <<"enqueue", s, Pending>> \notin client'[d]
  BY <1>3, <1>4 DEF RequestsBoundBroadcasts
<1>6. ASSUME NEW s \in Receipts
      PROVE  /\ IsFiniteSet(Waiting(s)')
             /\ sent'[s] + Cardinality(Waiting(s)') <= requests'[s]
  <2>0. /\ IsFiniteSet(Waiting(s)) /\ sent[s] + Cardinality(Waiting(s)) <= requests[s]
        /\ sent[s] \in Nat /\ requests[s] \in Nat
    BY DEF RequestsBoundBroadcasts, TypeOK
  <2>1. CASE s = r
    <3>1. Waiting(s)' = Waiting(s) \ {c} /\ c \in Waiting(s)
      BY <1>1, <1>3, <1>4, <2>1 DEF Waiting
    <3>2. sent'[s] \in {sent[s], sent[s] + 1} /\ requests'[s] = requests[s]
      BY <1>1, <2>1 DEF TypeOK
    <3>3. /\ IsFiniteSet(Waiting(s)') /\ Cardinality(Waiting(s)') = Cardinality(Waiting(s)) - 1
          /\ Cardinality(Waiting(s)) \in Nat
      BY <2>0, <3>1, OneLess
    <3> QED
      BY <2>0, <3>2, <3>3
  <2>2. CASE s # r
    <3>1. <<"broadcast", r, Pending>> # <<"broadcast", s, Pending>>
      BY <2>2
    <3>2. Waiting(s)' = Waiting(s)
      BY <1>1, <1>3, <1>4, <3>1 DEF Waiting
    <3>3. sent'[s] = sent[s] /\ requests'[s] = requests[s]
      BY <1>1, <2>2 DEF TypeOK
    <3> QED
      BY <2>0, <3>2, <3>3
  <2> QED
    BY <2>1, <2>2
<1> QED
  BY <1>1, <1>5, <1>6 DEF RequestsBoundBroadcasts

\* A step that broadcasts nothing and that requests only end in.
LEMMA RequestRests ==
    ASSUME TypeOK, RequestsBoundBroadcasts, UNCHANGED <<jobs, sent, requests>>,
           NEW c \in Clients, client' = [client EXCEPT ![c] = {}] \/ client' = client
    PROVE  RequestsBoundBroadcasts'
<1>1. \A d \in Clients : client'[d] \in {client[d], {}}
  BY DEF TypeOK
<1>2. ASSUME NEW s \in Receipts, Immediate
      PROVE  /\ IsFiniteSet(Waiting(s)')
             /\ sent'[s] + Cardinality(Waiting(s)') <= requests'[s]
  <2>1. IsFiniteSet(Waiting(s)) /\ sent[s] + Cardinality(Waiting(s)) <= requests[s]
    BY <1>2 DEF RequestsBoundBroadcasts
  <2>2. Waiting(s)' \subseteq Waiting(s)
    BY <1>1 DEF Waiting
  <2>3. IsFiniteSet(Waiting(s)') /\ Cardinality(Waiting(s)') <= Cardinality(Waiting(s))
    BY <2>1, <2>2, FS_Subset
  <2>4. /\ Cardinality(Waiting(s)) \in Nat /\ Cardinality(Waiting(s)') \in Nat
        /\ sent[s] \in Nat /\ requests[s] \in Nat
    BY <2>1, <2>3, FS_CardinalityType DEF TypeOK
  <2> QED
    BY <2>1, <2>3, <2>4
<1> QED
  BY <1>1, <1>2 DEF RequestsBoundBroadcasts

\* Every step keeps the account of requests and broadcasts.
LEMMA RequestsStep ==
    ASSUME IInv, RequestsBoundBroadcasts, [Next]_vars
    PROVE  RequestsBoundBroadcasts'
<1> SUFFICES ASSUME Immediate PROVE RequestsBoundBroadcasts'
  BY DEF RequestsBoundBroadcasts
<1>0. TypeOK /\ \A w \in Workers : pc[w] = "idle"
  BY DEF IInv, ModesAreApart
<1>1. ASSUME NEW c \in Clients, NEW r \in Receipts, Enqueue(c, r)
      PROVE  FALSE
  BY <1>1 DEF Enqueue, RequestsBoundBroadcasts
<1>2. ASSUME NEW c \in Clients, NEW r \in Receipts, CreateReceipt(c, r) \/ CreateReceiptConflict(c, r)
      PROVE  RequestsBoundBroadcasts'
  <2>1. UNCHANGED <<jobs, sent, requests>> /\ client' = [client EXCEPT ![c] = {}]
    BY <1>2 DEF CreateReceipt, CreateReceiptConflict, tables
  <2> QED
    BY <1>0, <2>1, RequestRests
<1>3. ASSUME NEW c \in Clients, CrashClient(c)
      PROVE  RequestsBoundBroadcasts'
  <2>1. UNCHANGED <<jobs, sent, requests>> /\ client' = [client EXCEPT ![c] = {}]
    BY <1>3 DEF CrashClient, tables
  <2> QED
    BY <1>0, <2>1, RequestRests
<1>4. ASSUME NEW w \in Workers, Cycle(w) \/ CrashWorker(w)
      PROVE  FALSE
  BY <1>0, <1>4 DEF Cycle, StartCycle, Claim, NextJob, EndCycle, SubmitReturns, SubmitRaises,
     MarkDone, SetReceiptTxid, UpdateRaises, MarkFailed, CrashWorker
<1>5. CASE UNCHANGED vars
  BY <1>5 DEF vars, RequestsBoundBroadcasts, Waiting
<1> QED
  BY <1>0, <1>1, <1>2, <1>3, <1>4, <1>5, NextSteps, RequestWaits, RequestBroadcasts

\* No commitment is broadcast more often than the attempts allow, whatever
\* raises, is re-queued or crashes; in immediate mode, than it was requested.
THEOREM BroadcastsBounded == Spec => []BroadcastsWithinAttempts
<1>1. Init => RequestsBoundBroadcasts
  <2> SUFFICES ASSUME Init PROVE RequestsBoundBroadcasts
    OBVIOUS
  <2>1. \A r \in Receipts : Waiting(r) = {}
    BY DEF Init, Waiting
  <2>2. \A r \in Receipts : IsFiniteSet(Waiting(r)) /\ Cardinality(Waiting(r)) = 0
    BY <2>1, FS_EmptySet
  <2>3. \A r \in Receipts : sent[r] = 0 /\ requests[r] = 0 /\ jobs[r].status = "missing"
    BY DEF Init
  <2>4. \A c \in Clients : client[c] = {}
    BY DEF Init
  <2> QED
    BY <2>2, <2>3, <2>4 DEF RequestsBoundBroadcasts
<1>2. IInv /\ RequestsBoundBroadcasts => BroadcastsWithinAttempts
  <2>1. CASE ~Immediate
    BY <2>1, ConstantsAssumption
       DEF IInv, TypeOK, JobRow, AttemptsBoundBroadcasts, Bounded, BroadcastsWithinAttempts
  <2>2. ASSUME Immediate, IInv, RequestsBoundBroadcasts, NEW r \in Receipts
        PROVE  sent[r] <= requests[r] /\ jobs[r].status \notin {"queued", "failed"}
    <3>1. /\ sent[r] + Cardinality(Waiting(r)) <= requests[r] /\ jobs[r].status = "missing"
          /\ Cardinality(Waiting(r)) \in Nat
      BY <2>2, FS_CardinalityType DEF RequestsBoundBroadcasts
    <3>2. sent[r] \in Nat /\ requests[r] \in Nat
      BY <2>2 DEF IInv, TypeOK
    <3> QED
      BY <3>1, <3>2
  <2> QED
    BY <2>1, <2>2 DEF BroadcastsWithinAttempts
<1> QED
  BY <1>1, <1>2, RequestsStep, Invariance, PTL DEF Spec

\* A receipt that names a transaction keeps it.
THEOREM ReceiptTxidForGood == Spec => ReceiptTxidIsFinal
<1>1. ASSUME IInv, [Next]_vars, NEW r \in Receipts, receipt[r].btc_txid # Pending
      PROVE  receipt'[r] = receipt[r]
  <2>1. receipt \in [Receipts -> [exists : BOOLEAN, btc_txid : Nat]]
    BY <1>1 DEF IInv, TypeOK
  <2>2. receipt[r].exists /\ (~Immediate => \A w \in Workers : r \notin Holds(w))
    BY <1>1 DEF IInv, TxidsComeLast
  <2>3. ASSUME NEW c \in Clients, NEW s \in Receipts, CreateReceipt(c, s)
        PROVE  receipt'[r] = receipt[r]
    BY <2>1, <2>2, <2>3 DEF CreateReceipt, Insertable
  <2>4. ASSUME NEW w \in Workers, SetReceiptTxid(w) PROVE receipt'[r] = receipt[r]
    <3>1. PICK s \in job[w] : receipt' = [receipt EXCEPT ![s].btc_txid = txid[w]]
      BY <2>4 DEF SetReceiptTxid
    <3>2. ~Immediate
      BY <1>1, <2>4, Running DEF SetReceiptTxid
    <3> QED
      BY <2>1, <2>2, <3>1, <3>2 DEF Holds
  <2>5. ASSUME NEW c \in Clients, NEW s \in Receipts,
               \/ RequestAnchor(c, s) \/ Broadcast(c, s) \/ BroadcastRaises(c, s)
               \/ CreateReceiptConflict(c, s) \/ Enqueue(c, s)
        PROVE  receipt' = receipt
    BY <2>5 DEF RequestAnchor, Broadcast, BroadcastRaises, CreateReceiptConflict, Enqueue, tables
  <2>6. ASSUME NEW c \in Clients, CrashClient(c) PROVE receipt' = receipt
    BY <2>6 DEF CrashClient, tables
  <2>7. ASSUME NEW w \in Workers, Cycle(w) \/ CrashWorker(w), ~SetReceiptTxid(w)
        PROVE  receipt' = receipt
    BY <2>7 DEF Cycle, StartCycle, Claim, NextJob, EndCycle, SubmitReturns, SubmitRaises,
       MarkDone, UpdateRaises, MarkFailed, CrashWorker, tables
  <2>8. CASE UNCHANGED vars
    BY <2>8 DEF vars
  <2> QED
    BY <1>1, <2>3, <2>4, <2>5, <2>6, <2>7, <2>8, NextSteps
<1>2. IInv /\ [Next]_vars =>
        [\A r \in Receipts : receipt[r].btc_txid # Pending => receipt'[r] = receipt[r]]_receipt
  BY <1>1
<1> QED
  BY <1>2, Invariance, PTL DEF Spec, ReceiptTxidIsFinal

-----------------------------------------------------------------------------
(* In batch mode the timeline jobs implement the job queue of AnchorJobs.     *)

\* Where a job is, seen from the worker that holds it.
Stage(w, r) ==
    IF r \in claimed[w] \/ pc[w] = "submit" THEN "claimed"
    ELSE IF pc[w] \in {"mark_done", "set_receipt"} THEN "broadcast"
    ELSE "refused"

StageOk(r) ==
    /\ \A w \in Workers : r \in Holds(w) => JobState(r) = Stage(w, r)
    /\ (\A w \in Workers : r \notin Holds(w)) =>
          JobState(r) = IF jobs[r].status = "running" THEN "lost" ELSE jobs[r].status

StagesOk == \A r \in Receipts : StageOk(r)

\* What is marked done, or about to be, was broadcast.
DoneWasSent ==
    \A r \in Receipts :
        /\ jobs[r].status = "done" => sent[r] > 0
        /\ \A w \in Workers : r \in job[w] /\ pc[w] = "mark_done" => sent[r] > 0

\* A claim has one owner, who determines where the job is.
LEMMA HeldStages == IInv => StagesOk
<1> SUFFICES ASSUME IInv, NEW r \in Receipts
             PROVE  StageOk(r)
  BY DEF StagesOk
<1>1. ClaimExclusive /\ \A w \in Workers : HoldsItsJobs(w) /\ pc[w] \in PCs
  BY DEF IInv, WorkersHoldJobs, TypeOK
<1>2. ASSUME NEW w \in Workers, r \in Holds(w)
      PROVE  JobState(r) = Stage(w, r)
  <2>1. \A v \in Workers : r \in claimed[v] \cup job[v] => v = w
    BY <1>1, <1>2 DEF ClaimExclusive, Holds
  <2>2. r \in job[w] =>
          r \notin claimed[w] /\ pc[w] \in {"submit", "mark_done", "set_receipt", "mark_failed"}
    BY <1>1 DEF HoldsItsJobs, PCs
  <2> QED
    BY <1>2, <2>1, <2>2 DEF JobState, InHands, Stage, Holds
<1>3. ASSUME \A w \in Workers : r \notin Holds(w)
      PROVE  JobState(r) = IF jobs[r].status = "running" THEN "lost" ELSE jobs[r].status
  BY <1>3 DEF JobState, InHands, Holds
<1> QED
  BY <1>2, <1>3 DEF StageOk

\* Marking a job done follows its broadcast.
LEMMA DoneWasSentStep ==
  ASSUME IInv, DoneWasSent, [Next]_vars
  PROVE  DoneWasSent'
<1>0. TypeOK
  BY DEF IInv
<1>1. ASSUME NEW c \in Clients, NEW r \in Receipts,
             \/ RequestAnchor(c, r) \/ Broadcast(c, r) \/ BroadcastRaises(c, r)
             \/ CreateReceipt(c, r) \/ CreateReceiptConflict(c, r) \/ Enqueue(c, r)
      PROVE  DoneWasSent'
  <2>1. UNCHANGED <<pc, job>> /\ \A s \in Receipts : sent'[s] \in Nat /\ sent'[s] >= sent[s]
    BY <1>0, <1>1 DEF RequestAnchor, Broadcast, BroadcastRaises, CreateReceipt,
       CreateReceiptConflict, Enqueue, tables, workerVars, TypeOK
  <2>2. \A s \in Receipts : jobs'[s].status = "done" => jobs[s].status = "done"
    BY <1>0, <1>1 DEF RequestAnchor, Broadcast, BroadcastRaises, CreateReceipt,
       CreateReceiptConflict, Enqueue, tables, TypeOK, JobRow
  <2>3. \A s \in Receipts : sent[s] \in Nat
    BY <1>0 DEF TypeOK
  <2> QED
    BY <2>1, <2>2, <2>3 DEF DoneWasSent
<1>2. ASSUME NEW w \in Workers, SubmitReturns(w) \/ SubmitRaises(w)
      PROVE  DoneWasSent'
  <2>1. \A s \in Receipts : sent'[s] \in Nat /\ sent[s] \in Nat /\ sent'[s] >= sent[s]
    BY <1>0, <1>2 DEF SubmitReturns, SubmitRaises, TypeOK
  <2>2. UNCHANGED <<jobs, job>> /\ \A v \in Workers : v # w => pc'[v] = pc[v]
    BY <1>0, <1>2 DEF SubmitReturns, SubmitRaises, TypeOK
  <2>3. ASSUME NEW r \in Receipts, r \in job[w], pc'[w] = "mark_done"
        PROVE  sent'[r] > 0
    <3>1. SubmitReturns(w)
      BY <1>0, <1>2, <2>3 DEF SubmitRaises, TypeOK
    <3>2. \A s \in job[w] : s = r
      BY <2>3 DEF IInv, WorkersHoldJobs, HoldsItsJobs
    <3>3. sent' = [sent EXCEPT ![r] = sent[r] + 1]
      BY <3>1, <3>2 DEF SubmitReturns
    <3> QED
      BY <1>0, <2>1, <3>3 DEF TypeOK
  <2> QED
    BY <2>1, <2>2, <2>3 DEF DoneWasSent
<1>3. ASSUME NEW w \in Workers, MarkDone(w)
      PROVE  DoneWasSent'
  <2>1. PICK d \in job[w] : jobs' = [jobs EXCEPT ![d] = Done(jobs[d], txid[w])]
    BY <1>3 DEF MarkDone
  <2>2. d \in Receipts /\ sent[d] > 0
    BY <1>0, <1>3, <2>1 DEF MarkDone, DoneWasSent, TypeOK
  <2>3. \A s \in Receipts : s # d => jobs'[s] = jobs[s]
    BY <1>0, <2>1, <2>2 DEF TypeOK
  <2>4. UNCHANGED <<sent, job>> /\ \A v \in Workers : pc'[v] = "mark_done" => pc[v] = "mark_done"
    BY <1>0, <1>3 DEF MarkDone, TypeOK
  <2> QED
    BY <2>2, <2>3, <2>4 DEF DoneWasSent
<1>4. ASSUME NEW w \in Workers,
             \/ StartCycle(w) \/ Claim(w) \/ NextJob(w) \/ EndCycle(w)
             \/ SetReceiptTxid(w) \/ UpdateRaises(w) \/ MarkFailed(w) \/ CrashWorker(w)
      PROVE  DoneWasSent'
  <2>1. sent' = sent
    BY <1>4 DEF StartCycle, Claim, NextJob, EndCycle, SetReceiptTxid, UpdateRaises, MarkFailed,
       CrashWorker, tables
  <2>2. \A s \in Receipts : jobs'[s].status = "done" => jobs[s].status = "done"
    <3>1. CASE StartCycle(w)
      BY <1>0, <3>1 DEF StartCycle, TypeOK, JobRow
    <3>2. CASE Claim(w)
      BY <1>0, <3>2 DEF Claim, TypeOK, JobRow
    <3>3. CASE MarkFailed(w)
      <4>1. PICK d \in job[w] : jobs' = [jobs EXCEPT ![d] = Failed(jobs[d])]
        BY <3>3 DEF MarkFailed
      <4>2. d \in Receipts /\ jobs[d] \in JobRow
        BY <1>0, <4>1 DEF TypeOK
      <4>3. Failed(jobs[d]).status = "failed"
        BY <4>2 DEF Failed, JobRow
      <4> QED
        BY <1>0, <4>1, <4>2, <4>3 DEF TypeOK
    <3> QED
      BY <1>4, <3>1, <3>2, <3>3 DEF NextJob, EndCycle, SetReceiptTxid, UpdateRaises, CrashWorker,
         tables
  <2>3. \A v \in Workers : pc'[v] = "mark_done" => pc[v] = "mark_done" /\ job'[v] = job[v]
    BY <1>0, <1>4 DEF StartCycle, Claim, NextJob, EndCycle, SetReceiptTxid, UpdateRaises,
       MarkFailed, CrashWorker, TypeOK
  <2> QED
    BY <2>1, <2>2, <2>3 DEF DoneWasSent
<1>5. ASSUME NEW c \in Clients, CrashClient(c)
      PROVE  DoneWasSent'
  BY <1>5 DEF CrashClient, tables, workerVars, DoneWasSent
<1>6. CASE UNCHANGED vars
  BY <1>6 DEF vars, DoneWasSent
<1> QED
  BY <1>1, <1>2, <1>3, <1>4, <1>5, <1>6 DEF Next, Request, Cycle

\* The moves of the job queue, row by row.
LEMMA QueueMoved ==
  ASSUME NEW S \in SUBSET Receipts, NEW to,
         \A r \in Receipts : JobState(r)' = IF r \in S THEN to ELSE JobState(r)
  PROVE  Queue!Moved(S, to)
  BY DEF Queue!Moved

LEMMA QueueOneMoved ==
  ASSUME NEW d \in Receipts, NEW to, JobState(d)' = to,
         \A r \in Receipts : r # d => JobState(r)' = JobState(r)
  PROVE  Queue!Moved({d}, to)
  BY QueueMoved

\* Nothing but the states of jobs changes.
QueueKeeps ==
    /\ \A r \in Receipts : jobs'[r].attempts = jobs[r].attempts
    /\ UNCHANGED <<sent, crashes>>

QueueSteps == [Queue!Next]_<<[r \in Receipts |-> JobState(r)],
                             [r \in Receipts |-> jobs[r].attempts], sent, crashes>>

LEMMA QueueStutters ==
  ASSUME QueueKeeps, \A r \in Receipts : JobState(r)' = JobState(r)
  PROVE  QueueSteps
  BY DEF QueueKeeps, QueueSteps

LEMMA QueueClaims ==
  ASSUME QueueKeeps, NEW S \in SUBSET Receipts,
         \A r \in S : JobState(r) = "queued",
         \A r \in Receipts : JobState(r)' = IF r \in S THEN "claimed" ELSE JobState(r)
  PROVE  QueueSteps
<1>1. Queue!Claim(S)
  BY QueueMoved DEF Queue!Claim, Queue!In, QueueKeeps
<1> QED
  BY <1>1 DEF QueueSteps, Queue!Next

LEMMA QueueRetries ==
  ASSUME QueueKeeps, NEW S \in SUBSET Receipts,
         \A r \in S : JobState(r) = "failed" /\ jobs[r].attempts < MaxAttempts,
         \A r \in Receipts : JobState(r)' = IF r \in S THEN "queued" ELSE JobState(r)
  PROVE  QueueSteps
<1>1. Queue!Retry(S)
  BY QueueMoved DEF Queue!Retry, Queue!In, QueueKeeps
<1> QED
  BY <1>1 DEF QueueSteps, Queue!Next

LEMMA QueueEnqueues ==
  ASSUME QueueKeeps, NEW d \in Receipts,
         JobState(d) = "missing", JobState(d)' = "queued",
         \A r \in Receipts : r # d => JobState(r)' = JobState(r)
  PROVE  QueueSteps
<1>1. Queue!Enqueue(d)
  BY QueueOneMoved DEF Queue!Enqueue, Queue!In, QueueKeeps
<1> QED
  BY <1>1 DEF QueueSteps, Queue!Next

LEMMA QueueBroadcasts ==
  ASSUME UNCHANGED <<jobs, crashes>>, NEW d \in Receipts, sent' = [sent EXCEPT ![d] = @ + 1],
         JobState(d) = "claimed", JobState(d)' = "broadcast",
         \A r \in Receipts : r # d => JobState(r)' = JobState(r)
  PROVE  QueueSteps
<1>1. Queue!Broadcast(d)
  BY QueueOneMoved DEF Queue!Broadcast, Queue!In
<1> QED
  BY <1>1 DEF QueueSteps, Queue!Next

LEMMA QueueRefuses ==
  ASSUME UNCHANGED <<jobs, crashes>>, NEW d \in Receipts,
         \/ JobState(d) \in {"claimed", "broadcast"} /\ sent' = sent
         \/ JobState(d) = "claimed" /\ sent' = [sent EXCEPT ![d] = @ + 1],
         JobState(d)' = "refused",
         \A r \in Receipts : r # d => JobState(r)' = JobState(r)
  PROVE  QueueSteps
<1>1. Queue!Refuse(d)
  BY QueueOneMoved DEF Queue!Refuse, Queue!In
<1> QED
  BY <1>1 DEF QueueSteps, Queue!Next

LEMMA QueueSucceeds ==
  ASSUME QueueKeeps, NEW d \in Receipts,
         JobState(d) = "broadcast", JobState(d)' = "done",
         \A r \in Receipts : r # d => JobState(r)' = JobState(r)
  PROVE  QueueSteps
<1>1. Queue!Succeed(d)
  BY QueueOneMoved DEF Queue!Succeed, Queue!In, QueueKeeps
<1> QED
  BY <1>1 DEF QueueSteps, Queue!Next

LEMMA QueueFails ==
  ASSUME UNCHANGED <<sent, crashes>>, NEW d \in Receipts,
         \A r \in Receipts :
            jobs'[r].attempts = IF r = d THEN jobs[r].attempts + 1 ELSE jobs[r].attempts,
         JobState(d) = "refused", JobState(d)' = "failed",
         \A r \in Receipts : r # d => JobState(r)' = JobState(r)
  PROVE  QueueSteps
<1>1. Queue!Fail(d)
  BY QueueOneMoved DEF Queue!Fail, Queue!In
<1> QED
  BY <1>1 DEF QueueSteps, Queue!Next

LEMMA QueueLoses ==
  ASSUME NEW S \in SUBSET Receipts, NEW T \in SUBSET Receipts,
         crashes' = crashes + 1, sent' = sent,
         \A r \in Receipts :
            /\ jobs'[r].attempts = jobs[r].attempts
            /\ JobState(r)' = IF r \in T THEN "done" ELSE IF r \in S THEN "lost" ELSE JobState(r),
         \A r \in S : JobState(r) \in {"claimed", "broadcast", "refused"},
         \A r \in T : JobState(r) \in {"broadcast", "refused"} /\ sent[r] > 0
  PROVE  QueueSteps
<1>1. Queue!Abandon(S, T)
  BY DEF Queue!Abandon, Queue!In
<1> QED
  BY <1>1 DEF QueueSteps, Queue!Next

-----------------------------------------------------------------------------
(* The steps of requests and cycles as steps of the queue. *)

\* A job whose row and owner stay as they are stays where it is.
LEMMA StageFrame ==
  ASSUME StagesOk, StagesOk', NEW r \in Receipts,
         jobs'[r].status = jobs[r].status,
         \A w \in Workers : r \in Holds(w)' <=> r \in Holds(w),
         \A w \in Workers : r \in Holds(w) => Stage(w, r)' = Stage(w, r)
  PROVE  JobState(r)' = JobState(r)
<1>1. StageOk(r) /\ StageOk(r)'
  BY DEF StagesOk
<1> QED
  BY <1>1 DEF StageOk

\* What a step that leaves the workers alone does not change.
LEMMA WorkersRest ==
  ASSUME UNCHANGED workerVars
  PROVE  \A w, r : Holds(w)' = Holds(w) /\ Stage(w, r)' = Stage(w, r)
  BY DEF workerVars, Holds, Stage

\* Requests touch jobs only when they enqueue one; in batch mode they do not
\* broadcast.
LEMMA RequestsEnqueue ==
  ASSUME ~Immediate, IInv, StagesOk, StagesOk', NEW c \in Clients, NEW d \in Receipts,
         \/ RequestAnchor(c, d) \/ Broadcast(c, d) \/ BroadcastRaises(c, d)
         \/ CreateReceipt(c, d) \/ CreateReceiptConflict(c, d) \/ Enqueue(c, d)
  PROVE  QueueSteps
<1>0. TypeOK
  BY DEF IInv
<1>1. UNCHANGED <<workerVars, crashes>>
  BY DEF RequestAnchor, Broadcast, BroadcastRaises, CreateReceipt, CreateReceiptConflict, Enqueue
<1>2. <<"broadcast", d, Pending>> \notin client[c]
  BY DEF IInv, ModesAreApart, Pending
<1>3. sent' = sent
  BY <1>2 DEF RequestAnchor, Broadcast, BroadcastRaises, CreateReceipt, CreateReceiptConflict,
     Enqueue, tables
<1>4. CASE UNCHANGED jobs
  <2>1. \A r \in Receipts : JobState(r)' = JobState(r)
    BY <1>1, <1>4, WorkersRest, StageFrame
  <2> QED
    BY <1>1, <1>3, <1>4, <2>1, QueueStutters DEF QueueKeeps
<1>5. CASE jobs[d].status = "missing" /\ jobs' = [jobs EXCEPT ![d].status = "queued"]
  <2>1. \A r \in Receipts : /\ jobs'[r].attempts = jobs[r].attempts
                            /\ r # d => jobs'[r].status = jobs[r].status
                            /\ r = d => jobs'[r].status = "queued"
    BY <1>0, <1>5 DEF TypeOK, JobRow
  <2>2. \A w \in Workers : d \notin Holds(w)
    BY <1>5 DEF IInv, WorkersHoldJobs, HoldsItsJobs, Holds
  <2>3. \A r \in Receipts : r # d => JobState(r)' = JobState(r)
    BY <1>1, <2>1, WorkersRest, StageFrame
  <2>4. \A w \in Workers : d \notin Holds(w)'
    BY <1>1, <2>2, WorkersRest
  <2>5. JobState(d) = "missing"
    BY <1>5, <2>2 DEF StagesOk, StageOk
  <2>6. JobState(d)' = "queued"
    BY <2>1, <2>4 DEF StagesOk, StageOk
  <2> QED
    BY <1>1, <1>3, <2>1, <2>3, <2>5, <2>6, QueueEnqueues DEF QueueKeeps
<1> QED
  BY <1>4, <1>5 DEF RequestAnchor, Broadcast, BroadcastRaises, CreateReceipt,
     CreateReceiptConflict, Enqueue, tables

\* A request that dies holds no claim.
LEMMA ClientsLoseNothing ==
  ASSUME StagesOk, StagesOk', NEW c \in Clients, CrashClient(c)
  PROVE  QueueSteps
<1>1. UNCHANGED <<tables, workerVars>> /\ crashes' = crashes + 1
  BY DEF CrashClient
<1>2. \A r \in Receipts : JobState(r)' = JobState(r)
  BY <1>1, WorkersRest, StageFrame DEF tables
<1>3. PICK S \in SUBSET Receipts : S = {}
  OBVIOUS
<1>4. \A r \in Receipts :
        /\ jobs'[r].attempts = jobs[r].attempts
        /\ JobState(r)' = IF r \in S THEN "done" ELSE IF r \in S THEN "lost" ELSE JobState(r)
  BY <1>1, <1>2, <1>3 DEF tables
<1>5. sent' = sent
  BY <1>1 DEF tables
<1> QED
  BY <1>1, <1>3, <1>4, <1>5, QueueLoses

\* The re-queue takes failed rows with attempts left, which nobody holds.
LEMMA StartRetries ==
  ASSUME IInv, StagesOk, StagesOk', NEW w \in Workers, StartCycle(w)
  PROVE  QueueSteps
<1>0. TypeOK /\ HoldsItsJobs(w)
  BY DEF IInv, WorkersHoldJobs
<1>1. /\ pc[w] = "idle" /\ pc' = [pc EXCEPT ![w] = "claim"]
      /\ UNCHANGED <<sent, claimed, job, crashes>>
  BY DEF StartCycle
<1>2. \A r \in Receipts :
        /\ jobs'[r].attempts = jobs[r].attempts
        /\ ~Retryable(jobs[r]) => jobs'[r].status = jobs[r].status
        /\ Retryable(jobs[r]) => jobs'[r].status = "queued"
  BY <1>0 DEF StartCycle, TypeOK, JobRow
<1>3. \A r : \A v \in Workers : /\ Holds(v)' = Holds(v)
                                /\ r \in Holds(v) => Stage(v, r)' = Stage(v, r)
  BY <1>0, <1>1 DEF Holds, Stage, HoldsItsJobs, TypeOK
<1>4. \A r \in Receipts : ~Retryable(jobs[r]) => JobState(r)' = JobState(r)
  BY <1>2, <1>3, StageFrame
<1>5. ASSUME NEW r \in Receipts, Retryable(jobs[r])
      PROVE  /\ JobState(r) = "failed" /\ JobState(r)' = "queued"
             /\ jobs[r].attempts < MaxAttempts
  <2>1. jobs[r].status = "failed" /\ jobs[r].attempts < MaxAttempts
    BY <1>5 DEF Retryable
  <2>2. \A v \in Workers : r \notin Holds(v)
    BY <2>1 DEF IInv, WorkersHoldJobs, HoldsItsJobs, Holds
  <2>3. \A v \in Workers : r \notin Holds(v)'
    BY <1>3, <2>2
  <2>4. JobState(r) = "failed"
    BY <2>1, <2>2 DEF StagesOk, StageOk
  <2>5. JobState(r)' = "queued"
    BY <1>2, <1>5, <2>3 DEF StagesOk, StageOk
  <2> QED
    BY <2>1, <2>4, <2>5
<1>6. PICK S \in SUBSET Receipts : S = {r \in Receipts : Retryable(jobs[r])}
  OBVIOUS
<1>7. QueueKeeps
  BY <1>1, <1>2 DEF QueueKeeps
<1> QED
  BY <1>4, <1>5, <1>6, <1>7, QueueRetries

\* A claim takes queued jobs, which nobody holds.
LEMMA ClaimClaims ==
  ASSUME IInv, StagesOk, StagesOk', NEW w \in Workers, Claim(w)
  PROVE  QueueSteps
<1>0. TypeOK /\ HoldsItsJobs(w)
  BY DEF IInv, WorkersHoldJobs
<1>1. PICK batch \in SUBSET Queued :
        /\ pc[w] = "claim" /\ pc' = [pc EXCEPT ![w] = "next"]
        /\ jobs' = [r \in Receipts |->
                      IF r \in batch THEN [jobs[r] EXCEPT !.status = "running"] ELSE jobs[r]]
        /\ claimed' = [claimed EXCEPT ![w] = batch] /\ UNCHANGED <<sent, job, crashes>>
  BY DEF Claim
<1>2. batch \in SUBSET Receipts /\ \A r \in batch : jobs[r].status = "queued"
  BY <1>1 DEF Queued
<1>3. \A r \in Receipts : /\ jobs'[r].attempts = jobs[r].attempts
                          /\ r \notin batch => jobs'[r].status = jobs[r].status
  BY <1>0, <1>1 DEF TypeOK, JobRow
<1>4. QueueKeeps
  BY <1>1, <1>3 DEF QueueKeeps
<1>5. claimed[w] = {} /\ job[w] = {}
  BY <1>0, <1>1 DEF HoldsItsJobs
<1>6. \A r \in Receipts : \A v \in Workers :
        r \notin batch => /\ r \in Holds(v)' <=> r \in Holds(v)
                          /\ r \in Holds(v) => Stage(v, r)' = Stage(v, r)
  BY <1>0, <1>1, <1>5 DEF Holds, Stage, TypeOK
<1>7. \A r \in Receipts : r \notin batch => JobState(r)' = JobState(r)
  BY <1>3, <1>6, StageFrame
<1>8. ASSUME NEW r \in Receipts, r \in batch
      PROVE  JobState(r) = "queued" /\ JobState(r)' = "claimed"
  <2>1. \A v \in Workers : r \notin Holds(v)
    BY <1>2, <1>8 DEF IInv, WorkersHoldJobs, HoldsItsJobs, Holds
  <2>2. r \in claimed'[w]
    BY <1>0, <1>1, <1>8 DEF TypeOK
  <2>3. r \in Holds(w)' /\ Stage(w, r)' = "claimed"
    BY <2>2 DEF Holds, Stage
  <2>4. JobState(r) = "queued"
    BY <1>2, <1>8, <2>1 DEF StagesOk, StageOk
  <2>5. JobState(r)' = "claimed"
    BY <2>3 DEF StagesOk, StageOk
  <2> QED
    BY <2>4, <2>5
<1> QED
  BY <1>2, <1>4, <1>7, <1>8, QueueClaims

\* A worker takes up a job it has claimed, or ends its cycle.
LEMMA QuietSteps ==
  ASSUME IInv, StagesOk, StagesOk', NEW w \in Workers, NextJob(w) \/ EndCycle(w)
  PROVE  QueueSteps
<1>0. TypeOK /\ HoldsItsJobs(w)
  BY DEF IInv, WorkersHoldJobs
<1>1. UNCHANGED <<jobs, sent, crashes>> /\ pc[w] = "next" /\ job[w] = {}
  BY <1>0 DEF NextJob, EndCycle, tables, HoldsItsJobs
<1>2. \A r \in Receipts : \A v \in Workers :
        /\ r \in Holds(v)' <=> r \in Holds(v)
        /\ r \in Holds(v) => Stage(v, r)' = Stage(v, r)
  <2>1. CASE NextJob(w)
    <3>1. PICK d \in claimed[w] : /\ pc' = [pc EXCEPT ![w] = "submit"]
                                  /\ job' = [job EXCEPT ![w] = {d}]
                                  /\ claimed' = [claimed EXCEPT ![w] = claimed[w] \ {d}]
      BY <2>1 DEF NextJob
    <3>2. job'[w] \cup claimed'[w] = claimed[w] /\ pc'[w] = "submit"
      BY <1>0, <3>1 DEF TypeOK
    <3>3. \A v \in Workers : v # w => job'[v] = job[v] /\ claimed'[v] = claimed[v] /\ pc'[v] = pc[v]
      BY <1>0, <3>1 DEF TypeOK
    <3> QED
      BY <1>1, <3>2, <3>3 DEF Holds, Stage
  <2>2. CASE EndCycle(w)
    BY <1>0, <1>1, <2>2 DEF EndCycle, tables, Holds, Stage, TypeOK
  <2> QED
    BY <2>1, <2>2
<1>3. \A r \in Receipts : JobState(r)' = JobState(r)
  BY <1>1, <1>2, StageFrame
<1> QED
  BY <1>1, <1>3, QueueStutters DEF QueueKeeps

\* The job in hand.
LEMMA InHand ==
  ASSUME IInv, NEW w \in Workers, pc[w] \in {"submit", "mark_done", "set_receipt", "mark_failed"},
         NEW d \in job[w]
  PROVE  /\ job[w] = {d} /\ d \in Receipts /\ d \in Holds(w) /\ d \notin claimed[w]
         /\ \A v \in Workers : v # w => d \notin Holds(v)
<1>1. HoldsItsJobs(w) /\ ClaimExclusive /\ TypeOK
  BY DEF IInv, WorkersHoldJobs
<1> QED
  BY <1>1 DEF HoldsItsJobs, ClaimExclusive, Holds, TypeOK

\* A step of w's own job that leaves everybody else where they are.
LEMMA OthersStay ==
  ASSUME IInv, StagesOk, StagesOk', NEW w \in Workers, NEW d \in Receipts, job[w] = {d},
         claimed' = claimed, \A v \in Workers : v # w => job'[v] = job[v] /\ pc'[v] = pc[v],
         job'[w] \in {job[w], {}}, pc[w] = "submit" => pc'[w] # "submit",
         pc'[w] # "submit",
         \A r \in Receipts : r # d => jobs'[r].status = jobs[r].status
  PROVE  \A r \in Receipts : r # d => JobState(r)' = JobState(r)
<1>1. \A r \in Receipts : \A v \in Workers :
        r # d => /\ r \in Holds(v)' <=> r \in Holds(v)
                 /\ r \in Holds(v) => Stage(v, r)' = Stage(v, r)
  BY DEF Holds, Stage
<1> QED
  BY <1>1, StageFrame

\* A submission is a broadcast or a refusal of the job in hand.
LEMMA SubmitsOne ==
  ASSUME IInv, StagesOk, StagesOk', NEW w \in Workers, SubmitReturns(w) \/ SubmitRaises(w),
         job[w] # {}
  PROVE  QueueSteps
<1>0. TypeOK
  BY DEF IInv
<1>1. PICK d : d \in job[w]
  OBVIOUS
<1>2. pc[w] = "submit" /\ UNCHANGED <<jobs, claimed, job, crashes>>
  BY DEF SubmitReturns, SubmitRaises
<1>3. job[w] = {d} /\ d \in Receipts /\ d \in Holds(w) /\ d \notin claimed[w]
  BY <1>1, <1>2, InHand
<1>4. pc'[w] # "submit" /\ \A v \in Workers : v # w => pc'[v] = pc[v]
  BY <1>0 DEF SubmitReturns, SubmitRaises, TypeOK
<1>5. \A r \in Receipts : r # d => JobState(r)' = JobState(r)
  BY <1>2, <1>3, <1>4, OthersStay
<1>6. d \in Holds(w)' /\ Stage(w, d) = "claimed"
  BY <1>2, <1>3 DEF Holds, Stage
<1>7. JobState(d) = "claimed" /\ JobState(d)' = Stage(w, d)'
  BY <1>3, <1>6 DEF StagesOk, StageOk
<1>8. CASE SubmitReturns(w)
  <2>1. pc'[w] = "mark_done" /\ sent' = [sent EXCEPT ![d] = @ + 1]
    BY <1>0, <1>3, <1>8 DEF SubmitReturns, TypeOK
  <2>2. JobState(d)' = "broadcast"
    BY <1>2, <1>3, <1>7, <2>1 DEF Stage
  <2> QED
    BY <1>2, <1>3, <1>5, <1>7, <2>1, <2>2, QueueBroadcasts
<1>9. CASE SubmitRaises(w)
  <2>1. pc'[w] = "mark_failed" /\ (sent' = sent \/ sent' = [sent EXCEPT ![d] = @ + 1])
    BY <1>0, <1>3, <1>9 DEF SubmitRaises, TypeOK
  <2>2. JobState(d)' = "refused"
    BY <1>2, <1>3, <1>7, <2>1 DEF Stage
  <2> QED
    BY <1>2, <1>3, <1>5, <1>7, <2>1, <2>2, QueueRefuses
<1> QED
  BY <1>8, <1>9

\* Marking a job done does not move it in the queue: its receipt still waits.
LEMMA MarkDoneStays ==
  ASSUME IInv, StagesOk, StagesOk', NEW w \in Workers, MarkDone(w)
  PROVE  QueueSteps
<1>0. TypeOK
  BY DEF IInv
<1>1. PICK d \in job[w] : jobs' = [jobs EXCEPT ![d] = Done(jobs[d], txid[w])]
  BY DEF MarkDone
<1>2. /\ pc[w] = "mark_done" /\ pc' = [pc EXCEPT ![w] = "set_receipt"]
      /\ UNCHANGED <<sent, claimed, job, crashes>>
  BY DEF MarkDone
<1>3. job[w] = {d} /\ d \in Receipts /\ d \in Holds(w) /\ d \notin claimed[w]
  BY <1>1, <1>2, InHand
<1>4. \A r \in Receipts : /\ jobs'[r].attempts = jobs[r].attempts
                          /\ r # d => jobs'[r].status = jobs[r].status
  BY <1>0, <1>1, <1>3 DEF TypeOK, JobRow, Done
<1>5. \A r \in Receipts : r # d => JobState(r)' = JobState(r)
  BY <1>0, <1>2, <1>3, <1>4, OthersStay DEF TypeOK
<1>6. pc'[w] = "set_receipt"
  BY <1>0, <1>2 DEF TypeOK
<1>7. d \in Holds(w)' /\ Stage(w, d) = "broadcast" /\ Stage(w, d)' = "broadcast"
  BY <1>2, <1>3, <1>6 DEF Holds, Stage
<1>8. JobState(d)' = JobState(d)
  BY <1>3, <1>7 DEF StagesOk, StageOk
<1> QED
  BY <1>2, <1>4, <1>5, <1>8, QueueStutters DEF QueueKeeps

\* The receipt has its transaction: the job is settled.
LEMMA SetReceiptSucceeds ==
  ASSUME IInv, StagesOk, StagesOk', NEW w \in Workers, SetReceiptTxid(w)
  PROVE  QueueSteps
<1>0. TypeOK
  BY DEF IInv
<1>1. PICK d : d \in job[w]
  BY DEF SetReceiptTxid
<1>2. /\ pc[w] = "set_receipt" /\ pc' = [pc EXCEPT ![w] = "next"]
      /\ job' = [job EXCEPT ![w] = {}] /\ UNCHANGED <<jobs, sent, claimed, crashes>>
  BY DEF SetReceiptTxid
<1>3. /\ job[w] = {d} /\ d \in Receipts /\ d \in Holds(w) /\ d \notin claimed[w]
      /\ \A v \in Workers : v # w => d \notin Holds(v)
  BY <1>1, <1>2, InHand
<1>4. /\ \A v \in Workers : v # w => job'[v] = job[v] /\ pc'[v] = pc[v]
      /\ job'[w] = {} /\ pc'[w] = "next"
  BY <1>0, <1>2 DEF TypeOK
<1>5. \A r \in Receipts : r # d => JobState(r)' = JobState(r)
  BY <1>2, <1>3, <1>4, OthersStay
<1>6. jobs[d].status = "done"
  BY <1>1, <1>2 DEF IInv, WorkersHoldJobs, HoldsItsJobs
<1>7. \A v \in Workers : d \notin Holds(v)'
  BY <1>2, <1>3, <1>4 DEF Holds
<1>8. Stage(w, d) = "broadcast"
  BY <1>2, <1>3 DEF Stage
<1>9. JobState(d) = "broadcast"
  BY <1>3, <1>8 DEF StagesOk, StageOk
<1>10. JobState(d)' = "done"
  BY <1>2, <1>3, <1>6, <1>7 DEF StagesOk, StageOk
<1> QED
  BY <1>2, <1>3, <1>5, <1>9, <1>10, QueueSucceeds DEF QueueKeeps

\* An update that raises turns the broadcast into a failed attempt.
LEMMA UpdateRefuses ==
  ASSUME IInv, StagesOk, StagesOk', NEW w \in Workers, UpdateRaises(w), job[w] # {}
  PROVE  QueueSteps
<1>0. TypeOK
  BY DEF IInv
<1>1. PICK d : d \in job[w]
  OBVIOUS
<1>2. /\ pc[w] \in {"mark_done", "set_receipt"} /\ pc' = [pc EXCEPT ![w] = "mark_failed"]
      /\ UNCHANGED <<jobs, sent, claimed, job, crashes>>
  BY DEF UpdateRaises, tables
<1>3. job[w] = {d} /\ d \in Receipts /\ d \in Holds(w) /\ d \notin claimed[w]
  BY <1>1, <1>2, InHand
<1>4. pc'[w] = "mark_failed" /\ \A v \in Workers : v # w => pc'[v] = pc[v]
  BY <1>0, <1>2 DEF TypeOK
<1>5. \A r \in Receipts : r # d => JobState(r)' = JobState(r)
  BY <1>2, <1>3, <1>4, OthersStay
<1>6. d \in Holds(w)' /\ Stage(w, d) = "broadcast" /\ Stage(w, d)' = "refused"
  BY <1>2, <1>3, <1>4 DEF Holds, Stage
<1>7. JobState(d) = "broadcast" /\ JobState(d)' = "refused"
  BY <1>3, <1>6 DEF StagesOk, StageOk
<1> QED
  BY <1>2, <1>3, <1>5, <1>7, QueueRefuses

\* A failure is counted.
LEMMA MarkFailedFails ==
  ASSUME IInv, StagesOk, StagesOk', NEW w \in Workers, MarkFailed(w)
  PROVE  QueueSteps
<1>0. TypeOK
  BY DEF IInv
<1>1. PICK d \in job[w] : jobs' = [jobs EXCEPT ![d] = Failed(jobs[d])]
  BY DEF MarkFailed
<1>2. /\ pc[w] = "mark_failed" /\ pc' = [pc EXCEPT ![w] = "next"]
      /\ job' = [job EXCEPT ![w] = {}] /\ UNCHANGED <<sent, claimed, crashes>>
  BY DEF MarkFailed
<1>3. /\ job[w] = {d} /\ d \in Receipts /\ d \in Holds(w) /\ d \notin claimed[w]
      /\ \A v \in Workers : v # w => d \notin Holds(v)
  BY <1>1, <1>2, InHand
<1>4. /\ \A v \in Workers : v # w => job'[v] = job[v] /\ pc'[v] = pc[v]
      /\ job'[w] = {} /\ pc'[w] = "next"
  BY <1>0, <1>2 DEF TypeOK
<1>5. jobs[d] \in JobRow
  BY <1>0, <1>3 DEF TypeOK
<1>6. Failed(jobs[d]).status = "failed" /\ Failed(jobs[d]).attempts = jobs[d].attempts + 1
  BY <1>5 DEF Failed, JobRow
<1>7. /\ jobs'[d].status = "failed"
      /\ \A r \in Receipts :
            /\ jobs'[r].attempts = IF r = d THEN jobs[r].attempts + 1 ELSE jobs[r].attempts
            /\ r # d => jobs'[r].status = jobs[r].status
  BY <1>0, <1>1, <1>3, <1>6 DEF TypeOK
<1>8. \A r \in Receipts : r # d => JobState(r)' = JobState(r)
  BY <1>2, <1>3, <1>4, <1>7, OthersStay
<1>9. \A v \in Workers : d \notin Holds(v)'
  BY <1>2, <1>3, <1>4 DEF Holds
<1>10. Stage(w, d) = "refused"
  BY <1>2, <1>3 DEF Stage
<1>11. JobState(d) = "refused"
  BY <1>3, <1>10 DEF StagesOk, StageOk
<1>12. JobState(d)' = "failed"
  BY <1>3, <1>7, <1>9 DEF StagesOk, StageOk
<1> QED
  BY <1>2, <1>3, <1>7, <1>8, <1>11, <1>12, QueueFails

\* A cycle that dies loses its claims, but for a job it has marked done.
LEMMA WorkersLoseClaims ==
  ASSUME IInv, DoneWasSent, StagesOk, StagesOk', NEW w \in Workers, CrashWorker(w)
  PROVE  QueueSteps
<1>0. TypeOK /\ HoldsItsJobs(w) /\ pc[w] \in PCs
  BY DEF IInv, WorkersHoldJobs, TypeOK
<1>1. /\ crashes' = crashes + 1 /\ pc' = [pc EXCEPT ![w] = "idle"]
      /\ claimed' = [claimed EXCEPT ![w] = {}] /\ job' = [job EXCEPT ![w] = {}]
      /\ UNCHANGED <<jobs, sent>>
  BY DEF CrashWorker, tables
<1>2. \A v \in Workers : v # w => Holds(v)' = Holds(v) /\ \A r : Stage(v, r)' = Stage(v, r)
  BY <1>0, <1>1 DEF Holds, Stage, TypeOK
<1>3. \A r : r \notin Holds(w)'
  BY <1>0, <1>1 DEF Holds, TypeOK
<1>4. \A r \in Receipts : r \notin Holds(w) => JobState(r)' = JobState(r)
  BY <1>1, <1>2, <1>3, StageFrame
<1>5. ASSUME NEW r \in Receipts, r \in Holds(w)
      PROVE  JobState(r)' = IF jobs[r].status = "running" THEN "lost" ELSE jobs[r].status
  <2>1. \A v \in Workers : v # w => r \notin Holds(v)
    BY <1>5 DEF IInv, ClaimExclusive
  <2>2. \A v \in Workers : r \notin Holds(v)'
    BY <1>2, <1>3, <2>1
  <2> QED
    BY <1>1, <2>2 DEF StagesOk, StageOk
<1>6. \A r \in Receipts : r \in Holds(w) => JobState(r) = Stage(w, r)
  BY DEF StagesOk, StageOk
<1>7. \A r \in Receipts : r \in Holds(w) => Stage(w, r) \in {"claimed", "broadcast", "refused"}
  BY DEF Stage
<1>8. ASSUME NEW r \in Receipts, r \in Holds(w), jobs[r].status # "running"
      PROVE  /\ jobs[r].status = "done" /\ sent[r] > 0
             /\ Stage(w, r) \in {"broadcast", "refused"}
  <2>1. r \in job[w] /\ r \notin claimed[w] /\ jobs[r].status = "done" /\ pc[w] # "submit"
    BY <1>0, <1>8 DEF Holds, HoldsItsJobs
  <2> QED
    BY <2>1 DEF DoneWasSent, Stage
<1>9. PICK S \in SUBSET Receipts :
        S = {r \in Receipts : r \in Holds(w) /\ jobs[r].status = "running"}
  OBVIOUS
<1>10. PICK T \in SUBSET Receipts :
        T = {r \in Receipts : r \in Holds(w) /\ jobs[r].status # "running"}
  OBVIOUS
<1>11. \A r \in Receipts :
        /\ jobs'[r].attempts = jobs[r].attempts
        /\ JobState(r)' = IF r \in T THEN "done" ELSE IF r \in S THEN "lost" ELSE JobState(r)
  BY <1>1, <1>4, <1>5, <1>8, <1>9, <1>10
<1>12. /\ \A r \in S : JobState(r) \in {"claimed", "broadcast", "refused"}
       /\ \A r \in T : JobState(r) \in {"broadcast", "refused"} /\ sent[r] > 0
  BY <1>6, <1>7, <1>8, <1>9, <1>10
<1> QED
  BY <1>1, <1>11, <1>12, QueueLoses

\* The invariant does not say that a worker that submits has a job; without one
\* its steps would change no job.
LEMMA NothingInHand ==
  ASSUME IInv, StagesOk, StagesOk', NEW w \in Workers, job[w] = {},
         SubmitReturns(w) \/ SubmitRaises(w) \/ UpdateRaises(w)
  PROVE  QueueSteps
<1>0. TypeOK
  BY DEF IInv
<1>1. UNCHANGED <<jobs, sent, claimed, job, crashes>> /\ \A v \in Workers : v # w => pc'[v] = pc[v]
  BY <1>0 DEF SubmitReturns, SubmitRaises, UpdateRaises, tables, TypeOK
<1>2. \A r \in Receipts : \A v \in Workers :
        /\ r \in Holds(v)' <=> r \in Holds(v)
        /\ r \in Holds(v) => Stage(v, r)' = Stage(v, r)
  BY <1>1 DEF Holds, Stage
<1>3. \A r \in Receipts : JobState(r)' = JobState(r)
  BY <1>1, <1>2, StageFrame
<1> QED
  BY <1>1, <1>3, QueueStutters DEF QueueKeeps

\* In batch mode every step is a step of the queue, or leaves it alone.
LEMMA StepsOfQueue ==
  ASSUME ~Immediate, IInv, DoneWasSent, StagesOk, StagesOk', [Next]_vars
  PROVE  QueueSteps
<1>1. CASE UNCHANGED vars
  <2>1. UNCHANGED <<workerVars, jobs, sent, crashes>>
    BY <1>1 DEF vars, workerVars
  <2>2. \A r \in Receipts : JobState(r)' = JobState(r)
    BY <2>1, WorkersRest, StageFrame
  <2> QED
    BY <2>1, <2>2, QueueStutters DEF QueueKeeps
<1>2. ASSUME NEW w \in Workers, Cycle(w) PROVE QueueSteps
  BY <1>2, StartRetries, ClaimClaims, QuietSteps, SubmitsOne, MarkDoneStays, SetReceiptSucceeds,
     UpdateRefuses, MarkFailedFails, NothingInHand DEF Cycle
<1> QED
  BY <1>1, <1>2, RequestsEnqueue, ClientsLoseNothing, WorkersLoseClaims, NextSteps

\* In the beginning every job is missing.
LEMMA StartsQueue == Init => Queue!Init
<1> SUFFICES ASSUME Init PROVE Queue!Init
  OBVIOUS
<1>1. \A r \in Receipts : JobState(r) = "missing"
  BY DEF Init, JobState, InHands
<1> QED
  BY <1>1 DEF Init, Queue!Init

\* In batch mode the timeline jobs implement the job queue of AnchorJobs; in
\* immediate mode no job is ever enqueued, and requests broadcast themselves.
THEOREM TimelineKeepsQueue ==
  ASSUME ~Immediate
  PROVE  Spec => QueueIsKept
<1>1. IInv /\ DoneWasSent /\ StagesOk /\ StagesOk' /\ [Next]_vars
        => [Queue!Next]_<<[r \in Receipts |-> JobState(r)],
                          [r \in Receipts |-> jobs[r].attempts], sent, crashes>>
  BY StepsOfQueue DEF QueueSteps
<1>2. Init => DoneWasSent
  BY DEF Init, DoneWasSent
<1> QED
  BY <1>1, <1>2, DoneWasSentStep, HeldStages, StartsQueue, Invariance, PTL
     DEF Spec, QueueIsKept, Queue!Spec

=============================================================================

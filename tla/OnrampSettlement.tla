---------------------------- MODULE OnrampSettlement ----------------------------
(***************************************************************************)
(* Settlement of crypto on-ramp payments (backend/payments/service.py,     *)
(* store.py, reserve_job.py, backend/economics/hooks.py).                  *)
(*                                                                         *)
(* A webhook, or the reconciliation, settles a purchase in a pipeline of   *)
(* statements that are committed one by one, each once the one before is:  *)
(* the payment, its receipt, reserve and keys, an event after each of them *)
(* that is mirrored to the treasury ledger, the credit of the keys and the *)
(* accrual of the affiliate.  Deliveries are repeated and overlap, and a   *)
(* pipeline can end anywhere.  A daily job releases reserves.              *)
(***************************************************************************)
EXTENDS Naturals, Sequences, FiniteSets

CONSTANTS
    Purchases,   \* (provider, provider_payment_id); each buys one key at least
    Reference,   \* provider_payment_id of a purchase
    TxOf,        \* tx_hash of a purchase
    Referred,    \* purchases that an affiliate earns from
    Handlers,    \* requests and reconciliation passes
    Jobs,        \* executions of the release job
    MaxFaults    \* bound on pipelines and jobs that end by an error

ASSUME OnrampConstants ==
    /\ Referred \subseteq Purchases
    /\ MaxFaults \in Nat

\* The statements of settle_onramp_payment and after_claw_key_issued, in order.
Pipeline == <<
    <<"insert", "payments">>,
    <<"persist", "PaymentReceived">>, <<"mirror", "PaymentReceived">>,
    <<"insert", "receipts">>,
    <<"persist", "CryptoReceived">>, <<"mirror", "CryptoReceived">>,
    <<"insert", "reserves">>,
    <<"persist", "ReserveAllocated">>, <<"mirror", "ReserveAllocated">>,
    <<"insert", "onramp_keys">>, <<"insert", "treasury_keys">>,
    <<"persist", "ClawKeyIssued">>, <<"mirror", "ClawKeyIssued">>,
    <<"claim", "keys_credited">>, <<"insert", "credits">>,
    <<"claim", "accrual_emitted">>, <<"insert", "accruals">>,
    <<"persist", "AffiliateAccrued">>, <<"mirror", "AffiliateAccrued">>,
    <<"answer", "ok">> >>

AccrualStage == 16  \* the claim of the accrual
AnswerStage == 20

PlainTables == {"reserves", "onramp_keys", "treasury_keys", "credits"}
Tables == PlainTables \cup {"payments", "receipts", "accruals"}
PaymentEvents ==
    {"PaymentReceived", "CryptoReceived", "ReserveAllocated", "ClawKeyIssued", "AffiliateAccrued"}
EventTypes == PaymentEvents \cup {"ReserveReleased"}
Hooks == {"keys_credited", "accrual_emitted"}

VARIABLES
    rows,           \* rows of each table for a purchase
    canonical,      \* payment_canonical_events
    ledger,         \* the events of the treasury ledger
    claimed,        \* economics_payment_hook
    released,       \* reserves that are marked released
    acknowledged,   \* purchases that were answered "ok", duplicates included
    stage,          \* the next statement of a handler; 0 when it is idle
    purchase,       \* what a handler settles
    job_step, due, reserve,   \* a job: where it is, what it has listed, what it reports
    faults

onrampVars == <<rows, canonical, ledger, claimed, released, acknowledged,
                stage, purchase, job_step, due, reserve, faults>>
onrampTables == <<rows, canonical, ledger, claimed>>
jobVars == <<released, job_step, due, reserve>>

OnrampTypeOK ==
    /\ rows \in [Tables -> [Purchases -> Nat]]
    /\ canonical \subseteq EventTypes \X Purchases
    /\ ledger \subseteq EventTypes \X Purchases
    /\ claimed \subseteq Hooks \X Purchases
    /\ released \subseteq Purchases
    /\ acknowledged \subseteq Purchases
    /\ stage \in [Handlers -> 0 .. AnswerStage]
    /\ purchase \in [Handlers -> Purchases]
    /\ job_step \in [Jobs -> {"idle", "mark", "persist", "mirror"}]
    /\ due \in [Jobs -> SUBSET Purchases]
    /\ reserve \in [Jobs -> Purchases]
    /\ faults \in 0 .. MaxFaults

OnrampInit ==
    /\ rows = [t \in Tables |-> [p \in Purchases |-> 0]]
    /\ canonical = {} /\ ledger = {} /\ claimed = {}
    /\ released = {} /\ acknowledged = {}
    /\ stage = [h \in Handlers |-> 0]
    /\ purchase \in [Handlers -> Purchases]
    /\ job_step = [j \in Jobs |-> "idle"]
    /\ due = [j \in Jobs |-> {}]
    /\ reserve \in [Jobs -> Purchases]
    /\ faults = 0

Has(t, p) == rows[t][p] > 0
Inserted(t, p) == [rows EXCEPT ![t][p] = @ + 1]

-----------------------------------------------------------------------------
(* Settlement *)

Executes(h, kind, name) == stage[h] > 0 /\ Pipeline[stage[h]] = <<kind, name>>
GoTo(h, i) == stage' = [stage EXCEPT ![h] = i]
Acknowledge(p) == acknowledged' = acknowledged \cup {p}

\* A delivery begins with a look for the payment of this provider.
Receive(h, p) ==
    /\ stage[h] = 0
    /\ IF Has("payments", p)
       THEN Acknowledge(p) /\ UNCHANGED <<stage, purchase>>
       ELSE /\ GoTo(h, 1)
            /\ purchase' = [purchase EXCEPT ![h] = p]
            /\ UNCHANGED acknowledged
    /\ UNCHANGED <<onrampTables, jobVars, faults>>

\* Wrong variant: without the unique constraint.
NeverInUse(p) == FALSE

\* payments.provider_payment_id is UNIQUE, for all providers together.
ReferenceInUse(p) == \E q \in Purchases : Has("payments", q) /\ Reference[q] = Reference[p]

InsertPayment(h) ==
    /\ Executes(h, "insert", "payments")
    /\ IF ReferenceInUse(purchase[h])
       THEN Acknowledge(purchase[h]) /\ GoTo(h, 0) /\ UNCHANGED rows
       ELSE /\ rows' = Inserted("payments", purchase[h])
            /\ GoTo(h, stage[h] + 1)
            /\ UNCHANGED acknowledged
    /\ UNCHANGED <<canonical, ledger, claimed, purchase, jobVars, faults>>

\* tx_hash is UNIQUE; a receipt that cannot be inserted is left out.
InsertReceipt(h) ==
    /\ Executes(h, "insert", "receipts")
    /\ IF \E q \in Purchases : Has("receipts", q) /\ TxOf[q] = TxOf[purchase[h]]
       THEN UNCHANGED rows
       ELSE rows' = Inserted("receipts", purchase[h])
    /\ GoTo(h, stage[h] + 1)
    /\ UNCHANGED <<canonical, ledger, claimed, acknowledged, purchase, jobVars, faults>>

\* The tables without a constraint, and credit_keys_for_payment.
InsertRow(h) ==
    /\ \E t \in PlainTables :
          /\ Executes(h, "insert", t)
          /\ rows' = Inserted(t, purchase[h])
    /\ GoTo(h, stage[h] + 1)
    /\ UNCHANGED <<canonical, ledger, claimed, acknowledged, purchase, jobVars, faults>>

\* Wrong variant: the test of has_event_hash is inverted.
AfterPersistInverted(h, e) ==
    IF <<e, purchase[h]>> \in canonical THEN stage[h] + 1 ELSE stage[h] + 2

\* An event that is there already is not mirrored again.
AfterPersist(h, e) ==
    IF <<e, purchase[h]>> \in canonical THEN stage[h] + 2 ELSE stage[h] + 1

\* The first half of emit_event.
Persist(h) ==
    /\ \E e \in PaymentEvents :
          /\ Executes(h, "persist", e)
          /\ canonical' = canonical \cup {<<e, purchase[h]>>}
          /\ GoTo(h, AfterPersist(h, e))
    /\ UNCHANGED <<rows, ledger, claimed, acknowledged, purchase, jobVars, faults>>

\* The second half.
Mirror(h) ==
    /\ \E e \in PaymentEvents :
          /\ Executes(h, "mirror", e)
          /\ ledger' = ledger \cup {<<e, purchase[h]>>}
    /\ GoTo(h, stage[h] + 1)
    /\ UNCHANGED <<rows, canonical, claimed, acknowledged, purchase, jobVars, faults>>

\* Wrong variant: one flag for both hooks.
ClaimedAtAll(hook, p) == \E other \in Hooks : <<other, p>> \in claimed

Claimed(hook, p) == <<hook, p>> \in claimed

\* claim_payment_hook_step: who comes second skips what the hook guards.
ClaimHook(h) ==
    /\ \E hook \in Hooks :
          /\ Executes(h, "claim", hook)
          /\ claimed' = claimed \cup {<<hook, purchase[h]>>}
          /\ GoTo(h, IF ~Claimed(hook, purchase[h]) THEN stage[h] + 1
                     ELSE IF hook = "keys_credited" THEN AccrualStage ELSE AnswerStage)
    /\ UNCHANGED <<rows, canonical, ledger, acknowledged, purchase, jobVars, faults>>

\* accrue_for_payment_if_eligible: one accrual per affiliate and payment.
Accrue(h) ==
    /\ Executes(h, "insert", "accruals")
    /\ IF purchase[h] \in Referred /\ ~Has("accruals", purchase[h])
       THEN rows' = Inserted("accruals", purchase[h]) /\ GoTo(h, stage[h] + 1)
       ELSE UNCHANGED rows /\ GoTo(h, AnswerStage)
    /\ UNCHANGED <<canonical, ledger, claimed, acknowledged, purchase, jobVars, faults>>

Answer(h) ==
    /\ Executes(h, "answer", "ok")
    /\ Acknowledge(purchase[h])
    /\ GoTo(h, 0)
    /\ UNCHANGED <<onrampTables, purchase, jobVars, faults>>

\* Anything raises, or the process dies.
Fault(h) ==
    /\ stage[h] > 0 /\ faults < MaxFaults
    /\ GoTo(h, 0)
    /\ faults' = faults + 1
    /\ UNCHANGED <<onrampTables, acknowledged, purchase, jobVars>>

Settle(h) ==
    \/ InsertPayment(h) \/ InsertReceipt(h) \/ InsertRow(h) \/ Persist(h) \/ Mirror(h)
    \/ ClaimHook(h) \/ Accrue(h) \/ Answer(h)

-----------------------------------------------------------------------------
(* Release of reserves *)

JobAt(j, s) == job_step[j] = s
JobGoTo(j, s) == job_step' = [job_step EXCEPT ![j] = s]

\* list_reserves_due: which reserves are due is left open.
StartRelease(j) ==
    /\ JobAt(j, "idle")
    /\ \E listed \in SUBSET {p \in Purchases : Has("reserves", p) /\ p \notin released} :
          /\ listed # {}
          /\ due' = [due EXCEPT ![j] = listed]
    /\ JobGoTo(j, "mark")
    /\ UNCHANGED <<onrampTables, released, acknowledged, stage, purchase, reserve, faults>>

\* mark_reserve_released changes nothing when another job was first; the
\* event is emitted all the same.
MarkReleased(j) ==
    /\ JobAt(j, "mark")
    /\ \E p \in due[j] :
          /\ released' = released \cup {p}
          /\ due' = [due EXCEPT ![j] = @ \ {p}]
          /\ reserve' = [reserve EXCEPT ![j] = p]
    /\ JobGoTo(j, "persist")
    /\ UNCHANGED <<onrampTables, acknowledged, stage, purchase, faults>>

ReleaseEvent(j) == <<"ReserveReleased", reserve[j]>>

PersistRelease(j) ==
    /\ JobAt(j, "persist")
    /\ canonical' = canonical \cup {ReleaseEvent(j)}
    /\ JobGoTo(j, IF ReleaseEvent(j) \in canonical THEN "mark" ELSE "mirror")
    /\ UNCHANGED <<rows, ledger, claimed, released, acknowledged, stage, purchase,
                   due, reserve, faults>>

MirrorRelease(j) ==
    /\ JobAt(j, "mirror")
    /\ ledger' = ledger \cup {ReleaseEvent(j)}
    /\ JobGoTo(j, "mark")
    /\ UNCHANGED <<rows, canonical, claimed, released, acknowledged, stage, purchase,
                   due, reserve, faults>>

EndRelease(j) ==
    /\ JobAt(j, "mark") /\ due[j] = {}
    /\ JobGoTo(j, "idle")
    /\ UNCHANGED <<onrampTables, released, acknowledged, stage, purchase, due, reserve, faults>>

JobFault(j) ==
    /\ ~JobAt(j, "idle") /\ faults < MaxFaults
    /\ JobGoTo(j, "idle")
    /\ faults' = faults + 1
    /\ UNCHANGED <<onrampTables, released, acknowledged, stage, purchase, due, reserve>>

Release(j) == MarkReleased(j) \/ PersistRelease(j) \/ MirrorRelease(j) \/ EndRelease(j)

OnrampNext ==
    \/ \E h \in Handlers : Settle(h) \/ Fault(h) \/ \E p \in Purchases : Receive(h, p)
    \/ \E j \in Jobs : Release(j) \/ StartRelease(j) \/ JobFault(j)

OnrampSpec == OnrampInit /\ [][OnrampNext]_onrampVars

OnrampFairness ==
    /\ \A h \in Handlers : WF_onrampVars(Settle(h))
    /\ \A j \in Jobs : WF_onrampVars(Release(j))

OnrampFairSpec == OnrampSpec /\ OnrampFairness

-----------------------------------------------------------------------------
(* Properties *)

\* However often a purchase is delivered, and whatever deliveries overlap or
\* fail, there is one payment of it at most, and every row of keys, on-ramp
\* row, treasury key and credit of the balance, rests on the one before.
KeysIssuedOnce ==
    \A p \in Purchases :
        /\ rows["payments"][p] <= 1
        /\ rows["reserves"][p] <= rows["payments"][p]
        /\ rows["onramp_keys"][p] <= rows["reserves"][p]
        /\ rows["treasury_keys"][p] <= rows["onramp_keys"][p]
        /\ rows["credits"][p] <= rows["treasury_keys"][p]
        /\ rows["accruals"][p] <= rows["treasury_keys"][p]

Persisted(e, p) == <<e, p>> \in canonical
Mirrored(e, p) == <<e, p>> \in ledger

\* The strict order that service.py promises: an event is persisted only when
\* its predecessor is in the ledger of the treasury too, and when the rows
\* that it reports are there.
EventsInOrder ==
    /\ ledger \subseteq canonical
    /\ \A p \in Purchases :
          /\ Persisted("CryptoReceived", p) =>
                /\ Mirrored("PaymentReceived", p)
                /\ \E q \in Purchases : Has("receipts", q) /\ TxOf[q] = TxOf[p]
          /\ Persisted("ReserveAllocated", p) =>
                Mirrored("CryptoReceived", p) /\ Has("reserves", p)
          /\ Persisted("ClawKeyIssued", p) =>
                Mirrored("ReserveAllocated", p) /\ Has("treasury_keys", p)
          /\ Persisted("AffiliateAccrued", p) =>
                Mirrored("ClawKeyIssued", p) /\ Has("credits", p) /\ Has("accruals", p)
          /\ Persisted("ReserveReleased", p) => p \in released /\ Has("reserves", p)

\* Everything that settlement owes a purchase.
Settled(p) ==
    /\ Mirrored("ClawKeyIssued", p) /\ Has("credits", p)
    /\ p \in Referred => Mirrored("AffiliateAccrued", p)

\* A payment that nobody settles any more, and a release that nobody reports.
\* Neither is taken up again: a repeated delivery is answered as a duplicate,
\* and a released reserve is not listed.
Stranded(p) ==
    /\ Has("payments", p) /\ ~Settled(p)
    /\ \A h \in Handlers : stage[h] > 1 => purchase[h] # p

Unreported(p) ==
    /\ p \in released /\ ~Mirrored("ReserveReleased", p)
    /\ \A j \in Jobs : reserve[j] = p =>
            ~JobAt(j, IF Persisted("ReserveReleased", p) THEN "mirror" ELSE "persist")

Losses ==
    {<<"payment", p>> : p \in {q \in Purchases : Stranded(q)}}
        \cup {<<"release", p>> : p \in {q \in Purchases : Unreported(q)}}

\* Only an error, or the death of a process, loses a settlement or the report
\* of a release, and each of them one at most.
LossesAreCounted == Cardinality(Losses) <= faults

\* While nothing fails, a payment that is recorded is settled.
PaymentIsSettled ==
    \A p \in Purchases : Has("payments", p) ~> Settled(p) \/ faults > 0

\* "Idempotent on provider_payment_id (per provider)": a purchase that is
\* answered "ok" has its own payment.
AcknowledgedIsRecorded == \A p \in acknowledged : Has("payments", p)
=============================================================================

----------------------------- MODULE PayoutBatches -----------------------------
(***************************************************************************)
(* Affiliate payouts (the SQLite store): operators group payable earnings  *)
(* of an affiliate into a draft batch, export it, send the money and mark  *)
(* it paid, or cancel the draft; refunds and disputes change the earnings  *)
(* meanwhile.                                                              *)
(*                                                                         *)
(* Reserving the earnings of a draft and paying those of an exported batch *)
(* are transactions that look at every row again.  Exporting and           *)
(* cancelling read the status of the batch, then write it in statements    *)
(* guarded by the batch id only.                                           *)
(***************************************************************************)
EXTENDS Naturals, FiniteSets

CONSTANTS
    Affiliates,  \* affiliates with earnings
    Ids,         \* earnings of one affiliate
    Operators,   \* concurrent requests of operators
    MaxBatches,  \* bound: batches ever prepared
    MaxCrashes   \* bound: requests that die

ASSUME ConstantsAssumption == MaxBatches \in Nat /\ MaxCrashes \in Nat

Earnings == Affiliates \X Ids
Batches == 1 .. MaxBatches     \* in the order of created_at
NoBatch == 0                   \* payout_batch_id NULL
EarningStatuses == {"pending", "payable", "paid", "cancelled", "recovery_due"}
BatchStatuses == {"missing", "draft", "exported", "paid", "cancelled"}

VARIABLES
    earnings,   \* status and payout_batch_id of each affiliate_earnings row
    batches,    \* affiliate_payout_batches with the earnings of their items
    payouts,    \* payouts[b]: affiliate_payouts rows written for b
    pc,         \* what the request of an operator does next
    batch,      \* the batch it is about
    todo,       \* the earnings it has listed and not yet handled
    crashes

vars == <<earnings, batches, payouts, pc, batch, todo, crashes>>
tables == <<earnings, batches, payouts>>

EarningRow == [status : EarningStatuses, batch : Batches \cup {NoBatch}]
BatchRow == [status : BatchStatuses, items : SUBSET Earnings]
PCs == {"idle", "list", "reserve", "check_export", "check_paid", "clear", "cancel"}

TypeOK ==
    /\ earnings \in [Earnings -> EarningRow]
    /\ batches \in [Batches -> BatchRow]
    /\ payouts \in [Batches -> Nat]
    /\ pc \in [Operators -> PCs]
    /\ batch \in [Operators -> Batches \cup {NoBatch}]
    /\ todo \in [Operators -> SUBSET Earnings]
    /\ crashes \in Nat

\* The earnings that paid invoices have recorded.
Init ==
    /\ earnings = [e \in Earnings |-> [status |-> "pending", batch |-> NoBatch]]
    /\ batches = [b \in Batches |-> [status |-> "missing", items |-> {}]]
    /\ payouts = [b \in Batches |-> 0]
    /\ pc = [o \in Operators |-> "idle"]
    /\ batch = [o \in Operators |-> NoBatch]
    /\ todo = [o \in Operators |-> {}]
    /\ crashes = 0

-----------------------------------------------------------------------------
Goto(o, step) == pc' = [pc EXCEPT ![o] = step]

\* The request of o ends.
Return(o) ==
    /\ Goto(o, "idle")
    /\ batch' = [batch EXCEPT ![o] = NoBatch]
    /\ todo' = [todo EXCEPT ![o] = {}]

\* A payable earning without a batch, and one that is reserved to batch b.
Free(e) == earnings[e].status = "payable" /\ earnings[e].batch = NoBatch
Reserved(e, b) == earnings[e].status = "payable" /\ earnings[e].batch = b

\* The earnings rows after an UPDATE of those in es.
Updated(es, status, b) == [e \in Earnings |->
    IF e \in es THEN [status |-> status, batch |-> b] ELSE earnings[e]]

-----------------------------------------------------------------------------
(* Preparing draft batches. *)

\* promote_affiliate_earnings_pending_to_payable: the pending earnings that are
\* unlocked, without risk hold and of a qualifying subscription
\* (a pending earning has no batch).
PrepareDrafts(o) ==
    /\ pc[o] = "idle"
    /\ \E es \in SUBSET {e \in Earnings : earnings[e].status = "pending"} :
        earnings' = Updated(es, "payable", NoBatch)
    /\ Goto(o, "list")
    /\ UNCHANGED <<batches, payouts, batch, todo, crashes>>

\* list_matured_payable_affiliate_earnings, without the affiliates that are in
\* their first-payout moratorium, under the threshold or without a usable wallet.
ListMatured(o) ==
    /\ pc[o] = "list"
    /\ \E eligible \in SUBSET Affiliates :
        todo' = [todo EXCEPT ![o] = {e \in Earnings : Free(e) /\ e[1] \in eligible}]
    /\ Goto(o, "reserve")
    /\ UNCHANGED <<tables, batch, crashes>>

Rows(o, a) == {e \in todo[o] : e[1] = a}

\* create_draft_payout_batch_atomic for one affiliate: every listed earning is
\* still free ...
CreateDraft(o, a) ==
    /\ pc[o] = "reserve"
    /\ Rows(o, a) # {}
    /\ \A e \in Rows(o, a) : Free(e)
    /\ \E b \in Batches :
        /\ batches[b].status = "missing"
        /\ \A c \in 1 .. b - 1 : batches[c].status # "missing"
        /\ batches' = [batches EXCEPT ![b] = [status |-> "draft", items |-> Rows(o, a)]]
        /\ earnings' = Updated(Rows(o, a), "payable", b)
    /\ todo' = [todo EXCEPT ![o] = @ \ Rows(o, a)]
    /\ UNCHANGED <<payouts, pc, batch, crashes>>

\* ... or the transaction rolls back and the request ends with an error.
ReserveFails(o) ==
    /\ pc[o] = "reserve"
    /\ \E e \in todo[o] : ~Free(e)
    /\ Return(o)
    /\ UNCHANGED <<tables, crashes>>

\* Every affiliate is handled (or the bound on batches is reached).
EndPrepare(o) ==
    /\ pc[o] = "reserve"
    /\ todo[o] = {} \/ \A b \in Batches : batches[b].status # "missing"
    /\ Return(o)
    /\ UNCHANGED <<tables, crashes>>

-----------------------------------------------------------------------------
(* Exporting and paying a batch. *)

\* mark_batch_exported and mark_batch_paid read the batch and its items; a
\* request for a batch in another status changes nothing.
ExportBatch(o, b) ==
    /\ pc[o] = "idle"
    /\ batches[b].status = "draft"
    /\ Goto(o, "check_export")
    /\ batch' = [batch EXCEPT ![o] = b]
    /\ todo' = [todo EXCEPT ![o] = batches[b].items]
    /\ UNCHANGED <<tables, crashes>>

PayBatch(o, b) ==
    /\ pc[o] = "idle"
    /\ batches[b].status = "exported"
    /\ Goto(o, "check_paid")
    /\ batch' = [batch EXCEPT ![o] = b]
    /\ todo' = [todo EXCEPT ![o] = batches[b].items]
    /\ UNCHANGED <<tables, crashes>>

\* payout_batch_earnings_integrity_failure reads the earnings one by one ...
CheckEarning(o, e) ==
    /\ pc[o] \in {"check_export", "check_paid"}
    /\ e \in todo[o]
    /\ Reserved(e, batch[o])
    /\ todo' = [todo EXCEPT ![o] = @ \ {e}]
    /\ UNCHANGED <<tables, pc, batch, crashes>>

\* ... and the request is refused at one that is not reserved to the batch.
CheckFails(o) ==
    /\ pc[o] \in {"check_export", "check_paid"}
    /\ \E e \in todo[o] : ~Reserved(e, batch[o])
    /\ Return(o)
    /\ UNCHANGED <<tables, crashes>>

\* update_payout_batch_fields, which does not look at the status again.
ExportWrite(o) ==
    /\ pc[o] = "check_export"
    /\ todo[o] = {}
    /\ batches' = [batches EXCEPT ![batch[o]].status = "exported"]
    /\ Return(o)
    /\ UNCHANGED <<earnings, payouts, crashes>>

\* Wrong variant: the earnings are taken for granted after the check.
FinalizableByStatus(b) == batches[b].status = "exported"

\* The conditions of finalize_affiliate_payout_batch_paid.
Finalizable(b) ==
    /\ batches[b].status = "exported"
    /\ \A e \in batches[b].items : Reserved(e, b)

\* The earnings of a batch that is paid.
PaidEarnings(b) == Updated(batches[b].items, "paid", b)

\* One transaction marks the earnings, writes the payout row and completes the
\* batch, or rolls back.
Finalize(o) ==
    /\ pc[o] = "check_paid"
    /\ todo[o] = {}
    /\ IF Finalizable(batch[o])
         THEN /\ earnings' = PaidEarnings(batch[o])
              /\ batches' = [batches EXCEPT ![batch[o]].status = "paid"]
              /\ payouts' = [payouts EXCEPT ![batch[o]] = @ + 1]
         ELSE UNCHANGED tables
    /\ Return(o)
    /\ UNCHANGED crashes

-----------------------------------------------------------------------------
(* Cancelling a draft: three statements, each committed on its own. *)

CancelDraft(o, b) ==
    /\ pc[o] = "idle"
    /\ batches[b].status = "draft"
    /\ Goto(o, "clear")
    /\ batch' = [batch EXCEPT ![o] = b]
    /\ UNCHANGED <<tables, todo, crashes>>

\* Wrong variant: the reservations are kept.
ClearedNothing(b) == earnings

\* clear_affiliate_earnings_batch_reservation.
Cleared(b) == Updated({e \in Earnings : Reserved(e, b)}, "payable", NoBatch)

ClearReservation(o) ==
    /\ pc[o] = "clear"
    /\ earnings' = Cleared(batch[o])
    /\ Goto(o, "cancel")
    /\ UNCHANGED <<batches, payouts, batch, todo, crashes>>

\* update_payout_batch_fields; the status of the items, written last, is read
\* by nothing here.
CancelWrite(o) ==
    /\ pc[o] = "cancel"
    /\ batches' = [batches EXCEPT ![batch[o]].status = "cancelled"]
    /\ Return(o)
    /\ UNCHANGED <<earnings, payouts, crashes>>

\* The request dies between two statements.
Crash(o) ==
    /\ pc[o] # "idle"
    /\ crashes < MaxCrashes
    /\ crashes' = crashes + 1
    /\ Return(o)
    /\ UNCHANGED tables

-----------------------------------------------------------------------------
(* Refunds, disputes and ended subscriptions (one statement each). *)

\* cancel_affiliate_earnings_for_charge, _for_invoice, _for_stripe_subscription
\* and reverse_accruals_for_payment: pending and payable earnings only.
CancelledEarnings(es) ==
    Updated({e \in es : earnings[e].status \in {"pending", "payable"}},
            "cancelled", NoBatch)

\* Which earnings share the charge, invoice, payment or subscription is left open.
Refund ==
    /\ \E es \in SUBSET Earnings : earnings' = CancelledEarnings(es)
    /\ UNCHANGED <<batches, payouts, pc, batch, todo, crashes>>

\* A dispute also claims back what was paid (touch_paid_as_recovery).
Dispute ==
    /\ \E es \in SUBSET Earnings :
        earnings' = [e \in Earnings |->
            IF e \in es /\ earnings[e].status = "paid"
              THEN [earnings[e] EXCEPT !.status = "recovery_due"]
              ELSE CancelledEarnings(es)[e]]
    /\ UNCHANGED <<batches, payouts, pc, batch, todo, crashes>>

-----------------------------------------------------------------------------
Request(o) ==
    \/ PrepareDrafts(o) \/ ListMatured(o) \/ ReserveFails(o) \/ EndPrepare(o)
    \/ \E a \in Affiliates : CreateDraft(o, a)
    \/ \E b \in Batches : ExportBatch(o, b) \/ PayBatch(o, b) \/ CancelDraft(o, b)
    \/ \E e \in Earnings : CheckEarning(o, e)
    \/ CheckFails(o) \/ ExportWrite(o) \/ Finalize(o)
    \/ ClearReservation(o) \/ CancelWrite(o)
    \/ Crash(o)

Next == Refund \/ Dispute \/ \E o \in Operators : Request(o)

Spec == Init /\ [][Next]_vars

-----------------------------------------------------------------------------
(* Properties. *)

\* However requests, refunds and crashes interleave, an earning is paid exactly
\* when a payout was written for the batch it is reserved to, a batch gets at
\* most one payout, and a payout covers every item of its batch: no earning is
\* paid twice, and none is marked paid without the money.
PayoutsCoverEarnings ==
    /\ \A e \in Earnings :
        earnings[e].status \in {"paid", "recovery_due"} =>
            \E b \in Batches : earnings[e].batch = b /\ payouts[b] = 1 /\ e \in batches[b].items
    /\ \A b \in Batches :
        /\ payouts[b] <= 1
        /\ payouts[b] = 1 =>
            \A e \in batches[b].items :
                earnings[e].batch = b /\ earnings[e].status \in {"paid", "recovery_due"}

\* A payable earning is reserved only to a batch that lists it and is not over,
\* and whose other earnings are reserved to it as well, but for those that a
\* refund or dispute has cancelled: no race or crash keeps a batch from being
\* cancelled as a draft, or paid once exported.  An exported batch that lost an
\* earning to a refund can be neither, and keeps the rest of its earnings.
ReservationsAreLive ==
    \A e \in Earnings, b \in Batches :
        Reserved(e, b) =>
            /\ e \in batches[b].items /\ batches[b].status \in {"draft", "exported"}
            /\ \A f \in batches[b].items : Reserved(f, b) \/ earnings[f].status = "cancelled"
=============================================================================

---------------------------- MODULE Payments_proofs ----------------------------
(***************************************************************************)
(* Proofs about what is paid, for every value of the constants:            *)
(*   - PayoutBatches: what affiliates are paid;                            *)
(*   - KeyLedger: the keys that usage spends;                              *)
(*   - OnrampSettlement: the payments that keys are bought with.           *)
(***************************************************************************)
EXTENDS PayoutBatches, KeyLedger, OnrampSettlement, FiniteSetTheorems, TLAPS

-----------------------------------------------------------------------------
(* Payout batches *)

\* A batch has items from the moment it exists, and no payout before.
BatchesHaveItems ==
    \A b \in Batches :
        /\ batches[b].status # "missing" <=> batches[b].items # {}
        /\ batches[b].status = "missing" => payouts[b] = 0

\* A request that has read a batch is about one that exists, and after it
\* cleared the reservations of the batch there are none.
RequestsNameBatches ==
    \A o \in Operators :
        /\ pc[o] \in {"check_export", "check_paid", "clear", "cancel"} =>
              batch[o] \in Batches /\ batches[batch[o]].status # "missing"
        /\ pc[o] = "cancel" => \A e \in Earnings : ~Reserved(e, batch[o])

\* The inductive invariant.
PayoutIInv ==
    /\ TypeOK
    /\ BatchesHaveItems
    /\ RequestsNameBatches
    /\ ReservationsAreLive
    /\ PayoutsCoverEarnings

-----------------------------------------------------------------------------
(* Type correctness. *)

\* An UPDATE of earnings rows keeps the table well typed.
LEMMA UpdatedType ==
    ASSUME earnings \in [Earnings -> EarningRow],
           NEW es, NEW status \in EarningStatuses, NEW b \in Batches \cup {NoBatch}
    PROVE  Updated(es, status, b) \in [Earnings -> EarningRow]
  BY DEF Updated, EarningRow

\* Every step keeps the types.
LEMMA TypeStep == TypeOK /\ [Next]_vars => TypeOK'
<1> SUFFICES ASSUME TypeOK, [Next]_vars PROVE TypeOK'
  OBVIOUS
<1> USE DEF TypeOK
<1>1. CASE UNCHANGED vars
  BY <1>1 DEF vars
<1>2. CASE Refund
  <2>1. PICK es \in SUBSET Earnings : earnings' = CancelledEarnings(es)
    BY <1>2 DEF Refund
  <2>2. earnings' \in [Earnings -> EarningRow]
    BY <2>1, UpdatedType DEF CancelledEarnings, EarningStatuses
  <2> QED
    BY <1>2, <2>2 DEF Refund
<1>3. CASE Dispute
  <2>1. PICK es \in SUBSET Earnings :
          earnings' = [e \in Earnings |->
            IF e \in es /\ earnings[e].status = "paid"
              THEN [earnings[e] EXCEPT !.status = "recovery_due"]
              ELSE CancelledEarnings(es)[e]]
    BY <1>3 DEF Dispute
  <2>2. CancelledEarnings(es) \in [Earnings -> EarningRow]
    BY UpdatedType DEF CancelledEarnings, EarningStatuses
  <2>3. earnings' \in [Earnings -> EarningRow]
    BY <2>1, <2>2 DEF EarningRow, EarningStatuses
  <2> QED
    BY <1>3, <2>3 DEF Dispute
<1>4. ASSUME NEW o \in Operators, Request(o) PROVE TypeOK'
  <2> USE DEF Goto, Return, PCs
  <2>1. CASE PrepareDrafts(o)
    <3>1. PICK es : earnings' = Updated(es, "payable", NoBatch)
      BY <2>1 DEF PrepareDrafts
    <3>2. earnings' \in [Earnings -> EarningRow]
      BY <3>1, UpdatedType DEF EarningStatuses
    <3> QED
      BY <2>1, <3>2 DEF PrepareDrafts
  <2>2. CASE ListMatured(o)
    BY <2>2 DEF ListMatured, tables
  <2>3. ASSUME NEW a \in Affiliates, CreateDraft(o, a) PROVE TypeOK'
    <3>1. PICK b \in Batches :
            /\ batches' = [batches EXCEPT ![b] = [status |-> "draft", items |-> Rows(o, a)]]
            /\ earnings' = Updated(Rows(o, a), "payable", b)
      BY <2>3 DEF CreateDraft
    <3>2. Rows(o, a) \in SUBSET Earnings
      BY DEF Rows
    <3>3. batches' \in [Batches -> BatchRow]
      BY <3>1, <3>2 DEF BatchRow, BatchStatuses
    <3>4. earnings' \in [Earnings -> EarningRow]
      BY <3>1, UpdatedType DEF EarningStatuses
    <3> QED
      BY <2>3, <3>3, <3>4 DEF CreateDraft
  <2>4. CASE ReserveFails(o) \/ EndPrepare(o) \/ CheckFails(o) \/ Crash(o)
    BY <2>4 DEF ReserveFails, EndPrepare, CheckFails, Crash, tables
  <2>5. ASSUME NEW b \in Batches, ExportBatch(o, b) \/ PayBatch(o, b) \/ CancelDraft(o, b)
        PROVE  TypeOK'
    BY <2>5 DEF ExportBatch, PayBatch, CancelDraft, tables, BatchRow
  <2>6. ASSUME NEW e \in Earnings, CheckEarning(o, e) PROVE TypeOK'
    BY <2>6 DEF CheckEarning, tables
  <2>7. CASE ExportWrite(o)
    BY <2>7 DEF ExportWrite, BatchRow, BatchStatuses
  <2>8. CASE Finalize(o)
    <3>1. CASE Finalizable(batch[o])
      <4>1. earnings' = Updated(batches[batch[o]].items, "paid", batch[o])
        BY <2>8, <3>1 DEF Finalize, PaidEarnings
      <4>2. earnings' \in [Earnings -> EarningRow]
        BY <4>1, UpdatedType DEF EarningStatuses
      <4>3. batches' \in [Batches -> BatchRow] /\ payouts' \in [Batches -> Nat]
        BY <2>8, <3>1 DEF Finalize, BatchRow, BatchStatuses
      <4> QED
        BY <2>8, <4>2, <4>3 DEF Finalize
    <3>2. CASE ~Finalizable(batch[o])
      BY <2>8, <3>2 DEF Finalize, tables
    <3> QED
      BY <3>1, <3>2
  <2>9. CASE ClearReservation(o)
    BY <2>9, UpdatedType DEF ClearReservation, Cleared, EarningStatuses
  <2>10. CASE CancelWrite(o)
    BY <2>10 DEF CancelWrite, BatchRow, BatchStatuses
  <2> QED
    BY <1>4, <2>1, <2>2, <2>3, <2>4, <2>5, <2>6, <2>7, <2>8, <2>9, <2>10 DEF Request
<1> QED
  BY <1>1, <1>2, <1>3, <1>4 DEF Next

\* Every reachable state has its types.
THEOREM TypeCorrect == Spec => []TypeOK
<1>1. Init => TypeOK
  BY DEF Init, TypeOK, EarningRow, EarningStatuses, BatchRow, BatchStatuses, PCs
<1> QED
  BY <1>1, TypeStep, PTL DEF Spec

-----------------------------------------------------------------------------
(* The inductive invariant. *)

\* What every change of the earnings rows has in common: paid rows stay paid in
\* their batch or are claimed back, nothing becomes paid or reserved, cancelled
\* rows stay cancelled, and a reservation that others of its batch survive ends
\* only in a cancelled row.
Released ==
    \A e \in Earnings :
        /\ earnings[e].status \in {"paid", "recovery_due"} =>
              earnings'[e].status \in {"paid", "recovery_due"} /\ earnings'[e].batch = earnings[e].batch
        /\ earnings'[e].status \in {"paid", "recovery_due"} =>
              earnings[e].status \in {"paid", "recovery_due"} /\ earnings'[e].batch = earnings[e].batch
        /\ earnings[e].status = "cancelled" => earnings'[e].status = "cancelled"
        /\ \A b \in Batches :
              /\ Reserved(e, b)' => Reserved(e, b)
              /\ \A f \in Earnings :
                    Reserved(e, b)' /\ Reserved(f, b) =>
                        Reserved(f, b)' \/ earnings'[f].status = "cancelled"

\* Such a change keeps the invariant while the other tables stay as they are.
LEMMA ReleasedKeepsInvariants ==
    ASSUME TypeOK, Released, ReservationsAreLive, PayoutsCoverEarnings,
           UNCHANGED <<batches, payouts>>
    PROVE  ReservationsAreLive' /\ PayoutsCoverEarnings'
<1>1. ReservationsAreLive'
  <2> SUFFICES ASSUME NEW e \in Earnings, NEW b \in Batches, Reserved(e, b)'
               PROVE  /\ e \in batches[b].items /\ batches[b].status \in {"draft", "exported"}
                      /\ \A f \in batches[b].items :
                            Reserved(f, b)' \/ earnings'[f].status = "cancelled"
    BY DEF ReservationsAreLive
  <2>1. Reserved(e, b)
    BY DEF Released
  <2>2. batches[b].items \subseteq Earnings
    BY DEF TypeOK, BatchRow
  <2> QED
    BY <2>1, <2>2 DEF Released, ReservationsAreLive
<1>2. PayoutsCoverEarnings'
  BY DEF Released, PayoutsCoverEarnings, TypeOK, BatchRow
<1> QED
  BY <1>1, <1>2

\* Refunds, disputes, promotions and cleared reservations are such changes.
LEMMA Releases ==
    ASSUME TypeOK,
           Refund \/ Dispute \/ \E o \in Operators : PrepareDrafts(o) \/ ClearReservation(o)
    PROVE  Released
<1> USE DEF Reserved, TypeOK, EarningRow, Batches, NoBatch
<1>1. CASE Refund
  <2>1. PICK es \in SUBSET Earnings : earnings' = CancelledEarnings(es)
    BY <1>1 DEF Refund
  <2>2. \A e \in Earnings :
          \/ earnings'[e] = earnings[e]
          \/ /\ earnings[e].status \in {"pending", "payable"}
             /\ earnings'[e] = [status |-> "cancelled", batch |-> NoBatch]
    BY <2>1 DEF CancelledEarnings, Updated
  <2> QED
    BY <2>2 DEF Released
<1>2. CASE Dispute
  <2>1. PICK es \in SUBSET Earnings :
          earnings' = [e \in Earnings |->
            IF e \in es /\ earnings[e].status = "paid"
              THEN [earnings[e] EXCEPT !.status = "recovery_due"]
              ELSE CancelledEarnings(es)[e]]
    BY <1>2 DEF Dispute
  <2>2. \A e \in Earnings :
          \/ earnings'[e] = earnings[e]
          \/ /\ earnings[e].status = "paid"
             /\ earnings'[e].status = "recovery_due"
             /\ earnings'[e].batch = earnings[e].batch
          \/ /\ earnings[e].status \in {"pending", "payable"}
             /\ earnings'[e] = [status |-> "cancelled", batch |-> NoBatch]
    BY <2>1 DEF CancelledEarnings, Updated
  <2> QED
    BY <2>2 DEF Released
<1>3. ASSUME NEW o \in Operators, PrepareDrafts(o) PROVE Released
  <2>1. PICK es \in SUBSET {e \in Earnings : earnings[e].status = "pending"} :
          earnings' = Updated(es, "payable", NoBatch)
    BY <1>3 DEF PrepareDrafts
  <2>2. \A e \in Earnings :
          \/ earnings'[e] = earnings[e]
          \/ /\ earnings[e].status = "pending"
             /\ earnings'[e] = [status |-> "payable", batch |-> NoBatch]
    BY <2>1 DEF Updated
  <2> QED
    BY <2>2 DEF Released
<1>4. ASSUME NEW o \in Operators, ClearReservation(o) PROVE Released
  <2>1. earnings' = Cleared(batch[o])
    BY <1>4 DEF ClearReservation
  <2>2. \A e \in Earnings :
          earnings'[e] = IF Reserved(e, batch[o]) THEN [status |-> "payable", batch |-> NoBatch]
                                                  ELSE earnings[e]
    BY <2>1 DEF Cleared, Updated
  <2> QED
    BY <2>2 DEF Released
<1> QED
  BY <1>1, <1>2, <1>3, <1>4

\* A step that changes no table keeps the properties of the tables.
LEMMA TablesUnchanged ==
    ASSUME UNCHANGED tables
    PROVE  /\ BatchesHaveItems => BatchesHaveItems'
           /\ ReservationsAreLive => ReservationsAreLive'
           /\ PayoutsCoverEarnings => PayoutsCoverEarnings'
           /\ \A e \in Earnings, b \in Batches : Reserved(e, b)' <=> Reserved(e, b)
  BY DEF tables, BatchesHaveItems, ReservationsAreLive, PayoutsCoverEarnings, Reserved

\* The steps of requests that change no table.
LEMMA ReadSteps ==
    ASSUME PayoutIInv, TypeOK', NEW o \in Operators,
           \/ ListMatured(o) \/ ReserveFails(o) \/ EndPrepare(o) \/ CheckFails(o) \/ Crash(o)
           \/ \E e \in Earnings : CheckEarning(o, e)
           \/ \E b \in Batches : ExportBatch(o, b) \/ PayBatch(o, b) \/ CancelDraft(o, b)
    PROVE  PayoutIInv'
<1>1. UNCHANGED tables
  BY DEF tables, ListMatured, ReserveFails, EndPrepare, CheckFails, Crash, CheckEarning,
         ExportBatch, PayBatch, CancelDraft
<1>2. RequestsNameBatches'
  <2>1. \A p \in Operators :
          \/ pc'[p] = pc[p] /\ batch'[p] = batch[p]
          \/ pc'[p] \in {"idle", "reserve"}
          \/ /\ pc'[p] \in {"check_export", "check_paid", "clear"}
             /\ batch'[p] \in Batches /\ batches[batch'[p]].status # "missing"
    BY DEF PayoutIInv, TypeOK, ListMatured, ReserveFails, EndPrepare, CheckFails, Crash,
           CheckEarning, ExportBatch, PayBatch, CancelDraft, Goto, Return
  <2> QED
    BY <2>1, <1>1, TablesUnchanged DEF PayoutIInv, RequestsNameBatches, tables
<1> QED
  BY <1>1, <1>2, TablesUnchanged DEF PayoutIInv

\* Refunds, disputes, promotions and cleared reservations.
LEMMA ReleaseSteps ==
    ASSUME PayoutIInv, TypeOK',
           Refund \/ Dispute \/ \E o \in Operators : PrepareDrafts(o) \/ ClearReservation(o)
    PROVE  PayoutIInv'
<1>1. Released /\ UNCHANGED <<batches, payouts, batch>>
  BY Releases DEF PayoutIInv, Refund, Dispute, PrepareDrafts, ClearReservation
<1>2. ReservationsAreLive' /\ PayoutsCoverEarnings' /\ BatchesHaveItems'
  BY <1>1, ReleasedKeepsInvariants DEF PayoutIInv, BatchesHaveItems
<1>3. RequestsNameBatches'
  <2>1. CASE Refund \/ Dispute
    BY <2>1, <1>1 DEF PayoutIInv, RequestsNameBatches, Refund, Dispute, Released
  <2>2. ASSUME NEW o \in Operators, PrepareDrafts(o) PROVE RequestsNameBatches'
    BY <2>2, <1>1 DEF PayoutIInv, TypeOK, RequestsNameBatches, PrepareDrafts, Goto, Released
  <2>3. ASSUME NEW o \in Operators, ClearReservation(o) PROVE RequestsNameBatches'
    <3>1. \A e \in Earnings : ~Reserved(e, batch[o])'
      BY <2>3 DEF ClearReservation, Cleared, Updated, Reserved, PayoutIInv, RequestsNameBatches,
                  Batches, NoBatch
    <3> QED
      BY <2>3, <3>1, <1>1 DEF PayoutIInv, TypeOK, RequestsNameBatches, ClearReservation, Goto, Released
  <2> QED
    BY <2>1, <2>2, <2>3
<1> QED
  BY <1>2, <1>3 DEF PayoutIInv

\* A draft takes free earnings into a batch that did not exist.
LEMMA CreateDraftStep ==
    ASSUME PayoutIInv, TypeOK', NEW o \in Operators, NEW a \in Affiliates, CreateDraft(o, a)
    PROVE  PayoutIInv'
<1> DEFINE R == Rows(o, a)
<1>1. PICK b \in Batches :
        /\ batches[b].status = "missing"
        /\ batches' = [batches EXCEPT ![b] = [status |-> "draft", items |-> R]]
        /\ earnings' = Updated(R, "payable", b)
  BY DEF CreateDraft
<1>2. /\ R # {} /\ R \subseteq Earnings
      /\ \A e \in R : Free(e)
      /\ UNCHANGED <<payouts, pc, batch>>
  BY DEF CreateDraft, PayoutIInv, TypeOK, Rows
<1>3. \A e \in Earnings :
        earnings'[e] = IF e \in R THEN [status |-> "payable", batch |-> b] ELSE earnings[e]
  BY <1>1 DEF Updated
<1>4. /\ batches'[b] = [status |-> "draft", items |-> R]
      /\ \A c \in Batches \ {b} : batches'[c] = batches[c]
  BY <1>1 DEF PayoutIInv, TypeOK
<1> HIDE DEF R
<1>5. BatchesHaveItems'
  BY <1>2, <1>4 DEF PayoutIInv, BatchesHaveItems
<1>6. RequestsNameBatches'
  BY <1>1, <1>2, <1>3, <1>4 DEF PayoutIInv, RequestsNameBatches, Reserved
<1>7. ReservationsAreLive'
  <2> SUFFICES ASSUME NEW e \in Earnings, NEW c \in Batches, Reserved(e, c)'
               PROVE  /\ e \in batches'[c].items /\ batches'[c].status \in {"draft", "exported"}
                      /\ \A f \in batches'[c].items :
                            Reserved(f, c)' \/ earnings'[f].status = "cancelled"
    BY DEF ReservationsAreLive
  <2>1. CASE e \in R
    <3>1. c = b
      BY <2>1, <1>3 DEF Reserved
    <3> QED
      BY <2>1, <3>1, <1>2, <1>3, <1>4 DEF Reserved
  <2>2. CASE e \notin R
    <3>1. Reserved(e, c)
      BY <2>2, <1>3 DEF Reserved
    <3>2. c # b
      BY <3>1, <1>1 DEF PayoutIInv, ReservationsAreLive
    <3>3. \A f \in batches[c].items : f \in Earnings /\ f \notin R
      <4>1. \A f \in batches[c].items :
              f \in Earnings /\ (Reserved(f, c) \/ earnings[f].status = "cancelled")
        BY <3>1 DEF PayoutIInv, ReservationsAreLive, TypeOK, BatchRow
      <4>2. \A f \in R : ~Reserved(f, c) /\ earnings[f].status # "cancelled"
        BY <1>2 DEF Free, Reserved, Batches, NoBatch
      <4> QED
        BY <4>1, <4>2
    <3> QED
      BY <3>1, <3>2, <3>3, <1>3, <1>4 DEF PayoutIInv, ReservationsAreLive, Reserved
  <2> QED
    BY <2>1, <2>2
<1>8. PayoutsCoverEarnings'
  <2>1. \A e \in R : earnings[e].status = "payable" /\ earnings'[e].status = "payable"
    BY <1>2, <1>3 DEF Free
  <2>2. payouts[b] = 0
    BY <1>1 DEF PayoutIInv, BatchesHaveItems
  <2>3. \A e \in Earnings : e \notin R => earnings'[e] = earnings[e]
    BY <1>3
  <2>4. ASSUME NEW e \in Earnings, earnings'[e].status \in {"paid", "recovery_due"}
        PROVE  \E c \in Batches :
                  earnings'[e].batch = c /\ payouts'[c] = 1 /\ e \in batches'[c].items
    <3>1. e \notin R
      BY <2>1, <2>4
    <3>2. PICK c \in Batches : earnings[e].batch = c /\ payouts[c] = 1 /\ e \in batches[c].items
      BY <2>3, <2>4, <3>1 DEF PayoutIInv, PayoutsCoverEarnings
    <3> QED
      BY <1>2, <1>4, <2>2, <2>3, <3>1, <3>2
  <2>5. ASSUME NEW c \in Batches
        PROVE  /\ payouts'[c] <= 1
               /\ payouts'[c] = 1 =>
                    \A e \in batches'[c].items :
                      earnings'[e].batch = c /\ earnings'[e].status \in {"paid", "recovery_due"}
    <3>1. CASE c = b
      BY <3>1, <1>2, <2>2
    <3>2. CASE c # b
      <4>1. batches'[c].items \subseteq Earnings /\ batches'[c] = batches[c]
        BY <3>2, <1>4 DEF PayoutIInv, TypeOK, BatchRow
      <4> QED
        BY <4>1, <1>2, <2>1, <2>3 DEF PayoutIInv, PayoutsCoverEarnings
    <3> QED
      BY <3>1, <3>2
  <2> QED
    BY <2>4, <2>5 DEF PayoutsCoverEarnings
<1> QED
  BY <1>5, <1>6, <1>7, <1>8 DEF PayoutIInv

\* Exporting and cancelling write the status of a batch whatever it is by then.
LEMMA StatusSteps ==
    ASSUME PayoutIInv, TypeOK', NEW o \in Operators, ExportWrite(o) \/ CancelWrite(o)
    PROVE  PayoutIInv'
<1>1. PICK status \in {"exported", "cancelled"} :
        /\ batches' = [batches EXCEPT ![batch[o]].status = status]
        /\ status = "cancelled" => pc[o] = "cancel"
  BY DEF ExportWrite, CancelWrite
<1>2. /\ UNCHANGED <<earnings, payouts>>
      /\ batch[o] \in Batches /\ batches[batch[o]].status # "missing"
      /\ \A p \in Operators : p # o => pc'[p] = pc[p] /\ batch'[p] = batch[p]
      /\ pc'[o] = "idle"
  BY DEF ExportWrite, CancelWrite, Return, Goto, PayoutIInv, TypeOK, RequestsNameBatches
<1>3. \A b \in Batches :
        /\ batches'[b].items = batches[b].items
        /\ batches'[b].status = IF b = batch[o] THEN status ELSE batches[b].status
  BY <1>1, <1>2 DEF PayoutIInv, TypeOK, BatchRow
<1>4. BatchesHaveItems'
  BY <1>2, <1>3 DEF PayoutIInv, BatchesHaveItems
<1>5. RequestsNameBatches'
  BY <1>2, <1>3 DEF PayoutIInv, RequestsNameBatches, Reserved
<1>6. ReservationsAreLive'
  BY <1>1, <1>2, <1>3 DEF PayoutIInv, ReservationsAreLive, RequestsNameBatches, Reserved
<1>7. PayoutsCoverEarnings'
  BY <1>2, <1>3 DEF PayoutIInv, PayoutsCoverEarnings
<1> QED
  BY <1>4, <1>5, <1>6, <1>7 DEF PayoutIInv

\* The transaction that pays a batch looks at the batch and its earnings again.
LEMMA FinalizeStep ==
    ASSUME PayoutIInv, TypeOK', NEW o \in Operators, Finalize(o)
    PROVE  PayoutIInv'
<1> DEFINE b == batch[o]
<1>1. /\ b \in Batches
      /\ \A p \in Operators : p # o => pc'[p] = pc[p] /\ batch'[p] = batch[p]
      /\ pc'[o] = "idle"
  BY DEF Finalize, Return, Goto, PayoutIInv, TypeOK, RequestsNameBatches
<1>2. CASE ~Finalizable(b)
  <2>1. UNCHANGED tables
    BY <1>2 DEF Finalize, tables
  <2> QED
    BY <2>1, <1>1, TablesUnchanged DEF PayoutIInv, RequestsNameBatches, tables
<1>3. CASE Finalizable(b)
  <2>1. /\ batches' = [batches EXCEPT ![b].status = "paid"]
        /\ payouts' = [payouts EXCEPT ![b] = @ + 1]
        /\ earnings' = Updated(batches[b].items, "paid", b)
    BY <1>3 DEF Finalize, PaidEarnings
  <2>2. /\ batches[b].items # {} /\ batches[b].status = "exported"
        /\ \A e \in batches[b].items : e \in Earnings /\ Reserved(e, b)
    BY <1>1, <1>3 DEF Finalizable, PayoutIInv, BatchesHaveItems, TypeOK, BatchRow
  <2>3. payouts[b] = 0
    <3>1. PICK e \in batches[b].items : earnings[e].status = "payable"
      BY <2>2 DEF Reserved
    <3>2. payouts[b] \in Nat /\ payouts[b] <= 1 /\ payouts[b] # 1
      BY <1>1, <3>1 DEF PayoutIInv, PayoutsCoverEarnings, TypeOK
    <3> QED
      BY <3>2
  <2>4. \A e \in Earnings :
          earnings'[e] = IF e \in batches[b].items THEN [status |-> "paid", batch |-> b]
                                                   ELSE earnings[e]
    BY <2>1 DEF Updated
  <2>5. \A c \in Batches :
          /\ batches'[c].items = batches[c].items
          /\ batches'[c].status = IF c = b THEN "paid" ELSE batches[c].status
          /\ payouts'[c] = IF c = b THEN 1 ELSE payouts[c]
    BY <1>1, <2>1, <2>3 DEF PayoutIInv, TypeOK, BatchRow
  <2> HIDE DEF b
  <2>6. BatchesHaveItems'
    BY <2>2, <2>5 DEF PayoutIInv, BatchesHaveItems
  <2>7. RequestsNameBatches'
    BY <1>1, <2>4, <2>5 DEF PayoutIInv, RequestsNameBatches, Reserved
  <2>8. ReservationsAreLive'
    <3> SUFFICES ASSUME NEW e \in Earnings, NEW c \in Batches, Reserved(e, c)'
                 PROVE  /\ e \in batches'[c].items /\ batches'[c].status \in {"draft", "exported"}
                        /\ \A f \in batches'[c].items :
                              Reserved(f, c)' \/ earnings'[f].status = "cancelled"
      BY DEF ReservationsAreLive
    <3>1. e \notin batches[b].items /\ Reserved(e, c)
      BY <2>4 DEF Reserved
    <3>2. c # b
      BY <3>1, <1>1 DEF PayoutIInv, ReservationsAreLive
    <3>3. /\ e \in batches[c].items /\ batches[c].status \in {"draft", "exported"}
          /\ \A f \in batches[c].items : Reserved(f, c) \/ earnings[f].status = "cancelled"
      BY <3>1 DEF PayoutIInv, ReservationsAreLive
    <3>4. \A f \in batches[c].items : f \in Earnings /\ f \notin batches[b].items
      BY <3>2, <3>3, <2>2 DEF PayoutIInv, TypeOK, BatchRow, Reserved
    <3> QED
      BY <3>2, <3>3, <3>4, <2>4, <2>5 DEF Reserved
  <2>9. PayoutsCoverEarnings'
    <3>1. ASSUME NEW e \in Earnings, earnings'[e].status \in {"paid", "recovery_due"}
          PROVE  \E c \in Batches :
                    earnings'[e].batch = c /\ payouts'[c] = 1 /\ e \in batches'[c].items
      <4>1. CASE e \in batches[b].items
        BY <4>1, <1>1, <2>4, <2>5
      <4>2. CASE e \notin batches[b].items
        <5>1. PICK c \in Batches :
                earnings[e].batch = c /\ payouts[c] = 1 /\ e \in batches[c].items
          BY <3>1, <4>2, <2>4 DEF PayoutIInv, PayoutsCoverEarnings
        <5> QED
          BY <5>1, <4>2, <2>4, <2>5
      <4> QED
        BY <4>1, <4>2
    <3>2. ASSUME NEW c \in Batches
          PROVE  /\ payouts'[c] <= 1
                 /\ payouts'[c] = 1 =>
                      \A e \in batches'[c].items :
                        /\ earnings'[e].batch = c
                        /\ earnings'[e].status \in {"paid", "recovery_due"}
      <4>1. CASE c = b
        BY <4>1, <1>1, <2>2, <2>4, <2>5
      <4>2. CASE c # b
        <5>1. batches[c].items \subseteq Earnings
          BY DEF PayoutIInv, TypeOK, BatchRow
        <5>2. \A e \in batches[c].items : payouts[c] = 1 => e \notin batches[b].items
          BY <5>1, <2>2 DEF PayoutIInv, PayoutsCoverEarnings, Reserved
        <5> QED
          BY <4>2, <5>1, <5>2, <2>4, <2>5 DEF PayoutIInv, PayoutsCoverEarnings
      <4> QED
        BY <4>1, <4>2
    <3> QED
      BY <3>1, <3>2 DEF PayoutsCoverEarnings
  <2> QED
    BY <2>6, <2>7, <2>8, <2>9 DEF PayoutIInv
<1> QED
  BY <1>2, <1>3

-----------------------------------------------------------------------------
(* The theorems. *)

\* Every step keeps the inductive invariant.
LEMMA InvariantStep == PayoutIInv /\ [Next]_vars => PayoutIInv'
<1> SUFFICES ASSUME PayoutIInv, [Next]_vars PROVE PayoutIInv'
  OBVIOUS
<1>1. TypeOK'
  BY TypeStep DEF PayoutIInv
<1>2. CASE UNCHANGED vars
  <2>1. UNCHANGED tables /\ UNCHANGED <<pc, batch>>
    BY <1>2 DEF vars, tables
  <2> QED
    BY <1>1, <2>1, TablesUnchanged DEF PayoutIInv, RequestsNameBatches, tables
<1>3. CASE Refund \/ Dispute
  BY <1>1, <1>3, ReleaseSteps
<1>4. ASSUME NEW o \in Operators, Request(o) PROVE PayoutIInv'
  <2>1. CASE PrepareDrafts(o) \/ ClearReservation(o)
    BY <1>1, <2>1, ReleaseSteps
  <2>2. CASE \E a \in Affiliates : CreateDraft(o, a)
    BY <1>1, <2>2, CreateDraftStep
  <2>3. CASE ExportWrite(o) \/ CancelWrite(o)
    BY <1>1, <2>3, StatusSteps
  <2>4. CASE Finalize(o)
    BY <1>1, <2>4, FinalizeStep
  <2> QED
    BY <1>1, <1>4, <2>1, <2>2, <2>3, <2>4, ReadSteps DEF Request
<1> QED
  BY <1>2, <1>3, <1>4 DEF Next

\* The initial state satisfies it.
LEMMA InvariantInit == Init => PayoutIInv
  BY DEF Init, PayoutIInv, TypeOK, BatchesHaveItems, RequestsNameBatches, ReservationsAreLive,
         PayoutsCoverEarnings, Reserved, EarningRow, EarningStatuses, BatchRow, BatchStatuses, PCs

\* An earning is paid exactly when the one payout of its batch was written,
\* whatever requests, refunds and crashes interleave.
THEOREM PaidExactlyOnce == Spec => []PayoutsCoverEarnings
<1>1. PayoutIInv => PayoutsCoverEarnings
  BY DEF PayoutIInv
<1> QED
  BY <1>1, InvariantInit, InvariantStep, PTL DEF Spec

\* No race or crash strands an earning: its batch is not over, and has lost
\* earnings to refunds and disputes only.
THEOREM ReservationsHold == Spec => []ReservationsAreLive
<1>1. PayoutIInv => ReservationsAreLive
  BY DEF PayoutIInv
<1> QED
  BY <1>1, InvariantInit, InvariantStep, PTL DEF Spec

-----------------------------------------------------------------------------
(* Key ledger *)

\* A row has as many keys as it is inserted with.
LEMMA RowSize ==
    ASSUME NEW kind, NEW s, NEW n \in Nat
    PROVE  IsFiniteSet(Row(kind, s, n)) /\ Cardinality(Row(kind, s, n)) = n
<1> DEFINE f == [i \in 1 .. n |-> <<kind, s, i>>]
<1>1. f \in Bijection(1 .. n, Row(kind, s, n))
  <2>1. f \in [1 .. n -> Row(kind, s, n)]
    BY DEF Row
  <2>2. \A i, j \in 1 .. n : f[i] = f[j] => i = j
    OBVIOUS
  <2>3. \A k \in Row(kind, s, n) : \E i \in 1 .. n : f[i] = k
    BY DEF Row
  <2> HIDE DEF f
  <2>4. f \in Injection(1 .. n, Row(kind, s, n))
    BY <2>1, <2>2 DEF Injection, IsInjective
  <2>5. f \in Surjection(1 .. n, Row(kind, s, n))
    BY <2>1, <2>3 DEF Surjection
  <2> QED
    BY <2>4, <2>5 DEF Bijection
<1>2. ExistsBijection(1 .. n, Row(kind, s, n))
  BY <1>1 DEF ExistsBijection
<1>3. IsFiniteSet(1 .. n) /\ Cardinality(1 .. n) = n
  BY FS_Interval
<1> QED
  BY <1>2, <1>3, FS_Bijection

\* Sets that share nothing add up.
LEMMA DisjointUnion ==
    ASSUME NEW S, NEW T, IsFiniteSet(S), IsFiniteSet(T), S \cap T = {}
    PROVE  /\ IsFiniteSet(S \cup T)
           /\ Cardinality(S) \in Nat /\ Cardinality(T) \in Nat
           /\ Cardinality(S \cup T) = Cardinality(S) + Cardinality(T)
  BY FS_Union, FS_EmptySet, FS_CardinalityType

\* What is taken from a set, and what is left, add up.
LEMMA Taken ==
    ASSUME NEW S, NEW T, IsFiniteSet(S), T \subseteq S
    PROVE  /\ IsFiniteSet(S \ T) /\ IsFiniteSet(T)
           /\ Cardinality(S) \in Nat /\ Cardinality(T) \in Nat
           /\ Cardinality(S \ T) = Cardinality(S) - Cardinality(T)
<1>1. IsFiniteSet(T) /\ IsFiniteSet(S \ T)
  BY FS_Subset
<1>2. S = (S \ T) \cup T /\ (S \ T) \cap T = {}
  OBVIOUS
<1>3. /\ Cardinality(S \ T) \in Nat /\ Cardinality(T) \in Nat
      /\ Cardinality(S) = Cardinality(S \ T) + Cardinality(T)
  <2> DEFINE R == S \ T
  <2>1. IsFiniteSet(R) /\ S = R \cup T /\ R \cap T = {}
    BY <1>1, <1>2
  <2> HIDE DEF R
  <2>2. /\ Cardinality(R) \in Nat /\ Cardinality(T) \in Nat
        /\ Cardinality(R \cup T) = Cardinality(R) + Cardinality(T)
    BY <1>1, <2>1, DisjointUnion
  <2> QED
    BY <2>1, <2>2 DEF R
<1> QED
  BY <1>1, <1>3

\* A key is in the rows or allocated only once its row is inserted: a legacy
\* row by a session past init_schema, a credit by one that is done.
KeysHaveRows ==
    /\ \A k \in remaining \cup SpentKeys :
          /\ k[1] = "legacy" => key_pc[k[2]] \in {"ready", "done"}
          /\ k[1] = "credit" => k[2] \in Credited
    /\ \A s \in TopUps : turn[s] > 0 => At(s, "done")
    /\ \A u \in Usages : ~At(u, "done") => outcome[u] = "none"

\* Turns are given out in order.
TurnsAreCounted == \A s \in TopUps : turn[s] <= Cardinality(Credited)

\* Nobody is past init_schema yet.
Untouched ==
    /\ available = InitialKeys /\ remaining = {}
    /\ \A s \in Sessions : ~At(s, "ready")
    /\ \A s \in Sessions : key_pc[s] \in {"sum", "fill"} => read[s] = InitialKeys

\* The rows cover the balance from the moment that somebody is.
Covered == Untouched \/ Cardinality(remaining) >= available

\* While sessions do not overlap, the one under way has read what still holds.
Serially ==
    overlapped
    \/ /\ \A s, t \in Sessions :
             key_pc[s] \in UnderWay /\ key_pc[t] \in UnderWay => s = t
       /\ Untouched \/ Cardinality(remaining) = available
       /\ \A s \in Sessions :
             /\ At(s, "sum") => read[s] = available
             /\ At(s, "fill") => read[s] + Cardinality(remaining) = available

\* The inductive invariant.
KeyInv ==
    /\ KeyTypeOK
    /\ KeysHaveRows
    /\ KeysPayOnce
    /\ BalanceIsConserved
    /\ TurnsAreCounted
    /\ OldestCreditFirst
    /\ Covered
    /\ \A u \in Usages : outcome[u] # "debit_failed"
    /\ Serially

\* A union of finitely many finite sets, given by a function, is finite.
LEMMA UnionFinite ==
    ASSUME NEW S, IsFiniteSet(S), NEW f, \A x \in S : IsFiniteSet(f[x])
    PROVE  IsFiniteSet(UNION {f[x] : x \in S})
<1> DEFINE T == {f[x] : x \in S}
           g == [x \in S |-> f[x]]
<1>1. g \in Surjection(S, T)
  BY DEF Surjection
<1>2. IsFiniteSet(T)
  BY <1>1, FS_Surjection
<1> QED
  BY <1>2, FS_UNION

\* The keys that have been spent, or credited, are finitely many.
LEMMA KeysFinite ==
    ASSUME KeyTypeOK
    PROVE  /\ IsFiniteSet(remaining) /\ IsFiniteSet(SpentKeys)
           /\ IsFiniteSet(CreditedKeys) /\ IsFiniteSet(Credited)
<1>1. IsFiniteSet(Usages) /\ IsFiniteSet(TopUps) /\ IsFiniteSet(Credited)
  BY KeyConstants, FS_Subset DEF Sessions, Credited
<1>2. IsFiniteSet(SpentKeys)
  BY <1>1, UnionFinite DEF SpentKeys, KeyTypeOK
<1>3. IsFiniteSet(CreditedKeys)
  <2> DEFINE f == [s \in Credited |-> Row("credit", s, Keys[s])]
  <2>1. \A s \in Credited : IsFiniteSet(f[s])
    BY KeyConstants, RowSize DEF Credited
  <2>2. {f[s] : s \in Credited} = {Row("credit", s, Keys[s]) : s \in Credited}
    OBVIOUS
  <2> HIDE DEF f
  <2>3. IsFiniteSet(UNION {f[s] : s \in Credited})
    BY <1>1, <2>1, UnionFinite
  <2> QED
    BY <2>2, <2>3 DEF CreditedKeys
<1> QED
  BY <1>1, <1>2, <1>3 DEF KeyTypeOK

\* At the start nothing is spent.
LEMMA KeyStart == ASSUME KeyInit PROVE KeyInv
<1>0. SpentKeys = {} /\ CreditedKeys = {} /\ Credited = {} /\ remaining = {}
  BY DEF KeyInit, SpentKeys, CreditedKeys, Credited
<1>1. KeyTypeOK
  <2>1. available \in Nat /\ IsFiniteSet(remaining) /\ \A u \in Usages : IsFiniteSet(allocated[u])
    BY KeyConstants, FS_EmptySet DEF KeyInit
  <2>2. /\ turn \in [TopUps -> Nat] /\ read \in [Sessions -> Nat]
        /\ outcome \in [Usages -> Outcomes]
        /\ key_pc \in [Sessions -> {"start", "done"} \cup UnderWay]
        /\ allocated \in [Usages -> SUBSET ({"legacy", "credit"} \X Sessions \X Nat)]
    BY DEF KeyInit, Outcomes
  <2>3. remaining = {} /\ overlapped = FALSE
    BY DEF KeyInit
  <2>4. remaining \subseteq {"legacy", "credit"} \X Sessions \X Nat
    BY <2>3
  <2> QED
    BY <2>1, <2>2, <2>3, <2>4 DEF KeyTypeOK
<1>2. BalanceIsConserved
  BY <1>0, FS_EmptySet, KeyConstants DEF KeyInit, BalanceIsConserved
<1>3. KeysPayOnce /\ OldestCreditFirst
  BY FS_EmptySet DEF KeyInit, KeysPayOnce, OldestCreditFirst
<1>4. KeysHaveRows /\ TurnsAreCounted
  BY <1>0, FS_EmptySet DEF KeyInit, KeysHaveRows, TurnsAreCounted
<1>5. Covered /\ Serially
  BY DEF KeyInit, Covered, Serially, Untouched, At, UnderWay
<1> QED
  BY <1>1, <1>2, <1>3, <1>4, <1>5 DEF KeyInv, KeyInit

\* Credits and costs are positive.
LEMMA KeysPositive == \A s \in TopUps \cup Usages : Keys[s] \in Nat /\ Keys[s] > 0
  BY KeyConstants

\* Every step keeps the types.
LEMMA KeyTypes ==
    ASSUME KeyTypeOK, [KeyNext]_keyVars
    PROVE  KeyTypeOK'
<1> USE KeyConstants DEF KeyTypeOK
<1>0. CASE UNCHANGED keyVars
  BY <1>0 DEF keyVars
<1>1. CASE KeyNext
  <2> PICK s \in Sessions :
        \/ ReadBalance(s) \/ ReadRows(s) \/ Backfill(s)
        \/ CreditKeys(s) \/ MeterUsage(s) \/ RefuseUsage(s) \/ EndSession(s)
    BY <1>1 DEF KeyNext
  <2>0. Summed \in Nat /\ Cardinality(Credited) \in Nat
    BY KeysFinite, FS_CardinalityType DEF Summed
  <2>1. CASE ReadBalance(s)
    BY <2>1 DEF ReadBalance, At, Proceed, UnderWay
  <2>2. CASE ReadRows(s)
    BY <2>0, <2>2 DEF ReadRows, At, Proceed, UnderWay
  <2>3. CASE Backfill(s)
    <3>0. IsFiniteSet(Row("legacy", s, read[s]))
      BY RowSize
    <3>1. Row("legacy", s, read[s]) \subseteq {"legacy", "credit"} \X Sessions \X Nat
      BY DEF Row
    <3>2. /\ IsFiniteSet(remaining')
          /\ remaining' \subseteq {"legacy", "credit"} \X Sessions \X Nat
      BY <2>3, <3>0, <3>1, FS_Union DEF Backfill
    <3> QED
      BY <2>3, <3>2 DEF Backfill, At, Proceed, UnderWay
  <2>4. CASE CreditKeys(s)
    <3>0. s \in TopUps /\ Keys[s] \in Nat
      BY <2>4, KeysPositive DEF CreditKeys
    <3>1. IsFiniteSet(CreditedRow(s))
      BY <3>0, RowSize DEF CreditedRow
    <3>4. CreditedRow(s) \subseteq {"legacy", "credit"} \X Sessions \X Nat
      BY <3>0 DEF Row, CreditedRow, Sessions
    <3>2. /\ IsFiniteSet(remaining')
          /\ remaining' \subseteq {"legacy", "credit"} \X Sessions \X Nat
      BY <2>4, <3>1, <3>4, FS_Union DEF CreditKeys
    <3>3. turn' \in [TopUps -> Nat] /\ available' \in Nat
      BY <2>0, <2>4, <3>0 DEF CreditKeys
    <3> QED
      BY <2>4, <3>2, <3>3 DEF CreditKeys, At, Proceed, UnderWay
  <2>5. CASE MeterUsage(s)
    <3>0. s \in Usages /\ Keys[s] \in Nat /\ available >= Keys[s]
      BY <2>5, KeysPositive DEF MeterUsage
    <3> PICK taken \in FifoChoices(Keys[s]) :
          /\ remaining' = Left(taken)
          /\ allocated' = [allocated EXCEPT ![s] = taken]
      BY <2>5 DEF MeterUsage
    <3>1. taken \subseteq remaining /\ IsFiniteSet(taken) /\ IsFiniteSet(remaining')
      BY FS_Subset DEF FifoChoices, Left
    <3>2. /\ remaining' \subseteq {"legacy", "credit"} \X Sessions \X Nat
          /\ allocated' \in [Usages -> SUBSET ({"legacy", "credit"} \X Sessions \X Nat)]
          /\ \A u \in Usages : IsFiniteSet(allocated'[u])
      BY <3>1 DEF Left
    <3>3. available' \in Nat /\ outcome' \in [Usages -> Outcomes]
      BY <2>5, <3>0 DEF MeterUsage, Outcomes
    <3> QED
      BY <2>5, <3>1, <3>2, <3>3 DEF MeterUsage, At, Proceed, UnderWay
  <2>6. CASE RefuseUsage(s)
    BY <2>6 DEF RefuseUsage, At, Proceed, UnderWay, Outcomes
  <2>7. CASE EndSession(s)
    BY <2>7 DEF EndSession, At, Proceed, UnderWay
  <2> QED
    BY <2>1, <2>2, <2>3, <2>4, <2>5, <2>6, <2>7
<1> QED
  BY <1>0, <1>1

\* What holds of the keys does not depend on how far sessions are that have
\* inserted none.
KeysInOrder ==
    KeysHaveRows /\ KeysPayOnce /\ BalanceIsConserved /\ TurnsAreCounted /\ OldestCreditFirst

LEMMA SameKeys ==
    ASSUME KeyTypeOK, KeysInOrder,
           UNCHANGED <<available, remaining, turn, allocated>>,
           NEW s \in Sessions, NEW p \in {"sum", "fill", "ready", "done"}, Proceed(s, p),
           ~At(s, "done"), At(s, "ready") => p = "done",
           \A u \in Usages :
               \/ outcome'[u] = outcome[u]
               \/ u = s /\ p = "done" /\ {outcome[u], outcome'[u]} \cap {"metered"} = {}
    PROVE  KeysInOrder'
<1> USE DEF KeysInOrder
<1>1. SpentKeys' = SpentKeys /\ CreditedKeys' = CreditedKeys /\ Credited' = Credited
  BY DEF SpentKeys, CreditedKeys, Credited
<1>2. KeysHaveRows'
  BY <1>1 DEF KeysHaveRows, At, Proceed, KeyTypeOK, Credited, Sessions
<1>3. KeysPayOnce'
  <2>1. \A u \in Usages : outcome'[u] = "metered" <=> outcome[u] = "metered"
    OBVIOUS
  <2> QED
    BY <2>1 DEF KeysPayOnce
<1>4. BalanceIsConserved' /\ TurnsAreCounted'
  BY <1>1 DEF BalanceIsConserved, TurnsAreCounted
<1>5. OldestCreditFirst'
  BY DEF OldestCreditFirst, Older, CreatedAt
<1> QED
  BY <1>2, <1>3, <1>4, <1>5

LEMMA KeyReadBalance ==
    ASSUME KeyInv, NEW s \in Sessions, ReadBalance(s)
    PROVE  KeysInOrder' /\ Covered' /\ Serially'
<1> USE DEF KeyInv
<1>0. /\ At(s, "start") /\ UNCHANGED <<available, remaining, turn, allocated, outcome>>
      /\ read' = [read EXCEPT ![s] = available]
      /\ Proceed(s, IF available = 0 THEN "ready" ELSE "sum")
      /\ overlapped' = (overlapped \/ \E t \in Sessions : key_pc[t] \in UnderWay)
  BY DEF ReadBalance
<1>1. KeysInOrder'
  <2> DEFINE p == IF available = 0 THEN "ready" ELSE "sum"
  <2>1. p \in {"sum", "fill", "ready", "done"} /\ Proceed(s, p) /\ ~At(s, "done") /\ ~At(s, "ready")
    BY <1>0 DEF At
  <2> HIDE DEF p
  <2> QED
    BY <1>0, <2>1, SameKeys DEF KeysInOrder
<1>2. available = 0 => Cardinality(remaining) >= available /\ (Untouched => Cardinality(remaining) = available)
  BY KeysFinite, FS_CardinalityType, FS_EmptySet DEF Untouched
<1>3. Untouched /\ available # 0 => Untouched'
  BY <1>0 DEF Untouched, At, Proceed, KeyTypeOK
<1>4. Covered'
  BY <1>0, <1>2, <1>3 DEF Covered
<1>5. CASE overlapped'
  BY <1>1, <1>4, <1>5 DEF Serially
<1>6. CASE ~overlapped'
  <2>1. ~overlapped /\ \A t \in Sessions : key_pc[t] \notin UnderWay
    BY <1>0, <1>6
  <2>2. \A t \in Sessions \ {s} : key_pc'[t] = key_pc[t]
    BY <1>0 DEF Proceed, KeyTypeOK
  <2>3. read'[s] = available /\ ~At(s, "fill")'
    BY <1>0 DEF Proceed, KeyTypeOK, At
  <2>4. (Untouched \/ Cardinality(remaining) = available)'
    BY <1>0, <1>2, <1>3, <2>1 DEF Serially
  <2> QED
    BY <1>0, <1>1, <1>4, <2>1, <2>2, <2>3, <2>4 DEF Serially, At, UnderWay
<1> QED
  BY <1>5, <1>6, <1>1, <1>4

LEMMA KeyReadRows ==
    ASSUME KeyInv, NEW s \in Sessions, ReadRows(s)
    PROVE  KeysInOrder' /\ Covered' /\ Serially'
<1> USE DEF KeyInv
<1>0. /\ At(s, "sum") /\ UNCHANGED <<available, remaining, turn, allocated, outcome, overlapped>>
      /\ \/ /\ read[s] > Cardinality(remaining)
            /\ read' = [read EXCEPT ![s] = @ - Cardinality(remaining)] /\ Proceed(s, "fill")
         \/ /\ ~(read[s] > Cardinality(remaining))
            /\ read' = read /\ Proceed(s, "ready")
  BY DEF ReadRows, Summed
<1>a. /\ available \in Nat /\ read[s] \in Nat /\ Cardinality(remaining) \in Nat
      /\ remaining = {} => Cardinality(remaining) = 0
  BY KeysFinite, FS_CardinalityType, FS_EmptySet DEF KeyTypeOK
<1>1. KeysInOrder'
  <2>1. \E p \in {"fill", "ready"} : Proceed(s, p)
    BY <1>0
  <2> QED
    BY <1>0, <2>1, SameKeys DEF KeysInOrder, At
<1>2. Untouched => Untouched' \/ Cardinality(remaining) = available
  <2> SUFFICES ASSUME Untouched, Cardinality(remaining) # available
               PROVE  Untouched'
    OBVIOUS
  <2>1. read[s] = InitialKeys /\ available = InitialKeys /\ Cardinality(remaining) = 0
    BY <1>0, <1>a DEF Untouched, At
  <2>2. Proceed(s, "fill") /\ read' = [read EXCEPT ![s] = InitialKeys]
    BY <1>0, <1>a, <2>1
  <2> QED
    BY <1>0, <2>1, <2>2 DEF Untouched, Proceed, At, KeyTypeOK
<1>3. Covered'
  BY <1>0, <1>a, <1>2 DEF Covered
<1>4. CASE overlapped
  BY <1>0, <1>1, <1>3, <1>4 DEF Serially
<1>5. CASE ~overlapped
  <2>1. \A t \in Sessions \ {s} : key_pc[t] \notin UnderWay /\ key_pc'[t] = key_pc[t]
    BY <1>0, <1>5 DEF Serially, Proceed, At, UnderWay, KeyTypeOK
  <2>2. (Untouched \/ Cardinality(remaining) = available)'
    BY <1>0, <1>2, <1>5 DEF Serially
  <2>3. read[s] = available
    BY <1>0, <1>5 DEF Serially
  <2>4. ~At(s, "sum")' /\ (At(s, "fill")' => read'[s] + Cardinality(remaining) = available)
    BY <1>0, <1>a, <2>3 DEF Proceed, At, KeyTypeOK
  <2> QED
    BY <1>0, <1>1, <1>3, <2>1, <2>2, <2>4 DEF Serially, At, UnderWay
<1> QED
  BY <1>1, <1>3, <1>4, <1>5

\* A session that only gives up, or a usage that is refused.
LEMMA KeyEnds ==
    ASSUME KeyInv, NEW s \in Sessions, EndSession(s) \/ RefuseUsage(s)
    PROVE  KeysInOrder' /\ Covered' /\ Serially' /\ \A u \in Usages : outcome'[u] # "debit_failed"
<1> USE DEF KeyInv
<1>a. available \in Nat /\ Cardinality(remaining) \in Nat
  BY KeysFinite, FS_CardinalityType DEF KeyTypeOK
<1>0. /\ key_pc[s] \in UnderWay /\ Proceed(s, "done")
      /\ UNCHANGED <<available, remaining, turn, allocated, read, overlapped>>
  BY DEF EndSession, RefuseUsage, At, UnderWay
<1>1. /\ \A u \in Usages :
            \/ outcome'[u] = outcome[u]
            \/ u = s /\ {outcome[u], outcome'[u]} \cap {"metered"} = {}
      /\ \A u \in Usages : outcome'[u] # "debit_failed"
  <2>1. CASE EndSession(s)
    BY <2>1 DEF EndSession
  <2>2. CASE RefuseUsage(s)
    <3>1. s \in Usages /\ At(s, "ready") /\ Keys[s] \in Nat
      BY <2>2, KeysPositive DEF RefuseUsage
    <3>2. Cardinality(remaining) >= available
      BY <3>1 DEF Covered, Untouched
    <3>3. available < Keys[s]
      BY <1>a, <2>2, <3>1, <3>2 DEF RefuseUsage, Summed
    <3>4. outcome' = [outcome EXCEPT ![s] = "insufficient_keys"]
      BY <2>2, <3>3 DEF RefuseUsage
    <3>5. outcome[s] = "none"
      BY <3>1 DEF KeysHaveRows, At
    <3> QED
      BY <3>1, <3>4, <3>5 DEF KeyTypeOK
  <2> QED
    BY <2>1, <2>2
<1>2. KeysInOrder'
  <2>1. ~At(s, "done")
    BY <1>0 DEF At, UnderWay
  <2> QED
    BY <1>0, <1>1, <2>1, SameKeys DEF KeysInOrder
<1>3. Untouched => Untouched'
  BY <1>0 DEF Untouched, Proceed, At, KeyTypeOK
<1>4. Covered'
  BY <1>0, <1>3 DEF Covered
<1>5. Serially'
  BY <1>0, <1>3 DEF Serially, Proceed, At, UnderWay, KeyTypeOK
<1> QED
  BY <1>1, <1>2, <1>4, <1>5

\* A legacy row has keys that were neither in the rows nor allocated.
LEMMA KeyBackfill ==
    ASSUME KeyInv, NEW s \in Sessions, Backfill(s)
    PROVE  KeysInOrder' /\ Covered' /\ Serially'
<1> USE DEF KeyInv
<1> DEFINE row == Row("legacy", s, read[s])
<1>0. /\ At(s, "fill") /\ remaining' = remaining \cup row /\ Proceed(s, "ready")
      /\ UNCHANGED <<available, turn, allocated, outcome, read, overlapped>>
  BY DEF Backfill
<1>1. \A k \in row : k[1] = "legacy" /\ k[2] = s
  BY DEF Row
<1>2. IsFiniteSet(row) /\ Cardinality(row) = read[s] /\ read[s] \in Nat
  BY RowSize DEF KeyTypeOK
<1> HIDE DEF row
<1>3. \A k \in remaining \cup SpentKeys : ~(k[1] = "legacy" /\ k[2] = s)
  BY <1>0 DEF KeysHaveRows, At
<1>4. row \cap remaining = {} /\ \A u \in Usages : allocated[u] \cap row = {}
  BY <1>1, <1>3 DEF SpentKeys
<1>5. /\ Cardinality(remaining') = Cardinality(remaining) + read[s]
      /\ Cardinality(remaining) \in Nat
  BY <1>0, <1>2, <1>4, KeysFinite, DisjointUnion
<1>6. SpentKeys' = SpentKeys /\ CreditedKeys' = CreditedKeys /\ Credited' = Credited
  BY <1>0 DEF SpentKeys, CreditedKeys, Credited
<1>7. KeysHaveRows'
  <2>1. \A k \in remaining' \cup SpentKeys' :
          k \in remaining \cup SpentKeys \/ (k[1] = "legacy" /\ k[2] = s)
    BY <1>0, <1>1, <1>6
  <2>2. \A t \in Sessions : key_pc'[t] = IF t = s THEN "ready" ELSE key_pc[t]
    BY <1>0 DEF Proceed, KeyTypeOK
  <2>3. \A k \in remaining' \cup SpentKeys' :
          k[1] = "legacy" => key_pc'[k[2]] \in {"ready", "done"}
    BY <1>0, <1>3, <2>1, <2>2 DEF KeysHaveRows, Proceed, KeyTypeOK
  <2>4. \A k \in remaining' \cup SpentKeys' : k[1] = "credit" => k[2] \in Credited
    BY <2>1 DEF KeysHaveRows
  <2>5. \A t \in TopUps : turn'[t] > 0 => At(t, "done")'
    BY <1>0, <2>2 DEF KeysHaveRows, At, Sessions
  <2>6. \A u \in Usages : ~At(u, "done")' => outcome'[u] = "none"
    BY <1>0, <2>2 DEF KeysHaveRows, At, Sessions
  <2> QED
    BY <1>6, <2>3, <2>4, <2>5, <2>6 DEF KeysHaveRows
<1>8. KeysPayOnce'
  BY <1>0, <1>4 DEF KeysPayOnce
<1>9. BalanceIsConserved' /\ TurnsAreCounted'
  BY <1>0, <1>6 DEF BalanceIsConserved, TurnsAreCounted
<1>10. OldestCreditFirst'
  BY <1>0, <1>1 DEF OldestCreditFirst, Older, CreatedAt
<1>11. Covered'
  <2>1. Untouched => read[s] = available
    BY <1>0 DEF Untouched, At
  <2> QED
    BY <1>0, <1>2, <1>5, <2>1 DEF Covered, KeyTypeOK
<1>12. Serially'
  <2>1. CASE ~overlapped
    <3>1. \A t \in Sessions \ {s} : key_pc[t] \notin UnderWay /\ key_pc'[t] = key_pc[t]
      BY <1>0, <2>1 DEF Serially, Proceed, At, UnderWay, KeyTypeOK
    <3>2. Cardinality(remaining') = available'
      BY <1>0, <1>2, <1>5, <2>1 DEF Serially, KeyTypeOK
    <3>3. At(s, "ready")'
      BY <1>0 DEF Proceed, At, KeyTypeOK
    <3> QED
      BY <1>0, <3>1, <3>2, <3>3 DEF Serially, At, UnderWay
  <2> QED
    BY <1>0, <2>1 DEF Serially
<1> QED
  BY <1>7, <1>8, <1>9, <1>10, <1>11, <1>12 DEF KeysInOrder

\* A credit is the newest row, and adds to balance and rows alike.
LEMMA KeyCredits ==
    ASSUME KeyInv, NEW s \in Sessions, CreditKeys(s)
    PROVE  KeysInOrder' /\ Covered' /\ Serially'
<1> USE DEF KeyInv
<1> DEFINE row == CreditedRow(s)
<1>0. /\ At(s, "ready") /\ remaining' = remaining \cup row /\ Proceed(s, "done")
      /\ available' = available + Keys[s] /\ s \in TopUps /\ s \notin Usages
      /\ turn' = [turn EXCEPT ![s] = Cardinality(Credited) + 1]
      /\ UNCHANGED <<allocated, outcome, read, overlapped>>
      /\ Keys[s] \in Nat
  BY KeyConstants, KeysPositive DEF CreditKeys
<1>1. \A k \in row : k[1] = "credit" /\ k[2] = s
  BY DEF Row, CreditedRow
<1>2. IsFiniteSet(row) /\ Cardinality(row) = Keys[s]
  BY <1>0, RowSize DEF CreditedRow
<1> HIDE DEF row
<1>3. s \notin Credited /\ turn[s] = 0 /\ Credited \subseteq TopUps
  BY <1>0 DEF KeysHaveRows, Credited, At, KeyTypeOK
<1>4. /\ \A k \in remaining \cup SpentKeys : k[1] = "credit" => k[2] \in Credited
      /\ row \cap remaining = {} /\ \A u \in Usages : allocated[u] \cap row = {}
  BY <1>1, <1>3 DEF SpentKeys, KeysHaveRows
<1>5. /\ Cardinality(remaining') = Cardinality(remaining) + Keys[s]
      /\ Cardinality(remaining) \in Nat /\ available \in Nat
  BY <1>0, <1>2, <1>4, KeysFinite, DisjointUnion DEF KeyTypeOK
<1>6. /\ SpentKeys' = SpentKeys /\ Credited' = Credited \cup {s}
      /\ CreditedKeys' = CreditedKeys \cup row /\ CreditedKeys \cap row = {}
  <2>0. Cardinality(Credited) \in Nat
    BY KeysFinite, FS_CardinalityType
  <2>4. \A t \in TopUps : turn'[t] > 0 <=> t = s \/ turn[t] > 0
    BY <1>0, <2>0 DEF KeyTypeOK
  <2>1. Credited' = Credited \cup {s}
    BY <1>0, <2>4 DEF Credited
  <2>2. CreditedKeys' = CreditedKeys \cup row
    BY <2>1 DEF CreditedKeys, row, CreditedRow
  <2>3. \A k \in CreditedKeys : k[2] \in Credited
    BY DEF CreditedKeys, Row
  <2> QED
    BY <1>0, <1>1, <1>3, <2>1, <2>2, <2>3 DEF SpentKeys
<1>7. /\ Cardinality(Credited) \in Nat
      /\ Cardinality(Credited') = Cardinality(Credited) + 1
      /\ Cardinality(CreditedKeys') = Cardinality(CreditedKeys) + Keys[s]
      /\ Cardinality(CreditedKeys) \in Nat /\ Cardinality(SpentKeys) \in Nat
  <2>1. /\ Cardinality(Credited) \in Nat
        /\ Cardinality(Credited \cup {s}) = Cardinality(Credited) + 1
    BY <1>3, KeysFinite, FS_AddElement, FS_CardinalityType
  <2>2. /\ Cardinality(CreditedKeys \cup row) = Cardinality(CreditedKeys) + Cardinality(row)
        /\ Cardinality(CreditedKeys) \in Nat /\ Cardinality(SpentKeys) \in Nat
    BY <1>2, <1>6, KeysFinite, DisjointUnion, FS_CardinalityType
  <2> QED
    BY <1>2, <1>6, <2>1, <2>2
<1>8. /\ \A t \in Sessions : key_pc'[t] = IF t = s THEN "done" ELSE key_pc[t]
      /\ \A t \in TopUps : turn'[t] = IF t = s THEN Cardinality(Credited) + 1 ELSE turn[t]
  BY <1>0 DEF Proceed, KeyTypeOK
<1>9. KeysHaveRows'
  <2>1. \A k \in remaining' \cup SpentKeys' :
          k \in remaining \cup SpentKeys \/ (k[1] = "credit" /\ k[2] = s)
    BY <1>0, <1>1, <1>6
  <2>3. \A k \in remaining' \cup SpentKeys' :
          k[1] = "legacy" => key_pc'[k[2]] \in {"ready", "done"}
    BY <1>0, <2>1 DEF KeysHaveRows, Proceed, KeyTypeOK
  <2>4. \A k \in remaining' \cup SpentKeys' : k[1] = "credit" => k[2] \in Credited'
    BY <1>6, <2>1 DEF KeysHaveRows
  <2>5. \A t \in TopUps : turn'[t] > 0 => At(t, "done")'
    BY <1>8 DEF KeysHaveRows, At, Sessions
  <2>6. \A u \in Usages : ~At(u, "done")' => outcome'[u] = "none"
    BY <1>0, <1>8 DEF KeysHaveRows, At, Sessions
  <2> QED
    BY <2>3, <2>4, <2>5, <2>6 DEF KeysHaveRows
<1>10. KeysPayOnce'
  BY <1>0, <1>4 DEF KeysPayOnce
<1>11. BalanceIsConserved' /\ TurnsAreCounted'
  <2>1. BalanceIsConserved'
    BY <1>0, <1>5, <1>6, <1>7, KeyConstants DEF BalanceIsConserved
  <2>2. \A t \in TopUps : turn'[t] <= Cardinality(Credited')
    BY <1>7, <1>8 DEF TurnsAreCounted, KeyTypeOK
  <2> QED
    BY <2>1, <2>2 DEF TurnsAreCounted
<1>12. OldestCreditFirst'
  <2> SUFFICES ASSUME NEW u \in Usages, NEW k \in allocated'[u], NEW left \in remaining',
                      k[1] = "credit", left[1] = "credit"
               PROVE  ~(CreatedAt(left)' < CreatedAt(k)')
    BY DEF OldestCreditFirst, Older
  <2>1. k \in allocated[u] /\ k[2] \in Credited /\ k[2] # s /\ k[2] \in TopUps
    BY <1>0, <1>3, <1>4 DEF SpentKeys
  <2>2. CreatedAt(k)' = turn[k[2]] /\ CreatedAt(k) = turn[k[2]] /\ turn[k[2]] \in Nat
    BY <1>8, <2>1 DEF CreatedAt, KeyTypeOK
  <2>3. CASE left \in remaining
    <3>1. left[2] \in Credited /\ left[2] # s /\ left[2] \in TopUps
      BY <1>3, <1>4, <2>3
    <3>2. CreatedAt(left)' = CreatedAt(left)
      BY <1>8, <3>1 DEF CreatedAt
    <3> QED
      BY <2>1, <2>2, <2>3, <3>2 DEF OldestCreditFirst, Older
  <2>4. CASE left \in row
    <3>1. CreatedAt(left)' = Cardinality(Credited) + 1
      BY <1>0, <1>1, <1>8, <2>4 DEF CreatedAt
    <3> QED
      BY <1>7, <2>1, <2>2, <3>1 DEF TurnsAreCounted
  <2> QED
    BY <1>0, <2>3, <2>4
<1>13. Covered'
  BY <1>0, <1>5 DEF Covered, Untouched
<1>14. Serially'
  <2>1. CASE ~overlapped
    <3>1. \A t \in Sessions : key_pc'[t] \notin UnderWay
      BY <1>0, <1>8, <2>1 DEF Serially, At, UnderWay
    <3>2. Cardinality(remaining') = available'
      BY <1>0, <1>5, <2>1 DEF Serially, Untouched
    <3> QED
      BY <3>1, <3>2 DEF Serially, At, UnderWay
  <2> QED
    BY <1>0, <2>1 DEF Serially
<1> QED
  BY <1>9, <1>10, <1>11, <1>12, <1>13, <1>14 DEF KeysInOrder

\* A usage takes what it costs from balance and rows alike, oldest first.
LEMMA KeyMeters ==
    ASSUME KeyInv, NEW s \in Sessions, MeterUsage(s)
    PROVE  KeysInOrder' /\ Covered' /\ Serially' /\ \A u \in Usages : outcome'[u] # "debit_failed"
<1> USE DEF KeyInv
<1> PICK taken \in FifoChoices(Keys[s]) :
      /\ remaining' = Left(taken)
      /\ allocated' = [allocated EXCEPT ![s] = taken]
  BY DEF MeterUsage
<1>0. /\ At(s, "ready") /\ remaining' = remaining \ taken /\ Proceed(s, "done")
      /\ available' = available - Keys[s] /\ available >= Keys[s] /\ s \in Usages
      /\ s \notin TopUps
      /\ outcome' = [outcome EXCEPT ![s] = "metered"]
      /\ allocated' = [allocated EXCEPT ![s] = taken]
      /\ UNCHANGED <<turn, read, overlapped>>
      /\ Keys[s] \in Nat /\ available \in Nat
  BY KeyConstants, KeysPositive DEF MeterUsage, Left, KeyTypeOK
<1>1. /\ taken \subseteq remaining /\ Cardinality(taken) = Keys[s]
      /\ \A k \in taken, left \in remaining \ taken : ~Older(left, k)
  BY DEF FifoChoices
<1>2. /\ IsFiniteSet(taken) /\ IsFiniteSet(remaining')
      /\ Cardinality(remaining') = Cardinality(remaining) - Keys[s]
      /\ Cardinality(remaining) \in Nat
  BY <1>0, <1>1, KeysFinite, Taken
<1>3. /\ \A u \in Usages : IsFiniteSet(allocated[u])
      /\ outcome[s] = "none" /\ allocated[s] = {}
      /\ \A u \in Usages : allocated'[u] = IF u = s THEN taken ELSE allocated[u]
  <2>1. outcome[s] = "none"
    BY <1>0 DEF KeysHaveRows, At
  <2>2. Cardinality(allocated[s]) = 0 /\ IsFiniteSet(allocated[s])
    BY <1>0, <2>1 DEF KeysPayOnce, KeyTypeOK
  <2> QED
    BY <1>0, <2>1, <2>2, FS_EmptySet DEF KeyTypeOK
<1>4. /\ SpentKeys' = SpentKeys \cup taken /\ SpentKeys \cap taken = {}
      /\ CreditedKeys' = CreditedKeys /\ Credited' = Credited
  <2>1. SpentKeys' = SpentKeys \cup taken
    BY <1>0, <1>3 DEF SpentKeys
  <2>2. SpentKeys \cap taken = {}
    BY <1>1 DEF SpentKeys, KeysPayOnce
  <2> QED
    BY <1>0, <2>1, <2>2 DEF CreditedKeys, Credited
<1>5. /\ Cardinality(SpentKeys') = Cardinality(SpentKeys) + Keys[s]
      /\ Cardinality(SpentKeys) \in Nat /\ Cardinality(CreditedKeys) \in Nat
  BY <1>1, <1>2, <1>4, KeysFinite, DisjointUnion, FS_CardinalityType
<1>6. \A t \in Sessions : key_pc'[t] = IF t = s THEN "done" ELSE key_pc[t]
  BY <1>0 DEF Proceed, KeyTypeOK
<1>7. KeysHaveRows'
  <2>1. remaining' \cup SpentKeys' \subseteq remaining \cup SpentKeys
    BY <1>0, <1>1, <1>4
  <2>2. \A t \in TopUps : turn'[t] > 0 => At(t, "done")'
    BY <1>0, <1>6 DEF KeysHaveRows, At, Sessions
  <2>3. \A u \in Usages : ~At(u, "done")' => outcome'[u] = "none"
    BY <1>0, <1>6 DEF KeysHaveRows, At, Sessions, KeyTypeOK
  <2> QED
    BY <1>0, <1>4, <2>1, <2>2, <2>3 DEF KeysHaveRows, Proceed, KeyTypeOK
<1>8. KeysPayOnce'
  <2> SUFFICES ASSUME NEW u \in Usages
               PROVE  /\ Cardinality(allocated'[u]) = IF outcome'[u] = "metered" THEN Keys[u] ELSE 0
                      /\ allocated'[u] \cap remaining' = {}
                      /\ \A v \in Usages \ {u} : allocated'[u] \cap allocated'[v] = {}
    BY DEF KeysPayOnce
  <2>1. \A v \in Usages : allocated[v] \cap taken = {}
    BY <1>1 DEF KeysPayOnce
  <2> QED
    BY <1>0, <1>1, <1>3, <2>1 DEF KeysPayOnce, KeyTypeOK
<1>9. BalanceIsConserved' /\ TurnsAreCounted'
  BY <1>0, <1>4, <1>5, KeyConstants DEF BalanceIsConserved, TurnsAreCounted
<1>10. OldestCreditFirst'
  <2>1. \A j, k : Older(j, k)' <=> Older(j, k)
    BY <1>0 DEF Older, CreatedAt
  <2>2. \A u \in Usages : \A k \in allocated'[u], left \in remaining' :
            k[1] = "credit" /\ left[1] = "credit" => ~Older(left, k)
    BY <1>0, <1>1, <1>3 DEF OldestCreditFirst
  <2> QED
    BY <2>1, <2>2 DEF OldestCreditFirst
<1>11. Covered'
  BY <1>0, <1>2 DEF Covered, Untouched
<1>12. Serially'
  <2>1. CASE ~overlapped
    <3>1. \A t \in Sessions : key_pc'[t] \notin UnderWay
      BY <1>0, <1>6, <2>1 DEF Serially, At, UnderWay
    <3>2. Cardinality(remaining') = available'
      BY <1>0, <1>2, <2>1 DEF Serially, Untouched
    <3> QED
      BY <3>1, <3>2 DEF Serially, At, UnderWay
  <2> QED
    BY <1>0, <2>1 DEF Serially
<1>13. \A u \in Usages : outcome'[u] # "debit_failed"
  BY <1>0 DEF KeyTypeOK
<1> QED
  BY <1>7, <1>8, <1>9, <1>10, <1>11, <1>12, <1>13 DEF KeysInOrder

\* Every step keeps the invariant.
LEMMA KeyStep ==
    ASSUME KeyInv, [KeyNext]_keyVars
    PROVE  KeyInv'
<1>1. KeyTypeOK'
  BY KeyTypes DEF KeyInv
<1>2. CASE UNCHANGED keyVars
  <2>1. SpentKeys' = SpentKeys /\ CreditedKeys' = CreditedKeys /\ Credited' = Credited
    BY <1>2 DEF keyVars, SpentKeys, CreditedKeys, Credited
  <2>2. KeysHaveRows' /\ KeysPayOnce' /\ BalanceIsConserved' /\ TurnsAreCounted'
    BY <1>2, <2>1 DEF KeyInv, keyVars, KeysHaveRows, KeysPayOnce, BalanceIsConserved,
       TurnsAreCounted, At
  <2>3. OldestCreditFirst' /\ Covered' /\ Serially' /\ \A u \in Usages : outcome'[u] # "debit_failed"
    BY <1>2 DEF KeyInv, keyVars, OldestCreditFirst, Older, CreatedAt, Covered, Untouched,
       Serially, At
  <2> QED
    BY <1>1, <2>2, <2>3 DEF KeyInv
<1>3. CASE KeyNext
  <2> PICK s \in Sessions :
        \/ ReadBalance(s) \/ ReadRows(s) \/ Backfill(s)
        \/ CreditKeys(s) \/ MeterUsage(s) \/ RefuseUsage(s) \/ EndSession(s)
    BY <1>3 DEF KeyNext
  <2>1. CASE ReadBalance(s) \/ ReadRows(s) \/ Backfill(s) \/ CreditKeys(s)
    <3>1. outcome' = outcome
      BY <2>1 DEF ReadBalance, ReadRows, Backfill, CreditKeys
    <3>2. KeysInOrder' /\ Covered' /\ Serially'
      BY <2>1, KeyReadBalance, KeyReadRows, KeyBackfill, KeyCredits
    <3> QED
      BY <1>1, <3>1, <3>2 DEF KeyInv, KeysInOrder
  <2>2. CASE MeterUsage(s)
    BY <1>1, <2>2, KeyMeters DEF KeyInv, KeysInOrder
  <2>3. CASE RefuseUsage(s) \/ EndSession(s)
    BY <1>1, <2>3, KeyEnds DEF KeyInv, KeysInOrder
  <2> QED
    BY <2>1, <2>2, <2>3
<1> QED
  BY <1>2, <1>3

LEMMA KeyInvariant == KeySpec => []KeyInv
  BY KeyStart, KeyStep, PTL DEF KeySpec

\* Every reachable state of the key ledger has its types.
THEOREM KeyTypeCorrect == KeySpec => []KeyTypeOK
<1>1. KeyInv => KeyTypeOK
  BY DEF KeyInv
<1> QED
  BY <1>1, KeyInvariant, PTL

\* Whatever sessions overlap in init_schema, the rows never refuse a usage
\* that the balance admits.
THEOREM BalanceAlwaysSpendable == KeySpec => []BalanceCanBeSpent
<1>1. KeyInv => BalanceCanBeSpent
  BY DEF KeyInv, BalanceCanBeSpent, Covered, Untouched
<1> QED
  BY <1>1, KeyInvariant, PTL

\* Every metered usage is paid with exactly its cost in keys of its own.
THEOREM KeysNeverPayTwice == KeySpec => []KeysPayOnce
<1>1. KeyInv => KeysPayOnce
  BY DEF KeyInv
<1> QED
  BY <1>1, KeyInvariant, PTL

\* Legacy rows that overlapping sessions make up change no balance.
THEOREM BalanceConserved == KeySpec => []BalanceIsConserved
<1>1. KeyInv => BalanceIsConserved
  BY DEF KeyInv
<1> QED
  BY <1>1, KeyInvariant, PTL

\* Usages are traced to the oldest credits.
THEOREM CreditsAreFifo == KeySpec => []OldestCreditFirst
<1>1. KeyInv => OldestCreditFirst
  BY DEF KeyInv
<1> QED
  BY <1>1, KeyInvariant, PTL

\* While sessions do not overlap, rows and balance are the same keys.
THEOREM SerialRowsAreBalance == KeySpec => []RowsAreBalance
<1>1. KeyInv => RowsAreBalance
  BY DEF KeyInv, RowsAreBalance, Serially, Untouched
<1> QED
  BY <1>1, KeyInvariant, PTL

-----------------------------------------------------------------------------
(* On-ramp settlement *)

ReceiptStage == 4

Stages == 1 .. AnswerStage - 1

Kind(i) == Pipeline[i][1]
Name(i) == Pipeline[i][2]

\* What a statement of the pipeline leaves in the stores.
Done(i, p) ==
    \/ Kind(i) = "insert" /\ Has(Name(i), p)
    \/ Kind(i) = "persist" /\ Persisted(Name(i), p)
    \/ Kind(i) = "mirror" /\ Mirrored(Name(i), p)
    \/ Kind(i) = "claim" /\ Claimed(Name(i), p)

\* The accrual and its event are for purchases of the affiliate only.
Owed(i, p) == i <= AccrualStage \/ p \in Referred

\* The transaction of a purchase has a receipt.
TxRecorded(p) == \E q \in Purchases : Has("receipts", q) /\ TxOf[q] = TxOf[p]

\* The stores hold what the statements before n have left, and nothing of the
\* statements from n on.
ReachedTo(n, p) ==
    /\ \A i \in Stages : Done(i, p) => i < n /\ Owed(i, p)
    /\ \A i \in Stages \ {ReceiptStage} : i < n /\ Owed(i, p) => Done(i, p)
    /\ n > ReceiptStage => TxRecorded(p)

\* A purchase is settled up to some statement; who settles it is there.
PipelinesReach ==
    /\ \A p \in Purchases : \E n \in 1 .. AnswerStage : ReachedTo(n, p)
    /\ \A h \in Handlers : stage[h] > 1 =>
          /\ ReachedTo(stage[h], purchase[h])
          /\ stage[h] \in 18 .. 19 => purchase[h] \in Referred

\* Only one pipeline gets past the payment.
OnePipeline ==
    \A h, k \in Handlers :
        stage[h] > 1 /\ stage[k] > 1 /\ purchase[h] = purchase[k] => h = k

AtMostOneRow == \A t \in Tables, p \in Purchases : rows[t][p] \in {0, 1}

\* What the release job has listed, marked and reported.
ReleasesAreMarked ==
    /\ released \subseteq {p \in Purchases : Has("reserves", p)}
    /\ \A j \in Jobs :
          /\ due[j] \subseteq {p \in Purchases : Has("reserves", p)}
          /\ job_step[j] \in {"persist", "mirror"} => reserve[j] \in released
          /\ JobAt(j, "mirror") => Persisted("ReserveReleased", reserve[j])
    /\ \A p \in Purchases :
          /\ Persisted("ReserveReleased", p) => p \in released
          /\ Mirrored("ReserveReleased", p) => Persisted("ReserveReleased", p)

OnrampIInv ==
    /\ OnrampTypeOK
    /\ AtMostOneRow
    /\ OnePipeline
    /\ PipelinesReach
    /\ ReleasesAreMarked

-----------------------------------------------------------------------------
(* The pipeline. *)

\* What the statements are.
LEMMA PipelineIs ==
    /\ Pipeline[1] = <<"insert", "payments">>
    /\ Pipeline[2] = <<"persist", "PaymentReceived">>
    /\ Pipeline[3] = <<"mirror", "PaymentReceived">>
    /\ Pipeline[4] = <<"insert", "receipts">>
    /\ Pipeline[5] = <<"persist", "CryptoReceived">>
    /\ Pipeline[6] = <<"mirror", "CryptoReceived">>
    /\ Pipeline[7] = <<"insert", "reserves">>
    /\ Pipeline[8] = <<"persist", "ReserveAllocated">>
    /\ Pipeline[9] = <<"mirror", "ReserveAllocated">>
    /\ Pipeline[10] = <<"insert", "onramp_keys">>
    /\ Pipeline[11] = <<"insert", "treasury_keys">>
    /\ Pipeline[12] = <<"persist", "ClawKeyIssued">>
    /\ Pipeline[13] = <<"mirror", "ClawKeyIssued">>
    /\ Pipeline[14] = <<"claim", "keys_credited">>
    /\ Pipeline[15] = <<"insert", "credits">>
    /\ Pipeline[16] = <<"claim", "accrual_emitted">>
    /\ Pipeline[17] = <<"insert", "accruals">>
    /\ Pipeline[18] = <<"persist", "AffiliateAccrued">>
    /\ Pipeline[19] = <<"mirror", "AffiliateAccrued">>
    /\ Pipeline[20] = <<"answer", "ok">>
  BY DEF Pipeline

\* One by one.
LEMMA StagesAre ==
    ASSUME NEW i \in 1 .. AnswerStage
    PROVE  \/ i = 1 \/ i = 2 \/ i = 3 \/ i = 4 \/ i = 5 \/ i = 6 \/ i = 7
           \/ i = 8 \/ i = 9 \/ i = 10 \/ i = 11 \/ i = 12 \/ i = 13 \/ i = 14
           \/ i = 15 \/ i = 16 \/ i = 17 \/ i = 18 \/ i = 19 \/ i = 20
  BY DEF AnswerStage

\* No statement occurs twice.
LEMMA StatementsDiffer ==
    \A i, j \in 1 .. AnswerStage : Kind(i) = Kind(j) /\ Name(i) = Name(j) => i = j
<1> SUFFICES ASSUME NEW i \in 1 .. AnswerStage, NEW j \in 1 .. AnswerStage,
                    Kind(i) = Kind(j), Name(i) = Name(j)
             PROVE  i = j
  OBVIOUS
<1>1. Pipeline[i][1] = Pipeline[j][1] /\ Pipeline[i][2] = Pipeline[j][2]
  BY DEF Kind, Name
<1> QED
  BY <1>1, PipelineIs, StagesAre, SMTT(60)

\* Statements that insert have a table, and those of the pipeline proper are
\* of four kinds.
LEMMA StatementKinds ==
    \A i \in Stages :
        /\ Kind(i) \in {"insert", "persist", "mirror", "claim"}
        /\ Kind(i) = "insert" => Name(i) \in Tables
        /\ Kind(i) \in {"persist", "mirror"} => Name(i) \in PaymentEvents
        /\ Kind(i) = "claim" => Name(i) \in Hooks
<1> SUFFICES ASSUME NEW i \in Stages
             PROVE  /\ Kind(i) \in {"insert", "persist", "mirror", "claim"}
                    /\ Kind(i) = "insert" => Name(i) \in Tables
                    /\ Kind(i) \in {"persist", "mirror"} => Name(i) \in PaymentEvents
                    /\ Kind(i) = "claim" => Name(i) \in Hooks
  OBVIOUS
<1>1. i \in 1 .. AnswerStage /\ i # 20
  BY DEF Stages, AnswerStage
<1> QED
  BY <1>1, PipelineIs, StagesAre, SMTT(60)
     DEF Kind, Name, Tables, PlainTables, PaymentEvents, Hooks

\* A handler that executes a statement is at its place.
LEMMA ExecutesAt ==
    ASSUME OnrampTypeOK, NEW h \in Handlers, NEW kind, NEW name,
           Executes(h, kind, name)
    PROVE  /\ stage[h] \in 1 .. AnswerStage
           /\ Kind(stage[h]) = kind /\ Name(stage[h]) = name
           /\ kind # "answer" => stage[h] \in Stages
<1>1. stage[h] \in 1 .. AnswerStage
  BY DEF OnrampTypeOK, Executes, AnswerStage
<1>2. Kind(stage[h]) = kind /\ Name(stage[h]) = name
  BY DEF Executes, Kind, Name
<1>3. ASSUME stage[h] = AnswerStage
      PROVE  kind = "answer"
  BY <1>2, <1>3, PipelineIs DEF Kind, AnswerStage
<1> QED
  BY <1>1, <1>2, <1>3 DEF Stages, AnswerStage

-----------------------------------------------------------------------------
(* What a statement does to the stores. *)

\* Statement i is executed for p: it, and nothing else, is done now.
Executed(i, p) ==
    \A j \in Stages, q \in Purchases :
        Done(j, q)' <=> Done(j, q) \/ (j = i /\ q = p)

\* An inserted row.
LEMMA InsertExecuted ==
    ASSUME OnrampTypeOK, NEW i \in Stages, NEW p \in Purchases,
           Kind(i) = "insert", rows' = Inserted(Name(i), p),
           UNCHANGED <<canonical, ledger, claimed>>
    PROVE  Executed(i, p)
<1> SUFFICES ASSUME NEW j \in Stages, NEW q \in Purchases
             PROVE  Done(j, q)' <=> Done(j, q) \/ (j = i /\ q = p)
  BY DEF Executed
<1>1. Name(i) \in Tables
  BY StatementKinds
<1>2. CASE Kind(j) = "insert"
  <2>1. Name(j) \in Tables
    BY <1>2, StatementKinds
  <2>2. rows \in [Tables -> [Purchases -> Nat]]
    BY DEF OnrampTypeOK
  <2>3. rows'[Name(j)][q] = IF Name(j) = Name(i) /\ q = p
                            THEN rows[Name(j)][q] + 1 ELSE rows[Name(j)][q]
    BY <1>1, <2>1, <2>2 DEF Inserted
  <2>4. rows[Name(j)][q] \in Nat
    BY <2>1, <2>2
  <2>5. Has(Name(j), q)' <=> Has(Name(j), q) \/ (Name(j) = Name(i) /\ q = p)
    BY <2>3, <2>4 DEF Has
  <2>6. Name(j) = Name(i) <=> j = i
    BY <1>2, StatementsDiffer DEF Stages, AnswerStage
  <2>7. (Kind(j) = "insert")' /\ Name(j)' = Name(j)
    BY <1>2 DEF Kind, Name
  <2>8. Done(j, q)' <=> Has(Name(j), q)'
    BY <1>2 DEF Done, Kind, Name
  <2>9. Done(j, q) <=> Has(Name(j), q)
    BY <1>2 DEF Done
  <2> QED
    BY <2>5, <2>6, <2>8, <2>9
<1>3. CASE Kind(j) # "insert"
  BY <1>3 DEF Done, Persisted, Mirrored, Claimed, Kind, Name
<1> QED
  BY <1>2, <1>3

\* A persisted event.
LEMMA PersistExecuted ==
    ASSUME NEW i \in Stages, NEW p \in Purchases,
           Kind(i) = "persist", canonical' = canonical \cup {<<Name(i), p>>},
           UNCHANGED <<rows, ledger, claimed>>
    PROVE  Executed(i, p)
<1> SUFFICES ASSUME NEW j \in Stages, NEW q \in Purchases
             PROVE  Done(j, q)' <=> Done(j, q) \/ (j = i /\ q = p)
  BY DEF Executed
<1>1. CASE Kind(j) = "persist"
  <2>1. Name(j) = Name(i) <=> j = i
    BY <1>1, StatementsDiffer DEF Stages, AnswerStage
  <2>2. Persisted(Name(j), q)' <=> Persisted(Name(j), q) \/ (Name(j) = Name(i) /\ q = p)
    BY DEF Persisted, Name
  <2>3. Done(j, q)' <=> Persisted(Name(j), q)'
    BY <1>1 DEF Done, Kind, Name
  <2>4. Done(j, q) <=> Persisted(Name(j), q)
    BY <1>1 DEF Done
  <2> QED
    BY <2>1, <2>2, <2>3, <2>4
<1>2. CASE Kind(j) # "persist"
  BY <1>2 DEF Done, Has, Mirrored, Claimed, Kind, Name
<1> QED
  BY <1>1, <1>2

\* A mirrored event.
LEMMA MirrorExecuted ==
    ASSUME NEW i \in Stages, NEW p \in Purchases,
           Kind(i) = "mirror", ledger' = ledger \cup {<<Name(i), p>>},
           UNCHANGED <<rows, canonical, claimed>>
    PROVE  Executed(i, p)
<1> SUFFICES ASSUME NEW j \in Stages, NEW q \in Purchases
             PROVE  Done(j, q)' <=> Done(j, q) \/ (j = i /\ q = p)
  BY DEF Executed
<1>1. CASE Kind(j) = "mirror"
  <2>1. Name(j) = Name(i) <=> j = i
    BY <1>1, StatementsDiffer DEF Stages, AnswerStage
  <2>2. Mirrored(Name(j), q)' <=> Mirrored(Name(j), q) \/ (Name(j) = Name(i) /\ q = p)
    BY DEF Mirrored, Name
  <2>3. Done(j, q)' <=> Mirrored(Name(j), q)'
    BY <1>1 DEF Done, Kind, Name
  <2>4. Done(j, q) <=> Mirrored(Name(j), q)
    BY <1>1 DEF Done
  <2> QED
    BY <2>1, <2>2, <2>3, <2>4
<1>2. CASE Kind(j) # "mirror"
  BY <1>2 DEF Done, Has, Persisted, Claimed, Kind, Name
<1> QED
  BY <1>1, <1>2

\* A claimed hook.
LEMMA ClaimExecuted ==
    ASSUME NEW i \in Stages, NEW p \in Purchases,
           Kind(i) = "claim", claimed' = claimed \cup {<<Name(i), p>>},
           UNCHANGED <<rows, canonical, ledger>>
    PROVE  Executed(i, p)
<1> SUFFICES ASSUME NEW j \in Stages, NEW q \in Purchases
             PROVE  Done(j, q)' <=> Done(j, q) \/ (j = i /\ q = p)
  BY DEF Executed
<1>1. CASE Kind(j) = "claim"
  <2>1. Name(j) = Name(i) <=> j = i
    BY <1>1, StatementsDiffer DEF Stages, AnswerStage
  <2>2. Claimed(Name(j), q)' <=> Claimed(Name(j), q) \/ (Name(j) = Name(i) /\ q = p)
    BY DEF Claimed, Name
  <2>3. Done(j, q)' <=> Claimed(Name(j), q)'
    BY <1>1 DEF Done, Kind, Name
  <2>4. Done(j, q) <=> Claimed(Name(j), q)
    BY <1>1 DEF Done
  <2> QED
    BY <2>1, <2>2, <2>3, <2>4
<1>2. CASE Kind(j) # "claim"
  BY <1>2 DEF Done, Has, Persisted, Mirrored, Kind, Name
<1> QED
  BY <1>1, <1>2

\* A step that leaves the payment's events, rows and claims alone does nothing.
LEMMA NothingExecuted ==
    ASSUME UNCHANGED <<rows, claimed>>,
           \A e \in PaymentEvents, p \in Purchases :
              /\ Persisted(e, p)' <=> Persisted(e, p)
              /\ Mirrored(e, p)' <=> Mirrored(e, p)
    PROVE  \A j \in Stages, q \in Purchases : Done(j, q)' <=> Done(j, q)
<1> SUFFICES ASSUME NEW j \in Stages, NEW q \in Purchases
             PROVE  Done(j, q)' <=> Done(j, q)
  OBVIOUS
<1>1. Kind(j) \in {"persist", "mirror"} => Name(j) \in PaymentEvents
  BY StatementKinds
<1>2. (Has(Name(j), q)' <=> Has(Name(j), q)) /\ (Claimed(Name(j), q)' <=> Claimed(Name(j), q))
  BY DEF Has, Claimed, Name
<1>3. CASE Kind(j) = "persist"
  <2>1. Done(j, q)' <=> Persisted(Name(j), q)'
    BY <1>3 DEF Done, Kind, Name
  <2>2. Done(j, q) <=> Persisted(Name(j), q)
    BY <1>3 DEF Done
  <2> QED
    BY <1>1, <1>3, <2>1, <2>2 DEF Persisted, Name
<1>4. CASE Kind(j) = "mirror"
  <2>1. Done(j, q)' <=> Mirrored(Name(j), q)'
    BY <1>4 DEF Done, Kind, Name
  <2>2. Done(j, q) <=> Mirrored(Name(j), q)
    BY <1>4 DEF Done
  <2> QED
    BY <1>1, <1>4, <2>1, <2>2 DEF Mirrored, Name
<1>5. CASE Kind(j) \notin {"persist", "mirror"}
  BY <1>2, <1>5 DEF Done, Kind, Name
<1> QED
  BY <1>3, <1>4, <1>5

-----------------------------------------------------------------------------
(* How far a purchase is. *)

\* Executing the next statement takes a purchase one further.
LEMMA Advanced ==
    ASSUME NEW n \in Stages, NEW p \in Purchases,
           ReachedTo(n, p), Owed(n, p), Executed(n, p),
           n = ReceiptStage \/ TxRecorded(p) => TxRecorded(p)'
    PROVE  ReachedTo(n + 1, p)'
<1>1. \A i \in Stages : Done(i, p)' <=> Done(i, p) \/ i = n
  BY DEF Executed
<1>2. ASSUME NEW i \in Stages, Done(i, p)'
      PROVE  i < n + 1 /\ Owed(i, p)'
  BY <1>1, <1>2 DEF ReachedTo, Owed, Stages, AnswerStage
<1>3. ASSUME NEW i \in Stages \ {ReceiptStage}, i < n + 1, Owed(i, p)'
      PROVE  Done(i, p)'
  BY <1>1, <1>3 DEF ReachedTo, Owed, Stages, AnswerStage
<1>4. n + 1 > ReceiptStage => TxRecorded(p)'
  BY DEF ReachedTo, ReceiptStage, Stages, AnswerStage
<1> QED
  BY <1>2, <1>3, <1>4 DEF ReachedTo

\* A receipt that is left out takes it one further as well.
LEMMA AdvancedWithoutReceipt ==
    ASSUME NEW p \in Purchases, ReachedTo(ReceiptStage, p), TxRecorded(p)',
           \A i \in Stages : Done(i, p)' <=> Done(i, p)
    PROVE  ReachedTo(ReceiptStage + 1, p)'
<1>1. ASSUME NEW i \in Stages, Done(i, p)'
      PROVE  i < ReceiptStage + 1 /\ Owed(i, p)'
  BY <1>1 DEF ReachedTo, Owed, Stages, AnswerStage, ReceiptStage
<1>2. ASSUME NEW i \in Stages \ {ReceiptStage}, i < ReceiptStage + 1, Owed(i, p)'
      PROVE  Done(i, p)'
  BY <1>2 DEF ReachedTo, Owed, Stages, AnswerStage, ReceiptStage
<1> QED
  BY <1>1, <1>2 DEF ReachedTo

\* Whatever is done for others leaves it where it is.
LEMMA ReachKept ==
    ASSUME NEW n \in 1 .. AnswerStage, NEW p \in Purchases, ReachedTo(n, p),
           \A i \in Stages : Done(i, p)' <=> Done(i, p),
           TxRecorded(p) => TxRecorded(p)'
    PROVE  ReachedTo(n, p)'
  BY DEF ReachedTo, Owed

\* A purchase that an affiliate does not earn from has nothing left to do
\* after the claim of the accrual.
LEMMA NothingOwed ==
    ASSUME NEW p \in Purchases, p \notin Referred, ReachedTo(AccrualStage + 1, p)
    PROVE  ReachedTo(AnswerStage, p)
  BY DEF ReachedTo, Owed, Stages, AnswerStage, AccrualStage, ReceiptStage

\* Rows stay.
LEMMA RowsStay ==
    ASSUME OnrampTypeOK, NEW t \in Tables, NEW p \in Purchases,
           rows' = Inserted(t, p) \/ rows' = rows
    PROVE  /\ \A u \in Tables, q \in Purchases : Has(u, q) => Has(u, q)'
           /\ \A q \in Purchases : TxRecorded(q) => TxRecorded(q)'
<1>1. ASSUME NEW u \in Tables, NEW q \in Purchases, Has(u, q)
      PROVE  Has(u, q)'
  <2>1. rows[u][q] \in Nat /\ rows \in [Tables -> [Purchases -> Nat]]
    BY DEF OnrampTypeOK
  <2>2. rows'[u][q] = rows[u][q] \/ rows'[u][q] = rows[u][q] + 1
    BY <2>1 DEF Inserted
  <2> QED
    BY <1>1, <2>1, <2>2 DEF Has
<1> QED
  BY <1>1 DEF TxRecorded, Tables

\* Nobody is past the payment of a purchase that has none.
LEMMA NobodyAhead ==
    ASSUME OnrampTypeOK, PipelinesReach, NEW h \in Handlers, stage[h] > 1
    PROVE  Has("payments", purchase[h])
<1>1. ReachedTo(stage[h], purchase[h]) /\ 1 \in Stages \ {ReceiptStage} /\ Owed(1, purchase[h])
  BY DEF PipelinesReach, Stages, AnswerStage, ReceiptStage, Owed, AccrualStage
<1>2. Done(1, purchase[h])
  BY <1>1 DEF ReachedTo
<1> QED
  BY <1>2, PipelineIs DEF Done, Kind, Name

\* A handler that goes on with a purchase, alone, keeps what is known of all.
LEMMA HandlerGoesOn ==
    ASSUME OnrampTypeOK, OnePipeline, PipelinesReach,
           NEW h \in Handlers, NEW p \in Purchases, NEW m \in 0 .. AnswerStage,
           p = purchase[h],
           \A k \in Handlers \ {h} : stage[k] > 1 => purchase[k] # p,
           stage' = [stage EXCEPT ![h] = m], purchase' = purchase,
           \A i \in Stages, q \in Purchases \ {p} : Done(i, q)' <=> Done(i, q),
           \A q \in Purchases : TxRecorded(q) => TxRecorded(q)',
           \E n \in 1 .. AnswerStage : ReachedTo(n, p)',
           m > 1 => ReachedTo(m, p)',
           m \in 18 .. 19 => p \in Referred
    PROVE  OnePipeline' /\ PipelinesReach'
<1>1. stage'[h] = m /\ \A k \in Handlers \ {h} : stage'[k] = stage[k]
  BY DEF OnrampTypeOK
<1>2. OnePipeline'
  BY <1>1 DEF OnePipeline
<1>3. ASSUME NEW q \in Purchases
      PROVE  \E n \in 1 .. AnswerStage : ReachedTo(n, q)'
  <2>1. CASE q = p
    BY <2>1
  <2>2. CASE q # p
    <3>1. PICK n \in 1 .. AnswerStage : ReachedTo(n, q)
      BY DEF PipelinesReach
    <3> QED
      BY <2>2, <3>1, ReachKept
  <2> QED
    BY <2>1, <2>2
<1>4. ASSUME NEW k \in Handlers, stage'[k] > 1
      PROVE  /\ ReachedTo(stage[k], purchase[k])'
             /\ stage'[k] \in 18 .. 19 => purchase'[k] \in Referred
  <2>1. CASE k = h
    BY <1>1, <1>4, <2>1 DEF ReachedTo, Done, Owed, TxRecorded, Kind, Name, Has, Persisted, Mirrored, Claimed
  <2>2. CASE k # h
    <3> DEFINE n == stage[k]
               q == purchase[k]
    <3>1. n \in 1 .. AnswerStage /\ q \in Purchases \ {p} /\ ReachedTo(n, q)
      BY <1>1, <1>4, <2>2 DEF OnrampTypeOK, PipelinesReach
    <3>2. stage'[k] = n /\ purchase'[k] = q
      BY <1>1, <2>2
    <3> QED
      BY <1>1, <1>4, <2>2, <3>1, <3>2 DEF ReachedTo, Owed, PipelinesReach
  <2> QED
    BY <2>1, <2>2
<1> QED
  BY <1>2, <1>3, <1>4 DEF PipelinesReach

\* What is known of a handler that is past the payment.
LEMMA HandlerKnows ==
    ASSUME OnrampTypeOK, OnePipeline, PipelinesReach, NEW h \in Handlers, stage[h] > 1
    PROVE  /\ purchase[h] \in Purchases
           /\ ReachedTo(stage[h], purchase[h])
           /\ \A i \in Stages : i >= stage[h] => ~Done(i, purchase[h])
           /\ \A k \in Handlers \ {h} : stage[k] > 1 => purchase[k] # purchase[h]
<1>1. purchase[h] \in Purchases /\ ReachedTo(stage[h], purchase[h])
  BY DEF OnrampTypeOK, PipelinesReach
<1>2. stage[h] \in 0 .. AnswerStage
  BY DEF OnrampTypeOK
<1>3. \A i \in Stages : i >= stage[h] => ~Done(i, purchase[h])
  BY <1>1, <1>2 DEF ReachedTo, Stages, AnswerStage
<1> QED
  BY <1>1, <1>3 DEF OnePipeline

\* A handler that executes a statement and goes on to the next.
LEMMA StatementExecuted ==
    ASSUME OnrampTypeOK, OnePipeline, PipelinesReach,
           NEW h \in Handlers, NEW i \in Stages, NEW p \in Purchases,
           i = stage[h], i > 1, p = purchase[h],
           Executed(i, p), Owed(i, p),
           \A q \in Purchases : TxRecorded(q) => TxRecorded(q)',
           i = ReceiptStage => TxRecorded(p)',
           stage' = [stage EXCEPT ![h] = i + 1], purchase' = purchase
    PROVE  OnePipeline' /\ PipelinesReach'
<1>1. /\ ReachedTo(i, p)
      /\ \A k \in Handlers \ {h} : stage[k] > 1 => purchase[k] # p
  BY HandlerKnows
<1>2. ReachedTo(i + 1, p)'
  BY <1>1, Advanced
<1>3. i + 1 \in 1 .. AnswerStage /\ i + 1 \in 0 .. AnswerStage
  BY DEF Stages, AnswerStage
<1>4. \A j \in Stages, q \in Purchases \ {p} : Done(j, q)' <=> Done(j, q)
  BY DEF Executed
<1>5. i + 1 \in 18 .. 19 => p \in Referred
  BY DEF Owed, AccrualStage, Stages, AnswerStage
<1> DEFINE m == i + 1
<1>6. /\ m \in 1 .. AnswerStage /\ m \in 0 .. AnswerStage /\ ReachedTo(m, p)'
      /\ stage' = [stage EXCEPT ![h] = m]
      /\ m \in 18 .. 19 => p \in Referred
  BY <1>2, <1>3, <1>5
<1> HIDE DEF m
<1> QED
  BY <1>1, <1>4, <1>6, HandlerGoesOn

\* A row that was not there yet.
LEMMA OneRowMore ==
    ASSUME OnrampTypeOK, AtMostOneRow, NEW t \in Tables, NEW p \in Purchases,
           ~Has(t, p), rows' = Inserted(t, p)
    PROVE  AtMostOneRow' /\ rows' \in [Tables -> [Purchases -> Nat]]
<1>1. rows \in [Tables -> [Purchases -> Nat]] /\ rows[t][p] = 0
  BY DEF OnrampTypeOK, AtMostOneRow, Has
<1>2. rows' \in [Tables -> [Purchases -> Nat]]
  BY <1>1 DEF Inserted
<1>3. ASSUME NEW u \in Tables, NEW q \in Purchases
      PROVE  rows'[u][q] \in {0, 1}
  <2>1. rows'[u][q] = IF u = t /\ q = p THEN 1 ELSE rows[u][q]
    BY <1>1 DEF Inserted
  <2> QED
    BY <2>1 DEF AtMostOneRow
<1> QED
  BY <1>2, <1>3 DEF AtMostOneRow

\* Settlement does not touch what the release job relies on.
LEMMA ReleasesKept ==
    ASSUME ReleasesAreMarked, UNCHANGED jobVars,
           \A p \in Purchases : Has("reserves", p) => Has("reserves", p)',
           \A p \in Purchases :
              /\ Persisted("ReserveReleased", p)' <=> Persisted("ReserveReleased", p)
              /\ Mirrored("ReserveReleased", p)' <=> Mirrored("ReserveReleased", p),
           OnrampTypeOK
    PROVE  ReleasesAreMarked'
<1>1. released \subseteq Purchases
  BY DEF OnrampTypeOK
<1>2. released' \subseteq {p \in Purchases : Has("reserves", p)'}
  BY <1>1 DEF ReleasesAreMarked, jobVars
<1>3. ASSUME NEW j \in Jobs
      PROVE  /\ due'[j] \subseteq {p \in Purchases : Has("reserves", p)'}
             /\ job_step'[j] \in {"persist", "mirror"} => reserve'[j] \in released'
             /\ job_step'[j] = "mirror" => <<"ReserveReleased", reserve'[j]>> \in canonical'
  <2>1. /\ reserve[j] \in Purchases /\ due[j] \subseteq Purchases
        /\ reserve' = reserve /\ due' = due /\ released' = released /\ job_step' = job_step
    BY DEF OnrampTypeOK, jobVars
  <2>2. due'[j] \subseteq {p \in Purchases : Has("reserves", p)'}
    BY <2>1 DEF ReleasesAreMarked
  <2>3. job_step'[j] \in {"persist", "mirror"} => reserve'[j] \in released'
    BY <2>1 DEF ReleasesAreMarked
  <2>4. job_step'[j] = "mirror" => <<"ReserveReleased", reserve'[j]>> \in canonical'
    BY <2>1 DEF ReleasesAreMarked, JobAt, Persisted
  <2> QED
    BY <2>2, <2>3, <2>4
<1>4. ASSUME NEW p \in Purchases
      PROVE  /\ Persisted("ReserveReleased", p)' => p \in released'
             /\ Mirrored("ReserveReleased", p)' => Persisted("ReserveReleased", p)'
  BY DEF ReleasesAreMarked, jobVars
<1> QED
  BY <1>2, <1>3, <1>4 DEF ReleasesAreMarked, JobAt, Persisted

-----------------------------------------------------------------------------
(* The inductive invariant holds initially and every step keeps it. *)

LEMMA OnrampInitially ==
    ASSUME OnrampInit
    PROVE  OnrampIInv
<1>1. OnrampTypeOK
  BY OnrampConstants DEF OnrampInit, OnrampTypeOK, AnswerStage
<1>2. AtMostOneRow
  BY DEF OnrampInit, AtMostOneRow
<1>3. OnePipeline
  BY DEF OnrampInit, OnePipeline
<1>4. \A i \in Stages, p \in Purchases : ~Done(i, p)
  <2> SUFFICES ASSUME NEW i \in Stages, NEW p \in Purchases
               PROVE  ~Done(i, p)
    OBVIOUS
  <2>1. Kind(i) = "insert" => Name(i) \in Tables
    BY StatementKinds
  <2> QED
    BY <2>1 DEF OnrampInit, Done, Has, Persisted, Mirrored, Claimed
<1>5. PipelinesReach
  <2>1. \A p \in Purchases : ReachedTo(1, p)
    BY <1>4 DEF ReachedTo, Stages, AnswerStage, ReceiptStage
  <2>2. \A h \in Handlers : ~(stage[h] > 1)
    BY DEF OnrampInit
  <2> QED
    BY <2>1, <2>2 DEF PipelinesReach, AnswerStage
<1>6. ReleasesAreMarked
  BY DEF OnrampInit, ReleasesAreMarked, JobAt, Persisted, Mirrored
<1> QED
  BY <1>1, <1>2, <1>3, <1>5, <1>6 DEF OnrampIInv

\* What is reached depends on the stores alone.
LEMMA ReachSame ==
    ASSUME UNCHANGED onrampTables
    PROVE  /\ \A n \in Nat, p \in Purchases : ReachedTo(n, p)' <=> ReachedTo(n, p)
           /\ ReleasesAreMarked /\ UNCHANGED jobVars => ReleasesAreMarked'
           /\ AtMostOneRow => AtMostOneRow'
<1>1. \A i \in Stages, p \in Purchases : Done(i, p)' <=> Done(i, p)
  BY DEF Done, Kind, Name, Has, Persisted, Mirrored, Claimed, onrampTables
<1>2. \A p \in Purchases : TxRecorded(p)' <=> TxRecorded(p)
  BY DEF TxRecorded, Has, onrampTables
<1>3. ReleasesAreMarked /\ UNCHANGED jobVars => ReleasesAreMarked'
  BY DEF ReleasesAreMarked, onrampTables, jobVars, Has, JobAt, Persisted, Mirrored
<1> QED
  BY <1>1, <1>2, <1>3 DEF ReachedTo, Owed, AtMostOneRow, onrampTables

\* A handler that stops, or begins, leaves the others where they are.
LEMMA HandlerApart ==
    ASSUME OnrampIInv, NEW h \in Handlers, UNCHANGED <<onrampTables, jobVars>>,
           \A k \in Handlers \ {h} : stage'[k] = stage[k] /\ purchase'[k] = purchase[k],
           stage'[h] \in {0, 1}, OnrampTypeOK'
    PROVE  OnrampIInv'
<1>1. OnePipeline'
  BY DEF OnePipeline, OnrampIInv
<1>2. AtMostOneRow' /\ ReleasesAreMarked'
  BY ReachSame DEF OnrampIInv
<1>3. \A p \in Purchases : \E n \in 1 .. AnswerStage : ReachedTo(n, p)'
  BY ReachSame DEF OnrampIInv, PipelinesReach
<1>4. ASSUME NEW k \in Handlers, stage'[k] > 1
      PROVE  /\ ReachedTo(stage[k], purchase[k])'
             /\ stage'[k] \in 18 .. 19 => purchase'[k] \in Referred
  <2> DEFINE n == stage[k]
             q == purchase[k]
  <2>1. stage'[k] = n /\ purchase'[k] = q /\ n \in Nat /\ n > 1 /\ q \in Purchases
    BY <1>4 DEF OnrampIInv, OnrampTypeOK, AnswerStage
  <2>2. ReachedTo(n, q) /\ (n \in 18 .. 19 => q \in Referred)
    BY <2>1 DEF OnrampIInv, PipelinesReach
  <2>3. UNCHANGED <<rows, canonical, ledger, claimed>>
    BY DEF onrampTables
  <2> QED
    BY <2>1, <2>2, <2>3 DEF ReachedTo, Done, Owed, TxRecorded, Kind, Name, Has, Persisted, Mirrored, Claimed
<1> QED
  BY <1>1, <1>2, <1>3, <1>4 DEF OnrampIInv, PipelinesReach

LEMMA ReceiveKeeps ==
    ASSUME OnrampIInv, NEW h \in Handlers, NEW p \in Purchases, Receive(h, p)
    PROVE  OnrampIInv'
<1>1. OnrampTypeOK'
  BY DEF OnrampIInv, OnrampTypeOK, Receive, Acknowledge, GoTo, onrampTables, jobVars, AnswerStage
<1> QED
  BY <1>1, HandlerApart DEF OnrampIInv, OnrampTypeOK, Receive, GoTo, onrampTables, jobVars

LEMMA AnswerKeeps ==
    ASSUME OnrampIInv, NEW h \in Handlers, Answer(h)
    PROVE  OnrampIInv'
<1>1. OnrampTypeOK'
  BY DEF OnrampIInv, OnrampTypeOK, Answer, Acknowledge, GoTo, onrampTables, jobVars, AnswerStage
<1> QED
  BY <1>1, HandlerApart DEF OnrampIInv, OnrampTypeOK, Answer, GoTo, onrampTables, jobVars

LEMMA FaultKeeps ==
    ASSUME OnrampIInv, NEW h \in Handlers, Fault(h)
    PROVE  OnrampIInv'
<1>1. OnrampTypeOK'
  BY OnrampConstants
     DEF OnrampIInv, OnrampTypeOK, Fault, GoTo, onrampTables, jobVars, AnswerStage
<1> QED
  BY <1>1, HandlerApart DEF OnrampIInv, OnrampTypeOK, Fault, GoTo, onrampTables, jobVars

\* A handler that goes on is well typed.
LEMMA GoOnTyped ==
    ASSUME OnrampTypeOK, NEW h \in Handlers, NEW m \in 0 .. AnswerStage,
           stage' = [stage EXCEPT ![h] = m], UNCHANGED <<purchase, jobVars, faults>>,
           rows' \in [Tables -> [Purchases -> Nat]],
           canonical' \subseteq EventTypes \X Purchases,
           ledger' \subseteq EventTypes \X Purchases,
           claimed' \subseteq Hooks \X Purchases,
           acknowledged' \subseteq Purchases
    PROVE  OnrampTypeOK'
  BY DEF OnrampTypeOK, jobVars

LEMMA InsertPaymentKeeps ==
    ASSUME OnrampIInv, NEW h \in Handlers, InsertPayment(h)
    PROVE  OnrampIInv'
<1> PICK p \in Purchases : p = purchase[h]
  BY DEF OnrampIInv, OnrampTypeOK
<1>1. stage[h] = 1 /\ p \in Purchases /\ 1 \in Stages
  <2>1. stage[h] \in Stages /\ Kind(stage[h]) = "insert" /\ Name(stage[h]) = "payments"
    BY ExecutesAt DEF InsertPayment, OnrampIInv
  <2>2. Kind(1) = "insert" /\ Name(1) = "payments" /\ 1 \in Stages
    BY PipelineIs DEF Kind, Name, Stages, AnswerStage
  <2> QED
    BY <2>1, <2>2, StatementsDiffer DEF Stages, AnswerStage, OnrampIInv, OnrampTypeOK
<1>2. CASE ReferenceInUse(p)
  <2>1. OnrampTypeOK'
    BY <1>1, <1>2 DEF InsertPayment, OnrampIInv, OnrampTypeOK, GoTo, Acknowledge, jobVars, AnswerStage
  <2> QED
    BY <1>2, <2>1, HandlerApart
       DEF OnrampIInv, OnrampTypeOK, InsertPayment, GoTo, onrampTables, jobVars
<1>3. CASE ~ReferenceInUse(p)
  <2>1. ~Has("payments", p)
    BY <1>1, <1>3 DEF ReferenceInUse
  <2>2. rows' = Inserted("payments", p) /\ stage' = [stage EXCEPT ![h] = 2]
    BY <1>1, <1>3 DEF InsertPayment, GoTo
  <2>3. UNCHANGED <<canonical, ledger, claimed, acknowledged, purchase, jobVars, faults>>
    BY <1>3 DEF InsertPayment
  <2>4. "payments" \in Tables /\ "receipts" \in Tables /\ "reserves" \in Tables
    BY DEF Tables, PlainTables
  <2>5. AtMostOneRow' /\ rows' \in [Tables -> [Purchases -> Nat]]
    BY <1>1, <2>1, <2>2, <2>4, OneRowMore DEF OnrampIInv
  <2>6. OnrampTypeOK'
    <3>1. /\ 2 \in 0 .. AnswerStage
          /\ canonical' \subseteq EventTypes \X Purchases
          /\ ledger' \subseteq EventTypes \X Purchases
          /\ claimed' \subseteq Hooks \X Purchases
          /\ acknowledged' \subseteq Purchases
      BY <2>3 DEF OnrampIInv, OnrampTypeOK, AnswerStage
    <3> QED
      BY <2>2, <2>3, <2>5, <3>1, GoOnTyped DEF OnrampIInv
  <2>7. /\ \A t \in Tables, q \in Purchases : Has(t, q) => Has(t, q)'
        /\ \A q \in Purchases : TxRecorded(q) => TxRecorded(q)'
    BY <1>1, <2>2, <2>4, RowsStay DEF OnrampIInv
  <2>8. Kind(1) = "insert" /\ Name(1) = "payments"
    BY PipelineIs DEF Kind, Name
  <2>9. Executed(1, p)
    BY <1>1, <2>2, <2>3, <2>8, InsertExecuted DEF OnrampIInv
  <2>10. ReachedTo(1, p)
    <3>1. PICK n \in 1 .. AnswerStage : ReachedTo(n, p)
      BY <1>1 DEF OnrampIInv, PipelinesReach
    <3>2. ~Done(1, p)
      BY <2>1, <2>8 DEF Done
    <3>3. Owed(1, p) /\ 1 \in Stages \ {ReceiptStage}
      BY <1>1 DEF Owed, AccrualStage, ReceiptStage
    <3>4. ~(1 < n)
      BY <3>1, <3>2, <3>3 DEF ReachedTo
    <3> QED
      BY <3>1, <3>4
  <2>11. ReachedTo(2, p)'
    <3>1. Owed(1, p)
      BY DEF Owed, AccrualStage
    <3>2. ReachedTo(1 + 1, p)'
      BY <1>1, <2>7, <2>9, <2>10, <3>1, Advanced DEF ReceiptStage
    <3> QED
      BY <3>2
  <2>12. \A k \in Handlers \ {h} : stage[k] > 1 => purchase[k] # p
    BY <2>1, NobodyAhead DEF OnrampIInv
  <2>13. \A i \in Stages, q \in Purchases \ {p} : Done(i, q)' <=> Done(i, q)
    BY <2>9 DEF Executed
  <2>14. OnePipeline' /\ PipelinesReach'
    <3>1. 2 \in 0 .. AnswerStage /\ 2 \in 1 .. AnswerStage /\ ~(2 \in 18 .. 19)
      BY DEF AnswerStage
    <3> QED
      BY <1>1, <2>2, <2>3, <2>7, <2>11, <2>12, <2>13, <3>1, HandlerGoesOn DEF OnrampIInv
  <2>15. ReleasesAreMarked'
    BY <2>3, <2>4, <2>7, ReleasesKept DEF OnrampIInv, Persisted, Mirrored
  <2> QED
    BY <2>5, <2>6, <2>14, <2>15 DEF OnrampIInv
<1> QED
  BY <1>2, <1>3

\* A statement that does its part, and the next one after it.
LEMMA StatementKeeps ==
    ASSUME OnrampIInv, NEW h \in Handlers, NEW i \in Stages, NEW p \in Purchases,
           i = stage[h], i > 1, p = purchase[h],
           Executed(i, p), Owed(i, p), i = ReceiptStage => TxRecorded(p)',
           stage' = [stage EXCEPT ![h] = i + 1],
           UNCHANGED <<acknowledged, purchase, jobVars, faults>>,
           \/ rows' = rows
           \/ \E t \in Tables : ~Has(t, p) /\ rows' = Inserted(t, p),
           canonical' \subseteq EventTypes \X Purchases,
           ledger' \subseteq EventTypes \X Purchases,
           claimed' \subseteq Hooks \X Purchases,
           \A q \in Purchases :
              /\ Persisted("ReserveReleased", q)' <=> Persisted("ReserveReleased", q)
              /\ Mirrored("ReserveReleased", q)' <=> Mirrored("ReserveReleased", q)
    PROVE  OnrampIInv'
<1>1. PICK t \in Tables : rows' = rows \/ (~Has(t, p) /\ rows' = Inserted(t, p))
  BY DEF Tables
<1>2. AtMostOneRow' /\ rows' \in [Tables -> [Purchases -> Nat]]
  <2>1. CASE rows' = rows
    BY <2>1 DEF OnrampIInv, OnrampTypeOK, AtMostOneRow
  <2> QED
    BY <1>1, <2>1, OneRowMore DEF OnrampIInv
<1>3. /\ \A u \in Tables, q \in Purchases : Has(u, q) => Has(u, q)'
      /\ \A q \in Purchases : TxRecorded(q) => TxRecorded(q)'
  BY <1>1, RowsStay DEF OnrampIInv
<1>4. OnrampTypeOK'
  <2> DEFINE m == i + 1
  <2>1. m \in 0 .. AnswerStage /\ stage' = [stage EXCEPT ![h] = m]
    BY DEF Stages, AnswerStage
  <2>2. acknowledged' \subseteq Purchases
    BY DEF OnrampIInv, OnrampTypeOK
  <2> HIDE DEF m
  <2> QED
    BY <1>2, <2>1, <2>2, GoOnTyped DEF OnrampIInv
<1>5. OnePipeline' /\ PipelinesReach'
  BY <1>3, StatementExecuted DEF OnrampIInv
<1>6. ReleasesAreMarked'
  <2>1. "reserves" \in Tables
    BY DEF Tables, PlainTables
  <2> QED
    BY <1>3, <2>1, ReleasesKept DEF OnrampIInv
<1> QED
  BY <1>2, <1>4, <1>5, <1>6 DEF OnrampIInv

\* Only the first statement is about the payment itself.
LEMMA PastPayment ==
    ASSUME OnrampIInv, NEW h \in Handlers, stage[h] \in Stages,
           Kind(stage[h]) # "insert" \/ Name(stage[h]) # "payments"
    PROVE  stage[h] > 1
<1>1. Kind(1) = "insert" /\ Name(1) = "payments"
  BY PipelineIs DEF Kind, Name
<1> QED
  BY <1>1 DEF Stages, AnswerStage

LEMMA InsertRowKeeps ==
    ASSUME OnrampIInv, NEW h \in Handlers, InsertRow(h)
    PROVE  OnrampIInv'
<1>1. PICK t \in PlainTables : Executes(h, "insert", t) /\ rows' = Inserted(t, purchase[h])
  BY DEF InsertRow
<1>2. PICK i \in Stages : i = stage[h] /\ Kind(i) = "insert" /\ Name(i) = t
  BY <1>1, ExecutesAt DEF OnrampIInv
<1>3. PICK p \in Purchases : p = purchase[h]
  BY DEF OnrampIInv, OnrampTypeOK
<1>4. i > 1
  BY <1>2, PastPayment DEF PlainTables
<1>5. t \in Tables /\ t # "receipts" /\ t # "accruals"
  BY DEF Tables, PlainTables
<1>6. i # ReceiptStage /\ i <= AccrualStage
  <2>1. /\ Name(4) = "receipts" /\ Name(17) = "accruals"
        /\ Kind(18) = "persist" /\ Kind(19) = "mirror"
    BY PipelineIs DEF Kind, Name
  <2>2. i # 4 /\ i # 17 /\ i # 18 /\ i # 19
    BY <1>2, <1>5, <2>1
  <2> QED
    BY <2>2 DEF Stages, AnswerStage, AccrualStage, ReceiptStage
<1>7. ~Has(t, p)
  <2>1. ~Done(i, p)
    BY <1>2, <1>3, <1>4, HandlerKnows DEF OnrampIInv, Stages, AnswerStage
  <2> QED
    BY <1>2, <2>1 DEF Done
<1>8. /\ rows' = Inserted(t, p)
      /\ stage' = [stage EXCEPT ![h] = i + 1]
      /\ UNCHANGED <<canonical, ledger, claimed, acknowledged, purchase, jobVars, faults>>
  BY <1>1, <1>2, <1>3 DEF InsertRow, GoTo
<1>9. Executed(i, p)
  BY <1>2, <1>8, InsertExecuted DEF OnrampIInv
<1>10. /\ canonical' \subseteq EventTypes \X Purchases
       /\ ledger' \subseteq EventTypes \X Purchases
       /\ claimed' \subseteq Hooks \X Purchases
       /\ \A q \in Purchases :
             /\ Persisted("ReserveReleased", q)' <=> Persisted("ReserveReleased", q)
             /\ Mirrored("ReserveReleased", q)' <=> Mirrored("ReserveReleased", q)
  BY <1>8 DEF OnrampIInv, OnrampTypeOK, Persisted, Mirrored
<1>11. Owed(i, p)
  BY <1>6 DEF Owed
<1> QED
  BY <1>2, <1>3, <1>4, <1>5, <1>6, <1>7, <1>8, <1>9, <1>10, <1>11, StatementKeeps

LEMMA MirrorKeeps ==
    ASSUME OnrampIInv, NEW h \in Handlers, Mirror(h)
    PROVE  OnrampIInv'
<1>1. PICK e \in PaymentEvents :
         Executes(h, "mirror", e) /\ ledger' = ledger \cup {<<e, purchase[h]>>}
  BY DEF Mirror
<1>2. PICK i \in Stages : i = stage[h] /\ Kind(i) = "mirror" /\ Name(i) = e
  BY <1>1, ExecutesAt DEF OnrampIInv
<1>3. PICK p \in Purchases : p = purchase[h]
  BY DEF OnrampIInv, OnrampTypeOK
<1>4. i > 1
  BY <1>2, PastPayment
<1>5. i # ReceiptStage /\ Owed(i, p)
  <2>1. Kind(4) = "insert" /\ Kind(17) = "insert" /\ Kind(18) = "persist"
    BY PipelineIs DEF Kind
  <2>2. i # 4 /\ i # 17 /\ i # 18
    BY <1>2, <2>1
  <2>3. stage[h] > 1 /\ (stage[h] \in 18 .. 19 => purchase[h] \in Referred)
    BY <1>2, <1>4 DEF OnrampIInv, PipelinesReach
  <2>4. i = 19 => p \in Referred
    BY <1>2, <1>3, <2>3
  <2> QED
    BY <2>2, <2>4 DEF Stages, AnswerStage, AccrualStage, ReceiptStage, Owed
<1>6. /\ ledger' = ledger \cup {<<e, p>>}
      /\ stage' = [stage EXCEPT ![h] = i + 1]
      /\ UNCHANGED <<rows, canonical, claimed, acknowledged, purchase, jobVars, faults>>
  BY <1>1, <1>2, <1>3 DEF Mirror, GoTo
<1>7. Executed(i, p)
  BY <1>2, <1>6, MirrorExecuted
<1>8. /\ canonical' \subseteq EventTypes \X Purchases
      /\ ledger' \subseteq EventTypes \X Purchases
      /\ claimed' \subseteq Hooks \X Purchases
      /\ \A q \in Purchases :
            /\ Persisted("ReserveReleased", q)' <=> Persisted("ReserveReleased", q)
            /\ Mirrored("ReserveReleased", q)' <=> Mirrored("ReserveReleased", q)
  BY <1>6 DEF OnrampIInv, OnrampTypeOK, Persisted, Mirrored, EventTypes, PaymentEvents
<1> QED
  BY <1>2, <1>3, <1>4, <1>5, <1>6, <1>7, <1>8, StatementKeeps

LEMMA PersistKeeps ==
    ASSUME OnrampIInv, NEW h \in Handlers, Persist(h)
    PROVE  OnrampIInv'
<1>1. PICK e \in PaymentEvents :
         /\ Executes(h, "persist", e)
         /\ canonical' = canonical \cup {<<e, purchase[h]>>}
         /\ GoTo(h, AfterPersist(h, e))
  BY DEF Persist
<1>2. PICK i \in Stages : i = stage[h] /\ Kind(i) = "persist" /\ Name(i) = e
  BY <1>1, ExecutesAt DEF OnrampIInv
<1>3. PICK p \in Purchases : p = purchase[h]
  BY DEF OnrampIInv, OnrampTypeOK
<1>4. i > 1
  BY <1>2, PastPayment
<1>5. i # ReceiptStage /\ Owed(i, p)
  <2>1. Kind(4) = "insert" /\ Kind(17) = "insert" /\ Kind(19) = "mirror"
    BY PipelineIs DEF Kind
  <2>2. i # 4 /\ i # 17 /\ i # 19
    BY <1>2, <2>1
  <2>3. stage[h] > 1 /\ (stage[h] \in 18 .. 19 => purchase[h] \in Referred)
    BY <1>2, <1>4 DEF OnrampIInv, PipelinesReach
  <2>4. i = 18 => p \in Referred
    BY <1>2, <1>3, <2>3
  <2> QED
    BY <2>2, <2>4 DEF Stages, AnswerStage, AccrualStage, ReceiptStage, Owed
<1>6. ~Persisted(e, p)
  <2>1. ~Done(i, p)
    BY <1>2, <1>3, <1>4, HandlerKnows DEF OnrampIInv, Stages, AnswerStage
  <2> QED
    BY <1>2, <2>1 DEF Done
<1>7. /\ canonical' = canonical \cup {<<e, p>>}
      /\ stage' = [stage EXCEPT ![h] = i + 1]
      /\ UNCHANGED <<rows, ledger, claimed, acknowledged, purchase, jobVars, faults>>
  BY <1>1, <1>2, <1>3, <1>6 DEF Persist, GoTo, AfterPersist, Persisted
<1>8. Executed(i, p)
  BY <1>2, <1>7, PersistExecuted
<1>9. /\ canonical' \subseteq EventTypes \X Purchases
      /\ ledger' \subseteq EventTypes \X Purchases
      /\ claimed' \subseteq Hooks \X Purchases
      /\ \A q \in Purchases :
            /\ Persisted("ReserveReleased", q)' <=> Persisted("ReserveReleased", q)
            /\ Mirrored("ReserveReleased", q)' <=> Mirrored("ReserveReleased", q)
  BY <1>7 DEF OnrampIInv, OnrampTypeOK, Persisted, Mirrored, EventTypes, PaymentEvents
<1> QED
  BY <1>2, <1>3, <1>4, <1>5, <1>7, <1>8, <1>9, StatementKeeps

LEMMA ClaimHookKeeps ==
    ASSUME OnrampIInv, NEW h \in Handlers, ClaimHook(h)
    PROVE  OnrampIInv'
<1>1. PICK hook \in Hooks :
         /\ Executes(h, "claim", hook)
         /\ claimed' = claimed \cup {<<hook, purchase[h]>>}
         /\ GoTo(h, IF ~Claimed(hook, purchase[h]) THEN stage[h] + 1
                    ELSE IF hook = "keys_credited" THEN AccrualStage ELSE AnswerStage)
  BY DEF ClaimHook
<1>2. PICK i \in Stages : i = stage[h] /\ Kind(i) = "claim" /\ Name(i) = hook
  BY <1>1, ExecutesAt DEF OnrampIInv
<1>3. PICK p \in Purchases : p = purchase[h]
  BY DEF OnrampIInv, OnrampTypeOK
<1>4. i > 1
  BY <1>2, PastPayment
<1>5. i # ReceiptStage /\ Owed(i, p)
  <2>1. /\ Kind(4) = "insert" /\ Kind(17) = "insert"
        /\ Kind(18) = "persist" /\ Kind(19) = "mirror"
    BY PipelineIs DEF Kind
  <2>2. i # 4 /\ i # 17 /\ i # 18 /\ i # 19
    BY <1>2, <2>1
  <2> QED
    BY <2>2 DEF Stages, AnswerStage, AccrualStage, ReceiptStage, Owed
<1>6. ~Claimed(hook, p)
  <2>1. ~Done(i, p)
    BY <1>2, <1>3, <1>4, HandlerKnows DEF OnrampIInv, Stages, AnswerStage
  <2> QED
    BY <1>2, <2>1 DEF Done
<1>7. /\ claimed' = claimed \cup {<<hook, p>>}
      /\ stage' = [stage EXCEPT ![h] = i + 1]
      /\ UNCHANGED <<rows, canonical, ledger, acknowledged, purchase, jobVars, faults>>
  BY <1>1, <1>2, <1>3, <1>6 DEF ClaimHook, GoTo
<1>8. Executed(i, p)
  BY <1>2, <1>7, ClaimExecuted
<1>9. /\ canonical' \subseteq EventTypes \X Purchases
      /\ ledger' \subseteq EventTypes \X Purchases
      /\ claimed' \subseteq Hooks \X Purchases
      /\ \A q \in Purchases :
            /\ Persisted("ReserveReleased", q)' <=> Persisted("ReserveReleased", q)
            /\ Mirrored("ReserveReleased", q)' <=> Mirrored("ReserveReleased", q)
  BY <1>7 DEF OnrampIInv, OnrampTypeOK, Persisted, Mirrored
<1> QED
  BY <1>2, <1>3, <1>4, <1>5, <1>7, <1>8, <1>9, StatementKeeps

LEMMA InsertReceiptKeeps ==
    ASSUME OnrampIInv, NEW h \in Handlers, InsertReceipt(h)
    PROVE  OnrampIInv'
<1>1. stage[h] \in Stages /\ Kind(stage[h]) = "insert" /\ Name(stage[h]) = "receipts"
  BY ExecutesAt DEF InsertReceipt, OnrampIInv
<1>2. /\ Kind(ReceiptStage) = "insert" /\ Name(ReceiptStage) = "receipts"
      /\ ReceiptStage \in Stages
  BY PipelineIs DEF Kind, Name, Stages, AnswerStage, ReceiptStage
<1>3. stage[h] = ReceiptStage
  BY <1>1, <1>2, StatementsDiffer DEF Stages, AnswerStage
<1>4. PICK p \in Purchases : p = purchase[h]
  BY DEF OnrampIInv, OnrampTypeOK
<1>5. /\ stage' = [stage EXCEPT ![h] = ReceiptStage + 1]
      /\ UNCHANGED <<canonical, ledger, claimed, acknowledged, purchase, jobVars, faults>>
  BY <1>3 DEF InsertReceipt, GoTo
<1>6. "receipts" \in Tables
  BY DEF Tables
<1>7. /\ canonical' \subseteq EventTypes \X Purchases
      /\ ledger' \subseteq EventTypes \X Purchases
      /\ claimed' \subseteq Hooks \X Purchases
      /\ acknowledged' \subseteq Purchases
      /\ \A q \in Purchases :
            /\ Persisted("ReserveReleased", q)' <=> Persisted("ReserveReleased", q)
            /\ Mirrored("ReserveReleased", q)' <=> Mirrored("ReserveReleased", q)
  BY <1>5 DEF OnrampIInv, OnrampTypeOK, Persisted, Mirrored
<1>8. CASE \E q \in Purchases : Has("receipts", q) /\ TxOf[q] = TxOf[purchase[h]]
  <2>1. rows' = rows
    BY <1>8 DEF InsertReceipt
  <2>2. TxRecorded(p)'
    BY <1>4, <1>8, <2>1 DEF TxRecorded, Has
  <2>3. \A i \in Stages, q \in Purchases : Done(i, q)' <=> Done(i, q)
    BY <1>5, <2>1 DEF Done, Kind, Name, Has, Persisted, Mirrored, Claimed
  <2>4. \A q \in Purchases : TxRecorded(q) => TxRecorded(q)'
    BY <2>1 DEF TxRecorded, Has
  <2>5. stage[h] > 1
    BY <1>3 DEF ReceiptStage
  <2>6. ReachedTo(ReceiptStage, p) /\ \A k \in Handlers \ {h} : stage[k] > 1 => purchase[k] # p
    BY <1>3, <1>4, <2>5, HandlerKnows DEF OnrampIInv
  <2>7. ReachedTo(ReceiptStage + 1, p)'
    BY <2>2, <2>3, <2>6, AdvancedWithoutReceipt
  <2>8. PICK m \in 1 .. AnswerStage : m = ReceiptStage + 1
    BY DEF ReceiptStage, AnswerStage
  <2>9. m \in 0 .. AnswerStage /\ m \notin 18 .. 19 /\ ReachedTo(m, p)'
    BY <2>7, <2>8 DEF ReceiptStage, AnswerStage
  <2>10. OnePipeline' /\ PipelinesReach'
    BY <1>4, <1>5, <2>3, <2>4, <2>6, <2>8, <2>9, HandlerGoesOn DEF OnrampIInv
  <2>11. rows' \in [Tables -> [Purchases -> Nat]] /\ AtMostOneRow'
    BY <2>1 DEF OnrampIInv, OnrampTypeOK, AtMostOneRow
  <2>12. OnrampTypeOK'
    BY <1>5, <1>7, <2>8, <2>9, <2>11, GoOnTyped DEF OnrampIInv
  <2>13. ReleasesAreMarked'
    BY <1>5, <1>7, <2>1, ReleasesKept DEF OnrampIInv, Has
  <2> QED
    BY <2>10, <2>11, <2>12, <2>13 DEF OnrampIInv
<1>9. CASE ~ \E q \in Purchases : Has("receipts", q) /\ TxOf[q] = TxOf[purchase[h]]
  <2>1. ~Has("receipts", p) /\ rows' = Inserted("receipts", p)
    BY <1>4, <1>9 DEF InsertReceipt
  <2>2. Executed(ReceiptStage, p)
    BY <1>2, <1>5, <2>1, InsertExecuted DEF OnrampIInv
  <2>3. Done(ReceiptStage, p)'
    BY <1>2, <2>2 DEF Executed
  <2>4. TxRecorded(p)'
    BY <1>2, <2>3 DEF Done, Kind, Name, TxRecorded
  <2>5. Owed(ReceiptStage, p) /\ ReceiptStage > 1
    BY DEF Owed, ReceiptStage, AccrualStage
  <2> QED
    BY <1>2, <1>3, <1>4, <1>5, <1>6, <1>7, <2>1, <2>2, <2>4, <2>5, StatementKeeps
<1> QED
  BY <1>8, <1>9

LEMMA AccrueKeeps ==
    ASSUME OnrampIInv, NEW h \in Handlers, Accrue(h)
    PROVE  OnrampIInv'
<1>1. stage[h] \in Stages /\ Kind(stage[h]) = "insert" /\ Name(stage[h]) = "accruals"
  BY ExecutesAt DEF Accrue, OnrampIInv
<1>2. Kind(17) = "insert" /\ Name(17) = "accruals" /\ 17 \in Stages
  BY PipelineIs DEF Kind, Name, Stages, AnswerStage
<1>3. stage[h] = 17 /\ stage[h] > 1
  BY <1>1, <1>2, StatementsDiffer DEF Stages, AnswerStage
<1>4. PICK p \in Purchases : p = purchase[h]
  BY DEF OnrampIInv, OnrampTypeOK
<1>5. UNCHANGED <<canonical, ledger, claimed, acknowledged, purchase, jobVars, faults>>
  BY DEF Accrue
<1>6. /\ canonical' \subseteq EventTypes \X Purchases
      /\ ledger' \subseteq EventTypes \X Purchases
      /\ claimed' \subseteq Hooks \X Purchases
      /\ acknowledged' \subseteq Purchases
      /\ \A q \in Purchases :
            /\ Persisted("ReserveReleased", q)' <=> Persisted("ReserveReleased", q)
            /\ Mirrored("ReserveReleased", q)' <=> Mirrored("ReserveReleased", q)
  BY <1>5 DEF OnrampIInv, OnrampTypeOK, Persisted, Mirrored
<1>7. /\ ReachedTo(17, p) /\ ~Done(17, p)
      /\ \A k \in Handlers \ {h} : stage[k] > 1 => purchase[k] # p
  BY <1>2, <1>3, <1>4, HandlerKnows DEF OnrampIInv
<1>8. ~Has("accruals", p) /\ "accruals" \in Tables
  BY <1>2, <1>7 DEF Done, Tables
<1>9. CASE p \in Referred
  <2>1. rows' = Inserted("accruals", p) /\ stage' = [stage EXCEPT ![h] = 17 + 1]
    BY <1>3, <1>4, <1>8, <1>9 DEF Accrue, GoTo
  <2>2. Executed(17, p)
    BY <1>2, <1>5, <2>1, InsertExecuted DEF OnrampIInv
  <2>3. Owed(17, p) /\ 17 # ReceiptStage
    BY <1>9 DEF Owed, ReceiptStage
  <2> QED
    BY <1>2, <1>3, <1>4, <1>5, <1>6, <1>8, <2>1, <2>2, <2>3, StatementKeeps
<1>10. CASE p \notin Referred
  <2>1. rows' = rows /\ stage' = [stage EXCEPT ![h] = AnswerStage]
    BY <1>4, <1>10 DEF Accrue, GoTo
  <2>2. \A i \in Stages, q \in Purchases : Done(i, q)' <=> Done(i, q)
    BY <1>5, <2>1 DEF Done, Kind, Name, Has, Persisted, Mirrored, Claimed
  <2>3. \A q \in Purchases : TxRecorded(q) => TxRecorded(q)'
    BY <2>1 DEF TxRecorded, Has
  <2>4. ReachedTo(AnswerStage, p)
    BY <1>7, <1>10, NothingOwed DEF AccrualStage
  <2>5. PICK m \in 1 .. AnswerStage : m = AnswerStage
    BY DEF AnswerStage
  <2>6. m \in 0 .. AnswerStage /\ m \notin 18 .. 19 /\ ReachedTo(m, p)
    BY <2>4, <2>5 DEF AnswerStage
  <2>7. ReachedTo(m, p)'
    BY <2>2, <2>3, <2>6, ReachKept
  <2>8. OnePipeline' /\ PipelinesReach'
    BY <1>4, <1>5, <1>7, <2>1, <2>2, <2>3, <2>5, <2>6, <2>7, HandlerGoesOn DEF OnrampIInv
  <2>9. rows' \in [Tables -> [Purchases -> Nat]] /\ AtMostOneRow'
    BY <2>1 DEF OnrampIInv, OnrampTypeOK, AtMostOneRow
  <2>10. OnrampTypeOK'
    BY <1>5, <1>6, <2>1, <2>5, <2>6, <2>9, GoOnTyped DEF OnrampIInv
  <2>11. ReleasesAreMarked'
    BY <1>5, <1>6, <2>1, ReleasesKept DEF OnrampIInv, Has
  <2> QED
    BY <2>8, <2>9, <2>10, <2>11 DEF OnrampIInv
<1> QED
  BY <1>9, <1>10

\* The release job does nothing to settlement.
LEMMA JobApart ==
    ASSUME OnrampIInv, UNCHANGED <<rows, claimed, stage, purchase>>,
           \A e \in PaymentEvents, p \in Purchases :
              /\ Persisted(e, p)' <=> Persisted(e, p)
              /\ Mirrored(e, p)' <=> Mirrored(e, p),
           OnrampTypeOK', ReleasesAreMarked'
    PROVE  OnrampIInv'
<1>1. \A i \in Stages, q \in Purchases : Done(i, q)' <=> Done(i, q)
  BY NothingExecuted
<1>2. \A q \in Purchases : TxRecorded(q) => TxRecorded(q)'
  BY DEF TxRecorded, Has
<1>3. \A n \in 1 .. AnswerStage, q \in Purchases : ReachedTo(n, q) => ReachedTo(n, q)'
  BY <1>1, <1>2 DEF ReachedTo, Owed
<1>4. \A q \in Purchases : \E n \in 1 .. AnswerStage : ReachedTo(n, q)'
  BY <1>3 DEF OnrampIInv, PipelinesReach
<1>5. ASSUME NEW k \in Handlers, stage'[k] > 1
      PROVE  /\ ReachedTo(stage[k], purchase[k])'
             /\ stage'[k] \in 18 .. 19 => purchase'[k] \in Referred
  <2>1. PICK n \in 1 .. AnswerStage, q \in Purchases : n = stage[k] /\ q = purchase[k]
    BY <1>5 DEF OnrampIInv, OnrampTypeOK, AnswerStage
  <2>2. n = stage'[k] /\ q = purchase'[k]
    BY <2>1
  <2>3. ReachedTo(n, q) /\ (n \in 18 .. 19 => q \in Referred)
    BY <1>5, <2>1 DEF OnrampIInv, PipelinesReach
  <2>4. ReachedTo(n, q)'
    BY <1>3, <2>3
  <2> QED
    BY <2>2, <2>3, <2>4 DEF ReachedTo, Owed
<1>6. OnePipeline' /\ AtMostOneRow'
  BY DEF OnrampIInv, OnePipeline, AtMostOneRow
<1> QED
  BY <1>4, <1>5, <1>6 DEF OnrampIInv, PipelinesReach

LEMMA StartReleaseKeeps ==
    ASSUME OnrampIInv, NEW j \in Jobs, StartRelease(j)
    PROVE  OnrampIInv'
<1>1. OnrampTypeOK'
  BY DEF OnrampIInv, OnrampTypeOK, StartRelease, JobGoTo, onrampTables
<1>2. ReleasesAreMarked'
  BY DEF OnrampIInv, OnrampTypeOK, ReleasesAreMarked, StartRelease, JobAt, JobGoTo,
         onrampTables, Has, Persisted, Mirrored
<1> QED
  BY <1>1, <1>2, JobApart DEF StartRelease, onrampTables, Persisted, Mirrored

LEMMA MarkReleasedKeeps ==
    ASSUME OnrampIInv, NEW j \in Jobs, MarkReleased(j)
    PROVE  OnrampIInv'
<1>1. PICK p \in due[j] :
         /\ released' = released \cup {p}
         /\ due' = [due EXCEPT ![j] = @ \ {p}]
         /\ reserve' = [reserve EXCEPT ![j] = p]
  BY DEF MarkReleased
<1>2. p \in Purchases /\ Has("reserves", p)
  BY <1>1 DEF OnrampIInv, ReleasesAreMarked
<1>3. /\ job_step' = [job_step EXCEPT ![j] = "persist"]
      /\ UNCHANGED <<rows, canonical, ledger, claimed, acknowledged, stage, purchase, faults>>
  BY DEF MarkReleased, JobGoTo, onrampTables
<1>4. OnrampTypeOK'
  BY <1>1, <1>2, <1>3 DEF OnrampIInv, OnrampTypeOK
<1>5. ReleasesAreMarked'
  BY <1>1, <1>2, <1>3
     DEF OnrampIInv, OnrampTypeOK, ReleasesAreMarked, JobAt, Has, Persisted, Mirrored
<1> QED
  BY <1>3, <1>4, <1>5, JobApart DEF Persisted, Mirrored

LEMMA PersistReleaseKeeps ==
    ASSUME OnrampIInv, NEW j \in Jobs, PersistRelease(j)
    PROVE  OnrampIInv'
<1>1. /\ canonical' = canonical \cup {<<"ReserveReleased", reserve[j]>>}
      /\ job_step[j] = "persist" /\ reserve[j] \in released
      /\ UNCHANGED <<rows, ledger, claimed, released, acknowledged, stage, purchase,
                     due, reserve, faults>>
      /\ \E s \in {"mark", "mirror"} : job_step' = [job_step EXCEPT ![j] = s]
  BY DEF PersistRelease, ReleaseEvent, JobAt, JobGoTo, OnrampIInv, ReleasesAreMarked
<1>2. OnrampTypeOK'
  BY <1>1 DEF OnrampIInv, OnrampTypeOK, EventTypes
<1>3. ReleasesAreMarked'
  BY <1>1 DEF OnrampIInv, OnrampTypeOK, ReleasesAreMarked, JobAt, Has, Persisted, Mirrored
<1> QED
  BY <1>1, <1>2, <1>3, JobApart DEF Persisted, Mirrored, PaymentEvents

LEMMA MirrorReleaseKeeps ==
    ASSUME OnrampIInv, NEW j \in Jobs, MirrorRelease(j)
    PROVE  OnrampIInv'
<1>1. /\ ledger' = ledger \cup {<<"ReserveReleased", reserve[j]>>}
      /\ Persisted("ReserveReleased", reserve[j]) /\ job_step[j] = "mirror"
      /\ UNCHANGED <<rows, canonical, claimed, released, acknowledged, stage, purchase,
                     due, reserve, faults>>
      /\ job_step' = [job_step EXCEPT ![j] = "mark"]
  BY DEF MirrorRelease, ReleaseEvent, JobAt, JobGoTo, OnrampIInv, ReleasesAreMarked
<1>2. OnrampTypeOK'
  BY <1>1 DEF OnrampIInv, OnrampTypeOK, EventTypes
<1>3. ReleasesAreMarked'
  BY <1>1 DEF OnrampIInv, OnrampTypeOK, ReleasesAreMarked, JobAt, Has, Persisted, Mirrored
<1> QED
  BY <1>1, <1>2, <1>3, JobApart DEF Persisted, Mirrored, PaymentEvents

\* A job that ends.
LEMMA JobEndKeeps ==
    ASSUME OnrampIInv, NEW j \in Jobs, EndRelease(j) \/ JobFault(j)
    PROVE  OnrampIInv'
<1>1. /\ job_step' = [job_step EXCEPT ![j] = "idle"]
      /\ UNCHANGED <<rows, canonical, ledger, claimed, released, acknowledged, stage,
                     purchase, due, reserve>>
      /\ faults' = faults \/ (faults < MaxFaults /\ faults' = faults + 1)
  BY DEF EndRelease, JobFault, JobGoTo, onrampTables
<1>2. OnrampTypeOK'
  BY <1>1, OnrampConstants DEF OnrampIInv, OnrampTypeOK
<1>3. ReleasesAreMarked'
  BY <1>1 DEF OnrampIInv, OnrampTypeOK, ReleasesAreMarked, JobAt, Has, Persisted, Mirrored
<1> QED
  BY <1>1, <1>2, <1>3, JobApart DEF Persisted, Mirrored

\* Every step keeps the inductive invariant.
LEMMA OnrampInductive ==
    ASSUME OnrampIInv, [OnrampNext]_onrampVars
    PROVE  OnrampIInv'
<1>1. CASE UNCHANGED onrampVars
  <2>1. OnrampTypeOK' /\ AtMostOneRow' /\ OnePipeline'
    BY <1>1 DEF OnrampIInv, OnrampTypeOK, AtMostOneRow, OnePipeline, onrampVars
  <2>2. ReleasesAreMarked'
    BY <1>1, ReachSame DEF OnrampIInv, onrampVars, onrampTables, jobVars
  <2> QED
    BY <1>1, <2>1, <2>2, JobApart DEF onrampVars, Persisted, Mirrored
<1>2. ASSUME NEW h \in Handlers, Settle(h)
      PROVE  OnrampIInv'
  BY <1>2, InsertPaymentKeeps, InsertReceiptKeeps, InsertRowKeeps, PersistKeeps, MirrorKeeps,
     ClaimHookKeeps, AccrueKeeps, AnswerKeeps DEF Settle
<1>3. ASSUME NEW h \in Handlers, Fault(h)
      PROVE  OnrampIInv'
  BY <1>3, FaultKeeps
<1>4. ASSUME NEW h \in Handlers, NEW p \in Purchases, Receive(h, p)
      PROVE  OnrampIInv'
  BY <1>4, ReceiveKeeps
<1>5. ASSUME NEW j \in Jobs, Release(j) \/ StartRelease(j) \/ JobFault(j)
      PROVE  OnrampIInv'
  BY <1>5, StartReleaseKeeps, MarkReleasedKeeps, PersistReleaseKeeps, MirrorReleaseKeeps,
     JobEndKeeps DEF Release
<1> QED
  BY <1>1, <1>2, <1>3, <1>4, <1>5 DEF OnrampNext

LEMMA OnrampInvariant == OnrampSpec => []OnrampIInv
<1>1. OnrampInit => OnrampIInv
  BY OnrampInitially
<1>2. OnrampIInv /\ [OnrampNext]_onrampVars => OnrampIInv'
  BY OnrampInductive
<1> QED
  BY <1>1, <1>2, PTL DEF OnrampSpec

-----------------------------------------------------------------------------
(* What the invariant says of rows and events. *)

\* What is done says that what is before it is done.
LEMMA DoneInOrder ==
    ASSUME PipelinesReach, NEW p \in Purchases, NEW i \in Stages,
           NEW j \in Stages \ {ReceiptStage}, j <= i, Done(i, p)
    PROVE  Done(j, p)
<1>1. PICK n \in 1 .. AnswerStage : ReachedTo(n, p)
  BY DEF PipelinesReach
<1>2. i < n /\ Owed(i, p)
  BY <1>1 DEF ReachedTo
<1>3. j < n /\ Owed(j, p)
  BY <1>2 DEF Owed, Stages, AnswerStage, AccrualStage
<1> QED
  BY <1>1, <1>3 DEF ReachedTo

\* The statements in words.
LEMMA DoneIs ==
    ASSUME NEW p \in Purchases
    PROVE  /\ Done(1, p) <=> Has("payments", p)
           /\ Done(2, p) <=> Persisted("PaymentReceived", p)
           /\ Done(3, p) <=> Mirrored("PaymentReceived", p)
           /\ Done(5, p) <=> Persisted("CryptoReceived", p)
           /\ Done(6, p) <=> Mirrored("CryptoReceived", p)
           /\ Done(7, p) <=> Has("reserves", p)
           /\ Done(8, p) <=> Persisted("ReserveAllocated", p)
           /\ Done(9, p) <=> Mirrored("ReserveAllocated", p)
           /\ Done(10, p) <=> Has("onramp_keys", p)
           /\ Done(11, p) <=> Has("treasury_keys", p)
           /\ Done(12, p) <=> Persisted("ClawKeyIssued", p)
           /\ Done(13, p) <=> Mirrored("ClawKeyIssued", p)
           /\ Done(15, p) <=> Has("credits", p)
           /\ Done(17, p) <=> Has("accruals", p)
           /\ Done(18, p) <=> Persisted("AffiliateAccrued", p)
           /\ Done(19, p) <=> Mirrored("AffiliateAccrued", p)
  BY PipelineIs DEF Done, Kind, Name

\* One row at most, and none without the one before.
LEMMA KeysIssuedOnceHolds ==
    ASSUME OnrampIInv
    PROVE  KeysIssuedOnce
<1> SUFFICES ASSUME NEW p \in Purchases
             PROVE  /\ rows["payments"][p] <= 1
                    /\ rows["reserves"][p] <= rows["payments"][p]
                    /\ rows["onramp_keys"][p] <= rows["reserves"][p]
                    /\ rows["treasury_keys"][p] <= rows["onramp_keys"][p]
                    /\ rows["credits"][p] <= rows["treasury_keys"][p]
                    /\ rows["accruals"][p] <= rows["treasury_keys"][p]
  BY DEF KeysIssuedOnce
<1>1. \A t \in Tables : rows[t][p] \in {0, 1}
  BY DEF OnrampIInv, AtMostOneRow
<1>2. \A i \in Stages, j \in Stages \ {ReceiptStage} : j <= i /\ Done(i, p) => Done(j, p)
  BY DoneInOrder DEF OnrampIInv
<1>3. {1, 7, 10, 11, 15, 17} \subseteq Stages \ {ReceiptStage}
  BY DEF Stages, AnswerStage, ReceiptStage
<1>4. /\ Has("reserves", p) => Has("payments", p)
      /\ Has("onramp_keys", p) => Has("reserves", p)
      /\ Has("treasury_keys", p) => Has("onramp_keys", p)
      /\ Has("credits", p) => Has("treasury_keys", p)
      /\ Has("accruals", p) => Has("treasury_keys", p)
  BY <1>2, <1>3, DoneIs
<1> QED
  BY <1>1, <1>4 DEF Has, Tables, PlainTables

\* Events are in the order of the pipeline, after the rows that they report.
LEMMA EventsInOrderHolds ==
    ASSUME OnrampIInv
    PROVE  EventsInOrder
<1>1. ASSUME NEW p \in Purchases
      PROVE  /\ Persisted("CryptoReceived", p) =>
                   /\ Mirrored("PaymentReceived", p)
                   /\ TxRecorded(p)
             /\ Persisted("ReserveAllocated", p) =>
                   Mirrored("CryptoReceived", p) /\ Has("reserves", p)
             /\ Persisted("ClawKeyIssued", p) =>
                   Mirrored("ReserveAllocated", p) /\ Has("treasury_keys", p)
             /\ Persisted("AffiliateAccrued", p) =>
                   Mirrored("ClawKeyIssued", p) /\ Has("credits", p) /\ Has("accruals", p)
             /\ Persisted("ReserveReleased", p) => p \in released /\ Has("reserves", p)
             /\ \A e \in EventTypes : Mirrored(e, p) => Persisted(e, p)
  <2>1. \A i \in Stages, j \in Stages \ {ReceiptStage} : j <= i /\ Done(i, p) => Done(j, p)
    BY <1>1, DoneInOrder DEF OnrampIInv
  <2>2. /\ {2, 3, 5, 6, 7, 8, 9, 11, 12, 13, 15, 17, 18, 19} \subseteq Stages \ {ReceiptStage}
    BY DEF Stages, AnswerStage, ReceiptStage
  <2>3. Done(5, p) => TxRecorded(p)
    <3>1. PICK n \in 1 .. AnswerStage : ReachedTo(n, p)
      BY <1>1 DEF OnrampIInv, PipelinesReach
    <3> QED
      BY <2>2, <3>1 DEF ReachedTo, ReceiptStage
  <2>4. /\ Persisted("CryptoReceived", p) => Mirrored("PaymentReceived", p) /\ TxRecorded(p)
        /\ Persisted("ReserveAllocated", p) =>
              Mirrored("CryptoReceived", p) /\ Has("reserves", p)
        /\ Persisted("ClawKeyIssued", p) =>
              Mirrored("ReserveAllocated", p) /\ Has("treasury_keys", p)
        /\ Persisted("AffiliateAccrued", p) =>
              Mirrored("ClawKeyIssued", p) /\ Has("credits", p) /\ Has("accruals", p)
    BY <1>1, <2>1, <2>2, <2>3, DoneIs
  <2>5. /\ Mirrored("PaymentReceived", p) => Persisted("PaymentReceived", p)
        /\ Mirrored("CryptoReceived", p) => Persisted("CryptoReceived", p)
        /\ Mirrored("ReserveAllocated", p) => Persisted("ReserveAllocated", p)
        /\ Mirrored("ClawKeyIssued", p) => Persisted("ClawKeyIssued", p)
        /\ Mirrored("AffiliateAccrued", p) => Persisted("AffiliateAccrued", p)
    BY <1>1, <2>1, <2>2, DoneIs
  <2>6. /\ Persisted("ReserveReleased", p) => p \in released /\ Has("reserves", p)
        /\ Mirrored("ReserveReleased", p) => Persisted("ReserveReleased", p)
    BY <1>1 DEF OnrampIInv, ReleasesAreMarked
  <2> QED
    BY <2>4, <2>5, <2>6 DEF EventTypes, PaymentEvents
<1>2. ledger \subseteq canonical
  <2> SUFFICES ASSUME NEW x \in ledger
               PROVE  x \in canonical
    OBVIOUS
  <2>1. PICK e \in EventTypes, p \in Purchases : x = <<e, p>>
    BY DEF OnrampIInv, OnrampTypeOK
  <2> QED
    BY <1>1, <2>1 DEF Mirrored, Persisted
<1> QED
  BY <1>1, <1>2 DEF EventsInOrder, TxRecorded

-----------------------------------------------------------------------------
(* Losses are counted. *)

\* A purchase whose pipeline has come to the answer is settled.
LEMMA AnsweredIsSettled ==
    ASSUME OnrampIInv, NEW h \in Handlers, stage[h] = AnswerStage
    PROVE  Settled(purchase[h])
<1> PICK p \in Purchases : p = purchase[h]
  BY DEF OnrampIInv, OnrampTypeOK
<1>1. ReachedTo(AnswerStage, p)
  BY HandlerKnows DEF OnrampIInv, AnswerStage
<1>2. {13, 15, 19} \subseteq Stages \ {ReceiptStage}
  BY DEF Stages, AnswerStage, ReceiptStage
<1>3. Owed(13, p) /\ Owed(15, p) /\ (p \in Referred => Owed(19, p))
  BY DEF Owed, AccrualStage
<1>4. Done(13, p) /\ Done(15, p) /\ (p \in Referred => Done(19, p))
  BY <1>1, <1>2, <1>3 DEF ReachedTo, AnswerStage
<1> QED
  BY <1>4, DoneIs DEF Settled

\* What a statement of settlement does to handlers and stores.
LEMMA SettleStep ==
    ASSUME OnrampIInv, NEW h \in Handlers, Settle(h)
    PROVE  /\ UNCHANGED <<purchase, jobVars, faults>>
           /\ \E m \in Nat :
                 /\ stage' = [stage EXCEPT ![h] = m]
                 /\ stage[h] > 1 /\ stage[h] # AnswerStage => m > 1
                 /\ Executes(h, "insert", "payments") /\ rows' # rows => m > 1
           /\ ledger \subseteq ledger'
           /\ \A p \in Purchases :
                 /\ Persisted("ReserveReleased", p)' <=> Persisted("ReserveReleased", p)
                 /\ Mirrored("ReserveReleased", p)' <=> Mirrored("ReserveReleased", p)
           /\ \/ rows' = rows
              \/ \E t \in Tables : Executes(h, "insert", t) /\ rows' = Inserted(t, purchase[h])
<1>1. stage[h] \in 0 .. AnswerStage
  BY DEF OnrampIInv, OnrampTypeOK
<1>2. CASE InsertPayment(h)
  <2>1. stage[h] = 1
    <3>1. stage[h] \in Stages /\ Kind(stage[h]) = "insert" /\ Name(stage[h]) = "payments"
      BY <1>2, ExecutesAt DEF InsertPayment, OnrampIInv
    <3>2. Kind(1) = "insert" /\ Name(1) = "payments" /\ 1 \in Stages
      BY PipelineIs DEF Kind, Name, Stages, AnswerStage
    <3> QED
      BY <3>1, <3>2, StatementsDiffer DEF Stages, AnswerStage
  <2>2. CASE ReferenceInUse(purchase[h])
    BY <1>2, <2>1, <2>2 DEF InsertPayment, GoTo, Persisted, Mirrored
  <2>3. CASE ~ReferenceInUse(purchase[h])
    <3>1. stage' = [stage EXCEPT ![h] = 2]
      BY <1>2, <2>1, <2>3 DEF InsertPayment, GoTo
    <3>2. /\ Executes(h, "insert", "payments") /\ rows' = Inserted("payments", purchase[h])
          /\ UNCHANGED <<canonical, ledger, purchase, jobVars, faults>>
      BY <1>2, <2>3 DEF InsertPayment
    <3>3. \A p \in Purchases :
             /\ Persisted("ReserveReleased", p)' <=> Persisted("ReserveReleased", p)
             /\ Mirrored("ReserveReleased", p)' <=> Mirrored("ReserveReleased", p)
      BY <3>2 DEF Persisted, Mirrored
    <3>4. "payments" \in Tables /\ 2 \in Nat /\ 2 > 1
      BY DEF Tables
    <3> QED
      BY <3>1, <3>2, <3>3, <3>4
  <2> QED
    BY <2>2, <2>3
<1>3. CASE InsertReceipt(h)
  <2>1. stage' = [stage EXCEPT ![h] = stage[h] + 1]
    BY <1>3 DEF InsertReceipt, GoTo
  <2>2. stage[h] > 0 /\ stage[h] + 1 \in Nat /\ stage[h] + 1 > 1
    BY <1>1, <1>3 DEF InsertReceipt, Executes, AnswerStage
  <2> QED
    BY <1>3, <2>1, <2>2 DEF InsertReceipt, Persisted, Mirrored, Tables
<1>4. CASE InsertRow(h)
  <2>1. stage' = [stage EXCEPT ![h] = stage[h] + 1]
    BY <1>4 DEF InsertRow, GoTo
  <2>2. stage[h] > 0 /\ stage[h] + 1 \in Nat /\ stage[h] + 1 > 1
    BY <1>1, <1>4 DEF InsertRow, Executes, AnswerStage
  <2> QED
    BY <1>4, <2>1, <2>2 DEF InsertRow, Persisted, Mirrored, Tables
<1>5. CASE Persist(h)
  <2>1. PICK e \in PaymentEvents :
           /\ stage[h] > 0 /\ canonical' = canonical \cup {<<e, purchase[h]>>}
           /\ stage' = [stage EXCEPT ![h] = AfterPersist(h, e)]
    BY <1>5 DEF Persist, Executes, GoTo
  <2>2. AfterPersist(h, e) \in Nat /\ AfterPersist(h, e) > 1
    BY <1>1, <2>1 DEF AfterPersist, AnswerStage
  <2>3. rows' = rows /\ ledger' = ledger /\ UNCHANGED <<purchase, jobVars, faults>>
    BY <1>5 DEF Persist
  <2>4. e # "ReserveReleased"
    BY DEF PaymentEvents
  <2> HIDE DEF Executes
  <2> QED
    BY <2>1, <2>2, <2>3, <2>4 DEF Persisted, Mirrored
<1>6. CASE Mirror(h)
  <2>1. PICK e \in PaymentEvents :
           stage[h] > 0 /\ ledger' = ledger \cup {<<e, purchase[h]>>}
    BY <1>6 DEF Mirror, Executes
  <2>2. stage' = [stage EXCEPT ![h] = stage[h] + 1] /\ stage[h] + 1 \in Nat /\ stage[h] + 1 > 1
    BY <1>1, <1>6, <2>1 DEF Mirror, GoTo, AnswerStage
  <2>3. rows' = rows /\ canonical' = canonical /\ UNCHANGED <<purchase, jobVars, faults>>
    BY <1>6 DEF Mirror
  <2>4. e # "ReserveReleased"
    BY DEF PaymentEvents
  <2> QED
    BY <2>1, <2>2, <2>3, <2>4 DEF Persisted, Mirrored
<1>7. CASE ClaimHook(h)
  <2>1. PICK m \in {stage[h] + 1, AccrualStage, AnswerStage} :
           stage[h] > 0 /\ stage' = [stage EXCEPT ![h] = m]
    BY <1>7 DEF ClaimHook, Executes, GoTo
  <2>2. m \in Nat /\ m > 1
    BY <1>1, <2>1 DEF AccrualStage, AnswerStage
  <2> QED
    BY <1>7, <2>1, <2>2 DEF ClaimHook, Persisted, Mirrored
<1>8. CASE Accrue(h)
  <2>1. PICK m \in {stage[h] + 1, AnswerStage} :
           stage[h] > 0 /\ stage' = [stage EXCEPT ![h] = m]
    BY <1>8 DEF Accrue, Executes, GoTo
  <2>2. m \in Nat /\ m > 1
    BY <1>1, <2>1 DEF AnswerStage
  <2> QED
    BY <1>8, <2>1, <2>2 DEF Accrue, Persisted, Mirrored, Tables
<1>9. CASE Answer(h)
  <2>1. stage[h] = AnswerStage
    <3>1. stage[h] \in 1 .. AnswerStage /\ Kind(stage[h]) = "answer"
      BY <1>9, ExecutesAt DEF Answer, OnrampIInv
    <3>2. stage[h] \notin Stages
      BY <3>1, StatementKinds
    <3> QED
      BY <3>1, <3>2 DEF Stages, AnswerStage
  <2>2. stage' = [stage EXCEPT ![h] = 0] /\ rows' = rows
    BY <1>9 DEF Answer, GoTo, onrampTables
  <2> QED
    BY <1>9, <2>1, <2>2 DEF Answer, onrampTables, Persisted, Mirrored
<1> QED
  BY <1>2, <1>3, <1>4, <1>5, <1>6, <1>7, <1>8, <1>9 DEF Settle

\* What is settled stays settled.
LEMMA SettledStays ==
    ASSUME OnrampIInv, NEW p \in Purchases, ledger \subseteq ledger',
           \/ rows' = rows
           \/ \E t \in Tables, q \in Purchases : rows' = Inserted(t, q)
    PROVE  Settled(p) => Settled(p)'
<1>1. Has("credits", p) => Has("credits", p)'
  <2>1. "credits" \in Tables
    BY DEF Tables, PlainTables
  <2> QED
    BY <2>1, RowsStay DEF OnrampIInv, Has
<1> QED
  BY <1>1 DEF Settled, Mirrored

\* Settlement strands nobody while nothing fails.
LEMMA SettleStrandsNobody ==
    ASSUME OnrampIInv, NEW h \in Handlers, Settle(h), NEW p \in Purchases, Stranded(p)'
    PROVE  Stranded(p)
<1>1. ~Settled(p)' /\ Has("payments", p)' /\ \A k \in Handlers : stage'[k] > 1 => purchase'[k] # p
  BY DEF Stranded
<1>2. purchase[h] \in Purchases /\ stage \in [Handlers -> 0 .. AnswerStage]
  BY DEF OnrampIInv, OnrampTypeOK
<1>3. ~Settled(p)
  BY <1>1, <1>2, SettleStep, SettledStays
<1>4. PICK m \in Nat :
         /\ stage' = [stage EXCEPT ![h] = m]
         /\ stage[h] > 1 /\ stage[h] # AnswerStage => m > 1
         /\ Executes(h, "insert", "payments") /\ rows' # rows => m > 1
  BY SettleStep
<1>5. purchase' = purchase
  BY SettleStep
<1>6. stage'[h] = m /\ \A k \in Handlers \ {h} : stage'[k] = stage[k]
  BY <1>2, <1>4
<1>7. \A k \in Handlers : stage[k] > 1 => purchase[k] # p
  <2> SUFFICES ASSUME NEW k \in Handlers, stage[k] > 1, purchase[k] = p
               PROVE  FALSE
    OBVIOUS
  <2>1. k = h
    BY <1>1, <1>5, <1>6
  <2>2. stage[h] = AnswerStage
    BY <1>1, <1>4, <1>5, <1>6, <2>1
  <2> QED
    BY <1>3, <2>1, <2>2, AnsweredIsSettled
<1>8. Has("payments", p)
  <2> SUFFICES ASSUME ~Has("payments", p)
               PROVE  FALSE
    OBVIOUS
  <2>1. PICK t \in Tables : Executes(h, "insert", t) /\ rows' = Inserted(t, purchase[h])
    BY <1>1, SettleStep DEF Has
  <2>2. rows' # rows
    BY <1>1 DEF Has
  <2>3. t = "payments" /\ p = purchase[h]
    <3>1. rows \in [Tables -> [Purchases -> Nat]] /\ "payments" \in Tables
      BY DEF OnrampIInv, OnrampTypeOK, Tables
    <3>2. rows'["payments"][p] = IF t = "payments" /\ p = purchase[h]
                                 THEN rows["payments"][p] + 1 ELSE rows["payments"][p]
      BY <1>2, <2>1, <3>1 DEF Inserted
    <3> QED
      BY <1>1, <3>2 DEF Has
  <2>4. m > 1
    BY <1>4, <2>1, <2>2, <2>3
  <2> QED
    BY <1>1, <1>5, <1>6, <2>3, <2>4
<1> QED
  BY <1>3, <1>7, <1>8 DEF Stranded

\* Nor does it change what is known of releases.
LEMMA UnreportedSame ==
    ASSUME UNCHANGED jobVars, NEW p \in Purchases,
           Persisted("ReserveReleased", p)' <=> Persisted("ReserveReleased", p),
           Mirrored("ReserveReleased", p)' <=> Mirrored("ReserveReleased", p),
           Unreported(p)'
    PROVE  Unreported(p)
  BY DEF Unreported, JobAt, jobVars

\* The releases that a job loses while nothing fails: none.
LEMMA JobLosesNothing ==
    ASSUME OnrampIInv, NEW j \in Jobs, Release(j) \/ StartRelease(j),
           NEW p \in Purchases, Unreported(p)'
    PROVE  Unreported(p)
<1> USE DEF JobAt, JobGoTo
<1>1. /\ job_step \in [Jobs -> {"idle", "mark", "persist", "mirror"}]
      /\ reserve \in [Jobs -> Purchases]
  BY DEF OnrampIInv, OnrampTypeOK
<1>2. /\ p \in released' /\ ~Mirrored("ReserveReleased", p)'
      /\ \A k \in Jobs : reserve'[k] = p =>
            job_step'[k] # IF Persisted("ReserveReleased", p)' THEN "mirror" ELSE "persist"
  BY DEF Unreported
<1>3. CASE StartRelease(j)
  BY <1>1, <1>2, <1>3 DEF StartRelease, Unreported, Persisted, Mirrored, onrampTables
<1>4. CASE MarkReleased(j)
  <2>1. PICK q \in due[j] :
           /\ released' = released \cup {q}
           /\ reserve' = [reserve EXCEPT ![j] = q]
    BY <1>4 DEF MarkReleased
  <2>2. /\ job_step[j] = "mark" /\ job_step' = [job_step EXCEPT ![j] = "persist"]
        /\ canonical' = canonical /\ ledger' = ledger
    BY <1>4 DEF MarkReleased, onrampTables
  <2>3. Persisted("ReserveReleased", p) \/ q # p
    BY <1>1, <1>2, <2>1, <2>2 DEF Persisted
  <2>4. p \in released
    BY <1>2, <2>1, <2>3 DEF OnrampIInv, ReleasesAreMarked
  <2>5. ASSUME NEW k \in Jobs, reserve[k] = p
        PROVE  job_step[k] # IF Persisted("ReserveReleased", p) THEN "mirror" ELSE "persist"
    BY <1>1, <1>2, <2>1, <2>2, <2>5 DEF Persisted
  <2> QED
    BY <1>2, <2>2, <2>4, <2>5 DEF Unreported, Mirrored
<1>5. CASE PersistRelease(j)
  <2>1. /\ job_step[j] = "persist"
        /\ canonical' = canonical \cup {<<"ReserveReleased", reserve[j]>>}
        /\ job_step' = [job_step EXCEPT ![j] =
                           IF Persisted("ReserveReleased", reserve[j]) THEN "mark" ELSE "mirror"]
        /\ ledger' = ledger /\ released' = released /\ reserve' = reserve
    BY <1>5 DEF PersistRelease, ReleaseEvent, Persisted
  <2>2. Persisted("ReserveReleased", p)' <=> Persisted("ReserveReleased", p) \/ p = reserve[j]
    BY <2>1 DEF Persisted
  <2>3. p = reserve[j] => Persisted("ReserveReleased", p)
    BY <1>1, <1>2, <2>1, <2>2
  <2>4. ASSUME NEW k \in Jobs, reserve[k] = p
        PROVE  job_step[k] # IF Persisted("ReserveReleased", p) THEN "mirror" ELSE "persist"
    BY <1>1, <1>2, <2>1, <2>2, <2>3, <2>4
  <2> QED
    BY <1>2, <2>1, <2>4 DEF Unreported, Mirrored
<1>6. CASE MirrorRelease(j)
  <2>1. /\ job_step[j] = "mirror" /\ job_step' = [job_step EXCEPT ![j] = "mark"]
        /\ ledger' = ledger \cup {<<"ReserveReleased", reserve[j]>>}
        /\ canonical' = canonical /\ released' = released /\ reserve' = reserve
    BY <1>6 DEF MirrorRelease, ReleaseEvent
  <2>2. p # reserve[j]
    BY <1>2, <2>1 DEF Mirrored
  <2> QED
    BY <1>1, <1>2, <2>1, <2>2 DEF Unreported, Persisted, Mirrored
<1>7. CASE EndRelease(j)
  BY <1>1, <1>2, <1>7 DEF EndRelease, Unreported, Persisted, Mirrored, onrampTables
<1> QED
  BY <1>3, <1>4, <1>5, <1>6, <1>7 DEF Release

\* A step that leaves the rows and the handlers alone strands nobody.
LEMMA OthersStrandNobody ==
    ASSUME OnrampIInv, UNCHANGED <<rows, stage, purchase>>, ledger \subseteq ledger',
           NEW p \in Purchases, Stranded(p)'
    PROVE  Stranded(p)
<1>1. Settled(p) => Settled(p)'
  BY SettledStays
<1> QED
  BY <1>1 DEF Stranded, Has

\* What a step adds to the losses.
LEMMA LossesStep ==
    ASSUME OnrampIInv, [OnrampNext]_onrampVars
    PROVE  \/ Losses' \subseteq Losses /\ faults' = faults
           \/ \E x : Losses' \subseteq Losses \cup {x} /\ faults' = faults + 1
<1>1. ASSUME \A p \in Purchases : (Stranded(p)' => Stranded(p)) /\ (Unreported(p)' => Unreported(p))
      PROVE  Losses' \subseteq Losses
  BY <1>1 DEF Losses
<1>2. CASE UNCHANGED onrampVars
  <2>1. \A p \in Purchases : Stranded(p)' => Stranded(p)
    BY <1>2, OthersStrandNobody DEF onrampVars
  <2>2. \A p \in Purchases : Unreported(p)' => Unreported(p)
    BY <1>2 DEF onrampVars, Unreported, Persisted, Mirrored, JobAt
  <2> QED
    BY <1>1, <1>2, <2>1, <2>2 DEF onrampVars
<1>3. ASSUME NEW h \in Handlers, Settle(h)
      PROVE  Losses' \subseteq Losses /\ faults' = faults
  <2>1. \A p \in Purchases : Stranded(p)' => Stranded(p)
    BY <1>3, SettleStrandsNobody
  <2>2. \A p \in Purchases : Unreported(p)' => Unreported(p)
    BY <1>3, SettleStep, UnreportedSame
  <2>3. faults' = faults
    BY <1>3, SettleStep
  <2> QED
    BY <1>1, <2>1, <2>2, <2>3
<1>4. ASSUME NEW h \in Handlers, NEW q \in Purchases, Receive(h, q)
      PROVE  Losses' \subseteq Losses /\ faults' = faults
  <2>1. /\ UNCHANGED <<rows, canonical, ledger, claimed, jobVars, faults>>
        /\ stage[h] = 0
        /\ \A k \in Handlers \ {h} : stage'[k] = stage[k] /\ purchase'[k] = purchase[k]
    BY <1>4 DEF Receive, GoTo, onrampTables, OnrampIInv, OnrampTypeOK
  <2>2. ASSUME NEW p \in Purchases, Stranded(p)'
        PROVE  Stranded(p)
    <3>1. ~Settled(p)
      BY <2>1, <2>2, SettledStays DEF Stranded
    <3>2. Has("payments", p)
      BY <2>1, <2>2 DEF Stranded, Has
    <3>3. ASSUME NEW k \in Handlers, stage[k] > 1
          PROVE  purchase[k] # p
      <4>1. k # h
        BY <2>1, <3>3
      <4> QED
        BY <2>1, <2>2, <3>3, <4>1 DEF Stranded
    <3> QED
      BY <3>1, <3>2, <3>3 DEF Stranded
  <2>3. \A p \in Purchases : Unreported(p)' => Unreported(p)
    BY <2>1, UnreportedSame DEF Persisted, Mirrored
  <2> QED
    BY <1>1, <2>1, <2>2, <2>3
<1>5. ASSUME NEW h \in Handlers, Fault(h)
      PROVE  Losses' \subseteq Losses \cup {<<"payment", purchase[h]>>} /\ faults' = faults + 1
  <2>1. /\ UNCHANGED <<rows, canonical, ledger, claimed, jobVars, purchase>>
        /\ faults' = faults + 1
        /\ \A k \in Handlers \ {h} : stage'[k] = stage[k]
    BY <1>5 DEF Fault, GoTo, onrampTables, OnrampIInv, OnrampTypeOK
  <2>2. ASSUME NEW p \in Purchases, p # purchase[h], Stranded(p)'
        PROVE  Stranded(p)
    <3>1. ~Settled(p)
      BY <2>1, <2>2, SettledStays DEF Stranded
    <3>2. Has("payments", p)
      BY <2>1, <2>2 DEF Stranded, Has
    <3>3. ASSUME NEW k \in Handlers, stage[k] > 1
          PROVE  purchase[k] # p
      BY <2>1, <2>2, <3>3 DEF Stranded
    <3> QED
      BY <3>1, <3>2, <3>3 DEF Stranded
  <2>3. \A p \in Purchases : Unreported(p)' => Unreported(p)
    BY <2>1, UnreportedSame DEF Persisted, Mirrored
  <2> QED
    BY <2>1, <2>2, <2>3 DEF Losses
<1>6. ASSUME NEW j \in Jobs, Release(j) \/ StartRelease(j)
      PROVE  Losses' \subseteq Losses /\ faults' = faults
  <2>1. UNCHANGED <<rows, stage, purchase, faults>> /\ ledger \subseteq ledger'
    BY <1>6 DEF Release, StartRelease, MarkReleased, PersistRelease, MirrorRelease,
                EndRelease, onrampTables
  <2>2. \A p \in Purchases : Stranded(p)' => Stranded(p)
    BY <2>1, OthersStrandNobody
  <2>3. \A p \in Purchases : Unreported(p)' => Unreported(p)
    BY <1>6, JobLosesNothing
  <2> QED
    BY <1>1, <2>1, <2>2, <2>3
<1>7. ASSUME NEW j \in Jobs, JobFault(j)
      PROVE  Losses' \subseteq Losses \cup {<<"release", reserve[j]>>} /\ faults' = faults + 1
  <2>1. /\ UNCHANGED <<rows, canonical, ledger, released, stage, purchase, reserve>>
        /\ faults' = faults + 1
        /\ \A k \in Jobs \ {j} : job_step'[k] = job_step[k]
    BY <1>7 DEF JobFault, JobGoTo, onrampTables, OnrampIInv, OnrampTypeOK
  <2>2. \A p \in Purchases : Stranded(p)' => Stranded(p)
    BY <2>1, OthersStrandNobody
  <2>3. ASSUME NEW p \in Purchases, p # reserve[j], Unreported(p)'
        PROVE  Unreported(p)
    <3>1. p \in released /\ ~Mirrored("ReserveReleased", p)
      BY <2>1, <2>3 DEF Unreported, Mirrored
    <3>2. ASSUME NEW k \in Jobs, reserve[k] = p
          PROVE  ~JobAt(k, IF Persisted("ReserveReleased", p) THEN "mirror" ELSE "persist")
      BY <2>1, <2>3, <3>2 DEF Unreported, JobAt, Persisted
    <3> QED
      BY <3>1, <3>2 DEF Unreported
  <2> QED
    BY <2>1, <2>2, <2>3 DEF Losses
<1> QED
  BY <1>2, <1>3, <1>4, <1>5, <1>6, <1>7 DEF OnrampNext, onrampVars

\* The losses are finitely many, and no more than the faults.
CountedLosses == IsFiniteSet(Losses) /\ LossesAreCounted

LEMMA CountedInitially ==
    ASSUME OnrampInit
    PROVE  CountedLosses
<1>1. \A p \in Purchases : ~Stranded(p) /\ ~Unreported(p)
  BY DEF OnrampInit, Stranded, Unreported, Has, Tables
<1>2. Losses = {}
  BY <1>1 DEF Losses
<1> QED
  BY <1>2, FS_EmptySet DEF CountedLosses, LossesAreCounted, OnrampInit

LEMMA CountedInductive ==
    ASSUME OnrampIInv, CountedLosses, [OnrampNext]_onrampVars
    PROVE  CountedLosses'
<1>1. faults \in Nat /\ IsFiniteSet(Losses) /\ Cardinality(Losses) \in Nat
      /\ Cardinality(Losses) <= faults
  BY OnrampConstants, FS_CardinalityType
     DEF OnrampIInv, OnrampTypeOK, CountedLosses, LossesAreCounted
<1>2. CASE Losses' \subseteq Losses /\ faults' = faults
  <2>1. IsFiniteSet(Losses') /\ Cardinality(Losses') <= Cardinality(Losses)
        /\ Cardinality(Losses') \in Nat
    BY <1>1, <1>2, FS_Subset, FS_CardinalityType
  <2> QED
    BY <1>1, <1>2, <2>1 DEF CountedLosses, LossesAreCounted
<1>3. CASE \E x : Losses' \subseteq Losses \cup {x} /\ faults' = faults + 1
  <2>1. PICK x : Losses' \subseteq Losses \cup {x} /\ faults' = faults + 1
    BY <1>3
  <2>2. /\ IsFiniteSet(Losses \cup {x})
        /\ Cardinality(Losses \cup {x}) <= Cardinality(Losses) + 1
        /\ Cardinality(Losses \cup {x}) \in Nat
    <3> DEFINE L == Losses
    <3>1. /\ IsFiniteSet(L) /\ Cardinality(L) \in Nat
          /\ Cardinality(L \cup {x}) = IF x \in L THEN Cardinality(L) ELSE Cardinality(L) + 1
          /\ IsFiniteSet(L \cup {x})
      <4> HIDE DEF L
      <4>1. IsFiniteSet(L) /\ Cardinality(L) \in Nat
        BY <1>1 DEF L
      <4> QED
        BY <4>1, FS_AddElement
    <3> HIDE DEF L
    <3>2. Cardinality(L \cup {x}) <= Cardinality(L) + 1 /\ Cardinality(L \cup {x}) \in Nat
      BY <3>1
    <3> QED
      BY <3>1, <3>2 DEF L
  <2>3. /\ IsFiniteSet(Losses') /\ Cardinality(Losses') \in Nat
        /\ Cardinality(Losses') <= Cardinality(Losses \cup {x})
    BY <2>1, <2>2, FS_Subset, FS_CardinalityType
  <2> QED
    BY <1>1, <2>1, <2>2, <2>3 DEF CountedLosses, LossesAreCounted
<1> QED
  BY <1>2, <1>3, LossesStep

-----------------------------------------------------------------------------
(* The theorems of on-ramp settlement. *)

\* The tables, handlers and jobs keep their types.
THEOREM OnrampTypeCorrect == OnrampSpec => []OnrampTypeOK
  BY OnrampInvariant, PTL DEF OnrampIInv

\* However deliveries of a purchase repeat, overlap and fail, it has one
\* payment at most, and keys, credits and accruals once at most.
THEOREM KeysAreIssuedOnce == OnrampSpec => []KeysIssuedOnce
<1>1. OnrampIInv => KeysIssuedOnce
  BY KeysIssuedOnceHolds
<1> QED
  BY <1>1, OnrampInvariant, PTL

\* The events of a purchase are persisted in the order of the pipeline, each
\* when its predecessor is in the treasury's ledger.
THEOREM EventsAreOrdered == OnrampSpec => []EventsInOrder
<1>1. OnrampIInv => EventsInOrder
  BY EventsInOrderHolds
<1> QED
  BY <1>1, OnrampInvariant, PTL

\* Settlements that nobody finishes, and releases that nobody reports, are no
\* more than the pipelines and jobs that an error has ended.
THEOREM LossesNeedFaults == OnrampSpec => []LossesAreCounted
<1>1. OnrampInit => CountedLosses
  BY CountedInitially
<1>2. OnrampIInv /\ CountedLosses /\ [OnrampNext]_onrampVars => CountedLosses'
  BY CountedInductive
<1>3. CountedLosses => LossesAreCounted
  BY DEF CountedLosses
<1> QED
  BY <1>1, <1>2, <1>3, OnrampInvariant, PTL DEF OnrampSpec

\* Answers are about payments that are there, when references are distinct.
LEMMA AcknowledgedInductive ==
    ASSUME \A p, q \in Purchases : Reference[p] = Reference[q] => p = q,
           OnrampIInv, AcknowledgedIsRecorded, [OnrampNext]_onrampVars
    PROVE  AcknowledgedIsRecorded'
<1>1. ASSUME acknowledged' = acknowledged,
             \A p \in Purchases : Has("payments", p) => Has("payments", p)'
      PROVE  AcknowledgedIsRecorded'
  BY <1>1 DEF AcknowledgedIsRecorded, OnrampIInv, OnrampTypeOK
<1>2. ASSUME NEW q \in Purchases, Has("payments", q), rows' = rows,
             acknowledged' = acknowledged \cup {q}
      PROVE  AcknowledgedIsRecorded'
  BY <1>2 DEF AcknowledgedIsRecorded, Has
<1>3. ASSUME rows' = rows, acknowledged' = acknowledged
      PROVE  AcknowledgedIsRecorded'
  BY <1>1, <1>3 DEF Has
<1>4. ASSUME NEW h \in Handlers, Settle(h)
      PROVE  AcknowledgedIsRecorded'
  <2>1. purchase[h] \in Purchases /\ "payments" \in Tables
    BY DEF OnrampIInv, OnrampTypeOK, Tables
  <2>2. \A p \in Purchases : Has("payments", p) => Has("payments", p)'
    BY <1>4, <2>1, SettleStep, RowsStay DEF OnrampIInv, Has
  <2>3. CASE Answer(h)
    <3>1. stage[h] \in 1 .. AnswerStage /\ Kind(stage[h]) = "answer"
      BY <2>3, ExecutesAt DEF Answer, OnrampIInv
    <3>2. stage[h] > 1
      <4>1. Kind(1) = "insert"
        BY PipelineIs DEF Kind
      <4> QED
        BY <3>1, <4>1
    <3>3. Has("payments", purchase[h])
      BY <3>2, NobodyAhead DEF OnrampIInv
    <3> QED
      BY <1>2, <2>1, <2>3, <3>3 DEF Answer, Acknowledge, onrampTables
  <2>4. CASE InsertPayment(h)
    <3>1. CASE ReferenceInUse(purchase[h])
      <4>1. Has("payments", purchase[h])
        BY <2>1, <3>1 DEF ReferenceInUse
      <4> QED
        BY <1>2, <2>1, <2>4, <3>1, <4>1 DEF InsertPayment, Acknowledge
    <3>2. CASE ~ReferenceInUse(purchase[h])
      BY <1>1, <2>2, <2>4, <3>2 DEF InsertPayment
    <3> QED
      BY <3>1, <3>2
  <2>5. CASE InsertReceipt(h) \/ InsertRow(h) \/ Persist(h) \/ Mirror(h)
             \/ ClaimHook(h) \/ Accrue(h)
    <3>1. acknowledged' = acknowledged
      BY <2>5 DEF InsertReceipt, InsertRow, Persist, Mirror, ClaimHook, Accrue
    <3> QED
      BY <1>1, <2>2, <3>1
  <2> QED
    BY <1>4, <2>3, <2>4, <2>5 DEF Settle
<1>5. ASSUME NEW h \in Handlers, NEW p \in Purchases, Receive(h, p)
      PROVE  AcknowledgedIsRecorded'
  <2>1. CASE Has("payments", p)
    BY <1>2, <1>5, <2>1 DEF Receive, Acknowledge, onrampTables
  <2>2. CASE ~Has("payments", p)
    BY <1>3, <1>5, <2>2 DEF Receive, onrampTables
  <2> QED
    BY <2>1, <2>2
<1>6. ASSUME NEW h \in Handlers, Fault(h)
      PROVE  AcknowledgedIsRecorded'
  BY <1>3, <1>6 DEF Fault, onrampTables
<1>7. ASSUME NEW j \in Jobs, Release(j) \/ StartRelease(j) \/ JobFault(j)
      PROVE  AcknowledgedIsRecorded'
  BY <1>3, <1>7 DEF Release, StartRelease, MarkReleased, PersistRelease, MirrorRelease,
                    EndRelease, JobFault, onrampTables
<1>8. CASE UNCHANGED onrampVars
  BY <1>3, <1>8 DEF onrampVars
<1> QED
  BY <1>4, <1>5, <1>6, <1>7, <1>8 DEF OnrampNext

\* As long as no two providers use one reference, a purchase that is answered
\* "ok" has its own payment.
THEOREM DistinctReferencesAreRecorded ==
    ASSUME \A p, q \in Purchases : Reference[p] = Reference[q] => p = q
    PROVE  OnrampSpec => []AcknowledgedIsRecorded
<1>1. OnrampInit => AcknowledgedIsRecorded
  BY DEF OnrampInit, AcknowledgedIsRecorded
<1>2. OnrampIInv /\ AcknowledgedIsRecorded /\ [OnrampNext]_onrampVars => AcknowledgedIsRecorded'
  BY AcknowledgedInductive
<1> QED
  BY <1>1, <1>2, OnrampInvariant, PTL DEF OnrampSpec

=============================================================================

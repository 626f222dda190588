------------------------------ MODULE MerkleBatch ------------------------------
(***************************************************************************)
(* Merkle anchoring of agreement receipts: finalized receipts are grouped  *)
(* by network into batches, and the anchor cycle submits the commitment of *)
(* each batch and copies the transaction to the receipts of the batch.     *)
(*                                                                         *)
(* Building a batch is one transaction.  Anchoring is not: a cycle lists   *)
(* the pending batches, then marks, submits and marks again in statements  *)
(* of their own, guarded by the batch id only; a row left "anchoring" by a *)
(* cycle that died goes back to pending once it is stale.                  *)
(***************************************************************************)
EXTENDS Naturals, FiniteSets

CONSTANTS
    Networks,     \* networks of the agreement receipts
    Disabled,     \* the networks that mainnet_disabled_flag refuses
    Ids,          \* receipts of one network
    Workers,      \* executions of the anchor cycle that may overlap
    MaxBatches,   \* bound: batches ever built
    BatchLimit,   \* limit of build_next_batch
    ListLimit,    \* CLAW_MERKLE_ANCHOR_MAX_BATCHES_PER_RUN
    MaxAttempts,  \* merkle_anchor_max_attempts()
    Prompt,       \* no cycle holds a batch for as long as stale_seconds
    MaxCrashes    \* bound: crashes of cycles

ASSUME ConstantsAssumption ==
    /\ Disabled \subseteq Networks
    /\ IsFiniteSet(Workers)
    /\ MaxBatches \in Nat
    /\ BatchLimit \in Nat \ {0}
    /\ ListLimit \in Nat \ {0}
    /\ MaxAttempts \in Nat \ {0}
    /\ Prompt \in BOOLEAN
    /\ MaxCrashes \in Nat

Receipts == Networks \X Ids
Batches == 1 .. MaxBatches     \* in the order of created_at
NoBatch == 0                   \* batch_id NULL
Pending == 0                   \* btc_txid "pending", anchor_txid NULL; the n-th
                               \* broadcast of a batch commitment is n
Statuses == {"missing", "pending", "anchoring", "anchored", "failed"}

VARIABLES
    receipts,   \* receipts[r]: the row exists, its batch_id and its btc_txid
    batches,    \* the batches table
    members,    \* members[b]: the batch_receipts rows of b
    stale,      \* anchoring rows not updated for stale_seconds
    sent,       \* sent[b]: transactions with b's commitment
    pc,         \* where each worker is in its cycle
    todo,       \* networks to build for, then batches to anchor
    txid,       \* the transaction it has just submitted
    crashes,
    overlapped  \* history: two cycles have been under way at once

vars == <<receipts, batches, members, stale, sent, pc, todo, txid, crashes, overlapped>>
tables == <<receipts, batches, members, stale, sent>>

ReceiptRow == [exists : BOOLEAN, batch : Batches \cup {NoBatch}, txid : Nat]
BatchRow == [status : Statuses, network : SUBSET Networks, txid : Nat, attempts : Nat]
PCs == {"idle", "groups", "build", "list", "next", "submit", "mark_anchored",
        "set_receipts", "mark_failed"}

TypeOK ==
    /\ receipts \in [Receipts -> ReceiptRow]
    /\ batches \in [Batches -> BatchRow]
    /\ members \in [Batches -> SUBSET Receipts]
    /\ stale \subseteq Batches
    /\ sent \in [Batches -> Nat]
    /\ pc \in [Workers -> PCs]
    /\ todo \in [Workers -> [nets : SUBSET Networks, ids : SUBSET Batches]]
    /\ txid \in [Workers -> Nat]
    /\ crashes \in Nat /\ overlapped \in BOOLEAN

Nothing == [nets |-> {}, ids |-> {}]

Init ==
    /\ receipts = [r \in Receipts |-> [exists |-> FALSE, batch |-> NoBatch, txid |-> Pending]]
    /\ batches = [b \in Batches |-> [status |-> "missing", network |-> {},
                                     txid |-> Pending, attempts |-> 0]]
    /\ members = [b \in Batches |-> {}]
    /\ stale = {}
    /\ sent = [b \in Batches |-> 0]
    /\ pc = [w \in Workers |-> "idle"]
    /\ todo = [w \in Workers |-> Nothing]
    /\ txid = [w \in Workers |-> Pending]
    /\ crashes = 0 /\ overlapped = FALSE

-----------------------------------------------------------------------------
(* Receipts and batches. *)

\* create_receipt inserts the row. Its caller, POST finalized-receipt
\* (routers/agreements_v2_api.py), looks the receipt up first; a concurrent
\* duplicate fails on the primary key.
CreateReceipt(r) ==
    /\ ~receipts[r].exists
    /\ receipts' = [receipts EXCEPT ![r].exists = TRUE]
    /\ UNCHANGED <<batches, members, stale, sent, pc, todo, txid, crashes, overlapped>>

\* Wrong variant: receipts that have a batch are eligible again.
UnbatchedOrNot(net) == {r \in Receipts : r[1] = net /\ receipts[r].exists}

\* The receipts eligible for a batch.
Unbatched(net) == {r \in Receipts : r[1] = net /\ receipts[r].exists /\ receipts[r].batch = NoBatch}

Unused == {b \in Batches : batches[b].status = "missing"}

\* The rows build_next_batch selects: all that are eligible, up to its limit
\* (which rows a binding limit selects is left open).
Selection(net, rows) ==
    /\ rows \subseteq Unbatched(net)
    /\ rows # {}
    /\ \/ rows = Unbatched(net) /\ Cardinality(rows) <= BatchLimit
       \/ Cardinality(rows) = BatchLimit

\* list_merkle_batches_pending_anchor without its LIMIT.
Listable(b) ==
    /\ batches[b].txid = Pending
    /\ batches[b].attempts < MaxAttempts
    /\ batches[b].status \in {"pending", "failed"}

PendingBatches ==
    {b \in Batches : Listable(b) /\ Cardinality({a \in 1 .. b - 1 : Listable(a)}) < ListLimit}

\* Wrong variant: stale rows are left alone.
RecoveredNothing == batches

\* recover_stale_merkle_batch_anchoring.
Recovered == [b \in Batches |->
    IF b \in stale THEN [batches[b] EXCEPT !.status = "pending"] ELSE batches[b]]

-----------------------------------------------------------------------------
(* The anchor cycle. *)

StartCycle(w) ==
    /\ pc[w] = "idle"
    /\ batches' = Recovered
    /\ stale' = {}
    /\ pc' = [pc EXCEPT ![w] = "groups"]
    /\ UNCHANGED <<receipts, members, sent, todo, txid, crashes>>

\* list_unbatched_receipt_groups.
ListGroups(w) ==
    /\ pc[w] = "groups"
    /\ todo' = [todo EXCEPT ![w].nets = {net \in Networks : Unbatched(net) # {}}]
    /\ pc' = [pc EXCEPT ![w] = "build"]
    /\ UNCHANGED <<tables, txid, crashes>>

\* build_next_batch: one transaction inserts the header and the membership
\* rows and stamps the receipts.
BuildBatch(w, net) ==
    /\ pc[w] = "build"
    /\ net \in todo[w].nets
    /\ \E b \in Unused, rows \in SUBSET Receipts :
        /\ \A a \in Unused : b <= a
        /\ Selection(net, rows)
        /\ batches' = [batches EXCEPT ![b].status = "pending", ![b].network = {net}]
        /\ members' = [members EXCEPT ![b] = rows]
        /\ receipts' = [r \in Receipts |->
                IF r \in rows THEN [receipts[r] EXCEPT !.batch = b] ELSE receipts[r]]
    /\ todo' = [todo EXCEPT ![w].nets = @ \ {net}]
    /\ UNCHANGED <<stale, sent, pc, txid, crashes>>

\* Another cycle batched the receipts first (or the bound on batches is reached).
BuildNothing(w, net) ==
    /\ pc[w] = "build"
    /\ net \in todo[w].nets
    /\ Unbatched(net) = {} \/ Unused = {}
    /\ todo' = [todo EXCEPT ![w].nets = @ \ {net}]
    /\ UNCHANGED <<tables, pc, txid, crashes>>

ListPending(w) ==
    /\ pc[w] = "build"
    /\ todo[w].nets = {}
    /\ todo' = [todo EXCEPT ![w].ids = PendingBatches]
    /\ pc' = [pc EXCEPT ![w] = "next"]
    /\ UNCHANGED <<tables, txid, crashes>>

\* The batch at the head of the list: the one the worker is processing.
Current(w, b) == b \in todo[w].ids /\ \A a \in todo[w].ids : b <= a

Refused(b) == batches[b].network \subseteq Disabled

\* Wrong variants: the attempt is not counted, the txid is not written.
FailedUncounted(row) == [row EXCEPT !.status = "failed"]
AnchoredWithoutTxid(row, t) == [row EXCEPT !.status = "anchored"]

\* mark_merkle_batch_anchor_failed, _attempt_started and _anchored: all of them
\* update the row by its id whatever its state is.
Failed(row) == [row EXCEPT !.status = "failed", !.attempts = @ + 1]
Started(row) == [row EXCEPT !.status = "anchoring"]
Anchored(row, t) == [row EXCEPT !.status = "anchored", !.txid = t]

NextRefused(w, b) ==
    /\ pc[w] = "next"
    /\ Current(w, b)
    /\ Refused(b)
    /\ batches' = [batches EXCEPT ![b] = Failed(@)]
    /\ stale' = stale \ {b}
    /\ todo' = [todo EXCEPT ![w].ids = @ \ {b}]
    /\ UNCHANGED <<receipts, members, sent, pc, txid, crashes>>

MarkStarted(w, b) ==
    /\ pc[w] = "next"
    /\ Current(w, b)
    /\ ~Refused(b)
    /\ batches' = [batches EXCEPT ![b] = Started(@)]
    /\ stale' = stale \ {b}
    /\ pc' = [pc EXCEPT ![w] = "submit"]
    /\ UNCHANGED <<receipts, members, sent, todo, txid, crashes>>

SubmitReturns(w, b) ==
    /\ pc[w] = "submit"
    /\ Current(w, b)
    /\ sent' = [sent EXCEPT ![b] = @ + 1]
    /\ txid' = [txid EXCEPT ![w] = sent[b] + 1]
    /\ pc' = [pc EXCEPT ![w] = "mark_anchored"]
    /\ UNCHANGED <<receipts, batches, members, stale, todo, crashes>>

\* It raises, with or without a broadcast.
SubmitRaises(w, b) ==
    /\ pc[w] = "submit"
    /\ Current(w, b)
    /\ UNCHANGED sent \/ sent' = [sent EXCEPT ![b] = @ + 1]
    /\ pc' = [pc EXCEPT ![w] = "mark_failed"]
    /\ UNCHANGED <<receipts, batches, members, stale, todo, txid, crashes>>

MarkAnchored(w, b) ==
    /\ pc[w] = "mark_anchored"
    /\ Current(w, b)
    /\ batches' = [batches EXCEPT ![b] = Anchored(@, txid[w])]
    /\ stale' = stale \ {b}
    /\ pc' = [pc EXCEPT ![w] = "set_receipts"]
    /\ UNCHANGED <<receipts, members, sent, todo, txid, crashes>>

\* The receipts set_receipt_txids_for_batch selects.
ReceiptsOf(b) == members[b]

\* set_receipt_txids_for_batch.
SetReceiptTxids(w, b) ==
    /\ pc[w] = "set_receipts"
    /\ Current(w, b)
    /\ receipts' = [r \in Receipts |->
            IF r \in ReceiptsOf(b) THEN [receipts[r] EXCEPT !.txid = txid[w]] ELSE receipts[r]]
    /\ todo' = [todo EXCEPT ![w].ids = @ \ {b}]
    /\ txid' = [txid EXCEPT ![w] = Pending]
    /\ pc' = [pc EXCEPT ![w] = "next"]
    /\ UNCHANGED <<batches, members, stale, sent, crashes>>

\* An update raises (a locked database); the except clause covers all of them.
UpdateRaises(w) ==
    /\ pc[w] \in {"mark_anchored", "set_receipts"}
    /\ pc' = [pc EXCEPT ![w] = "mark_failed"]
    /\ txid' = [txid EXCEPT ![w] = Pending]
    /\ UNCHANGED <<tables, todo, crashes>>

MarkFailed(w, b) ==
    /\ pc[w] = "mark_failed"
    /\ Current(w, b)
    /\ batches' = [batches EXCEPT ![b] = Failed(@)]
    /\ stale' = stale \ {b}
    /\ todo' = [todo EXCEPT ![w].ids = @ \ {b}]
    /\ pc' = [pc EXCEPT ![w] = "next"]
    /\ UNCHANGED <<receipts, members, sent, txid, crashes>>

EndCycle(w) ==
    /\ pc[w] = "next"
    /\ todo[w].ids = {}
    /\ pc' = [pc EXCEPT ![w] = "idle"]
    /\ UNCHANGED <<tables, todo, txid, crashes>>

\* The cycle dies: its process, or a statement outside the try of the loop.
Crash(w) ==
    /\ pc[w] # "idle"
    /\ crashes < MaxCrashes
    /\ crashes' = crashes + 1
    /\ pc' = [pc EXCEPT ![w] = "idle"]
    /\ todo' = [todo EXCEPT ![w] = Nothing]
    /\ txid' = [txid EXCEPT ![w] = Pending]
    /\ UNCHANGED <<tables, overlapped>>

InFlight(b) == \E w \in Workers : pc[w] \notin {"idle", "groups", "build"} /\ b \in todo[w].ids

\* stale_seconds pass without an update of an anchoring row.
Age(b) ==
    /\ batches[b].status = "anchoring"
    /\ b \notin stale
    /\ Prompt => ~InFlight(b)
    /\ stale' = stale \cup {b}
    /\ UNCHANGED <<receipts, batches, members, sent, pc, todo, txid, crashes, overlapped>>

-----------------------------------------------------------------------------
Cycle(w) ==
    /\ \/ StartCycle(w) \/ ListGroups(w) \/ ListPending(w) \/ EndCycle(w) \/ UpdateRaises(w)
       \/ \E net \in Networks : BuildBatch(w, net) \/ BuildNothing(w, net)
       \/ \E b \in Batches :
           \/ NextRefused(w, b) \/ MarkStarted(w, b) \/ SubmitReturns(w, b) \/ SubmitRaises(w, b)
           \/ MarkAnchored(w, b) \/ SetReceiptTxids(w, b) \/ MarkFailed(w, b)
    /\ overlapped' = (overlapped \/ Cardinality({v \in Workers : pc'[v] # "idle"}) > 1)

Next ==
    \/ \E r \in Receipts : CreateReceipt(r)
    \/ \E w \in Workers : Cycle(w) \/ Crash(w)
    \/ \E b \in Batches : Age(b)

Spec == Init /\ [][Next]_vars

\* Cycles are scheduled again and again, a cycle that runs goes on, time passes.
FairSpec ==
    /\ Spec
    /\ \A w \in Workers : WF_vars(Cycle(w))
    /\ \A b \in Batches : WF_vars(Age(b))

-----------------------------------------------------------------------------
(* Properties. *)

\* The two records of membership agree: a receipt is stamped with a batch
\* exactly when the batch lists it, so a receipt is in one batch only, and
\* every batch is a non-empty set of receipts of its network, even when
\* cycles build at the same time.
MembershipAgrees ==
    \A b \in Batches :
        /\ \A r \in Receipts : receipts[r].batch = b <=> r \in members[b]
        /\ batches[b].status # "missing" <=> members[b] # {}
        /\ Cardinality(members[b]) <= BatchLimit
        /\ \A r \in members[b] : receipts[r].exists /\ {r[1]} = batches[b].network

\* A receipt names only a transaction that carried the commitment of the very
\* batch it belongs to; an unbatched receipt is pending.
ReceiptTxidFromBatch ==
    \A r \in Receipts :
        receipts[r].txid # Pending =>
            \E b \in Batches : receipts[r].batch = b /\ receipts[r].txid \in 1 .. sent[b]

\* As long as no two cycles overlap, the transaction of a batch and that of its
\* receipts are the same, however updates fail between the two.
ReceiptsAgree ==
    overlapped \/ \A r \in Receipts :
        receipts[r].txid # Pending => receipts[r].txid = batches[receipts[r].batch].txid

\* As long as no two cycles overlap, a commitment is broadcast at most once for each
\* recorded failure, once for each crash, and once for the anchored state.
BroadcastsAccountedFor ==
    overlapped \/ \A b \in Batches :
        sent[b] <= batches[b].attempts + crashes
            + (IF batches[b].txid # Pending \/ batches[b].status = "anchoring" THEN 1 ELSE 0)

\* Every batch gets a transaction or uses its attempts up: the recovery of
\* stale rows makes up for cycles that died.
BatchIsResolved ==
    \A b \in Batches :
        batches[b].status # "missing" ~>
            batches[b].txid # Pending \/ batches[b].attempts >= MaxAttempts
=============================================================================

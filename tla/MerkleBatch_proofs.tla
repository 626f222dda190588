-------------------------- MODULE MerkleBatch_proofs --------------------------
(***************************************************************************)
(* Proofs about MerkleBatch, for every set of proofs, batches, networks    *)
(* and workers and every bound.                                            *)
(***************************************************************************)
EXTENDS MerkleBatch, FiniteSetTheorems, TLAPS

\* The steps of a worker that has begun with the batch at the head of its list,
\* and those after it may have broadcast it.
MerkleHandling == {"submit", "mark_anchored", "set_receipts", "mark_failed"}
MerkleSpent(b) ==
    \E w \in Workers : pc[w] \in MerkleHandling \ {"submit"} /\ Current(w, b)

\* Batches listed or stale have been built; before a worker lists batches its
\* list is empty.
MerkleTypes ==
    /\ TypeOK
    /\ \A w \in Workers :
        /\ pc[w] \in {"idle", "groups", "build"} => todo[w].ids = {}
        /\ \A b \in todo[w].ids : batches[b].status # "missing"
    /\ \A b \in stale : batches[b].status # "missing"

\* The transaction a worker is about to write carried the commitment of the
\* batch it writes it to.
MerkleTxids ==
    \A w \in Workers, b \in Batches :
        pc[w] \in {"mark_anchored", "set_receipts"} /\ Current(w, b) => txid[w] \in 1 .. sent[b]

MerkleInv == MerkleTypes /\ MembershipAgrees /\ MerkleTxids /\ ReceiptTxidFromBatch

MerkleAlone ==
    \A v, w \in Workers : pc[v] # "idle" /\ pc[w] # "idle" => v = w

\* A batch on the list of the only cycle has no transaction until the cycle
\* writes it, and is anchoring while the cycle handles it.
MerkleListOk(w, b) ==
    /\ ~(pc[w] \in {"set_receipts", "mark_failed"} /\ Current(w, b)) => batches[b].txid = Pending
    /\ pc[w] = "set_receipts" /\ Current(w, b) => batches[b].txid = txid[w]
    /\ pc[w] \in MerkleHandling /\ Current(w, b) =>
            batches[b].status = "anchoring" \/ batches[b].txid # Pending

MerkleSentOk(b) ==
    sent[b] <= batches[b].attempts + crashes
                + (IF batches[b].txid # Pending \/ MerkleSpent(b) THEN 1 ELSE 0)

MerkleSerial ==
    overlapped \/ /\ MerkleAlone
                  /\ \A w \in Workers : \A b \in todo[w].ids : MerkleListOk(w, b)
                  /\ ReceiptsAgree
                  /\ \A b \in Batches : MerkleSentOk(b)

\* What the three updates of a batch row leave, and the recovery of stale rows.
LEMMA MerkleRows ==
  ASSUME NEW row \in BatchRow, NEW t \in Nat
  PROVE  /\ Failed(row) \in BatchRow /\ Failed(row).status = "failed"
         /\ Failed(row).network = row.network /\ Failed(row).txid = row.txid
         /\ Failed(row).attempts = row.attempts + 1
         /\ Started(row) \in BatchRow /\ Started(row).status = "anchoring"
         /\ Started(row).network = row.network /\ Started(row).txid = row.txid
         /\ Started(row).attempts = row.attempts
         /\ Anchored(row, t) \in BatchRow /\ Anchored(row, t).status = "anchored"
         /\ Anchored(row, t).network = row.network /\ Anchored(row, t).txid = t
         /\ Anchored(row, t).attempts = row.attempts
<1> USE DEF BatchRow, Statuses
<1>1. /\ Failed(row) \in BatchRow /\ Failed(row).status = "failed"
      /\ Failed(row).network = row.network /\ Failed(row).txid = row.txid
      /\ Failed(row).attempts = row.attempts + 1
  <2>1. PICK first : first = [row EXCEPT !.status = "failed"]
    OBVIOUS
  <2>2. first \in BatchRow /\ first.attempts = row.attempts
    BY <2>1
  <2>3. Failed(row) = [first EXCEPT !.attempts = row.attempts + 1]
    BY <2>1 DEF Failed
  <2>4. row.attempts + 1 \in Nat
    OBVIOUS
  <2> QED
    BY <2>1, <2>2, <2>3, <2>4
<1>2. /\ Started(row) \in BatchRow /\ Started(row).status = "anchoring"
      /\ Started(row).network = row.network /\ Started(row).txid = row.txid
      /\ Started(row).attempts = row.attempts
  BY DEF Started
<1>3. /\ Anchored(row, t) \in BatchRow /\ Anchored(row, t).status = "anchored"
      /\ Anchored(row, t).network = row.network /\ Anchored(row, t).txid = t
      /\ Anchored(row, t).attempts = row.attempts
  <2>1. PICK first : first = [row EXCEPT !.status = "anchored"]
    OBVIOUS
  <2>2. first \in BatchRow /\ Anchored(row, t) = [first EXCEPT !.txid = t]
    BY <2>1 DEF Anchored
  <2> QED
    BY <2>1, <2>2
<1> QED
  BY <1>1, <1>2, <1>3

\* The recovery changes statuses only, to pending, and of stale rows only.
LEMMA MerkleRecovered ==
  ASSUME MerkleTypes
  PROVE  /\ Recovered \in [Batches -> BatchRow]
         /\ \A b \in Batches :
              /\ Recovered[b].status = IF b \in stale THEN "pending" ELSE batches[b].status
              /\ Recovered[b].network = batches[b].network
              /\ Recovered[b].txid = batches[b].txid
              /\ Recovered[b].attempts = batches[b].attempts
<1> USE DEF MerkleTypes, TypeOK
<1>1. ASSUME NEW b \in Batches
      PROVE  /\ Recovered[b] \in BatchRow
             /\ Recovered[b].status = IF b \in stale THEN "pending" ELSE batches[b].status
             /\ Recovered[b].network = batches[b].network
             /\ Recovered[b].txid = batches[b].txid
             /\ Recovered[b].attempts = batches[b].attempts
  <2>1. batches[b] \in BatchRow
    OBVIOUS
  <2>2. Recovered[b] = IF b \in stale THEN [batches[b] EXCEPT !.status = "pending"] ELSE batches[b]
    BY DEF Recovered
  <2> QED
    BY <2>1, <2>2 DEF BatchRow, Statuses
<1> QED
  BY <1>1 DEF Recovered

\* The steps by which a worker updates the row of the batch at the head of its
\* list.
LEMMA MerkleUpdates ==
  ASSUME MerkleTypes, NEW w \in Workers, NEW b \in Batches,
         NextRefused(w, b) \/ MarkStarted(w, b) \/ MarkAnchored(w, b) \/ MarkFailed(w, b)
  PROVE  /\ Current(w, b)
         /\ UNCHANGED <<receipts, members, sent, txid, crashes>>
         /\ stale' = stale \ {b}
         /\ \E row \in BatchRow :
              /\ batches' = [batches EXCEPT ![b] = row]
              /\ row.network = batches[b].network
              /\ \/ NextRefused(w, b) \/ MarkFailed(w, b)
                 \/ row.attempts = batches[b].attempts
              /\ MarkAnchored(w, b) \/ row.txid = batches[b].txid
              /\ MarkAnchored(w, b) => row.txid = txid[w] /\ row.status = "anchored"
              /\ MarkStarted(w, b) => row.status = "anchoring"
              /\ NextRefused(w, b) \/ MarkFailed(w, b) =>
                    row.status = "failed" /\ row.attempts = batches[b].attempts + 1
         /\ \/ /\ NextRefused(w, b) /\ pc[w] = "next" /\ pc' = pc
               /\ todo' = [todo EXCEPT ![w].ids = @ \ {b}]
            \/ /\ MarkStarted(w, b) /\ pc[w] = "next" /\ pc' = [pc EXCEPT ![w] = "submit"]
               /\ todo' = todo
            \/ /\ MarkAnchored(w, b) /\ pc[w] = "mark_anchored"
               /\ pc' = [pc EXCEPT ![w] = "set_receipts"] /\ todo' = todo
            \/ /\ MarkFailed(w, b) /\ pc[w] = "mark_failed" /\ pc' = [pc EXCEPT ![w] = "next"]
               /\ todo' = [todo EXCEPT ![w].ids = @ \ {b}]
<1>1. batches[b] \in BatchRow /\ txid[w] \in Nat /\ pc[w] \in PCs
  BY DEF MerkleTypes, TypeOK
<1>2. CASE NextRefused(w, b)
  BY <1>1, <1>2, MerkleRows DEF NextRefused, MarkFailed, MarkStarted, MarkAnchored
<1>3. CASE MarkFailed(w, b)
  BY <1>1, <1>3, MerkleRows DEF NextRefused, MarkFailed, MarkStarted, MarkAnchored
<1>4. CASE MarkStarted(w, b)
  BY <1>1, <1>4, MerkleRows DEF NextRefused, MarkFailed, MarkStarted, MarkAnchored
<1>5. CASE MarkAnchored(w, b)
  BY <1>1, <1>5, MerkleRows DEF NextRefused, MarkFailed, MarkStarted, MarkAnchored
<1> QED
  BY <1>2, <1>3, <1>4, <1>5

\* What build_next_batch writes: an unused row, its members, and the stamp on
\* each of them.
MerkleBuilds(net, b, rows, row) ==
    /\ batches[b].status = "missing"
    /\ Selection(net, rows)
    /\ batches' = [batches EXCEPT ![b] = row]
    /\ row.status = "pending" /\ row.network = {net}
    /\ row.txid = batches[b].txid /\ row.attempts = batches[b].attempts
    /\ members' = [members EXCEPT ![b] = rows]
    /\ receipts' \in [Receipts -> ReceiptRow]
    /\ \A r \in Receipts :
        /\ receipts'[r].exists = receipts[r].exists
        /\ receipts'[r].txid = receipts[r].txid
        /\ receipts'[r].batch = IF r \in rows THEN b ELSE receipts[r].batch

\* Every build_next_batch that finds receipts writes so.
LEMMA MerkleBuilt ==
  ASSUME MerkleTypes, NEW w \in Workers, NEW net \in Networks, BuildBatch(w, net)
  PROVE  /\ pc[w] = "build"
         /\ \E b \in Batches, rows \in SUBSET Receipts,
                 row \in BatchRow : MerkleBuilds(net, b, rows, row)
         /\ todo' = [todo EXCEPT ![w].nets = @ \ {net}]
         /\ UNCHANGED <<stale, sent, pc, txid, crashes>>
<1>0. batches \in [Batches -> BatchRow] /\ receipts \in [Receipts -> ReceiptRow]
  BY DEF MerkleTypes, TypeOK
<1>1. PICK b \in Unused, rows \in SUBSET Receipts :
        /\ Selection(net, rows)
        /\ batches' = [batches EXCEPT ![b].status = "pending", ![b].network = {net}]
        /\ members' = [members EXCEPT ![b] = rows]
        /\ receipts' = [r \in Receipts |->
                IF r \in rows THEN [receipts[r] EXCEPT !.batch = b] ELSE receipts[r]]
  BY DEF BuildBatch
<1>2. b \in Batches /\ batches[b] \in BatchRow /\ batches[b].status = "missing"
  BY <1>0 DEF Unused
<1>3. PICK first : first = [batches[b] EXCEPT !.status = "pending"]
  OBVIOUS
<1>4. PICK row : row = [first EXCEPT !.network = {net}]
  OBVIOUS
<1>5. first \in BatchRow /\ first.status = "pending"
      /\ first.txid = batches[b].txid /\ first.attempts = batches[b].attempts
  BY <1>2, <1>3 DEF BatchRow, Statuses
<1>6. row \in BatchRow /\ row.status = "pending" /\ row.network = {net}
      /\ row.txid = batches[b].txid /\ row.attempts = batches[b].attempts
  BY <1>4, <1>5 DEF BatchRow, Statuses
<1>7. batches' = [batches EXCEPT ![b] = row]
  <2>1. PICK table : table = [batches EXCEPT ![b] = first]
    OBVIOUS
  <2>2. table \in [Batches -> BatchRow] /\ table[b] = first
    BY <1>0, <1>2, <1>5, <2>1
  <2>3. batches' = [table EXCEPT ![b] = row]
    BY <1>0, <1>1, <1>2, <1>3, <1>4, <2>1, <2>2
  <2> QED
    BY <1>0, <1>2, <2>1, <2>3
<1>8. ASSUME NEW r \in Receipts
      PROVE  /\ receipts'[r] \in ReceiptRow
             /\ receipts'[r].exists = receipts[r].exists
             /\ receipts'[r].txid = receipts[r].txid
             /\ receipts'[r].batch = IF r \in rows THEN b ELSE receipts[r].batch
  <2>1. receipts[r] \in ReceiptRow
    BY <1>0
  <2>2. receipts'[r] = IF r \in rows THEN [receipts[r] EXCEPT !.batch = b] ELSE receipts[r]
    BY <1>1
  <2> QED
    BY <1>2, <2>1, <2>2 DEF ReceiptRow
<1>9. receipts' \in [Receipts -> ReceiptRow]
  BY <1>1, <1>8
<1>10. /\ pc[w] = "build"
       /\ todo' = [todo EXCEPT ![w].nets = @ \ {net}]
       /\ UNCHANGED <<stale, sent, pc, txid, crashes>>
  BY DEF BuildBatch
<1>11. rows \in SUBSET Receipts /\ Selection(net, rows) /\ members' = [members EXCEPT ![b] = rows]
  BY <1>1
<1>12. \A r \in Receipts :
            /\ receipts'[r].exists = receipts[r].exists
            /\ receipts'[r].txid = receipts[r].txid
            /\ receipts'[r].batch = IF r \in rows THEN b ELSE receipts[r].batch
  BY <1>8
<1>13. \E c \in Batches, chosen \in SUBSET Receipts,
        new \in BatchRow : MerkleBuilds(net, c, chosen, new)
  <2>1. rows \in SUBSET Receipts /\ b \in Batches /\ row \in BatchRow
    BY <1>2, <1>6, <1>11
  <2> USE <2>1
  <2> WITNESS b \in Batches, rows \in SUBSET Receipts, row \in BatchRow
  <2> QED
    BY <1>2, <1>6, <1>7, <1>9, <1>11, <1>12 DEF MerkleBuilds
<1> QED
  BY <1>10, <1>13

\* What set_receipt_txids_for_batch writes.
LEMMA MerkleReceiptsSet ==
  ASSUME MerkleTypes, NEW w \in Workers, NEW b \in Batches, SetReceiptTxids(w, b)
  PROVE  /\ pc[w] = "set_receipts" /\ Current(w, b)
         /\ receipts' \in [Receipts -> ReceiptRow]
         /\ \A r \in Receipts :
              /\ receipts'[r].exists = receipts[r].exists
              /\ receipts'[r].batch = receipts[r].batch
              /\ receipts'[r].txid = IF r \in members[b] THEN txid[w] ELSE receipts[r].txid
         /\ todo' = [todo EXCEPT ![w].ids = @ \ {b}]
         /\ txid' = [txid EXCEPT ![w] = Pending]
         /\ pc' = [pc EXCEPT ![w] = "next"]
         /\ UNCHANGED <<batches, members, stale, sent, crashes>>
<1> USE DEF MerkleTypes, TypeOK
<1>1. ASSUME NEW r \in Receipts
      PROVE  /\ receipts'[r] \in ReceiptRow
             /\ receipts'[r].exists = receipts[r].exists
             /\ receipts'[r].batch = receipts[r].batch
             /\ receipts'[r].txid = IF r \in members[b] THEN txid[w] ELSE receipts[r].txid
  <2>1. receipts[r] \in ReceiptRow /\ txid[w] \in Nat
    OBVIOUS
  <2>2. receipts'[r] = IF r \in members[b]
                          THEN [receipts[r] EXCEPT !.txid = txid[w]] ELSE receipts[r]
    BY DEF SetReceiptTxids, ReceiptsOf
  <2> QED
    BY <2>1, <2>2 DEF ReceiptRow
<1>2. receipts' \in [Receipts -> ReceiptRow]
  BY <1>1 DEF SetReceiptTxids
<1> QED
  BY <1>1, <1>2 DEF SetReceiptTxids

\* What create_receipt writes.
LEMMA MerkleReceiptCreated ==
  ASSUME MerkleTypes, NEW s \in Receipts, CreateReceipt(s)
  PROVE  /\ receipts' \in [Receipts -> ReceiptRow]
         /\ \A r \in Receipts :
              /\ receipts[r].exists => receipts'[r].exists
              /\ receipts'[r].batch = receipts[r].batch
              /\ receipts'[r].txid = receipts[r].txid
         /\ UNCHANGED <<batches, members, stale, sent, pc, todo, txid, crashes, overlapped>>
<1>1. receipts[s] \in ReceiptRow
  BY DEF MerkleTypes, TypeOK
<1> QED
  BY <1>1 DEF CreateReceipt, MerkleTypes, TypeOK, ReceiptRow

\* How a worker's lists change: the batches it is to anchor, the networks it is
\* to build for.
LEMMA MerkleLists ==
  ASSUME MerkleTypes, NEW w \in Workers, NEW ids \in SUBSET Batches,
         todo' = [todo EXCEPT ![w].ids = ids]
  PROVE  /\ todo' \in [Workers -> [nets : SUBSET Networks, ids : SUBSET Batches]]
         /\ \A v \in Workers : todo'[v].ids = IF v = w THEN ids ELSE todo[v].ids
  BY DEF MerkleTypes, TypeOK

\* The batch just finished leaves the list of its worker.
LEMMA MerkleHeadDropped ==
  ASSUME MerkleTypes, NEW w \in Workers, NEW b \in Batches,
         todo' = [todo EXCEPT ![w].ids = @ \ {b}]
  PROVE  /\ todo' \in [Workers -> [nets : SUBSET Networks, ids : SUBSET Batches]]
         /\ \A v \in Workers : todo'[v].ids = IF v = w THEN todo[w].ids \ {b} ELSE todo[v].ids
  BY DEF MerkleTypes, TypeOK

\* The networks a worker is to build for, as listed.
LEMMA MerkleNetworks ==
  ASSUME MerkleTypes, NEW w \in Workers, NEW nets \in SUBSET Networks,
         todo' = [todo EXCEPT ![w].nets = nets]
  PROVE  /\ todo' \in [Workers -> [nets : SUBSET Networks, ids : SUBSET Batches]]
         /\ \A v \in Workers : todo'[v].ids = todo[v].ids
  BY DEF MerkleTypes, TypeOK

\* A network that was built for is dropped.
LEMMA MerkleNetworkDropped ==
  ASSUME MerkleTypes, NEW w \in Workers, NEW net \in Networks,
         todo' = [todo EXCEPT ![w].nets = @ \ {net}]
  PROVE  /\ todo' \in [Workers -> [nets : SUBSET Networks, ids : SUBSET Batches]]
         /\ \A v \in Workers : todo'[v].ids = todo[v].ids
  BY DEF MerkleTypes, TypeOK

\* Types hold initially.
LEMMA MerkleTypesInitially ==
  ASSUME Init
  PROVE  MerkleTypes
  BY ConstantsAssumption DEF Init, MerkleTypes, TypeOK, Receipts, Batches, NoBatch, Pending,
         ReceiptRow, BatchRow, Statuses, PCs, Nothing

\* Every step keeps types, and no row goes missing again.
LEMMA MerkleTypesKept ==
  ASSUME MerkleTypes, [Next]_vars
  PROVE  MerkleTypes'
<1> USE DEF MerkleTypes, TypeOK, PCs
<1>1. ASSUME NEW s \in Receipts, CreateReceipt(s)
      PROVE  MerkleTypes'
  BY <1>1, MerkleReceiptCreated
<1>2. ASSUME NEW w \in Workers, Crash(w)
      PROVE  MerkleTypes'
  <2>1. Nothing \in [nets : SUBSET Networks, ids : SUBSET Batches] /\ Nothing.ids = {}
    BY DEF Nothing
  <2>2. crashes' \in Nat
    BY <1>2 DEF Crash
  <2> QED
    BY <1>2, <2>1, <2>2 DEF Crash, tables, Pending
<1>3. ASSUME NEW b \in Batches, Age(b)
      PROVE  MerkleTypes'
  BY <1>3 DEF Age
<1>4. ASSUME NEW w \in Workers, Cycle(w)
      PROVE  MerkleTypes'
  <2>0. overlapped' \in BOOLEAN
    BY <1>4 DEF Cycle
  <2>1. CASE StartCycle(w)
    BY <2>0, <2>1, MerkleRecovered DEF StartCycle
  <2>2. CASE ListGroups(w)
    <3>1. {net \in Networks : Unbatched(net) # {}} \in SUBSET Networks
      OBVIOUS
    <3> QED
      BY <2>0, <2>2, <3>1, MerkleNetworks DEF ListGroups, tables
  <2>3. CASE ListPending(w)
    <3>1. PendingBatches \in SUBSET Batches /\ \A b \in PendingBatches : batches[b].status # "missing"
      BY DEF PendingBatches, Listable
    <3>2. /\ todo' \in [Workers -> [nets : SUBSET Networks, ids : SUBSET Batches]]
          /\ \A v \in Workers : todo'[v].ids = IF v = w THEN PendingBatches ELSE todo[v].ids
      BY <2>3, <3>1, MerkleLists DEF ListPending
    <3> QED
      BY <2>0, <2>3, <3>1, <3>2 DEF ListPending, tables
  <2>4. CASE EndCycle(w)
    BY <2>0, <2>4 DEF EndCycle, tables
  <2>5. CASE UpdateRaises(w)
    BY <2>0, <2>5 DEF UpdateRaises, tables, Pending
  <2>6. ASSUME NEW net \in Networks, BuildBatch(w, net)
        PROVE  MerkleTypes'
    <3>1. todo' = [todo EXCEPT ![w].nets = @ \ {net}]
      BY <2>6, MerkleBuilt
    <3>2. /\ todo' \in [Workers -> [nets : SUBSET Networks, ids : SUBSET Batches]]
          /\ \A v \in Workers : todo'[v].ids = todo[v].ids
      BY <3>1, MerkleNetworkDropped
    <3>5. PICK b \in Batches, rows \in SUBSET Receipts,
            row \in BatchRow : MerkleBuilds(net, b, rows, row)
      BY <2>6, MerkleBuilt
    <3>3. /\ receipts' \in [Receipts -> ReceiptRow]
          /\ batches' \in [Batches -> BatchRow]
          /\ members' \in [Batches -> SUBSET Receipts]
          /\ \A c \in Batches : batches'[c].status = batches[c].status \/ batches'[c].status = "pending"
      BY <3>5 DEF MerkleBuilds
    <3>4. UNCHANGED <<stale, sent, pc, txid, crashes>>
      BY <2>6, MerkleBuilt
    <3> QED
      BY <2>0, <3>2, <3>3, <3>4
  <2>7. ASSUME NEW net \in Networks, BuildNothing(w, net)
        PROVE  MerkleTypes'
    <3>1. todo' = [todo EXCEPT ![w].nets = @ \ {net}]
      BY <2>7 DEF BuildNothing
    <3>2. /\ todo' \in [Workers -> [nets : SUBSET Networks, ids : SUBSET Batches]]
          /\ \A v \in Workers : todo'[v].ids = todo[v].ids
      BY <3>1, MerkleNetworkDropped
    <3> QED
      BY <2>0, <2>7, <3>2 DEF BuildNothing, tables
  <2>8. ASSUME NEW b \in Batches, SubmitReturns(w, b) \/ SubmitRaises(w, b)
        PROVE  MerkleTypes'
    <3> PICK t \in Nat : t = sent[b] + 1
      OBVIOUS
    <3>1. /\ sent' = sent \/ sent' = [sent EXCEPT ![b] = t]
          /\ txid' = txid \/ txid' = [txid EXCEPT ![w] = t]
          /\ pc' = [pc EXCEPT ![w] = "mark_anchored"] \/ pc' = [pc EXCEPT ![w] = "mark_failed"]
          /\ UNCHANGED <<receipts, batches, members, stale, todo, crashes>>
      <4> HIDE DEF MerkleTypes, TypeOK, PCs
      <4> QED
        BY <2>8 DEF SubmitReturns, SubmitRaises
    <3>2. sent' \in [Batches -> Nat]
      BY <3>1
    <3>3. txid' \in [Workers -> Nat]
      BY <3>1
    <3>4. /\ pc' \in [Workers -> PCs]
          /\ \A v \in Workers : pc'[v] \in {"idle", "groups", "build"} => pc'[v] = pc[v]
      BY <3>1
    <3> QED
      BY <2>0, <3>1, <3>2, <3>3, <3>4
  <2>9. ASSUME NEW b \in Batches,
               NextRefused(w, b) \/ MarkStarted(w, b) \/ MarkAnchored(w, b) \/ MarkFailed(w, b)
        PROVE  MerkleTypes'
    <3>1. PICK row \in BatchRow : batches' = [batches EXCEPT ![b] = row] /\ row.status # "missing"
      BY <2>9, MerkleUpdates
    <3>2. /\ batches' \in [Batches -> BatchRow]
          /\ \A c \in Batches : batches[c].status # "missing" => batches'[c].status # "missing"
      BY <3>1
    <3>3. todo' = todo \/ todo' = [todo EXCEPT ![w].ids = @ \ {b}]
      BY <2>9, MerkleUpdates
    <3>4. /\ todo' \in [Workers -> [nets : SUBSET Networks, ids : SUBSET Batches]]
          /\ \A v \in Workers : todo'[v].ids \subseteq todo[v].ids
      <4>1. CASE todo' = todo
        BY <4>1
      <4>2. CASE todo' = [todo EXCEPT ![w].ids = @ \ {b}]
        <5> HIDE DEF MerkleTypes, TypeOK, PCs
        <5>1. /\ todo' \in [Workers -> [nets : SUBSET Networks, ids : SUBSET Batches]]
              /\ \A v \in Workers : todo'[v].ids = IF v = w THEN todo[w].ids \ {b} ELSE todo[v].ids
          BY <4>2, MerkleHeadDropped
        <5> QED
          BY <5>1
      <4> QED
        BY <3>3, <4>1, <4>2
    <3>7. pc' = pc \/ \E p \in PCs \ {"idle", "groups", "build"} : pc' = [pc EXCEPT ![w] = p]
      BY <2>9, MerkleUpdates
    <3>5. /\ pc' \in [Workers -> PCs]
          /\ \A v \in Workers : pc'[v] \in {"idle", "groups", "build"} => pc'[v] = pc[v]
      BY <3>7
    <3>6. UNCHANGED <<receipts, members, sent, txid, crashes>> /\ stale' = stale \ {b}
      BY <2>9, MerkleUpdates
    <3> QED
      BY <2>0, <3>2, <3>4, <3>5, <3>6
  <2>10. ASSUME NEW b \in Batches, SetReceiptTxids(w, b)
         PROVE  MerkleTypes'
    <3>1. todo' = [todo EXCEPT ![w].ids = @ \ {b}]
      BY <2>10, MerkleReceiptsSet
    <3>2. /\ todo' \in [Workers -> [nets : SUBSET Networks, ids : SUBSET Batches]]
          /\ \A v \in Workers : todo'[v].ids \subseteq todo[v].ids
      BY <3>1, MerkleHeadDropped
    <3>6. pc' = [pc EXCEPT ![w] = "next"] /\ txid' = [txid EXCEPT ![w] = Pending]
      BY <2>10, MerkleReceiptsSet
    <3>3. pc' \in [Workers -> PCs] /\ txid' \in [Workers -> Nat]
      BY <3>6 DEF Pending
    <3>4. receipts' \in [Receipts -> ReceiptRow] /\ UNCHANGED <<batches, members, stale, sent, crashes>>
      BY <2>10, MerkleReceiptsSet
    <3>5. \A v \in Workers : pc'[v] = pc[v] \/ pc'[v] = "next"
      BY <3>6
    <3> QED
      BY <2>0, <3>2, <3>3, <3>4, <3>5
  <2> QED
    BY <1>4, <2>1, <2>2, <2>3, <2>4, <2>5, <2>6, <2>7, <2>8, <2>9, <2>10 DEF Cycle
<1>5. CASE UNCHANGED vars
  BY <1>5 DEF vars
<1> QED
  BY <1>1, <1>2, <1>3, <1>4, <1>5 DEF Next

-----------------------------------------------------------------------------
(* The two records of membership.                                             *)

\* Steps that leave the members, the stamps and the networks of built batches.
LEMMA MerkleMembershipLeft ==
  ASSUME MerkleTypes, MembershipAgrees, members' = members,
         \A r \in Receipts : /\ receipts'[r].batch = receipts[r].batch
                             /\ receipts[r].exists => receipts'[r].exists,
         \A b \in Batches :
            /\ batches'[b].status = "missing" <=> batches[b].status = "missing"
            /\ batches[b].status # "missing" => batches'[b].network = batches[b].network
  PROVE  MembershipAgrees'
<1>1. ASSUME NEW b \in Batches
      PROVE  members[b] \subseteq Receipts
  BY DEF MerkleTypes, TypeOK
<1>2. ASSUME NEW b \in Batches
      PROVE  /\ \A r \in Receipts : receipts'[r].batch = b <=> r \in members'[b]
             /\ batches'[b].status # "missing" <=> members'[b] # {}
             /\ Cardinality(members'[b]) <= BatchLimit
             /\ \A r \in members'[b] : receipts'[r].exists /\ {r[1]} = batches'[b].network
  <2>1. /\ \A r \in Receipts : receipts[r].batch = b <=> r \in members[b]
        /\ batches[b].status # "missing" <=> members[b] # {}
        /\ Cardinality(members[b]) <= BatchLimit
        /\ \A r \in members[b] : receipts[r].exists /\ {r[1]} = batches[b].network
    BY DEF MembershipAgrees
  <2>2. members'[b] = members[b]
    OBVIOUS
  <2>3. members[b] # {} => batches'[b].network = batches[b].network
    BY <2>1
  <2>4. ASSUME NEW r \in Receipts
        PROVE  receipts'[r].batch = b <=> r \in members'[b]
    <3>1. receipts'[r].batch = receipts[r].batch
      OBVIOUS
    <3>2. receipts[r].batch = b <=> r \in members[b]
      BY <2>1
    <3> QED
      BY <2>2, <3>1, <3>2
  <2>5. batches'[b].status # "missing" <=> members'[b] # {}
    BY <2>1, <2>2
  <2>6. ASSUME NEW r \in members'[b]
        PROVE  receipts'[r].exists /\ {r[1]} = batches'[b].network
    <3>1. r \in members[b] /\ r \in Receipts
      BY <1>1, <2>2
    <3>2. receipts[r].exists => receipts'[r].exists
      BY <3>1
    <3> QED
      BY <2>1, <2>3, <3>1, <3>2
  <2>7. Cardinality(members'[b]) <= BatchLimit
    BY <2>1, <2>2
  <2> QED
    BY <2>4, <2>5, <2>6, <2>7
<1> QED
  BY <1>2 DEF MembershipAgrees

\* Every step keeps the two records in agreement.
LEMMA MerkleMembershipKept ==
  ASSUME MerkleTypes, MembershipAgrees, [Next]_vars
  PROVE  MembershipAgrees'
<1>1. ASSUME NEW s \in Receipts, CreateReceipt(s)
      PROVE  MembershipAgrees'
  <2>1. /\ members' = members /\ batches' = batches
        /\ \A r \in Receipts : /\ receipts'[r].batch = receipts[r].batch
                               /\ receipts[r].exists => receipts'[r].exists
    BY <1>1, MerkleReceiptCreated
  <2> QED
    BY <2>1, MerkleMembershipLeft
<1>2. ASSUME NEW w \in Workers, StartCycle(w)
      PROVE  MembershipAgrees'
  <2>1. batches' = Recovered /\ members' = members /\ receipts' = receipts
    BY <1>2 DEF StartCycle
  <2>2. \A b \in Batches :
            /\ batches'[b].status = "missing" <=> batches[b].status = "missing"
            /\ batches'[b].network = batches[b].network
    BY <2>1, MerkleRecovered DEF MerkleTypes
  <2> QED
    BY <2>1, <2>2, MerkleMembershipLeft
<1>3. ASSUME NEW w \in Workers, NEW b \in Batches,
             NextRefused(w, b) \/ MarkStarted(w, b) \/ MarkAnchored(w, b) \/ MarkFailed(w, b)
      PROVE  MembershipAgrees'
  <2>1. PICK row \in BatchRow :
            /\ batches' = [batches EXCEPT ![b] = row]
            /\ row.network = batches[b].network
            /\ row.status # "missing"
    BY <1>3, MerkleUpdates
  <2>2. batches[b].status # "missing"
    BY <1>3, MerkleUpdates DEF Current, MerkleTypes
  <2>3. \A c \in Batches :
            /\ batches'[c].status = "missing" <=> batches[c].status = "missing"
            /\ batches'[c].network = batches[c].network
    BY <2>1, <2>2 DEF MerkleTypes, TypeOK
  <2>4. members' = members /\ receipts' = receipts
    BY <1>3, MerkleUpdates
  <2> QED
    BY <2>3, <2>4, MerkleMembershipLeft
<1>4. ASSUME NEW w \in Workers, NEW b \in Batches, SetReceiptTxids(w, b)
      PROVE  MembershipAgrees'
  BY <1>4, MerkleReceiptsSet, MerkleMembershipLeft
<1>5. ASSUME NEW w \in Workers, NEW net \in Networks, BuildBatch(w, net)
      PROVE  MembershipAgrees'
  <2>1. PICK b \in Batches, rows \in SUBSET Receipts, row \in BatchRow : MerkleBuilds(net, b, rows, row)
    BY <1>5, MerkleBuilt
  <2>2. /\ rows # {} /\ Cardinality(rows) <= BatchLimit
        /\ \A r \in rows : r[1] = net /\ receipts[r].exists /\ receipts[r].batch = NoBatch
    <3>1. Selection(net, rows) /\ BatchLimit \in Nat
      BY <2>1, ConstantsAssumption DEF MerkleBuilds
    <3>2. rows \subseteq Unbatched(net) /\ rows # {}
      BY <3>1 DEF Selection
    <3>3. Cardinality(rows) <= BatchLimit
      BY <3>1 DEF Selection
    <3> QED
      BY <3>2, <3>3 DEF Unbatched
  <2>3. members[b] = {} /\ \A r \in Receipts : receipts[r].batch # b
    BY <2>1 DEF MembershipAgrees, MerkleBuilds, MerkleTypes, TypeOK
  <2>4. /\ members'[b] = rows /\ batches'[b].status = "pending" /\ batches'[b].network = {net}
        /\ \A c \in Batches \ {b} : members'[c] = members[c] /\ batches'[c] = batches[c]
        /\ \A r \in Receipts :
            /\ receipts'[r].exists = receipts[r].exists
            /\ receipts'[r].batch = IF r \in rows THEN b ELSE receipts[r].batch
    BY <2>1 DEF MerkleBuilds, MerkleTypes, TypeOK
  <2>5. NoBatch \notin Batches
    BY DEF NoBatch, Batches
  <2>6. ASSUME NEW c \in Batches
        PROVE  /\ \A r \in Receipts : receipts'[r].batch = c <=> r \in members'[c]
               /\ batches'[c].status # "missing" <=> members'[c] # {}
               /\ Cardinality(members'[c]) <= BatchLimit
               /\ \A r \in members'[c] : receipts'[r].exists /\ {r[1]} = batches'[c].network
    <3>1. members[c] \subseteq Receipts
      BY DEF MerkleTypes, TypeOK
    <3>2. CASE c = b
      BY <2>2, <2>3, <2>4, <3>1, <3>2
    <3>3. CASE c # b
      <4>1. members'[c] = members[c] /\ batches'[c] = batches[c]
        BY <2>4, <3>3
      <4>2. /\ \A r \in Receipts : receipts[r].batch = c <=> r \in members[c]
            /\ batches[c].status # "missing" <=> members[c] # {}
            /\ Cardinality(members[c]) <= BatchLimit
            /\ \A r \in members[c] : receipts[r].exists /\ {r[1]} = batches[c].network
        BY DEF MembershipAgrees
      <4>3. \A r \in Receipts : receipts'[r].batch = c <=> receipts[r].batch = c
        BY <2>2, <2>4, <2>5, <3>3
      <4>4. \A r \in members[c] : receipts'[r].exists
        BY <2>4, <3>1, <4>2
      <4> QED
        BY <4>1, <4>2, <4>3, <4>4
    <3> QED
      BY <3>2, <3>3
  <2> QED
    BY <2>6 DEF MembershipAgrees
<1>6. ASSUME UNCHANGED <<receipts, batches, members>>
      PROVE  MembershipAgrees'
  BY <1>6 DEF MembershipAgrees
<1>7. ASSUME NEW w \in Workers, Cycle(w)
      PROVE  \/ \E b \in Batches :
                    \/ NextRefused(w, b) \/ MarkStarted(w, b) \/ MarkAnchored(w, b) \/ MarkFailed(w, b)
                    \/ SetReceiptTxids(w, b)
             \/ StartCycle(w) \/ \E net \in Networks : BuildBatch(w, net)
             \/ UNCHANGED <<receipts, batches, members>>
  BY <1>7 DEF Cycle, ListGroups, ListPending, EndCycle, UpdateRaises, BuildNothing, SubmitReturns,
              SubmitRaises, tables
<1>8. ASSUME NEW w \in Workers, Cycle(w)
      PROVE  MembershipAgrees'
  BY <1>2, <1>3, <1>4, <1>5, <1>6, <1>7, <1>8
<1>9. ASSUME NEW w \in Workers, Crash(w)
      PROVE  MembershipAgrees'
  BY <1>6, <1>9 DEF Crash, tables
<1>10. ASSUME NEW b \in Batches, Age(b)
       PROVE  MembershipAgrees'
  BY <1>6, <1>10 DEF Age
<1>11. CASE UNCHANGED vars
  BY <1>6, <1>11 DEF vars
<1> QED
  BY <1>1, <1>8, <1>9, <1>10, <1>11 DEF Next

-----------------------------------------------------------------------------
(* Where the transactions of receipts come from.                              *)

\* No step takes a broadcast back.
LEMMA MerkleSentGrows ==
  ASSUME MerkleTypes, [Next]_vars
  PROVE  \A b \in Batches : sent[b] \in Nat /\ sent'[b] \in Nat /\ sent[b] <= sent'[b]
<1> USE DEF MerkleTypes, TypeOK
<1>1. ASSUME NEW w \in Workers, NEW b \in Batches, SubmitReturns(w, b) \/ SubmitRaises(w, b)
      PROVE  sent' = sent \/ sent' = [sent EXCEPT ![b] = @ + 1]
  BY <1>1 DEF SubmitReturns, SubmitRaises
<1>2. ASSUME NEW w \in Workers, Cycle(w),
             ~ \E b \in Batches : SubmitReturns(w, b) \/ SubmitRaises(w, b)
      PROVE  sent' = sent
  <2>1. ASSUME NEW net \in Networks, BuildBatch(w, net)
        PROVE  sent' = sent
    BY <2>1, MerkleBuilt
  <2>2. ASSUME NEW b \in Batches,
               \/ NextRefused(w, b) \/ MarkStarted(w, b) \/ MarkAnchored(w, b) \/ MarkFailed(w, b)
               \/ SetReceiptTxids(w, b)
        PROVE  sent' = sent
    BY <2>2, MerkleUpdates, MerkleReceiptsSet
  <2>3. StartCycle(w) \/ ListGroups(w) \/ ListPending(w) \/ EndCycle(w) \/ UpdateRaises(w)
            \/ (\E net \in Networks : BuildNothing(w, net)) => sent' = sent
    BY DEF StartCycle, ListGroups, ListPending, EndCycle, UpdateRaises, BuildNothing, tables
  <2> QED
    BY <1>2, <2>1, <2>2, <2>3 DEF Cycle
<1>3. ASSUME NEW w \in Workers, Crash(w)
      PROVE  sent' = sent
  BY <1>3 DEF Crash, tables
<1>4. ASSUME NEW b \in Batches, Age(b)
      PROVE  sent' = sent
  BY <1>4 DEF Age
<1>5. ASSUME NEW s \in Receipts, CreateReceipt(s)
      PROVE  sent' = sent
  BY <1>5 DEF CreateReceipt
<1>6. sent' = sent \/ \E b \in Batches : sent' = [sent EXCEPT ![b] = @ + 1]
  BY <1>1, <1>2, <1>3, <1>4, <1>5 DEF Next, vars
<1> QED
  BY <1>6

\* What a step of worker w does to its own place, list and transaction.
MerklePlace(w) ==
    \/ pc'[w] \notin {"mark_anchored", "set_receipts"}
    \/ /\ pc[w] \in {"mark_anchored", "set_receipts"}
       /\ todo'[w].ids = todo[w].ids /\ txid'[w] = txid[w]
    \/ \E b \in Batches : SubmitReturns(w, b)

\* A worker leaves the place, the list and the transaction of the others alone.
LEMMA MerkleOthers ==
  ASSUME MerkleTypes, NEW v \in Workers, NEW w \in Workers, Cycle(w) \/ Crash(w), v # w
  PROVE  pc'[v] = pc[v] /\ todo'[v].ids = todo[v].ids /\ txid'[v] = txid[v]
<1> USE DEF MerkleTypes, TypeOK
<1>1. ASSUME NEW net \in Networks, BuildBatch(w, net)
      PROVE  pc'[v] = pc[v] /\ todo'[v].ids = todo[v].ids /\ txid'[v] = txid[v]
  BY <1>1, MerkleBuilt
<1>2. ASSUME NEW b \in Batches,
             NextRefused(w, b) \/ MarkStarted(w, b) \/ MarkAnchored(w, b) \/ MarkFailed(w, b)
      PROVE  pc'[v] = pc[v] /\ todo'[v].ids = todo[v].ids /\ txid'[v] = txid[v]
  BY <1>2 DEF NextRefused, MarkStarted, MarkAnchored, MarkFailed
<1>3. ASSUME NEW b \in Batches, SetReceiptTxids(w, b)
      PROVE  pc'[v] = pc[v] /\ todo'[v].ids = todo[v].ids /\ txid'[v] = txid[v]
  BY <1>3, MerkleReceiptsSet
<1>4. ASSUME NEW b \in Batches, SubmitReturns(w, b) \/ SubmitRaises(w, b)
      PROVE  pc'[v] = pc[v] /\ todo'[v].ids = todo[v].ids /\ txid'[v] = txid[v]
  BY <1>4 DEF SubmitReturns, SubmitRaises
<1>5. ASSUME StartCycle(w) \/ ListGroups(w) \/ ListPending(w) \/ EndCycle(w) \/ UpdateRaises(w)
             \/ Crash(w)
      PROVE  pc'[v] = pc[v] /\ todo'[v].ids = todo[v].ids /\ txid'[v] = txid[v]
  BY <1>5 DEF StartCycle, ListGroups, ListPending, EndCycle, UpdateRaises, Crash
<1>6. ASSUME NEW net \in Networks, BuildNothing(w, net)
      PROVE  pc'[v] = pc[v] /\ todo'[v].ids = todo[v].ids /\ txid'[v] = txid[v]
  BY <1>6 DEF BuildNothing
<1> QED
  BY <1>1, <1>2, <1>3, <1>4, <1>5, <1>6 DEF Cycle

\* Only a broadcast that returned brings a worker to the writing of its
\* transaction, and the other workers keep theirs.
LEMMA MerklePlaces ==
  ASSUME MerkleTypes, [Next]_vars, NEW v \in Workers
  PROVE  MerklePlace(v)
<1> USE DEF MerklePlace
<1>2. ASSUME Cycle(v) \/ Crash(v)
      PROVE  MerklePlace(v)
  <2> USE DEF MerkleTypes, TypeOK
  <2>1. ASSUME NEW net \in Networks, BuildBatch(v, net)
        PROVE  MerklePlace(v)
    BY <2>1, MerkleBuilt
  <2>2. ASSUME NEW b \in Batches,
               NextRefused(v, b) \/ MarkStarted(v, b) \/ MarkAnchored(v, b) \/ MarkFailed(v, b)
        PROVE  MerklePlace(v)
    BY <2>2 DEF NextRefused, MarkStarted, MarkAnchored, MarkFailed
  <2>3. ASSUME NEW b \in Batches, SetReceiptTxids(v, b)
        PROVE  MerklePlace(v)
    BY <2>3, MerkleReceiptsSet
  <2>4. ASSUME NEW b \in Batches, SubmitRaises(v, b)
        PROVE  MerklePlace(v)
    BY <2>4 DEF SubmitRaises
  <2>5. ASSUME StartCycle(v) \/ ListGroups(v) \/ ListPending(v) \/ EndCycle(v) \/ UpdateRaises(v)
               \/ Crash(v)
        PROVE  MerklePlace(v)
    BY <2>5 DEF StartCycle, ListGroups, ListPending, EndCycle, UpdateRaises, Crash
  <2>6. ASSUME NEW net \in Networks, BuildNothing(v, net)
        PROVE  MerklePlace(v)
    BY <2>6 DEF BuildNothing
  <2> QED
    BY <1>2, <2>1, <2>2, <2>3, <2>4, <2>5, <2>6 DEF Cycle
<1>3. ASSUME UNCHANGED <<pc, todo, txid>>
      PROVE  MerklePlace(v)
  BY <1>3
<1>4. ASSUME NEW w \in Workers, w # v, Cycle(w) \/ Crash(w)
      PROVE  MerklePlace(v)
  BY <1>4, MerkleOthers
<1>5. (\E s \in Receipts : CreateReceipt(s)) \/ (\E b \in Batches : Age(b)) \/ UNCHANGED vars
        => UNCHANGED <<pc, todo, txid>>
  BY DEF CreateReceipt, Age, vars
<1> HIDE DEF MerklePlace
<1> QED
  BY <1>2, <1>3, <1>4, <1>5 DEF Next

\* The transaction in hand keeps being one of the batch in hand.
LEMMA MerkleTxidsKept ==
  ASSUME MerkleTypes, MerkleTxids, [Next]_vars
  PROVE  MerkleTxids'
<1> SUFFICES ASSUME NEW w \in Workers, NEW b \in Batches,
                    pc'[w] \in {"mark_anchored", "set_receipts"}, Current(w, b)'
             PROVE  txid'[w] \in 1 .. sent'[b]
  BY DEF MerkleTxids
<1>1. sent[b] \in Nat /\ sent'[b] \in Nat /\ sent[b] <= sent'[b]
  BY MerkleSentGrows
<1>2. ASSUME pc[w] \in {"mark_anchored", "set_receipts"},
             todo'[w].ids = todo[w].ids, txid'[w] = txid[w]
      PROVE  txid'[w] \in 1 .. sent'[b]
  <2>1. Current(w, b)
    BY <1>2 DEF Current
  <2>2. txid[w] \in 1 .. sent[b]
    BY <1>2, <2>1 DEF MerkleTxids
  <2> QED
    BY <1>1, <1>2, <2>2
<1>3. ASSUME NEW c \in Batches, SubmitReturns(w, c)
      PROVE  txid'[w] \in 1 .. sent'[b]
  <2>1. b \in Nat /\ c \in Nat /\ \A d \in todo[w].ids : d \in Nat
    BY DEF Batches, MerkleTypes, TypeOK
  <2>2. b = c
    BY <1>3, <2>1 DEF SubmitReturns, Current
  <2>3. txid'[w] = sent[c] + 1 /\ sent'[c] = sent[c] + 1
    BY <1>3 DEF SubmitReturns, MerkleTypes, TypeOK
  <2> QED
    BY <1>1, <2>2, <2>3
<1> QED
  BY <1>2, <1>3, MerklePlaces DEF MerklePlace

\* A receipt keeps naming a transaction of its batch: the stamp of a receipt
\* that has a transaction is never changed.
LEMMA MerkleReceiptsKept ==
  ASSUME MerkleTypes, MembershipAgrees, MerkleTxids, ReceiptTxidFromBatch, [Next]_vars
  PROVE  ReceiptTxidFromBatch'
<1> SUFFICES ASSUME NEW r \in Receipts, receipts'[r].txid # Pending
             PROVE  \E b \in Batches : receipts'[r].batch = b /\ receipts'[r].txid \in 1 .. sent'[b]
  BY DEF ReceiptTxidFromBatch
<1>1. \A b \in Batches : sent[b] \in Nat /\ sent'[b] \in Nat /\ sent[b] <= sent'[b]
  BY MerkleSentGrows
<1>2. ASSUME receipts'[r].txid = receipts[r].txid,
             receipts[r].batch \in Batches => receipts'[r].batch = receipts[r].batch
      PROVE  \E b \in Batches : receipts'[r].batch = b /\ receipts'[r].txid \in 1 .. sent'[b]
  <2>1. PICK b \in Batches : receipts[r].batch = b /\ receipts[r].txid \in 1 .. sent[b]
    BY <1>2 DEF ReceiptTxidFromBatch
  <2>2. receipts'[r].txid \in 1 .. sent'[b]
    BY <1>1, <1>2, <2>1
  <2> QED
    BY <1>2, <2>1, <2>2
<1>3. ASSUME NEW s \in Receipts, CreateReceipt(s)
      PROVE  \E b \in Batches : receipts'[r].batch = b /\ receipts'[r].txid \in 1 .. sent'[b]
  <2>1. receipts'[r].batch = receipts[r].batch /\ receipts'[r].txid = receipts[r].txid
    BY <1>3, MerkleReceiptCreated
  <2> QED
    BY <1>2, <2>1
<1>4. ASSUME NEW w \in Workers, NEW net \in Networks, BuildBatch(w, net)
      PROVE  \E b \in Batches : receipts'[r].batch = b /\ receipts'[r].txid \in 1 .. sent'[b]
  <2>1. PICK b \in Batches, rows \in SUBSET Receipts, row \in BatchRow : MerkleBuilds(net, b, rows, row)
    BY <1>4, MerkleBuilt
  <2>2. \A q \in rows : receipts[q].batch = NoBatch
    BY <2>1 DEF MerkleBuilds, Selection, Unbatched
  <2>3. NoBatch \notin Batches
    BY DEF NoBatch, Batches
  <2>4. receipts'[r].txid = receipts[r].txid
        /\ receipts'[r].batch = IF r \in rows THEN b ELSE receipts[r].batch
    BY <2>1 DEF MerkleBuilds
  <2> QED
    BY <1>2, <2>2, <2>3, <2>4
<1>5. ASSUME NEW w \in Workers, NEW b \in Batches, SetReceiptTxids(w, b)
      PROVE  \E c \in Batches : receipts'[r].batch = c /\ receipts'[r].txid \in 1 .. sent'[c]
  <2>1. receipts'[r].batch = receipts[r].batch
        /\ receipts'[r].txid = IF r \in members[b] THEN txid[w] ELSE receipts[r].txid
    BY <1>5, MerkleReceiptsSet
  <2>2. CASE r \notin members[b]
    BY <1>2, <2>1, <2>2
  <2>3. CASE r \in members[b]
    <3>1. receipts[r].batch = b
      BY <2>3 DEF MembershipAgrees
    <3>2. pc[w] = "set_receipts" /\ Current(w, b)
      BY <1>5, MerkleReceiptsSet
    <3>3. txid[w] \in 1 .. sent[b]
      BY <3>2 DEF MerkleTxids
    <3>4. txid[w] \in 1 .. sent'[b]
      BY <1>1, <3>3
    <3> QED
      BY <2>1, <2>3, <3>1, <3>4
  <2> QED
    BY <2>2, <2>3
<1>6. ASSUME receipts' = receipts
      PROVE  \E b \in Batches : receipts'[r].batch = b /\ receipts'[r].txid \in 1 .. sent'[b]
  BY <1>2, <1>6
<1>7. ASSUME NEW w \in Workers, NEW b \in Batches,
             NextRefused(w, b) \/ MarkStarted(w, b) \/ MarkAnchored(w, b) \/ MarkFailed(w, b)
      PROVE  receipts' = receipts
  BY <1>7, MerkleUpdates
<1>8. ASSUME NEW w \in Workers, Cycle(w)
      PROVE  \/ receipts' = receipts
             \/ \E net \in Networks : BuildBatch(w, net)
             \/ \E b \in Batches : SetReceiptTxids(w, b)
  BY <1>7, <1>8 DEF Cycle, StartCycle, ListGroups, ListPending, EndCycle, UpdateRaises, BuildNothing,
              SubmitReturns, SubmitRaises, tables
<1>9. \/ receipts' = receipts
      \/ \E s \in Receipts : CreateReceipt(s)
      \/ \E w \in Workers, net \in Networks : BuildBatch(w, net)
      \/ \E w \in Workers, b \in Batches : SetReceiptTxids(w, b)
  BY <1>8 DEF Next, Crash, Age, tables, vars
<1> QED
  BY <1>3, <1>4, <1>5, <1>6, <1>9

-----------------------------------------------------------------------------
(* Cycles that do not overlap.                                                *)

\* A finite set with at most one element has no two.
LEMMA MerkleAtMostOne ==
  ASSUME NEW S, IsFiniteSet(S), ~(Cardinality(S) > 1), NEW x \in S, NEW y \in S
  PROVE  x = y
<1> SUFFICES ASSUME x # y
             PROVE  FALSE
  OBVIOUS
<1>1. Cardinality(S) \in Nat
  BY FS_CardinalityType
<1>2. IsFiniteSet(S \ {x}) /\ Cardinality(S \ {x}) = Cardinality(S) - 1
  BY FS_RemoveElement
<1>3. IsFiniteSet((S \ {x}) \ {y}) /\ Cardinality((S \ {x}) \ {y}) = Cardinality(S \ {x}) - 1
  BY <1>2, FS_RemoveElement
<1>4. Cardinality((S \ {x}) \ {y}) \in Nat
  BY <1>3, FS_CardinalityType
<1> QED
  BY <1>1, <1>2, <1>3, <1>4

\* As long as the history says so, one cycle at most is under way.
LEMMA MerkleAloneKept ==
  ASSUME MerkleTypes, overlapped \/ MerkleAlone, [Next]_vars, ~overlapped'
  PROVE  ~overlapped /\ MerkleAlone /\ MerkleAlone'
<1>1. ASSUME NEW w \in Workers, Cycle(w)
      PROVE  ~overlapped /\ MerkleAlone /\ MerkleAlone'
  <2>1. ~overlapped /\ ~(Cardinality({v \in Workers : pc'[v] # "idle"}) > 1)
    BY <1>1 DEF Cycle
  <2>2. IsFiniteSet({v \in Workers : pc'[v] # "idle"})
    BY FS_Subset, ConstantsAssumption
  <2>3. \A u, v \in {x \in Workers : pc'[x] # "idle"} : u = v
    BY <2>1, <2>2, MerkleAtMostOne
  <2> QED
    BY <2>1, <2>3 DEF MerkleAlone
<1>2. ASSUME NEW w \in Workers, Crash(w)
      PROVE  ~overlapped /\ MerkleAlone /\ MerkleAlone'
  BY <1>2 DEF Crash, MerkleAlone, MerkleTypes, TypeOK
<1>3. (\E s \in Receipts : CreateReceipt(s)) \/ (\E b \in Batches : Age(b)) \/ UNCHANGED vars
        => ~overlapped /\ MerkleAlone /\ MerkleAlone'
  BY DEF CreateReceipt, Age, vars, MerkleAlone
<1> QED
  BY <1>1, <1>2, <1>3 DEF Next

\* A step of the only cycle: the other workers are idle and list nothing.
LEMMA MerkleOnly ==
  ASSUME MerkleTypes, MerkleTypes', MerkleAlone, MerkleAlone', NEW w \in Workers, Cycle(w),
         NEW v \in Workers, v # w
  PROVE  pc[v] = "idle" /\ pc'[v] = "idle" /\ todo[v].ids = {} /\ todo'[v].ids = {}
<1>1. pc'[v] = pc[v]
  BY MerkleOthers
<1>2. ASSUME pc[w] = "idle"
      PROVE  pc'[w] = "groups"
  <2>1. ASSUME NEW net \in Networks
        PROVE  ~BuildBatch(w, net)
    BY <1>2 DEF BuildBatch
  <2>2. StartCycle(w)
    BY <1>2, <2>1 DEF Cycle, ListGroups, ListPending, EndCycle, UpdateRaises, BuildNothing, NextRefused,
              MarkStarted, SubmitReturns, SubmitRaises, MarkAnchored, SetReceiptTxids, MarkFailed
  <2> QED
    BY <2>2 DEF StartCycle, MerkleTypes, TypeOK
<1>3. pc[w] # "idle" \/ pc'[w] # "idle"
  BY <1>2
<1>4. pc[v] = "idle"
  BY <1>1, <1>3 DEF MerkleAlone
<1> QED
  BY <1>1, <1>4 DEF MerkleTypes

\* Which of the batches is at the head is settled.
LEMMA MerkleHead ==
  ASSUME MerkleTypes, NEW w \in Workers, NEW b \in Batches, NEW c \in Batches,
         Current(w, b), Current(w, c)
  PROVE  b = c
<1>1. b \in Nat /\ c \in Nat
  BY DEF Batches
<1> QED
  BY <1>1 DEF Current

\* In a step of the only cycle the worker alone may have broadcast a batch.
LEMMA MerkleSpentOnly ==
  ASSUME MerkleTypes, MerkleTypes', MerkleAlone, MerkleAlone', NEW w \in Workers, Cycle(w),
         NEW b \in Batches
  PROVE  /\ MerkleSpent(b) <=> pc[w] \in MerkleHandling \ {"submit"} /\ Current(w, b)
         /\ MerkleSpent(b)' <=> pc'[w] \in MerkleHandling \ {"submit"} /\ Current(w, b)'
<1>1. \A v \in Workers \ {w} : pc[v] = "idle" /\ pc'[v] = "idle"
  BY MerkleOnly
<1> QED
  BY <1>1 DEF MerkleSpent, MerkleHandling

\* The list of the only cycle stays in order through each of its steps.
LEMMA MerkleListKept ==
  ASSUME MerkleInv, MerkleTypes', MerkleAlone, MerkleAlone', NEW w \in Workers, Cycle(w),
         \A b \in todo[w].ids : MerkleListOk(w, b)
  PROVE  \A v \in Workers : \A b \in todo'[v].ids : MerkleListOk(v, b)'
<1> SUFFICES ASSUME NEW c \in todo'[w].ids
             PROVE  MerkleListOk(w, c)'
  <2>1. ASSUME NEW v \in Workers, v # w
        PROVE  todo'[v].ids = {}
    BY <2>1, MerkleOnly DEF MerkleInv
  <2> QED
    BY <2>1
<1>0. MerkleTypes /\ MerkleTxids /\ c \in Batches
  BY DEF MerkleInv, MerkleTypes, TypeOK
<1>1. ASSUME c \in todo[w].ids, batches'[c].txid = Pending, pc'[w] = "next"
      PROVE  MerkleListOk(w, c)'
  BY <1>1 DEF MerkleListOk, MerkleHandling
<1>2. ASSUME pc'[w] \in {"idle", "groups", "build"}
      PROVE  MerkleListOk(w, c)'
  BY <1>2 DEF MerkleTypes
<1>3. ASSUME StartCycle(w) \/ ListGroups(w)
      PROVE  MerkleListOk(w, c)'
  BY <1>0, <1>2, <1>3 DEF StartCycle, ListGroups, MerkleTypes, TypeOK
<1>4. ASSUME NEW net \in Networks, BuildBatch(w, net) \/ BuildNothing(w, net)
      PROVE  MerkleListOk(w, c)'
  <2>1. pc'[w] = "build"
    BY <1>0, <1>4, MerkleBuilt DEF BuildNothing
  <2> QED
    BY <1>2, <2>1
<1>5. ASSUME ListPending(w)
      PROVE  MerkleListOk(w, c)'
  <2>1. c \in PendingBatches /\ batches' = batches /\ pc'[w] = "next"
    BY <1>0, <1>5 DEF ListPending, tables, MerkleTypes, TypeOK
  <2>2. batches'[c].txid = Pending
    BY <2>1 DEF PendingBatches, Listable
  <2> QED
    BY <2>1, <2>2 DEF MerkleListOk, MerkleHandling
<1>6. ASSUME EndCycle(w)
      PROVE  MerkleListOk(w, c)'
  BY <1>6 DEF EndCycle
<1>7. ASSUME UpdateRaises(w)
      PROVE  MerkleListOk(w, c)'
  <2>1. /\ pc[w] \in {"mark_anchored", "set_receipts"} /\ pc'[w] = "mark_failed"
        /\ todo' = todo /\ batches' = batches
    BY <1>0, <1>7 DEF UpdateRaises, tables, MerkleTypes, TypeOK
  <2>2. MerkleListOk(w, c) /\ (Current(w, c)' <=> Current(w, c))
    BY <2>1 DEF Current
  <2> QED
    BY <2>1, <2>2 DEF MerkleListOk, MerkleHandling
<1>8. ASSUME NEW b \in Batches, SubmitReturns(w, b) \/ SubmitRaises(w, b)
      PROVE  MerkleListOk(w, c)'
  <2>1. /\ pc[w] = "submit" /\ pc'[w] \in {"mark_anchored", "mark_failed"}
        /\ todo' = todo /\ batches' = batches
    BY <1>0, <1>8 DEF SubmitReturns, SubmitRaises, MerkleTypes, TypeOK
  <2>2. MerkleListOk(w, c) /\ (Current(w, c)' <=> Current(w, c))
    BY <2>1 DEF Current
  <2> QED
    BY <2>1, <2>2 DEF MerkleListOk, MerkleHandling
<1>9. ASSUME NEW b \in Batches, NextRefused(w, b) \/ MarkFailed(w, b)
      PROVE  MerkleListOk(w, c)'
  <2>1. PICK row \in BatchRow : batches' = [batches EXCEPT ![b] = row]
    BY <1>0, <1>9, MerkleUpdates
  <2>2. todo' = [todo EXCEPT ![w].ids = @ \ {b}] /\ Current(w, b)
    BY <1>9 DEF NextRefused, MarkFailed
  <2>3. c \in todo[w].ids /\ c # b
    <3>1. todo'[w].ids = todo[w].ids \ {b}
      BY <1>0, <2>2, MerkleHeadDropped
    <3> QED
      BY <3>1
  <2>4. ~Current(w, c)
    BY <1>0, <2>2, <2>3, MerkleHead
  <2>5. batches[c].txid = Pending
    BY <2>3, <2>4 DEF MerkleListOk
  <2>6. batches'[c] = batches[c]
    BY <1>0, <2>1, <2>3 DEF MerkleTypes, TypeOK
  <2>7. pc'[w] = "next"
    BY <1>0, <1>9 DEF NextRefused, MarkFailed, MerkleTypes, TypeOK
  <2> QED
    BY <1>1, <2>3, <2>5, <2>6, <2>7
<1>10. ASSUME NEW b \in Batches, SetReceiptTxids(w, b)
       PROVE  MerkleListOk(w, c)'
  <2>1. /\ todo' = [todo EXCEPT ![w].ids = @ \ {b}] /\ Current(w, b) /\ batches' = batches
        /\ pc' = [pc EXCEPT ![w] = "next"]
    BY <1>0, <1>10, MerkleReceiptsSet
  <2>2. c \in todo[w].ids /\ c # b
    <3>1. todo'[w].ids = todo[w].ids \ {b}
      BY <1>0, <2>1, MerkleHeadDropped
    <3> QED
      BY <3>1
  <2>3. ~Current(w, c)
    BY <1>0, <2>1, <2>2, MerkleHead
  <2>4. batches[c].txid = Pending
    BY <2>2, <2>3 DEF MerkleListOk
  <2>5. pc'[w] = "next"
    BY <1>0, <2>1 DEF MerkleTypes, TypeOK
  <2> QED
    BY <1>1, <2>1, <2>2, <2>4, <2>5
<1>11. ASSUME NEW b \in Batches, MarkStarted(w, b)
       PROVE  MerkleListOk(w, c)'
  <2>1. /\ Current(w, b) /\ pc[w] = "next" /\ todo' = todo /\ pc'[w] = "submit"
    BY <1>0, <1>11 DEF MarkStarted, MerkleTypes, TypeOK
  <2>2. PICK row \in BatchRow :
            /\ batches' = [batches EXCEPT ![b] = row]
            /\ row.txid = batches[b].txid
            /\ row.status = "anchoring"
    <3>1. ~MarkAnchored(w, b)
      BY <2>1 DEF MarkAnchored
    <3> QED
      BY <1>0, <1>11, <3>1, MerkleUpdates
  <2>3. MerkleListOk(w, c) /\ c \in todo[w].ids
    BY <2>1
  <2>4. batches'[c].txid = Pending
    BY <1>0, <2>1, <2>2, <2>3 DEF MerkleListOk, MerkleTypes, TypeOK
  <2>5. Current(w, c)' => c = b
    <3>1. Current(w, c)' => Current(w, c)
      BY <2>1 DEF Current
    <3> QED
      BY <1>0, <2>1, <3>1, MerkleHead
  <2>6. Current(w, c)' => batches'[c].status = "anchoring"
    BY <1>0, <2>2, <2>5 DEF MerkleTypes, TypeOK
  <2> QED
    BY <2>1, <2>4, <2>6 DEF MerkleListOk
<1>12. ASSUME NEW b \in Batches, MarkAnchored(w, b)
       PROVE  MerkleListOk(w, c)'
  <2>1. /\ Current(w, b) /\ pc[w] = "mark_anchored" /\ todo' = todo /\ txid' = txid
        /\ pc'[w] = "set_receipts"
    BY <1>0, <1>12 DEF MarkAnchored, MerkleTypes, TypeOK
  <2>2. PICK row \in BatchRow :
            /\ batches' = [batches EXCEPT ![b] = row]
            /\ row.txid = txid[w]
    BY <1>0, <1>12, MerkleUpdates
  <2>3. txid[w] # Pending
    <3>1. txid[w] \in 1 .. sent[b] /\ sent[b] \in Nat
      BY <1>0, <2>1 DEF MerkleTxids, MerkleTypes, TypeOK
    <3> QED
      BY <3>1 DEF Pending
  <2>4. CASE c = b
    <3>1. batches'[c].txid = txid'[w] /\ Current(w, c)'
      BY <1>0, <2>1, <2>2, <2>4 DEF MerkleTypes, TypeOK, Current
    <3> QED
      BY <2>1, <2>3, <3>1 DEF MerkleListOk
  <2>5. CASE c # b
    <3>1. ~Current(w, c) /\ c \in todo[w].ids
      BY <1>0, <2>1, <2>5, MerkleHead
    <3>2. batches[c].txid = Pending
      BY <3>1 DEF MerkleListOk
    <3>3. batches'[c] = batches[c]
      BY <1>0, <2>2, <2>5 DEF MerkleTypes, TypeOK
    <3>4. ~Current(w, c)'
      BY <2>1, <3>1 DEF Current
    <3> QED
      BY <2>1, <3>2, <3>3, <3>4 DEF MerkleListOk
  <2> QED
    BY <2>4, <2>5
<1> QED
  BY <1>3, <1>4, <1>5, <1>6, <1>7, <1>8, <1>9, <1>10, <1>11, <1>12 DEF Cycle

\* The receipts of the only cycle's batches keep agreeing with them.
LEMMA MerkleAgreementKept ==
  ASSUME MerkleInv, MerkleAlone, NEW w \in Workers, Cycle(w),
         \A b \in todo[w].ids : MerkleListOk(w, b),
         \A r \in Receipts : receipts[r].txid # Pending =>
                 receipts[r].txid = batches[receipts[r].batch].txid
  PROVE  \A r \in Receipts : receipts'[r].txid # Pending =>
          receipts'[r].txid = batches'[receipts'[r].batch].txid
<1> SUFFICES ASSUME NEW r \in Receipts, receipts'[r].txid # Pending
             PROVE  receipts'[r].txid = batches'[receipts'[r].batch].txid
  OBVIOUS
<1>0. /\ MerkleTypes /\ MembershipAgrees /\ batches \in [Batches -> BatchRow]
      /\ receipts[r].txid # Pending =>
            /\ receipts[r].batch \in Batches
            /\ receipts[r].txid = batches[receipts[r].batch].txid
  BY DEF MerkleInv, MerkleTypes, TypeOK, ReceiptTxidFromBatch
<1>1. ASSUME receipts' = receipts, \A b \in Batches : batches'[b].txid = batches[b].txid
      PROVE  receipts'[r].txid = batches'[receipts'[r].batch].txid
  BY <1>0, <1>1
<1>2. ASSUME StartCycle(w)
      PROVE  receipts'[r].txid = batches'[receipts'[r].batch].txid
  <2>1. receipts' = receipts /\ batches' = Recovered
    BY <1>2 DEF StartCycle
  <2>2. \A b \in Batches : batches'[b].txid = batches[b].txid
    BY <1>0, <2>1, MerkleRecovered
  <2> QED
    BY <1>1, <2>1, <2>2
<1>3. ASSUME NEW net \in Networks, BuildBatch(w, net)
      PROVE  receipts'[r].txid = batches'[receipts'[r].batch].txid
  <2>1. PICK b \in Batches, rows \in SUBSET Receipts, row \in BatchRow : MerkleBuilds(net, b, rows, row)
    BY <1>0, <1>3, MerkleBuilt
  <2>2. \A q \in rows : receipts[q].batch = NoBatch
    BY <2>1 DEF MerkleBuilds, Selection, Unbatched
  <2>3. NoBatch \notin Batches
    BY DEF NoBatch, Batches
  <2>4. receipts'[r].txid = receipts[r].txid
        /\ receipts'[r].batch = IF r \in rows THEN b ELSE receipts[r].batch
    BY <2>1 DEF MerkleBuilds
  <2>5. \A c \in Batches : batches'[c].txid = batches[c].txid
    BY <1>0, <2>1 DEF MerkleBuilds
  <2> QED
    BY <1>0, <2>2, <2>3, <2>4, <2>5
<1>4. ASSUME NEW b \in Batches, NextRefused(w, b) \/ MarkStarted(w, b) \/ MarkFailed(w, b)
      PROVE  receipts'[r].txid = batches'[receipts'[r].batch].txid
  <2>1. PICK row \in BatchRow :
            /\ batches' = [batches EXCEPT ![b] = row]
            /\ row.txid = batches[b].txid
    <3>1. ~MarkAnchored(w, b)
      BY <1>4 DEF NextRefused, MarkStarted, MarkFailed, MarkAnchored
    <3> QED
      BY <1>0, <1>4, <3>1, MerkleUpdates
  <2>2. receipts' = receipts
    BY <1>4 DEF NextRefused, MarkStarted, MarkFailed
  <2> QED
    BY <1>0, <1>1, <2>1, <2>2
<1>5. ASSUME NEW b \in Batches, MarkAnchored(w, b)
      PROVE  receipts'[r].txid = batches'[receipts'[r].batch].txid
  <2>1. /\ receipts' = receipts /\ pc[w] = "mark_anchored" /\ b \in todo[w].ids
    BY <1>5 DEF MarkAnchored, Current
  <2>2. PICK row \in BatchRow : batches' = [batches EXCEPT ![b] = row]
    BY <1>0, <1>5, MerkleUpdates
  <2>3. batches[b].txid = Pending
    BY <2>1 DEF MerkleListOk
  <2>4. receipts[r].batch # b
    BY <1>0, <2>1, <2>3
  <2> QED
    BY <1>0, <2>1, <2>2, <2>4
<1>6. ASSUME NEW b \in Batches, SetReceiptTxids(w, b)
      PROVE  receipts'[r].txid = batches'[receipts'[r].batch].txid
  <2>1. /\ pc[w] = "set_receipts" /\ Current(w, b) /\ batches' = batches
        /\ receipts'[r].batch = receipts[r].batch
        /\ receipts'[r].txid = IF r \in members[b] THEN txid[w] ELSE receipts[r].txid
    BY <1>0, <1>6, MerkleReceiptsSet
  <2>2. batches[b].txid = txid[w]
    BY <2>1 DEF MerkleListOk, Current
  <2>3. r \in members[b] => receipts[r].batch = b
    BY <1>0 DEF MembershipAgrees
  <2> QED
    BY <1>0, <2>1, <2>2, <2>3
<1>7. ListGroups(w) \/ ListPending(w) \/ EndCycle(w) \/ UpdateRaises(w)
        \/ (\E net \in Networks : BuildNothing(w, net))
        \/ (\E b \in Batches : SubmitReturns(w, b) \/ SubmitRaises(w, b)) =>
      receipts' = receipts /\ \A b \in Batches : batches'[b].txid = batches[b].txid
  BY DEF ListGroups, ListPending, EndCycle, UpdateRaises, BuildNothing, SubmitReturns, SubmitRaises,
          tables
<1> QED
  BY <1>1, <1>2, <1>3, <1>4, <1>5, <1>6, <1>7 DEF Cycle

\* The account of a batch whose broadcasts and claims to one stay as they are.
LEMMA MerkleSentLeft ==
  ASSUME MerkleTypes, MerkleTypes', NEW b \in Batches, MerkleSentOk(b), sent'[b] = sent[b],
         batches[b].attempts <= batches'[b].attempts, crashes' = crashes,
         batches[b].txid # Pending \/ MerkleSpent(b) =>
            batches'[b].txid # Pending \/ MerkleSpent(b)'
                    \/ batches'[b].attempts = batches[b].attempts + 1
  PROVE  MerkleSentOk(b)'
<1>1. /\ sent[b] \in Nat /\ crashes \in Nat
      /\ batches[b].attempts \in Nat /\ batches'[b].attempts \in Nat
  BY DEF MerkleTypes, TypeOK, BatchRow
<1> QED
  BY <1>1 DEF MerkleSentOk

\* Every broadcast of the only cycle is accounted for.
LEMMA MerkleSentKept ==
  ASSUME MerkleInv, MerkleTypes', MerkleAlone, MerkleAlone', NEW w \in Workers, Cycle(w),
         \A b \in todo[w].ids : MerkleListOk(w, b), NEW b \in Batches, MerkleSentOk(b)
  PROVE  MerkleSentOk(b)'
<1>0. MerkleTypes /\ MerkleTxids /\ batches[b] \in BatchRow /\ batches[b].attempts \in Nat
  BY DEF MerkleInv, MerkleTypes, TypeOK, BatchRow
<1>a. crashes' = crashes
  <2>1. ASSUME NEW net \in Networks, BuildBatch(w, net)
        PROVE  crashes' = crashes
    BY <1>0, <2>1, MerkleBuilt
  <2> QED
    BY <2>1 DEF Cycle, StartCycle, ListGroups, ListPending, EndCycle, UpdateRaises, BuildNothing,
        NextRefused, MarkStarted, SubmitReturns, SubmitRaises, MarkAnchored, SetReceiptTxids, MarkFailed
<1>b. /\ MerkleSpent(b) <=> pc[w] \in MerkleHandling \ {"submit"} /\ Current(w, b)
      /\ MerkleSpent(b)' <=> pc'[w] \in MerkleHandling \ {"submit"} /\ Current(w, b)'
  BY <1>0, MerkleSpentOnly
<1>1. ASSUME sent'[b] = sent[b], batches'[b].txid = batches[b].txid,
             batches[b].attempts <= batches'[b].attempts, ~MerkleSpent(b) \/ MerkleSpent(b)'
      PROVE  MerkleSentOk(b)'
  BY <1>0, <1>a, <1>1, MerkleSentLeft
<1>2. ASSUME StartCycle(w)
      PROVE  MerkleSentOk(b)'
  <2>1. sent' = sent /\ batches' = Recovered /\ pc[w] = "idle"
    BY <1>2 DEF StartCycle
  <2>2. batches'[b].txid = batches[b].txid /\ batches'[b].attempts = batches[b].attempts
    BY <1>0, <2>1, MerkleRecovered
  <2>3. ~MerkleSpent(b)
    BY <1>b, <2>1 DEF MerkleHandling
  <2> QED
    BY <1>0, <1>1, <2>1, <2>2, <2>3
<1>3. ASSUME NEW net \in Networks, BuildBatch(w, net)
      PROVE  MerkleSentOk(b)'
  <2>1. PICK c \in Batches, rows \in SUBSET Receipts, row \in BatchRow : MerkleBuilds(net, c, rows, row)
    BY <1>0, <1>3, MerkleBuilt
  <2>2. batches'[b].txid = batches[b].txid /\ batches'[b].attempts = batches[b].attempts
    BY <2>1, <1>0 DEF MerkleBuilds, MerkleTypes, TypeOK
  <2>3. sent' = sent /\ pc[w] = "build"
    BY <1>0, <1>3, MerkleBuilt
  <2>4. ~MerkleSpent(b)
    BY <1>b, <2>3 DEF MerkleHandling
  <2> QED
    BY <1>0, <1>1, <2>2, <2>3, <2>4
<1>4. ASSUME NEW c \in Batches, NextRefused(w, c) \/ MarkStarted(w, c)
      PROVE  MerkleSentOk(b)'
  <2>1. PICK row \in BatchRow :
            /\ batches' = [batches EXCEPT ![c] = row]
            /\ row.txid = batches[c].txid
            /\ row.attempts \in {batches[c].attempts, batches[c].attempts + 1}
    <3>1. ~MarkAnchored(w, c) /\ ~MarkFailed(w, c)
      BY <1>4 DEF NextRefused, MarkStarted, MarkFailed, MarkAnchored
    <3> QED
      BY <1>0, <1>4, <3>1, MerkleUpdates
  <2>2. sent' = sent /\ pc[w] = "next"
    BY <1>4 DEF NextRefused, MarkStarted
  <2>3. ~MerkleSpent(b)
    BY <1>b, <2>2 DEF MerkleHandling
  <2>4. batches'[b].txid = batches[b].txid /\ batches[b].attempts <= batches'[b].attempts
    BY <1>0, <2>1 DEF MerkleTypes, TypeOK
  <2> QED
    BY <1>1, <2>2, <2>3, <2>4
<1>5. ASSUME NEW c \in Batches, MarkFailed(w, c)
      PROVE  MerkleSentOk(b)'
  <2>1. PICK row \in BatchRow :
            /\ batches' = [batches EXCEPT ![c] = row]
            /\ row.txid = batches[c].txid
            /\ row.attempts = batches[c].attempts + 1
    <3>1. ~MarkAnchored(w, c)
      BY <1>5 DEF MarkFailed, MarkAnchored
    <3> QED
      BY <1>0, <1>5, <3>1, MerkleUpdates
  <2>2. sent' = sent /\ Current(w, c)
    BY <1>5 DEF MarkFailed
  <2>3. CASE b = c
    <3>1. batches'[b].attempts = batches[b].attempts + 1
      BY <1>0, <2>1, <2>3 DEF MerkleTypes, TypeOK
    <3> QED
      BY <1>0, <1>a, <2>2, <3>1, MerkleSentLeft
  <2>4. CASE b # c
    <3>1. batches'[b] = batches[b]
      BY <1>0, <2>1, <2>4 DEF MerkleTypes, TypeOK
    <3>2. ~MerkleSpent(b)
      BY <1>0, <1>b, <2>2, <2>4, MerkleHead
    <3> QED
      BY <1>0, <1>1, <2>2, <3>1, <3>2
  <2> QED
    BY <2>3, <2>4
<1>6. ASSUME NEW c \in Batches, MarkAnchored(w, c)
      PROVE  MerkleSentOk(b)'
  <2>1. PICK row \in BatchRow :
            /\ batches' = [batches EXCEPT ![c] = row]
            /\ row.txid = txid[w]
            /\ row.attempts = batches[c].attempts
    <3>1. ~NextRefused(w, c) /\ ~MarkFailed(w, c)
      BY <1>6 DEF MarkFailed, MarkAnchored, NextRefused
    <3> QED
      BY <1>0, <1>6, <3>1, MerkleUpdates
  <2>2. /\ sent' = sent /\ Current(w, c) /\ pc[w] = "mark_anchored" /\ todo' = todo
        /\ pc'[w] = "set_receipts"
    BY <1>0, <1>6 DEF MarkAnchored, MerkleTypes, TypeOK
  <2>3. CASE b = c
    <3>1. MerkleSpent(b)'
      <4>1. Current(w, b)'
        BY <2>2, <2>3 DEF Current
      <4> QED
        BY <1>b, <2>2, <4>1 DEF MerkleHandling
    <3>2. batches'[b].attempts = batches[b].attempts
      BY <1>0, <2>1, <2>3 DEF MerkleTypes, TypeOK
    <3> QED
      BY <1>0, <1>a, <2>2, <3>1, <3>2, MerkleSentLeft
  <2>4. CASE b # c
    <3>1. batches'[b] = batches[b]
      BY <1>0, <2>1, <2>4 DEF MerkleTypes, TypeOK
    <3>2. ~MerkleSpent(b)
      BY <1>0, <1>b, <2>2, <2>4, MerkleHead
    <3> QED
      BY <1>0, <1>1, <2>2, <3>1, <3>2
  <2> QED
    BY <2>3, <2>4
<1>7. ASSUME NEW c \in Batches, SetReceiptTxids(w, c)
      PROVE  MerkleSentOk(b)'
  <2>1. /\ pc[w] = "set_receipts" /\ Current(w, c) /\ batches' = batches /\ sent' = sent
    BY <1>0, <1>7, MerkleReceiptsSet
  <2>2. CASE b = c
    <3>1. batches[b].txid = txid[w]
      BY <2>1, <2>2 DEF MerkleListOk, Current
    <3>2. txid[w] \in 1 .. sent[b] /\ sent[b] \in Nat
      BY <1>0, <2>1, <2>2 DEF MerkleTxids, MerkleTypes, TypeOK
    <3>3. batches'[b].txid # Pending
      BY <2>1, <3>1, <3>2 DEF Pending
    <3> QED
      BY <1>0, <1>a, <2>1, <3>3, MerkleSentLeft
  <2>3. CASE b # c
    <3>1. ~MerkleSpent(b)
      BY <1>0, <1>b, <2>1, <2>3, MerkleHead
    <3> QED
      BY <1>0, <1>1, <2>1, <3>1
  <2> QED
    BY <2>2, <2>3
<1>8. ASSUME NEW c \in Batches, SubmitReturns(w, c) \/ SubmitRaises(w, c)
      PROVE  MerkleSentOk(b)'
  <2>1. /\ pc[w] = "submit" /\ Current(w, c) /\ batches' = batches /\ todo' = todo
        /\ pc'[w] \in {"mark_anchored", "mark_failed"}
        /\ sent' = sent \/ sent' = [sent EXCEPT ![c] = @ + 1]
    BY <1>0, <1>8 DEF SubmitReturns, SubmitRaises, MerkleTypes, TypeOK
  <2>2. ~MerkleSpent(b)
    BY <1>b, <2>1
  <2>3. CASE b = c
    <3>1. batches[b].txid = Pending
      BY <2>1, <2>3 DEF MerkleListOk, Current
    <3>2. MerkleSpent(b)'
      <4>1. Current(w, b)'
        BY <2>1, <2>3 DEF Current
      <4> QED
        BY <1>b, <2>1, <4>1 DEF MerkleHandling
    <3>3. sent[b] \in Nat /\ crashes \in Nat /\ sent'[b] \in {sent[b], sent[b] + 1}
      BY <1>0, <2>1, <2>3 DEF MerkleTypes, TypeOK
    <3>4. sent[b] <= batches[b].attempts + crashes
      BY <1>0, <2>2, <3>1, <3>3 DEF MerkleSentOk
    <3> QED
      BY <1>0, <1>a, <2>1, <3>2, <3>3, <3>4 DEF MerkleSentOk
  <2>4. CASE b # c
    <3>1. sent'[b] = sent[b]
      BY <1>0, <2>1, <2>4 DEF MerkleTypes, TypeOK
    <3> QED
      BY <1>0, <1>1, <2>1, <2>2, <3>1
  <2> QED
    BY <2>3, <2>4
<1>9. ASSUME UpdateRaises(w)
      PROVE  MerkleSentOk(b)'
  <2>1. sent' = sent /\ batches' = batches /\ todo' = todo /\ pc'[w] = "mark_failed"
    BY <1>0, <1>9 DEF UpdateRaises, tables, MerkleTypes, TypeOK
  <2>2. MerkleSpent(b) => MerkleSpent(b)'
    <3>1. Current(w, b) => Current(w, b)'
      BY <2>1 DEF Current
    <3> QED
      BY <1>b, <2>1, <3>1 DEF MerkleHandling
  <2> QED
    BY <1>0, <1>1, <2>1, <2>2
<1>10. ASSUME ListGroups(w) \/ ListPending(w) \/ EndCycle(w)
        \/ \E net \in Networks : BuildNothing(w, net)
       PROVE  MerkleSentOk(b)'
  <2>1. sent' = sent /\ batches' = batches /\ pc[w] \notin MerkleHandling
    BY <1>10 DEF ListGroups, ListPending, EndCycle, BuildNothing, tables, MerkleHandling
  <2> QED
    BY <1>0, <1>1, <1>b, <2>1
<1> QED
  BY <1>2, <1>3, <1>4, <1>5, <1>6, <1>7, <1>8, <1>9, <1>10 DEF Cycle

\* Steps of the clock and of the receipts, and crashes: the account and the
\* lists of the only cycle.
LEMMA MerkleSerialOutside ==
  ASSUME MerkleInv, MerkleAlone, ~overlapped, MerkleSerial, MerkleAlone',
         \/ \E s \in Receipts : CreateReceipt(s)
         \/ \E w \in Workers : Crash(w)
         \/ \E b \in Batches : Age(b)
         \/ UNCHANGED vars
  PROVE  MerkleSerial'
<1>0. MerkleTypes
  BY DEF MerkleInv
<1>1. ASSUME UNCHANGED <<batches, sent, pc, todo, txid, crashes, overlapped>>,
             \A r \in Receipts : receipts'[r].batch = receipts[r].batch
                                 /\ receipts'[r].txid = receipts[r].txid
      PROVE  MerkleSerial'
  <2>1. \A w \in Workers : \A b \in todo'[w].ids : MerkleListOk(w, b)'
    BY <1>1 DEF MerkleSerial, MerkleListOk, Current
  <2>2. ReceiptsAgree'
    BY <1>1 DEF MerkleSerial, ReceiptsAgree
  <2>3. \A b \in Batches : MerkleSentOk(b)'
    BY <1>1 DEF MerkleSerial, MerkleSentOk, MerkleSpent, Current
  <2> QED
    BY <2>1, <2>2, <2>3 DEF MerkleSerial
<1>2. ASSUME NEW s \in Receipts, CreateReceipt(s)
      PROVE  MerkleSerial'
  BY <1>0, <1>1, <1>2, MerkleReceiptCreated
<1>3. ASSUME NEW b \in Batches, Age(b)
      PROVE  MerkleSerial'
  BY <1>1, <1>3 DEF Age
<1>4. ASSUME UNCHANGED vars
      PROVE  MerkleSerial'
  BY <1>1, <1>4 DEF vars
<1>5. ASSUME NEW w \in Workers, Crash(w)
      PROVE  MerkleSerial'
  <2>1. /\ receipts' = receipts /\ batches' = batches /\ sent' = sent /\ overlapped' = overlapped
        /\ crashes' = crashes + 1 /\ pc[w] # "idle" /\ todo'[w].ids = {}
    BY <1>0, <1>5 DEF Crash, tables, Nothing, MerkleTypes, TypeOK
  <2>2. \A v \in Workers : todo'[v].ids = {}
    <3>1. ASSUME NEW v \in Workers, v # w
          PROVE  todo'[v].ids = {}
      <4>1. pc[v] = "idle"
        BY <2>1, <3>1 DEF MerkleAlone
      <4> QED
        BY <1>0, <1>5, <3>1, <4>1, MerkleOthers DEF MerkleTypes
    <3> QED
      BY <2>1, <3>1
  <2>3. ReceiptsAgree'
    BY <2>1 DEF MerkleSerial, ReceiptsAgree
  <2>4. ASSUME NEW b \in Batches
        PROVE  MerkleSentOk(b)'
    <3>1. /\ sent[b] \in Nat /\ crashes \in Nat /\ batches[b].attempts \in Nat
      BY <1>0 DEF MerkleTypes, TypeOK, BatchRow
    <3>2. sent[b] <= batches[b].attempts + crashes + 1
      BY <3>1 DEF MerkleSerial, MerkleSentOk
    <3>3. sent'[b] <= batches'[b].attempts + crashes'
      BY <2>1, <3>1, <3>2
    <3>4. batches'[b].attempts + crashes' \in Nat
      BY <2>1, <3>1
    <3>5. sent'[b] \in Nat
      BY <2>1, <3>1
    <3> QED
      BY <3>3, <3>4, <3>5 DEF MerkleSentOk
  <2> QED
    BY <2>2, <2>3, <2>4 DEF MerkleSerial
<1> QED
  BY <1>2, <1>3, <1>4, <1>5

\* Together: whatever the only cycle and its surroundings do.
LEMMA MerkleSerialKept ==
  ASSUME MerkleInv, MerkleTypes', MerkleSerial, [Next]_vars
  PROVE  MerkleSerial'
<1> SUFFICES ASSUME ~overlapped'
             PROVE  MerkleSerial'
  BY DEF MerkleSerial
<1>1. MerkleTypes
  BY DEF MerkleInv
<1>2. ~overlapped /\ MerkleAlone /\ MerkleAlone'
  BY <1>1, MerkleAloneKept DEF MerkleSerial
<1>3. /\ \A w \in Workers : \A b \in todo[w].ids : MerkleListOk(w, b)
      /\ \A r \in Receipts : receipts[r].txid # Pending =>
              receipts[r].txid = batches[receipts[r].batch].txid
      /\ \A b \in Batches : MerkleSentOk(b)
  BY <1>2 DEF MerkleSerial, ReceiptsAgree
<1>4. ASSUME NEW w \in Workers, Cycle(w)
      PROVE  MerkleSerial'
  <2>1. \A v \in Workers : \A b \in todo'[v].ids : MerkleListOk(v, b)'
    BY <1>2, <1>3, <1>4, MerkleListKept
  <2>2. ReceiptsAgree'
    BY <1>2, <1>3, <1>4, MerkleAgreementKept DEF ReceiptsAgree
  <2>3. \A b \in Batches : MerkleSentOk(b)'
    BY <1>2, <1>3, <1>4, MerkleSentKept
  <2> QED
    BY <1>2, <2>1, <2>2, <2>3 DEF MerkleSerial
<1>5. ASSUME ~ \E w \in Workers : Cycle(w)
      PROVE  MerkleSerial'
  BY <1>2, <1>5, MerkleSerialOutside DEF Next
<1> QED
  BY <1>4, <1>5

\* Both invariants hold initially and are kept.
LEMMA MerkleInvariants ==
  Spec => [](MerkleInv /\ MerkleSerial)
<1>1. ASSUME Init
      PROVE  MerkleInv /\ MerkleSerial
  <2>1. MerkleTypes
    BY <1>1, MerkleTypesInitially
  <2>2. MembershipAgrees
    <3>1. Cardinality({}) = 0 /\ BatchLimit \in Nat
      BY FS_EmptySet, ConstantsAssumption
    <3>2. NoBatch \notin Batches
      BY DEF NoBatch, Batches
    <3> QED
      BY <1>1, <3>1, <3>2 DEF Init, MembershipAgrees
  <2>3. ReceiptTxidFromBatch
    BY <1>1 DEF Init, ReceiptTxidFromBatch
  <2>4. MerkleTxids
    BY <1>1 DEF Init, MerkleTxids
  <2>5. MerkleSerial
    <3>1. \A w \in Workers : todo[w].ids = {} /\ pc[w] = "idle"
      BY <1>1 DEF Init, Nothing
    <3>2. \A b \in Batches : MerkleSentOk(b)
      <4>1. ASSUME NEW b \in Batches
            PROVE  sent[b] = 0 /\ batches[b].attempts = 0 /\ crashes = 0 /\ batches[b].txid = Pending
        BY <1>1 DEF Init
      <4>2. \A b \in Batches : ~MerkleSpent(b)
        BY <3>1 DEF MerkleSpent, MerkleHandling
      <4> QED
        BY <4>1, <4>2 DEF MerkleSentOk
    <3>3. ReceiptsAgree
      BY <1>1 DEF Init, ReceiptsAgree
    <3> QED
      BY <3>1, <3>2, <3>3 DEF MerkleSerial, MerkleAlone
  <2> QED
    BY <2>1, <2>2, <2>3, <2>4, <2>5 DEF MerkleInv
<1>2. ASSUME MerkleInv, MerkleSerial, [Next]_vars
      PROVE  MerkleInv' /\ MerkleSerial'
  <2>1. MerkleTypes /\ MembershipAgrees /\ MerkleTxids /\ ReceiptTxidFromBatch
    BY <1>2 DEF MerkleInv
  <2>2. MerkleTypes'
    BY <1>2, <2>1, MerkleTypesKept
  <2>3. MembershipAgrees'
    BY <1>2, <2>1, MerkleMembershipKept
  <2>4. MerkleTxids' /\ ReceiptTxidFromBatch'
    BY <1>2, <2>1, MerkleTxidsKept, MerkleReceiptsKept
  <2>5. MerkleSerial'
    BY <1>2, <2>2, MerkleSerialKept
  <2> QED
    BY <2>2, <2>3, <2>4, <2>5 DEF MerkleInv
<1> QED
  BY <1>1, <1>2, PTL DEF Spec

\* The two records of membership agree, whatever cycles build, overlap or die
\* (build_next_batch, with its one transaction).
THEOREM MerkleMembership ==
  Spec => []MembershipAgrees
<1>1. MerkleInv => MembershipAgrees
  BY DEF MerkleInv
<1> QED
  BY <1>1, MerkleInvariants, PTL

\* A receipt names only a transaction that carried the commitment of its own
\* batch (set_receipt_txids_for_batch), however many cycles overlap.
THEOREM MerkleReceiptTxids ==
  Spec => []ReceiptTxidFromBatch
<1>1. MerkleInv => ReceiptTxidFromBatch
  BY DEF MerkleInv
<1> QED
  BY <1>1, MerkleInvariants, PTL

\* Until two cycles have overlapped, a receipt names the transaction its batch
\* names (mark_merkle_batch_anchored and set_receipt_txids_for_batch).
THEOREM MerkleReceiptsAgree ==
  Spec => []ReceiptsAgree
<1>1. MerkleSerial => ReceiptsAgree
  BY DEF MerkleSerial, ReceiptsAgree
<1> QED
  BY <1>1, MerkleInvariants, PTL

\* Until two cycles have overlapped, the broadcasts of a commitment are
\* accounted for by recorded failures, crashes and the anchored state.
THEOREM MerkleBroadcasts ==
  Spec => []BroadcastsAccountedFor
<1>1. ASSUME MerkleInv, MerkleSerial
      PROVE  BroadcastsAccountedFor
  <2> SUFFICES ASSUME ~overlapped, NEW b \in Batches
               PROVE  sent[b] <= batches[b].attempts + crashes
                        + (IF batches[b].txid # Pending \/ batches[b].status = "anchoring" THEN 1 ELSE 0)
    BY DEF BroadcastsAccountedFor
  <2>1. sent[b] \in Nat /\ crashes \in Nat /\ batches[b].attempts \in Nat
    BY <1>1 DEF MerkleInv, MerkleTypes, TypeOK, BatchRow
  <2>2. MerkleSentOk(b)
    BY <1>1 DEF MerkleSerial
  <2>3. MerkleSpent(b) => batches[b].txid # Pending \/ batches[b].status = "anchoring"
    BY <1>1 DEF MerkleSerial, MerkleSpent, MerkleListOk, Current
  <2> QED
    BY <2>1, <2>2, <2>3 DEF MerkleSentOk
<1> QED
  BY <1>1, MerkleInvariants, PTL

=============================================================================

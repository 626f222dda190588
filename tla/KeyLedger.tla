-------------------------------- MODULE KeyLedger --------------------------------
(***************************************************************************)
(* The prepaid keys of one organisation (backend/economics/store.py,       *)
(* backend/billing/usage_metering.py): the balance that says what may be   *)
(* spent, and the ledger rows that say which payment each key came from.   *)
(*                                                                         *)
(* Credits and usages each change balance and rows in one transaction.     *)
(* Rows are younger than balances, so every use of the store first runs    *)
(* init_schema, which compares the two and inserts the missing keys as a   *)
(* legacy row: three statements that nothing holds together.               *)
(***************************************************************************)
EXTENDS Naturals, FiniteSets

CONSTANTS
    TopUps,       \* settled payments that credit keys
    Usages,       \* requests that meter usage
    Lookups,      \* other requests that open the store
    Keys,         \* keys that a top-up credits and that a usage costs
    InitialKeys   \* balance from before there were ledger rows

Sessions == TopUps \cup Usages \cup Lookups

ASSUME KeyConstants ==
    /\ IsFiniteSet(Sessions)
    /\ TopUps \cap Usages = {} /\ TopUps \cap Lookups = {} /\ Usages \cap Lookups = {}
    /\ Keys \in [TopUps \cup Usages -> Nat \ {0}]
    /\ InitialKeys \in Nat

VARIABLES
    available,   \* key_balances.keys_available
    remaining,   \* the keys that the rows of key_ledger still have
    turn,        \* the order of the credits (created_at); 0 for none
    allocated,   \* usage_payment_allocation: the keys a usage was paid with
    outcome,     \* what a usage was answered
    key_pc,      \* where a session is
    read,        \* the balance it has read, then the keys it found missing
    overlapped   \* two sessions were under way at once

keyVars == <<available, remaining, turn, allocated, outcome, key_pc, read, overlapped>>

Outcomes == {"none", "metered", "insufficient_keys", "debit_failed"}
UnderWay == {"sum", "fill", "ready"}

\* The keys of the row that session s inserts: a legacy row or a credit.
Row(kind, s, n) == {<<kind, s, i>> : i \in 1 .. n}

\* The rows are used in the order of created_at; that of legacy rows is 1970.
CreatedAt(k) == IF k[1] = "legacy" THEN 0 ELSE turn[k[2]]
Newer(j, k) == CreatedAt(j) > CreatedAt(k) \* wrong variant: newest first
Older(j, k) == CreatedAt(j) < CreatedAt(k)

KeyTypeOK ==
    /\ available \in Nat
    /\ remaining \subseteq {"legacy", "credit"} \X Sessions \X Nat
    /\ IsFiniteSet(remaining)
    /\ turn \in [TopUps -> Nat]
    /\ allocated \in [Usages -> SUBSET ({"legacy", "credit"} \X Sessions \X Nat)]
    /\ \A u \in Usages : IsFiniteSet(allocated[u])
    /\ outcome \in [Usages -> Outcomes]
    /\ key_pc \in [Sessions -> {"start", "done"} \cup UnderWay]
    /\ read \in [Sessions -> Nat]
    /\ overlapped \in BOOLEAN

KeyInit ==
    /\ available = InitialKeys
    /\ remaining = {}
    /\ turn = [s \in TopUps |-> 0]
    /\ allocated = [u \in Usages |-> {}]
    /\ outcome = [u \in Usages |-> "none"]
    /\ key_pc = [s \in Sessions |-> "start"]
    /\ read = [s \in Sessions |-> 0]
    /\ overlapped = FALSE

At(s, p) == key_pc[s] = p
Proceed(s, p) == key_pc' = [key_pc EXCEPT ![s] = p]

-----------------------------------------------------------------------------
(* init_schema *)

\* SELECT keys_available: a balance of zero needs no rows.
ReadBalance(s) ==
    /\ At(s, "start")
    /\ read' = [read EXCEPT ![s] = available]
    /\ Proceed(s, IF available = 0 THEN "ready" ELSE "sum")
    /\ overlapped' = (overlapped \/ \E t \in Sessions : key_pc[t] \in UnderWay)
    /\ UNCHANGED <<available, remaining, turn, allocated, outcome>>

\* SELECT SUM(keys_remaining).
Summed == Cardinality(remaining)

ReadRows(s) ==
    /\ At(s, "sum")
    /\ IF read[s] > Summed
       THEN read' = [read EXCEPT ![s] = @ - Summed] /\ Proceed(s, "fill")
       ELSE UNCHANGED read /\ Proceed(s, "ready")
    /\ UNCHANGED <<available, remaining, turn, allocated, outcome, overlapped>>

\* INSERT the legacy row, whatever has happened since.
Backfill(s) ==
    /\ At(s, "fill")
    /\ remaining' = remaining \cup Row("legacy", s, read[s])
    /\ Proceed(s, "ready")
    /\ UNCHANGED <<available, turn, allocated, outcome, read, overlapped>>

-----------------------------------------------------------------------------
(* What the sessions are for *)

\* Wrong variant: a credit leaves its row to the next init_schema.
CreditedLater(s) == {}

\* The row a credit inserts next to its UPDATE of the balance.
CreditedRow(s) == Row("credit", s, Keys[s])
Credited == {s \in TopUps : turn[s] > 0}

CreditKeys(s) ==
    /\ s \in TopUps /\ At(s, "ready")
    /\ available' = available + Keys[s]
    /\ remaining' = remaining \cup CreditedRow(s)
    /\ turn' = [turn EXCEPT ![s] = Cardinality(Credited) + 1]
    /\ Proceed(s, "done")
    /\ UNCHANGED <<allocated, outcome, read, overlapped>>

\* Wrong variant: whole rows are taken.
WholeRows(n) ==
    {taken \in SUBSET remaining :
        /\ Cardinality(taken) >= n
        /\ \A k \in taken, left \in remaining \ taken :
              ~Older(left, k) /\ <<k[1], k[2]>> # <<left[1], left[2]>>}

\* What _fifo_consume can take for n keys: no row is used while an older one
\* has keys left.
FifoChoices(n) ==
    {taken \in SUBSET remaining :
        /\ Cardinality(taken) = n
        /\ \A k \in taken, left \in remaining \ taken : ~Older(left, k)}

\* What stays in the rows.
Left(taken) == remaining \ taken

\* The transaction of meter_usage: balance, rows, allocations and receipt.
MeterUsage(u) ==
    /\ u \in Usages /\ At(u, "ready")
    /\ available >= Keys[u]
    /\ \E taken \in FifoChoices(Keys[u]) :
          /\ remaining' = Left(taken)
          /\ allocated' = [allocated EXCEPT ![u] = taken]
    /\ available' = available - Keys[u]
    /\ outcome' = [outcome EXCEPT ![u] = "metered"]
    /\ Proceed(u, "done")
    /\ UNCHANGED <<turn, read, overlapped>>

\* It is rolled back for lack of keys in the balance, or in the rows.
RefuseUsage(u) ==
    /\ u \in Usages /\ At(u, "ready")
    /\ available < Keys[u] \/ Summed < Keys[u]
    /\ outcome' = [outcome EXCEPT ![u] =
            IF available < Keys[u] THEN "insufficient_keys" ELSE "debit_failed"]
    /\ Proceed(u, "done")
    /\ UNCHANGED <<available, remaining, turn, allocated, read, overlapped>>

\* A lookup is done; or anything raises or dies, and its transaction, if it
\* has begun one, is rolled back (a receipt that cannot be stored included).
EndSession(s) ==
    /\ key_pc[s] \in UnderWay
    /\ Proceed(s, "done")
    /\ UNCHANGED <<available, remaining, turn, allocated, outcome, read, overlapped>>

KeyNext ==
    \E s \in Sessions :
        \/ ReadBalance(s) \/ ReadRows(s) \/ Backfill(s)
        \/ CreditKeys(s) \/ MeterUsage(s) \/ RefuseUsage(s) \/ EndSession(s)

KeySpec == KeyInit /\ [][KeyNext]_keyVars

-----------------------------------------------------------------------------
(* Properties *)

\* A session that is past init_schema finds every key of the balance in the
\* rows, however sessions interleave: the rows never refuse a usage that the
\* balance admits (debit_failed is not an answer).
BalanceCanBeSpent ==
    /\ \A s \in Sessions : At(s, "ready") => Cardinality(remaining) >= available
    /\ \A u \in Usages : outcome[u] # "debit_failed"

\* A usage is paid with exactly the keys it costs, and a key pays once: no
\* other usage has it, and the rows do not offer it again.
KeysPayOnce ==
    \A u \in Usages :
        /\ Cardinality(allocated[u]) = IF outcome[u] = "metered" THEN Keys[u] ELSE 0
        /\ allocated[u] \cap remaining = {}
        /\ \A v \in Usages \ {u} : allocated[u] \cap allocated[v] = {}

SpentKeys == UNION {allocated[u] : u \in Usages}
CreditedKeys == UNION {Row("credit", s, Keys[s]) : s \in Credited}

\* The balance is what was there and was credited, less what usages were paid
\* with: rows that init_schema makes up never become keys to spend.
BalanceIsConserved ==
    available + Cardinality(SpentKeys) = InitialKeys + Cardinality(CreditedKeys)

\* The payments that usages are traced to are the oldest: while a credit has
\* keys left, no later credit has been used.
OldestCreditFirst ==
    \A u \in Usages : \A k \in allocated[u], left \in remaining :
        k[1] = "credit" /\ left[1] = "credit" => ~Older(left, k)

\* While sessions do not overlap, init_schema makes up exactly the keys from
\* before the ledger: once it has run, rows and balance agree, and no usage
\* is traced to a legacy balance that did not exist.
RowsAreBalance ==
    overlapped
    \/ \/ Cardinality(remaining) = available
       \/ /\ available = InitialKeys /\ remaining = {}
          /\ \A s \in Sessions : ~At(s, "ready")

=============================================================================

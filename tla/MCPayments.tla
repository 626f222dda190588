------------------------------- MODULE MCPayments -------------------------------
(***************************************************************************)
(* Payouts, keys and settlement for TLC, in one run.  The three share no   *)
(* variable and no step, so what is true of each while the others rest is  *)
(* true of each in any interleaving: one of them moves in a behaviour.     *)
(***************************************************************************)
EXTENDS PayoutBatches, KeyLedger, OnrampSettlement

CONSTANTS small, large, cheap, dear, card, wire

\* Two top-ups and two usages of different sizes: a usage can be paid from two
\* rows, and meet a row of the other kind.
MCKeys == [s \in {small, large, cheap, dear} |-> IF s \in {small, cheap} THEN 1 ELSE 2]

\* An affiliate earns from the first of two purchases, which share their
\* transaction.
Apart == [p \in {card, wire} |-> IF p = card THEN 1 ELSE 2]
Shared == [p \in {card, wire} |-> 1]

\* What an idle handler or job has settled or reported before is of no account.
PaymentsInit ==
    /\ Init /\ KeyInit /\ OnrampInit
    /\ purchase = [h \in Handlers |-> card]
    /\ reserve = [j \in Jobs |-> card]

PaymentsNext ==
    \/ KeyInit /\ OnrampInit /\ Next /\ UNCHANGED <<keyVars, onrampVars>>
    \/ Init /\ OnrampInit /\ KeyNext /\ UNCHANGED <<vars, onrampVars>>
    \/ Init /\ KeyInit /\ OnrampNext /\ UNCHANGED <<vars, keyVars>>

PaymentsSpec ==
    /\ PaymentsInit
    /\ [][PaymentsNext]_<<vars, keyVars, onrampVars>>
    /\ OnrampFairness
=============================================================================

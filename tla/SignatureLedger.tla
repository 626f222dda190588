---------------------------- MODULE SignatureLedger ----------------------------
(***************************************************************************)
(* What the signing ceremony of one agreement promises, without requests,  *)
(* locks or devices: a ledger of signatures.  A recipient signs once, with *)
(* a token that is spent by it, and the signature stays for ever.  The     *)
(* agreement is sealed by the step that records the last signature.  The   *)
(* owner can withdraw the packet, which kills every token; a withdrawal    *)
(* that overlaps the signature of the owner loses that signature, and no   *)
(* other.                                                                  *)
(***************************************************************************)
CONSTANTS Recipients, Owner

Signers == Recipients \cup {Owner}

VARIABLES
    recorded,   \* signers whose signature is in the ledger
    usable,     \* recipients whose token still signs
    sealed      \* the agreement is fully executed

ledger == <<recorded, usable, sealed>>

Init ==
    /\ recorded = {}
    /\ usable = Recipients
    /\ sealed = FALSE

Record(s) ==
    /\ recorded' = recorded \cup {s}
    /\ usable' = usable \ {s}
    /\ sealed' = (recorded' = Signers)

\* A request that was under way when the packet was withdrawn may put the
\* signature of the owner back.
Withdraw ==
    /\ recorded' \in {recorded, recorded \ {Owner}}
    /\ usable' = {}
    /\ sealed' = (recorded' = Signers)

Next == Withdraw \/ \E s \in Signers : Record(s)

Spec == Init /\ [][Next]_ledger
================================================================================

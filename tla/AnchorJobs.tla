------------------------------- MODULE AnchorJobs -------------------------------
(***************************************************************************)
(* What a queue of anchor jobs promises: a job that is claimed is          *)
(* broadcast at most once, then settled, or counted as a failed attempt;   *)
(* failed attempts are bounded, and what is settled stays so.  A claim can *)
(* be lost with the cycle that made it, and a queue that recovers returns  *)
(* lost claims.                                                            *)
(*                                                                         *)
(* TimelineAnchor and FeedAnchor implement this.                           *)
(***************************************************************************)
EXTENDS Naturals

CONSTANTS
    Jobs,
    MaxAttempts,  \* failed attempts after which a job is given up
    Recovers      \* lost claims return to the queue

VARIABLES
    state,      \* where each job is
    attempts,   \* its failed attempts
    sent,       \* transactions that carry its commitment
    losses      \* times that somebody died, with or without claims

States == {"missing", "queued", "claimed", "broadcast", "refused", "lost", "done", "failed"}

Init ==
    /\ state = [j \in Jobs |-> "missing"]
    /\ attempts = [j \in Jobs |-> 0]
    /\ sent = [j \in Jobs |-> 0]
    /\ losses = 0

In(j, states) == state[j] \in states

\* All jobs of S go to one state.
Moved(S, to) == state' = [j \in Jobs |-> IF j \in S THEN to ELSE state[j]]

Enqueue(j) ==
    /\ In(j, {"missing"})
    /\ Moved({j}, "queued")
    /\ UNCHANGED <<attempts, sent, losses>>

Claim(S) ==
    /\ \A j \in S : In(j, {"queued"})
    /\ Moved(S, "claimed")
    /\ UNCHANGED <<attempts, sent, losses>>

\* The claimed job is submitted, and the answer is a transaction ...
Broadcast(j) ==
    /\ In(j, {"claimed"})
    /\ Moved({j}, "broadcast")
    /\ sent' = [sent EXCEPT ![j] = @ + 1]
    /\ UNCHANGED <<attempts, losses>>

\* ... or an error, which does not exclude a transaction; or a transaction
\* cannot be recorded.
Refuse(j) ==
    /\ \/ In(j, {"claimed", "broadcast"}) /\ UNCHANGED sent
       \/ In(j, {"claimed"}) /\ sent' = [sent EXCEPT ![j] = @ + 1]
    /\ Moved({j}, "refused")
    /\ UNCHANGED <<attempts, losses>>

Succeed(j) ==
    /\ In(j, {"broadcast"})
    /\ Moved({j}, "done")
    /\ UNCHANGED <<attempts, sent, losses>>

\* A refused job is queued again or kept as failed; the last attempt is final.
Fail(j) ==
    /\ In(j, {"refused"})
    /\ attempts' = [attempts EXCEPT ![j] = @ + 1]
    /\ \/ Moved({j}, "failed")
       \/ attempts[j] + 1 < MaxAttempts /\ Moved({j}, "queued")
    /\ UNCHANGED <<sent, losses>>

Retry(S) ==
    /\ \A j \in S : In(j, {"failed"}) /\ attempts[j] < MaxAttempts
    /\ Moved(S, "queued")
    /\ UNCHANGED <<attempts, sent, losses>>

Recover(S) ==
    /\ Recovers
    /\ \A j \in S : In(j, {"lost"})
    /\ Moved(S, "queued")
    /\ UNCHANGED <<attempts, sent, losses>>

\* The holder of the jobs in S and T dies; those in T were broadcast and are
\* already written down as done.
Abandon(S, T) ==
    /\ \A j \in S : In(j, {"claimed", "broadcast", "refused"})
    /\ \A j \in T : In(j, {"broadcast", "refused"}) /\ sent[j] > 0
    /\ state' = [j \in Jobs |->
            IF j \in T THEN "done" ELSE IF j \in S THEN "lost" ELSE state[j]]
    /\ losses' = losses + 1
    /\ UNCHANGED <<attempts, sent>>

Next ==
    \/ \E j \in Jobs : \/ Enqueue(j) \/ Broadcast(j) \/ Refuse(j)
                       \/ Succeed(j) \/ Fail(j)
    \/ \E S \in SUBSET Jobs : Claim(S) \/ Retry(S) \/ Recover(S)
    \/ \E S, T \in SUBSET Jobs : Abandon(S, T)

Spec == Init /\ [][Next]_<<state, attempts, sent, losses>>
=============================================================================

------------------------------- MODULE FeedAnchor -------------------------------
(***************************************************************************)
(* Anchoring of public feed events: an event is stored together with its   *)
(* anchor job, a cycle returns stale claims to the queue, claims the       *)
(* queued jobs in one transaction, submits them and records the outcome on *)
(* the job and on the event.                                               *)
(*                                                                         *)
(* Recording a failure reads the attempts of the job before the            *)
(* transaction that writes them, and no update looks at the status it      *)
(* replaces.                                                               *)
(***************************************************************************)
EXTENDS Naturals, FiniteSets

CONSTANTS
    Events,       \* event ids; each event has one job
    Workers,      \* executions of the anchor cycle that may overlap
    ClaimLimit,   \* CLAW_FEED_ANCHOR_MAX_PER_BATCH
    MaxAttempts,  \* feed_anchor_max_attempts()
    Slow,         \* events whose owner may outlast stale_seconds
    MaxOvertaken, \* bound: claims that go stale under their owner
    MaxCrashes    \* bound: crashes of cycles

ASSUME FeedConstants ==
    /\ ClaimLimit \in Nat \ {0}
    /\ MaxAttempts \in Nat \ {0}
    /\ Slow \subseteq Events
    /\ MaxOvertaken \in Nat
    /\ MaxCrashes \in Nat

NoTx == 0     \* anchor_txid NULL; the n-th broadcast of an event is n
JobStatuses == {"missing", "queued", "processing", "done", "failed"}
EventStatuses == {"missing", "pending", "queued", "anchored", "failed"}

VARIABLES
    feed_events, \* the feed_events table
    jobs,       \* the feed_anchor_jobs table
    stale,      \* processing jobs whose claimed_at is older than stale_seconds
    overtaken,  \* claims that went stale under their owner so far
    sent,       \* sent[e]: transactions with e's commitment
    pc,         \* where each worker is in its cycle
    claimed,    \* claimed[w]: claimed jobs it has not started
    job,        \* job[w]: the job it is processing ({} when none)
    read,       \* the transaction it submitted, then the attempts it read
    crashes

feedVars == <<feed_events, jobs, stale, overtaken, sent, pc, claimed, job, read, crashes>>
tables == <<feed_events, jobs, stale, overtaken, sent>>

EventRow == [status : EventStatuses, txid : Nat, attempts : Nat]
JobRow == [status : JobStatuses, attempts : Nat]
PCs == {"idle", "claim", "next", "submit", "mark_done", "read_attempts", "mark_failed"}

FeedTypeOK ==
    /\ feed_events \in [Events -> EventRow]
    /\ jobs \in [Events -> JobRow]
    /\ stale \subseteq Events
    /\ overtaken \in Nat
    /\ sent \in [Events -> Nat]
    /\ pc \in [Workers -> PCs]
    /\ claimed \in [Workers -> SUBSET Events]
    /\ job \in [Workers -> SUBSET Events]
    /\ read \in [Workers -> Nat]
    /\ crashes \in Nat

FeedInit ==
    /\ feed_events = [e \in Events |-> [status |-> "missing", txid |-> NoTx, attempts |-> 0]]
    /\ jobs = [e \in Events |-> [status |-> "missing", attempts |-> 0]]
    /\ stale = {}
    /\ overtaken = 0
    /\ sent = [e \in Events |-> 0]
    /\ pc = [w \in Workers |-> "idle"]
    /\ claimed = [w \in Workers |-> {}]
    /\ job = [w \in Workers |-> {}]
    /\ read = [w \in Workers |-> 0]
    /\ crashes = 0

-----------------------------------------------------------------------------
\* insert_feed_event_pending: both rows in one transaction.
InsertEvent(e) ==
    /\ feed_events[e].status = "missing"
    /\ feed_events' = [feed_events EXCEPT ![e].status = "pending"]
    /\ jobs' = [jobs EXCEPT ![e].status = "queued"]
    /\ UNCHANGED <<stale, overtaken, sent, pc, claimed, job, read, crashes>>

\* Wrong variant: stale claims are left alone.
RecoveredNothing == jobs

\* recover_stale_feed_anchor_jobs: the job only, not the event.
Recovered == [e \in Events |->
    IF e \in stale THEN [jobs[e] EXCEPT !.status = "queued"] ELSE jobs[e]]

StartCycle(w) ==
    /\ pc[w] = "idle"
    /\ jobs' = Recovered
    /\ stale' = {}
    /\ pc' = [pc EXCEPT ![w] = "claim"]
    /\ UNCHANGED <<feed_events, overtaken, sent, claimed, job, read, crashes>>

Queued == {e \in Events : jobs[e].status = "queued"}

\* Wrong variant: the event is not updated.
ClaimedJobsOnly(batch) == feed_events

\* The effect of a claim on the rows of a batch (any event status but anchored
\* becomes queued).
ClaimedJobs(batch) == [e \in Events |->
    IF e \in batch THEN [jobs[e] EXCEPT !.status = "processing"] ELSE jobs[e]]
ClaimedEvents(batch) == [e \in Events |->
    IF e \in batch /\ feed_events[e].status \in {"pending", "queued", "failed"}
      THEN [feed_events[e] EXCEPT !.status = "queued"] ELSE feed_events[e]]

\* claim_feed_anchor_jobs: one transaction.  Which rows a binding LIMIT takes
\* (the oldest) is left open.
Claim(w) ==
    /\ pc[w] = "claim"
    /\ \E batch \in SUBSET Queued :
        /\ batch = Queued \/ Cardinality(batch) = ClaimLimit
        /\ Cardinality(batch) <= ClaimLimit
        /\ jobs' = ClaimedJobs(batch)
        /\ feed_events' = ClaimedEvents(batch)
        /\ claimed' = [claimed EXCEPT ![w] = batch]
    /\ pc' = [pc EXCEPT ![w] = "next"]
    /\ UNCHANGED <<stale, overtaken, sent, job, read, crashes>>

NextJob(w) ==
    /\ pc[w] = "next"
    /\ \E e \in claimed[w] :
        /\ job' = [job EXCEPT ![w] = {e}]
        /\ claimed' = [claimed EXCEPT ![w] = @ \ {e}]
    /\ pc' = [pc EXCEPT ![w] = "submit"]
    /\ UNCHANGED <<tables, read, crashes>>

EndCycle(w) ==
    /\ pc[w] = "next"
    /\ claimed[w] = {}
    /\ pc' = [pc EXCEPT ![w] = "idle"]
    /\ UNCHANGED <<tables, claimed, job, read, crashes>>

SubmitReturns(w) ==
    /\ pc[w] = "submit"
    /\ \E e \in job[w] :
        /\ sent' = [sent EXCEPT ![e] = @ + 1]
        /\ read' = [read EXCEPT ![w] = sent[e] + 1]
    /\ pc' = [pc EXCEPT ![w] = "mark_done"]
    /\ UNCHANGED <<feed_events, jobs, stale, overtaken, claimed, job, crashes>>

\* It raises, with or without a broadcast (or mainnet is disabled).
SubmitRaises(w) ==
    /\ pc[w] = "submit"
    /\ \/ UNCHANGED sent
       \/ \E e \in job[w] : sent' = [sent EXCEPT ![e] = @ + 1]
    /\ pc' = [pc EXCEPT ![w] = "read_attempts"]
    /\ UNCHANGED <<feed_events, jobs, stale, overtaken, claimed, job, read, crashes>>

\* mark_feed_anchor_done: one transaction, guarded by the ids only.
DoneJob(row) == [row EXCEPT !.status = "done"]
AnchoredEvent(row, t) == [row EXCEPT !.status = "anchored", !.txid = t]

MarkDone(w) ==
    /\ pc[w] = "mark_done"
    /\ \E e \in job[w] :
        /\ jobs' = [jobs EXCEPT ![e] = DoneJob(@)]
        /\ feed_events' = [feed_events EXCEPT ![e] = AnchoredEvent(@, read[w])]
        /\ stale' = stale \ {e}
    /\ pc' = [pc EXCEPT ![w] = "next"]
    /\ job' = [job EXCEPT ![w] = {}]
    /\ read' = [read EXCEPT ![w] = 0]
    /\ UNCHANGED <<overtaken, sent, claimed, crashes>>

\* It raises and rolls back; the except clause records a failure.
MarkDoneRaises(w) ==
    /\ pc[w] = "mark_done"
    /\ pc' = [pc EXCEPT ![w] = "read_attempts"]
    /\ read' = [read EXCEPT ![w] = 0]
    /\ UNCHANGED <<tables, claimed, job, crashes>>

\* mark_feed_anchor_failed reads the attempts ...
ReadAttempts(w) ==
    /\ pc[w] = "read_attempts"
    /\ \E e \in job[w] : read' = [read EXCEPT ![w] = jobs[e].attempts + 1]
    /\ pc' = [pc EXCEPT ![w] = "mark_failed"]
    /\ UNCHANGED <<tables, claimed, job, crashes>>

\* Wrong variant: one attempt too many.
OutcomeOneMore(attempts) == IF attempts > MaxAttempts THEN "failed" ELSE "queued"

\* ... and writes both rows from what it read.
Outcome(attempts) == IF attempts >= MaxAttempts THEN "failed" ELSE "queued"

MarkFailed(w) ==
    /\ pc[w] = "mark_failed"
    /\ \E e \in job[w] :
        /\ jobs' = [jobs EXCEPT ![e] = [status |-> Outcome(read[w]), attempts |-> read[w]]]
        /\ feed_events' = [feed_events EXCEPT ![e].status = Outcome(read[w]), ![e].attempts = read[w]]
        /\ stale' = stale \ {e}
    /\ pc' = [pc EXCEPT ![w] = "next"]
    /\ job' = [job EXCEPT ![w] = {}]
    /\ read' = [read EXCEPT ![w] = 0]
    /\ UNCHANGED <<overtaken, sent, claimed, crashes>>

\* The cycle dies: its process, or a statement of the error path.
Crash(w) ==
    /\ pc[w] # "idle"
    /\ crashes < MaxCrashes
    /\ crashes' = crashes + 1
    /\ pc' = [pc EXCEPT ![w] = "idle"]
    /\ claimed' = [claimed EXCEPT ![w] = {}]
    /\ job' = [job EXCEPT ![w] = {}]
    /\ read' = [read EXCEPT ![w] = 0]
    /\ UNCHANGED tables

InFlight(e) == \E w \in Workers : e \in claimed[w] \cup job[w]

\* stale_seconds pass after the claim of a job that is still processing.
Age(e) ==
    /\ jobs[e].status = "processing"
    /\ e \notin stale
    /\ \/ ~InFlight(e) /\ UNCHANGED overtaken
       \/ /\ InFlight(e) /\ e \in Slow
          /\ overtaken < MaxOvertaken
          /\ overtaken' = overtaken + 1
    /\ stale' = stale \cup {e}
    /\ UNCHANGED <<feed_events, jobs, sent, pc, claimed, job, read, crashes>>

-----------------------------------------------------------------------------
Cycle(w) ==
    \/ StartCycle(w) \/ Claim(w) \/ NextJob(w) \/ EndCycle(w)
    \/ SubmitReturns(w) \/ SubmitRaises(w)
    \/ MarkDone(w) \/ MarkDoneRaises(w) \/ ReadAttempts(w) \/ MarkFailed(w)

FeedNext ==
    \/ \E e \in Events : InsertEvent(e) \/ Age(e)
    \/ \E w \in Workers : Cycle(w) \/ Crash(w)

FeedSpec == FeedInit /\ [][FeedNext]_feedVars

\* Cycles are scheduled again and again, a cycle that runs goes on, time passes.
FairSpec ==
    /\ FeedSpec
    /\ \A w \in Workers : WF_feedVars(Cycle(w))
    /\ \A e \in Events : WF_feedVars(Age(e))

-----------------------------------------------------------------------------
(* Properties. *)

\* What the public feed shows of an event follows its job, even when a claim
\* is recovered while its first owner still runs: anchored exactly when the
\* job is done, failed exactly when it gave up, with as many attempts.
EventFollowsJob ==
    \A e \in Events :
        /\ feed_events[e].status = "anchored" <=> jobs[e].status = "done"
        /\ feed_events[e].status = "failed" <=> jobs[e].status = "failed"
        /\ jobs[e].status = "processing" => feed_events[e].status = "queued"
        /\ feed_events[e].attempts = jobs[e].attempts

\* For an event whose claims go stale only after a crash: its commitment is
\* broadcast at most once for each recorded failure, each crash and the final
\* success, its job gives up exactly when the attempts are used up, and no two
\* cycles share its claim.
AttemptsAccountedFor ==
    \A e \in Events \ Slow :
        /\ sent[e] <= jobs[e].attempts + crashes +
                (IF jobs[e].status \in {"processing", "done"} THEN 1 ELSE 0)
        /\ jobs[e].status = "failed" <=> jobs[e].attempts >= MaxAttempts
        /\ \A v, w \in Workers :
              v # w => e \notin (claimed[v] \cup job[v]) \cap (claimed[w] \cup job[w])

\* ... and the outcome of such an event is final.
OutcomeIsFinal ==
    [][\A e \in Events \ Slow :
          feed_events[e].status \in {"anchored", "failed"} => feed_events'[e] = feed_events[e]]_feed_events

\* Every public event ends anchored or failed: claims lost in a crash are
\* recovered, and the attempts are bounded.
EventIsSettled ==
    \A e \in Events : feed_events[e].status = "pending" ~> feed_events[e].status \in {"anchored", "failed"}
\* Where the job of e is: with the worker that has it, lost with one that had
\* it, or at rest.
InHands(e, steps) == \E w \in Workers : pc[w] \in steps /\ e \in job[w]
JobState(e) ==
    IF (\E w \in Workers : e \in claimed[w]) \/ InHands(e, {"submit"}) THEN "claimed"
    ELSE IF InHands(e, {"mark_done"}) THEN "broadcast"
    ELSE IF InHands(e, {"read_attempts", "mark_failed"}) THEN "refused"
    ELSE IF jobs[e].status = "processing" THEN "lost"
    ELSE jobs[e].status

Queue == INSTANCE AnchorJobs WITH
    Jobs <- Events \ Slow, Recovers <- TRUE, losses <- crashes,
    state <- [e \in Events \ Slow |-> JobState(e)],
    attempts <- [e \in Events \ Slow |-> jobs[e].attempts],
    sent <- [e \in Events \ Slow |-> sent[e]]

\* For the events whose claims go stale only after a crash, anchoring is the
\* job queue of AnchorJobs: a recovered claim is a lost one, never one that
\* somebody still works on, and no failed attempt is forgotten.
QueueIsKept == Queue!Spec
=============================================================================

-------------------------------- MODULE Timeline --------------------------------
(***************************************************************************)
(* One timeline: the events its clients append, patch, delete and          *)
(* duplicate, the freeze that pins their manifest, and the receipts that   *)
(* commit to the frozen manifest.                                          *)
(*                                                                         *)
(* An event is identified by the hash it was created with, and carries the *)
(* hash of its present content, both over its index in the timeline; a     *)
(* hash is modelled by what it is computed from.  Every write is one       *)
(* transaction that looks at the frozen flag first.  With PostgreSQL a     *)
(* patch reads its event before that transaction, with SQLite inside it;   *)
(* which of the two stores a request meets is left open.                   *)
(***************************************************************************)
EXTENDS Naturals, FiniteSets

CONSTANTS
    Contents,   \* type, time and payload of an event
    Clients,    \* concurrent requests to the timeline endpoints
    MaxIndex    \* bound: greatest event_index

ASSUME ConstantsAssumption == MaxIndex \in Nat

\* event_sha256 of a timeline's event; its prefix is also the event_id.
Hash == Nat \X Contents
EventSha(i, content) == <<i, content>>

Event == [id : Hash, index : Nat, content : Contents, sha : Hash]

\* manifest_sha256: the hashes in index order; a hash names its index.
Manifest == SUBSET Hash

VARIABLES
    events,     \* the events rows of the timeline
    frozen,     \* the frozen flag
    manifest,   \* frozen_manifest_sha256
    patching,   \* patching[c]: the row a PostgreSQL patch is about to write
    seen,       \* seen[c]: the manifest a client sends with its freeze or anchor
    step,       \* step[c]: what the request of a client does next
    receipts    \* the commitments of the receipts created

vars == <<events, frozen, manifest, patching, seen, step, receipts>>

TypeOK ==
    /\ events \in SUBSET Event
    /\ frozen \in BOOLEAN
    /\ manifest \in Manifest
    /\ patching \in [Clients -> SUBSET Event]
    /\ seen \in [Clients -> Manifest]
    /\ step \in [Clients -> {"idle", "read", "patch", "freeze", "anchor"}]
    /\ receipts \in SUBSET Manifest

\* The timeline that create_timeline inserts.
Init ==
    /\ events = {}
    /\ frozen = FALSE
    /\ manifest = {}
    /\ patching = [c \in Clients |-> {}]
    /\ seen = [c \in Clients |-> {}]
    /\ step = [c \in Clients |-> "idle"]
    /\ receipts = {}

-----------------------------------------------------------------------------
\* list_event_hashes.
EventHashes == {e.sha : e \in events}

\* Wrong variant: the index is the number of events.
CountIndex(i) == i = Cardinality(events)

\* MAX(event_index) + 1, or 0.
NextIndex(i) ==
    /\ \A e \in events : e.index < i
    /\ i = 0 \/ \E e \in events : e.index = i - 1

NewEvent(i, content) ==
    [id |-> EventSha(i, content), index |-> i, content |-> content, sha |-> EventSha(i, content)]

\* The INSERT of a new event; event_id is the primary key.
Insert(e) ==
    /\ \A f \in events : f.id # e.id
    /\ events' = events \cup {e}

\* A patch changes the content and the hash of an event, never its id or index.
Patched(e, new) == [e EXCEPT !.content = new, !.sha = EventSha(e.index, new)]

\* _ensure_not_frozen_tx
NotFrozen == ~frozen

AppendEvent(c) ==
    /\ step[c] = "idle"
    /\ NotFrozen
    /\ \E i \in 0 .. MaxIndex, content \in Contents :
        NextIndex(i) /\ Insert(NewEvent(i, content))
    /\ UNCHANGED <<frozen, manifest, patching, seen, step, receipts>>

DuplicateEvent(c) ==
    /\ step[c] = "idle"
    /\ NotFrozen
    /\ \E i \in 0 .. MaxIndex, e \in events :
        NextIndex(i) /\ Insert(NewEvent(i, e.content))
    /\ UNCHANGED <<frozen, manifest, patching, seen, step, receipts>>

DeleteEvent(c) ==
    /\ step[c] = "idle"
    /\ NotFrozen
    /\ \E e \in events : events' = events \ {e}
    /\ UNCHANGED <<frozen, manifest, patching, seen, step, receipts>>

\* patch_event with SQLite: read, merged and written in one transaction.
PatchEvent(c) ==
    /\ step[c] = "idle"
    /\ NotFrozen
    /\ \E e \in events, new \in Contents : events' = (events \ {e}) \cup {Patched(e, new)}
    /\ UNCHANGED <<frozen, manifest, patching, seen, step, receipts>>

\* patch_event with PostgreSQL reads the row and computes the new one, ...
PatchRead(c) ==
    /\ step[c] = "idle"
    /\ \E e \in events, new \in Contents :
        patching' = [patching EXCEPT ![c] = {Patched(e, new)}]
    /\ step' = [step EXCEPT ![c] = "patch"]
    /\ UNCHANGED <<events, frozen, manifest, seen, receipts>>

\* ... then updates whatever row has that id, unless the timeline is frozen or
\* the event gone.  The index column is not written.
PatchWrite(c) ==
    /\ step[c] = "patch"
    /\ \E new \in patching[c] :
        events' = IF NotFrozen
                    THEN {IF e.id = new.id THEN [new EXCEPT !.index = e.index] ELSE e : e \in events}
                    ELSE events
    /\ patching' = [patching EXCEPT ![c] = {}]
    /\ step' = [step EXCEPT ![c] = "idle"]
    /\ UNCHANGED <<frozen, manifest, seen, receipts>>

\* GET timeline: the client sees the manifest of the current events.
ReadTimeline(c) ==
    /\ step[c] = "idle"
    /\ seen' = [seen EXCEPT ![c] = EventHashes]
    /\ step' = [step EXCEPT ![c] = "read"]
    /\ UNCHANGED <<events, frozen, manifest, patching, receipts>>

\* POST freeze compares the client's manifest with the current one ...
FreezeCheck(c) ==
    /\ step[c] = "read"
    /\ step' = [step EXCEPT ![c] = IF seen[c] = EventHashes THEN "freeze" ELSE "idle"]
    /\ UNCHANGED <<events, frozen, manifest, patching, seen, receipts>>

\* The comparison of freeze_timeline; wrong variant: the check of the endpoint
\* is relied on.
AlreadyCompared(c) == TRUE
ManifestMatches(c) == seen[c] = EventHashes

\* ... and freeze_timeline does so again in the transaction that freezes; a
\* frozen timeline stays as it is.
Freeze(c) ==
    /\ step[c] = "freeze"
    /\ IF ManifestMatches(c) /\ ~frozen
         THEN frozen' = TRUE /\ manifest' = seen[c]
         ELSE UNCHANGED <<frozen, manifest>>
    /\ step' = [step EXCEPT ![c] = "idle"]
    /\ UNCHANGED <<events, patching, seen, receipts>>

\* POST anchor needs a frozen timeline and its very manifest ...
AnchorCheck(c) ==
    /\ step[c] = "read"
    /\ step' = [step EXCEPT ![c] = IF frozen /\ seen[c] = manifest THEN "anchor" ELSE "idle"]
    /\ UNCHANGED <<events, frozen, manifest, patching, seen, receipts>>

\* ... and creates a receipt whose commitment is that manifest.
CreateReceipt(c) ==
    /\ step[c] = "anchor"
    /\ receipts' = receipts \cup {seen[c]}
    /\ step' = [step EXCEPT ![c] = "idle"]
    /\ UNCHANGED <<events, frozen, manifest, patching, seen>>

-----------------------------------------------------------------------------
Next ==
    \E c \in Clients :
        \/ AppendEvent(c) \/ DuplicateEvent(c) \/ DeleteEvent(c)
        \/ PatchEvent(c) \/ PatchRead(c) \/ PatchWrite(c)
        \/ ReadTimeline(c) \/ FreezeCheck(c) \/ Freeze(c)
        \/ AnchorCheck(c) \/ CreateReceipt(c)

Spec == Init /\ [][Next]_vars

-----------------------------------------------------------------------------
(* Properties. *)

\* The frozen manifest is for ever the manifest of the events, whatever edit was
\* under way when the timeline froze: an append between the review and the
\* freeze, or a patch that read its event before it.
FrozenManifestCoversEvents == frozen => manifest = EventHashes

\* Every receipt commits to the events that the timeline still has.
ReceiptsCommitToEvents == \A commitment \in receipts : frozen /\ commitment = EventHashes

\* The hash of every event is that of its own index and content, also after
\* patches that were computed from an older row.
HashesMatchContent == \A e \in events : e.sha = EventSha(e.index, e.content)

\* However appends, patches and deletions follow each other, an event keeps the
\* index in its id, no two events share an id or an index, and a new event
\* never meets an id in use: a patched event keeps the id of content it no
\* longer has, and deleting the last event frees its index.
IdsNameIndexes ==
    /\ \A e \in events : e.id[1] = e.index
    /\ \A e, f \in events : e.index = f.index => e = f
    /\ \A i \in 0 .. MaxIndex, content \in Contents :
        NextIndex(i) => \A e \in events : e.id # EventSha(i, content)

\* Nothing about a frozen timeline ever changes.
FrozenIsFinal == [][frozen => UNCHANGED <<events, frozen, manifest>>]_<<events, frozen, manifest>>
=============================================================================

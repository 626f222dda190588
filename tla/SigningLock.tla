----------------------------- MODULE SigningLock -----------------------------
(***************************************************************************)
(* The lock that closes the negotiation of one agreement and opens its      *)
(* signing ceremony, kept in two places:                                    *)
(*                                                                          *)
(*   - each of the owner's browsers has a history of the versions it has    *)
(*     seen and a lock on one of them, in local storage                     *)
(*     (frontend/src/agreement/agreementVersionStore.ts), edited by the     *)
(*     review page (AgreementReview.tsx);                                   *)
(*   - the server has the draft, which its handlers load, change and write  *)
(*     back whole with nothing in between that stops another handler, and   *)
(*     beside it the signing lock: a version id and the hash of the text    *)
(*     (agreements_v2_api.py, agreement_signing_lock_store.py).             *)
(*                                                                          *)
(* A text is a model value; two texts are equal exactly when their hashes   *)
(* and their snapshots are.  A version id is the browser that made it and   *)
(* its row there: ids are random, so no browser knows those of another.     *)
(* The approvals of the signers, which the lock asks for and nothing ever   *)
(* withdraws, have been given, and no recipient's proposal is open.         *)
(***************************************************************************)
EXTENDS Naturals, Sequences, FiniteSets

CONSTANTS
  Browsers,    \* the owner's browsers, each with a local storage of its own
  Signers,     \* the parties that sign, each through a single-use link
  Texts,       \* the contents the agreement may have
  None,        \* no text, no lock, no request
  Closed,      \* what a browser that shows no review page has for its page
  MaxSaves,    \* bound: the saves of the draft
  MaxVersions  \* bound: the rows of a browser's history

ASSUME SigningLockAssumption ==
  /\ None \notin Texts \cup {Closed} /\ Closed \notin Texts
  /\ {None, Closed} \cap (Browsers \X Nat) = {}
  /\ MaxSaves \in Nat \ {0} /\ MaxVersions \in Nat

VARIABLES
  draft,     \* the stored draft: text, time of its last save, signatures
  used,      \* the signers whose links the stored registry has consumed
  lock,      \* the stored signing lock: version id and text hashed, or None
  signing,   \* the request of each signer the server is handling, or None
  revise,    \* the revision without signature test being handled, or None
  bundle,    \* the local storage of each browser: rows, last seen, lock
  page,      \* the lock each open review page was loaded with (its hydrate)
  commit,    \* the revision each browser is committing, or None
  put,       \* the lock each browser is putting on the server, or None
  hashed,    \* history: the texts the server has locked
  blind,     \* history: the texts a completion took without a hash to compare,
             \*   the lock it had asked for being gone when it read the hash
  loose      \* history: revise has written over a draft with signatures

server == <<draft, used, lock, signing, revise>>
vars == <<server, bundle, page, commit, put, hashed, blind, loose>>

VersionIds == Browsers \X (1 .. MaxVersions)

Drafts == [text : Texts, stamp : 0 .. MaxSaves, signed : [Signers -> Texts \cup {None}]]

Requests ==
  [at : {"start", "starting", "complete", "guarded", "signing"}, draft : Drafts, used : SUBSET Signers]

Commits == [at : {"sent"}] \cup [at : {"loaded", "saved"}, draft : Drafts]

Puts ==
  [at : {"sent", "written"}, ver : VersionIds]
    \cup [at : {"read"}, ver : VersionIds, text : Texts]

Bundles ==
  [rows : Seq(Texts), seen : 0 .. MaxSaves, lock : VersionIds \cup {None}]

TypeOK ==
  /\ draft \in Drafts
  /\ used \subseteq Signers
  /\ lock \in [ver : VersionIds, text : Texts] \cup {None}
  /\ signing \in [Signers -> Requests \cup {None}]
  /\ revise \in Drafts \cup {None, [at |-> "sent"]}
  /\ bundle \in [Browsers -> Bundles]
  /\ page \in [Browsers -> VersionIds \cup {None, Closed}]
  /\ commit \in [Browsers -> Commits \cup {None}]
  /\ put \in [Browsers -> Puts \cup {None}]
  /\ hashed \subseteq Texts /\ blind \subseteq Texts
  /\ loose \in BOOLEAN

Unsigned(d) == \A s \in Signers : d.signed[s] = None

Executed(d) == \A s \in Signers : d.signed[s] # None

Init ==
  /\ draft \in [text : Texts, stamp : {1}, signed : {[s \in Signers |-> None]}]
  /\ used = {} /\ lock = None
  /\ signing = [s \in Signers |-> None]
  /\ revise = None
  /\ bundle = [b \in Browsers |-> [rows |-> <<>>, seen |-> 0, lock |-> None]]
  /\ page = [b \in Browsers |-> Closed]
  /\ commit = [b \in Browsers |-> None]
  /\ put = [b \in Browsers |-> None]
  /\ hashed = {} /\ blind = {} /\ loose = FALSE

-----------------------------------------------------------------------------
(* The version store of a browser.                                          *)

Row(bu, d) ==
  [bu EXCEPT !.rows = Append(@, d.text), !.seen = d.stamp]

\* appendVersion: nothing is added while the browser holds a lock
AppendVersion(bu, d) == IF bu.lock # None THEN bu ELSE Row(bu, d)

LockedText(b, bu) ==
  IF bu.lock \in {<<b, i>> : i \in DOMAIN bu.rows} THEN bu.rows[bu.lock[2]] ELSE None

\* Wrong variant: any draft that arrives under the lock is taken as seen.
KnownIfLocked(b, bu, d) == bu.rows[Len(bu.rows)] = d.text \/ bu.lock # None

\* The text is the last row's, or the locked row's.
Known(b, bu, d) == bu.rows[Len(bu.rows)] = d.text \/ LockedText(b, bu) = d.text

\* syncOwnerFromServerDraft, and ensureInitialVersion for an empty history
SyncOwner(b, bu, d) ==
  CASE bu.rows = <<>> -> Row(bu, d)
    [] bu.rows # <<>> /\ bu.seen = d.stamp -> bu
    [] OTHER ->
         IF Known(b, bu, d) THEN [bu EXCEPT !.seen = d.stamp] ELSE AppendVersion(bu, d)

\* What the effect of the review page makes of a draft it is handed: the
\* history follows the draft, then the lock the page was loaded with (None for
\* an answer that said there was none) replaces the browser's.
Effect(b, bu, d, hydrate) == [SyncOwner(b, bu, d) EXCEPT !.lock = hydrate]

InHistory(bu) == Len(bu.rows) <= MaxVersions

-----------------------------------------------------------------------------
(* The owner's review page.                                                 *)

HydrateOf(l) == IF l = None THEN None ELSE l.ver

\* The page is loaded, or loaded again: GET of the draft and the lock.  What
\* the old page waited for is abandoned.
LoadPage(b) ==
  /\ commit[b] # None => commit[b].at = "saved"
  /\ put[b] # None => put[b].at # "read"
  /\ bundle' = [bundle EXCEPT ![b] = Effect(b, @, draft, HydrateOf(lock))]
  /\ InHistory(bundle'[b])
  /\ page' = [page EXCEPT ![b] = HydrateOf(lock)]
  /\ commit' = [commit EXCEPT ![b] = None]
  /\ put' = [put EXCEPT ![b] = None]
  /\ UNCHANGED <<server, hashed, blind, loose>>

\* loadDraft: the draft is fetched again, the lock of the answer is not looked
\* at, and the effect applies the one the page was loaded with.
Refresh(b) ==
  /\ page[b] # Closed
  /\ bundle' = [bundle EXCEPT ![b] = Effect(b, @, draft, page[b])]
  /\ InHistory(bundle'[b])
  /\ UNCHANGED <<server, page, commit, put, hashed, blind, loose>>

\* commitPendingRevision asks the browser's lock; commit-revision then asks
\* the server's before it loads the draft.
CommitSend(b) ==
  /\ page[b] # Closed /\ commit[b] = None
  /\ bundle[b].lock = None /\ lock = None
  /\ commit' = [commit EXCEPT ![b] = [at |-> "sent"]]
  /\ UNCHANGED <<server, bundle, page, put, hashed, blind, loose>>

\* Wrong variant: a draft is closed to edits only when everybody has signed.
MutableUntilExecuted(d) == ~Executed(d)

\* _assert_draft_mutable_after_signatures refuses a draft that has signatures.
Mutable(d) == Unsigned(d)

CommitLoad(b) ==
  /\ commit[b] # None /\ commit[b].at = "sent"
  /\ commit' = [commit EXCEPT ![b] =
       IF Mutable(draft) THEN [at |-> "loaded", draft |-> draft] ELSE None]
  /\ UNCHANGED <<server, bundle, page, put, hashed, blind, loose>>

\* save_draft writes the handler's copy over whatever is stored by now; only
\* the registry of the recipients' links keeps its stored value.
Save(d) ==
  /\ draft.stamp < MaxSaves
  /\ draft' = [d EXCEPT !.stamp = draft.stamp + 1]

CommitSave(b) ==
  /\ commit[b] # None /\ commit[b].at = "loaded"
  /\ \E t \in Texts \ {commit[b].draft.text} : Save([commit[b].draft EXCEPT !.text = t])
  /\ commit' = [commit EXCEPT ![b] = [at |-> "saved", draft |-> draft']]
  /\ UNCHANGED <<used, lock, signing, revise, bundle, page, put, hashed, blind, loose>>

\* The answer comes back: a row is appended and the page is handed the draft.
CommitAnswer(b) ==
  /\ page[b] # Closed
  /\ commit[b] # None /\ commit[b].at = "saved"
  /\ LET d == commit[b].draft
     IN bundle' = [bundle EXCEPT ![b] = Effect(b, AppendVersion(@, d), d, page[b])]
  /\ InHistory(bundle'[b])
  /\ commit' = [commit EXCEPT ![b] = None]
  /\ UNCHANGED <<server, page, put, hashed, blind, loose>>

\* "Finalize this version for signing": any row of the history may be chosen;
\* it is locked in the browser first and put on the server next.
Finalize(b, i) ==
  /\ page[b] # Closed /\ put[b] = None
  /\ bundle[b].lock = None /\ i \in DOMAIN bundle[b].rows
  /\ bundle' = [bundle EXCEPT ![b].lock = <<b, i>>]
  /\ put' = [put EXCEPT ![b] = [at |-> "sent", ver |-> <<b, i>>]]
  /\ UNCHANGED <<server, page, commit, hashed, blind, loose>>

\* PUT signing-lock hashes the draft it loads ...
PutRead(b) ==
  /\ put[b] # None /\ put[b].at = "sent"
  /\ put' = [put EXCEPT ![b] = [at |-> "read", ver |-> @.ver, text |-> draft.text]]
  /\ UNCHANGED <<server, bundle, page, commit, hashed, blind, loose>>

\* ... and writes the lock over any other, signatures or not.
PutWrite(b) ==
  /\ put[b] # None /\ put[b].at = "read"
  /\ lock' = [ver |-> put[b].ver, text |-> put[b].text]
  /\ hashed' = hashed \cup {put[b].text}
  /\ put' = [put EXCEPT ![b] = [at |-> "written", ver |-> @.ver]]
  /\ UNCHANGED <<draft, used, signing, revise, bundle, page, commit, blind, loose>>

PutAnswer(b) ==
  /\ put[b] # None /\ put[b].at = "written"
  /\ put' = [put EXCEPT ![b] = None]
  /\ UNCHANGED <<server, bundle, page, commit, hashed, blind, loose>>

\* The request never arrives, or its answer never does: revertLocalSigningLock.
PutLost(b) ==
  /\ put[b] # None /\ put[b].at \in {"sent", "written"}
  /\ bundle' = [bundle EXCEPT ![b].lock = None]
  /\ put' = [put EXCEPT ![b] = None]
  /\ UNCHANGED <<server, page, commit, hashed, blind, loose>>

\* "Reopen review" clears the browser's lock and calls nobody.
Reopen(b) ==
  /\ page[b] # Closed /\ bundle[b].lock # None
  /\ bundle' = [bundle EXCEPT ![b].lock = None]
  /\ UNCHANGED <<server, page, commit, put, hashed, blind, loose>>

\* DELETE signing-lock, for a client other than the web page, which never
\* calls it.
Unlock ==
  /\ lock # None
  /\ lock' = None
  /\ UNCHANGED <<draft, used, signing, revise, bundle, page, commit, put, hashed, blind, loose>>

-----------------------------------------------------------------------------
(* The requests of the others.                                              *)

\* POST revise with persist, and recipient-proposal apply: the lock is asked
\* for, then the draft is loaded with no look at its signatures, then (for
\* revise, after a call of the language model) the result is written.
ReviseSend ==
  /\ revise = None /\ lock = None /\ draft.stamp < MaxSaves
  /\ revise' = [at |-> "sent"]
  /\ UNCHANGED <<draft, used, lock, signing, bundle, page, commit, put, hashed, blind, loose>>

ReviseLoad ==
  /\ revise = [at |-> "sent"]
  /\ revise' = draft
  /\ UNCHANGED <<draft, used, lock, signing, bundle, page, commit, put, hashed, blind, loose>>

ReviseSave ==
  /\ revise \notin {None, [at |-> "sent"]}
  /\ \E t \in Texts \ {revise.text} : Save([revise EXCEPT !.text = t])
  /\ loose' = (loose \/ ~Unsigned(revise))
  /\ revise' = None
  /\ UNCHANGED <<used, lock, signing, bundle, page, commit, put, hashed, blind>>

\* A request of the ceremony loads the draft and its registry, and only then
\* asks if there is a lock: not_ready_for_signature.  None begins once the
\* bound leaves it no save.
CeremonyLoad(s, at) ==
  /\ signing[s] = None /\ s \notin used /\ ~Executed(draft)
  /\ draft.stamp < MaxSaves
  /\ signing' = [signing EXCEPT ![s] = [at |-> at, draft |-> draft, used |-> used]]
  /\ UNCHANGED <<draft, used, lock, revise, bundle, page, commit, put, hashed, blind, loose>>

CeremonyGuard(s, at, next) ==
  /\ signing[s] # None /\ signing[s].at = at
  /\ signing' = [signing EXCEPT ![s] = IF lock # None THEN [@ EXCEPT !.at = next] ELSE None]
  /\ UNCHANGED <<draft, used, lock, revise, bundle, page, commit, put, hashed, blind, loose>>

\* signing-ceremony/start, which a signer's page calls and the server does not
\* insist on: records that the signer began, a save like another.
StartLoad(s) == CeremonyLoad(s, "start")

StartGuard(s) == CeremonyGuard(s, "start", "starting")

StartSave(s) ==
  /\ signing[s] # None /\ signing[s].at = "starting"
  /\ Save(signing[s].draft)
  /\ signing' = [signing EXCEPT ![s] = None]
  /\ UNCHANGED <<used, lock, revise, bundle, page, commit, put, hashed, blind, loose>>

\* Wrong variant: the version id alone is compared.
FreshById(d, l) == TRUE

\* The draft must still hash to what was locked, else stale_locked_version.
Fresh(d, l) == d.text = l.text

\* signing-ceremony/complete.  The page sends the version id it was opened on
\* and one that is not the lock's is refused; a page opened again has it, so
\* the id is left out.
CompleteLoad(s) == draft.signed[s] = None /\ CeremonyLoad(s, "complete")

CompleteGuard(s) == CeremonyGuard(s, "complete", "guarded")

\* The lock is read a second time, for its hash.  One that is gone has none,
\* and then nothing is compared.
CompleteCheck(s) ==
  /\ signing[s] # None /\ signing[s].at = "guarded"
  /\ LET d == signing[s].draft
     IN  /\ signing' = [signing EXCEPT ![s] =
              IF lock = None \/ Fresh(d, lock) THEN [@ EXCEPT !.at = "signing"] ELSE None]
         /\ blind' = IF lock = None THEN blind \cup {d.text} ELSE blind
  /\ UNCHANGED <<draft, used, lock, revise, bundle, page, commit, put, hashed, loose>>

\* The links a completion leaves consumed; save_draft_cas has compared the
\* registry with the one the handler loaded.
Consumed(s, loaded) == loaded \cup {s}

CompleteSave(s) ==
  /\ signing[s] # None /\ signing[s].at = "signing"
  /\ signing[s].used = used
  /\ LET d == signing[s].draft IN Save([d EXCEPT !.signed[s] = d.text])
  /\ used' = Consumed(s, used)
  /\ signing' = [signing EXCEPT ![s] = None]
  /\ UNCHANGED <<lock, revise, bundle, page, commit, put, hashed, blind, loose>>

\* The registry has moved: invite_replacement_conflict.
CompleteRefused(s) ==
  /\ signing[s] # None /\ signing[s].at = "signing"
  /\ signing[s].used # used
  /\ signing' = [signing EXCEPT ![s] = None]
  /\ UNCHANGED <<draft, used, lock, revise, bundle, page, commit, put, hashed, blind, loose>>

BrowserStep(b) ==
  \/ LoadPage(b) \/ Refresh(b)
  \/ CommitSend(b) \/ CommitLoad(b) \/ CommitSave(b) \/ CommitAnswer(b)
  \/ \E i \in 1 .. MaxVersions : Finalize(b, i)
  \/ PutRead(b) \/ PutWrite(b) \/ PutAnswer(b) \/ PutLost(b)
  \/ Reopen(b)

SignerStep(s) ==
  \/ StartLoad(s) \/ StartGuard(s) \/ StartSave(s)
  \/ CompleteLoad(s) \/ CompleteGuard(s) \/ CompleteCheck(s)
  \/ CompleteSave(s) \/ CompleteRefused(s)

Next ==
  \/ \E b \in Browsers : BrowserStep(b)
  \/ \E s \in Signers : SignerStep(s)
  \/ ReviseSend \/ ReviseLoad \/ ReviseSave
  \/ Unlock

Spec == Init /\ [][Next]_vars

-----------------------------------------------------------------------------
(* Properties.                                                              *)

\* A signature is over a text some lock hashed, whatever was locked, put again,
\* revised or written back from an old copy since: the completion handler
\* compares the draft it loads with the hash of the lock.  The exception is a
\* completion whose lock is deleted after it asked for one and before it reads
\* the hash: with nothing to compare it takes the text as it is.
SignedTextWasLocked ==
  \A s \in Signers : draft.signed[s] # None => draft.signed[s] \in hashed \cup blind

\* The signatures the draft carries are over the text the draft carries, as
\* long as neither revise nor the application of a proposal has written over
\* a signed draft: commit-revision, the ceremony's own saves from old copies,
\* locks put twice and locks removed never separate the two.
SignaturesMatchText ==
  loose \/ \A s \in Signers : draft.signed[s] \in {None, draft.text}

\* Whoever's signature stands has a consumed link: no interleaving of
\* completions and plain saves leaves a signature whose link works again.
SignaturesConsumeLinks ==
  \A s \in Signers : draft.signed[s] # None => s \in used

\* A browser that takes the server's draft as seen has its text among the
\* rows of its history: no revision is passed over because a lock was held
\* when it arrived.
SeenIsRecorded ==
  \A b \in Browsers :
    bundle[b].seen = draft.stamp => \E i \in DOMAIN bundle[b].rows : bundle[b].rows[i] = draft.text
=============================================================================

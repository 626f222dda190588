------------------------- MODULE LockAndQueue_proofs -------------------------
(***************************************************************************)
(* Proofs about SigningLock, for every set of browsers, signers and texts  *)
(* and every bound, and about ProofAnchorQueue, for every set of jobs and  *)
(* every finite set of workers and bound.  The two modules share no name,  *)
(* and no statement relates one to the other.                              *)
(***************************************************************************)
EXTENDS SigningLock, ProofAnchorQueue, SequenceTheorems, FiniteSetTheorems, TLAPS

-----------------------------------------------------------------------------
(* The signing lock.                                                          *)

\* What holds of the stored draft and of every copy a handler may write back.
Good(d) ==
  \A s \in Signers : d.signed[s] # None =>
    /\ d.signed[s] \in hashed \cup blind
    /\ s \in used
    /\ loose \/ d.signed[s] = d.text

\* A completion that has read the hash is under way only for a text that has
\* been locked, or that there was no hash to compare with.
SigningIsGood ==
  \A s \in Signers : signing[s] # None =>
    /\ Good(signing[s].draft)
    /\ signing[s].at = "signing" => signing[s].draft.text \in hashed \cup blind

\* commit-revision holds copies without signatures only.
CommitIsUnsigned ==
  \A b \in Browsers :
    commit[b] # None /\ commit[b].at # "sent" => Unsigned(commit[b].draft)

ReviseIsGood == revise \notin {None, [at |-> "sent"]} => Good(revise)

LockIsHashed == lock # None => lock.text \in hashed

\* The inductive invariant of the signatures.
IInv ==
  /\ TypeOK
  /\ Good(draft)
  /\ SigningIsGood
  /\ CommitIsUnsigned
  /\ ReviseIsGood
  /\ LockIsHashed

-----------------------------------------------------------------------------
(* Type correctness. *)

\* The distinguished values are neither texts nor version ids nor records.
LEMMA BundleTypes ==
  ASSUME NEW b \in Browsers, NEW bu \in Bundles, NEW d \in Drafts
  PROVE  /\ Row(bu, d) \in Bundles
         /\ AppendVersion(bu, d) \in Bundles
         /\ SyncOwner(b, bu, d) \in Bundles
<1>1. Row(bu, d) \in Bundles
  <2>1. Append(bu.rows, d.text) \in Seq(Texts)
    BY AppendProperties DEF Bundles, Drafts
  <2>2. d.stamp \in 0 .. MaxSaves
    BY DEF Drafts
  <2> QED
    BY <2>1, <2>2 DEF Row, Bundles
<1>2. AppendVersion(bu, d) \in Bundles
  BY <1>1 DEF AppendVersion
<1>3. [bu EXCEPT !.seen = d.stamp] \in Bundles
  BY DEF Bundles, Drafts
<1>4. SyncOwner(b, bu, d) \in Bundles
  <2>1. CASE bu.rows = <<>>
    BY <1>1, <2>1 DEF SyncOwner
  <2>2. CASE bu.rows # <<>> /\ bu.seen = d.stamp
    BY <2>2 DEF SyncOwner
  <2>3. CASE bu.rows # <<>> /\ bu.seen # d.stamp
    BY <1>2, <1>3, <2>3 DEF SyncOwner
  <2> QED
    BY <2>1, <2>2, <2>3
<1> QED
  BY <1>1, <1>2, <1>4

\* The effect of the page keeps the store well typed.
LEMMA EffectTypes ==
  ASSUME NEW b \in Browsers, NEW bu \in Bundles, NEW d \in Drafts,
         NEW h \in VersionIds \cup {None}
  PROVE  Effect(b, bu, d, h) \in Bundles
<1>1. SyncOwner(b, bu, d) \in Bundles
  BY BundleTypes
<1> QED
  BY <1>1 DEF Effect, Bundles

\* A save is well typed.
LEMMA SaveTypes ==
  ASSUME TypeOK, NEW d \in Drafts, Save(d)
  PROVE  /\ draft' \in Drafts
         /\ draft'.text = d.text /\ draft'.signed = d.signed
         /\ draft'.stamp = draft.stamp + 1
  BY SigningLockAssumption DEF TypeOK, Drafts, Save

\* Every step of a browser keeps the types.
LEMMA BrowserTypes == ASSUME TypeOK, NEW b \in Browsers, BrowserStep(b) PROVE TypeOK'
<1> USE DEF server
<1>0. /\ draft \in Drafts /\ bundle[b] \in Bundles /\ page[b] \in VersionIds \cup {None, Closed}
      /\ commit[b] \in Commits \cup {None} /\ put[b] \in Puts \cup {None}
      /\ HydrateOf(lock) \in VersionIds \cup {None}
  BY DEF TypeOK, HydrateOf
<1>1. CASE LoadPage(b)
  <2>1. Effect(b, bundle[b], draft, HydrateOf(lock)) \in Bundles
    BY <1>0, EffectTypes
  <2> QED
    BY <1>0, <1>1, <2>1 DEF LoadPage, TypeOK
<1>2. CASE Refresh(b)
  <2>1. Effect(b, bundle[b], draft, page[b]) \in Bundles
    BY <1>0, <1>2, EffectTypes DEF Refresh
  <2> QED
    BY <1>2, <2>1 DEF Refresh, TypeOK
<1>3. CASE CommitSend(b) \/ CommitLoad(b)
  <2>1. [at |-> "sent"] \in Commits /\ [at |-> "loaded", draft |-> draft] \in Commits
    BY <1>0 DEF Commits
  <2> QED
    BY <1>3, <2>1 DEF CommitSend, CommitLoad, TypeOK
<1>4. CASE CommitSave(b)
  <2>1. commit[b].draft \in Drafts
    BY <1>0, <1>4 DEF CommitSave, Commits
  <2>2. PICK t \in Texts : Save([commit[b].draft EXCEPT !.text = t])
    BY <1>4 DEF CommitSave
  <2>3. [commit[b].draft EXCEPT !.text = t] \in Drafts
    BY <2>1 DEF Drafts
  <2>4. draft' \in Drafts
    BY <2>2, <2>3, SaveTypes
  <2>5. [at |-> "saved", draft |-> draft'] \in Commits
    BY <2>4 DEF Commits
  <2> QED
    BY <1>4, <2>4, <2>5 DEF CommitSave, TypeOK
<1>5. CASE CommitAnswer(b)
  <2> DEFINE d == commit[b].draft
  <2>1. d \in Drafts
    BY <1>0, <1>5 DEF CommitAnswer, Commits
  <2>2. page[b] \in VersionIds \cup {None}
    BY <1>0, <1>5 DEF CommitAnswer
  <2>3. AppendVersion(bundle[b], d) \in Bundles
    BY <1>0, <2>1, BundleTypes
  <2>4. Effect(b, AppendVersion(bundle[b], d), d, page[b]) \in Bundles
    BY <2>1, <2>2, <2>3, EffectTypes
  <2> QED
    BY <1>5, <2>4 DEF CommitAnswer, TypeOK
<1>6. ASSUME NEW i \in 1 .. MaxVersions, Finalize(b, i) PROVE TypeOK'
  <2>1. <<b, i>> \in VersionIds
    BY DEF VersionIds
  <2>2. [bundle[b] EXCEPT !.lock = <<b, i>>] \in Bundles
    BY <1>0, <2>1 DEF Bundles
  <2>3. [at |-> "sent", ver |-> <<b, i>>] \in Puts
    BY <2>1 DEF Puts
  <2> QED
    BY <1>6, <2>2, <2>3 DEF Finalize, TypeOK
<1>7. CASE PutRead(b) \/ PutWrite(b) \/ PutAnswer(b)
  <2>1. put[b] \in Puts /\ put[b].ver \in VersionIds
    BY <1>0, <1>7 DEF PutRead, PutWrite, PutAnswer, Puts
  <2>2. CASE PutRead(b)
    <3>1. [at |-> "read", ver |-> put[b].ver, text |-> draft.text] \in Puts
      BY <1>0, <2>1 DEF Puts, Drafts
    <3> QED
      BY <2>2, <3>1 DEF PutRead, TypeOK
  <2>3. CASE PutWrite(b)
    <3>1. put[b].text \in Texts
      BY <2>1, <2>3 DEF PutWrite, Puts
    <3>2. [at |-> "written", ver |-> put[b].ver] \in Puts
      BY <2>1 DEF Puts
    <3> QED
      BY <2>1, <2>3, <3>1, <3>2 DEF PutWrite, TypeOK
  <2>4. CASE PutAnswer(b)
    BY <2>4 DEF PutAnswer, TypeOK
  <2> QED
    BY <1>7, <2>2, <2>3, <2>4
<1>8. CASE PutLost(b) \/ Reopen(b)
  <2>1. [bundle[b] EXCEPT !.lock = None] \in Bundles
    BY <1>0 DEF Bundles
  <2> QED
    BY <1>8, <2>1 DEF PutLost, Reopen, TypeOK
<1> QED
  BY <1>1, <1>2, <1>3, <1>4, <1>5, <1>6, <1>7, <1>8 DEF BrowserStep

\* Every step of a signer keeps the types.
LEMMA SignerTypes == ASSUME TypeOK, NEW s \in Signers, SignerStep(s) PROVE TypeOK'
<1>0. draft \in Drafts /\ signing[s] \in Requests \cup {None} /\ used \subseteq Signers
  BY DEF TypeOK
<1>1. CASE StartLoad(s) \/ CompleteLoad(s)
  <2>1. /\ [at |-> "start", draft |-> draft, used |-> used] \in Requests
        /\ [at |-> "complete", draft |-> draft, used |-> used] \in Requests
    BY <1>0 DEF Requests
  <2> QED
    BY <1>1, <2>1 DEF StartLoad, CompleteLoad, CeremonyLoad, TypeOK
<1>2. CASE StartSave(s)
  <2>1. signing[s].draft \in Drafts
    BY <1>0, <1>2 DEF StartSave, Requests
  <2>2. draft' \in Drafts
    BY <1>2, <2>1, SaveTypes DEF StartSave
  <2> QED
    BY <1>2, <2>2 DEF StartSave, TypeOK
<1>3. CASE CompleteSave(s)
  <2> DEFINE d == signing[s].draft
  <2>1. d \in Drafts
    BY <1>0, <1>3 DEF CompleteSave, Requests
  <2>2. [d EXCEPT !.signed[s] = d.text] \in Drafts
    BY <2>1 DEF Drafts
  <2>3. draft' \in Drafts
    BY <1>3, <2>2, SaveTypes DEF CompleteSave
  <2> QED
    BY <1>3, <2>3 DEF CompleteSave, Consumed, TypeOK
<1>4. CASE CompleteRefused(s)
  BY <1>4 DEF CompleteRefused, TypeOK
<1>5. CASE StartGuard(s) \/ CompleteGuard(s) \/ CompleteCheck(s)
  <2>1. signing[s] \in Requests
    BY <1>0, <1>5 DEF StartGuard, CompleteGuard, CompleteCheck, CeremonyGuard
  <2>2. /\ [signing[s] EXCEPT !.at = "starting"] \in Requests
        /\ [signing[s] EXCEPT !.at = "guarded"] \in Requests
        /\ [signing[s] EXCEPT !.at = "signing"] \in Requests
        /\ signing[s].draft.text \in Texts
    BY <2>1 DEF Requests, Drafts
  <2> QED
    BY <1>5, <2>2 DEF StartGuard, CompleteGuard, CompleteCheck, CeremonyGuard, TypeOK
<1> QED
  BY <1>1, <1>2, <1>3, <1>4, <1>5 DEF SignerStep

\* Every step keeps the types.
LEMMA TypeStep == TypeOK /\ [Next]_vars => TypeOK'
<1> SUFFICES ASSUME TypeOK, [Next]_vars PROVE TypeOK'
  OBVIOUS
<1>1. CASE UNCHANGED vars
  BY <1>1 DEF vars, server, TypeOK
<1>2. CASE ReviseSend \/ ReviseLoad \/ Unlock
  BY <1>2 DEF ReviseSend, ReviseLoad, Unlock, TypeOK
<1>3. CASE ReviseSave
  <2>1. revise \in Drafts
    BY <1>3 DEF ReviseSave, TypeOK
  <2>2. PICK t \in Texts : Save([revise EXCEPT !.text = t])
    BY <1>3 DEF ReviseSave
  <2>3. [revise EXCEPT !.text = t] \in Drafts
    BY <2>1 DEF Drafts
  <2>4. draft' \in Drafts
    BY <2>2, <2>3, SaveTypes
  <2> QED
    BY <1>3, <2>4 DEF ReviseSave, TypeOK
<1> QED
  BY <1>1, <1>2, <1>3, BrowserTypes, SignerTypes DEF Next

-----------------------------------------------------------------------------
(* The signatures. *)

\* The invariant holds initially.
LEMMA InvariantInit == Init => IInv
<1> SUFFICES ASSUME Init PROVE IInv
  OBVIOUS
<1>1. TypeOK
  <2>1. draft \in Drafts
    BY SigningLockAssumption DEF Init, Drafts
  <2>2. bundle \in [Browsers -> Bundles]
    BY SigningLockAssumption DEF Init, Bundles
  <2> QED
    BY <2>1, <2>2 DEF Init, TypeOK
<1>2. Unsigned(draft)
  BY DEF Init, Unsigned
<1>3. Good(draft)
  BY <1>2 DEF Good, Unsigned
<1>4. SigningIsGood /\ CommitIsUnsigned /\ ReviseIsGood /\ LockIsHashed
  BY DEF Init, SigningIsGood, CommitIsUnsigned, ReviseIsGood, LockIsHashed
<1> QED
  BY <1>1, <1>3, <1>4 DEF IInv

\* A good copy that is saved gives a good draft.
LEMMA SavedIsGood ==
  ASSUME TypeOK, NEW d \in Drafts, Save(d), Good(d)'
  PROVE  Good(draft)'
  BY SaveTypes DEF Good

\* A step of a browser that is neither CommitSave nor PutWrite touches nothing
\* of the server, and a copy it loads has no signature.
LEMMA QuietBrowserStep ==
  ASSUME IInv, TypeOK', UNCHANGED <<server, hashed, blind, loose>>,
         \A b \in Browsers :
           commit'[b] # None /\ commit'[b].at # "sent" =>
             commit'[b] = commit[b] \/ Unsigned(commit'[b].draft)
  PROVE  IInv'
<1>1. Good(draft)' /\ SigningIsGood' /\ ReviseIsGood' /\ LockIsHashed'
  BY DEF IInv, server, Good, SigningIsGood, ReviseIsGood, LockIsHashed
<1>2. CommitIsUnsigned'
  BY DEF IInv, CommitIsUnsigned, Unsigned
<1> QED
  BY <1>1, <1>2 DEF IInv

\* Saving the copy of commit-revision leaves a draft without signatures.
LEMMA CommitSaveStep ==
  ASSUME IInv, NEW b \in Browsers, CommitSave(b), TypeOK'
  PROVE  IInv'
<1> DEFINE d == commit[b].draft
<1>1. d \in Drafts /\ Unsigned(d)
  BY DEF IInv, TypeOK, CommitSave, Commits, CommitIsUnsigned
<1>2. PICK t \in Texts : Save([d EXCEPT !.text = t])
  BY DEF CommitSave
<1>3. [d EXCEPT !.text = t] \in Drafts /\ [d EXCEPT !.text = t].signed = d.signed
  BY <1>1 DEF Drafts
<1>4. draft'.signed = d.signed
  BY <1>2, <1>3, SaveTypes DEF IInv
<1>5. Unsigned(draft')
  BY <1>1, <1>4 DEF Unsigned
<1>6. Good(draft)'
  BY <1>5 DEF Good, Unsigned
<1>7. CommitIsUnsigned'
  BY <1>5 DEF IInv, TypeOK, CommitSave, CommitIsUnsigned, Unsigned
<1>8. SigningIsGood' /\ ReviseIsGood' /\ LockIsHashed'
  BY DEF IInv, CommitSave, Good, SigningIsGood, ReviseIsGood, LockIsHashed
<1> QED
  BY <1>6, <1>7, <1>8 DEF IInv

\* A lock that is written has been hashed.
LEMMA PutWriteStep ==
  ASSUME IInv, NEW b \in Browsers, PutWrite(b), TypeOK'
  PROVE  IInv'
<1>1. UNCHANGED <<draft, used, signing, revise, commit, blind, loose>> /\ hashed \subseteq hashed'
  BY DEF PutWrite
<1>2. LockIsHashed'
  BY DEF PutWrite, LockIsHashed
<1>3. Good(draft)' /\ SigningIsGood' /\ CommitIsUnsigned' /\ ReviseIsGood'
  BY <1>1 DEF IInv, Good, SigningIsGood, CommitIsUnsigned, ReviseIsGood
<1> QED
  BY <1>2, <1>3 DEF IInv

\* Every step of a browser keeps the invariant.
LEMMA BrowserKeeps ==
  ASSUME IInv, NEW b \in Browsers, BrowserStep(b), TypeOK'
  PROVE  IInv'
<1>1. CASE CommitSave(b)
  BY <1>1, CommitSaveStep
<1>2. CASE PutWrite(b)
  BY <1>2, PutWriteStep
<1>3. CASE LoadPage(b) \/ CommitSend(b) \/ CommitAnswer(b)
  <2>1. UNCHANGED <<server, hashed, blind, loose>>
    BY <1>3 DEF LoadPage, CommitSend, CommitAnswer
  <2>2. \A c \in Browsers :
          commit'[c] = commit[c] \/ commit'[c] = None \/ commit'[c].at = "sent"
    BY <1>3 DEF LoadPage, CommitSend, CommitAnswer, IInv, TypeOK
  <2> QED
    BY <2>1, <2>2, QuietBrowserStep
<1>4. CASE CommitLoad(b)
  <2>1. UNCHANGED <<server, hashed, blind, loose>>
    BY <1>4 DEF CommitLoad
  <2>2. \A c \in Browsers :
          \/ commit'[c] = commit[c] \/ commit'[c] = None
          \/ Unsigned(draft) /\ commit'[c].draft = draft
    BY <1>4 DEF CommitLoad, Mutable, IInv, TypeOK
  <2> QED
    BY <2>1, <2>2, QuietBrowserStep
<1>5. ASSUME \/ Refresh(b) \/ PutRead(b) \/ PutAnswer(b) \/ PutLost(b) \/ Reopen(b)
             \/ \E i \in 1 .. MaxVersions : Finalize(b, i)
      PROVE  IInv'
  <2>1. UNCHANGED <<server, hashed, blind, loose, commit>>
    BY <1>5 DEF Refresh, PutRead, PutAnswer, PutLost, Reopen, Finalize
  <2> QED
    BY <2>1, QuietBrowserStep
<1> QED
  BY <1>1, <1>2, <1>3, <1>4, <1>5 DEF BrowserStep

\* The steps of a signer that save nothing.
SignerReads(s) ==
  \/ StartLoad(s) \/ StartGuard(s)
  \/ CompleteLoad(s) \/ CompleteGuard(s) \/ CompleteCheck(s) \/ CompleteRefused(s)

\* They leave the tables as they are, and take a draft to sign when it is the
\* lock's, or blindly.
LEMMA ReadingSigner ==
  ASSUME TypeOK, LockIsHashed, NEW s \in Signers, SignerReads(s)
  PROVE  /\ UNCHANGED <<draft, used, lock, revise, bundle, commit, hashed, loose>>
         /\ blind \subseteq blind'
         /\ \A r \in Signers :
              \/ signing'[r] = signing[r] \/ signing'[r] = None
              \/ signing'[r].draft = draft /\ signing'[r].at # "signing"
              \/ /\ signing[r] # None /\ signing'[r].draft = signing[r].draft
                 /\ signing'[r].at = "signing" => signing'[r].draft.text \in hashed \cup blind'
<1> USE DEF TypeOK, CeremonyLoad, CeremonyGuard
<1>1. CASE StartLoad(s) \/ CompleteLoad(s)
  BY <1>1 DEF StartLoad, CompleteLoad
<1>2. CASE StartGuard(s) \/ CompleteGuard(s)
  <2>1. \A at \in {"starting", "guarded"} :
          [signing[s] EXCEPT !.at = at].draft = signing[s].draft
            /\ [signing[s] EXCEPT !.at = at].at # "signing"
    BY <1>2 DEF StartGuard, CompleteGuard, Requests
  <2> QED
    BY <1>2, <2>1 DEF StartGuard, CompleteGuard
<1>3. CASE CompleteCheck(s)
  <2>1. [signing[s] EXCEPT !.at = "signing"].draft = signing[s].draft
    BY <1>3 DEF CompleteCheck, Requests
  <2>2. lock = None \/ Fresh(signing[s].draft, lock) => signing[s].draft.text \in hashed \cup blind'
    BY <1>3 DEF CompleteCheck, Fresh, LockIsHashed
  <2> QED
    BY <1>3, <2>1, <2>2 DEF CompleteCheck
<1>4. CASE CompleteRefused(s)
  BY <1>4 DEF CompleteRefused
<1> QED
  BY <1>1, <1>2, <1>3, <1>4 DEF SignerReads

\* Every step of a signer keeps the invariant: a signature is put on a text
\* that was compared with the lock, if there was one, with its link consumed by
\* the same save.
LEMMA SignerKeeps ==
  ASSUME IInv, NEW s \in Signers, SignerStep(s), TypeOK'
  PROVE  IInv'
<1>6. SignerReads(s) \/ StartSave(s) \/ CompleteSave(s)
  BY DEF SignerStep, SignerReads
<1>0. UNCHANGED <<lock, revise, commit, hashed, loose>> /\ blind \subseteq blind'
  BY <1>6, ReadingSigner DEF IInv, StartSave, CompleteSave
<1>1. used \subseteq used'
  BY <1>6, ReadingSigner DEF IInv, StartSave, CompleteSave, Consumed
<1>2. CommitIsUnsigned' /\ ReviseIsGood' /\ LockIsHashed'
  BY <1>0, <1>1 DEF IInv, Good, CommitIsUnsigned, ReviseIsGood, LockIsHashed
<1>3. CASE SignerReads(s)
  <2>1. UNCHANGED <<draft, used>>
    BY <1>3, ReadingSigner DEF IInv
  <2>2. \A r \in Signers :
          \/ signing'[r] = signing[r] \/ signing'[r] = None
          \/ signing'[r].draft = draft /\ signing'[r].at # "signing"
          \/ /\ signing[r] # None /\ signing'[r].draft = signing[r].draft
             /\ signing'[r].at = "signing" => signing'[r].draft.text \in hashed \cup blind'
    BY <1>3, ReadingSigner DEF IInv
  <2>3. Good(draft)' /\ SigningIsGood'
    BY <1>0, <2>1, <2>2 DEF IInv, Good, SigningIsGood
  <2> QED
    BY <1>2, <2>3 DEF IInv
<1>4. CASE StartSave(s) \/ CompleteSave(s)
  <2>1. \A r \in Signers : signing'[r] = signing[r] \/ signing'[r] = None
    BY <1>4 DEF StartSave, CompleteSave, IInv, TypeOK
  <2>2. SigningIsGood'
    BY <1>0, <1>1, <2>1 DEF IInv, Good, SigningIsGood
  <2>3. Good(draft)'
    <3>1. CASE StartSave(s)
      <4>1. signing[s].draft \in Drafts /\ Good(signing[s].draft)
        BY <3>1 DEF StartSave, IInv, TypeOK, Requests, SigningIsGood
      <4> QED
        BY <1>0, <3>1, <4>1, SavedIsGood DEF StartSave, IInv, Good
    <3>2. CASE CompleteSave(s)
      <4> DEFINE d == signing[s].draft
                 e == [d EXCEPT !.signed[s] = d.text]
      <4>1. d \in Drafts /\ Good(d) /\ d.text \in hashed \cup blind
        BY <3>2 DEF CompleteSave, IInv, TypeOK, Requests, SigningIsGood
      <4>2. e \in Drafts /\ e.text = d.text /\ e.signed = [d.signed EXCEPT ![s] = d.text]
        BY <4>1 DEF Drafts
      <4>3. \A r \in Signers : e.signed[r] = IF r = s THEN d.text ELSE d.signed[r]
        BY <4>1, <4>2 DEF Drafts
      <4>4. used' = used \cup {s} /\ Save(e)
        BY <3>2 DEF CompleteSave, Consumed
      <4>5. draft'.text = d.text /\ draft'.signed = e.signed
        BY <4>2, <4>4, SaveTypes DEF IInv
      <4> QED
        BY <1>0, <4>1, <4>3, <4>4, <4>5 DEF Good
    <3> QED
      BY <1>4, <3>1, <3>2
  <2> QED
    BY <1>2, <2>2, <2>3 DEF IInv
<1> QED
  BY <1>3, <1>4, <1>6

\* Writing a revision over a signed draft is what sets loose.
LEMMA ReviseKeeps == ASSUME IInv, ReviseSave, TypeOK' PROVE IInv'
<1>1. revise \in Drafts /\ Good(revise)
  BY DEF ReviseSave, IInv, TypeOK, ReviseIsGood
<1>2. PICK t \in Texts : Save([revise EXCEPT !.text = t])
  BY DEF ReviseSave
<1>3. [revise EXCEPT !.text = t] \in Drafts /\ [revise EXCEPT !.text = t].signed = revise.signed
  BY <1>1 DEF Drafts
<1>4. draft'.signed = revise.signed
  BY <1>2, <1>3, SaveTypes DEF IInv
<1>5. /\ UNCHANGED <<used, lock, signing, commit, hashed, blind>> /\ revise' = None
      /\ loose' = (loose \/ ~Unsigned(revise))
  BY DEF ReviseSave
<1>6. Good(draft)'
  BY <1>1, <1>4, <1>5 DEF Good, Unsigned
<1>7. SigningIsGood' /\ CommitIsUnsigned' /\ ReviseIsGood' /\ LockIsHashed'
  BY <1>5 DEF IInv, Good, SigningIsGood, CommitIsUnsigned, ReviseIsGood, LockIsHashed
<1> QED
  BY <1>6, <1>7 DEF IInv

\* Every step keeps the invariant.
LEMMA InvariantStep == IInv /\ [Next]_vars => IInv'
<1> SUFFICES ASSUME IInv, [Next]_vars PROVE IInv'
  OBVIOUS
<1>0. TypeOK'
  BY TypeStep DEF IInv
<1>1. CASE UNCHANGED vars
  BY <1>0, <1>1, QuietBrowserStep DEF vars
<1>2. CASE ReviseSend \/ ReviseLoad
  <2>1. UNCHANGED <<draft, used, lock, signing, commit, hashed, blind, loose>>
    BY <1>2 DEF ReviseSend, ReviseLoad
  <2>2. revise' = [at |-> "sent"] \/ revise' = draft
    BY <1>2 DEF ReviseSend, ReviseLoad
  <2>3. ReviseIsGood'
    BY <2>1, <2>2 DEF IInv, Good, ReviseIsGood
  <2> QED
    BY <1>0, <2>1, <2>3 DEF IInv, Good, SigningIsGood, CommitIsUnsigned, LockIsHashed
<1>3. CASE Unlock
  BY <1>0, <1>3 DEF Unlock, IInv, Good, SigningIsGood, CommitIsUnsigned, ReviseIsGood, LockIsHashed
<1> QED
  BY <1>0, <1>1, <1>2, <1>3, BrowserKeeps, SignerKeeps, ReviseKeeps DEF Next

-----------------------------------------------------------------------------
(* The history of a browser. *)

Recorded(bu, d) == \E i \in DOMAIN bu.rows : bu.rows[i] = d.text

\* What a browser has seen and what a commit has saved is not newer than the
\* stored draft, and of the same time only if of the same text.
SeenInv ==
  \A b \in Browsers :
    /\ bundle[b].seen <= draft.stamp
    /\ bundle[b].seen = draft.stamp => Recorded(bundle[b], draft)
    /\ commit[b] # None /\ commit[b].at = "saved" =>
         /\ commit[b].draft.stamp <= draft.stamp
         /\ commit[b].draft.stamp = draft.stamp => commit[b].draft.text = draft.text

\* A row that is added records its draft.
LEMMA RowRecords ==
  ASSUME NEW bu \in Bundles, NEW d \in Drafts
  PROVE  Row(bu, d).seen = d.stamp /\ Recorded(Row(bu, d), d)
<1>1. bu.rows \in Seq(Texts) /\ d.text \in Texts
  BY DEF Bundles, Drafts
<1>2. PICK added : added = Append(bu.rows, d.text)
  OBVIOUS
<1>3. /\ Len(bu.rows) + 1 \in DOMAIN added /\ added[Len(bu.rows) + 1] = d.text
  BY <1>1, <1>2, AppendProperties, LenProperties
<1>4. PICK kept : kept = [bu EXCEPT !.rows = added]
  OBVIOUS
<1>5. Row(bu, d) = [kept EXCEPT !.seen = d.stamp]
  BY <1>2, <1>4 DEF Row, Bundles
<1>6. Row(bu, d).rows = added /\ Row(bu, d).seen = d.stamp
  BY <1>4, <1>5 DEF Bundles
<1> QED
  BY <1>3, <1>6 DEF Recorded

\* A history that knows the text of a draft has it in a row.
LEMMA KnownIsRecorded ==
  ASSUME NEW b \in Browsers, NEW bu \in Bundles, NEW d \in Drafts, bu.rows # <<>>, Known(b, bu, d)
  PROVE  Recorded(bu, d)
<1>1. bu.rows \in Seq(Texts) /\ d.text \in Texts /\ d.text # None
  BY SigningLockAssumption DEF Bundles, Drafts
<1>2. CASE bu.rows[Len(bu.rows)] = d.text
  <2>1. Len(bu.rows) \in DOMAIN bu.rows
    BY <1>1, EmptySeq, LenProperties
  <2> QED
    BY <1>2, <2>1 DEF Recorded
<1>3. CASE LockedText(b, bu) = d.text
  <2>1. PICK i \in DOMAIN bu.rows : bu.lock = <<b, i>>
    BY <1>1, <1>3 DEF LockedText
  <2>2. LockedText(b, bu) = bu.rows[bu.lock[2]]
    BY <2>1 DEF LockedText
  <2>3. bu.lock[2] = i
    BY <2>1
  <2> QED
    BY <1>3, <2>2, <2>3 DEF Recorded
<1> QED
  BY <1>2, <1>3 DEF Known

\* The effect of the page records the draft it takes as seen, or leaves the
\* history as it is.
LEMMA EffectRecords ==
  ASSUME NEW b \in Browsers, NEW bu \in Bundles, NEW d \in Drafts, NEW h \in VersionIds \cup {None}
  PROVE  \/ Effect(b, bu, d, h).seen = d.stamp /\ Recorded(Effect(b, bu, d, h), d)
         \/ Effect(b, bu, d, h).seen = bu.seen /\ Effect(b, bu, d, h).rows = bu.rows
<1>1. PICK synced \in Bundles : synced = SyncOwner(b, bu, d)
  BY BundleTypes
<1>2. \/ synced.seen = d.stamp /\ Recorded(synced, d)
      \/ synced.seen = bu.seen /\ synced.rows = bu.rows
  <2>1. CASE bu.rows = <<>>
    BY <1>1, <2>1, RowRecords DEF SyncOwner
  <2>2. CASE bu.rows # <<>> /\ bu.seen = d.stamp
    BY <1>1, <2>2 DEF SyncOwner
  <2>3. CASE bu.rows # <<>> /\ bu.seen # d.stamp
    <3>1. CASE Known(b, bu, d)
      <4>1. synced = [bu EXCEPT !.seen = d.stamp]
        BY <1>1, <2>3, <3>1 DEF SyncOwner
      <4>2. synced.seen = d.stamp /\ synced.rows = bu.rows
        BY <4>1 DEF Bundles
      <4>3. Recorded(bu, d)
        BY <2>3, <3>1, KnownIsRecorded
      <4> QED
        BY <4>2, <4>3 DEF Recorded
    <3>2. CASE ~Known(b, bu, d)
      <4>1. synced = AppendVersion(bu, d)
        BY <1>1, <2>3, <3>2 DEF SyncOwner
      <4> QED
        BY <4>1, RowRecords DEF AppendVersion
    <3> QED
      BY <3>1, <3>2
  <2> QED
    BY <2>1, <2>2, <2>3
<1>3. Effect(b, bu, d, h).seen = synced.seen /\ Effect(b, bu, d, h).rows = synced.rows
  BY <1>1 DEF Effect, Bundles
<1> QED
  BY <1>2, <1>3 DEF Recorded

\* A save makes the stored draft newer than anything seen or saved before.
LEMMA SavedIsNewest ==
  ASSUME TypeOK, TypeOK', SeenInv, NEW d \in Drafts, Save(d), UNCHANGED bundle,
         \A b \in Browsers : commit'[b] = commit[b] \/ commit'[b].draft = draft'
  PROVE  SeenInv'
<1>1. draft'.stamp = draft.stamp + 1 /\ draft.stamp \in Nat
  BY SaveTypes DEF TypeOK, Drafts
<1> SUFFICES ASSUME NEW b \in Browsers
             PROVE  /\ bundle'[b].seen <= draft'.stamp
                    /\ bundle'[b].seen = draft'.stamp => Recorded(bundle'[b], draft')
                    /\ commit'[b] # None /\ commit'[b].at = "saved" =>
                         /\ commit'[b].draft.stamp <= draft'.stamp
                         /\ commit'[b].draft.stamp = draft'.stamp => commit'[b].draft.text = draft'.text
  BY DEF SeenInv, Recorded
<1>2. bundle[b].seen \in Nat /\ bundle[b].seen <= draft.stamp
  BY DEF SeenInv, TypeOK, Bundles
<1>3. ASSUME commit'[b] = commit[b], commit[b] # None, commit[b].at = "saved"
      PROVE  commit'[b].draft.stamp < draft'.stamp
  <2>1. commit[b].draft.stamp \in Nat
    BY <1>3 DEF TypeOK, Commits, Drafts
  <2>2. commit[b].draft.stamp <= draft.stamp
    BY <1>3 DEF SeenInv
  <2> QED
    BY <1>1, <1>3, <2>1, <2>2
<1>4. ASSUME commit'[b] = commit[b], commit'[b] # None, commit'[b].at = "saved"
      PROVE  /\ commit'[b].draft.stamp <= draft'.stamp
             /\ commit'[b].draft.stamp # draft'.stamp
  <2>1. commit'[b].draft.stamp \in Nat /\ draft'.stamp \in Nat
    BY <1>1, <1>4 DEF TypeOK, Commits, Drafts
  <2> QED
    BY <1>3, <1>4, <2>1
<1>5. ASSUME commit'[b].draft = draft'
      PROVE  commit'[b].draft.stamp <= draft'.stamp /\ commit'[b].draft.text = draft'.text
  BY <1>1, <1>5
<1> QED
  BY <1>1, <1>2, <1>4, <1>5

\* A step of a browser that saves nothing, and hands its history a draft
\* that is the stored one if as new as that.
LEMMA HistoryStep ==
  ASSUME TypeOK, TypeOK', SeenInv, UNCHANGED draft,
         \A b \in Browsers :
           /\ \/ bundle'[b].seen = bundle[b].seen /\ bundle'[b].rows = bundle[b].rows
              \/ /\ bundle'[b].seen <= draft.stamp
                 /\ bundle'[b].seen = draft.stamp => Recorded(bundle'[b], draft)
           /\ commit'[b] = commit[b] \/ commit'[b] = None \/ commit'[b].at # "saved"
  PROVE  SeenInv'
  BY DEF SeenInv, Recorded

\* Every step keeps what browsers have seen among their rows.
LEMMA SeenStep ==
  ASSUME TypeOK, TypeOK', SeenInv, [Next]_vars
  PROVE  SeenInv'
<1> USE DEF server
<1>0. draft \in Drafts /\ draft.stamp \in Nat
  BY DEF TypeOK, Drafts
<1>1. ASSUME NEW b \in Browsers, NEW bu \in Bundles, NEW d \in Drafts, NEW h \in VersionIds \cup {None},
             \/ bu.seen = bundle[b].seen /\ bu.rows = bundle[b].rows
             \/ bu.seen = d.stamp /\ Recorded(bu, d),
             d.stamp <= draft.stamp, d.stamp = draft.stamp => d.text = draft.text
      PROVE  \/ Effect(b, bu, d, h).seen = bundle[b].seen /\ Effect(b, bu, d, h).rows = bundle[b].rows
             \/ /\ Effect(b, bu, d, h).seen <= draft.stamp
                /\ Effect(b, bu, d, h).seen = draft.stamp => Recorded(Effect(b, bu, d, h), draft)
  <2>1. \/ Effect(b, bu, d, h).seen = d.stamp /\ Recorded(Effect(b, bu, d, h), d)
        \/ Effect(b, bu, d, h).seen = bu.seen /\ Effect(b, bu, d, h).rows = bu.rows
    BY EffectRecords
  <2> QED
    BY <1>1, <2>1 DEF Recorded
<1>2. ASSUME NEW b \in Browsers, LoadPage(b) \/ Refresh(b)
      PROVE  SeenInv'
  <2>1. PICK h \in VersionIds \cup {None} :
            bundle' = [bundle EXCEPT ![b] = Effect(b, bundle[b], draft, h)]
    <3>1. HydrateOf(lock) \in VersionIds \cup {None}
      BY DEF HydrateOf, TypeOK
    <3>2. Refresh(b) => page[b] \in VersionIds \cup {None}
      BY DEF Refresh, TypeOK
    <3> QED
      BY <1>2, <3>1, <3>2 DEF LoadPage, Refresh
  <2>2. bundle[b] \in Bundles
    BY DEF TypeOK
  <2>3. draft.stamp <= draft.stamp
    BY <1>0
  <2>4. \/ Effect(b, bundle[b], draft, h).seen = bundle[b].seen
           /\ Effect(b, bundle[b], draft, h).rows = bundle[b].rows
        \/ /\ Effect(b, bundle[b], draft, h).seen <= draft.stamp
           /\ Effect(b, bundle[b], draft, h).seen = draft.stamp =>
                Recorded(Effect(b, bundle[b], draft, h), draft)
    BY <1>0, <1>1, <2>2, <2>3
  <2>5. \A c \in Browsers : bundle'[c] = IF c = b THEN Effect(b, bundle[b], draft, h) ELSE bundle[c]
    BY <2>1 DEF TypeOK
  <2>6. draft' = draft /\ \A c \in Browsers : commit'[c] = commit[c] \/ commit'[c] = None
    BY <1>2 DEF LoadPage, Refresh, TypeOK
  <2> QED
    BY <2>4, <2>5, <2>6, HistoryStep
<1>3. ASSUME NEW b \in Browsers, CommitAnswer(b)
      PROVE  SeenInv'
  <2> DEFINE d == commit[b].draft
             bu == AppendVersion(bundle[b], d)
             new == Effect(b, bu, d, page[b])
  <2>1. d \in Drafts /\ bundle[b] \in Bundles /\ page[b] \in VersionIds \cup {None}
    BY <1>3 DEF CommitAnswer, TypeOK, Commits
  <2>2. bu \in Bundles
    BY <2>1, BundleTypes
  <2>3. \/ bu.seen = bundle[b].seen /\ bu.rows = bundle[b].rows
        \/ bu.seen = d.stamp /\ Recorded(bu, d)
    BY <2>1, RowRecords DEF AppendVersion
  <2>4. d.stamp <= draft.stamp /\ (d.stamp = draft.stamp => d.text = draft.text)
    BY <1>3 DEF CommitAnswer, SeenInv
  <2>5. \/ new.seen = bundle[b].seen /\ new.rows = bundle[b].rows
        \/ /\ new.seen <= draft.stamp
           /\ new.seen = draft.stamp => Recorded(new, draft)
    <3> HIDE DEF bu, d
    <3> QED
      BY <1>1, <2>1, <2>2, <2>3, <2>4
  <2>6. \A c \in Browsers : bundle'[c] = IF c = b THEN new ELSE bundle[c]
    BY <1>3 DEF CommitAnswer, TypeOK
  <2>7. draft' = draft /\ \A c \in Browsers : commit'[c] = commit[c] \/ commit'[c] = None
    BY <1>3 DEF CommitAnswer, TypeOK
  <2> HIDE DEF new
  <2> QED
    BY <2>5, <2>6, <2>7, HistoryStep
<1>4. ASSUME NEW b \in Browsers,
             \/ CommitSend(b) \/ CommitLoad(b) \/ PutRead(b) \/ PutWrite(b) \/ PutAnswer(b) \/ PutLost(b)
             \/ Reopen(b) \/ \E i \in 1 .. MaxVersions : Finalize(b, i)
      PROVE  SeenInv'
  <2>1. draft' = draft
    BY <1>4 DEF CommitSend, CommitLoad, PutRead, PutWrite, PutAnswer, PutLost, Reopen, Finalize
  <2>2. \A c \in Browsers : bundle'[c].seen = bundle[c].seen /\ bundle'[c].rows = bundle[c].rows
    <3>1. \A c \in Browsers : bundle[c] \in Bundles
      BY DEF TypeOK
    <3>2. bundle' = bundle \/ \E l \in VersionIds \cup {None} : bundle' = [bundle EXCEPT ![b].lock = l]
      <4>1. ASSUME NEW i \in 1 .. MaxVersions, Finalize(b, i)
            PROVE  <<b, i>> \in VersionIds /\ bundle' = [bundle EXCEPT ![b].lock = <<b, i>>]
        BY <4>1 DEF Finalize, VersionIds
      <4> QED
        BY <1>4, <4>1 DEF CommitSend, CommitLoad, PutRead, PutWrite, PutAnswer, PutLost, Reopen
    <3> QED
      BY <3>1, <3>2 DEF TypeOK, Bundles
  <2>3. \A c \in Browsers : commit'[c] = commit[c] \/ commit'[c] = None \/ commit'[c].at # "saved"
    BY <1>4 DEF CommitSend, CommitLoad, PutRead, PutWrite, PutAnswer, PutLost, Reopen, Finalize, TypeOK
  <2> QED
    BY <2>1, <2>2, <2>3, HistoryStep
<1>5. ASSUME NEW b \in Browsers, CommitSave(b)
      PROVE  SeenInv'
  <2>1. commit[b].draft \in Drafts
    BY <1>5 DEF CommitSave, TypeOK, Commits
  <2>2. PICK t \in Texts : Save([commit[b].draft EXCEPT !.text = t])
    BY <1>5 DEF CommitSave
  <2>3. [commit[b].draft EXCEPT !.text = t] \in Drafts
    BY <2>1 DEF Drafts
  <2>4. UNCHANGED bundle /\ \A c \in Browsers : commit'[c] = commit[c] \/ commit'[c].draft = draft'
    BY <1>5 DEF CommitSave, TypeOK
  <2> QED
    BY <2>2, <2>3, <2>4, SavedIsNewest
<1>6. ASSUME NEW s \in Signers, SignerStep(s)
      PROVE  SeenInv'
  <2>5. UNCHANGED <<bundle, commit>> /\ (draft' = draft \/ StartSave(s) \/ CompleteSave(s))
    BY <1>6 DEF SignerStep, StartLoad, StartGuard, StartSave, CompleteLoad, CompleteGuard,
                CompleteCheck, CompleteSave, CompleteRefused, CeremonyLoad, CeremonyGuard
  <2>1. UNCHANGED <<bundle, commit>>
    BY <2>5
  <2>2. CASE StartSave(s)
    <3>1. signing[s].draft \in Drafts /\ Save(signing[s].draft)
      BY <2>2 DEF StartSave, TypeOK, Requests
    <3> QED
      BY <2>1, <3>1, SavedIsNewest
  <2>3. CASE CompleteSave(s)
    <3>1. PICK d \in Drafts : Save([d EXCEPT !.signed[s] = d.text])
      BY <2>3 DEF CompleteSave, TypeOK, Requests
    <3>2. [d EXCEPT !.signed[s] = d.text] \in Drafts
      BY <3>1 DEF Drafts
    <3> QED
      BY <2>1, <3>1, <3>2, SavedIsNewest
  <2>4. CASE draft' = draft
    BY <2>1, <2>4, HistoryStep
  <2> QED
    BY <2>2, <2>3, <2>4, <2>5
<1>7. ASSUME ReviseSave
      PROVE  SeenInv'
  <2>1. revise \in Drafts
    BY <1>7 DEF ReviseSave, TypeOK
  <2>2. PICK t \in Texts : Save([revise EXCEPT !.text = t])
    BY <1>7 DEF ReviseSave
  <2>3. [revise EXCEPT !.text = t] \in Drafts
    BY <2>1 DEF Drafts
  <2>4. UNCHANGED <<bundle, commit>>
    BY <1>7 DEF ReviseSave
  <2> QED
    BY <2>2, <2>3, <2>4, SavedIsNewest
<1>8. ASSUME ReviseSend \/ ReviseLoad \/ Unlock \/ UNCHANGED vars
      PROVE  SeenInv'
  <2>1. UNCHANGED <<draft, bundle, commit>>
    BY <1>8 DEF ReviseSend, ReviseLoad, Unlock, vars
  <2> QED
    BY <2>1, HistoryStep
<1> QED
  BY <1>2, <1>3, <1>4, <1>5, <1>6, <1>7, <1>8 DEF Next, BrowserStep

-----------------------------------------------------------------------------
(* Theorems. *)

\* The inductive invariant holds.
LEMMA InvariantHolds == Spec => []IInv
<1>1. Init => IInv
  BY InvariantInit
<1>2. IInv /\ [Next]_vars => IInv'
  BY InvariantStep
<1> QED
  BY <1>1, <1>2, PTL DEF Spec

\* Browsers, server and requests only ever hold values of the intended kinds,
\* whichever order loads, saves and answers come in.
THEOREM TypeCorrect == Spec => []TypeOK
<1>1. IInv => TypeOK
  BY DEF IInv
<1> QED
  BY <1>1, InvariantHolds, PTL

\* signing-ceremony/complete signs only what some signing lock hashed, however
\* locks, revisions and saves from old copies interleave, unless the lock it has
\* asked for is gone by the time it reads the hash.
THEOREM SignedWasLocked == Spec => []SignedTextWasLocked
<1>1. IInv => SignedTextWasLocked
  BY DEF IInv, Good, SignedTextWasLocked
<1> QED
  BY <1>1, InvariantHolds, PTL

\* Only revise, or the application of a proposal, can part the signatures of
\* the stored draft from its text.
THEOREM SignaturesStayWithText == Spec => []SignaturesMatchText
<1>1. IInv => SignaturesMatchText
  BY DEF IInv, Good, SignaturesMatchText
<1> QED
  BY <1>1, InvariantHolds, PTL

\* No interleaving of completions with saves of the whole draft leaves a
\* signature whose single-use link still works.
THEOREM SignaturesUseLinksUp == Spec => []SignaturesConsumeLinks
<1>1. IInv => SignaturesConsumeLinks
  BY DEF IInv, Good, SignaturesConsumeLinks
<1> QED
  BY <1>1, InvariantHolds, PTL

\* What syncOwnerFromServerDraft takes as seen of the stored draft is among the
\* rows of the browser, whatever locks were held when drafts arrived.
THEOREM SeenRevisionsAreRecorded == Spec => []SeenIsRecorded
<1>1. Init => SeenInv
  <2> SUFFICES ASSUME Init PROVE SeenInv
    OBVIOUS
  <2>1. draft.stamp = 1
    BY DEF Init
  <2> QED
    BY <2>1 DEF Init, SeenInv
<1>2. IInv /\ IInv' /\ SeenInv /\ [Next]_vars => SeenInv'
  BY SeenStep DEF IInv
<1>3. SeenInv => SeenIsRecorded
  BY DEF SeenInv, SeenIsRecorded, Recorded
<1> QED
  BY <1>1, <1>2, <1>3, InvariantHolds, PTL DEF Spec

-----------------------------------------------------------------------------
(* The queue of paid proofs.                                                  *)

\* The rows, and what a worker holds: one job while it anchors, which is no
\* longer among those it selected, and a transaction of that job to record.
QueueWorkerOk(w) ==
    /\ pc[w] \in {"anchor", "mark_done", "mark_failed"} <=> job[w] # {}
    /\ \A j, k \in job[w] : j = k
    /\ job[w] \cap selected[w] = {}
    /\ pc[w] = "idle" => selected[w] = {}
    /\ pc[w] = "mark_done" => \A j \in job[w] : txid[w] \in 1 .. sent[j]
    /\ \A j \in selected[w] : jobs[j].status # "missing"
    /\ pc[w] # "mark_claimed" =>
          \A j \in selected[w] \cup job[w] : jobs[j].status \notin {"missing", "pending"}

\* Worker w may broadcast j once more: the row waits for a claim, or w has it.
QueueMay(w, j) ==
    \/ jobs[j].status \in {"missing", "pending"}
    \/ j \in selected[w]
    \/ pc[w] = "anchor" /\ j \in job[w]

QueueOpen(j) == {w \in Workers : QueueMay(w, j)}

QueueRowOk(j) ==
    /\ sent[j] + Cardinality(QueueOpen(j)) <= Cardinality(Workers)
    /\ jobs[j].status = "done" => jobs[j].txid \in 1 .. sent[j]
    /\ jobs[j].status \in {"missing", "pending"} => sent[j] = 0 /\ jobs[j].txid = NoTx

QueueInv ==
    /\ QueueTypeOK
    /\ \A w \in Workers : QueueWorkerOk(w)
    /\ \A j \in Jobs : QueueRowOk(j)

Waiting == {"missing", "pending"}

\* What the updates of a row do.
LEMMA QueueUpdates ==
  ASSUME NEW row \in [status : Statuses, txid : Nat], NEW t \in Nat
  PROVE  /\ Done(row, t) \in [status : Statuses, txid : Nat]
         /\ Failed(row) \in [status : Statuses, txid : Nat]
         /\ Done(row, t).status = "done" /\ Done(row, t).txid = t
         /\ Failed(row).status = "failed" /\ Failed(row).txid = row.txid
  BY DEF Done, Failed, Statuses

\* The claim of a batch.
LEMMA QueueMarks ==
  ASSUME QueueTypeOK, NEW B \in SUBSET Jobs
  PROVE  /\ Marked(B) \in [Jobs -> [status : Statuses, txid : Nat]]
         /\ \A j \in Jobs : IF j \in B /\ jobs[j].status = "pending"
                              THEN Marked(B)[j].status = "claimed"
                              ELSE Marked(B)[j] = jobs[j]
<1> USE DEF QueueTypeOK, Statuses
<1>1. ASSUME NEW j \in Jobs
      PROVE  /\ jobs[j] \in [status : Statuses, txid : Nat]
             /\ [jobs[j] EXCEPT !.status = "claimed"] \in [status : Statuses, txid : Nat]
             /\ [jobs[j] EXCEPT !.status = "claimed"].status = "claimed"
  OBVIOUS
<1> QED
  BY <1>1 DEF Marked

\* A result replaces the row of the job in hand.
LEMMA QueueResult ==
  ASSUME QueueTypeOK, NEW w \in Workers, QueueWorkerOk(w), MarkDone(w) \/ MarkFailed(w)
  PROVE  \E j \in Jobs :
            /\ job[w] = {j} /\ job' = [job EXCEPT ![w] = {}]
            /\ pc' = [pc EXCEPT ![w] = "next"]
            /\ sent' = sent /\ selected' = selected /\ crashes' = crashes
            /\ \/ txid' = [txid EXCEPT ![w] = NoTx]
               \/ txid' = txid
            /\ jobs' \in [Jobs -> [status : Statuses, txid : Nat]]
            /\ \A k \in Jobs \ {j} : jobs'[k] = jobs[k]
            /\ \/ jobs'[j].status = "failed"
               \/ jobs'[j].status = "done" /\ jobs'[j].txid \in 1 .. sent[j]
<1> USE DEF QueueTypeOK
<1>1. CASE MarkDone(w)
  <2>1. PICK j \in job[w] : jobs' = [jobs EXCEPT ![j] = Done(jobs[j], txid[w])]
    BY <1>1 DEF MarkDone
  <2>2. j \in Jobs /\ job[w] = {j} /\ txid[w] \in 1 .. sent[j]
    BY <1>1 DEF MarkDone, QueueWorkerOk
  <2>3. /\ Done(jobs[j], txid[w]) \in [status : Statuses, txid : Nat]
        /\ Done(jobs[j], txid[w]).status = "done" /\ Done(jobs[j], txid[w]).txid = txid[w]
    <3>0. PICK row \in [status : Statuses, txid : Nat] : row = jobs[j]
      BY <2>2
    <3>1. PICK t \in Nat : t = txid[w]
      OBVIOUS
    <3>2. /\ Done(row, t) \in [status : Statuses, txid : Nat]
          /\ Done(row, t).status = "done" /\ Done(row, t).txid = t
      <4> HIDE DEF QueueTypeOK
      <4>1. row \in [status : Statuses, txid : Nat] /\ t \in Nat
        OBVIOUS
      <4> QED
        BY <4>1, QueueUpdates
    <3> QED
      BY <3>0, <3>1, <3>2
  <2> QED
    BY <1>1, <2>1, <2>2, <2>3 DEF MarkDone
<1>2. CASE MarkFailed(w)
  <2>1. PICK j \in job[w] : jobs' = [jobs EXCEPT ![j] = Failed(jobs[j])]
    BY <1>2 DEF MarkFailed
  <2>2. j \in Jobs /\ job[w] = {j}
    BY DEF QueueWorkerOk
  <2>3. /\ Failed(jobs[j]) \in [status : Statuses, txid : Nat]
        /\ Failed(jobs[j]).status = "failed"
    <3>1. 0 \in Nat
      OBVIOUS
    <3> QED
      BY <2>2, <3>1, QueueUpdates
  <2> QED
    BY <1>2, <2>1, <2>2, <2>3 DEF MarkFailed
<1> QED
  BY <1>1, <1>2

\* A broadcast of the job in hand.
LEMMA QueueBroadcast ==
  ASSUME QueueTypeOK, NEW w \in Workers, QueueWorkerOk(w),
          AnchorReturns(w) \/ AnchorRaises(w)
  PROVE  \E j \in Jobs :
            /\ job[w] = {j} /\ job' = job /\ pc[w] = "anchor"
            /\ jobs' = jobs /\ selected' = selected /\ crashes' = crashes
            /\ sent' = sent \/ sent' = [sent EXCEPT ![j] = @ + 1]
            /\ \/ pc' = [pc EXCEPT ![w] = "mark_failed"] /\ txid' = txid
               \/ /\ pc' = [pc EXCEPT ![w] = "mark_done"]
                  /\ txid' = [txid EXCEPT ![w] = sent[j] + 1] /\ sent'[j] = sent[j] + 1
<1> USE DEF QueueTypeOK
<1>1. PICK j \in Jobs : job[w] = {j}
  BY DEF QueueWorkerOk, AnchorReturns, AnchorRaises
<1>2. CASE AnchorReturns(w)
  BY <1>1, <1>2 DEF AnchorReturns
<1>3. CASE AnchorRaises(w)
  BY <1>1, <1>3 DEF AnchorRaises
<1> QED
  BY <1>2, <1>3

\* A worker that does not act stays as it is while rows leave the waiting
\* states for good and broadcasts grow.
LEMMA QueueBystander ==
  ASSUME QueueTypeOK, QueueTypeOK', NEW v \in Workers, QueueWorkerOk(v),
         pc'[v] = pc[v], job'[v] = job[v], selected'[v] = selected[v], txid'[v] = txid[v],
         \A j \in Jobs : /\ sent[j] <= sent'[j]
                         /\ jobs[j].status # "missing" => jobs'[j].status # "missing"
                         /\ jobs[j].status \notin Waiting => jobs'[j].status \notin Waiting
  PROVE  QueueWorkerOk(v)'
<1>1. \A j \in Jobs, t \in Nat : t \in 1 .. sent[j] => t \in 1 .. sent'[j]
  BY DEF QueueTypeOK
<1> QED
  BY <1>1 DEF QueueWorkerOk, QueueTypeOK, Waiting

\* Types and what workers hold are preserved.
LEMMA QueueWorkers ==
  ASSUME QueueTypeOK, \A w \in Workers : QueueWorkerOk(w), [QueueNext]_queueVars
  PROVE  QueueTypeOK' /\ \A w \in Workers : QueueWorkerOk(w)'
<1> USE DEF QueueTypeOK
<1>1. ASSUME QueueTypeOK', NEW w \in Workers, QueueWorkerOk(w)',
             \A v \in Workers \ {w} : /\ pc'[v] = pc[v] /\ job'[v] = job[v]
                                      /\ selected'[v] = selected[v] /\ txid'[v] = txid[v],
             \A j \in Jobs : /\ sent[j] <= sent'[j]
                             /\ jobs[j].status # "missing" => jobs'[j].status # "missing"
                             /\ jobs[j].status \notin Waiting => jobs'[j].status \notin Waiting
      PROVE  \A v \in Workers : QueueWorkerOk(v)'
  BY <1>1, QueueBystander
<1>2. ASSUME NEW j \in Jobs, Enqueue(j)
      PROVE  QueueTypeOK' /\ \A w \in Workers : QueueWorkerOk(w)'
  <2>1. QueueTypeOK'
    BY <1>2 DEF Enqueue, Statuses
  <2>2. \A k \in Jobs : /\ jobs[k].status # "missing" => jobs'[k] = jobs[k]
    BY <1>2 DEF Enqueue
  <2> QED
    BY <1>2, <2>1, <2>2, QueueBystander DEF Enqueue, Waiting
<1>3. ASSUME NEW w \in Workers, Select(w)
      PROVE  QueueTypeOK' /\ \A v \in Workers : QueueWorkerOk(v)'
  <2>1. PICK batch \in SUBSET Pending : selected' = [selected EXCEPT ![w] = batch]
    BY <1>3 DEF Select
  <2>2. /\ pc' = [pc EXCEPT ![w] = "mark_claimed"] /\ pc[w] = "idle"
        /\ jobs' = jobs /\ sent' = sent /\ job' = job /\ txid' = txid /\ crashes' = crashes
    BY <1>3 DEF Select
  <2>3. QueueTypeOK'
    BY <2>1, <2>2 DEF Pending, PCs
  <2>4. QueueWorkerOk(w)'
    BY <2>1, <2>2 DEF QueueWorkerOk, Pending
  <2> QED
    BY <1>1, <2>1, <2>2, <2>3, <2>4
<1>4. ASSUME NEW w \in Workers, MarkClaimed(w)
      PROVE  QueueTypeOK' /\ \A v \in Workers : QueueWorkerOk(v)'
  <2>1. /\ pc' = [pc EXCEPT ![w] = "next"] /\ pc[w] = "mark_claimed"
        /\ sent' = sent /\ selected' = selected /\ job' = job /\ txid' = txid /\ crashes' = crashes
    BY <1>4 DEF MarkClaimed
  <2>2. /\ jobs' \in [Jobs -> [status : Statuses, txid : Nat]]
        /\ \A j \in Jobs : IF j \in selected[w] /\ jobs[j].status = "pending"
                             THEN jobs'[j].status = "claimed" ELSE jobs'[j] = jobs[j]
    BY <1>4, QueueMarks DEF MarkClaimed
  <2>3. QueueTypeOK'
    BY <2>1, <2>2 DEF PCs
  <2>4. \A j \in Jobs : /\ jobs[j].status # "missing" => jobs'[j].status # "missing"
                        /\ jobs[j].status \notin Waiting => jobs'[j].status \notin Waiting
                        /\ j \in selected[w] /\ jobs[j].status # "missing"
                             => jobs'[j].status \notin Waiting
    BY <2>2 DEF Waiting
  <2>5. QueueWorkerOk(w)'
    BY <2>1, <2>4 DEF QueueWorkerOk, Waiting
  <2> QED
    BY <1>1, <2>1, <2>3, <2>4, <2>5
<1>5. ASSUME NEW w \in Workers, NextJob(w) \/ EndCycle(w) \/ MarkDoneRaises(w)
        \/ Crash(w)
      PROVE  QueueTypeOK' /\ \A v \in Workers : QueueWorkerOk(v)'
  <2>1. QueueTypeOK'
    BY <1>5 DEF NextJob, EndCycle, MarkDoneRaises, Crash, PCs, NoTx
  <2>2. QueueWorkerOk(w)
    OBVIOUS
  <2>3. NextJob(w) => QueueWorkerOk(w)'
    BY <2>2 DEF NextJob, QueueWorkerOk
  <2>4. EndCycle(w) \/ MarkDoneRaises(w) \/ Crash(w) => QueueWorkerOk(w)'
    BY <2>2 DEF EndCycle, MarkDoneRaises, Crash, QueueWorkerOk
  <2>5. jobs' = jobs /\ sent' = sent
    BY <1>5 DEF NextJob, EndCycle, MarkDoneRaises, Crash
  <2>6. \A v \in Workers \ {w} : /\ pc'[v] = pc[v] /\ job'[v] = job[v]
                                 /\ selected'[v] = selected[v] /\ txid'[v] = txid[v]
    BY <1>5 DEF NextJob, EndCycle, MarkDoneRaises, Crash
  <2> QED
    BY <1>1, <1>5, <2>1, <2>3, <2>4, <2>5, <2>6
<1>6. ASSUME NEW w \in Workers, AnchorReturns(w) \/ AnchorRaises(w)
      PROVE  QueueTypeOK' /\ \A v \in Workers : QueueWorkerOk(v)'
  <2>1. PICK j \in Jobs :
            /\ job[w] = {j} /\ job' = job /\ pc[w] = "anchor"
            /\ jobs' = jobs /\ selected' = selected /\ crashes' = crashes
            /\ sent' = sent \/ sent' = [sent EXCEPT ![j] = @ + 1]
            /\ \/ pc' = [pc EXCEPT ![w] = "mark_failed"] /\ txid' = txid
               \/ /\ pc' = [pc EXCEPT ![w] = "mark_done"]
                  /\ txid' = [txid EXCEPT ![w] = sent[j] + 1] /\ sent'[j] = sent[j] + 1
    BY <1>6, QueueBroadcast
  <2>2. QueueTypeOK' /\ \A k \in Jobs : sent[k] <= sent'[k]
    <3>0. PICK t \in Nat : t = sent[j] + 1
      BY <2>1
    <3>1. sent' \in [Jobs -> Nat] /\ \A k \in Jobs : sent[k] <= sent'[k]
      <4>1. CASE sent' = sent
        BY <4>1
      <4>2. CASE sent' = [sent EXCEPT ![j] = t]
        BY <2>1, <3>0, <4>2
      <4> QED
        BY <2>1, <3>0, <4>1, <4>2
    <3>2. txid' \in [Workers -> Nat]
      <4>1. txid' = txid \/ txid' = [txid EXCEPT ![w] = t]
        BY <2>1, <3>0
      <4> QED
        BY <4>1
    <3>3. pc' \in [Workers -> PCs]
      BY <2>1 DEF PCs
    <3> QED
      BY <2>1, <3>1, <3>2, <3>3
  <2>3. QueueWorkerOk(w)'
    BY <2>1, <2>2 DEF QueueWorkerOk
  <2> QED
    BY <1>1, <2>1, <2>2, <2>3
<1>7. ASSUME NEW w \in Workers, MarkDone(w) \/ MarkFailed(w)
      PROVE  QueueTypeOK' /\ \A v \in Workers : QueueWorkerOk(v)'
  <2>1. PICK j \in Jobs :
            /\ job[w] = {j} /\ job' = [job EXCEPT ![w] = {}]
            /\ pc' = [pc EXCEPT ![w] = "next"]
            /\ sent' = sent /\ selected' = selected /\ crashes' = crashes
            /\ txid' = [txid EXCEPT ![w] = NoTx] \/ txid' = txid
            /\ jobs' \in [Jobs -> [status : Statuses, txid : Nat]]
            /\ \A k \in Jobs \ {j} : jobs'[k] = jobs[k]
            /\ jobs'[j].status \in {"failed", "done"}
    BY <1>7, QueueResult
  <2>2. QueueTypeOK'
    BY <2>1 DEF PCs, NoTx
  <2>3. \A k \in Jobs : /\ jobs[k].status # "missing" => jobs'[k].status # "missing"
                        /\ jobs[k].status \notin Waiting => jobs'[k].status \notin Waiting
    BY <2>1 DEF Waiting
  <2>4. pc[w] # "mark_claimed" /\ pc[w] # "idle"
    BY <1>7 DEF MarkDone, MarkFailed
  <2>5. QueueWorkerOk(w)'
    BY <2>1, <2>3, <2>4 DEF QueueWorkerOk, Waiting
  <2> QED
    BY <1>1, <2>1, <2>2, <2>3, <2>5
<1>8. CASE UNCHANGED queueVars
  BY <1>8 DEF queueVars, QueueWorkerOk
<1> QED
  BY <1>2, <1>3, <1>4, <1>5, <1>6, <1>7, <1>8 DEF QueueNext, Cycle

\* Cardinality and finiteness inside the instance are those of FiniteSets.
LEMMA QueueCounting ==
  ASSUME NEW S
  PROVE  Cardinality(S) = Cardinality(S) /\ (IsFiniteSet(S) <=> IsFiniteSet(S))
  BY DEF Cardinality, Cardinality, IsFiniteSet, IsFiniteSet

\* The workers that may broadcast a job are finitely many.
LEMMA QueueOpenFinite ==
  ASSUME NEW j \in Jobs
  PROVE  /\ IsFiniteSet(QueueOpen(j)) /\ Cardinality(QueueOpen(j)) \in Nat
         /\ IsFiniteSet(QueueOpen(j)') /\ Cardinality(QueueOpen(j)') \in Nat
         /\ Cardinality(Workers) \in Nat
  BY QueueConstants, FS_Subset, FS_CardinalityType, QueueCounting DEF QueueOpen

\* A step without a broadcast that lets nobody at the job in addition.
LEMMA QueueRowFrame ==
  ASSUME QueueTypeOK, NEW j \in Jobs, QueueRowOk(j),
         \A v \in Workers : QueueMay(v, j)' => QueueMay(v, j),
         sent'[j] = sent[j],
         jobs'[j].status = "done" => jobs'[j].txid \in 1 .. sent[j],
         jobs'[j].status \in Waiting => jobs[j].status \in Waiting /\ jobs'[j].txid = jobs[j].txid
  PROVE  QueueRowOk(j)'
<1>1. QueueOpen(j)' \subseteq QueueOpen(j)
  BY DEF QueueOpen
<1>2. Cardinality(QueueOpen(j)') <= Cardinality(QueueOpen(j))
  BY <1>1, QueueOpenFinite, FS_Subset
<1>3. sent[j] \in Nat
  BY DEF QueueTypeOK
<1>4. sent'[j] + Cardinality(QueueOpen(j)') <= Cardinality(Workers)
  BY <1>2, <1>3, QueueOpenFinite DEF QueueRowOk
<1> QED
  BY <1>4 DEF QueueRowOk, Waiting

\* A broadcast is the last of its worker for that job.
LEMMA QueueRowBroadcast ==
  ASSUME QueueInv, NEW w \in Workers,
          AnchorReturns(w) \/ AnchorRaises(w)
  PROVE  \A j \in Jobs : QueueRowOk(j)'
<1> USE DEF QueueInv, QueueTypeOK
<1>1. PICK j \in Jobs :
          /\ job[w] = {j} /\ job' = job /\ pc[w] = "anchor"
          /\ jobs' = jobs /\ selected' = selected
          /\ sent' = sent \/ sent' = [sent EXCEPT ![j] = @ + 1]
          /\ pc' = [pc EXCEPT ![w] = "mark_failed"] \/ pc' = [pc EXCEPT ![w] = "mark_done"]
  BY QueueBroadcast
<1>2. jobs[j].status \notin Waiting /\ j \notin selected[w]
  BY <1>1 DEF QueueWorkerOk, Waiting
<1>3. \A k \in Jobs, v \in Workers : QueueMay(v, k)' => QueueMay(v, k)
  BY <1>1 DEF QueueMay
<1>4. ASSUME NEW k \in Jobs, sent'[k] = sent[k]
      PROVE  QueueRowOk(k)'
  BY <1>1, <1>3, <1>4, QueueRowFrame DEF QueueRowOk
<1>5. ASSUME sent' = [sent EXCEPT ![j] = @ + 1]
      PROVE  QueueRowOk(j)'
  <2>1. w \in QueueOpen(j) /\ QueueOpen(j)' \subseteq QueueOpen(j) \ {w}
    BY <1>1, <1>2, <1>3 DEF QueueOpen, QueueMay, Waiting
  <2>2. /\ Cardinality(QueueOpen(j) \ {w}) = Cardinality(QueueOpen(j)) - 1
        /\ IsFiniteSet(QueueOpen(j) \ {w})
    BY <2>1, QueueOpenFinite, FS_RemoveElement
  <2>3. Cardinality(QueueOpen(j)') <= Cardinality(QueueOpen(j)) - 1
    BY <2>1, <2>2, FS_Subset
  <2>4. sent[j] \in Nat /\ sent'[j] = sent[j] + 1
    BY <1>5
  <2>5. sent'[j] + Cardinality(QueueOpen(j)') <= Cardinality(Workers)
    BY <2>3, <2>4, QueueOpenFinite DEF QueueRowOk
  <2>6. jobs[j].status = "done" => jobs[j].txid \in 1 .. sent'[j]
    BY <2>4 DEF QueueRowOk
  <2> QED
    BY <1>1, <1>2, <2>5, <2>6 DEF QueueRowOk, Waiting
<1> QED
  BY <1>1, <1>4, <1>5

\* The other steps broadcast nothing.
LEMMA QueueRows ==
  ASSUME QueueInv, [QueueNext]_queueVars
  PROVE  \A j \in Jobs : QueueRowOk(j)'
<1> USE DEF QueueInv, QueueTypeOK
<1>0. \A j \in Jobs : QueueRowOk(j)
  OBVIOUS
<1>1. ASSUME jobs' = jobs, sent' = sent,
             \A j \in Jobs, v \in Workers : QueueMay(v, j)' => QueueMay(v, j)
      PROVE  \A j \in Jobs : QueueRowOk(j)'
  BY <1>1, QueueRowFrame DEF QueueRowOk
<1>2. ASSUME NEW j \in Jobs, Enqueue(j)
      PROVE  \A k \in Jobs : QueueRowOk(k)'
  <2>1. /\ \A k \in Jobs \ {j} : jobs'[k] = jobs[k]
        /\ jobs[j].status = "missing" /\ jobs'[j].status = "pending" /\ jobs'[j].txid = jobs[j].txid
        /\ UNCHANGED <<sent, pc, selected, job>>
    BY <1>2 DEF Enqueue, Statuses
  <2>2. \A k \in Jobs, v \in Workers : QueueMay(v, k)' => QueueMay(v, k)
    BY <2>1 DEF QueueMay
  <2>3. ASSUME NEW k \in Jobs
        PROVE  QueueRowOk(k)'
    BY <2>1, <2>2, QueueRowFrame DEF QueueRowOk, Waiting
  <2> QED
    BY <2>3
<1>3. ASSUME NEW w \in Workers,
             \/ Select(w) \/ NextJob(w) \/ EndCycle(w) \/ MarkDoneRaises(w)
                     \/ Crash(w)
      PROVE  \A j \in Jobs : QueueRowOk(j)'
  <2>1. jobs' = jobs /\ sent' = sent
    BY <1>3 DEF Select, NextJob, EndCycle, MarkDoneRaises, Crash
  <2>2. Select(w) => \A j \in Jobs, v \in Workers : QueueMay(v, j)' => QueueMay(v, j)
    BY DEF Select, Pending, QueueMay
  <2>3. NextJob(w) => \A j \in Jobs, v \in Workers : QueueMay(v, j)' => QueueMay(v, j)
    BY DEF NextJob, QueueMay
  <2>4. EndCycle(w) \/ MarkDoneRaises(w) \/ Crash(w)
          => \A j \in Jobs, v \in Workers : QueueMay(v, j)' => QueueMay(v, j)
    BY DEF EndCycle, MarkDoneRaises, Crash, QueueMay
  <2> QED
    BY <1>1, <1>3, <2>1, <2>2, <2>3, <2>4
<1>4. ASSUME NEW w \in Workers, MarkClaimed(w)
      PROVE  \A j \in Jobs : QueueRowOk(j)'
  <2>1. UNCHANGED <<sent, selected, job>> /\ pc' = [pc EXCEPT ![w] = "next"]
    BY <1>4 DEF MarkClaimed
  <2>2. \A j \in Jobs : IF j \in selected[w] /\ jobs[j].status = "pending"
                          THEN jobs'[j].status = "claimed" ELSE jobs'[j] = jobs[j]
    BY <1>4, QueueMarks DEF MarkClaimed
  <2>3. \A j \in Jobs, v \in Workers : QueueMay(v, j)' => QueueMay(v, j)
    BY <2>1, <2>2 DEF QueueMay
  <2>4. ASSUME NEW j \in Jobs
        PROVE  QueueRowOk(j)'
    BY <2>1, <2>2, <2>3, QueueRowFrame DEF QueueRowOk, Waiting
  <2> QED
    BY <2>4
<1>5. ASSUME NEW w \in Workers, MarkDone(w) \/ MarkFailed(w)
      PROVE  \A j \in Jobs : QueueRowOk(j)'
  <2>1. PICK j \in Jobs :
            /\ job[w] = {j} /\ job' = [job EXCEPT ![w] = {}]
            /\ pc' = [pc EXCEPT ![w] = "next"]
            /\ sent' = sent /\ selected' = selected
            /\ \A k \in Jobs \ {j} : jobs'[k] = jobs[k]
            /\ \/ jobs'[j].status = "failed"
               \/ jobs'[j].status = "done" /\ jobs'[j].txid \in 1 .. sent[j]
    BY <1>5, QueueResult
  <2>2. \A k \in Jobs, v \in Workers : QueueMay(v, k)' => QueueMay(v, k)
    BY <2>1 DEF QueueMay
  <2>3. ASSUME NEW k \in Jobs
        PROVE  QueueRowOk(k)'
    <3>1. CASE k = j
      BY <2>1, <2>2, <3>1, QueueRowFrame DEF Waiting
    <3>2. CASE k # j
      BY <2>1, <2>2, <3>2, QueueRowFrame DEF QueueRowOk, Waiting
    <3> QED
      BY <3>1, <3>2
  <2> QED
    BY <2>3
<1>6. CASE UNCHANGED queueVars
  <2>1. \A j \in Jobs, v \in Workers : QueueMay(v, j)' => QueueMay(v, j)
    BY <1>6 DEF queueVars, QueueMay
  <2> QED
    BY <1>1, <1>6, <2>1 DEF queueVars
<1> QED
  BY <1>2, <1>3, <1>4, <1>5, <1>6, QueueRowBroadcast DEF QueueNext, Cycle

\* Initially nobody works and nothing was broadcast.
LEMMA QueueInitially ==
  QueueInit => QueueInv
<1> SUFFICES ASSUME QueueInit PROVE QueueInv
  OBVIOUS
<1>1. QueueTypeOK /\ \A w \in Workers : QueueWorkerOk(w)
  BY DEF QueueInit, QueueTypeOK, QueueWorkerOk, Statuses, PCs, NoTx
<1>2. ASSUME NEW j \in Jobs
      PROVE  QueueRowOk(j)
  <2>1. Cardinality(QueueOpen(j)) <= Cardinality(Workers)
    BY QueueConstants, FS_Subset, QueueCounting DEF QueueOpen
  <2>2. sent[j] = 0 /\ jobs[j].status = "missing" /\ jobs[j].txid = NoTx
    BY DEF QueueInit
  <2> QED
    BY <2>1, <2>2, QueueOpenFinite DEF QueueRowOk
<1> QED
  BY <1>1, <1>2 DEF QueueInv

\* Each worker broadcasts a paid proof at most once in all of its cycles,
\* crashes and failures included; only claimed jobs are broadcast, and results
\* name broadcasts of their own job.
THEOREM PaidProofsBroadcastOnce == QueueSpec => []BroadcastsOncePerWorker
<1>1. ASSUME QueueInv, [QueueNext]_queueVars
      PROVE  QueueInv'
  BY <1>1, QueueWorkers, QueueRows DEF QueueInv
<1>2. ASSUME QueueInv
      PROVE  BroadcastsOncePerWorker
  <2>1. ASSUME NEW j \in Jobs
        PROVE  sent[j] <= Cardinality(Workers)
    BY <1>2, QueueOpenFinite DEF QueueInv, QueueRowOk, QueueTypeOK
  <2> QED
    BY <1>2, <2>1, QueueCounting DEF QueueInv, QueueRowOk, BroadcastsOncePerWorker
<1> QED
  BY <1>1, <1>2, QueueInitially, PTL DEF QueueSpec

=============================================================================

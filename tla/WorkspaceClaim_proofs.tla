------------------------- MODULE WorkspaceClaim_proofs -------------------------
(***************************************************************************)
(* Proofs about WorkspaceClaim, for every set of tabs, workspaces, drafts, *)
(* continuations and server processes, and every bound.                    *)
(***************************************************************************)
EXTENDS WorkspaceClaim, TLAPS

-----------------------------------------------------------------------------
(* The inductive invariant: what every handler under way can rely on. *)

\* From its first look on, until it has marked the session.
Claiming(h) ==
  \/ h.at \in {"list", "plan", "move", "mark"}
  \/ h.req.kind # "finalize" /\ h.at = "verify"

\* The continuation exists once it was read; drafts are those of a guest.
SourceKnown(h) ==
  /\ h.req.kind # "finalize" => h.at \notin {"read", "consume"}
  /\ h.req.kind = "finalize" /\ h.at # "read" => conts[h.req.cont] # None
  /\ Claiming(h) \/ (h.req.kind = "finalize" /\ h.at = "look") => Source(h) \in Anons

\* The drafts of the session were listed, or stored since the first look.
Accounted(h) ==
  /\ h.at \in {"plan", "move"} => h.list # {} /\ Pending(Source(h)) \subseteq h.list \cup h.missed
  /\ Claiming(h) /\ h.empty => Pending(Source(h)) \subseteq h.missed
  /\ h.at = "mark" /\ h.list # {} => Pending(Source(h)) \subseteq h.missed

\* Drafts move to a user with a plan.
Entitled(h) == h.at = "move" => User \in pro

\* A finalize that found drafts, or has marked the session, leaves it settled.
Settles(h) ==
  h.req.kind = "finalize" =>
    /\ Claiming(h) /\ ~h.empty => Settled(Source(h))
    /\ h.at \in {"repair", "consume"} /\ Source(h) # Returning => Settled(Source(h))

HandlerOk(h) == SourceKnown(h) /\ Accounted(h) /\ Entitled(h) /\ Settles(h)

HandlersOk == \A p \in Procs : handler[p] # None => HandlerOk(handler[p])

IInv ==
  /\ TypeOK
  /\ HandlersOk
  /\ ClaimedSessionIsEmpty
  /\ UsedContinuationSettles
  /\ UserDraftsAreEntitled

-----------------------------------------------------------------------------
(* Type correctness. *)

Stages == {"read", "verify", "look", "list", "plan", "move", "mark", "repair", "consume"}

\* A repair moves a subscription to the user or nowhere.
LEMMA RepairedIsUsers ==
  ASSUME NEW o, NEW p, pro \subseteq Anons \cup {User}
  PROVE  /\ Repaired(o, p) \subseteq Anons \cup {User}
         /\ User \in pro => User \in Repaired(o, p)
  BY DEF Repaired

\* The requests of a tab are well typed.
LEMMA RequestTypes ==
  ASSUME TypeOK, NEW t \in Tabs
  PROVE  /\ \A k \in Conts : Finalize(t, k) \in Requests
         /\ Bind(t, "bind") \in Requests
         /\ Bind(t, "upsert") \in Requests
<1>1. Cred(t) \in Anons \cup {None}
  BY DEF TypeOK, Tab, Cred
<1>2. paid \in Anons \cup {User, None} /\ org \in Anons \cup {User, Local}
  BY DEF TypeOK
<1>3. \A k \in Conts : Finalize(t, k) \in Requests
  BY <1>1, <1>2 DEF Requests, Finalize
<1>4. Bind(t, "bind") \in Requests /\ Bind(t, "upsert") \in Requests
  BY <1>1, <1>2 DEF Requests, Bind
<1> QED
  BY <1>3, <1>4

\* What a tab changes of itself is well typed.
LEMMA TabTypes ==
  ASSUME TypeOK, NEW t \in Tabs
  PROVE  /\ [tab EXCEPT ![t].finalized = FALSE] \in [Tabs -> Tab]
         /\ [tab EXCEPT ![t].finalized = TRUE] \in [Tabs -> Tab]
         /\ [tab EXCEPT ![t] = FreshTab] \in [Tabs -> Tab]
         /\ [tab EXCEPT ![t] = [@ EXCEPT !.token = None, !.cont = None]] \in [Tabs -> Tab]
         /\ \A k \in Conts :
              [tab EXCEPT ![t] = [@ EXCEPT !.cont = k, !.finalized = FALSE]] \in [Tabs -> Tab]
<1>1. tab \in [Tabs -> Tab] /\ tab[t] \in Tab
  BY DEF TypeOK
<1>2. [tab[t] EXCEPT !.finalized = FALSE] \in Tab /\ [tab[t] EXCEPT !.finalized = TRUE] \in Tab
  BY <1>1 DEF Tab
<1>3. FreshTab \in Tab
  BY DEF Tab, FreshTab
<1>4. [tab[t] EXCEPT !.token = None, !.cont = None] \in Tab
  BY <1>1 DEF Tab
<1>5. ASSUME NEW k \in Conts
      PROVE  [tab[t] EXCEPT !.cont = k, !.finalized = FALSE] \in Tab
  BY <1>1 DEF Tab
<1> QED
  BY <1>1, <1>2, <1>3, <1>4, <1>5

\* A handler is well typed, and so is one with other fields.
LEMMA HandlerTypes ==
  ASSUME TypeOK, NEW p \in Procs, handler[p] # None
  PROVE  /\ handler[p] \in Handlers /\ handler[p].req \in Requests
         /\ handler[p].req.kind \in {"finalize", "bind", "upsert"}
         /\ handler[p].req.kind = "finalize" => handler[p].req.cont \in Conts
         /\ handler[p].req.kind # "finalize" => handler[p].req.prev \in Anons \cup {User, Local}
         /\ handler[p].tab \in Tabs \cup {None} /\ handler[p].at \in Stages
         /\ handler[p].empty \in BOOLEAN
         /\ handler[p].list \subseteq Agreements /\ handler[p].missed \subseteq Agreements
<1>1. handler[p] \in Handlers
  BY DEF TypeOK
<1>2. handler[p].req \in Requests
  BY <1>1 DEF Handlers
<1>3. /\ handler[p].req.kind \in {"finalize", "bind", "upsert"}
      /\ handler[p].req.kind = "finalize" => handler[p].req.cont \in Conts
      /\ handler[p].req.kind # "finalize" => handler[p].req.prev \in Anons \cup {User, Local}
  BY <1>2 DEF Requests
<1> QED
  BY <1>1, <1>2, <1>3 DEF Handlers, Stages

\* The fields of the handler after a step of its process.
LEMMA SetHandler ==
  ASSUME TypeOK, NEW p \in Procs, NEW h \in Handlers \cup {None},
         handler' = [handler EXCEPT ![p] = h]
  PROVE  /\ handler' \in [Procs -> Handlers \cup {None}]
         /\ handler'[p] = h /\ \A q \in Procs : q # p => handler'[q] = handler[q]
  BY DEF TypeOK

LEMMA GotoEffect ==
  ASSUME TypeOK, NEW p \in Procs, handler[p] # None, NEW at \in Stages, Goto(p, at)
  PROVE  /\ handler' \in [Procs -> Handlers \cup {None}] /\ auth' = auth
         /\ handler'[p] = [handler[p] EXCEPT !.at = at] /\ handler'[p] # None
         /\ \A q \in Procs : q # p => handler'[q] = handler[q]
<1>1. handler[p] \in Handlers
  BY HandlerTypes
<1>2. [handler[p] EXCEPT !.at = at] \in Handlers
  BY <1>1 DEF Handlers, Stages
<1>3. handler' = [handler EXCEPT ![p] = [handler[p] EXCEPT !.at = at]]
  BY DEF Goto, TypeOK
<1> QED
  BY <1>2, <1>3, SetHandler, NoneAssumption DEF Goto

LEMMA AnswerEffect ==
  ASSUME TypeOK, NEW p \in Procs, handler[p] # None, NEW ok \in BOOLEAN, Answer(p, ok)
  PROVE  /\ handler' \in [Procs -> Handlers \cup {None}]
         /\ auth' \in [Tabs -> Requests \cup Answers \cup {None}]
         /\ handler'[p] = None
         /\ \A q \in Procs : q # p => handler'[q] = handler[q]
<1>1. handler' = [handler EXCEPT ![p] = None]
  BY DEF Answer
<1>2. [kind |-> handler[p].req.kind, ok |-> ok] \in Answers
  BY HandlerTypes DEF Answers
<1>3. auth' \in [Tabs -> Requests \cup Answers \cup {None}]
  BY <1>2 DEF Answer, TypeOK
<1> QED
  BY <1>1, <1>3, SetHandler

\* The other handlers, and this one up to who hears of it and what it missed.
Same(p) ==
  \/ handler'[p] = handler[p]
  \/ /\ handler[p] # None /\ handler'[p] # None
     /\ handler'[p].req = handler[p].req /\ handler'[p].at = handler[p].at
     /\ handler'[p].empty = handler[p].empty /\ handler'[p].list = handler[p].list
     /\ handler[p].missed \subseteq handler'[p].missed

\* Handlers go on when their tab is gone.
LEMMA UnheardEffect ==
  ASSUME TypeOK, NEW t \in Tabs, Unheard(t)
  PROVE  /\ handler' \in [Procs -> Handlers \cup {None}]
         /\ auth' \in [Tabs -> Requests \cup Answers \cup {None}]
         /\ \A p \in Procs : Same(p)
<1>1. ASSUME NEW p \in Procs PROVE handler'[p] \in Handlers \cup {None} /\ Same(p)
  <2>1. CASE handler[p] # None /\ handler[p].tab = t
    <3>1. handler'[p] = [handler[p] EXCEPT !.tab = None]
      BY <2>1 DEF Unheard
    <3>2. handler[p] \in Handlers
      BY <2>1, HandlerTypes
    <3>3. handler'[p] \in Handlers
      BY <3>1, <3>2 DEF Handlers
    <3>4. handler'[p] # None
      BY <3>3, NoneAssumption
    <3> QED
      BY <2>1, <3>1, <3>2, <3>3, <3>4 DEF Same, Handlers
  <2>2. CASE ~(handler[p] # None /\ handler[p].tab = t)
    <3>1. handler'[p] = handler[p]
      BY <2>2 DEF Unheard
    <3> QED
      BY <3>1 DEF Same, TypeOK
  <2> QED
    BY <2>1, <2>2
<1>2. handler' \in [Procs -> Handlers \cup {None}]
  <2>1. handler' = [p \in Procs |-> handler'[p]]
    BY DEF Unheard
  <2> QED
    BY <1>1, <2>1
<1> QED
  BY <1>1, <1>2 DEF Unheard, TypeOK

\* A draft that is stored is missed by the handlers that have looked.
LEMMA StoredEffect ==
  ASSUME TypeOK, NEW g \in Agreements, CreateStored(g)
  PROVE  /\ handler' \in [Procs -> Handlers \cup {None}]
         /\ \A p \in Procs : Same(p) /\ (p \in Looked(creating[g]) => g \in handler'[p].missed)
<1>1. ASSUME NEW p \in Procs
      PROVE  /\ handler'[p] \in Handlers \cup {None} /\ Same(p)
             /\ p \in Looked(creating[g]) => g \in handler'[p].missed
  <2>1. CASE p \in Looked(creating[g])
    <3>1. handler'[p] = [handler[p] EXCEPT !.missed = handler[p].missed \cup {g}]
      BY <2>1 DEF CreateStored
    <3>2. handler[p] # None /\ handler[p] \in Handlers
      BY <2>1, HandlerTypes DEF Looked
    <3>3. handler'[p] \in Handlers
      BY <3>1, <3>2 DEF Handlers
    <3>4. handler'[p] # None
      BY <3>3, NoneAssumption
    <3> QED
      BY <3>1, <3>2, <3>3, <3>4 DEF Same, Handlers
  <2>2. CASE p \notin Looked(creating[g])
    <3>1. handler'[p] = handler[p]
      BY <2>2 DEF CreateStored
    <3> QED
      BY <2>2, <3>1 DEF Same, TypeOK
  <2> QED
    BY <2>1, <2>2
<1>2. handler' \in [Procs -> Handlers \cup {None}]
  <2>1. handler' = [p \in Procs |-> handler'[p]]
    BY DEF CreateStored
  <2> QED
    BY <1>1, <2>1
<1> QED
  BY <1>1, <1>2

\* The steps of a handler keep the types.
LEMMA HandleTypes ==
  ASSUME TypeOK, HandlersOk, NEW p \in Procs, UNCHANGED <<local, tab, minting>>,
         \/ Handle(p) /\ UNCHANGED faults
         \/ (RepairFailed(p) \/ HandlerFailed(p)) /\ faults' \in 0 .. MaxFaults
  PROVE  TypeOK'
<1> USE DEF local, client
<1>1. faults' \in 0 .. MaxFaults
  BY DEF TypeOK
<1>2. ASSUME handler' \in [Procs -> Handlers \cup {None}],
             auth' \in [Tabs -> Requests \cup Answers \cup {None}],
             session' \in [Anons -> {"free", "live", "claimed"}],
             conts' \in [Conts -> Continuations \cup {None}],
             owner' \in [Agreements -> Anons \cup {User, None}],
             creating' = creating, pro' \subseteq Anons \cup {User},
             late' \subseteq Agreements, torn' \subseteq Anons
      PROVE  TypeOK'
  BY <1>1, <1>2 DEF TypeOK
<1>3. ASSUME handler' \in [Procs -> Handlers \cup {None}],
             auth' \in [Tabs -> Requests \cup Answers \cup {None}],
             UNCHANGED <<session, conts, owner, creating, pro, late, torn>>
      PROVE  TypeOK'
  BY <1>2, <1>3 DEF TypeOK
<1>4. ASSUME NEW at \in Stages, Goto(p, at), handler[p] # None
      PROVE  /\ handler' \in [Procs -> Handlers \cup {None}]
             /\ auth' \in [Tabs -> Requests \cup Answers \cup {None}]
  BY <1>4, GotoEffect DEF TypeOK
<1>5. ASSUME NEW ok \in BOOLEAN, Answer(p, ok), handler[p] # None
      PROVE  /\ handler' \in [Procs -> Handlers \cup {None}]
             /\ auth' \in [Tabs -> Requests \cup Answers \cup {None}]
  BY <1>5, AnswerEffect
<1>6. ASSUME NEW t \in Tabs, Receive(p, t) PROVE TypeOK'
  <2>1. [req |-> auth[t], tab |-> t, at |-> IF auth[t].kind = "finalize" THEN "read" ELSE "look",
         empty |-> FALSE, list |-> {}, missed |-> {}] \in Handlers
    BY <1>6 DEF Receive, Handlers
  <2> QED
    BY <1>3, <1>6, <2>1, SetHandler DEF Receive, TypeOK
<1>7. CASE ReadContinuation(p)
  <2>1. handler[p] # None
    BY <1>7 DEF ReadContinuation, Running
  <2>2. Answer(p, FALSE) \/ Answer(p, TRUE) \/ Goto(p, "verify")
    BY <1>7 DEF ReadContinuation
  <2> QED
    BY <1>3, <1>4, <1>5, <1>7, <2>1, <2>2 DEF ReadContinuation, Stages
<1>8. CASE Verify(p)
  <2>1. handler[p] # None
    BY <1>8 DEF Verify, Running
  <2>2. Answer(p, FALSE) \/ Goto(p, "list") \/ Goto(p, "repair") \/ Goto(p, "look")
    BY <1>8 DEF Verify
  <2> QED
    BY <1>3, <1>4, <1>5, <1>8, <2>1, <2>2 DEF Verify, Stages
<1>9. CASE Look(p)
  <2>1. handler[p] \in Handlers
    BY <1>9, HandlerTypes DEF Look, Running
  <2>2. PICK h : /\ handler' = [handler EXCEPT ![p] = h]
                 /\ \E e \in BOOLEAN, at \in Stages : h = [handler[p] EXCEPT !.empty = e, !.at = at]
    BY <1>9 DEF Look, Stages
  <2>3. h \in Handlers
    BY <2>1, <2>2 DEF Handlers, Stages
  <2> QED
    BY <1>3, <1>9, <2>2, <2>3, SetHandler DEF Look, TypeOK
<1>10. CASE List(p)
  <2>1. handler[p] \in Handlers
    BY <1>10, HandlerTypes DEF List, Running
  <2> DEFINE l == Pending(Source(handler[p]))
             h == [handler[p] EXCEPT !.list = l, !.at = IF l = {} THEN "mark" ELSE "plan"]
  <2>2. handler' = [handler EXCEPT ![p] = h]
    BY <1>10 DEF List, TypeOK
  <2>3. h \in Handlers
    <3>1. l \subseteq Agreements
      BY DEF Pending
    <3> HIDE DEF l
    <3> QED
      BY <2>1, <3>1 DEF Handlers
  <2> HIDE DEF h
  <2> QED
    BY <1>3, <1>10, <2>2, <2>3, SetHandler DEF List, TypeOK
<1>11. CASE CheckPlan(p)
  <2>1. handler[p] \in Handlers
    BY <1>11, HandlerTypes DEF CheckPlan, Running
  <2>2. [handler[p] EXCEPT !.at = "move"] \in Handlers
        /\ [handler[p] EXCEPT !.at = "mark", !.list = {}] \in Handlers
    BY <2>1 DEF Handlers
  <2>3. handler' \in [Procs -> Handlers \cup {None}]
    BY <1>11, <2>2 DEF CheckPlan, TypeOK
  <2> QED
    BY <1>3, <1>11, <2>3 DEF CheckPlan, TypeOK
<1>12. CASE Move(p)
  <2>1. handler[p] # None
    BY <1>12 DEF Move, Running
  <2>2. owner' \in [Agreements -> Anons \cup {User, None}]
    BY <1>12 DEF Move, TypeOK
  <2> QED
    BY <1>2, <1>4, <1>12, <2>1, <2>2 DEF Move, Stages, TypeOK
<1>13. CASE Mark(p)
  <2>1. handler[p] # None
    BY <1>13 DEF Mark, Running
  <2>2. session' \in [Anons -> {"free", "live", "claimed"}] /\ late' \subseteq Agreements
    BY <1>13, <2>1, HandlerTypes DEF Mark, TypeOK
  <2> QED
    BY <1>2, <1>4, <1>13, <2>1, <2>2 DEF Mark, Stages, TypeOK
<1>14. CASE Repair(p) \/ RepairFailed(p)
  <2>1. handler[p] # None
    BY <1>14 DEF Repair, RepairFailed, Running
  <2>2. Goto(p, "consume") \/ Answer(p, TRUE)
    BY <1>14 DEF Repair, RepairFailed, AfterRepair
  <2>3. pro' \subseteq Anons \cup {User}
    BY <1>14, RepairedIsUsers DEF Repair, RepairFailed, TypeOK
  <2> QED
    BY <1>2, <1>4, <1>5, <1>14, <2>1, <2>2, <2>3 DEF Repair, RepairFailed, Stages, TypeOK
<1>15. CASE Consume(p)
  <2>1. handler[p] # None /\ handler[p].at = "consume"
    BY <1>15 DEF Consume, Running
  <2>2. handler[p].req.kind = "finalize" /\ conts[handler[p].req.cont] # None
    BY <2>1 DEF HandlersOk, HandlerOk, SourceKnown
  <2>3. handler[p].req.cont \in Conts
    BY <2>1, <2>2, HandlerTypes
  <2>4. conts' \in [Conts -> Continuations \cup {None}]
    BY <1>15, <2>2, <2>3 DEF Consume, Continuations, TypeOK
  <2> QED
    BY <1>2, <1>5, <1>15, <2>1, <2>4 DEF Consume, TypeOK
<1>16. CASE HandlerFailed(p)
  <2>1. torn' \subseteq Anons
    <3>1. CASE Running(p, "mark") /\ handler[p].list # {}
      <4>1. Source(handler[p]) \in Anons
        BY <3>1 DEF Running, HandlersOk, HandlerOk, SourceKnown, Claiming
      <4> QED
        BY <1>16, <3>1, <4>1 DEF HandlerFailed, TypeOK
    <3>2. CASE ~(Running(p, "mark") /\ handler[p].list # {})
      BY <1>16, <3>2 DEF HandlerFailed, TypeOK
    <3> QED
      BY <3>1, <3>2
  <2> QED
    BY <1>2, <1>5, <1>16, <2>1 DEF HandlerFailed, TypeOK
<1> QED
  BY <1>6, <1>7, <1>8, <1>9, <1>10, <1>11, <1>12, <1>13, <1>14, <1>15, <1>16 DEF Handle

\* The steps of the browser and of the threads keep the types.
LEMMA TypeStep == TypeOK /\ HandlersOk /\ [Next]_vars => TypeOK'
<1> SUFFICES ASSUME TypeOK, HandlersOk, [Next]_vars PROVE TypeOK'
  OBVIOUS
<1> USE DEF local, client, server
<1>1. CASE UNCHANGED vars
  BY <1>1 DEF vars, TypeOK
<1>2. CASE Fault
  <2>1. faults' \in 0 .. MaxFaults
    BY <1>2, WorkspaceClaimAssumption DEF Fault, TypeOK
  <2>2. ASSUME NEW t \in Tabs, Lost(t) PROVE TypeOK'
    BY <2>1, <2>2, UnheardEffect DEF Lost, Unheard, TypeOK
  <2>3. ASSUME NEW t \in Tabs, SignOut(t) PROVE TypeOK'
    <3>1. tab' \in [Tabs -> Tab]
      BY <2>3, TabTypes DEF SignOut
    <3> QED
      BY <2>1, <2>3, <3>1 DEF SignOut, TypeOK
  <2>4. ASSUME NEW t \in Tabs, Reload(t) \/ NewTab(t) PROVE TypeOK'
    <3>1. tab' \in [Tabs -> Tab]
      BY <2>4, TabTypes DEF Reload, NewTab
    <3>2. Unheard(t)
      BY <2>4 DEF Reload, NewTab, Abandoned
    <3>3. /\ handler' \in [Procs -> Handlers \cup {None}]
          /\ auth' \in [Tabs -> Requests \cup Answers \cup {None}]
      BY <3>2, UnheardEffect
    <3> QED
      BY <2>1, <2>4, <3>1, <3>3 DEF Reload, NewTab, Abandoned, Unheard, TypeOK
  <2>5. ASSUME NEW t \in Tabs, NEW k \in Conts, CallbackAgain(t, k) PROVE TypeOK'
    <3>1. tab' \in [Tabs -> Tab]
      BY <2>5, TabTypes DEF CallbackAgain, Return
    <3>2. auth' \in [Tabs -> Requests \cup Answers \cup {None}]
      BY <2>5, RequestTypes DEF CallbackAgain, Return, TypeOK
    <3> QED
      BY <2>1, <2>5, <3>1, <3>2 DEF CallbackAgain, Return, TypeOK
  <2>6. ASSUME NEW g \in Agreements, CreateWithdrawn(g) PROVE TypeOK'
    BY <2>1, <2>6 DEF CreateWithdrawn, TypeOK
  <2>7. ASSUME NEW p \in Procs, RepairFailed(p) \/ HandlerFailed(p) PROVE TypeOK'
    <3>1. UNCHANGED <<local, tab, minting>>
      BY <2>7 DEF RepairFailed, HandlerFailed
    <3> QED
      BY <2>1, <2>7, <3>1, HandleTypes
  <2> QED
    BY <1>2, <2>2, <2>3, <2>4, <2>5, <2>6, <2>7 DEF Fault
<1>3. ASSUME NEW t \in Tabs, UNCHANGED faults,
             \/ Boot(t) \/ Minted(t) \/ Buy(t) \/ CheckoutReturn(t)
             \/ Restore(t) \/ Rebind(t) \/ Answered(t)
      PROVE  TypeOK'
  <2>1. CASE Boot(t)
    BY <1>3, <2>1 DEF Boot, TypeOK
  <2>2. CASE Minted(t)
    BY <1>3, <2>2 DEF Minted, TypeOK, Tab
  <2>3. CASE Buy(t) \/ CheckoutReturn(t)
    BY <1>3, <2>3 DEF Buy, CheckoutReturn, Verified, TypeOK
  <2>4. CASE Restore(t)
    <3>1. tab[t].cont \in Conts \cup {None}
      BY DEF TypeOK, Tab
    <3>2. (IF tab[t].finalized THEN Bind(t, "upsert")
           ELSE IF tab[t].cont # None THEN Finalize(t, tab[t].cont) ELSE Bind(t, "bind")) \in Requests
      BY <3>1, RequestTypes
    <3>3. auth' \in [Tabs -> Requests \cup Answers \cup {None}]
      BY <2>4, <3>2 DEF Restore, TypeOK
    <3>4. tab' \in [Tabs -> Tab]
      BY <2>4, TabTypes DEF Restore
    <3> QED
      BY <1>3, <2>4, <3>3, <3>4 DEF Restore, TypeOK
  <2>5. CASE Rebind(t)
    BY <1>3, <2>5, RequestTypes DEF Rebind, TypeOK
  <2>6. CASE Answered(t)
    BY <1>3, <2>6 DEF Answered, TypeOK, Tab
  <2> QED
    BY <1>3, <2>1, <2>2, <2>3, <2>4, <2>5, <2>6
<1>4. ASSUME NEW t \in Tabs, UNCHANGED faults, NEW g \in Agreements, CreateVerified(t, g)
      PROVE  TypeOK'
  BY <1>4, RepairedIsUsers DEF CreateVerified, Verified, TypeOK
<1>5. ASSUME NEW t \in Tabs, UNCHANGED faults, NEW k \in Conts,
             StartSignIn(t, k) \/ StartReturning(t, k) \/ Callback(t, k)
      PROVE  TypeOK'
  <2>1. CASE StartSignIn(t, k) \/ StartReturning(t, k)
    <3>1. PICK a \in Anons \cup {Returning} : Continuation(t, k, a)
      <4>1. tab[t].token \in Anons \cup {None}
        BY DEF TypeOK, Tab
      <4> QED
        BY <2>1, <4>1 DEF StartSignIn, StartReturning
    <3>2. conts' \in [Conts -> Continuations \cup {None}]
      <4>1. [anon |-> a, at |-> "issued"] \in Continuations
        BY DEF Continuations
      <4> QED
        BY <3>1, <4>1 DEF Continuation, TypeOK
    <3>3. tab' \in [Tabs -> Tab]
      BY <3>1 DEF Continuation, TypeOK, Tab
    <3> QED
      BY <1>5, <3>1, <3>2, <3>3 DEF Continuation, TypeOK
  <2>2. CASE Callback(t, k)
    <3>1. tab' \in [Tabs -> Tab] /\ auth' \in [Tabs -> Requests \cup Answers \cup {None}]
      BY <2>2, RequestTypes, TabTypes DEF Callback, Return, TypeOK
    <3>2. conts' \in [Conts -> Continuations \cup {None}]
      BY <2>2 DEF Callback, Continuations, TypeOK
    <3> QED
      BY <1>5, <2>2, <3>1, <3>2 DEF Callback, Return, TypeOK
  <2> QED
    BY <1>5, <2>1, <2>2
<1>6. ASSUME UNCHANGED faults, NEW g \in Agreements, CreateStored(g) \/ CreateReturned(g)
      PROVE  TypeOK'
  <2>1. CASE CreateStored(g)
    <3>1. handler' \in [Procs -> Handlers \cup {None}]
      BY <2>1, StoredEffect
    <3>2. /\ owner' \in [Agreements -> Anons \cup {User, None}] /\ late' \subseteq Agreements
          /\ UNCHANGED <<local, client, session, conts, creating, pro, torn>>
      BY <2>1 DEF CreateStored, TypeOK
    <3> QED
      BY <1>6, <3>1, <3>2 DEF TypeOK
  <2>2. CASE CreateReturned(g)
    BY <1>6, <2>2 DEF CreateReturned, TypeOK
  <2> QED
    BY <1>6, <2>1, <2>2
<1>7. ASSUME NEW p \in Procs, UNCHANGED faults, Handle(p) PROVE TypeOK'
  <2>1. UNCHANGED <<local, tab, minting>>
    BY <1>7 DEF Handle, Receive, ReadContinuation, Verify, Look, List, CheckPlan, Move, Mark,
                Repair, Consume
  <2> QED
    BY <1>7, <2>1, HandleTypes
<1> QED
  BY <1>1, <1>2, <1>3, <1>4, <1>5, <1>6, <1>7 DEF Next

-----------------------------------------------------------------------------
(* What a step leaves of it. *)

\* The invariant holds initially.
LEMMA InvariantInit == Init => IInv
<1> SUFFICES ASSUME Init PROVE IInv
  OBVIOUS
<1>1. TypeOK
  <2>1. FreshTab \in Tab
    BY DEF FreshTab, Tab
  <2>2. 0 \in 0 .. MaxFaults
    BY WorkspaceClaimAssumption
  <2>3. tab \in [Tabs -> Tab]
    BY <2>1 DEF Init
  <2> QED
    BY <2>2, <2>3 DEF Init, TypeOK
<1>2. HandlersOk
  BY DEF Init, HandlersOk
<1>3. ClaimedSessionIsEmpty /\ UsedContinuationSettles /\ UserDraftsAreEntitled
  BY WorkspaceClaimAssumption
  DEF Init, ClaimedSessionIsEmpty, UsedContinuationSettles, UserDraftsAreEntitled
<1> QED
  BY <1>1, <1>2, <1>3 DEF IInv

\* A continuation keeps its session, a user the plan, and a session is not unclaimed.
Keeps ==
  /\ \A k \in Conts : conts[k] # None => conts'[k] # None /\ conts'[k].anon = conts[k].anon
  /\ User \in pro => User \in pro'
  /\ \A b \in Anons : session[b] = "claimed" => session'[b] = "claimed"
  /\ torn \subseteq torn'

\* Settled sessions stay settled.
Stays == \A b \in Anons : Settled(b) => Settled(b)'

\* The session a handler under way works on.
LEMMA SourceStays ==
  ASSUME IInv, Keeps, NEW p \in Procs, handler[p] # None, Same(p),
         handler[p].req.kind = "finalize" => handler[p].at # "read"
  PROVE  Source(handler[p])' = Source(handler[p])
<1>1. handler'[p].req = handler[p].req
  BY DEF Same
<1>2. handler[p].req.kind = "finalize" =>
        /\ handler[p].req.cont \in Conts /\ conts[handler[p].req.cont] # None
  BY HandlerTypes DEF IInv, HandlersOk, HandlerOk, SourceKnown
<1> QED
  BY <1>1, <1>2 DEF Keeps, Source

\* Sessions stay settled, unless their drafts or the handler that moved them go.
LEMMA SettledStays ==
  ASSUME IInv, Keeps,
         \A p \in Procs : \/ Same(p)
                          \/ ~(Running(p, "mark") /\ handler[p].list # {})
                          \/ \A b \in Anons : Source(handler[p]) = b => Settled(b)',
         \A b \in Anons : Pending(b) # {} => Settled(b)'
  PROVE  Stays
<1> SUFFICES ASSUME NEW b \in Anons, Settled(b) PROVE Settled(b)'
  BY DEF Stays
<1>1. CASE session[b] = "claimed" \/ b \in torn
  BY <1>1 DEF Keeps, Settled
<1>2. CASE Pending(b) # {}
  BY <1>2
<1>3. ASSUME NEW p \in Procs, Running(p, "mark"), handler[p].list # {}, Source(handler[p]) = b
      PROVE  Settled(b)'
  <2>1. CASE Same(p)
    <3>1. Source(handler[p])' = b
      BY <1>3, <2>1, SourceStays DEF Running
    <3>2. handler'[p] # None /\ handler'[p].at = "mark" /\ handler'[p].list # {}
      BY <1>3, <2>1 DEF Same, Running
    <3> QED
      BY <3>1, <3>2 DEF Settled, Running
  <2>2. CASE \A c \in Anons : Source(handler[p]) = c => Settled(c)'
    BY <1>3, <2>2
  <2> QED
    BY <1>3, <2>1, <2>2
<1> QED
  BY <1>1, <1>2, <1>3 DEF Settled

\* What the invariant says of a handler survives the steps of others.
LEMMA HandlerStays ==
  ASSUME IInv, Keeps, Stays, NEW p \in Procs, handler[p] # None, Same(p),
         \A b \in Anons : p \in Looked(b) => Pending(b)' \subseteq Pending(b) \cup handler'[p].missed
  PROVE  HandlerOk(handler[p])'
<1> DEFINE h == handler[p]
<1>0. PICK a : a = Source(handler[p])
  OBVIOUS
<1>1. HandlerOk(h)
  BY DEF IInv, HandlersOk
<1>2. /\ handler'[p].req = h.req /\ handler'[p].at = h.at /\ handler'[p].empty = h.empty
      /\ handler'[p].list = h.list /\ h.missed \subseteq handler'[p].missed
  BY DEF Same
<1>3. (h.req.kind = "finalize" => h.at # "read") => Source(handler[p])' = a
  BY <1>0, SourceStays
<1>4. Claiming(h) => a \in Anons /\ p \in Looked(a) /\ h.at # "read"
  BY <1>0, <1>1 DEF HandlerOk, SourceKnown, Claiming, Looked
<1>5. SourceKnown(handler[p])'
  <2>1. Claiming(handler[p])' <=> Claiming(h)
    BY <1>2 DEF Claiming
  <2>2. h.req.kind = "finalize" /\ h.at # "read" => conts'[h.req.cont] # None
    <3>1. h.req.kind = "finalize" => h.req.cont \in Conts
      BY HandlerTypes DEF IInv
    <3> QED
      BY <1>1, <3>1 DEF HandlerOk, SourceKnown, Keeps
  <2>3. Claiming(h) \/ (h.req.kind = "finalize" /\ h.at = "look") => a \in Anons
    BY <1>0, <1>1 DEF HandlerOk, SourceKnown
  <2> QED
    BY <1>1, <1>2, <1>3, <1>4, <2>1, <2>2, <2>3 DEF HandlerOk, SourceKnown
<1>6. Accounted(handler[p])'
  <2>1. Claiming(h) =>
          /\ Pending(a)' \subseteq Pending(a) \cup handler'[p].missed
          /\ Pending(Source(handler[p]))' = Pending(a)'
    BY <1>3, <1>4 DEF Pending
  <2>2. Accounted(h) /\ Pending(Source(handler[p])) = Pending(a)
    BY <1>0, <1>1 DEF HandlerOk
  <2>3. Claiming(handler[p])' <=> Claiming(h)
    BY <1>2 DEF Claiming
  <2>4. h.at \in {"plan", "move", "mark"} => Claiming(h)
    BY DEF Claiming
  <2> QED
    BY <1>2, <2>1, <2>2, <2>3, <2>4 DEF Accounted
<1>7. Entitled(handler[p])'
  BY <1>1, <1>2 DEF HandlerOk, Entitled, Keeps
<1>8. Settles(handler[p])'
  <2>1. h.req.kind = "finalize" /\ h.at # "read" =>
          /\ Source(handler[p])' = a
          /\ Settled(Source(handler[p]))' <=> Settled(a)'
    BY <1>3 DEF Settled
  <2>2. Settles(h) /\ (Settled(Source(handler[p])) <=> Settled(a))
    BY <1>0, <1>1 DEF HandlerOk
  <2>3. Claiming(handler[p])' <=> Claiming(h)
    BY <1>2 DEF Claiming
  <2>4. a \in Anons /\ Settled(a) => Settled(a)'
    BY DEF Stays
  <2>5. h.req.kind = "finalize" /\ h.at # "read" /\ a # Returning => a \in Anons
    <3>1. ASSUME h.req.kind = "finalize", h.at # "read"
          PROVE  a \in Anons \cup {Returning}
      <4>1. h.req.cont \in Conts /\ conts[h.req.cont] # None
        BY <1>1, <3>1, HandlerTypes DEF IInv, HandlerOk, SourceKnown
      <4>2. conts[h.req.cont] \in Continuations
        BY <4>1 DEF IInv, TypeOK
      <4> QED
        BY <1>0, <3>1, <4>2 DEF Source, Continuations
    <3> QED
      BY <3>1
  <2>6. Claiming(h) => a \in Anons /\ h.at # "read"
    BY <1>4
  <2> QED
    BY <1>0, <1>2, <2>1, <2>2, <2>3, <2>4, <2>5, <2>6 DEF Settles
<1> QED
  BY <1>5, <1>6, <1>7, <1>8 DEF HandlerOk

\* Settled sessions stay settled, so their continuations do.
LEMMA ContinuationsSettle ==
  ASSUME IInv, Stays,
         \A k \in Conts :
           \/ conts'[k] = conts[k]
           \/ conts'[k].at # "used"
           \/ conts'[k].anon = Returning
           \/ \E a \in Anons : conts'[k].anon = a /\ Settled(a)'
  PROVE  UsedContinuationSettles'
<1>1. SUFFICES ASSUME NEW k \in Conts,
                      conts'[k] # None, conts'[k].at = "used", conts'[k].anon # Returning
               PROVE  \E a \in Anons : conts'[k].anon = a /\ Settled(a)'
  BY DEF UsedContinuationSettles, Settled
<1>2. CASE conts'[k] = conts[k]
  <2>1. conts[k] \in Continuations
    BY <1>1, <1>2 DEF IInv, TypeOK
  <2>2. PICK a \in Anons : conts[k].anon = a
    BY <1>1, <1>2, <2>1 DEF Continuations
  <2>3. Settled(conts[k].anon)
    BY <1>1, <1>2 DEF IInv, UsedContinuationSettles
  <2> QED
    BY <1>2, <2>2, <2>3 DEF Stays
<1> QED
  BY <1>1, <1>2

\* A step outside of the handlers that leaves the owners of drafts alone.
LEMMA OutsideStep ==
  ASSUME IInv, TypeOK', Keeps, UNCHANGED <<owner, late>>,
         \A p \in Procs : Same(p),
         \A b \in Anons : session'[b] = "claimed" => session[b] = "claimed",
         \A k \in Conts : conts'[k] = conts[k] \/ conts'[k].at # "used",
         \A g \in Agreements : creating'[g] = User => User \in pro'
  PROVE  IInv'
<1>1. \A b \in Anons : Pending(b)' = Pending(b)
  BY DEF Pending
<1>2. \A b \in Anons : Pending(b) # {} => Settled(b)'
  BY <1>1 DEF Settled
<1>3. Stays
  BY <1>2, SettledStays
<1>4. HandlersOk'
  <2> SUFFICES ASSUME NEW p \in Procs, handler'[p] # None PROVE HandlerOk(handler[p])'
    BY DEF HandlersOk
  <2>1. Same(p) /\ handler[p] # None
    BY DEF Same
  <2> QED
    BY <1>1, <1>3, <2>1, HandlerStays
<1>5. ClaimedSessionIsEmpty'
  BY DEF IInv, ClaimedSessionIsEmpty
<1>6. UsedContinuationSettles'
  BY <1>3, ContinuationsSettle
<1>7. UserDraftsAreEntitled'
  BY DEF IInv, UserDraftsAreEntitled, Keeps
<1> QED
  BY <1>4, <1>5, <1>6, <1>7 DEF IInv

\* Storing a draft: the handlers that have looked miss it.
LEMMA StoredStep == ASSUME IInv, NEW g \in Agreements, CreateStored(g), TypeOK' PROVE IInv'
<1>1. UNCHANGED <<session, conts, creating, pro, torn>>
  BY DEF CreateStored
<1>2. /\ owner[g] = None /\ creating[g] # None /\ owner'[g] = creating[g]
      /\ \A f \in Agreements : f # g => owner'[f] = owner[f]
  BY DEF CreateStored, IInv, TypeOK
<1>3. \A p \in Procs : Same(p) /\ (p \in Looked(creating[g]) => g \in handler'[p].missed)
  BY StoredEffect DEF IInv
<1>4. Keeps
  BY <1>1 DEF Keeps
<1>5. \A b \in Anons : b # None
  BY WorkspaceClaimAssumption
<1>6. \A b \in Anons : /\ Pending(b) \subseteq Pending(b)'
                       /\ Pending(b)' \subseteq Pending(b) \cup {g}
                       /\ b # creating[g] => Pending(b)' = Pending(b)
  BY <1>2, <1>5 DEF Pending
<1>7. \A b \in Anons : Pending(b) # {} => Settled(b)'
  BY <1>6 DEF Settled
<1>8. Stays
  BY <1>3, <1>4, <1>7, SettledStays
<1>9. HandlersOk'
  <2> SUFFICES ASSUME NEW p \in Procs, handler'[p] # None PROVE HandlerOk(handler[p])'
    BY DEF HandlersOk
  <2>1. Same(p) /\ handler[p] # None
    BY <1>3 DEF Same
  <2>2. \A b \in Anons : p \in Looked(b) => Pending(b)' \subseteq Pending(b) \cup handler'[p].missed
    BY <1>3, <1>6
  <2> QED
    BY <1>4, <1>8, <2>1, <2>2, HandlerStays
<1>10. ClaimedSessionIsEmpty'
  <2> SUFFICES ASSUME NEW f \in Agreements, owner'[f] \in Anons, session'[owner'[f]] = "claimed"
               PROVE  f \in late'
    BY DEF ClaimedSessionIsEmpty
  <2>1. CASE f = g
    BY <1>1, <1>2, <2>1 DEF CreateStored
  <2>2. CASE f # g
    <3>1. f \in late
      BY <1>1, <1>2, <2>2 DEF IInv, ClaimedSessionIsEmpty
    <3> QED
      BY <2>2, <3>1 DEF CreateStored
  <2> QED
    BY <2>1, <2>2
<1>11. UsedContinuationSettles'
  BY <1>1, <1>8, ContinuationsSettle
<1>12. UserDraftsAreEntitled'
  BY <1>1, <1>2 DEF IInv, UserDraftsAreEntitled
<1> QED
  BY <1>9, <1>10, <1>11, <1>12 DEF IInv

\* Withdrawing a draft: its session is known to be torn.
LEMMA WithdrawnStep == ASSUME IInv, NEW g \in Agreements, CreateWithdrawn(g), TypeOK' PROVE IInv'
<1>1. UNCHANGED <<session, conts, pro, late, handler>>
  BY DEF CreateWithdrawn
<1>2. /\ owner'[g] = None /\ creating'[g] = None
      /\ \A f \in Agreements : f # g => owner'[f] = owner[f] /\ creating'[f] = creating[f]
      /\ torn' = torn \cup ({owner[g]} \cap Anons)
  BY DEF CreateWithdrawn, IInv, TypeOK
<1>3. Keeps
  BY <1>1, <1>2 DEF Keeps
<1>4. \A p \in Procs : Same(p)
  BY <1>1 DEF Same
<1>5. \A b \in Anons : b # None
  BY WorkspaceClaimAssumption
<1>6. \A b \in Anons : Pending(b)' \subseteq Pending(b)
  BY <1>2, <1>5 DEF Pending
<1>7. ASSUME NEW b \in Anons, Pending(b) # {} PROVE Settled(b)'
  <2>1. PICK f \in Agreements : owner[f] = b
    BY <1>7 DEF Pending
  <2>2. CASE f = g
    BY <1>2, <2>1, <2>2 DEF Settled
  <2>3. CASE f # g
    <3>1. f \in Pending(b)'
      BY <1>2, <2>1, <2>3 DEF Pending
    <3> QED
      BY <3>1 DEF Settled
  <2> QED
    BY <2>2, <2>3
<1>8. Stays
  BY <1>3, <1>4, <1>7, SettledStays
<1>9. HandlersOk'
  <2> SUFFICES ASSUME NEW p \in Procs, handler'[p] # None PROVE HandlerOk(handler[p])'
    BY DEF HandlersOk
  <2> QED
    BY <1>1, <1>3, <1>4, <1>6, <1>8, HandlerStays
<1>10. ClaimedSessionIsEmpty'
  BY <1>1, <1>2, WorkspaceClaimAssumption DEF IInv, ClaimedSessionIsEmpty
<1>11. UsedContinuationSettles'
  BY <1>1, <1>8, ContinuationsSettle
<1>12. UserDraftsAreEntitled'
  BY <1>1, <1>2, WorkspaceClaimAssumption DEF IInv, UserDraftsAreEntitled
<1> QED
  BY <1>9, <1>10, <1>11, <1>12 DEF IInv

-----------------------------------------------------------------------------
(* The handlers. *)

\* A step of one handler: the others, and what is said of sessions and drafts.
LEMMA OneHandler ==
  ASSUME IInv, TypeOK', NEW p \in Procs, \A q \in Procs : q # p => handler'[q] = handler[q],
         Keeps, Stays, \A b \in Anons : Pending(b)' \subseteq Pending(b),
         handler'[p] # None => HandlerOk(handler[p])',
         ClaimedSessionIsEmpty', UsedContinuationSettles', UserDraftsAreEntitled'
  PROVE  IInv'
<1>1. HandlersOk'
  <2> SUFFICES ASSUME NEW q \in Procs, handler'[q] # None PROVE HandlerOk(handler[q])'
    BY DEF HandlersOk
  <2>1. CASE q = p
    BY <2>1
  <2>2. CASE q # p
    BY <2>2, HandlerStays DEF Same
  <2> QED
    BY <2>1, <2>2
<1> QED
  BY <1>1 DEF IInv

\* A step of one handler that changes neither drafts nor sessions.
LEMMA ReadingStays ==
  ASSUME IInv, NEW p \in Procs, \A q \in Procs : q # p => handler'[q] = handler[q],
         UNCHANGED <<session, conts, owner, torn>>, User \in pro => User \in pro',
         ~(Running(p, "mark") /\ handler[p].list # {})
  PROVE  Keeps /\ Stays
<1>1. Keeps
  BY DEF Keeps
<1>2. \A b \in Anons : Pending(b) # {} => Settled(b)'
  BY DEF Settled, Pending
<1> QED
  BY <1>1, <1>2, SettledStays DEF Same

LEMMA ReadingStep ==
  ASSUME IInv, TypeOK', NEW p \in Procs, \A q \in Procs : q # p => handler'[q] = handler[q],
         UNCHANGED <<session, conts, owner, creating, late, torn>>, User \in pro => User \in pro',
         ~(Running(p, "mark") /\ handler[p].list # {}),
         Stays => (handler'[p] # None => HandlerOk(handler[p])')
  PROVE  IInv'
<1>1. Keeps /\ Stays
  BY ReadingStays
<1>2. \A b \in Anons : Pending(b)' \subseteq Pending(b)
  BY DEF Pending
<1>3. ClaimedSessionIsEmpty'
  BY DEF IInv, ClaimedSessionIsEmpty
<1>4. UsedContinuationSettles'
  BY <1>1, ContinuationsSettle
<1>5. UserDraftsAreEntitled'
  BY DEF IInv, UserDraftsAreEntitled
<1> QED
  BY <1>1, <1>2, <1>3, <1>4, <1>5, OneHandler

\* The source of a handler is a guest's session or none for finalize-auth.
LEMMA SourceTypes ==
  ASSUME IInv, NEW p \in Procs, handler[p] # None,
         handler[p].req.kind = "finalize" => conts[handler[p].req.cont] # None
  PROVE  Source(handler[p]) \in IF handler[p].req.kind = "finalize" THEN Anons \cup {Returning}
                                ELSE Anons \cup {User, Local}
<1>1. CASE handler[p].req.kind = "finalize"
  <2>1. conts[handler[p].req.cont] \in Continuations
    BY <1>1, HandlerTypes DEF IInv, TypeOK
  <2> QED
    BY <1>1, <2>1 DEF Source, Continuations
<1>2. CASE handler[p].req.kind # "finalize"
  BY <1>2, HandlerTypes DEF IInv, Source
<1> QED
  BY <1>1, <1>2

\* The steps up to the first look.
LEMMA EarlyStep ==
  ASSUME IInv, TypeOK', NEW p \in Procs,
         (\E t \in Tabs : Receive(p, t)) \/ ReadContinuation(p) \/ Verify(p)
  PROVE  IInv'
<1> USE DEF IInv
<1>1. UNCHANGED <<session, conts, owner, creating, pro, late, torn>>
  BY DEF Receive, ReadContinuation, Verify
<1>2. ~(Running(p, "mark") /\ handler[p].list # {})
  BY DEF Receive, ReadContinuation, Verify, Running
<1>3. ASSUME NEW t \in Tabs, Receive(p, t) PROVE IInv'
  <2> DEFINE h == [req |-> auth[t], tab |-> t, at |-> IF auth[t].kind = "finalize" THEN "read" ELSE "look",
                   empty |-> FALSE, list |-> {}, missed |-> {}]
  <2>1. handler' = [handler EXCEPT ![p] = h]
    BY <1>3 DEF Receive
  <2>2. handler'[p] = h /\ \A q \in Procs : q # p => handler'[q] = handler[q]
    BY <2>1 DEF TypeOK
  <2>3. HandlerOk(handler[p])'
    BY <2>2 DEF HandlerOk, SourceKnown, Accounted, Entitled, Settles, Claiming
  <2> QED
    BY <1>1, <1>2, <2>2, <2>3, ReadingStep
<1>4. ASSUME handler[p] # None, NEW ok \in BOOLEAN, Answer(p, ok) PROVE IInv'
  <2>1. handler'[p] = None /\ \A q \in Procs : q # p => handler'[q] = handler[q]
    BY <1>4, AnswerEffect
  <2> QED
    BY <1>1, <1>2, <2>1, ReadingStep
<1>5. CASE ReadContinuation(p)
  <2>1. handler[p] # None /\ handler[p].at = "read" /\ handler[p].req.kind = "finalize"
    BY <1>5 DEF ReadContinuation, Running, HandlersOk, HandlerOk, SourceKnown
  <2>2. CASE conts[handler[p].req.cont] # None /\ Goto(p, "verify")
    <3>1. /\ handler'[p] = [handler[p] EXCEPT !.at = "verify"]
          /\ \A q \in Procs : q # p => handler'[q] = handler[q]
      BY <2>1, <2>2, GotoEffect DEF Stages
    <3>2. handler'[p].at = "verify" /\ handler'[p].req = handler[p].req
      BY <2>1, <3>1, HandlerTypes DEF Handlers
    <3>3. HandlerOk(handler[p])'
      BY <1>1, <2>1, <2>2, <3>2 DEF HandlerOk, SourceKnown, Accounted, Entitled, Settles, Claiming
    <3> QED
      BY <1>1, <1>2, <3>1, <3>3, ReadingStep
  <2> QED
    BY <1>4, <1>5, <2>1, <2>2 DEF ReadContinuation
<1>6. CASE Verify(p)
  <2> DEFINE h == handler[p]
  <2>1. h # None /\ h.at = "verify" /\ HandlerOk(h)
    BY <1>6 DEF Verify, Running, HandlersOk
  <2>2. ASSUME h.req.kind # "finalize", Goto(p, "list") PROVE IInv'
    <3>1. /\ handler'[p] = [h EXCEPT !.at = "list"]
          /\ \A q \in Procs : q # p => handler'[q] = handler[q]
      BY <2>1, <2>2, GotoEffect DEF Stages
    <3>2. /\ handler'[p].at = "list" /\ handler'[p].req = h.req /\ handler'[p].empty = h.empty
          /\ handler'[p].missed = h.missed
      BY <2>1, <3>1, HandlerTypes DEF Handlers
    <3>3. Source(handler[p])' = Source(h) /\ Pending(Source(handler[p]))' = Pending(Source(h))
      BY <1>1, <2>2, <3>2 DEF Source, Pending
    <3>4. HandlerOk(handler[p])'
      BY <2>1, <2>2, <3>2, <3>3 DEF HandlerOk, SourceKnown, Accounted, Entitled, Settles, Claiming
    <3> QED
      BY <1>1, <1>2, <3>1, <3>4, ReadingStep
  <2>3. ASSUME h.req.kind = "finalize", NEW at \in {"repair", "look"}, Goto(p, at),
               at = "repair" <=> Source(h) = Returning
        PROVE  IInv'
    <3>1. /\ handler'[p] = [h EXCEPT !.at = at]
          /\ \A q \in Procs : q # p => handler'[q] = handler[q]
      BY <2>1, <2>3, GotoEffect DEF Stages
    <3>2. handler'[p].at = at /\ handler'[p].req = h.req
      BY <2>1, <3>1, HandlerTypes DEF Handlers
    <3>3. conts[h.req.cont] # None
      BY <2>1, <2>3 DEF HandlerOk, SourceKnown
    <3>4. Source(handler[p])' = Source(h) /\ Source(h) \in Anons \cup {Returning}
      BY <1>1, <2>1, <2>3, <3>2, <3>3, SourceTypes DEF Source
    <3>5. HandlerOk(handler[p])'
      BY <1>1, <2>3, <3>2, <3>3, <3>4 DEF HandlerOk, SourceKnown, Accounted, Entitled, Settles, Claiming
    <3> QED
      BY <1>1, <1>2, <3>1, <3>5, ReadingStep
  <2> QED
    BY <1>4, <1>6, <2>1, <2>2, <2>3 DEF Verify
<1> QED
  BY <1>3, <1>5, <1>6

\* The two looks and the look at the plan.
LEMMA LookStep ==
  ASSUME IInv, TypeOK', NEW p \in Procs, Look(p) \/ List(p) \/ CheckPlan(p)
  PROVE  IInv'
<1> USE DEF IInv
<1> DEFINE h == handler[p]
<1>1. UNCHANGED <<session, conts, owner, creating, pro, late, torn>>
  BY DEF Look, List, CheckPlan
<1>2. ~(Running(p, "mark") /\ h.list # {})
  BY DEF Look, List, CheckPlan, Running
<1>3. h # None /\ h \in Handlers /\ HandlerOk(h)
  BY HandlerTypes DEF Look, List, CheckPlan, Running, HandlersOk
<1>4. PICK a : a = Source(h)
  OBVIOUS
<1>5. ASSUME handler'[p].req = h.req,
             h.req.kind = "finalize" => h.at # "read"
      PROVE  /\ Source(handler[p])' = a /\ Pending(Source(handler[p]))' = Pending(a)
             /\ (Settled(Source(handler[p]))' <=> Settled(a)')
             /\ h.req.kind = "finalize" => conts'[h.req.cont] # None
  <2>1. Source(handler[p])' = a
    BY <1>1, <1>4, <1>5 DEF Source
  <2> QED
    BY <1>1, <1>3, <1>5, <2>1 DEF Pending, Settled, HandlerOk, SourceKnown
<1>6. Stays => (a \in Anons /\ Settled(a) => Settled(a)')
  BY DEF Stays
<1>7. CASE Look(p)
  <2> DEFINE e == Pending(Source(h)) = {}
             at == IF h.req.kind = "finalize" THEN "list"
                   ELSE IF e \/ Source(h) \notin Anons THEN "repair" ELSE "verify"
  <2>1. handler' = [handler EXCEPT ![p] = [h EXCEPT !.empty = e, !.at = at]]
    BY <1>7 DEF Look
  <2>2. /\ handler'[p] = [h EXCEPT !.empty = e, !.at = at]
        /\ \A q \in Procs : q # p => handler'[q] = handler[q]
    BY <2>1 DEF TypeOK
  <2>3. /\ handler'[p].req = h.req /\ handler'[p].at = at
        /\ handler'[p].empty = (Pending(a) = {}) /\ handler'[p].list = h.list
    BY <1>3, <1>4, <2>2 DEF Handlers
  <2>4. h.at = "look"
    BY <1>7 DEF Look, Running
  <2>5. a \in Anons /\ Pending(a) # {} => Settled(a)
    BY DEF Settled
  <2>6. ASSUME Stays PROVE HandlerOk(handler[p])'
    <3>1. SourceKnown(handler[p])'
      BY <1>3, <1>4, <1>5, <2>3, <2>4 DEF HandlerOk, SourceKnown, Claiming
    <3>2. Accounted(handler[p])'
      BY <1>4, <1>5, <2>3, <2>4 DEF Accounted, Claiming
    <3>3. Entitled(handler[p])'
      BY <2>3 DEF Entitled
    <3>4. Settles(handler[p])'
      <4>1. h.req.kind = "finalize" => a \in Anons
        BY <1>3, <1>4, <2>4 DEF HandlerOk, SourceKnown
      <4> QED
        BY <1>4, <1>5, <1>6, <2>3, <2>4, <2>5, <2>6, <4>1 DEF Settles
    <3> QED
      BY <3>1, <3>2, <3>3, <3>4 DEF HandlerOk
  <2> QED
    BY <1>1, <1>2, <2>2, <2>6, ReadingStep
<1>8. CASE List(p)
  <2> DEFINE l == Pending(Source(h))
             at == IF l = {} THEN "mark" ELSE "plan"
  <2>1. handler' = [handler EXCEPT ![p] = [h EXCEPT !.list = l, !.at = at]]
    BY <1>8 DEF List, TypeOK
  <2>2. /\ handler'[p] = [h EXCEPT !.list = l, !.at = at]
        /\ \A q \in Procs : q # p => handler'[q] = handler[q]
    BY <2>1 DEF TypeOK
  <2>3. /\ handler'[p].req = h.req /\ handler'[p].at = (IF Pending(a) = {} THEN "mark" ELSE "plan")
        /\ handler'[p].empty = h.empty /\ handler'[p].list = Pending(a)
        /\ handler'[p].missed = h.missed
    BY <1>3, <1>4, <2>2 DEF Handlers
  <2>4. h.at = "list" /\ Claiming(h)
    BY <1>8 DEF List, Running, Claiming
  <2>5. ASSUME Stays PROVE HandlerOk(handler[p])'
    <3>1. SourceKnown(handler[p])'
      BY <1>3, <1>4, <1>5, <2>3, <2>4 DEF HandlerOk, SourceKnown, Claiming
    <3>2. Accounted(handler[p])'
      <4>1. h.empty => Pending(a) \subseteq h.missed
        BY <1>3, <1>4, <2>4 DEF HandlerOk, Accounted
      <4> QED
        BY <1>5, <2>3, <2>4, <4>1 DEF Accounted, Claiming
    <3>3. Entitled(handler[p])'
      BY <2>3 DEF Entitled
    <3>4. Settles(handler[p])'
      <4>1. a \in Anons /\ (h.req.kind = "finalize" /\ ~h.empty => Settled(a))
        BY <1>3, <1>4, <2>4 DEF HandlerOk, SourceKnown, Settles
      <4> QED
        BY <1>5, <1>6, <2>3, <2>4, <2>5, <4>1 DEF Settles
    <3> QED
      BY <3>1, <3>2, <3>3, <3>4 DEF HandlerOk
  <2> QED
    BY <1>1, <1>2, <2>2, <2>5, ReadingStep
<1>9. CASE CheckPlan(p)
  <2>1. h.at = "plan" /\ Claiming(h)
    BY <1>9 DEF CheckPlan, Running, Claiming
  <2>2. PICK k : /\ handler' = [handler EXCEPT ![p] = k]
                 /\ \/ User \in pro /\ k = [h EXCEPT !.at = "move"]
                    \/ k = [h EXCEPT !.at = "mark", !.list = {}]
    <3>1. CASE Imports
      <4>1. handler' = [handler EXCEPT ![p] = [h EXCEPT !.at = "move"]]
        BY <1>9, <3>1 DEF CheckPlan, TypeOK
      <4> QED
        BY <3>1, <4>1 DEF Imports
    <3>2. CASE ~Imports
      <4>1. handler' = [handler EXCEPT ![p] = [h EXCEPT !.at = "mark", !.list = {}]]
        BY <1>9, <3>2 DEF CheckPlan, TypeOK
      <4> QED
        BY <4>1
    <3> QED
      BY <3>1, <3>2
  <2>3. handler'[p] = k /\ \A q \in Procs : q # p => handler'[q] = handler[q]
    BY <2>2 DEF TypeOK
  <2>4. /\ handler'[p].req = h.req /\ handler'[p].empty = h.empty /\ handler'[p].missed = h.missed
        /\ \/ User \in pro /\ handler'[p].at = "move" /\ handler'[p].list = h.list
           \/ handler'[p].at = "mark" /\ handler'[p].list = {}
    BY <1>3, <2>2, <2>3 DEF Handlers
  <2>5. ASSUME Stays PROVE HandlerOk(handler[p])'
    <3>1. SourceKnown(handler[p])'
      BY <1>3, <1>4, <1>5, <2>1, <2>4 DEF HandlerOk, SourceKnown, Claiming
    <3>2. Accounted(handler[p])'
      <4>1. /\ h.list # {} /\ Pending(a) \subseteq h.list \cup h.missed
            /\ h.empty => Pending(a) \subseteq h.missed
        BY <1>3, <1>4, <2>1 DEF HandlerOk, Accounted
      <4> QED
        BY <1>5, <2>1, <2>4, <4>1 DEF Accounted, Claiming
    <3>3. Entitled(handler[p])'
      BY <1>1, <2>4 DEF Entitled
    <3>4. Settles(handler[p])'
      <4>1. a \in Anons /\ (h.req.kind = "finalize" /\ ~h.empty => Settled(a))
        BY <1>3, <1>4, <2>1 DEF HandlerOk, SourceKnown, Settles
      <4> QED
        BY <1>5, <1>6, <2>1, <2>4, <2>5, <4>1 DEF Settles
    <3> QED
      BY <3>1, <3>2, <3>3, <3>4 DEF HandlerOk
  <2> QED
    BY <1>1, <1>2, <2>3, <2>5, ReadingStep
<1> QED
  BY <1>7, <1>8, <1>9

\* Moving drafts: the handler claims their session next.
LEMMA MoveStep == ASSUME IInv, TypeOK', NEW p \in Procs, Move(p) PROVE IInv'
<1> USE DEF IInv
<1> DEFINE h == handler[p]
<1>1. UNCHANGED <<session, conts, creating, pro, late, torn>>
  BY DEF Move
<1>2. h # None /\ h \in Handlers /\ HandlerOk(h) /\ h.at = "move" /\ Claiming(h)
  BY HandlerTypes DEF Move, Running, HandlersOk, Claiming
<1>3. PICK a \in Anons : a = Source(h)
  BY <1>2 DEF HandlerOk, SourceKnown
<1>4. /\ handler'[p] = [h EXCEPT !.at = "mark"] /\ handler'[p] # None
      /\ \A q \in Procs : q # p => handler'[q] = handler[q]
  <2>1. Goto(p, "mark") /\ "mark" \in Stages
    BY DEF Move, Stages
  <2> QED
    BY <1>2, <2>1, GotoEffect
<1>5. /\ handler'[p].req = h.req /\ handler'[p].at = "mark" /\ handler'[p].list = h.list
      /\ handler'[p].empty = h.empty /\ handler'[p].missed = h.missed
  BY <1>2, <1>4 DEF Handlers
<1>6. /\ Source(handler[p])' = a
      /\ h.req.kind = "finalize" => conts'[h.req.cont] # None
  BY <1>1, <1>2, <1>3, <1>5 DEF Source, HandlerOk, SourceKnown
<1>7. \A g \in Agreements : owner'[g] = IF g \in h.list /\ owner[g] = a THEN User ELSE owner[g]
  BY <1>3 DEF Move
<1>8. \A b \in Anons : /\ Pending(b)' \subseteq Pending(b)
                       /\ b # a => Pending(b)' = Pending(b)
  BY <1>7, WorkspaceClaimAssumption DEF Pending
<1>9. Pending(a)' = Pending(a) \ h.list
  BY <1>7, WorkspaceClaimAssumption DEF Pending
<1>10. h.list # {} /\ Pending(a) \subseteq h.list \cup h.missed /\ (h.empty => Pending(a) \subseteq h.missed)
  BY <1>2, <1>3 DEF HandlerOk, Accounted
<1>11. Settled(a)'
  BY <1>4, <1>5, <1>6, <1>10 DEF Settled, Running
<1>12. Keeps
  BY <1>1 DEF Keeps
<1>13. Stays
  <2>1. \A b \in Anons : Pending(b) # {} => Settled(b)'
    BY <1>8, <1>11 DEF Settled
  <2>2. \A q \in Procs : Same(q) \/ ~(Running(q, "mark") /\ handler[q].list # {})
    BY <1>2, <1>4 DEF Same, Running
  <2> QED
    BY <1>12, <2>1, <2>2, SettledStays
<1>14. HandlerOk(handler[p])'
  <2>1. SourceKnown(handler[p])'
    BY <1>2, <1>5, <1>6 DEF HandlerOk, SourceKnown, Claiming
  <2>2. Accounted(handler[p])'
    <3>1. Pending(Source(handler[p]))' = Pending(a)'
      BY <1>6 DEF Pending
    <3> QED
      BY <1>5, <1>9, <1>10, <3>1 DEF Accounted
  <2>3. Entitled(handler[p])'
    BY <1>5 DEF Entitled
  <2>4. Settles(handler[p])'
    <3>1. Settled(Source(handler[p]))' <=> Settled(a)'
      BY <1>6 DEF Settled
    <3> QED
      BY <1>11, <3>1 DEF Settles
  <2> QED
    BY <2>1, <2>2, <2>3, <2>4 DEF HandlerOk
<1>15. ClaimedSessionIsEmpty'
  BY <1>1, <1>7, WorkspaceClaimAssumption DEF ClaimedSessionIsEmpty
<1>16. UsedContinuationSettles'
  BY <1>1, <1>13, ContinuationsSettle
<1>17. UserDraftsAreEntitled'
  <2>1. User \in pro
    BY <1>2 DEF HandlerOk, Entitled
  <2> QED
    BY <1>1, <2>1 DEF UserDraftsAreEntitled
<1> QED
  BY <1>4, <1>8, <1>12, <1>13, <1>14, <1>15, <1>16, <1>17, OneHandler

\* Claiming the session, or not.
LEMMA MarkStep == ASSUME IInv, TypeOK', NEW p \in Procs, Mark(p) PROVE IInv'
<1> USE DEF IInv
<1> DEFINE h == handler[p]
<1>1. UNCHANGED <<conts, owner, creating, pro, torn>>
  BY DEF Mark
<1>2. h # None /\ h \in Handlers /\ HandlerOk(h) /\ h.at = "mark" /\ Claiming(h)
  BY HandlerTypes DEF Mark, Running, HandlersOk, Claiming
<1>3. PICK a \in Anons : a = Source(h)
  BY <1>2 DEF HandlerOk, SourceKnown
<1>4. /\ handler'[p] = [h EXCEPT !.at = "repair"]
      /\ \A q \in Procs : q # p => handler'[q] = handler[q]
  <2>1. Goto(p, "repair") /\ "repair" \in Stages
    BY DEF Mark, Stages
  <2> QED
    BY <1>2, <2>1, GotoEffect
<1>5. handler'[p].req = h.req /\ handler'[p].at = "repair"
  BY <1>2, <1>4 DEF Handlers
<1>6. /\ Source(handler[p])' = a
      /\ h.req.kind = "finalize" => conts'[h.req.cont] # None
  BY <1>1, <1>2, <1>3, <1>5 DEF Source, HandlerOk, SourceKnown
<1>7. /\ \A b \in Anons : session'[b] = IF b = a /\ Claims(h) THEN "claimed" ELSE session[b]
      /\ late' = IF Claims(h) THEN late \cup h.missed ELSE late
  BY <1>3 DEF Mark, TypeOK
<1>8. \A b \in Anons : Pending(b)' = Pending(b)
  BY <1>1 DEF Pending
<1>9. Keeps
  BY <1>1, <1>7 DEF Keeps
<1>10. Claims(h) => Settled(a)'
  BY <1>7 DEF Settled
<1>11. Stays
  <2>1. \A b \in Anons : Pending(b) # {} => Settled(b)'
    BY <1>8 DEF Settled
  <2>2. \A q \in Procs : q # p => Same(q)
    BY <1>4 DEF Same
  <2>3. h.list = {} \/ \A b \in Anons : Source(h) = b => Settled(b)'
    BY <1>3, <1>10 DEF Claims
  <2>4. \A q \in Procs : \/ Same(q)
                         \/ ~(Running(q, "mark") /\ handler[q].list # {})
                         \/ \A b \in Anons : Source(handler[q]) = b => Settled(b)'
    BY <2>2, <2>3
  <2> QED
    BY <1>9, <2>1, <2>4, SettledStays
<1>12. h.req.kind = "finalize" => Settled(a)'
  <2>1. h.req.kind = "finalize" /\ ~h.empty => Settled(a)
    BY <1>2, <1>3 DEF HandlerOk, Settles
  <2>2. h.empty => Claims(h)
    BY DEF Claims
  <2> QED
    BY <1>10, <1>11, <2>1, <2>2 DEF Stays
<1>13. HandlerOk(handler[p])'
  <2>1. SourceKnown(handler[p])' /\ Accounted(handler[p])' /\ Entitled(handler[p])'
    BY <1>2, <1>5, <1>6 DEF HandlerOk, SourceKnown, Accounted, Entitled, Claiming
  <2>2. Settles(handler[p])'
    <3>1. Settled(Source(handler[p]))' <=> Settled(a)'
      BY <1>6 DEF Settled
    <3> QED
      BY <1>5, <1>12, <3>1 DEF Settles
  <2> QED
    BY <2>1, <2>2 DEF HandlerOk
<1>14. ClaimedSessionIsEmpty'
  <2> SUFFICES ASSUME NEW g \in Agreements, owner'[g] \in Anons, session'[owner'[g]] = "claimed"
               PROVE  g \in late'
    BY DEF ClaimedSessionIsEmpty
  <2>1. CASE session[owner[g]] = "claimed"
    BY <1>1, <1>7, <2>1 DEF ClaimedSessionIsEmpty
  <2>2. CASE session[owner[g]] # "claimed"
    <3>1. owner[g] = a /\ Claims(h)
      BY <1>1, <1>7, <2>2
    <3>2. Pending(a) \subseteq h.missed
      BY <1>2, <1>3, <3>1 DEF HandlerOk, Accounted, Claims
    <3>3. g \in Pending(a)
      BY <3>1 DEF Pending
    <3> QED
      BY <1>7, <3>1, <3>2, <3>3
  <2> QED
    BY <2>1, <2>2
<1>15. UsedContinuationSettles'
  BY <1>1, <1>11, ContinuationsSettle
<1>16. UserDraftsAreEntitled'
  BY <1>1 DEF UserDraftsAreEntitled
<1> QED
  BY <1>4, <1>8, <1>9, <1>11, <1>13, <1>14, <1>15, <1>16, OneHandler

\* The repair of the subscription, or its error.
LEMMA RepairStep ==
  ASSUME IInv, TypeOK', NEW p \in Procs, Repair(p) \/ RepairFailed(p)
  PROVE  IInv'
<1> USE DEF IInv
<1> DEFINE h == handler[p]
<1>1. UNCHANGED <<session, conts, owner, creating, late, torn>> /\ (User \in pro => User \in pro')
  BY RepairedIsUsers DEF Repair, RepairFailed, TypeOK
<1>2. h # None /\ h \in Handlers /\ HandlerOk(h) /\ h.at = "repair"
  BY HandlerTypes DEF Repair, RepairFailed, Running, HandlersOk
<1>3. ~(Running(p, "mark") /\ h.list # {})
  BY <1>2 DEF Running
<1>4. CASE Answer(p, TRUE)
  <2>1. handler'[p] = None /\ \A q \in Procs : q # p => handler'[q] = handler[q]
    BY <1>2, <1>4, AnswerEffect
  <2> QED
    BY <1>1, <1>3, <2>1, ReadingStep
<1>5. CASE h.req.kind = "finalize" /\ Goto(p, "consume")
  <2>1. /\ handler'[p] = [h EXCEPT !.at = "consume"]
        /\ \A q \in Procs : q # p => handler'[q] = handler[q]
    BY <1>2, <1>5, GotoEffect DEF Stages
  <2>2. handler'[p].req = h.req /\ handler'[p].at = "consume"
    BY <1>2, <2>1 DEF Handlers
  <2>3. conts[h.req.cont] # None
    BY <1>2, <1>5 DEF HandlerOk, SourceKnown
  <2>4. PICK a \in Anons \cup {Returning} : a = Source(h)
    BY <1>2, <1>5, <2>3, SourceTypes
  <2>5. Source(handler[p])' = a
    BY <1>1, <1>5, <2>2, <2>4 DEF Source
  <2>6. ASSUME Stays PROVE HandlerOk(handler[p])'
    <3>1. SourceKnown(handler[p])' /\ Accounted(handler[p])' /\ Entitled(handler[p])'
      BY <1>1, <1>5, <2>2, <2>3 DEF SourceKnown, Accounted, Entitled, Claiming
    <3>2. Settles(handler[p])'
      <4>1. a # Returning => Settled(a)
        BY <1>2, <1>5, <2>4 DEF HandlerOk, Settles
      <4>2. a # Returning => Settled(a)'
        BY <2>4, <2>6, <4>1 DEF Stays
      <4>3. Settled(Source(handler[p]))' <=> Settled(a)'
        BY <2>5 DEF Settled
      <4> QED
        BY <2>2, <2>5, <4>2, <4>3 DEF Settles, Claiming
    <3> QED
      BY <3>1, <3>2 DEF HandlerOk
  <2> QED
    BY <1>1, <1>3, <2>1, <2>6, ReadingStep
<1> QED
  BY <1>4, <1>5 DEF Repair, RepairFailed, AfterRepair

\* The continuation is used up once its session is settled.
LEMMA ConsumeStep == ASSUME IInv, TypeOK', NEW p \in Procs, Consume(p) PROVE IInv'
<1> USE DEF IInv
<1> DEFINE h == handler[p]
           k == h.req.cont
<1>1. UNCHANGED <<session, owner, creating, pro, late, torn>>
  BY DEF Consume
<1>2. h # None /\ HandlerOk(h) /\ h.at = "consume" /\ h.req.kind = "finalize"
  BY DEF Consume, Running, HandlersOk, HandlerOk, SourceKnown
<1>3. k \in Conts /\ conts[k] # None /\ conts[k] \in Continuations
  BY <1>2, HandlerTypes DEF HandlerOk, SourceKnown, TypeOK
<1>4. handler'[p] = None /\ \A q \in Procs : q # p => handler'[q] = handler[q]
  <2>1. Answer(p, TRUE)
    BY DEF Consume
  <2> QED
    BY <1>2, <2>1, AnswerEffect
<1>5. /\ conts'[k] = [conts[k] EXCEPT !.at = "used"]
      /\ \A j \in Conts : j # k => conts'[j] = conts[j]
  BY <1>3 DEF Consume, TypeOK
<1>6. conts'[k] \in Continuations /\ conts'[k].anon = conts[k].anon /\ conts'[k] # None
  BY <1>3, <1>5, NoneAssumption DEF Continuations
<1>7. Keeps
  BY <1>1, <1>5, <1>6 DEF Keeps
<1>8. \A b \in Anons : Pending(b)' = Pending(b)
  BY <1>1 DEF Pending
<1>9. Stays
  <2>1. \A b \in Anons : Pending(b) # {} => Settled(b)'
    BY <1>8 DEF Settled
  <2>2. \A q \in Procs : Same(q) \/ ~(Running(q, "mark") /\ handler[q].list # {})
    BY <1>2, <1>4 DEF Same, Running
  <2> QED
    BY <1>7, <2>1, <2>2, SettledStays
<1>10. UsedContinuationSettles'
  <2>1. PICK a \in Anons \cup {Returning} : a = conts[k].anon
    BY <1>3 DEF Continuations
  <2>2. a # Returning => Settled(a)
    BY <1>2, <2>1 DEF HandlerOk, Settles, Source
  <2>3. a # Returning => a \in Anons /\ Settled(a)'
    BY <1>9, <2>1, <2>2 DEF Stays
  <2> QED
    BY <1>5, <1>6, <1>9, <2>1, <2>3, ContinuationsSettle
<1>11. ClaimedSessionIsEmpty' /\ UserDraftsAreEntitled'
  BY <1>1 DEF ClaimedSessionIsEmpty, UserDraftsAreEntitled
<1> QED
  BY <1>4, <1>7, <1>8, <1>9, <1>10, <1>11, OneHandler

\* A handler that fails between moving drafts and the claim tears the session.
LEMMA FailedStep == ASSUME IInv, TypeOK', NEW p \in Procs, HandlerFailed(p) PROVE IInv'
<1> USE DEF IInv
<1> DEFINE h == handler[p]
<1>1. UNCHANGED <<session, conts, owner, creating, pro, late>> /\ h # None
  BY DEF HandlerFailed
<1>2. handler'[p] = None /\ \A q \in Procs : q # p => handler'[q] = handler[q]
  <2>1. Answer(p, FALSE)
    BY DEF HandlerFailed
  <2> QED
    BY <1>1, <2>1, AnswerEffect
<1>3. /\ torn \subseteq torn'
      /\ Running(p, "mark") /\ h.list # {} => Source(h) \in torn'
  BY DEF HandlerFailed
<1>4. Keeps
  BY <1>1, <1>3 DEF Keeps
<1>5. \A b \in Anons : Pending(b)' = Pending(b)
  BY <1>1 DEF Pending
<1>6. Stays
  <2>1. \A b \in Anons : Pending(b) # {} => Settled(b)'
    BY <1>5 DEF Settled
  <2>2. Running(p, "mark") /\ h.list # {} => \A b \in Anons : Source(h) = b => Settled(b)'
    BY <1>3 DEF Settled
  <2>3. \A q \in Procs : \/ Same(q)
                         \/ ~(Running(q, "mark") /\ handler[q].list # {})
                         \/ \A b \in Anons : Source(handler[q]) = b => Settled(b)'
    BY <1>2, <2>2 DEF Same
  <2> QED
    BY <1>4, <2>1, <2>3, SettledStays
<1>7. UsedContinuationSettles'
  BY <1>1, <1>6, ContinuationsSettle
<1>8. ClaimedSessionIsEmpty' /\ UserDraftsAreEntitled'
  BY <1>1 DEF ClaimedSessionIsEmpty, UserDraftsAreEntitled
<1> QED
  BY <1>2, <1>4, <1>5, <1>6, <1>7, <1>8, OneHandler

-----------------------------------------------------------------------------
(* Theorems. *)

\* Every step keeps the invariant.
LEMMA InvariantStep == IInv /\ [Next]_vars => IInv'
<1> SUFFICES ASSUME IInv, [Next]_vars PROVE IInv'
  OBVIOUS
<1> USE DEF server, client
<1>0. TypeOK'
  BY TypeStep DEF IInv
<1>1. ASSUME UNCHANGED <<session, conts, owner, creating, late, torn>>,
             User \in pro => User \in pro', \A p \in Procs : Same(p)
      PROVE  IInv'
  <2>1. Keeps
    BY <1>1 DEF Keeps
  <2>2. \A g \in Agreements : creating'[g] = User => User \in pro'
    BY <1>1 DEF IInv, UserDraftsAreEntitled
  <2> QED
    BY <1>0, <1>1, <2>1, <2>2, OutsideStep
<1>2. CASE UNCHANGED vars
  BY <1>1, <1>2 DEF vars, Same
<1>3. CASE Fault
  <2>1. ASSUME NEW t \in Tabs, Lost(t) \/ Reload(t) \/ NewTab(t) PROVE IInv'
    <3>1. Unheard(t)
      BY <2>1 DEF Lost, Reload, NewTab, Abandoned
    <3> QED
      BY <1>1, <3>1, UnheardEffect DEF Unheard, IInv
  <2>2. ASSUME NEW t \in Tabs, NEW k \in Conts, CallbackAgain(t, k) PROVE IInv'
    BY <1>1, <2>2 DEF CallbackAgain, Return, Same
  <2>3. ASSUME NEW t \in Tabs, SignOut(t) PROVE IInv'
    BY <1>1, <2>3 DEF SignOut, Same
  <2>4. ASSUME NEW p \in Procs, RepairFailed(p) \/ HandlerFailed(p) PROVE IInv'
    BY <1>0, <2>4, RepairStep, FailedStep
  <2>5. ASSUME NEW g \in Agreements, CreateWithdrawn(g) PROVE IInv'
    BY <1>0, <2>5, WithdrawnStep
  <2> QED
    BY <1>3, <2>1, <2>2, <2>3, <2>4, <2>5 DEF Fault
<1>4. ASSUME NEW t \in Tabs,
             \/ Boot(t) \/ Minted(t) \/ Buy(t) \/ CheckoutReturn(t)
             \/ Restore(t) \/ Rebind(t) \/ Answered(t)
      PROVE  IInv'
  <2>1. CASE Boot(t) \/ CheckoutReturn(t) \/ Restore(t) \/ Rebind(t) \/ Answered(t)
    BY <1>1, <2>1 DEF Boot, CheckoutReturn, Restore, Rebind, Answered, Same
  <2>2. CASE Buy(t)
    BY <1>1, <2>2 DEF Buy, Same
  <2>3. CASE Minted(t)
    <3>1. PICK a \in Anons : session[a] = "free" /\ session' = [session EXCEPT ![a] = "live"]
      BY <2>3 DEF Minted
    <3>2. UNCHANGED <<conts, owner, creating, pro, handler, late, torn>>
      BY <2>3 DEF Minted
    <3>3. \A b \in Anons : session'[b] = "claimed" <=> session[b] = "claimed"
      BY <3>1 DEF IInv, TypeOK
    <3>4. Keeps /\ \A p \in Procs : Same(p)
      BY <3>2, <3>3 DEF Keeps, Same
    <3>5. \A g \in Agreements : creating'[g] = User => User \in pro'
      BY <3>2 DEF IInv, UserDraftsAreEntitled
    <3> QED
      BY <1>0, <3>2, <3>3, <3>4, <3>5, OutsideStep
  <2> QED
    BY <1>4, <2>1, <2>2, <2>3
<1>5. ASSUME NEW t \in Tabs, NEW g \in Agreements, CreateVerified(t, g) PROVE IInv'
  <2>1. UNCHANGED <<session, conts, owner, handler, late, torn>> /\ (User \in pro => User \in pro')
    BY <1>5, RepairedIsUsers DEF CreateVerified, IInv, TypeOK
  <2>2. Keeps /\ \A p \in Procs : Same(p)
    BY <2>1 DEF Keeps, Same
  <2>3. \A f \in Agreements : creating'[f] = User => User \in pro'
    <3>1. \A f \in Agreements : creating'[f] = creating[f] \/ creating'[f] = org
      BY <1>5 DEF CreateVerified, IInv, TypeOK
    <3>2. org = User => User \in pro'
      BY <1>5 DEF CreateVerified
    <3> QED
      BY <2>1, <3>1, <3>2 DEF IInv, UserDraftsAreEntitled
  <2> QED
    BY <1>0, <2>1, <2>2, <2>3, OutsideStep
<1>6. ASSUME NEW t \in Tabs, NEW k \in Conts,
             StartSignIn(t, k) \/ StartReturning(t, k) \/ Callback(t, k)
      PROVE  IInv'
  <2>1. UNCHANGED <<session, owner, creating, pro, handler, late, torn>>
    BY <1>6 DEF StartSignIn, StartReturning, Continuation, Callback, Return
  <2>2. \A j \in Conts : /\ conts[j] # None => conts'[j] # None /\ conts'[j].anon = conts[j].anon
                         /\ conts'[j] = conts[j] \/ conts'[j].at # "used"
    <3>1. CASE StartSignIn(t, k) \/ StartReturning(t, k)
      <4>1. PICK anon : conts[k] = None /\ conts' = [conts EXCEPT ![k] = [anon |-> anon, at |-> "issued"]]
        BY <3>1 DEF StartSignIn, StartReturning, Continuation
      <4> QED
        BY <4>1 DEF IInv, TypeOK
    <3>2. CASE Callback(t, k)
      <4>1. conts[k] # None /\ conts[k] \in Continuations
        BY <3>2 DEF Callback, IInv, TypeOK
      <4>2. /\ conts'[k] = [conts[k] EXCEPT !.at = "opened"]
            /\ \A j \in Conts : j # k => conts'[j] = conts[j]
        BY <3>2 DEF Callback, IInv, TypeOK
      <4>3. conts'[k] \in Continuations /\ conts'[k].anon = conts[k].anon /\ conts'[k].at = "opened"
        BY <4>1, <4>2 DEF Continuations
      <4> QED
        BY <4>2, <4>3, NoneAssumption
    <3> QED
      BY <1>6, <3>1, <3>2
  <2>3. Keeps /\ \A p \in Procs : Same(p)
    BY <2>1, <2>2 DEF Keeps, Same
  <2>4. \A g \in Agreements : creating'[g] = User => User \in pro'
    BY <2>1 DEF IInv, UserDraftsAreEntitled
  <2> QED
    BY <1>0, <2>1, <2>2, <2>3, <2>4, OutsideStep
<1>7. ASSUME NEW g \in Agreements, CreateStored(g) PROVE IInv'
  BY <1>0, <1>7, StoredStep
<1>8. ASSUME NEW g \in Agreements, CreateReturned(g) PROVE IInv'
  <2>1. UNCHANGED <<session, conts, owner, pro, handler, late, torn>>
    BY <1>8 DEF CreateReturned
  <2>2. Keeps /\ \A p \in Procs : Same(p)
    BY <2>1 DEF Keeps, Same
  <2>3. \A f \in Agreements : creating'[f] = User => User \in pro'
    <3>1. \A f \in Agreements : creating'[f] = creating[f] \/ creating'[f] = None
      BY <1>8 DEF CreateReturned, IInv, TypeOK
    <3> QED
      BY <2>1, <3>1, WorkspaceClaimAssumption DEF IInv, UserDraftsAreEntitled
  <2> QED
    BY <1>0, <2>1, <2>2, <2>3, OutsideStep
<1>9. ASSUME NEW p \in Procs, Handle(p) PROVE IInv'
  BY <1>0, <1>9, EarlyStep, LookStep, MoveStep, MarkStep, RepairStep, ConsumeStep DEF Handle
<1> QED
  BY <1>2, <1>3, <1>4, <1>5, <1>6, <1>7, <1>8, <1>9 DEF Next

\* The inductive invariant holds.
LEMMA InvariantHolds == Spec => []IInv
<1>1. Init => IInv
  BY InvariantInit
<1>2. IInv /\ [Next]_vars => IInv'
  BY InvariantStep
<1> QED
  BY <1>1, <1>2, PTL DEF Spec

\* Browser, tabs and server only ever hold values of the intended kinds,
\* whichever order requests, answers and sign-ins come in.
THEOREM TypeCorrect == Spec => []TypeOK
<1>1. IInv => TypeOK
  BY DEF IInv
<1> QED
  BY <1>1, InvariantHolds, PTL

\* Whatever the statements of finalize-auth, bind-user-org and of threads that
\* create drafts interleave to, and wherever one of them fails, a draft left in
\* a claimed session was stored after the handler that claimed it had looked.
THEOREM ClaimsLeaveNothing == Spec => []ClaimedSessionIsEmpty
<1>1. IInv => ClaimedSessionIsEmpty
  BY DEF IInv
<1> QED
  BY <1>1, InvariantHolds, PTL

\* A guest's continuation is used up only by a finalize-auth whose session is
\* claimed, has drafts that can be claimed, or is about to be claimed; or whose
\* drafts were withdrawn, or moved by a handler that failed before the claim.
THEOREM ContinuationsSettleSessions == Spec => []UsedContinuationSettles
<1>1. IInv => UsedContinuationSettles
  BY DEF IInv
<1> QED
  BY <1>1, InvariantHolds, PTL

\* Whichever way drafts reach the user's workspace, the user's plan allows it.
THEOREM DraftsAreEntitled == Spec => []UserDraftsAreEntitled
<1>1. IInv => UserDraftsAreEntitled
  BY DEF IInv
<1> QED
  BY <1>1, InvariantHolds, PTL
=============================================================================

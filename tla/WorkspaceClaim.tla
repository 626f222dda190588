---------------------------- MODULE WorkspaceClaim ----------------------------
(***************************************************************************)
(* How the guest workspace of a browser becomes the workspace of a signed-in *)
(* user.  Guests work in a server-minted anonymous workspace; at sign-in the *)
(* drafts made there and the subscription bought there have to follow the    *)
(* user (frontend/src/auth, backend/routers/workspace_auth_api.py).          *)
(*                                                                          *)
(*   - The browser keeps the workspace id and the workspace of the last      *)
(*     purchase in local storage, the anonymous credential in a cookie: one  *)
(*     of each for all its tabs.                                             *)
(*   - A tab keeps a credential of its own and the continuation of a sign-in *)
(*     in session storage, and in memory whether it has finalized the user.  *)
(*   - The server keeps the anonymous sessions, the continuations, the owner *)
(*     of each agreement and the entitled workspaces.  Every read and every  *)
(*     write of a handler is a transaction of its own.  finalize-auth and    *)
(*     bind-user-org are async handlers that never await, so that a process  *)
(*     runs one at a time; drafts are created in threads beside them.        *)
(*                                                                          *)
(* An anonymous session, its workspace and its credential are one value.     *)
(* Sessions and continuations do not expire and a subscription does not end. *)
(* The pages name no agreement when they start a sign-in (AuthProvider.tsx), *)
(* so that finalize-auth has none to check in the end.                       *)
(***************************************************************************)
EXTENDS Naturals, FiniteSets

CONSTANTS
  Tabs,       \* the tabs of one browser
  Anons,      \* the anonymous workspaces the server may mint
  Agreements, \* the drafts that may be created
  Conts,      \* the sign-in continuations the server may create
  Procs,      \* the processes of the server
  User,       \* the workspace of the user
  Local,      \* the workspace id of a browser that has none
  Returning,  \* the session a returning sign-in names: none
  None,       \* no credential, owner, continuation or request
  MaxPurchases, \* bound: the subscriptions bought
  MaxFaults    \* bound: lost requests, reloads, closed tabs, sign-outs, errors

ASSUME WorkspaceClaimAssumption ==
  /\ User \notin {Local, Returning, None} /\ Local \notin {Returning, None} /\ Returning # None
  /\ {User, Local, Returning, None} \cap (Anons \cup Conts) = {} /\ None \notin Tabs
  /\ MaxPurchases \in Nat /\ MaxFaults \in Nat

VARIABLES
  org, cookie, paid,  \* browser: workspace, credential, last purchase
  signedIn,           \* browser: the session of the identity provider
  checkout,           \* browser: the workspace of the open checkout, or None
  tab,                \* tab: credential, continuation, finalized flag
  auth,               \* tab: its finalize or bind request, or None
  minting,            \* the tabs that wait for an anonymous session
  session,            \* server: the state of each anonymous session
  conts,              \* server: the continuations
  owner,              \* server: the owner of each agreement
  creating,           \* server: drafts being created, with the verified creator
  pro,                \* server: the entitled workspaces
  handler,            \* process: the finalize or bind it runs, or None
  late,               \* history: drafts stored after the handler that claimed
                      \*   their session had looked for drafts
  torn,               \* history: sessions with a draft withdrawn, or with drafts
                      \*   moved by a handler that failed before the claim
  faults              \* the faults so far

local == <<org, cookie, paid, signedIn, checkout>>
client == <<tab, auth, minting>>
server == <<session, conts, owner, creating, pro, handler, late, torn>>
vars == <<local, client, server, faults>>

Tab == [token : Anons \cup {None}, cont : Conts \cup {None},
        finalized : BOOLEAN]

Requests ==
  [kind : {"finalize"}, cred : Anons \cup {None}, paid : Anons \cup {User, None}, cont : Conts]
    \cup [kind : {"bind", "upsert"}, cred : Anons \cup {None}, paid : Anons \cup {User, None},
          prev : Anons \cup {User, Local}]

Answers == [kind : {"finalize", "bind", "upsert"}, ok : BOOLEAN]

(* A handler has a stage, whether its first look found no draft, the drafts it *)
(* moves, and those stored in its session since that look.  A tab that is gone *)
(* gets no answer.                                                             *)
Handlers ==
  [req : Requests, tab : Tabs \cup {None},
   at : {"read", "verify", "look", "list", "plan", "move", "mark", "repair", "consume"},
   empty : BOOLEAN, list : SUBSET Agreements, missed : SUBSET Agreements]

Continuations == [anon : Anons \cup {Returning}, at : {"issued", "opened", "used"}]

ASSUME NoneAssumption == None \notin Handlers /\ None \notin Continuations

TypeOK ==
  /\ org \in Anons \cup {User, Local} /\ cookie \in Anons \cup {None}
  /\ paid \in Anons \cup {User, None} /\ checkout \in Anons \cup {User, None}
  /\ signedIn \in BOOLEAN
  /\ tab \in [Tabs -> Tab] /\ minting \subseteq Tabs
  /\ auth \in [Tabs -> Requests \cup Answers \cup {None}]
  /\ session \in [Anons -> {"free", "live", "claimed"}]
  /\ conts \in [Conts -> Continuations \cup {None}]
  /\ owner \in [Agreements -> Anons \cup {User, None}]
  /\ creating \in [Agreements -> Anons \cup {User, None}]
  /\ pro \subseteq Anons \cup {User} /\ handler \in [Procs -> Handlers \cup {None}]
  /\ late \subseteq Agreements /\ torn \subseteq Anons /\ faults \in 0 .. MaxFaults

FreshTab == [token |-> None, cont |-> None, finalized |-> FALSE]

Init ==
  /\ org = Local /\ cookie = None /\ paid = None /\ checkout = None /\ signedIn = FALSE
  /\ tab = [t \in Tabs |-> FreshTab] /\ auth = [t \in Tabs |-> None] /\ minting = {}
  /\ session = [a \in Anons |-> "free"] /\ conts = [k \in Conts |-> None]
  /\ owner = [g \in Agreements |-> None] /\ creating = [g \in Agreements |-> None]
  /\ pro = {} /\ handler = [p \in Procs |-> None]
  /\ late = {} /\ torn = {} /\ faults = 0

(* The header carries the tab's credential; without one the cookie counts. *)
Cred(t) == IF tab[t].token = None THEN cookie ELSE tab[t].token

(* A request of tab t is let into the workspace the browser is in. *)
Verified(t) ==
  \/ org \in Anons /\ Cred(t) = org /\ session[org] = "live"
  \/ org = User /\ signedIn

Pending(a) == {g \in Agreements : owner[g] = a}

(* The workspace a handler takes drafts and a subscription from. *)
Source(h) == IF h.req.kind = "finalize" THEN conts[h.req.cont].anon ELSE h.req.prev

Running(p, at) == handler[p] # None /\ handler[p].at = at

-----------------------------------------------------------------------------
(* Guests: sessions, drafts, purchases. *)

(* The anonymous session a tab needs before it creates or signs in. *)
Boot(t) ==
  /\ tab[t].token = None /\ t \notin minting
  /\ signedIn => org # User
  /\ minting' = minting \cup {t}
  /\ UNCHANGED <<local, tab, auth, server>>

(* The answer sets credential, cookie and workspace, whatever the browser's *)
(* workspace has become since the request.                                  *)
Minted(t) ==
  /\ t \in minting
  /\ minting' = minting \ {t}
  /\ \E a \in Anons :
       /\ session[a] = "free"
       /\ session' = [session EXCEPT ![a] = "live"]
       /\ org' = a /\ cookie' = a
       /\ tab' = [tab EXCEPT ![t].token = a]
  /\ UNCHANGED <<paid, signedIn, checkout, auth, conts, owner, creating, pro, handler, late, torn>>

(* The subscription of the first entitled workspace of two that may hold it *)
(* moves to the user, who has none.                                         *)
Repaired(first, second) ==
  LET from == IF first \in pro THEN first ELSE second
  IN  IF User \in pro \/ from \notin pro THEN pro ELSE (pro \ {from}) \cup {User}

(* The creator is verified: one draft for a guest, an entitled workspace for *)
(* the user, repaired on the way from the purchase the header names.         *)
CreateVerified(t, g) ==
  /\ owner[g] = None /\ creating[g] = None
  /\ Verified(t)
  /\ pro' = IF org = User THEN Repaired(paid, paid) ELSE pro
  /\ org = User => User \in pro'
  /\ org \in Anons => Pending(org) = {}
  /\ creating' = [creating EXCEPT ![g] = org]
  /\ UNCHANGED <<local, client, session, conts, owner, handler, late, torn>>

(* The handlers that have looked for the drafts of a, and may claim it. *)
Looked(a) ==
  {p \in Procs : /\ handler[p] # None /\ Source(handler[p]) = a
                 /\ handler[p].at \notin {"read", "look"}
                 /\ handler[p].req.kind = "finalize" => handler[p].at # "verify"}

CreateStored(g) ==
  /\ creating[g] # None /\ owner[g] = None
  /\ owner' = [owner EXCEPT ![g] = creating[g]]
  /\ late' = IF creating[g] \in Anons /\ session[creating[g]] = "claimed"
             THEN late \cup {g} ELSE late \ {g}
  /\ handler' = [p \in Procs |-> IF p \in Looked(creating[g])
                                THEN [handler[p] EXCEPT !.missed = @ \cup {g}] ELSE handler[p]]
  /\ UNCHANGED <<local, client, session, conts, creating, pro, torn>>

CreateReturned(g) ==
  /\ creating[g] # None /\ owner[g] # None
  /\ creating' = [creating EXCEPT ![g] = None]
  /\ UNCHANGED <<local, client, session, conts, owner, pro, handler, late, torn>>

(* An error of the meter, before or after the owner is stored, withdraws the *)
(* draft, whoever owns it by then.                                           *)
CreateWithdrawn(g) ==
  /\ creating[g] # None
  /\ creating' = [creating EXCEPT ![g] = None]
  /\ owner' = [owner EXCEPT ![g] = None]
  /\ torn' = torn \cup ({owner[g]} \cap Anons)
  /\ UNCHANGED <<local, client, session, conts, pro, handler, late>>

(* A checkout is paid; the provider's webhook entitles its workspace. *)
Buy(t) ==
  /\ Verified(t) /\ checkout = None /\ org \notin pro
  /\ Cardinality(pro) < MaxPurchases
  /\ checkout' = org
  /\ pro' = pro \cup {org}
  /\ UNCHANGED <<org, cookie, paid, signedIn, client, session, conts, owner, creating, handler, late, torn>>

(* Back from the checkout, the purchase is noted if it can be verified for *)
(* the workspace the browser is in by now.                                 *)
CheckoutReturn(t) ==
  /\ checkout # None
  /\ checkout' = None
  /\ paid' = IF Verified(t) /\ org = checkout THEN org ELSE paid
  /\ UNCHANGED <<org, cookie, signedIn, client, server>>

-----------------------------------------------------------------------------
(* Signing in. *)

Continuation(t, k, anon) ==
  /\ conts[k] = None
  /\ conts' = [conts EXCEPT ![k] = [anon |-> anon, at |-> "issued"]]
  /\ tab' = [tab EXCEPT ![t].cont = k]
  /\ UNCHANGED <<local, auth, minting, session, owner, creating, pro, handler, late, torn>>

(* A guest signs in from the session of the tab, which has to be live. *)
StartSignIn(t, k) ==
  /\ ~signedIn /\ tab[t].token # None
  /\ session[tab[t].token] = "live"
  /\ Continuation(t, k, tab[t].token)

StartReturning(t, k) == ~signedIn /\ Continuation(t, k, Returning)

Finalize(t, k) == [kind |-> "finalize", cred |-> Cred(t), paid |-> paid, cont |-> k]
Bind(t, kind) == [kind |-> kind, cred |-> Cred(t), paid |-> paid, prev |-> org]

(* The way back from the provider, in any tab: the link names the sign-in's *)
(* continuation and works once.                                             *)
Return(t, k) ==
  /\ auth[t] = None
  /\ auth' = [auth EXCEPT ![t] = Finalize(t, k)]
  /\ tab' = [tab EXCEPT ![t] = [@ EXCEPT !.cont = k, !.finalized = FALSE]]
  /\ UNCHANGED <<org, cookie, paid, checkout, minting, session, owner, creating, pro, handler, late, torn>>

Callback(t, k) ==
  /\ conts[k] # None /\ conts[k].at = "issued"
  /\ signedIn' = TRUE
  /\ conts' = [conts EXCEPT ![k].at = "opened"]
  /\ Return(t, k)

(* A page that loads, or hears of the session, finalizes the user once; *)
(* later it only repeats the binding and ignores how that goes.          *)
Restore(t) ==
  /\ signedIn /\ auth[t] = None
  /\ auth' = [auth EXCEPT ![t] =
       IF tab[t].finalized THEN Bind(t, "upsert")
       ELSE IF tab[t].cont # None THEN Finalize(t, tab[t].cont) ELSE Bind(t, "bind")]
  /\ tab' = [tab EXCEPT ![t].finalized = TRUE]
  /\ UNCHANGED <<local, minting, server>>

(* The callback page once it is done, and the page for a new agreement, bind *)
(* a workspace that is still not the user's.                                  *)
Rebind(t) ==
  /\ signedIn /\ auth[t] = None /\ org # User
  /\ auth' = [auth EXCEPT ![t] = Bind(t, "upsert")]
  /\ UNCHANGED <<local, tab, minting, server>>

-----------------------------------------------------------------------------
(* The server: finalize-auth and bind-user-org, statement by statement. *)

Served(t) == \E p \in Procs : handler[p] # None /\ handler[p].tab = t

Receive(p, t) ==
  /\ handler[p] = None /\ auth[t] \in Requests /\ ~Served(t)
  /\ handler' = [handler EXCEPT ![p] =
       [req |-> auth[t], tab |-> t, at |-> IF auth[t].kind = "finalize" THEN "read" ELSE "look",
        empty |-> FALSE, list |-> {}, missed |-> {}]]
  /\ UNCHANGED <<local, client, session, conts, owner, creating, pro, late, torn>>

Goto(p, at) == handler' = [handler EXCEPT ![p].at = at] /\ UNCHANGED auth

(* The handler ends; the tab hears of it unless it is gone. *)
Answer(p, ok) ==
  LET h == handler[p]
  IN  /\ handler' = [handler EXCEPT ![p] = None]
      /\ auth' = IF h.tab = None THEN auth
                 ELSE [auth EXCEPT ![h.tab] = [kind |-> h.req.kind, ok |-> ok]]

(* The continuation has to exist; one that is used is not used again. *)
ReadContinuation(p) ==
  /\ Running(p, "read")
  /\ LET k == handler[p].req.cont
     IN  IF conts[k] = None THEN Answer(p, FALSE)
         ELSE IF conts[k].at = "used" THEN Answer(p, TRUE)
         ELSE Goto(p, "verify")
  /\ UNCHANGED <<local, tab, minting, session, conts, owner, creating, pro, late, torn>>

(* A credential, when the request has one, has to be of a live session.  The *)
(* session of a guest is claimed, and drafts are moved, on its own only.     *)
Verify(p) ==
  /\ Running(p, "verify")
  /\ LET h == handler[p]
     IN  IF \/ h.req.cred # None /\ session[h.req.cred] # "live"
            \/ Source(h) \notin {Returning, h.req.cred}
         THEN Answer(p, FALSE)
         ELSE Goto(p, IF h.req.kind # "finalize" THEN "list"
                      ELSE IF Source(h) = Returning THEN "repair" ELSE "look")
  /\ UNCHANGED <<local, tab, minting, session, conts, owner, creating, pro, late, torn>>

(* The first look.  A bind without drafts to move goes on to the repair. *)
Look(p) ==
  /\ Running(p, "look")
  /\ LET h == handler[p]
         empty == Pending(Source(h)) = {}
     IN  handler' = [handler EXCEPT ![p] = [h EXCEPT !.empty = empty,
           !.at = IF h.req.kind = "finalize" THEN "list"
                  ELSE IF empty \/ Source(h) \notin Anons THEN "repair" ELSE "verify"]]
  /\ UNCHANGED <<local, client, session, conts, owner, creating, pro, late, torn>>

List(p) ==
  /\ Running(p, "list")
  /\ LET list == Pending(Source(handler[p]))
     IN  handler' = [handler EXCEPT ![p] = [@ EXCEPT !.list = list,
                                            !.at = IF list = {} THEN "mark" ELSE "plan"]]
  /\ UNCHANGED <<local, client, session, conts, owner, creating, pro, late, torn>>

\* Wrong variant: drafts are imported whatever the plan of the user.
ImportsAlways == TRUE

(* Drafts of a guest are imported into an entitled workspace only. *)
Imports == User \in pro

(* Without a plan the import is deferred. *)
CheckPlan(p) ==
  /\ Running(p, "plan")
  /\ handler' = [handler EXCEPT ![p] = IF Imports THEN [@ EXCEPT !.at = "move"]
                                       ELSE [@ EXCEPT !.at = "mark", !.list = {}]]
  /\ UNCHANGED <<local, client, session, conts, owner, creating, pro, late, torn>>

(* The drafts of the list that are still the guest's. *)
Move(p) ==
  /\ Running(p, "move")
  /\ LET h == handler[p]
     IN  owner' = [g \in Agreements |->
                    IF g \in h.list /\ owner[g] = Source(h) THEN User ELSE owner[g]]
  /\ Goto(p, "mark")
  /\ UNCHANGED <<local, tab, minting, session, conts, creating, pro, late, torn>>

\* Wrong variant: the session is claimed though its import is deferred.
ClaimsAlways(h) == TRUE
\* Wrong variant: a session without drafts is never claimed.
ClaimsDrafts(h) == h.list # {}

(* The session stays claimable while the import is deferred. *)
Claims(h) == h.list # {} \/ h.empty

Mark(p) ==
  /\ Running(p, "mark")
  /\ LET h == handler[p]
     IN  IF Claims(h)
         THEN /\ session' = [session EXCEPT ![Source(h)] = "claimed"]
              /\ late' = late \cup h.missed
         ELSE UNCHANGED <<session, late>>
  /\ Goto(p, "repair")
  /\ UNCHANGED <<local, tab, minting, conts, owner, creating, pro, torn>>

(* The end of a bind; a finalize has its continuation to use up. *)
AfterRepair(p) ==
  IF handler[p].req.kind = "finalize" THEN Goto(p, "consume") ELSE Answer(p, TRUE)

Repair(p) ==
  /\ Running(p, "repair")
  /\ pro' = Repaired(handler[p].req.paid, Source(handler[p]))
  /\ AfterRepair(p)
  /\ UNCHANGED <<local, tab, minting, session, conts, owner, creating, late, torn>>

Consume(p) ==
  /\ Running(p, "consume")
  /\ conts' = [conts EXCEPT ![handler[p].req.cont].at = "used"]
  /\ Answer(p, TRUE)
  /\ UNCHANGED <<local, tab, minting, session, owner, creating, pro, late, torn>>

(* An error of the repair is caught. *)
RepairFailed(p) ==
  /\ Running(p, "repair")
  /\ AfterRepair(p)
  /\ UNCHANGED <<local, tab, minting, session, conts, owner, creating, pro, late, torn>>

(* Any other error ends the handler, and so does the end of its process. *)
HandlerFailed(p) ==
  /\ handler[p] # None
  /\ torn' = IF Running(p, "mark") /\ handler[p].list # {}
             THEN torn \cup {Source(handler[p])} ELSE torn
  /\ Answer(p, FALSE)
  /\ UNCHANGED <<local, tab, minting, session, conts, owner, creating, pro, late>>

-----------------------------------------------------------------------------
(* The answers. *)

(* A finalized or bound tab forgets its credential and its continuation. *)
Answered(t) ==
  /\ auth[t] \in Answers
  /\ auth' = [auth EXCEPT ![t] = None]
  /\ org' = IF auth[t].ok THEN User ELSE org
  /\ tab' = IF auth[t].ok /\ auth[t].kind # "upsert"
            THEN [tab EXCEPT ![t] = [@ EXCEPT !.token = None, !.cont = None]]
            ELSE tab
  /\ UNCHANGED <<cookie, paid, signedIn, checkout, minting, server>>

(* A tab no longer waits; the handler of its request, if there is one, goes on. *)
Unheard(t) ==
  /\ auth' = [auth EXCEPT ![t] = None]
  /\ handler' = [p \in Procs |-> IF handler[p] # None /\ handler[p].tab = t
                                THEN [handler[p] EXCEPT !.tab = None] ELSE handler[p]]
  /\ UNCHANGED <<session, conts, owner, creating, pro, late, torn>>

(* The network fails: the request never arrives, or its answer does not. *)
Lost(t) == auth[t] # None /\ Unheard(t) /\ UNCHANGED <<local, tab, minting>>

SignOut(t) ==
  /\ signedIn
  /\ signedIn' = FALSE
  /\ tab' = [tab EXCEPT ![t].finalized = FALSE]
  /\ UNCHANGED <<org, cookie, paid, checkout, auth, minting, server>>

Abandoned(t) == Unheard(t) /\ minting' = minting \ {t} /\ UNCHANGED local

(* The memory of the page is lost, its session storage is not. *)
Reload(t) == tab' = [tab EXCEPT ![t].finalized = FALSE] /\ Abandoned(t)

(* The tab is closed and another one opened. *)
NewTab(t) == tab' = [tab EXCEPT ![t] = FreshTab] /\ Abandoned(t)

(* The page the sign-in ended on is loaded again. *)
CallbackAgain(t, k) ==
  /\ signedIn /\ conts[k] # None /\ conts[k].at # "issued"
  /\ Return(t, k)
  /\ UNCHANGED <<signedIn, conts>>

Fault ==
  /\ faults < MaxFaults /\ faults' = faults + 1
  /\ \/ \E t \in Tabs : \/ Lost(t) \/ SignOut(t) \/ Reload(t) \/ NewTab(t)
                        \/ \E k \in Conts : CallbackAgain(t, k)
     \/ \E g \in Agreements : CreateWithdrawn(g)
     \/ \E p \in Procs : RepairFailed(p) \/ HandlerFailed(p)

Handle(p) ==
  \/ \E t \in Tabs : Receive(p, t)
  \/ ReadContinuation(p) \/ Verify(p) \/ Look(p) \/ List(p) \/ CheckPlan(p)
  \/ Move(p) \/ Mark(p) \/ Repair(p) \/ Consume(p)

Next ==
  \/ Fault
  \/ /\ \/ \E t \in Tabs :
             \/ Boot(t) \/ Minted(t) \/ Buy(t) \/ CheckoutReturn(t)
             \/ Restore(t) \/ Rebind(t) \/ Answered(t)
             \/ \E g \in Agreements : CreateVerified(t, g)
             \/ \E k \in Conts : StartSignIn(t, k) \/ StartReturning(t, k) \/ Callback(t, k)
        \/ \E g \in Agreements : CreateStored(g) \/ CreateReturned(g)
        \/ \E p \in Procs : Handle(p)
     /\ UNCHANGED faults

Spec == Init /\ [][Next]_vars

-----------------------------------------------------------------------------
(* Properties. *)

(* A draft that is left in a claimed session, whose credential is refused ever *)
(* after, was stored after the handler that claimed it had looked: no draft    *)
(* that handler knew of is left behind, whatever it found when it looked again, *)
(* whatever the user's plan, and whoever else moved or claimed in between.      *)
ClaimedSessionIsEmpty ==
  \A g \in Agreements : owner[g] \in Anons /\ session[owner[g]] = "claimed" => g \in late

(* A session is claimed, or has drafts that can be claimed, or they have just *)
(* been moved by a handler that claims it next.                               *)
Settled(a) ==
  \/ session[a] = "claimed" \/ Pending(a) # {} \/ a \in torn
  \/ \E p \in Procs : Running(p, "mark") /\ handler[p].list # {} /\ Source(handler[p]) = a

(* A guest's continuation that has been used up, and will never again do      *)
(* anything, leaves its session settled.  The exceptions are sessions whose   *)
(* drafts were withdrawn, or moved by a handler that failed before the claim. *)
UsedContinuationSettles ==
  \A k \in Conts :
    conts[k] # None /\ conts[k].at = "used" /\ conts[k].anon # Returning =>
      Settled(conts[k].anon)

(* The drafts of a user were created or imported under the user's plan. *)
UserDraftsAreEntitled ==
  \A g \in Agreements : User \in {owner[g], creating[g]} => User \in pro
==============================================================================

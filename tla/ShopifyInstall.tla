---------------------------- MODULE ShopifyInstall ----------------------------
(***************************************************************************)
(* Installing the Shopify app from one browser (integrations.shopify        *)
(* .services): the install redirect, the OAuth callback, the pending         *)
(* installation the session carries through a login, and the link that       *)
(* makes an Integration of it.                                              *)
(*                                                                         *)
(* A request works on the session as it loaded it.  It is saved whole when   *)
(* the response is not a 5xx, and not at all once a login, a flush or a      *)
(* logout has replaced its key.  Requests that call Shopify, the callback    *)
(* and the link, take several steps; the others take one.  An installation   *)
(* is the number of its OAuth state, an Integration the number of its link.  *)
(* All are installations of one shop.  Whether a state or a pending          *)
(* installation is too old is a choice.                                     *)
(***************************************************************************)
EXTENDS Naturals

CONSTANTS
  Users,         \* owners, each of a merchant of their own
  TwoFactor,     \* those with TOTP enabled
  Nobody,        \* an anonymous session
  Requests,      \* callbacks and links that may run at once
  MaxInstalls,   \* bound on the installs begun
  MaxLinks,      \* bound on the links begun
  MaxUninstalls  \* bound on the uninstalls

ShopifyInstallAssumption ==
  /\ TwoFactor \subseteq Users
  /\ Nobody \notin Users
  /\ {MaxInstalls, MaxLinks, MaxUninstalls} \subseteq Nat

VARIABLES
  session,    \* the browser's session
  request,    \* callbacks and links under way, with the session they loaded
  rows,       \* Integration rows, "provisional" ones in a transaction not committed
  webhooks,   \* webhook subscriptions at Shopify
  uninstall,  \* Integrations that Shopify still owes an app/uninstalled delivery
  installs,   \* installs begun
  exchanged,  \* installations whose code Shopify has taken
  revoked,    \* installations whose access token an uninstall has revoked
  links, uninstalls

vars == <<session, request, rows, webhooks, uninstall, installs, exchanged, revoked,
          links, uninstalls>>

Installs == 1..MaxInstalls

Topics == {"ORDERS_PAID", "APP_UNINSTALLED"}

\* shopify_pending: the installation, who was logged in when it was stored, and
\* whether a two-step login has carried it over its flush.
NoPending == [install |-> 0, by |-> Nobody, carried |-> FALSE]

Sessions == [user : Users \cup {Nobody}, state : 0..MaxInstalls,
             pending : [install : 0..MaxInstalls, by : Users \cup {Nobody}, carried : BOOLEAN],
             totp : Users \cup {Nobody}]

NewSession == [user |-> Nobody, state |-> 0, pending |-> NoPending, totp |-> Nobody]

Idle == [pc |-> "idle", data |-> NewSession, current |-> FALSE, pending |-> NoPending,
         id |-> 0, created |-> {}]

NoRow == [status |-> "none", user |-> Nobody, pending |-> NoPending]

Init ==
  /\ session = NewSession
  /\ request = [r \in Requests |-> Idle]
  /\ rows = [id \in 1..MaxLinks |-> NoRow]
  /\ webhooks = {} /\ uninstall = {}
  /\ installs = 0 /\ exchanged = {} /\ revoked = {}
  /\ links = 0 /\ uninstalls = 0

shop   == <<webhooks, uninstall, exchanged, revoked, uninstalls>>
counts == <<installs, links>>

Goto(r, stage) == request' = [request EXCEPT ![r].pc = stage]

\* A 5xx response, or the death of the process: the session is not saved.
NotSaved(r) == request' = [request EXCEPT ![r] = Idle]

Handling(r, stage, pending) ==
  request' = [request EXCEPT ![r] =
    [Idle EXCEPT !.pc = stage, !.current = TRUE, !.pending = pending,
                 !.data = IF stage = "exchanging" THEN [session EXCEPT !.state = 0]
                          ELSE [session EXCEPT !.pending = NoPending]]]

-----------------------------------------------------------------------------
(* Install and callback *)

BeginInstall ==
  /\ installs < MaxInstalls
  /\ installs' = installs + 1
  /\ session' = [session EXCEPT !.state = installs + 1]
  /\ UNCHANGED <<request, rows, shop, links>>

\* complete_shopify_oauth up to the exchange: a callback with an authentic query
\* takes the state out of the session it has loaded; a refusal is saved at once.
StartCallback(r) ==
  /\ request[r].pc = "idle" /\ session.state # 0
  /\ \/ /\ Handling(r, "exchanging", [install |-> session.state, by |-> session.user,
                                       carried |-> FALSE])
        /\ UNCHANGED session
     \/ session' = [session EXCEPT !.state = 0] /\ UNCHANGED request
  /\ UNCHANGED <<rows, shop, counts>>

\* exchange_code: Shopify takes a code once.  Without the scope the callback is
\* refused (400, saved); an error or a lost answer is a 502.
ExchangeCode(r) ==
  LET i == request[r].pending.install IN
  /\ request[r].pc = "exchanging"
  /\ \/ /\ i \notin exchanged /\ exchanged' = exchanged \cup {i}
        /\ \/ request' = [request EXCEPT ![r] =
                [@ EXCEPT !.pc = "saving", !.data.pending = request[r].pending]]
           \/ Goto(r, "saving")
           \/ NotSaved(r)
     \/ NotSaved(r) /\ UNCHANGED exchanged
  /\ UNCHANGED <<session, rows, webhooks, uninstall, revoked, uninstalls, counts>>

\* SessionMiddleware, after the transaction of the request.
SaveSession(r) ==
  /\ request[r].pc = "saving"
  /\ session' = IF request[r].current THEN request[r].data ELSE session
  /\ NotSaved(r)
  /\ UNCHANGED <<rows, shop, counts>>

-----------------------------------------------------------------------------
(* link_shopify_installation *)

\* It takes the pending installation out of the session it has loaded; one that is
\* too old is refused (409, saved).
StartLink(r) ==
  /\ request[r].pc = "idle" /\ session.user # Nobody /\ session.pending # NoPending
  /\ \/ Handling(r, "identifying", session.pending) /\ UNCHANGED session
     \/ session' = [session EXCEPT !.pending = NoPending] /\ UNCHANGED request
  /\ UNCHANGED <<rows, shop, counts>>

\* The merchant is that of the session the request has loaded.
ProvisionalRow(r) ==
  [status |-> "provisional", user |-> request[r].data.user, pending |-> request[r].pending]

\* fetch_shop_identity, then the insert; another shop's answer is a 400.
IdentifyShop(r) ==
  /\ request[r].pc = "identifying"
  /\ \/ /\ request[r].pending.install \notin revoked
        /\ \/ /\ links < MaxLinks /\ links' = links + 1
              /\ rows' = [rows EXCEPT ![links + 1] = ProvisionalRow(r)]
              /\ request' = [request EXCEPT ![r].pc = "registering", ![r].id = links + 1]
           \/ Goto(r, "saving") /\ UNCHANGED <<rows, links>>
     \/ NotSaved(r) /\ UNCHANGED <<rows, links>>
  /\ UNCHANGED <<session, shop, installs>>

RolledBack(r) == [rows EXCEPT ![request[r].id] = NoRow]

\* Mutant: only the sales topic is registered.
SalesTopic(created) == IF created = {} THEN "ORDERS_PAID" ELSE "none"

NextTopic(created) ==
  IF created = {} THEN "ORDERS_PAID"
  ELSE IF created = {"ORDERS_PAID"} THEN "APP_UNINSTALLED" ELSE "none"

\* register_webhooks, a topic at a time.  A call that fails may have created its
\* subscription, whose id is then unknown.
RegisterWebhook(r) ==
  LET id == request[r].id
      topic == NextTopic(request[r].created)
  IN
  /\ request[r].pc = "registering" /\ topic # "none"
  /\ \/ /\ request[r].pending.install \notin revoked
        /\ webhooks' = webhooks \cup {<<id, topic>>}
        /\ request' = [request EXCEPT ![r].created = @ \cup {topic}]
        /\ UNCHANGED rows
     \/ /\ \/ UNCHANGED webhooks
           \/ /\ request[r].pending.install \notin revoked
              /\ webhooks' = webhooks \cup {<<id, topic>>}
        /\ rows' = RolledBack(r)
        /\ Goto(r, "deleting")
  /\ UNCHANGED <<session, uninstall, exchanged, revoked, uninstalls, counts>>

\* delete_webhooks: best effort, then the 502.
DeleteWebhooks(r) ==
  /\ request[r].pc = "deleting"
  /\ \E deleted \in SUBSET request[r].created :
       webhooks' = webhooks \ {<<request[r].id, t>> : t \in deleted}
  /\ NotSaved(r)
  /\ UNCHANGED <<session, rows, uninstall, exchanged, revoked, uninstalls, counts>>

\* The row, its subscription ids and the audit row are committed.  An error of the
\* database here carries no created_ids: nothing is deleted at Shopify.
CommitLink(r) ==
  /\ request[r].pc = "registering" /\ NextTopic(request[r].created) = "none"
  /\ \/ rows' = [rows EXCEPT ![request[r].id].status = "CONNECTED"] /\ Goto(r, "saving")
     \/ rows' = RolledBack(r) /\ NotSaved(r)
  /\ UNCHANGED <<session, shop, counts>>

RequestDies(r) ==
  /\ request[r].pc # "idle"
  /\ rows' = IF request[r].pc = "registering" THEN RolledBack(r) ELSE rows
  /\ NotSaved(r)
  /\ UNCHANGED <<session, shop, counts>>

-----------------------------------------------------------------------------
(* Login and logout *)

\* Requests under way keep the session they loaded; its key is gone.
NewKey == request' = [r \in Requests |-> [request[r] EXCEPT !.current = FALSE]]

\* login() keeps an anonymous session, or the user's own, under a new key, and
\* flushes another user's.
LoggedIn(s, u) ==
  IF s.user \in {Nobody, u} THEN [s EXCEPT !.user = u] ELSE [NewSession EXCEPT !.user = u]

Login(u) ==
  /\ u \notin TwoFactor
  /\ session' = LoggedIn(session, u) /\ NewKey
  /\ UNCHANGED <<rows, shop, counts>>

\* flush_session_keeping_pending.  LoginView has no authenticators, so that its
\* request.user is anonymous whoever the session's user is.
KeptPending == IF session.pending = NoPending THEN NoPending
               ELSE [session.pending EXCEPT !.carried = TRUE]

BeginTwoStepLogin(u) ==
  /\ u \in TwoFactor
  /\ session' = [NewSession EXCEPT !.pending = KeptPending, !.totp = u] /\ NewKey
  /\ UNCHANGED <<rows, shop, counts>>

CompleteTwoStepLogin ==
  /\ session.totp # Nobody
  /\ session' = LoggedIn([session EXCEPT !.totp = Nobody], session.totp) /\ NewKey
  /\ UNCHANGED <<rows, shop, counts>>

Logout ==
  /\ session.user # Nobody
  /\ session' = NewSession /\ NewKey
  /\ UNCHANGED <<rows, shop, counts>>

-----------------------------------------------------------------------------
(* Uninstall *)

\* Shopify ends the app's tokens and subscriptions, and tells each Integration
\* that subscribed to it.
UninstallApp ==
  /\ uninstalls < MaxUninstalls /\ uninstalls' = uninstalls + 1
  /\ revoked' = exchanged
  /\ webhooks' = {}
  /\ uninstall' = uninstall \cup {id \in 1..MaxLinks : <<id, "APP_UNINSTALLED">> \in webhooks}
  /\ UNCHANGED <<session, request, rows, exchanged, counts>>

\* receive_webhook: a row that is not committed is not found (401), and Shopify
\* delivers again, longer than a link lasts; a disconnected one is left alone.
ReceiveUninstall(id) ==
  /\ id \in uninstall /\ rows[id].status # "provisional"
  /\ uninstall' = uninstall \ {id}
  /\ rows' = IF rows[id].status = "CONNECTED"
             THEN [rows EXCEPT ![id].status = "DISCONNECTED"] ELSE rows
  /\ UNCHANGED <<session, request, webhooks, exchanged, revoked, uninstalls, counts>>

\* disconnect_integration, by a member: nothing is deleted at Shopify.
Disconnect(id) ==
  /\ rows[id].status = "CONNECTED"
  /\ rows' = [rows EXCEPT ![id].status = "DISCONNECTED"]
  /\ UNCHANGED <<session, request, shop, counts>>

-----------------------------------------------------------------------------
Callback(r) == StartCallback(r) \/ ExchangeCode(r) \/ SaveSession(r)

Link(r) ==
  \/ StartLink(r) \/ IdentifyShop(r) \/ RegisterWebhook(r) \/ DeleteWebhooks(r)
  \/ CommitLink(r) \/ RequestDies(r)

Next ==
  \/ BeginInstall \/ CompleteTwoStepLogin \/ Logout \/ UninstallApp
  \/ \E r \in Requests : Callback(r) \/ Link(r)
  \/ \E u \in Users : Login(u) \/ BeginTwoStepLogin(u)
  \/ \E id \in 1..MaxLinks : ReceiveUninstall(id) \/ Disconnect(id)

Spec == Init /\ [][Next]_vars

-----------------------------------------------------------------------------
(* Properties *)

TypeOK ==
  /\ session \in Sessions
  /\ \A r \in Requests : request[r].data \in Sessions /\ request[r].id \in 0..MaxLinks
  /\ \A id \in 1..MaxLinks :
       rows[id].status \in {"none", "provisional", "CONNECTED", "DISCONNECTED"}
  /\ webhooks \subseteq (1..MaxLinks) \X Topics /\ uninstall \subseteq 1..MaxLinks
  /\ revoked \subseteq exchanged /\ exchanged \subseteq 1..installs

\* A connected Integration hears of sales and of the uninstall: both its
\* subscriptions are at Shopify, or an uninstall that Shopify still owes it
\* a delivery of has ended them.  A registration that fails in the middle, or a
\* shop that uninstalls the app during the link, leaves no row that never would
\* (register_webhooks before the commit).
ConnectedIsSubscribed ==
  \A id \in 1..MaxLinks :
    rows[id].status = "CONNECTED" =>
      id \in uninstall \/ \A t \in Topics : <<id, t>> \in webhooks

\* A merchant's Integration comes of an installation that its own member, or
\* nobody, had made in the browser, as long as no two-step login has carried
\* the pending one: a direct login, a logout and the saves of requests begun
\* before either never leave another user's behind.
LinksOwnInstallation ==
  \A id \in 1..MaxLinks :
    rows[id].pending.carried \/ rows[id].pending.by \in {Nobody, rows[id].user}

ShopifyInv == TypeOK /\ ConnectedIsSubscribed /\ LinksOwnInstallation
=============================================================================

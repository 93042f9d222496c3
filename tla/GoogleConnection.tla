--------------------------- MODULE GoogleConnection ---------------------------
(***************************************************************************)
(* Connecting Google accounts for one merchant: the OAuth attempts of       *)
(* google_reviews.services, the worker that exchanges an attempt's code,    *)
(* and the refresh of the access tokens of what was connected.              *)
(*                                                                         *)
(* Every transition of an attempt is one conditional UPDATE; Google is      *)
(* called between transactions.  Ages count the deadlines an attempt has    *)
(* passed: expires_at, the grace of an exchange in flight, the retention.   *)
(* A refresh token is the number of its issue, 0 for none, and alive while  *)
(* Google honours it.                                                      *)
(***************************************************************************)
EXTENDS Naturals, FiniteSets

CONSTANTS
  Attempts,
  Accounts,    \* Google accounts, by the ID token's sub
  Workers,     \* executions of exchange_oauth_code
  Refreshers,  \* executions of a token refresh
  NoAttempt,
  MaxTokens    \* bound on the refresh tokens Google issues

GoogleConnectionAssumption ==
  /\ NoAttempt \notin Attempts
  /\ MaxTokens \in Nat

VARIABLES
  attempt,    \* the rows of GoogleOAuthState
  age,        \* deadlines each attempt has passed
  exchanges,  \* attempts whose exchange task is queued
  sent,       \* how often Google has been given the code of an attempt
  conn,       \* the rows of GoogleConnection; by is the attempt that wrote it last
  worker,
  refresher,
  alive,      \* refresh tokens Google honours, per account
  issued,     \* refresh tokens issued so far
  member      \* the actor has an accepted membership

vars == <<attempt, age, exchanges, sent, conn, worker, refresher, alive, issued, member>>

Tokens == 0..MaxTokens

AttemptRows ==
  [status  : {"absent", "ISSUED", "PENDING", "COMPLETED", "FAILED", "purged"},
   code    : BOOLEAN,
   failure : {"none", "OAUTH_EXPIRED", "EXCHANGE_INTERRUPTED", "EXCHANGE_FAILED",
              "REFRESH_TOKEN_MISSING", "ACTOR_NOT_MEMBER",
              "GOOGLE_ACCOUNT_ALREADY_CONNECTED"}]

ConnectionRows ==
  [status : {"none", "ACTIVE", "NEEDS_REAUTH"},
   token  : Tokens,
   fresh  : BOOLEAN,      \* the access token is outside the refresh margin
   by     : Attempts \cup {NoAttempt}]

IdleWorker == [pc |-> "idle", attempt |-> NoAttempt, account |-> "none",
               token |-> 0, failure |-> "none"]

IdleRefresher == [pc |-> "idle", account |-> "none", seen |-> 0, token |-> 0]

Init ==
  /\ attempt = [a \in Attempts |-> [status |-> "absent", code |-> FALSE, failure |-> "none"]]
  /\ age = [a \in Attempts |-> 0]
  /\ exchanges = {}
  /\ sent = [a \in Attempts |-> 0]
  /\ conn = [s \in Accounts |-> [status |-> "none", token |-> 0, fresh |-> FALSE,
                                 by |-> NoAttempt]]
  /\ worker = [w \in Workers |-> IdleWorker]
  /\ refresher = [r \in Refreshers |-> IdleRefresher]
  /\ alive = [s \in Accounts |-> {}]
  /\ issued = 0
  /\ member = TRUE

-----------------------------------------------------------------------------
(* The requests and the daily sweep *)

Failed(code) == [status |-> "FAILED", code |-> FALSE, failure |-> code]

\* Mutant of ExpiredRow: an interrupted exchange is never ended.
ExpiredUnclaimed(a) ==
  IF /\ \/ attempt[a].status = "ISSUED"
        \/ attempt[a].status = "PENDING" /\ attempt[a].code
     /\ age[a] >= 1
  THEN Failed("OAUTH_EXPIRED") ELSE attempt[a]

\* expire_attempts: unclaimed at expires_at; in flight only after the grace.
ExpiredRow(a) ==
  LET row == attempt[a] IN
  CASE (row.status = "ISSUED" \/ (row.status = "PENDING" /\ row.code)) /\ age[a] >= 1 ->
         Failed("OAUTH_EXPIRED")
    [] row.status = "PENDING" /\ ~row.code /\ age[a] >= 2 -> Failed("EXCHANGE_INTERRUPTED")
    [] OTHER -> row

\* purge_attempts, run after expire_attempts in the same transaction.
SweptRow(a) ==
  IF ExpiredRow(a).status \in {"COMPLETED", "FAILED"} /\ age[a] = 3
  THEN [ExpiredRow(a) EXCEPT !.status = "purged"] ELSE ExpiredRow(a)

IssueState(a) ==
  /\ attempt[a].status = "absent"
  /\ member
  /\ attempt' = [b \in Attempts |->
                   IF b = a THEN [attempt[a] EXCEPT !.status = "ISSUED"] ELSE SweptRow(b)]
  /\ UNCHANGED <<age, exchanges, sent, conn, worker, refresher, alive, issued, member>>

\* complete_google_oauth; the enqueue after its commit may fail, which is logged.
CompleteOAuth(a) ==
  /\ attempt[a].status = "ISSUED" /\ age[a] = 0
  /\ member
  /\ attempt' = [attempt EXCEPT ![a].status = "PENDING", ![a].code = TRUE]
  /\ exchanges' \in {exchanges, exchanges \cup {a}}
  /\ UNCHANGED <<age, sent, conn, worker, refresher, alive, issued, member>>

GetAttempt(a) ==
  /\ attempt' = [attempt EXCEPT ![a] = ExpiredRow(a)]
  /\ attempt' # attempt
  /\ UNCHANGED <<age, exchanges, sent, conn, worker, refresher, alive, issued, member>>

Sweep ==
  /\ attempt' = [a \in Attempts |-> SweptRow(a)]
  /\ attempt' # attempt
  /\ UNCHANGED <<age, exchanges, sent, conn, worker, refresher, alive, issued, member>>

-----------------------------------------------------------------------------
(* exchange_oauth_code *)

\* _mark_failed: never over a terminal state.
MarkedFailed(a, code) ==
  IF attempt[a].status = "PENDING"
  THEN [attempt EXCEPT ![a] = Failed(code)] ELSE attempt

Locked(s) == \E w \in Workers : worker[w].pc = "updating" /\ worker[w].account = s

Idle(w) == worker' = [worker EXCEPT ![w] = IdleWorker]

GotoFail(w, code) ==
  worker' = [worker EXCEPT ![w] = [@ EXCEPT !.pc = "failing", !.failure = code]]

\* _take_code reads the ciphertext.  The task may be delivered more than once.
ReadCode(w, a) ==
  /\ worker[w].pc = "idle"
  /\ a \in exchanges
  /\ exchanges' \in {exchanges, exchanges \ {a}}
  /\ worker' = IF attempt[a].status = "PENDING" /\ attempt[a].code /\ age[a] = 0
               THEN [worker EXCEPT ![w] = [@ EXCEPT !.pc = "taking", !.attempt = a]]
               ELSE worker
  /\ UNCHANGED <<attempt, age, sent, conn, refresher, alive, issued, member>>

\* Mutant: the code is cleared without comparing it.
PendingStill(a) == attempt[a].status = "PENDING"

CodeStillThere(a) == attempt[a].status = "PENDING" /\ attempt[a].code

\* ... and clears it if it is still there, judged by the clock of the read.
TakeCode(w) ==
  LET a == worker[w].attempt IN
  /\ worker[w].pc = "taking"
  /\ IF CodeStillThere(a)
     THEN /\ attempt' = [attempt EXCEPT ![a].code = FALSE]
          /\ worker' = [worker EXCEPT ![w].pc = "exchanging"]
     ELSE Idle(w) /\ UNCHANGED attempt
  /\ UNCHANGED <<age, exchanges, sent, conn, refresher, alive, issued, member>>

\* The refresh tokens Google may answer with: none, or a new one.
Answers == {0} \cup {t \in Tokens : t = issued + 1}

Issue(s, t) ==
  /\ issued' = IF t = 0 THEN issued ELSE t
  /\ alive' = IF t = 0 THEN alive ELSE [alive EXCEPT ![s] = @ \cup {t}]

\* exchange_code and _validate_exchange: refused, uncertain or unacceptable, or
\* the identity and tokens of an account the user has chosen.
ExchangeCode(w) ==
  /\ worker[w].pc = "exchanging"
  /\ sent' = [sent EXCEPT ![worker[w].attempt] = @ + 1]
  /\ \/ GotoFail(w, "EXCHANGE_FAILED") /\ UNCHANGED <<alive, issued>>
     \/ \E s \in Accounts, t \in Answers :
          /\ worker' = [worker EXCEPT ![w] = [@ EXCEPT !.pc = "exchanged",
                                                       !.account = s, !.token = t]]
          /\ Issue(s, t)
  /\ UNCHANGED <<attempt, age, exchanges, conn, refresher, member>>

NoRefreshToken(w) ==
  worker[w].token = 0 /\ conn[worker[w].account].status # "ACTIVE"

\* _finish_ok up to its writes: the membership, then the connection row, locked
\* when there is one.  The failures found here are marked in the transaction.
BeginFinish(w) ==
  LET s == worker[w].account IN
  /\ worker[w].pc = "exchanged"
  /\ member => ~Locked(s)
  /\ IF ~member \/ NoRefreshToken(w)
     THEN /\ attempt' = MarkedFailed(worker[w].attempt,
                          IF member THEN "REFRESH_TOKEN_MISSING" ELSE "ACTOR_NOT_MEMBER")
          /\ Idle(w)
     ELSE /\ worker' = [worker EXCEPT ![w].pc =
                          IF conn[s].status = "none" THEN "inserting" ELSE "updating"]
          /\ UNCHANGED attempt
  /\ UNCHANGED <<age, exchanges, sent, conn, refresher, alive, issued, member>>

MayFinish(a) == attempt[a].status = "PENDING"

\* The connection and the attempt in one commit; AttemptNoLongerPending rolls
\* both back.
Finish(w) ==
  LET s == worker[w].account
      a == worker[w].attempt IN
  /\ worker[w].pc = "updating" \/ (worker[w].pc = "inserting" /\ conn[s].status = "none")
  /\ IF MayFinish(a)
     THEN /\ conn' = [conn EXCEPT ![s] =
                        [status |-> "ACTIVE", fresh |-> TRUE, by |-> a,
                         token |-> IF worker[w].token = 0 THEN @.token ELSE worker[w].token]]
          /\ attempt' = IF attempt[a].status = "PENDING"
                        THEN [attempt EXCEPT ![a].status = "COMPLETED"] ELSE attempt
     ELSE UNCHANGED <<conn, attempt>>
  /\ Idle(w)
  /\ UNCHANGED <<age, exchanges, sent, refresher, alive, issued, member>>

\* Rolled back: another attempt has inserted the account's row, or the audit
\* row finds the actor no longer a member.
FinishFails(w) ==
  /\ \/ /\ worker[w].pc = "inserting"
        /\ conn[worker[w].account].status # "none"
        /\ GotoFail(w, "GOOGLE_ACCOUNT_ALREADY_CONNECTED")
     \/ /\ worker[w].pc \in {"inserting", "updating"}
        /\ ~member
        /\ GotoFail(w, "ACTOR_NOT_MEMBER")
  /\ UNCHANGED <<attempt, age, exchanges, sent, conn, refresher, alive, issued, member>>

Fail(w) ==
  /\ worker[w].pc = "failing"
  /\ attempt' = MarkedFailed(worker[w].attempt, worker[w].failure)
  /\ Idle(w)
  /\ UNCHANGED <<age, exchanges, sent, conn, refresher, alive, issued, member>>

WorkerDies(w) ==
  /\ worker[w].pc # "idle"
  /\ Idle(w)
  /\ UNCHANGED <<attempt, age, exchanges, sent, conn, refresher, alive, issued, member>>

-----------------------------------------------------------------------------
(* refresh_connection: the daily task, a request's 409, and a review sync *)

ReadConnection(r, s) ==
  /\ refresher[r].pc = "idle"
  /\ conn[s].status = "ACTIVE" /\ ~conn[s].fresh
  /\ refresher' = [refresher EXCEPT ![r] = [pc |-> "calling", account |-> s,
                                            seen |-> conn[s].token, token |-> 0]]
  /\ UNCHANGED <<attempt, age, exchanges, sent, conn, worker, alive, issued, member>>

\* Google refreshes while it honours the token, and may rotate it; otherwise it
\* answers invalid_grant.
RefreshAnswer(r) ==
  LET s == refresher[r].account IN
  /\ refresher[r].pc = "calling"
  /\ IF refresher[r].seen \in alive[s]
     THEN \E t \in Answers :
            /\ refresher' = [refresher EXCEPT ![r] = [@ EXCEPT !.pc = "refreshed", !.token = t]]
            /\ Issue(s, t)
     ELSE /\ refresher' = [refresher EXCEPT ![r].pc = "revoked"]
          /\ UNCHANGED <<alive, issued>>
  /\ UNCHANGED <<attempt, age, exchanges, sent, conn, worker, member>>

\* Both conditional UPDATEs: still ACTIVE, with the refresh token that was read.
SameToken(r) ==
  /\ conn[refresher[r].account].status = "ACTIVE"
  /\ conn[refresher[r].account].token = refresher[r].seen

StoreRefreshed(r) ==
  LET s == refresher[r].account IN
  /\ refresher[r].pc = "refreshed"
  /\ ~Locked(s)
  /\ conn' = IF SameToken(r)
             THEN [conn EXCEPT ![s].fresh = TRUE,
                     ![s].token = IF refresher[r].token = 0 THEN @ ELSE refresher[r].token]
             ELSE conn
  /\ refresher' = [refresher EXCEPT ![r] = IdleRefresher]
  /\ UNCHANGED <<attempt, age, exchanges, sent, worker, alive, issued, member>>

MarkNeedsReauth(r) ==
  LET s == refresher[r].account IN
  /\ refresher[r].pc = "revoked"
  /\ ~Locked(s)
  /\ conn' = IF SameToken(r) THEN [conn EXCEPT ![s].status = "NEEDS_REAUTH"] ELSE conn
  /\ refresher' = [refresher EXCEPT ![r] = IdleRefresher]
  /\ UNCHANGED <<attempt, age, exchanges, sent, worker, alive, issued, member>>

\* A transient error, or the worker's death.
RefreshFails(r) ==
  /\ refresher[r].pc # "idle"
  /\ refresher' = [refresher EXCEPT ![r] = IdleRefresher]
  /\ UNCHANGED <<attempt, age, exchanges, sent, conn, worker, alive, issued, member>>

-----------------------------------------------------------------------------
(* Time, the user at Google, and the team *)

Tick ==
  /\ \E a \in Attempts : attempt[a].status # "absent" /\ age[a] < 3
  /\ age' = [a \in Attempts |-> IF attempt[a].status # "absent" /\ age[a] < 3
                                THEN age[a] + 1 ELSE age[a]]
  /\ UNCHANGED <<attempt, exchanges, sent, conn, worker, refresher, alive, issued, member>>

AccessTokenExpires(s) ==
  /\ conn[s].fresh
  /\ conn' = [conn EXCEPT ![s].fresh = FALSE]
  /\ UNCHANGED <<attempt, age, exchanges, sent, worker, refresher, alive, issued, member>>

UserRevokes(s) ==
  /\ alive[s] # {}
  /\ alive' = [alive EXCEPT ![s] = {}]
  /\ UNCHANGED <<attempt, age, exchanges, sent, conn, worker, refresher, issued, member>>

ActorRemoved ==
  /\ member
  /\ member' = FALSE
  /\ UNCHANGED <<attempt, age, exchanges, sent, conn, worker, refresher, alive, issued>>

Exchange(w) == \/ \E a \in Attempts : ReadCode(w, a)
               \/ TakeCode(w) \/ ExchangeCode(w) \/ BeginFinish(w)
               \/ Finish(w) \/ FinishFails(w) \/ Fail(w) \/ WorkerDies(w)

Refresh(r) == \/ \E s \in Accounts : ReadConnection(r, s)
              \/ RefreshAnswer(r) \/ StoreRefreshed(r)
              \/ MarkNeedsReauth(r) \/ RefreshFails(r)

Next == \/ \E a \in Attempts : IssueState(a) \/ CompleteOAuth(a) \/ GetAttempt(a)
        \/ Sweep \/ Tick \/ ActorRemoved
        \/ \E w \in Workers : Exchange(w)
        \/ \E r \in Refreshers : Refresh(r)
        \/ \E s \in Accounts : AccessTokenExpires(s) \/ UserRevokes(s)

Spec == Init /\ [][Next]_vars

-----------------------------------------------------------------------------
(* Properties *)

TypeOK ==
  /\ attempt \in [Attempts -> AttemptRows]
  /\ age \in [Attempts -> 0..3]
  /\ exchanges \subseteq Attempts
  /\ sent \in [Attempts -> Nat]
  /\ conn \in [Accounts -> ConnectionRows]
  /\ alive \in [Accounts -> SUBSET Tokens]
  /\ issued \in Tokens

\* An authorization code reaches Google at most once, through duplicate tasks,
\* deaths and expiry; and an attempt reported as expired never used its code
\* (_take_code, expire_attempts).
CodeSpentOnce ==
  \A a \in Attempts :
    /\ sent[a] <= 1
    /\ attempt[a].failure = "OAUTH_EXPIRED" => sent[a] = 0

\* No connection is left behind an attempt the user sees as failed: what a
\* connection holds was written by an attempt that has completed (_finish_ok).
NoConnectionBehindFailure ==
  \A s \in Accounts : conn[s].status # "none" =>
    /\ conn[s].by \in Attempts
    /\ attempt[conn[s].by].failure = "none"
    /\ attempt[conn[s].by].status \in {"COMPLETED", "purged"}

\* A connection asks for reauthorization only when the refresh token it now
\* holds is dead: an answer about an older token never overtakes the one a
\* reauthorization stored (mark_needs_reauth).
NeedsReauthIsTrue ==
  \A s \in Accounts : conn[s].status = "NEEDS_REAUTH" => conn[s].token \notin alive[s]

OAuthInv == TypeOK /\ CodeSpentOnce /\ NoConnectionBehindFailure /\ NeedsReauthIsTrue

\* For liveness: an attempt that was begun, and one that has ended.
Begun(a) == attempt[a].status \in {"ISSUED", "PENDING"}

Settled(a) == attempt[a].status \in {"COMPLETED", "FAILED", "purged"}
=============================================================================

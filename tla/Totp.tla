-------------------------------- MODULE Totp --------------------------------
(***************************************************************************)
(* The second factor of one user (accounts.services): enrolment, login and  *)
(* disabling, for a merchant's member and, with the same steps, for staff.  *)
(*                                                                         *)
(* Every operation locks the User row, decides on what it reads there and   *)
(* on the clock, and writes before it commits; the login of a member locks  *)
(* the membership before it.  A TOTP code is its secret and time step; a    *)
(* recovery code belongs to the enrolment of a secret.                      *)
(***************************************************************************)
EXTENDS Naturals

CONSTANTS
  Requests,
  Free,
  Recovery,    \* recovery codes of an enrolment
  MaxStep,     \* bound on the time steps
  MaxSecrets   \* bound on the enrolments begun

TotpAssumption ==
  /\ Free \notin Requests
  /\ MaxStep \in Nat \ {0}
  /\ MaxSecrets \in Nat

VARIABLES
  user,    \* the row of User
  secrets, \* secrets generated so far
  member,  \* the user's membership is accepted
  now,     \* the current time step
  lock,    \* the request that holds the User row
  request,
  used     \* how often each code has been accepted

vars == <<user, secrets, member, now, lock, request, used>>

Secrets == 1..MaxSecrets

TotpCodes == [kind : {"totp"}, secret : Secrets, step : 1..MaxStep]
RecoveryCodes == [kind : {"recovery"}, secret : Secrets, code : Recovery]
Codes == TotpCodes \cup RecoveryCodes
NoCode == [kind |-> "none"]

\* lastUsed is 0 where totp_last_used_step is NULL.
UserRows == [secret : 0..MaxSecrets, confirmed : BOOLEAN, lastUsed : 0..MaxStep,
             codes : SUBSET RecoveryCodes]

NotEnrolled == [secret |-> 0, confirmed |-> FALSE, lastUsed |-> 0, codes |-> {}]

Idle == [pc |-> "idle", op |-> "none", code |-> NoCode, seen |-> NotEnrolled]

Init ==
  /\ user = NotEnrolled
  /\ secrets = 0
  /\ member = TRUE
  /\ now = 1
  /\ lock = Free
  /\ request = [r \in Requests |-> Idle]
  /\ used = [c \in Codes |-> 0]

End(r) ==
  /\ request' = [request EXCEPT ![r] = Idle]
  /\ lock' = IF lock = r THEN Free ELSE lock

-----------------------------------------------------------------------------

\* Codes of enrolments begun so far, one step of drift ahead of the server.
Known(c) ==
  /\ \E s \in Secrets : s = c.secret /\ s <= secrets
  /\ c.kind = "totp" => c.step <= now + 1

Submit(r, op, c) ==
  /\ request[r].pc = "idle"
  /\ op = "login" => member
  /\ request' = [request EXCEPT ![r] = [Idle EXCEPT !.pc = "submitted", !.op = op, !.code = c]]
  /\ UNCHANGED <<user, secrets, member, now, lock, used>>

\* Mutant: _lock_user reads the row without FOR UPDATE.
NeverWaits == TRUE

LockIsFree == lock = Free

\* complete_totp_login does not trust the membership it looked up.
Admitted(r) == request[r].op = "login" => member

LockUser(r) ==
  /\ request[r].pc = "submitted"
  /\ LockIsFree
  /\ IF Admitted(r)
     THEN /\ lock' = r
          /\ request' = [request EXCEPT ![r] = [@ EXCEPT !.pc = "locked", !.seen = user]]
     ELSE End(r)
  /\ UNCHANGED <<user, secrets, member, now, used>>

StepIsNew(row, c) == c.step > row.lastUsed

\* _verify_totp: the step before, this one or the next, never one up to the last.
TotpPasses(row, c) ==
  /\ c.kind = "totp" /\ c.secret = row.secret
  /\ c.step \in {now - 1, now, now + 1}
  /\ StepIsNew(row, c)

\* _verify_second_factor, with _consume_recovery_code
FactorPasses(row, c) == TotpPasses(row, c) \/ c \in row.codes

\* What it writes; the recovery codes are written back whole.
Consumed(row, c) ==
  IF c.kind = "totp" THEN [user EXCEPT !.lastUsed = c.step]
                     ELSE [user EXCEPT !.codes = row.codes \ {c}]

Enrolled(row, c) ==
  [user EXCEPT !.confirmed = TRUE, !.lastUsed = c.step,
               !.codes = {k \in RecoveryCodes : k.secret = row.secret}]

Accept(c) == used' = [used EXCEPT ![c] = @ + 1]

\* begin_totp_setup: a restart replaces the secret that was not confirmed.
BeginSetup(r) ==
  /\ request[r].pc = "locked" /\ request[r].op = "begin"
  /\ ~request[r].seen.confirmed /\ secrets < MaxSecrets
  /\ secrets' = secrets + 1
  /\ user' = [user EXCEPT !.secret = secrets + 1]
  /\ End(r)
  /\ UNCHANGED <<member, now, used>>

ConfirmSetup(r) ==
  LET row == request[r].seen
      c == request[r].code IN
  /\ request[r].pc = "locked" /\ request[r].op = "confirm"
  /\ ~row.confirmed /\ row.secret # 0 /\ TotpPasses(row, c)
  /\ user' = Enrolled(row, c)
  /\ Accept(c)
  /\ End(r)
  /\ UNCHANGED <<secrets, member, now>>

VerifyLogin(r) ==
  LET row == request[r].seen
      c == request[r].code IN
  /\ request[r].pc = "locked" /\ request[r].op \in {"login", "staffLogin"}
  /\ row.confirmed /\ FactorPasses(row, c)
  /\ user' = Consumed(row, c)
  /\ Accept(c)
  /\ End(r)
  /\ UNCHANGED <<secrets, member, now>>

Disable(r) ==
  LET row == request[r].seen
      c == request[r].code IN
  /\ request[r].pc = "locked" /\ request[r].op = "disable"
  /\ row.confirmed /\ FactorPasses(row, c)
  /\ user' = NotEnrolled
  /\ Accept(c)
  /\ End(r)
  /\ UNCHANGED <<secrets, member, now>>

\* A wrong or replayed code, the wrong state, a failed audit row, an error.
RequestFails(r) ==
  /\ request[r].pc # "idle"
  /\ End(r)
  /\ UNCHANGED <<user, secrets, member, now, used>>

\* revoke_team_member waits for a login that has locked the membership.
Revoke ==
  /\ member
  /\ \A r \in Requests : ~(request[r].pc = "locked" /\ request[r].op = "login")
  /\ member' = FALSE
  /\ UNCHANGED <<user, secrets, now, lock, request, used>>

Tick ==
  /\ now < MaxStep
  /\ now' = now + 1
  /\ UNCHANGED <<user, secrets, member, lock, request, used>>

Operate(r) == \/ Submit(r, "begin", NoCode)
              \/ \E op \in {"confirm", "login", "staffLogin", "disable"} :
                   \E c \in Codes : Known(c) /\ Submit(r, op, c)
              \/ LockUser(r) \/ BeginSetup(r) \/ ConfirmSetup(r)
              \/ VerifyLogin(r) \/ Disable(r) \/ RequestFails(r)

Next == (\E r \in Requests : Operate(r)) \/ Revoke \/ Tick

Spec == Init /\ [][Next]_vars

-----------------------------------------------------------------------------
(* Properties *)

TypeOK ==
  /\ user \in UserRows
  /\ secrets \in 0..MaxSecrets /\ now \in 1..MaxStep
  /\ lock \in Requests \cup {Free}
  /\ used \in [Codes -> Nat]

\* No code is accepted twice, by parallel logins or at neighbouring steps, and
\* no recovery code outlives its use or its enrolment (_verify_totp,
\* _consume_recovery_code, disable_totp).
EachCodeOnce == \A c \in Codes : used[c] <= 1

CodesAreCurrent ==
  /\ ~user.confirmed => user.codes = {}
  /\ \A c \in user.codes : c.secret = user.secret /\ used[c] = 0

\* A second factor is verified for a member only (complete_totp_login).
LoginIsMembers ==
  \A r \in Requests : request[r].pc = "locked" /\ request[r].op = "login" => member

TotpInv == TypeOK /\ EachCodeOnce /\ CodesAreCurrent /\ LoginIsMembers
=============================================================================

------------------------------ MODULE AdminAccess ------------------------------
(***************************************************************************)
(* One user of the admin pages, from several browsers at once: login and its *)
(* second step (admin/handlers_auth.go, handlers_2fa.go), the enrolment of    *)
(* the second factor, the change of the password (handlers_settings.go), the  *)
(* user's row and the sessions (admin/postgres) and the fixed-window limiter  *)
(* that counts attempts (ratelimit/postgres).  A password or a one-time code  *)
(* is right or wrong, whichever the user types.                               *)
(***************************************************************************)
EXTENDS Integers, FiniteSets, Sequences

CONSTANTS
  Browsers,     \* each has at most one request at a time
  None,         \* no browser
  Limit,        \* maxLoginAttempts, max2FAAttempts
  LoginWindow,  \* loginRateWindow
  CodeWindow,   \* twoFARateWindow
  CleanupAge,   \* a limiter's row older than this is cleaned up
  MaxDelay,     \* bound: between a request's clock and its statement
  MaxTime,      \* bound: ticks
  CodesPerSet,  \* backup codes of a set
  MaxSets,      \* bound: sets of backup codes
  MaxRequests   \* bound: requests

Keys == {"login", "2fa"}
Window(k) == IF k = "login" THEN LoginWindow ELSE CodeWindow
Sets == 1 .. MaxSets
Codes == Sets \X (1 .. CodesPerSet)

ASSUME BrowsersAssumption == IsFiniteSet(Browsers) /\ None \notin Browsers
ASSUME BoundsAssumption == MaxTime \in Nat /\ MaxSets \in Nat \ {0} /\ MaxRequests \in Nat
ASSUME LimitAssumption == Limit \in Nat \ {0} /\ CodesPerSet \in Nat \ {0}
ASSUME WindowAssumption ==
  /\ LoginWindow \in Nat \ {0} /\ CodeWindow \in Nat \ {0} /\ MaxDelay \in Nat
  /\ CleanupAge \in Nat
  \* An hour, with windows of 15 and 5 minutes.
  /\ CleanupAge >= LoginWindow + MaxDelay /\ CleanupAge >= CodeWindow + MaxDelay

VARIABLES
  user,      \* the row: whether totp_secret is set, totp_enabled, backup_codes_hash
  pending,   \* the set of backup codes in app_config; 0: none
  sets,      \* sets of backup codes generated so far
  sessions,  \* browsers with the id of a row of admin_sessions, of either step of a login
  request,   \* the request of each browser
  lock,      \* the request whose transaction holds the user's row
  limiter,   \* rate_limits: counter and window_start per key; counter 0: no row
  now,       \* the time
  served,    \* requests begun
  uses,      \* history: how often a code was accepted since its set was last stored
  log        \* history: per key, times of the latest allowed attempts since a reset

enrolment == <<user, pending, sets>>
rows == <<sessions, limiter>>
history == <<uses, log>>
accessVars == <<enrolment, rows, request, lock, now, served, history>>

Idle == [pc |-> "idle", clock |-> 0, set |-> 0, code |-> <<0, 0>>, left |-> {}]

CodesOf(s) == {c \in Codes : c[1] = s}

----------------------------------------------------------------------------
(* Requests *)

\* SessionAuth, and the second step of a login, ask for a row that is there and has
\* not expired; the step of the login that stored it is not looked at.
Authenticated(b) == b \in sessions

\* The row that a request came with is deleted; its browser may have another one,
\* and callers ignore an error.
DeleteSession(b) == sessions' \in {sessions, sessions \ {b}}

\* A request begins.
Begin(b, r) ==
  /\ request[b] = Idle
  /\ served < MaxRequests
  /\ served' = served + 1
  /\ request' = [request EXCEPT ![b] = r]

\* The request in progress goes on, ends with pc "idle".
Proceed(b, from, r) ==
  /\ request[b].pc = from
  /\ request' = [request EXCEPT ![b] = r]
  /\ UNCHANGED served

\* What a request learned is used up in its next statement.
At(pc) == [Idle EXCEPT !.pc = pc]

\* An UPDATE of the user's row waits for a transaction that has locked it.
RowFree == lock = None

----------------------------------------------------------------------------
(* ratelimit/postgres *)

Expired(k, t) == limiter[k].start + Window(k) <= t

\* Mutant: the counter starts again and the window does not.
CheckedCounterOnly(k, t) ==
  IF limiter[k].count = 0 THEN [count |-> 1, start |-> t]
  ELSE IF Expired(k, t) THEN [limiter[k] EXCEPT !.count = 1]
  ELSE [limiter[k] EXCEPT !.count = @ + 1]

\* The upsert of Check.
Checked(k, t) ==
  IF limiter[k].count = 0 \/ Expired(k, t) THEN [count |-> 1, start |-> t]
  ELSE [limiter[k] EXCEPT !.count = @ + 1]

LastAllowed(k) ==
  LET l == Append(log[k], now)
  IN  IF Len(l) > 2 * Limit + 1 THEN Tail(l) ELSE l

\* The clock is read by the process, the statement runs later; an error, with or
\* without effect, refuses the attempt.
Check(b, k, from, to) ==
  LET row == Checked(k, request[b].clock)
      allowed == row.count <= Limit
      counted == limiter' = [limiter EXCEPT ![k] = row]
  IN  /\ \/ /\ Proceed(b, from, IF allowed THEN At(to) ELSE Idle)
            /\ counted
            /\ log' = IF allowed THEN [log EXCEPT ![k] = LastAllowed(k)] ELSE log
         \/ /\ Proceed(b, from, Idle)
            /\ counted \/ UNCHANGED limiter
            /\ UNCHANGED log
      /\ UNCHANGED <<enrolment, sessions, lock, now, uses>>

\* Reset, whose error every caller ignores.
Reset(k) ==
  \/ /\ limiter' = [limiter EXCEPT ![k] = [count |-> 0, start |-> 0]]
     /\ log' = [log EXCEPT ![k] = <<>>]
  \/ UNCHANGED <<limiter, log>>

\* CleanupWorker, the limiter's rows.
Cleanup ==
  /\ limiter' = [k \in Keys |-> IF limiter[k].start < now - CleanupAge
                                THEN [count |-> 0, start |-> 0] ELSE limiter[k]]
  /\ UNCHANGED <<enrolment, sessions, request, lock, now, served, history>>

\* No statement runs later than MaxDelay after its request read the clock.
Tick ==
  /\ now < MaxTime
  /\ \A b \in Browsers :
       request[b].pc \in {"loginCheck", "codeCheck"} => now - request[b].clock < MaxDelay
  /\ now' = now + 1
  /\ UNCHANGED <<enrolment, rows, request, lock, served, history>>

----------------------------------------------------------------------------
(* LoginSubmitHandler *)

Login(b) ==
  /\ Begin(b, [Idle EXCEPT !.pc = "loginCheck", !.clock = now])
  /\ UNCHANGED <<enrolment, rows, lock, now, history>>

LoginCheck(b) == Check(b, "login", "loginCheck", "password")

\* The password is right or wrong; with a second factor the login is half way.
Password(b, right) ==
  /\ Proceed(b, "password", IF ~right THEN Idle
                            ELSE At(IF user.enabled THEN "halfway" ELSE "reset"))
  /\ UNCHANGED <<enrolment, rows, lock, now, history>>

HalfwaySession(b, ok) ==
  /\ Proceed(b, "halfway", Idle)
  /\ sessions' = IF ok THEN sessions \cup {b} ELSE sessions
  /\ UNCHANGED <<enrolment, limiter, lock, now, history>>

LoginResets(b) ==
  /\ Proceed(b, "reset", At("session"))
  /\ Reset("login")
  /\ UNCHANGED <<enrolment, sessions, lock, now, uses>>

CreateSession(b, ok) ==
  /\ Proceed(b, "session", Idle)
  /\ sessions' = IF ok THEN sessions \cup {b} ELSE sessions
  /\ UNCHANGED <<enrolment, limiter, lock, now, history>>

LogoutHandler(b) ==
  /\ Begin(b, Idle)
  /\ DeleteSession(b)
  /\ UNCHANGED <<enrolment, limiter, lock, now, history>>

\* GetSession and CleanupWorker delete sessions whose time is over.
SessionExpires(b) ==
  /\ Authenticated(b)
  /\ DeleteSession(b)
  /\ UNCHANGED <<enrolment, limiter, request, lock, now, served, history>>

----------------------------------------------------------------------------
(* TwoFactorVerifySubmitHandler *)

Verify(b) ==
  /\ Authenticated(b)
  /\ Begin(b, [Idle EXCEPT !.pc = "codeCheck", !.clock = now])
  /\ UNCHANGED <<enrolment, rows, lock, now, history>>

CodeCheck(b) == Check(b, "2fa", "codeCheck", "code")

\* A wrong code, or a one-time code for the secret in the row.
OneTimeCode(b, right) ==
  /\ right => user.secret
  /\ Proceed(b, "code", IF right THEN At("accepted") ELSE Idle)
  /\ UNCHANGED <<enrolment, rows, lock, now, history>>

\* Mutant: the row is read without FOR UPDATE.
BackupCodeUnlocked(b, c) ==
  /\ Proceed(b, "code", IF c \in user.codes
                        THEN [At("consuming") EXCEPT !.code = c, !.left = user.codes \ {c}]
                        ELSE Idle)
  /\ UNCHANGED <<enrolment, rows, lock, now, history>>

\* ValidateBackupCode: the row is locked and read...
BackupCode(b, c) ==
  /\ RowFree
  /\ Proceed(b, "code", IF c \in user.codes
                        THEN [At("consuming") EXCEPT !.code = c, !.left = user.codes \ {c}]
                        ELSE Idle)
  /\ lock' = IF c \in user.codes THEN b ELSE None
  /\ UNCHANGED <<enrolment, rows, now, history>>

\* ... and written without the code; an error rolls back and refuses the code.
Consume(b, ok) ==
  /\ Proceed(b, "consuming", IF ok THEN At("accepted") ELSE Idle)
  /\ lock' = None
  /\ user' = IF ok THEN [user EXCEPT !.codes = request[b].left] ELSE user
  /\ uses' = IF ok THEN [uses EXCEPT ![request[b].code] = @ + 1] ELSE uses
  /\ UNCHANGED <<pending, sets, rows, now, log>>

\* Both counters are reset, one after the other.
Accept(b, k) ==
  /\ IF k = "2fa" THEN Proceed(b, "accepted", At("acceptedLogin"))
                       ELSE Proceed(b, "acceptedLogin", At("completing"))
  /\ Reset(k)
  /\ UNCHANGED <<enrolment, sessions, lock, now, uses>>

\* The session of the first step is deleted.
Complete(b) ==
  /\ Proceed(b, "completing", At("session"))
  /\ DeleteSession(b)
  /\ UNCHANGED <<enrolment, limiter, lock, now, history>>

----------------------------------------------------------------------------
(* TwoFactorSetupSubmitHandler, TwoFactorDisableHandler: behind SessionAuth. *)

\* verify_password...
VerifyPassword(b) ==
  /\ Authenticated(b)
  /\ Begin(b, [Idle EXCEPT !.pc = "secret"])
  /\ UNCHANGED <<enrolment, rows, lock, now, history>>

\* ... and a new secret replaces the one in the row.
SetTOTPSecret(b, ok) ==
  /\ RowFree
  /\ Proceed(b, "secret", Idle)
  /\ user' = IF ok THEN [user EXCEPT !.secret = TRUE] ELSE user
  /\ UNCHANGED <<pending, sets, rows, lock, now, history>>

\* verify_totp: a right code for the secret in the row...
VerifyTOTP(b) ==
  /\ Authenticated(b)
  /\ user.secret
  /\ Begin(b, [Idle EXCEPT !.pc = "codes"])
  /\ UNCHANGED <<enrolment, rows, lock, now, history>>

\* ... and a new set of backup codes in app_config.
StoreCodes(b, ok) ==
  /\ Proceed(b, "codes", Idle)
  /\ IF ok THEN sets < MaxSets /\ sets' = sets + 1 /\ pending' = sets + 1
           ELSE UNCHANGED <<sets, pending>>
  /\ UNCHANGED <<user, rows, lock, now, history>>

\* confirm_backup: the codes are read from app_config...
ConfirmBackup(b) ==
  /\ Authenticated(b)
  /\ pending # 0
  /\ Begin(b, [Idle EXCEPT !.pc = "install", !.set = pending])
  /\ UNCHANGED <<enrolment, rows, lock, now, history>>

\* ... stored in the row...
SetBackupCodes(b, ok) ==
  /\ RowFree
  /\ Proceed(b, "install", IF ok THEN At("enable") ELSE Idle)
  /\ user' = IF ok THEN [user EXCEPT !.codes = CodesOf(request[b].set)] ELSE user
  /\ uses' = IF ok THEN [c \in Codes |-> IF c[1] = request[b].set THEN 0 ELSE uses[c]] ELSE uses
  /\ UNCHANGED <<pending, sets, rows, lock, now, log>>

\* ... the second factor is enabled...
EnableTOTP(b, ok) ==
  /\ RowFree
  /\ Proceed(b, "enable", IF ok THEN At("forget") ELSE Idle)
  /\ user' = IF ok THEN [user EXCEPT !.enabled = TRUE] ELSE user
  /\ UNCHANGED <<pending, sets, rows, lock, now, history>>

\* ... and the codes are removed from app_config; an error is ignored.
DeleteConfig(b, ok) ==
  /\ Proceed(b, "forget", Idle)
  /\ pending' = IF ok THEN 0 ELSE pending
  /\ UNCHANGED <<user, sets, rows, lock, now, history>>

Disable(b) ==
  /\ Authenticated(b)
  /\ Begin(b, [Idle EXCEPT !.pc = "disable"])
  /\ UNCHANGED <<enrolment, rows, lock, now, history>>

DisableTOTP(b, ok) ==
  /\ RowFree
  /\ Proceed(b, "disable", Idle)
  /\ user' = IF ok THEN [secret |-> FALSE, enabled |-> FALSE, codes |-> {}] ELSE user
  /\ UNCHANGED <<pending, sets, rows, lock, now, history>>

----------------------------------------------------------------------------
(* ChangePasswordHandler *)

\* UpdatePassword; which password is right is not told apart.
ChangePassword(b) ==
  /\ Authenticated(b)
  /\ Begin(b, [Idle EXCEPT !.pc = "others"])
  /\ RowFree
  /\ UNCHANGED <<enrolment, rows, lock, now, history>>

\* All rows of the user but that of the request, if it is still there.
DeleteUserSessionsExcept(b, ok) ==
  /\ Proceed(b, "others", Idle)
  /\ sessions' \in IF ok THEN {{}, sessions \cap {b}} ELSE {sessions}
  /\ UNCHANGED <<enrolment, limiter, lock, now, history>>

----------------------------------------------------------------------------
NotEnrolled == [secret |-> FALSE, enabled |-> FALSE, codes |-> {}]
Enrolled == [secret |-> TRUE, enabled |-> TRUE, codes |-> CodesOf(1)]

\* A new user, or one with a second factor, whose codes may still be in app_config;
\* the limiters may have counted an attempt just before.
AccessInit ==
  /\ user \in {NotEnrolled, Enrolled}
  /\ sets = IF user.secret THEN 1 ELSE 0
  /\ pending \in {0, sets}
  /\ sessions \in SUBSET Browsers
  /\ request = [b \in Browsers |-> Idle]
  /\ lock = None
  /\ log \in [Keys -> {<<>>, <<0>>}]
  /\ limiter = [k \in Keys |-> [count |-> Len(log[k]), start |-> 0]]
  /\ now = 0 /\ served = 0
  /\ uses = [c \in Codes |-> 0]

LoginStep(b) ==
  \/ Login(b) \/ LoginCheck(b) \/ LoginResets(b) \/ LogoutHandler(b) \/ SessionExpires(b)
  \/ \E ok \in BOOLEAN : Password(b, ok) \/ HalfwaySession(b, ok) \/ CreateSession(b, ok)

VerifyStep(b) ==
  \/ Verify(b) \/ CodeCheck(b) \/ Complete(b) \/ \E k \in Keys : Accept(b, k)
  \/ \E ok \in BOOLEAN : OneTimeCode(b, ok) \/ Consume(b, ok)
  \/ \E c \in Codes : c[1] <= sets /\ BackupCode(b, c)

SetupStep(b) ==
  \/ VerifyPassword(b) \/ VerifyTOTP(b) \/ ConfirmBackup(b) \/ Disable(b)
  \/ \E ok \in BOOLEAN :
       \/ SetTOTPSecret(b, ok) \/ DisableTOTP(b, ok) \/ StoreCodes(b, ok)
       \/ SetBackupCodes(b, ok) \/ EnableTOTP(b, ok) \/ DeleteConfig(b, ok)

PasswordStep(b) ==
  ChangePassword(b) \/ \E ok \in BOOLEAN : DeleteUserSessionsExcept(b, ok)

AccessNext ==
  \/ \E b \in Browsers : LoginStep(b) \/ VerifyStep(b) \/ SetupStep(b) \/ PasswordStep(b)
  \/ Cleanup
  \/ Tick

AccessSpec == AccessInit /\ [][AccessNext]_accessVars

----------------------------------------------------------------------------
\* Between two acceptances of a backup code its set was stored in the row again,
\* however many browsers submit the code at the same time and whatever else writes
\* the row between its reading and its writing.  That is less than the page of the
\* codes says ("Each code works only once.", admin/templates/2fa_setup.html:46):
\* confirm_backup neither asks whether the second factor is enabled already nor
\* sees that the removal of the codes from app_config failed, so a second
\* confirmation stores the same codes, the used ones included.
CodeUsedOncePerStore == \A c \in Codes : uses[c] <= 1

\* The limiter promises Limit attempts per window.  Over any row of windows that
\* means: of 2 * Limit + 1 attempts allowed without a reset the first and the
\* last are a window apart, but for the delay between a request's clock and its
\* statement, which may run in another order.
AttemptsAreSpread ==
  \A k \in Keys : Len(log[k]) = 2 * Limit + 1 =>
    log[k][2 * Limit + 1] - log[k][1] >= Window(k) - MaxDelay

=============================================================================

------------------------------- MODULE Login -------------------------------
(***************************************************************************)
(* Logging in to one console account (src/pkg/api/auth.go,                 *)
(* src/pkg/session/totp.go, src/pkg/archive/users.go): the password with   *)
(* its limiter of failures, the second factor with its single-use          *)
(* challenge (mfa_token), and the account's enrolment for it.  Request     *)
(* handlers ("workers") of one server share its memory; the account's row  *)
(* is in the database.                                                     *)
(*                                                                         *)
(* What a step is: one SQL statement, or one call of LoginLimiter or       *)
(* MFAGate, each of which holds its mutex throughout.  A code is told from *)
(* others by the secret it was computed from, or by the set of recovery    *)
(* codes it belongs to.                                                    *)
(***************************************************************************)
EXTENDS Naturals, Sequences, FiniteSets

CONSTANTS Workers,       \* request handlers
          MaxAttempts,   \* codes tried per challenge: 5
          MaxFails,      \* wrong passwords before the account is locked: 10
          Window,        \* for how long a wrong password counts: 15 min
          Lifetime,      \* of a challenge: 5 min
          CodesPerSet,   \* recovery codes handed out at once: 10
          MaxTime,       \* bound: clock ticks
          MaxChallenges, \* bound: challenges issued
          MaxTries,      \* bound: codes counted for a challenge before one more is typed
          MaxSecrets,    \* bound: secrets made by setup
          MaxEnrolments  \* bound: sets of recovery codes made

ASSUME BoundsOK ==
    /\ {MaxAttempts, MaxFails, Window, Lifetime, CodesPerSet} \subseteq Nat \ {0}
    /\ {MaxTime, MaxChallenges, MaxTries, MaxSecrets, MaxEnrolments} \subseteq Nat
    /\ IsFiniteSet(Workers)

Secrets == 1 .. MaxSecrets
NoSecret == 0
Totp(secret) == <<"totp", secret>>
Recovery(set, i) == <<"recovery", set, i>>
RecoveryCodes(set) == {Recovery(set, i) : i \in 1 .. CodesPerSet}
AllRecoveryCodes == UNION {RecoveryCodes(set) : set \in 1 .. MaxEnrolments}
\* What may be typed: a code of a secret, of one nobody has, a recovery code.
Codes == {Totp(s) : s \in 1 .. MaxSecrets + 1} \cup AllRecoveryCodes
NoCode == <<"totp", NoSecret>>

VARIABLES user,       \* the account's row: [secret, enabled, codes]
          clock,      \* what now() returns
          challenges, \* challenges[c]: when challenge c expires
          used,       \* MFAGate.used
          attempts,   \* MFAGate.attempts
          fails,      \* LoginLimiter.fails of the account
          call,       \* call[w]: where w is in its request
          secrets,    \* number of secrets made so far
          sets,       \* number of sets of recovery codes made so far
          verified,   \* secrets that a code was checked against in confirm
          logins,     \* logins[c]: sessions issued for challenge c
          tried,      \* tried[c]: codes compared for challenge c
          spent       \* spent[code]: sessions issued for a recovery code

gate == <<used, attempts>>
history == <<verified, logins, tried, spent>>
counters == <<secrets, sets>>
vars == <<user, clock, challenges, gate, fails, call, counters, history>>

Idle == [at |-> "idle", challenge |-> 0, code |-> NoCode, secret |-> NoSecret, codes |-> {}]
Done(w) == call' = [call EXCEPT ![w] = Idle]
Goto(w, next) == call' = [call EXCEPT ![w].at = next]

-----------------------------------------------------------------------------
(* POST /login.                                                            *)

\* A wrong password: when, and how many of that moment came before it.
Fail(at, n) == [at |-> at, n |-> n]

\* prune: failures of the last Window
Recent == {f \in fails : f.at + Window > clock}

LockedLate(n) == n > MaxFails
Locked(n) == n >= MaxFails

\* Allowed
StartLogin(w) ==
    /\ call[w] = Idle
    /\ fails' = Recent
    /\ IF Locked(Cardinality(Recent)) THEN UNCHANGED call ELSE Goto(w, "password")
    /\ UNCHANGED <<user, clock, challenges, gate, counters, history>>

\* UserByEmail and VerifyHash: the password is wrong (a lookup that fails counts
\* as that too), or it is right.
CheckPassword(w) ==
    /\ call[w].at = "password"
    /\ \/ Goto(w, "record_fail")
       \/ Goto(w, IF user.enabled THEN "challenge" ELSE "session")
    /\ UNCHANGED <<user, clock, challenges, gate, fails, counters, history>>

RecordFail(w) ==
    /\ call[w].at = "record_fail"
    /\ fails' = Recent \cup {Fail(clock, Cardinality({f \in Recent : f.at = clock}))}
    /\ Done(w)
    /\ UNCHANGED <<user, clock, challenges, gate, counters, history>>

\* Clear; then a challenge for an account with a second factor, else a session
Grant(w) ==
    /\ \/ call[w].at = "session" /\ UNCHANGED challenges
       \/ /\ call[w].at = "challenge"
          /\ Len(challenges) < MaxChallenges
          /\ challenges' = Append(challenges, clock + Lifetime)
    /\ fails' = {}
    /\ Done(w)
    /\ UNCHANGED <<user, clock, gate, counters, history>>

-----------------------------------------------------------------------------
(* POST /login/mfa.                                                        *)

Expired(c) == clock >= challenges[c]

\* purge: a used challenge is forgotten, with its attempts, once it is expired.
Kept == {c \in used : clock <= challenges[c]}
\* Every challenge that is not in use is forgotten, not only those once used.
AttemptsOfUsed == [c \in DOMAIN attempts |-> IF c \in Kept THEN attempts[c] ELSE 0]
KeptAttempts == [c \in DOMAIN attempts |-> IF c \in used \ Kept THEN 0 ELSE attempts[c]]

\* ParseMFA
StartMFA(w, c, code) ==
    /\ call[w] = Idle
    /\ ~Expired(c)
    /\ attempts[c] < MaxTries
    /\ call' = [call EXCEPT ![w] =
                   [Idle EXCEPT !.at = "is_used", !.challenge = c, !.code = code]]
    /\ UNCHANGED <<user, clock, challenges, gate, fails, counters, history>>

IsUsed(w) ==
    /\ call[w].at = "is_used"
    /\ used' = Kept
    /\ attempts' = KeptAttempts
    /\ IF call[w].challenge \in Kept THEN Done(w) ELSE Goto(w, "count")
    /\ UNCHANGED <<user, clock, challenges, fails, counters, history>>

Allows(n) == n <= MaxAttempts

\* CheckAndCountAttempt
CountAttempt(w) ==
    LET c == call[w].challenge
        n == KeptAttempts[c] + 1
    IN
    /\ call[w].at = "count"
    /\ used' = Kept
    /\ IF Expired(c)
       THEN attempts' = KeptAttempts /\ Done(w)
       ELSE /\ attempts' = [KeptAttempts EXCEPT ![c] = n]
            /\ IF Allows(n)
               THEN Goto(w, IF call[w].code \in AllRecoveryCodes THEN "find" ELSE "test")
               ELSE Done(w)
    /\ UNCHANGED <<user, clock, challenges, fails, counters, history>>

Compared(w) == tried' = [tried EXCEPT ![call[w].challenge] = @ + 1]

\* GetUser and Verify
TestCode(w) ==
    /\ call[w].at = "test"
    /\ Compared(w)
    /\ IF call[w].code = Totp(user.secret) THEN Goto(w, "mark") ELSE Done(w)
    /\ UNCHANGED <<user, clock, challenges, gate, fails, counters, verified, logins, spent>>

\* ConsumeRecoveryCode's GetUser
FindCode(w) ==
    /\ call[w].at = "find"
    /\ Compared(w)
    /\ IF call[w].code \in user.codes
       THEN call' = [call EXCEPT ![w].at = "spend", ![w].codes = user.codes \ {call[w].code}]
       ELSE Done(w)
    /\ UNCHANGED <<user, clock, challenges, gate, fails, counters, verified, logins, spent>>

\* ConsumeRecoveryCode's UPDATE, which may fail
SpendCode(w) ==
    /\ call[w].at = "spend"
    /\ \/ /\ user' = [user EXCEPT !.codes = call[w].codes]
          /\ Goto(w, "mark")
       \/ UNCHANGED user /\ Done(w)
    /\ UNCHANGED <<clock, challenges, gate, fails, counters, history>>

\* Only the expiry is looked at.
MarksUnlessExpired(c) == ~Expired(c)
Marks(c) == ~Expired(c) /\ c \notin Kept

\* MarkUsed, and the session if this is the first
MarkUsed(w) ==
    LET c == call[w].challenge IN
    /\ call[w].at = "mark"
    /\ attempts' = KeptAttempts
    /\ IF Marks(c)
       THEN /\ used' = Kept \cup {c}
            /\ logins' = [logins EXCEPT ![c] = @ + 1]
            /\ spent' = IF call[w].code \in AllRecoveryCodes
                        THEN [spent EXCEPT ![call[w].code] = @ + 1] ELSE spent
       ELSE used' = Kept /\ UNCHANGED <<logins, spent>>
    /\ Done(w)
    /\ UNCHANGED <<user, clock, challenges, fails, counters, verified, tried>>

-----------------------------------------------------------------------------
(* /2fa.                                                                   *)

Unenrolled == [secret |-> NoSecret, enabled |-> FALSE, codes |-> {}]

\* handle2FASetup: a new secret, not enabled yet
Setup ==
    /\ secrets < MaxSecrets
    /\ secrets' = secrets + 1
    /\ user' = [Unenrolled EXCEPT !.secret = secrets + 1]
    /\ UNCHANGED <<clock, challenges, gate, fails, call, sets, history>>

\* handle2FAConfirm's GetUser and Verify
StartConfirm(w, code) ==
    /\ call[w] = Idle
    /\ ~user.enabled
    /\ user.secret # NoSecret
    /\ code = Totp(user.secret)
    /\ verified' = verified \cup {user.secret}
    /\ call' = [call EXCEPT ![w] = [Idle EXCEPT !.at = "enable", !.secret = user.secret]]
    /\ UNCHANGED <<user, clock, challenges, gate, fails, counters, logins, tried, spent>>

\* The flag and the codes are written, the secret stays the one that is there.
FlagSet(secret) == [user EXCEPT !.enabled = TRUE, !.codes = RecoveryCodes(sets + 1)]
Enrolled(secret) == [secret |-> secret, enabled |-> TRUE, codes |-> RecoveryCodes(sets + 1)]

\* handle2FAConfirm's UpsertTOTP
Enable(w) ==
    /\ call[w].at = "enable"
    /\ sets < MaxEnrolments
    /\ sets' = sets + 1
    /\ user' = Enrolled(call[w].secret)
    /\ Done(w)
    /\ UNCHANGED <<clock, challenges, gate, fails, secrets, history>>

\* The secret and the codes are cleared, the flag is left on.
FlagKept == [Unenrolled EXCEPT !.enabled = user.enabled]
Cleared == Unenrolled

\* handle2FADelete: ClearTOTP
Disable ==
    /\ user' = Cleared
    /\ UNCHANGED <<clock, challenges, gate, fails, call, counters, history>>

-----------------------------------------------------------------------------

Tick ==
    /\ clock < MaxTime
    /\ clock' = clock + 1
    /\ UNCHANGED <<user, challenges, gate, fails, call, counters, history>>

Zero == [c \in 1 .. MaxChallenges |-> 0]

\* The server is restarted: its memory is gone, and what is said below of a
\* challenge starts anew.
Restart ==
    /\ used' = {}
    /\ attempts' = Zero
    /\ fails' = {}
    /\ call' = [w \in Workers |-> Idle]
    /\ logins' = Zero
    /\ tried' = Zero
    /\ UNCHANGED <<user, clock, challenges, counters, verified, spent>>

Init ==
    /\ \/ user = Unenrolled /\ secrets = 0 /\ sets = 0 /\ verified = {}
       \/ /\ MaxSecrets > 0 /\ MaxEnrolments > 0
          /\ user = [secret |-> 1, enabled |-> TRUE, codes |-> RecoveryCodes(1)]
          /\ secrets = 1 /\ sets = 1 /\ verified = {1}
    /\ clock = 0
    /\ challenges = <<>>
    /\ used = {}
    /\ attempts = Zero
    /\ fails = {}
    /\ call = [w \in Workers |-> Idle]
    /\ logins = Zero
    /\ tried = Zero
    /\ spent = [code \in AllRecoveryCodes |-> 0]

Next ==
    \/ \E w \in Workers :
        \/ StartLogin(w) \/ CheckPassword(w) \/ RecordFail(w) \/ Grant(w)
        \/ \E c \in DOMAIN challenges, code \in Codes : StartMFA(w, c, code)
        \/ IsUsed(w) \/ CountAttempt(w) \/ TestCode(w) \/ FindCode(w) \/ SpendCode(w) \/ MarkUsed(w)
        \/ \E code \in Codes : StartConfirm(w, code)
        \/ Enable(w)
    \/ Setup \/ Disable \/ Tick \/ Restart

Spec == Init /\ [][Next]_vars

-----------------------------------------------------------------------------
(* Properties.                                                             *)

Steps == {"idle", "password", "record_fail", "challenge", "session", "is_used", "count",
          "test", "find", "spend", "mark", "enable"}
Challenges == 1 .. MaxChallenges
Call == [at : Steps, challenge : 0 .. MaxChallenges, code : Codes \cup {NoCode},
         secret : Secrets \cup {NoSecret}, codes : SUBSET AllRecoveryCodes]

\* The row, the server's memory and the requests have their types, and a second
\* factor that is on has a secret (users.go:217-282).
TypeOK ==
    /\ user \in [secret : Secrets \cup {NoSecret}, enabled : BOOLEAN,
                 codes : SUBSET AllRecoveryCodes]
    /\ user.enabled => user.secret # NoSecret
    /\ clock \in 0 .. MaxTime
    /\ challenges \in Seq(Nat) /\ Len(challenges) <= MaxChallenges
    /\ used \subseteq DOMAIN challenges
    /\ attempts \in [Challenges -> Nat]
    /\ fails \subseteq [at : 0 .. MaxTime, n : Nat]
    /\ call \in [Workers -> Call]
    /\ secrets \in 0 .. MaxSecrets /\ sets \in 0 .. MaxEnrolments
    /\ verified \subseteq 1 .. secrets
    /\ logins \in [Challenges -> Nat] /\ tried \in [Challenges -> Nat]
    /\ spent \in [AllRecoveryCodes -> Nat]

\* While the server runs, a challenge is good for one session, whoever presents
\* it at the same time and whenever the gate forgets it (auth.go:159, 191,
\* totp.go:175-215).
ChallengeUsedOnce == \A c \in Challenges : logins[c] <= 1

\* While the server runs, no more codes are compared for a challenge than the
\* gate allows, though its counter is forgotten at times (totp.go:175-199).
AttemptsBounded == \A c \in Challenges : tried[c] <= MaxAttempts

\* The second factor is only ever on with a secret that the account's owner has
\* shown a code of, whatever setup runs meanwhile (auth.go:414-474).
EnabledWasVerified == user.enabled => user.secret \in verified

\* Requests that were let through together may fail together, and no others:
\* the limiter keeps fewer failures than its limit and one per handler
\* (auth.go:100-107, totp.go:265-290).
FailsBounded == Cardinality(fails) < MaxFails + Cardinality(Workers)

\* A recovery code is good for one session ("recovery once", phase7_test.go:151).
RecoveryCodeUsedOnce == \A code \in AllRecoveryCodes : spent[code] <= 1
=============================================================================

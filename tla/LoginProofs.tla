---------------------------- MODULE LoginProofs ----------------------------
(***************************************************************************)
(* Theorems of Login, for any number of request handlers, any limits and   *)
(* any bounds.                                                             *)
(***************************************************************************)
EXTENDS Login, FiniteSetTheorems, TLAPS

-----------------------------------------------------------------------------
(* The inductive invariant.                                                *)

MFASteps == {"is_used", "count", "test", "find", "spend", "mark"}

\* What a handler remembers of its request.
Frame == [at : Steps, challenge : Nat, code : Codes \cup {NoCode},
          secret : Nat, codes : SUBSET AllRecoveryCodes]

\* TypeOK without the limiter's failures and what they do not touch.
ShapeInv ==
    /\ clock \in Nat
    /\ challenges \in Seq(Nat) /\ Len(challenges) <= MaxChallenges
    /\ used \subseteq DOMAIN challenges
    /\ attempts \in [Challenges -> Nat]
    /\ logins \in [Challenges -> Nat] /\ tried \in [Challenges -> Nat]
    /\ call \in [Workers -> Frame]
    /\ \A w \in Workers : call[w].at \in MFASteps => call[w].challenge \in DOMAIN challenges
    /\ user \in [secret : Nat, enabled : BOOLEAN, codes : SUBSET AllRecoveryCodes]
    /\ secrets \in Nat /\ sets \in 0 .. MaxEnrolments

\* A challenge that gave a session is marked used until it is expired.
UsedInv ==
    \A c \in Challenges :
        \/ logins[c] = 0
        \/ /\ logins[c] = 1
           /\ c \in DOMAIN challenges
           /\ c \in used \/ clock > challenges[c]

\* A code that was compared, or that a handler is about to compare, was
\* counted, and the count is kept until the challenge is expired.
Comparing(c) == {w \in Workers : call[w].at \in {"test", "find"} /\ call[w].challenge = c}
Counted(c) == tried[c] + Cardinality(Comparing(c))
CountInv ==
    \A c \in Challenges :
        /\ Counted(c) <= MaxAttempts
        /\ \/ Counted(c) <= attempts[c]
           \/ c \in DOMAIN challenges /\ clock > challenges[c]

\* A secret that is enabled, or that a handler is about to enable, was verified.
VerifiedInv ==
    /\ user.enabled => user.secret \in verified
    /\ \A w \in Workers : call[w].at = "enable" => call[w].secret \in verified

\* What the row, the handlers and the history hold is bounded by what was made.
BoundsInv ==
    /\ clock <= MaxTime
    /\ fails \subseteq [at : 0 .. MaxTime, n : Nat] /\ IsFiniteSet(fails)
    /\ spent \in [AllRecoveryCodes -> Nat]
    /\ secrets <= MaxSecrets /\ user.secret <= secrets
    /\ verified \subseteq 1 .. secrets
    /\ \A w \in Workers : call[w].secret <= secrets /\ call[w].challenge <= MaxChallenges

\* The failures kept, and those that may still be recorded: a handler is only
\* let through while fewer than the limit are kept.
FailSteps == {"password", "record_fail"}
Failing == {w \in Workers : call[w].at \in FailSteps}
FailsInv == Cardinality(fails) + Cardinality(Failing) < MaxFails + Cardinality(Workers)

IInv ==
    /\ ShapeInv
    /\ UsedInv
    /\ CountInv
    /\ VerifiedInv
    /\ BoundsInv
    /\ FailsInv

-----------------------------------------------------------------------------
(* Lemmas.                                                                 *)

\* What a handler remembers when it goes on, begins, or ends.
LEMMA GotoFrame ==
    ASSUME call \in [Workers -> Frame], NEW w \in Workers, NEW s \in Steps, Goto(w, s)
    PROVE  /\ call' \in [Workers -> Frame]
           /\ call'[w].at = s
           /\ call'[w].challenge = call[w].challenge
           /\ call'[w].code = call[w].code
           /\ call'[w].secret = call[w].secret
           /\ call'[w].codes = call[w].codes
           /\ \A v \in Workers \ {w} : call'[v] = call[v]
<1>1. call[w] \in Frame
  OBVIOUS
<1>2. [call[w] EXCEPT !.at = s] \in Frame
  BY <1>1 DEF Frame
<1>3. call' = [call EXCEPT ![w] = [call[w] EXCEPT !.at = s]]
  BY DEF Goto
<1>4. call'[w] = [call[w] EXCEPT !.at = s]
  BY <1>3
<1>5. call' \in [Workers -> Frame] /\ \A v \in Workers \ {w} : call'[v] = call[v]
  BY <1>2, <1>3
<1> QED
  BY <1>1, <1>4, <1>5 DEF Frame

\* A handler that ends is idle; the others are left alone.
LEMMA DoneFrame ==
    ASSUME call \in [Workers -> Frame], NEW w \in Workers, Done(w)
    PROVE  /\ call' \in [Workers -> Frame]
           /\ call'[w].at = "idle"
           /\ \A v \in Workers \ {w} : call'[v] = call[v]
<1>1. Idle \in Frame /\ Idle.at = "idle"
  BY DEF Idle, Frame, Steps, NoSecret
<1> QED
  BY <1>1 DEF Done

\* A handler that begins remembers what it was given; the others are left alone.
LEMMA BeginFrame ==
    ASSUME call \in [Workers -> Frame], NEW w \in Workers, NEW f \in Frame,
           call' = [call EXCEPT ![w] = f]
    PROVE  /\ call' \in [Workers -> Frame]
           /\ call'[w] = f
           /\ \A v \in Workers \ {w} : call'[v] = call[v]
OBVIOUS

\* The limits and bounds are natural numbers.
LEMMA Bounds ==
    /\ MaxAttempts \in Nat /\ Lifetime \in Nat
    /\ MaxChallenges \in Nat /\ MaxEnrolments \in Nat /\ MaxSecrets \in Nat
    /\ IsFiniteSet(Workers)
BY BoundsOK

\* A code of the set that confirm makes next is a recovery code.
LEMMA NextCodes ==
    ASSUME sets \in Nat, sets < MaxEnrolments
    PROVE  RecoveryCodes(sets + 1) \subseteq AllRecoveryCodes
BY BoundsOK DEF AllRecoveryCodes

\* The gate's memory has its types after a purge.
LEMMA KeptShape ==
    ASSUME ShapeInv
    PROVE  /\ Kept \subseteq used
           /\ KeptAttempts \in [Challenges -> Nat]
BY DEF ShapeInv, Kept, KeptAttempts

\* No more challenges are issued than the bound says.
LEMMA Issued == ASSUME ShapeInv PROVE DOMAIN challenges \subseteq Challenges
<1>1. DOMAIN challenges = 1 .. Len(challenges) /\ Len(challenges) \in Nat
  BY DEF ShapeInv
<1>2. Len(challenges) <= MaxChallenges
  BY DEF ShapeInv
<1> QED
  BY <1>1, <1>2, Bounds DEF Challenges

\* The server starts in the shape the proofs below rely on.
LEMMA InitShape == Init => ShapeInv
<1> SUFFICES ASSUME Init PROVE ShapeInv
  OBVIOUS
<1>1. Idle \in Frame
  BY DEF Idle, Frame, Steps, NoSecret
<1>2. call \in [Workers -> Frame] /\ \A w \in Workers : call[w].at \notin MFASteps
  BY <1>1 DEF Init, Idle, MFASteps
<1>3. user \in [secret : Nat, enabled : BOOLEAN, codes : SUBSET AllRecoveryCodes]
  <2>1. CASE user = Unenrolled
    BY <2>1 DEF Unenrolled, NoSecret
  <2>2. CASE /\ MaxEnrolments > 0
             /\ user = [secret |-> 1, enabled |-> TRUE, codes |-> RecoveryCodes(1)]
    <3>1. RecoveryCodes(1) \subseteq AllRecoveryCodes
      BY <2>2, BoundsOK DEF AllRecoveryCodes
    <3> QED
      BY <2>2, <3>1
  <2> QED
    BY <2>1, <2>2 DEF Init
<1>4. secrets \in Nat /\ sets \in 0 .. MaxEnrolments
  BY BoundsOK DEF Init
<1> QED
  BY <1>2, <1>3, <1>4, BoundsOK DEF Init, ShapeInv, Zero, Challenges

\* Every step keeps the types of the row, the gate, the challenges and the handlers.
LEMMA StepShape == ShapeInv /\ [Next]_vars => ShapeInv'
<1> SUFFICES ASSUME ShapeInv, [Next]_vars PROVE ShapeInv'
  OBVIOUS
<1> USE DEF ShapeInv, vars, gate, counters, history
<1>1. ASSUME NEW w \in Workers,
             StartLogin(w) \/ CheckPassword(w) \/ RecordFail(w)
      PROVE  ShapeInv'
  <2>1. \/ UNCHANGED call
        \/ Done(w)
        \/ \E s \in Steps \ MFASteps : Goto(w, s)
    BY <1>1 DEF StartLogin, CheckPassword, RecordFail, Steps, MFASteps
  <2>2. /\ call' \in [Workers -> Frame]
        /\ \A v \in Workers : call'[v].at \in MFASteps => call'[v] = call[v]
    BY <2>1, GotoFrame, DoneFrame DEF MFASteps
  <2> QED
    BY <1>1, <2>2 DEF StartLogin, CheckPassword, RecordFail
<1>2. ASSUME NEW w \in Workers, Grant(w) PROVE ShapeInv'
  <2>1. /\ call' \in [Workers -> Frame]
        /\ \A v \in Workers : call'[v].at \in MFASteps => call'[v] = call[v]
    BY <1>2, DoneFrame DEF MFASteps, Grant
  <2>2. CASE UNCHANGED challenges
    BY <1>2, <2>1, <2>2 DEF Grant
  <2>3. CASE Len(challenges) < MaxChallenges /\ challenges' = Append(challenges, clock + Lifetime)
    <3>1. /\ challenges' \in Seq(Nat)
          /\ Len(challenges') <= MaxChallenges
          /\ DOMAIN challenges \subseteq DOMAIN challenges'
      <4>1. clock + Lifetime \in Nat
        BY Bounds
      <4>2. Len(challenges') = Len(challenges) + 1 /\ challenges' \in Seq(Nat)
        BY <2>3, <4>1
      <4> QED
        BY <2>3, <4>2, Bounds
    <3> QED
      BY <1>2, <2>1, <3>1 DEF Grant
  <2> QED
    BY <1>2, <2>2, <2>3 DEF Grant
<1>3. ASSUME NEW w \in Workers, NEW c \in DOMAIN challenges, NEW code \in Codes,
             StartMFA(w, c, code)
      PROVE  ShapeInv'
  <2> DEFINE f == [Idle EXCEPT !.at = "is_used", !.challenge = c, !.code = code]
  <2>1. f \in Frame /\ f.challenge = c
    <3>1. c \in Nat
      BY DEF ShapeInv
    <3> QED
      BY <3>1 DEF Frame, Idle, Steps, NoSecret
  <2>2. call' = [call EXCEPT ![w] = f]
    BY <1>3 DEF StartMFA
  <2> HIDE DEF f
  <2>3. call' \in [Workers -> Frame]
    BY <2>1, <2>2, BeginFrame
  <2>4. \A v \in Workers : call'[v] = call[v] \/ call'[v].challenge = c
    BY <2>1, <2>2, BeginFrame
  <2> QED
    BY <1>3, <2>3, <2>4 DEF StartMFA
<1>4. ASSUME NEW w \in Workers, IsUsed(w) PROVE ShapeInv'
  <2>1. call' \in [Workers -> Frame]
    BY <1>4, GotoFrame, DoneFrame DEF IsUsed, Steps
  <2>2. \A v \in Workers : \/ call'[v].at \notin MFASteps
                           \/ call[v].at \in MFASteps /\ call'[v].challenge = call[v].challenge
    BY <1>4, GotoFrame, DoneFrame DEF IsUsed, Steps, MFASteps
  <2> QED
    BY <1>4, <2>1, <2>2, KeptShape DEF IsUsed
<1>5. ASSUME NEW w \in Workers, CountAttempt(w) PROVE ShapeInv'
  <2>0. call[w].challenge \in Challenges
    BY <1>5, Issued DEF CountAttempt, MFASteps
  <2>1. attempts' \in [Challenges -> Nat]
    <3>1. KeptAttempts \in [Challenges -> Nat]
      BY KeptShape
    <3>2. KeptAttempts[call[w].challenge] + 1 \in Nat
      BY <2>0, <3>1
    <3> QED
      BY <1>5, <3>1, <3>2 DEF CountAttempt
  <2>2. Done(w) \/ Goto(w, "find") \/ Goto(w, "test")
    BY <1>5 DEF CountAttempt
  <2>3. call' \in [Workers -> Frame]
    BY <2>2, GotoFrame, DoneFrame DEF Steps
  <2>4. \A v \in Workers : \/ call'[v].at \notin MFASteps
                           \/ call[v].at \in MFASteps /\ call'[v].challenge = call[v].challenge
    BY <1>5, <2>2, GotoFrame, DoneFrame DEF CountAttempt, Steps, MFASteps
  <2> QED
    BY <1>5, <2>1, <2>3, <2>4, KeptShape DEF CountAttempt
<1>6. ASSUME NEW w \in Workers, TestCode(w) PROVE ShapeInv'
  <2>1. tried' \in [Challenges -> Nat]
    <3>1. call[w].challenge \in Challenges
      BY <1>6, Issued DEF TestCode, MFASteps
    <3> QED
      BY <1>6, <3>1 DEF TestCode, Compared
  <2>2. call' \in [Workers -> Frame]
    BY <1>6, GotoFrame, DoneFrame DEF TestCode, Steps
  <2>3. \A v \in Workers : \/ call'[v].at \notin MFASteps
                           \/ call[v].at \in MFASteps /\ call'[v].challenge = call[v].challenge
    BY <1>6, GotoFrame, DoneFrame DEF TestCode, Steps, MFASteps
  <2> QED
    BY <1>6, <2>1, <2>2, <2>3 DEF TestCode
<1>7. ASSUME NEW w \in Workers, FindCode(w) PROVE ShapeInv'
  <2>1. tried' \in [Challenges -> Nat]
    <3>1. call[w].challenge \in Challenges
      BY <1>7, Issued DEF FindCode, MFASteps
    <3> QED
      BY <1>7, <3>1 DEF FindCode, Compared
  <2> DEFINE f == [call[w] EXCEPT !.at = "spend", !.codes = user.codes \ {call[w].code}]
  <2>2. f \in Frame /\ f.challenge = call[w].challenge
    BY DEF Frame, Steps
  <2>3. call' = [call EXCEPT ![w] = f] \/ Done(w)
    BY <1>7 DEF FindCode
  <2> HIDE DEF f
  <2>4. call' \in [Workers -> Frame]
    BY <2>2, <2>3, BeginFrame, DoneFrame
  <2>5. \A v \in Workers : \/ call'[v].at \notin MFASteps
                           \/ call[v].at \in MFASteps /\ call'[v].challenge = call[v].challenge
    BY <1>7, <2>2, <2>3, BeginFrame, DoneFrame DEF FindCode, MFASteps
  <2> QED
    BY <1>7, <2>1, <2>4, <2>5 DEF FindCode
<1>8. ASSUME NEW w \in Workers, SpendCode(w) PROVE ShapeInv'
  <2>1. call' \in [Workers -> Frame]
    BY <1>8, GotoFrame, DoneFrame DEF SpendCode, Steps
  <2>2. \A v \in Workers : \/ call'[v].at \notin MFASteps
                           \/ call[v].at \in MFASteps /\ call'[v].challenge = call[v].challenge
    BY <1>8, GotoFrame, DoneFrame DEF SpendCode, Steps, MFASteps
  <2>3. call[w].codes \in SUBSET AllRecoveryCodes
    BY DEF Frame
  <2>4. user' \in [secret : Nat, enabled : BOOLEAN, codes : SUBSET AllRecoveryCodes]
    BY <1>8, <2>3 DEF SpendCode
  <2> QED
    BY <1>8, <2>1, <2>2, <2>4 DEF SpendCode
<1>9. ASSUME NEW w \in Workers, MarkUsed(w) PROVE ShapeInv'
  <2>1. logins' \in [Challenges -> Nat]
    BY <1>9 DEF MarkUsed
  <2>2. /\ call' \in [Workers -> Frame]
        /\ \A v \in Workers : call'[v].at \in MFASteps => call'[v] = call[v]
    BY <1>9, DoneFrame DEF MFASteps, MarkUsed
  <2>3. call[w].challenge \in DOMAIN challenges
    BY <1>9 DEF MarkUsed, MFASteps
  <2> QED
    BY <1>9, <2>1, <2>2, <2>3, KeptShape DEF MarkUsed
<1>10. ASSUME NEW w \in Workers, NEW code \in Codes, StartConfirm(w, code) PROVE ShapeInv'
  <2> DEFINE f == [Idle EXCEPT !.at = "enable", !.secret = user.secret]
  <2>1. f \in Frame /\ f.at = "enable"
    BY DEF Frame, Idle, Steps, NoSecret
  <2>2. call' = [call EXCEPT ![w] = f]
    BY <1>10 DEF StartConfirm
  <2> HIDE DEF f
  <2>3. /\ call' \in [Workers -> Frame]
        /\ \A v \in Workers : call'[v].at \in MFASteps => call'[v] = call[v]
    BY <2>1, <2>2, BeginFrame DEF MFASteps
  <2> QED
    BY <1>10, <2>3 DEF StartConfirm
<1>11. ASSUME NEW w \in Workers, Enable(w) PROVE ShapeInv'
  <2>1. /\ call' \in [Workers -> Frame]
        /\ \A v \in Workers : call'[v].at \in MFASteps => call'[v] = call[v]
    BY <1>11, DoneFrame DEF MFASteps, Enable
  <2>2. call[w].secret \in Nat
    BY DEF Frame
  <2>3. RecoveryCodes(sets + 1) \subseteq AllRecoveryCodes
    BY <1>11, NextCodes DEF Enable
  <2>4. user' \in [secret : Nat, enabled : BOOLEAN, codes : SUBSET AllRecoveryCodes]
    BY <1>11, <2>2, <2>3 DEF Enable, Enrolled
  <2>5. sets' \in 0 .. MaxEnrolments
    BY <1>11, Bounds DEF Enable
  <2> QED
    BY <1>11, <2>1, <2>4, <2>5 DEF Enable
<1>12. ASSUME Setup PROVE ShapeInv'
  <2>1. user' \in [secret : Nat, enabled : BOOLEAN, codes : SUBSET AllRecoveryCodes]
    <3>1. user' = [secret |-> secrets + 1, enabled |-> FALSE, codes |-> {}]
      BY <1>12 DEF Setup, Unenrolled
    <3> QED
      BY <3>1
  <2> QED
    BY <1>12, <2>1 DEF Setup
<1>13. ASSUME Disable PROVE ShapeInv'
  BY <1>13 DEF Disable, Cleared, Unenrolled, NoSecret
<1>14. ASSUME Tick PROVE ShapeInv'
  BY <1>14 DEF Tick
<1>15. ASSUME Restart PROVE ShapeInv'
  <2>1. Idle \in Frame /\ Idle.at \notin MFASteps
    BY DEF Idle, Frame, Steps, NoSecret, MFASteps
  <2>2. call' \in [Workers -> Frame] /\ \A w \in Workers : call'[w].at \notin MFASteps
    BY <1>15, <2>1 DEF Restart
  <2> QED
    BY <1>15, <2>2 DEF Restart, Zero, Challenges
<1>16. CASE UNCHANGED vars
  BY <1>16
<1> QED
  BY <1>1, <1>2, <1>3, <1>4, <1>5, <1>6, <1>7, <1>8, <1>9, <1>10, <1>11, <1>12, <1>13, <1>14,
     <1>15, <1>16
  DEF Next

-----------------------------------------------------------------------------
(* Steps that leave the history of challenges alone.                       *)

\* Time passes, and challenges are issued but never changed.
LEMMA Monotone ==
    ASSUME ShapeInv, [Next]_vars
    PROVE  /\ clock \in Nat /\ clock' \in Nat /\ clock <= clock'
           /\ \A c \in DOMAIN challenges :
                 c \in DOMAIN challenges' /\ challenges'[c] = challenges[c] /\ challenges[c] \in Nat
<1>1. clock \in Nat /\ clock' \in Nat /\ clock <= clock'
  <2>1. clock' = clock \/ clock' = clock + 1
    BY DEF Next, vars, StartLogin, CheckPassword, RecordFail, Grant, StartMFA, IsUsed,
       CountAttempt, TestCode, FindCode, SpendCode, MarkUsed, StartConfirm, Enable, Setup,
       Disable, Tick, Restart
  <2> QED
    BY <2>1 DEF ShapeInv
<1>2. challenges' = challenges \/ challenges' = Append(challenges, clock + Lifetime)
  BY DEF Next, vars, StartLogin, CheckPassword, RecordFail, Grant, StartMFA, IsUsed,
     CountAttempt, TestCode, FindCode, SpendCode, MarkUsed, StartConfirm, Enable, Setup,
     Disable, Tick, Restart
<1>3. clock + Lifetime \in Nat /\ challenges \in Seq(Nat)
  BY Bounds DEF ShapeInv
<1>4. ASSUME NEW c \in DOMAIN challenges
      PROVE  c \in DOMAIN challenges' /\ challenges'[c] = challenges[c] /\ challenges[c] \in Nat
  <2>1. challenges[c] \in Nat /\ c \in 1 .. Len(challenges)
    BY <1>3
  <2>2. CASE challenges' = Append(challenges, clock + Lifetime)
    BY <1>3, <2>1, <2>2
  <2> QED
    BY <1>2, <2>1, <2>2
<1> QED
  BY <1>1, <1>4

-----------------------------------------------------------------------------
(* A challenge gives one session.                                          *)

\* Nothing but MarkUsed issues a session for a challenge.
LEMMA StepUsed == ShapeInv /\ UsedInv /\ [Next]_vars => UsedInv'
<1> SUFFICES ASSUME ShapeInv, UsedInv, [Next]_vars, NEW c \in Challenges
             PROVE  \/ logins'[c] = 0
                    \/ /\ logins'[c] = 1
                       /\ c \in DOMAIN challenges'
                       /\ c \in used' \/ clock' > challenges'[c]
  BY DEF UsedInv
<1>1. c \in DOMAIN challenges => /\ c \in DOMAIN challenges'
                                 /\ challenges'[c] = challenges[c]
                                 /\ challenges[c] \in Nat
  BY Monotone
<1>2. clock \in Nat /\ clock' \in Nat /\ clock <= clock'
  BY Monotone
<1>3. CASE logins'[c] = logins[c] /\ (used \subseteq used' \/ Kept \subseteq used')
  <2> SUFFICES ASSUME logins[c] # 0
               PROVE  logins[c] = 1 /\ c \in DOMAIN challenges'
                      /\ (c \in used' \/ clock' > challenges'[c])
    BY <1>3
  <2>1. logins[c] = 1 /\ c \in DOMAIN challenges /\ (c \in used \/ clock > challenges[c])
    BY DEF UsedInv
  <2>2. CASE clock <= challenges[c]
    <3>1. ~(clock > challenges[c])
      BY <1>1, <1>2, <2>1, <2>2
    <3>2. c \in used /\ c \in Kept
      BY <2>1, <2>2, <3>1 DEF Kept
    <3> QED
      BY <1>1, <1>3, <2>1, <3>2
  <2>3. CASE clock > challenges[c]
    BY <1>1, <1>2, <2>1, <2>3
  <2> QED
    BY <1>1, <1>2, <2>1, <2>2, <2>3
<1>4. CASE \E w \in Workers : MarkUsed(w)
  <2> PICK w \in Workers : MarkUsed(w)
    BY <1>4
  <2>1. CASE ~(Marks(c) /\ c = call[w].challenge)
    <3>1. logins'[c] = logins[c] /\ Kept \subseteq used'
      BY <2>1 DEF MarkUsed, ShapeInv
    <3> QED
      BY <1>3, <3>1
  <2>2. CASE Marks(c) /\ c = call[w].challenge
    <3>1. c \in DOMAIN challenges
      BY <2>2 DEF ShapeInv, MarkUsed, MFASteps
    <3>2. ~(clock > challenges[c]) /\ c \notin used
      BY <1>1, <1>2, <2>2, <3>1 DEF Marks, Expired, Kept
    <3>3. logins[c] = 0
      BY <3>2 DEF UsedInv
    <3>4. logins'[c] = 1 /\ c \in used'
      BY <2>2, <3>3 DEF MarkUsed, ShapeInv
    <3> QED
      BY <1>1, <3>1, <3>4
  <2> QED
    BY <2>1, <2>2
<1>5. CASE Restart
  BY <1>5 DEF Restart, Zero, Challenges
<1>6. CASE UNCHANGED <<logins, used>>
  BY <1>3, <1>6
<1>7. CASE UNCHANGED logins /\ used' = Kept
  BY <1>3, <1>7
<1> QED
  BY <1>4, <1>5, <1>6, <1>7
  DEF Next, vars, history, gate, counters, StartLogin, CheckPassword, RecordFail, Grant,
      StartMFA, IsUsed, CountAttempt, TestCode, FindCode, SpendCode, StartConfirm, Enable,
      Setup, Disable, Tick

-----------------------------------------------------------------------------
(* Every code that is compared was counted.                                *)

\* Finitely many handlers compare a code at a time.
LEMMA ComparingFinite ==
    ASSUME NEW c
    PROVE  /\ IsFiniteSet(Comparing(c)) /\ Cardinality(Comparing(c)) \in Nat
           /\ IsFiniteSet(Comparing(c)') /\ Cardinality(Comparing(c)') \in Nat
<1>1. Comparing(c) \in SUBSET Workers /\ Comparing(c)' \in SUBSET Workers
  BY DEF Comparing
<1> QED
  BY <1>1, Bounds, FS_Subset, FS_CardinalityType

CompareSteps == {"test", "find"}

\* These steps neither begin nor end a comparison.
LEMMA OthersCompareNothing ==
    ASSUME ShapeInv, NEW w \in Workers,
           \/ StartLogin(w) \/ CheckPassword(w) \/ RecordFail(w) \/ Grant(w)
           \/ \E c \in DOMAIN challenges, code \in Codes : StartMFA(w, c, code)
           \/ IsUsed(w) \/ SpendCode(w) \/ MarkUsed(w)
           \/ \E code \in Codes : StartConfirm(w, code)
           \/ Enable(w)
    PROVE  \A v \in Workers : \/ call'[v] = call[v]
                              \/ call[v].at \notin CompareSteps /\ call'[v].at \notin CompareSteps
<1> USE DEF CompareSteps, Steps
<1>0. call \in [Workers -> Frame]
  BY DEF ShapeInv
<1>1. CASE StartLogin(w) \/ CheckPassword(w) \/ RecordFail(w) \/ Grant(w)
  BY <1>0, <1>1, GotoFrame, DoneFrame DEF StartLogin, CheckPassword, RecordFail, Grant, Idle
<1>2. CASE \E c \in DOMAIN challenges, code \in Codes : StartMFA(w, c, code)
  <2> PICK c \in DOMAIN challenges, code \in Codes : StartMFA(w, c, code)
    BY <1>2
  <2> DEFINE f == [Idle EXCEPT !.at = "is_used", !.challenge = c, !.code = code]
  <2>1. f.at = "is_used" /\ Idle.at = "idle"
    BY DEF Idle
  <2>2. call' = [call EXCEPT ![w] = f] /\ call[w] = Idle
    BY DEF StartMFA
  <2> HIDE DEF f
  <2> QED
    BY <1>0, <2>1, <2>2
<1>3. CASE IsUsed(w) \/ SpendCode(w) \/ MarkUsed(w) \/ Enable(w)
  BY <1>0, <1>3, GotoFrame, DoneFrame DEF IsUsed, SpendCode, MarkUsed, Enable
<1>4. CASE \E code \in Codes : StartConfirm(w, code)
  BY <1>0, <1>4 DEF StartConfirm, Idle
<1> QED
  BY <1>1, <1>2, <1>3, <1>4

\* Only CountAttempt lets a handler compare, and only the two comparisons count as tried.
LEMMA StepCount == ShapeInv /\ CountInv /\ [Next]_vars => CountInv'
<1> SUFFICES ASSUME ShapeInv, CountInv, [Next]_vars, NEW c \in Challenges
             PROVE  /\ Counted(c)' <= MaxAttempts
                    /\ \/ Counted(c)' <= attempts'[c]
                       \/ c \in DOMAIN challenges' /\ clock' > challenges'[c]
  BY DEF CountInv
<1> DEFINE n == Cardinality(Comparing(c))
<1>1. c \in DOMAIN challenges => /\ c \in DOMAIN challenges'
                                 /\ challenges'[c] = challenges[c]
                                 /\ challenges[c] \in Nat
  BY Monotone
<1>2. clock \in Nat /\ clock' \in Nat /\ clock <= clock'
  BY Monotone
<1>3. /\ Counted(c) = tried[c] + n
      /\ Counted(c)' = tried'[c] + Cardinality(Comparing(c)')
      /\ n \in Nat /\ tried[c] \in Nat /\ attempts[c] \in Nat /\ MaxAttempts \in Nat
  BY ComparingFinite, Bounds DEF Counted, ShapeInv
<1>4. /\ Counted(c) <= MaxAttempts
      /\ Counted(c) <= attempts[c] \/ (c \in DOMAIN challenges /\ clock > challenges[c])
  BY DEF CountInv
<1>5. KeptAttempts[c] = attempts[c] \/ (c \in DOMAIN challenges /\ clock > challenges[c])
  <2>1. CASE c \in used \ Kept
    <3>1. c \in DOMAIN challenges /\ ~(clock <= challenges[c])
      BY <2>1 DEF Kept, ShapeInv
    <3> QED
      BY <1>1, <1>2, <3>1
  <2>2. CASE c \notin used \ Kept
    <3>1. attempts \in [Challenges -> Nat]
      BY DEF ShapeInv
    <3> QED
      BY <2>2, <3>1 DEF KeptAttempts
  <2> QED
    BY <2>1, <2>2
<1> HIDE DEF n
<1>6. CASE /\ Counted(c)' = Counted(c)
           /\ attempts'[c] = attempts[c] \/ attempts'[c] = KeptAttempts[c]
  BY <1>1, <1>2, <1>3, <1>4, <1>5, <1>6
<1>7. CASE \E w \in Workers : CountAttempt(w)
  <2> PICK w \in Workers : CountAttempt(w)
    BY <1>7
  <2>1. call[w].at = "count" /\ call \in [Workers -> Frame] /\ tried' = tried
    BY DEF CountAttempt, ShapeInv, history
  <2>2. call[w].challenge \in DOMAIN challenges /\ call[w].challenge \in Challenges
    BY <2>1, Issued DEF ShapeInv, MFASteps
  <2>3. attempts' = KeptAttempts \/ attempts' = [KeptAttempts EXCEPT
                                   ![call[w].challenge] = KeptAttempts[call[w].challenge] + 1]
    BY DEF CountAttempt
  <2>4. KeptAttempts \in [Challenges -> Nat]
    BY KeptShape
  <2>5. CASE Done(w)
    <3>1. Comparing(c)' = Comparing(c)
      BY <2>1, <2>5, DoneFrame DEF Comparing
    <3>2. Counted(c)' = Counted(c)
      BY <2>1, <3>1 DEF Counted
    <3>3. attempts'[c] = KeptAttempts[c] \/ attempts'[c] = KeptAttempts[c] + 1
      BY <2>3, <2>4
    <3> QED
      BY <1>1, <1>2, <1>3, <1>4, <1>5, <2>4, <3>2, <3>3
  <2>6. CASE ~Done(w) /\ c # call[w].challenge
    <3>1. Goto(w, "find") \/ Goto(w, "test")
      BY <2>6 DEF CountAttempt
    <3>2. Comparing(c)' = Comparing(c)
      BY <2>1, <2>6, <3>1, GotoFrame DEF Comparing, Steps
    <3>3. Counted(c)' = Counted(c)
      BY <2>1, <3>2 DEF Counted
    <3>4. attempts'[c] = KeptAttempts[c]
      BY <2>3, <2>4, <2>6
    <3> QED
      BY <1>6, <3>3, <3>4
  <2>7. CASE ~Done(w) /\ c = call[w].challenge
    <3>1. /\ Goto(w, "find") \/ Goto(w, "test")
          /\ ~Expired(c) /\ Allows(KeptAttempts[c] + 1)
          /\ attempts' = [KeptAttempts EXCEPT ![c] = KeptAttempts[c] + 1]
      BY <2>7 DEF CountAttempt
    <3>2. ~(clock > challenges[c])
      BY <1>1, <1>2, <2>2, <2>7, <3>1 DEF Expired
    <3>3. KeptAttempts[c] = attempts[c] /\ Counted(c) <= attempts[c]
      BY <1>4, <1>5, <3>2
    <3>4. attempts'[c] = attempts[c] + 1 /\ attempts[c] + 1 <= MaxAttempts
      BY <2>4, <3>1, <3>3 DEF Allows
    <3>5. Comparing(c)' = Comparing(c) \cup {w} /\ w \notin Comparing(c)
      BY <2>1, <2>7, <3>1, GotoFrame DEF Comparing, Steps
    <3>6. Cardinality(Comparing(c)') = n + 1
      BY <3>5, ComparingFinite, FS_AddElement DEF n
    <3>7. Counted(c)' = Counted(c) + 1
      BY <1>3, <2>1, <3>6
    <3> QED
      BY <1>3, <3>3, <3>4, <3>7
  <2> QED
    BY <2>5, <2>6, <2>7
<1>8. CASE \E w \in Workers : TestCode(w) \/ FindCode(w)
  <2> PICK w \in Workers : TestCode(w) \/ FindCode(w)
    BY <1>8
  <2>1. call[w].at \in CompareSteps /\ call \in [Workers -> Frame] /\ attempts' = attempts
    BY DEF TestCode, FindCode, ShapeInv, CompareSteps, gate
  <2>2. /\ call'[w].at \notin CompareSteps
        /\ \A v \in Workers \ {w} : call'[v] = call[v]
    <3>1. CASE TestCode(w)
      BY <2>1, <3>1, GotoFrame, DoneFrame DEF TestCode, CompareSteps, Steps
    <3>2. CASE FindCode(w)
      <4>1. CASE Done(w)
        BY <2>1, <4>1, DoneFrame DEF CompareSteps
      <4>2. CASE call' = [call EXCEPT ![w].at = "spend",
                                      ![w].codes = user.codes \ {call[w].code}]
        BY <2>1, <4>2 DEF CompareSteps, Frame
      <4> QED
        BY <3>2, <4>1, <4>2 DEF FindCode
    <3> QED
      BY <3>1, <3>2
  <2>3. tried' = [tried EXCEPT ![call[w].challenge] = tried[call[w].challenge] + 1]
    BY DEF TestCode, FindCode, Compared
  <2>4. CASE c = call[w].challenge
    <3>1. Comparing(c)' = Comparing(c) \ {w} /\ w \in Comparing(c)
      BY <2>1, <2>2, <2>4 DEF Comparing, CompareSteps
    <3>2. Cardinality(Comparing(c)') = n - 1
      BY <3>1, ComparingFinite, FS_RemoveElement DEF n
    <3>3. tried'[c] = tried[c] + 1
      BY <2>3, <2>4 DEF ShapeInv
    <3>4. Counted(c)' = Counted(c)
      BY <1>3, <3>2, <3>3
    <3> QED
      BY <1>6, <2>1, <3>4
  <2>5. CASE c # call[w].challenge
    <3>1. Comparing(c)' = Comparing(c)
      BY <2>1, <2>2, <2>5 DEF Comparing, CompareSteps
    <3>2. tried'[c] = tried[c]
      BY <2>3, <2>5 DEF ShapeInv
    <3>3. Counted(c)' = Counted(c)
      BY <1>3, <3>1, <3>2 DEF n
    <3> QED
      BY <1>6, <2>1, <3>3
  <2> QED
    BY <2>4, <2>5
<1>9. CASE Restart
  <2>1. Comparing(c)' = {}
    BY <1>9 DEF Restart, Comparing, Idle
  <2>2. Counted(c)' = 0 /\ attempts'[c] = 0
    BY <1>3, <1>9, <2>1, FS_EmptySet DEF Restart, Zero, Challenges
  <2> QED
    BY <1>3, <2>2
<1>10. CASE /\ tried' = tried
            /\ attempts' = attempts \/ attempts' = KeptAttempts
            /\ \A v \in Workers : \/ call'[v] = call[v]
                                  \/ /\ call[v].at \notin CompareSteps
                                     /\ call'[v].at \notin CompareSteps
  <2>1. Comparing(c)' = Comparing(c)
    BY <1>10 DEF Comparing, CompareSteps
  <2>2. Counted(c)' = Counted(c)
    BY <1>10, <2>1 DEF Counted
  <2> QED
    BY <1>6, <1>10, <2>2
<1>11. CASE UNCHANGED <<call, tried, attempts>>
  BY <1>10, <1>11
<1>12. CASE \E w \in Workers :
               \/ StartLogin(w) \/ CheckPassword(w) \/ RecordFail(w) \/ Grant(w)
               \/ \E ch \in DOMAIN challenges, code \in Codes : StartMFA(w, ch, code)
               \/ IsUsed(w) \/ SpendCode(w) \/ MarkUsed(w)
               \/ \E code \in Codes : StartConfirm(w, code)
               \/ Enable(w)
  <2>1. tried' = tried /\ (attempts' = attempts \/ attempts' = KeptAttempts)
    BY <1>12 DEF StartLogin, CheckPassword, RecordFail, Grant, StartMFA, IsUsed, SpendCode,
       MarkUsed, StartConfirm, Enable, history, gate
  <2> QED
    BY <1>10, <1>12, <2>1, OthersCompareNothing
<1>13. CASE Setup \/ Disable \/ Tick \/ UNCHANGED vars
  BY <1>11, <1>13 DEF Setup, Disable, Tick, vars, history, gate
<1> QED
  BY <1>7, <1>8, <1>9, <1>12, <1>13 DEF Next

-----------------------------------------------------------------------------
(* Only a verified secret is enabled.                                      *)

\* What StartConfirm verified is what Enable writes; no other step turns the flag on.
LEMMA StepVerified == ShapeInv /\ VerifiedInv /\ [Next]_vars => VerifiedInv'
<1> SUFFICES ASSUME ShapeInv, VerifiedInv, [Next]_vars PROVE VerifiedInv'
  OBVIOUS
<1> USE DEF VerifiedInv
<1>0. call \in [Workers -> Frame]
  BY DEF ShapeInv
<1>1. verified \subseteq verified'
  BY DEF Next, vars, history, StartLogin, CheckPassword, RecordFail, Grant, StartMFA, IsUsed,
     CountAttempt, TestCode, FindCode, SpendCode, MarkUsed, StartConfirm, Enable, Setup,
     Disable, Tick, Restart
<1>2. CASE \E w \in Workers, code \in Codes : StartConfirm(w, code)
  <2> PICK w \in Workers, code \in Codes : StartConfirm(w, code)
    BY <1>2
  <2> DEFINE f == [Idle EXCEPT !.at = "enable", !.secret = user.secret]
  <2>1. f.secret = user.secret
    BY DEF Idle
  <2>2. call' = [call EXCEPT ![w] = f]
    BY DEF StartConfirm
  <2>3. user' = user /\ verified' = verified \cup {user.secret}
    BY DEF StartConfirm
  <2> HIDE DEF f
  <2> QED
    BY <1>0, <2>1, <2>2, <2>3
<1>3. CASE \E w \in Workers : Enable(w)
  <2> PICK w \in Workers : Enable(w)
    BY <1>3
  <2>1. user'.secret \in verified'
    BY <1>1 DEF Enable, Enrolled
  <2>2. \A v \in Workers : call'[v].at = "enable" => call'[v] = call[v]
    BY <1>0, DoneFrame DEF Enable
  <2> QED
    BY <1>1, <2>1, <2>2
<1>4. CASE Restart
  <2>1. \A w \in Workers : call'[w].at # "enable"
    BY <1>4 DEF Restart, Idle
  <2> QED
    BY <1>1, <1>4, <2>1 DEF Restart
<1>5. ASSUME /\ \A v \in Workers : call'[v].at = "enable" => call'[v] = call[v]
             /\ user'.enabled => (user.enabled /\ user'.secret = user.secret)
      PROVE  VerifiedInv'
  BY <1>1, <1>5
<1>6. CASE \E w \in Workers : \/ StartLogin(w) \/ CheckPassword(w) \/ RecordFail(w)
                              \/ Grant(w) \/ IsUsed(w) \/ CountAttempt(w) \/ TestCode(w)
                              \/ SpendCode(w) \/ MarkUsed(w)
  <2> PICK w \in Workers : \/ StartLogin(w) \/ CheckPassword(w) \/ RecordFail(w)
                           \/ Grant(w) \/ IsUsed(w) \/ CountAttempt(w) \/ TestCode(w)
                           \/ SpendCode(w) \/ MarkUsed(w)
    BY <1>6
  <2>1. UNCHANGED call \/ Done(w) \/ \E s \in Steps \ {"enable"} : Goto(w, s)
    BY DEF StartLogin, CheckPassword, RecordFail, Grant, IsUsed, CountAttempt, TestCode,
       SpendCode, MarkUsed, Steps
  <2>2. \A v \in Workers : call'[v].at = "enable" => call'[v] = call[v]
    BY <1>0, <2>1, GotoFrame, DoneFrame
  <2>3. user' = user \/ user' = [user EXCEPT !.codes = call[w].codes]
    BY DEF StartLogin, CheckPassword, RecordFail, Grant, IsUsed, CountAttempt, TestCode,
       SpendCode, MarkUsed
  <2>4. user'.enabled => (user.enabled /\ user'.secret = user.secret)
    BY <2>3 DEF ShapeInv
  <2> QED
    BY <1>5, <2>2, <2>4
<1>7. CASE \E w \in Workers, c \in DOMAIN challenges, code \in Codes : StartMFA(w, c, code)
  <2> PICK w \in Workers, c \in DOMAIN challenges, code \in Codes : StartMFA(w, c, code)
    BY <1>7
  <2> DEFINE f == [Idle EXCEPT !.at = "is_used", !.challenge = c, !.code = code]
  <2>1. f.at = "is_used"
    BY DEF Idle
  <2>2. call' = [call EXCEPT ![w] = f] /\ user' = user
    BY DEF StartMFA
  <2> HIDE DEF f
  <2> QED
    BY <1>0, <1>5, <2>1, <2>2
<1>8. CASE \E w \in Workers : FindCode(w)
  <2> PICK w \in Workers : FindCode(w)
    BY <1>8
  <2>1. CASE Done(w)
    BY <1>0, <1>5, <2>1, DoneFrame DEF FindCode
  <2>2. CASE call' = [call EXCEPT ![w].at = "spend",
                                  ![w].codes = user.codes \ {call[w].code}]
    <3>1. call'[w].at = "spend" /\ \A v \in Workers \ {w} : call'[v] = call[v]
      BY <1>0, <2>2 DEF Frame
    <3> QED
      BY <1>5, <3>1 DEF FindCode
  <2> QED
    BY <2>1, <2>2 DEF FindCode
<1>9. CASE Setup \/ Disable
  <2>1. ~user'.enabled /\ call' = call
    BY <1>9 DEF Setup, Disable, Cleared, Unenrolled
  <2> QED
    BY <1>5, <2>1
<1>10. CASE Tick \/ UNCHANGED vars
  BY <1>5, <1>10 DEF Tick, vars
<1> QED
  BY <1>2, <1>3, <1>4, <1>6, <1>7, <1>8, <1>9, <1>10 DEF Next

-----------------------------------------------------------------------------
(* The bounds of what is made, and the failures the limiter keeps.         *)

\* A handler keeps what it remembers, is idle, has begun on a challenge that was
\* issued, or has begun to enable the secret of the row.
LEMMA CallComesFrom ==
    ASSUME ShapeInv, [Next]_vars, NEW v \in Workers
    PROVE  \/ call'[v].secret = call[v].secret /\ call'[v].challenge = call[v].challenge
           \/ call'[v].secret = 0 /\ call'[v].challenge = 0
           \/ call'[v].secret = 0 /\ call'[v].challenge \in DOMAIN challenges
           \/ call'[v].secret = user.secret /\ call'[v].challenge = 0
<1>0. /\ call \in [Workers -> Frame]
      /\ Idle.secret = 0 /\ Idle.challenge = 0
  BY DEF ShapeInv, Idle, NoSecret
<1>1. CASE \E w \in Workers : \/ StartLogin(w) \/ CheckPassword(w) \/ RecordFail(w)
                              \/ Grant(w) \/ IsUsed(w) \/ CountAttempt(w) \/ TestCode(w)
                              \/ SpendCode(w) \/ MarkUsed(w) \/ Enable(w)
  <2> PICK w \in Workers : \/ StartLogin(w) \/ CheckPassword(w) \/ RecordFail(w)
                           \/ Grant(w) \/ IsUsed(w) \/ CountAttempt(w) \/ TestCode(w)
                           \/ SpendCode(w) \/ MarkUsed(w) \/ Enable(w)
    BY <1>1
  <2>1. UNCHANGED call \/ Done(w) \/ \E s \in Steps : Goto(w, s)
    BY DEF StartLogin, CheckPassword, RecordFail, Grant, IsUsed, CountAttempt, TestCode,
       SpendCode, MarkUsed, Enable, Steps
  <2>2. CASE Done(w)
    BY <1>0, <2>2 DEF Done
  <2>3. CASE \E s \in Steps : Goto(w, s)
    BY <1>0, <2>3, GotoFrame
  <2> QED
    BY <2>1, <2>2, <2>3
<1>2. CASE \E w \in Workers, c \in DOMAIN challenges, code \in Codes : StartMFA(w, c, code)
  <2> PICK w \in Workers, c \in DOMAIN challenges, code \in Codes : StartMFA(w, c, code)
    BY <1>2
  <2> DEFINE f == [Idle EXCEPT !.at = "is_used", !.challenge = c, !.code = code]
  <2>1. f.secret = 0 /\ f.challenge = c
    BY DEF Idle, NoSecret
  <2>2. call' = [call EXCEPT ![w] = f]
    BY DEF StartMFA
  <2> HIDE DEF f
  <2> QED
    BY <1>0, <2>1, <2>2
<1>3. CASE \E w \in Workers, code \in Codes : StartConfirm(w, code)
  <2> PICK w \in Workers, code \in Codes : StartConfirm(w, code)
    BY <1>3
  <2> DEFINE f == [Idle EXCEPT !.at = "enable", !.secret = user.secret]
  <2>1. f.secret = user.secret /\ f.challenge = 0
    BY DEF Idle
  <2>2. call' = [call EXCEPT ![w] = f]
    BY DEF StartConfirm
  <2> HIDE DEF f
  <2> QED
    BY <1>0, <2>1, <2>2
<1>4. CASE \E w \in Workers : FindCode(w)
  <2> PICK w \in Workers : FindCode(w)
    BY <1>4
  <2> DEFINE f == [call[w] EXCEPT !.at = "spend", !.codes = user.codes \ {call[w].code}]
  <2>1. f.secret = call[w].secret /\ f.challenge = call[w].challenge
    BY <1>0 DEF Frame
  <2>2. Done(w) \/ call' = [call EXCEPT ![w] = f]
    BY DEF FindCode
  <2> HIDE DEF f
  <2> QED
    BY <1>0, <2>1, <2>2 DEF Done
<1>5. CASE Setup \/ Disable \/ Tick \/ UNCHANGED vars
  BY <1>5 DEF Setup, Disable, Tick, vars
<1>6. CASE Restart
  BY <1>0, <1>6 DEF Restart
<1> QED
  BY <1>1, <1>2, <1>3, <1>4, <1>5, <1>6 DEF Next

\* The limiter forgets failures, or adds one of now.
LEMMA FailsAre ==
    ASSUME ShapeInv, BoundsInv, [Next]_vars
    PROVE  /\ fails' \subseteq [at : 0 .. MaxTime, n : Nat] /\ IsFiniteSet(fails')
           /\ Cardinality(fails) \in Nat /\ Cardinality(fails') \in Nat
           /\ \/ fails' \subseteq fails /\ Cardinality(fails') <= Cardinality(fails)
              \/ /\ \E w \in Workers : RecordFail(w)
                 /\ Cardinality(fails') <= Cardinality(fails) + 1
<1>1. fails \subseteq [at : 0 .. MaxTime, n : Nat] /\ IsFiniteSet(fails)
      /\ clock \in Nat /\ clock <= MaxTime /\ MaxTime \in Nat
  BY BoundsOK DEF ShapeInv, BoundsInv
<1>2. Cardinality(fails) \in Nat
  BY <1>1, FS_CardinalityType
<1>3. Recent \in SUBSET fails
  BY DEF Recent
<1>4. /\ IsFiniteSet(Recent) /\ Cardinality(Recent) \in Nat
      /\ Cardinality(Recent) <= Cardinality(fails)
  BY <1>1, <1>3, FS_Subset, FS_CardinalityType
<1>5. CASE \E w \in Workers : RecordFail(w)
  <2> PICK w \in Workers : RecordFail(w)
    BY <1>5
  <2>1. PICK now : now = {f \in Recent : f.at = clock}
    OBVIOUS
  <2>2. now \in SUBSET Recent
    BY <2>1
  <2>3. Cardinality(now) \in Nat
    BY <1>4, <2>2, FS_Subset, FS_CardinalityType
  <2>4. PICK new : new = Fail(clock, Cardinality(now))
    OBVIOUS
  <2>5. new \in [at : 0 .. MaxTime, n : Nat]
    BY <1>1, <2>3, <2>4 DEF Fail
  <2>6. fails' = Recent \cup {new}
    BY <2>1, <2>4 DEF RecordFail
  <2>7. /\ IsFiniteSet(Recent \cup {new})
        /\ Cardinality(Recent \cup {new})
              = IF new \in Recent THEN Cardinality(Recent) ELSE Cardinality(Recent) + 1
    BY <1>4, FS_AddElement
  <2> QED
    BY <1>1, <1>2, <1>3, <1>4, <2>5, <2>6, <2>7
<1>6. CASE fails' \in {fails, Recent, {}}
  <2>1. fails' \in SUBSET fails
    BY <1>3, <1>6
  <2>2. IsFiniteSet(fails') /\ Cardinality(fails') <= Cardinality(fails)
        /\ Cardinality(fails') \in Nat
    BY <1>1, <2>1, FS_Subset, FS_CardinalityType
  <2> QED
    BY <1>1, <1>2, <2>1, <2>2
<1>7. (\E w \in Workers : RecordFail(w)) \/ fails' \in {fails, Recent, {}}
  BY DEF Next, vars, StartLogin, CheckPassword, Grant, StartMFA, IsUsed,
     CountAttempt, TestCode, FindCode, SpendCode, MarkUsed, StartConfirm, Enable, Setup,
     Disable, Tick, Restart
<1> QED
  BY <1>5, <1>6, <1>7

LEMMA StepBounds == ShapeInv /\ BoundsInv /\ [Next]_vars => BoundsInv'
<1> SUFFICES ASSUME ShapeInv, BoundsInv, [Next]_vars PROVE BoundsInv'
  OBVIOUS
<1>0. /\ clock \in Nat /\ MaxTime \in Nat /\ secrets \in Nat /\ MaxSecrets \in Nat
      /\ MaxChallenges \in Nat /\ user.secret \in Nat /\ user.secret <= secrets
      /\ \A w \in Workers : call[w].secret \in Nat /\ call[w].challenge \in Nat
      /\ secrets <= MaxSecrets /\ verified \subseteq 1 .. secrets
      /\ \A w \in Workers : call[w].secret <= secrets /\ call[w].challenge <= MaxChallenges
  BY BoundsOK DEF ShapeInv, BoundsInv, Frame
<1>1. clock' <= MaxTime
  <2>1. clock' = clock \/ (clock < MaxTime /\ clock' = clock + 1)
    BY DEF Next, vars, StartLogin, CheckPassword, RecordFail, Grant, StartMFA, IsUsed,
       CountAttempt, TestCode, FindCode, SpendCode, MarkUsed, StartConfirm, Enable, Setup,
       Disable, Tick, Restart
  <2> QED
    BY <1>0, <2>1 DEF BoundsInv
<1>2. spent' \in [AllRecoveryCodes -> Nat]
  <2>1. spent' = spent \/ \E code \in AllRecoveryCodes :
                            spent' = [spent EXCEPT ![code] = spent[code] + 1]
    <3>1. ASSUME NEW w \in Workers, MarkUsed(w)
          PROVE  spent' = spent \/ \E code \in AllRecoveryCodes :
                                      spent' = [spent EXCEPT ![code] = spent[code] + 1]
      BY <3>1 DEF MarkUsed
    <3>2. (\E w \in Workers : MarkUsed(w)) \/ spent' = spent
      BY DEF Next, vars, history, StartLogin, CheckPassword, RecordFail, Grant, StartMFA, IsUsed,
         CountAttempt, TestCode, FindCode, SpendCode, StartConfirm, Enable, Setup,
         Disable, Tick, Restart
    <3> QED
      BY <3>1, <3>2
  <2> QED
    BY <2>1 DEF BoundsInv
<1>3. /\ secrets <= secrets' /\ secrets' \in Nat /\ secrets' <= MaxSecrets
  <2>1. secrets' = secrets \/ (secrets < MaxSecrets /\ secrets' = secrets + 1)
    BY DEF Next, vars, counters, StartLogin, CheckPassword, RecordFail, Grant, StartMFA, IsUsed,
       CountAttempt, TestCode, FindCode, SpendCode, MarkUsed, StartConfirm, Enable, Setup,
       Disable, Tick, Restart
  <2> QED
    BY <1>0, <2>1
<1>4. user'.secret \in Nat /\ user'.secret <= secrets'
  <2>1. \/ user' = user
        \/ user' = [Unenrolled EXCEPT !.secret = secrets + 1] /\ secrets' = secrets + 1
        \/ user' = Unenrolled
        \/ \E w \in Workers : \/ user' = [user EXCEPT !.codes = call[w].codes]
                               \/ user' = Enrolled(call[w].secret)
    BY DEF Next, vars, StartLogin, CheckPassword, RecordFail, Grant, StartMFA, IsUsed,
       CountAttempt, TestCode, FindCode, SpendCode, MarkUsed, StartConfirm, Enable, Setup,
       Disable, Cleared, Tick, Restart
  <2>2. CASE user' = [Unenrolled EXCEPT !.secret = secrets + 1] /\ secrets' = secrets + 1
    BY <1>0, <2>2 DEF Unenrolled
  <2>3. CASE user' = Unenrolled
    BY <1>0, <1>3, <2>3 DEF Unenrolled, NoSecret
  <2>4. ASSUME NEW w \in Workers, user' = [user EXCEPT !.codes = call[w].codes]
        PROVE  user'.secret = user.secret
    BY <2>4 DEF ShapeInv
  <2>5. ASSUME NEW w \in Workers, user' = Enrolled(call[w].secret)
        PROVE  user'.secret = call[w].secret
    BY <2>5 DEF Enrolled
  <2> QED
    BY <1>0, <1>3, <2>1, <2>2, <2>3, <2>4, <2>5
<1>5. verified' \subseteq 1 .. secrets'
  <2>1. verified' = verified \/ (user.secret # NoSecret /\ verified' = verified \cup {user.secret})
    BY DEF Next, vars, history, StartLogin, CheckPassword, RecordFail, Grant, StartMFA, IsUsed,
       CountAttempt, TestCode, FindCode, SpendCode, MarkUsed, StartConfirm, Enable, Setup,
       Disable, Tick, Restart
  <2>2. 1 .. secrets \subseteq 1 .. secrets'
    BY <1>0, <1>3
  <2>3. user.secret # NoSecret => user.secret \in 1 .. secrets
    BY <1>0 DEF NoSecret
  <2>4. verified \subseteq 1 .. secrets'
    BY <2>2 DEF BoundsInv
  <2>5. CASE verified' = verified
    BY <2>4, <2>5
  <2>6. CASE user.secret # NoSecret /\ verified' = verified \cup {user.secret}
    BY <2>2, <2>3, <2>4, <2>6
  <2> QED
    BY <2>1, <2>5, <2>6
<1>6. ASSUME NEW v \in Workers
      PROVE  call'[v].secret <= secrets' /\ call'[v].challenge <= MaxChallenges
  <2>1. DOMAIN challenges \subseteq Challenges
    BY Issued
  <2> QED
    BY <1>0, <1>3, <2>1, CallComesFrom DEF Challenges
<1> QED
  BY <1>1, <1>2, <1>3, <1>4, <1>5, <1>6, FailsAre DEF BoundsInv

\* Handlers are let through while fewer than MaxFails are kept, and each of them
\* records one failure at most.
LEMMA StepFails == ShapeInv /\ BoundsInv /\ FailsInv /\ [Next]_vars => FailsInv'
<1> SUFFICES ASSUME ShapeInv, BoundsInv, FailsInv, [Next]_vars PROVE FailsInv'
  OBVIOUS
<1>0. /\ call \in [Workers -> Frame] /\ MaxFails \in Nat \ {0}
      /\ IsFiniteSet(fails) /\ IsFiniteSet(Workers) /\ Cardinality(Workers) \in Nat
  BY BoundsOK, FS_CardinalityType DEF ShapeInv, BoundsInv
<1>1. /\ Failing \in SUBSET Workers /\ Failing' \in SUBSET Workers
  BY DEF Failing
<1>2. /\ IsFiniteSet(Failing) /\ IsFiniteSet(Failing')
      /\ Cardinality(Failing) \in Nat /\ Cardinality(Failing') \in Nat
      /\ Cardinality(Failing') <= Cardinality(Workers)
  BY <1>0, <1>1, FS_Subset, FS_CardinalityType
<1>3. /\ Cardinality(fails) \in Nat /\ Cardinality(fails') \in Nat
      /\ \/ Cardinality(fails') <= Cardinality(fails)
         \/ /\ \E w \in Workers : RecordFail(w)
            /\ Cardinality(fails') <= Cardinality(fails) + 1
  BY FailsAre
<1>4. CASE \E w \in Workers : RecordFail(w)
  <2> PICK w \in Workers : RecordFail(w)
    BY <1>4
  <2>1. call[w].at = "record_fail" /\ Done(w)
    BY DEF RecordFail
  <2>2. Failing' = Failing \ {w} /\ w \in Failing
    BY <1>0, <2>1, DoneFrame DEF Failing, FailSteps
  <2>3. Cardinality(Failing') = Cardinality(Failing) - 1
    BY <1>2, <2>2, FS_RemoveElement
  <2> QED
    BY <1>0, <1>2, <1>3, <2>3 DEF FailsInv
<1>5. CASE \E w \in Workers : StartLogin(w)
  <2> PICK w \in Workers : StartLogin(w)
    BY <1>5
  <2>1. Cardinality(Recent) \in Nat
    <3>1. Recent \in SUBSET fails
      BY DEF Recent
    <3> QED
      BY <1>0, <3>1, FS_Subset, FS_CardinalityType
  <2>2. CASE Locked(Cardinality(Recent))
    <3>1. call' = call /\ fails' = Recent
      BY <2>2 DEF StartLogin
    <3>2. Failing' = Failing
      BY <3>1 DEF Failing
    <3>3. Cardinality(fails') <= Cardinality(fails)
      <4>1. Recent \in SUBSET fails
        BY DEF Recent
      <4> QED
        BY <1>0, <3>1, <4>1, FS_Subset
    <3> QED
      BY <1>0, <1>2, <1>3, <3>2, <3>3 DEF FailsInv
  <2>3. CASE ~Locked(Cardinality(Recent))
    <3>1. fails' = Recent /\ Cardinality(Recent) < MaxFails
      BY <1>0, <2>1, <2>3 DEF StartLogin, Locked
    <3> QED
      BY <1>0, <1>2, <2>1, <3>1 DEF FailsInv
  <2> QED
    BY <2>2, <2>3
<1>6. ASSUME \A v \in Workers : call'[v].at \in FailSteps => call[v].at \in FailSteps,
             ~\E w \in Workers : RecordFail(w)
      PROVE  FailsInv'
  <2>1. Failing' \in SUBSET Failing
    BY <1>6 DEF Failing
  <2>2. Cardinality(Failing') <= Cardinality(Failing)
    BY <1>2, <2>1, FS_Subset
  <2> QED
    BY <1>0, <1>2, <1>3, <1>6, <2>2 DEF FailsInv
<1>7. CASE \E w \in Workers : \/ CheckPassword(w) \/ Grant(w) \/ IsUsed(w) \/ CountAttempt(w)
                              \/ TestCode(w) \/ SpendCode(w) \/ MarkUsed(w) \/ Enable(w)
  <2> PICK w \in Workers : \/ CheckPassword(w) \/ Grant(w) \/ IsUsed(w) \/ CountAttempt(w)
                           \/ TestCode(w) \/ SpendCode(w) \/ MarkUsed(w) \/ Enable(w)
    BY <1>7
  <2>1. \/ Done(w)
        \/ \E s \in Steps \ FailSteps : Goto(w, s)
        \/ Goto(w, "record_fail") /\ call[w].at = "password"
    BY DEF CheckPassword, Grant, IsUsed, CountAttempt, TestCode, SpendCode, MarkUsed, Enable,
       Steps, FailSteps
  <2>2. \A v \in Workers : call'[v].at \in FailSteps => call[v].at \in FailSteps
    BY <1>0, <2>1, GotoFrame, DoneFrame DEF FailSteps, Steps
  <2> QED
    BY <1>4, <1>6, <2>2
<1>8. CASE \E w \in Workers, c \in DOMAIN challenges, code \in Codes : StartMFA(w, c, code)
  <2> PICK w \in Workers, c \in DOMAIN challenges, code \in Codes : StartMFA(w, c, code)
    BY <1>8
  <2> DEFINE f == [Idle EXCEPT !.at = "is_used", !.challenge = c, !.code = code]
  <2>1. f.at = "is_used"
    BY DEF Idle
  <2>2. call' = [call EXCEPT ![w] = f]
    BY DEF StartMFA
  <2> HIDE DEF f
  <2>3. \A v \in Workers : call'[v].at \in FailSteps => call[v].at \in FailSteps
    BY <1>0, <2>1, <2>2 DEF FailSteps
  <2> QED
    BY <1>4, <1>6, <2>3
<1>9. CASE \E w \in Workers, code \in Codes : StartConfirm(w, code)
  <2> PICK w \in Workers, code \in Codes : StartConfirm(w, code)
    BY <1>9
  <2> DEFINE f == [Idle EXCEPT !.at = "enable", !.secret = user.secret]
  <2>1. f.at = "enable"
    BY DEF Idle
  <2>2. call' = [call EXCEPT ![w] = f]
    BY DEF StartConfirm
  <2> HIDE DEF f
  <2>3. \A v \in Workers : call'[v].at \in FailSteps => call[v].at \in FailSteps
    BY <1>0, <2>1, <2>2 DEF FailSteps
  <2> QED
    BY <1>4, <1>6, <2>3
<1>10. CASE \E w \in Workers : FindCode(w)
  <2> PICK w \in Workers : FindCode(w)
    BY <1>10
  <2> DEFINE f == [call[w] EXCEPT !.at = "spend", !.codes = user.codes \ {call[w].code}]
  <2>1. f.at = "spend"
    BY <1>0 DEF Frame
  <2>2. Done(w) \/ call' = [call EXCEPT ![w] = f]
    BY DEF FindCode
  <2> HIDE DEF f
  <2>3. \A v \in Workers : call'[v].at \in FailSteps => call[v].at \in FailSteps
    BY <1>0, <2>1, <2>2, DoneFrame DEF FailSteps
  <2> QED
    BY <1>4, <1>6, <2>3
<1>11. CASE Setup \/ Disable \/ Tick \/ UNCHANGED vars
  <2>1. \A v \in Workers : call'[v].at \in FailSteps => call[v].at \in FailSteps
    BY <1>11 DEF Setup, Disable, Tick, vars
  <2> QED
    BY <1>4, <1>6, <2>1
<1>12. CASE Restart
  <2>1. \A v \in Workers : call'[v].at \in FailSteps => call[v].at \in FailSteps
    BY <1>12 DEF Restart, Idle, FailSteps
  <2> QED
    BY <1>4, <1>6, <2>1
<1> QED
  BY <1>4, <1>5, <1>7, <1>8, <1>9, <1>10, <1>11, <1>12 DEF Next

-----------------------------------------------------------------------------
(* Theorems.                                                               *)

\* What the server relies on holds of every reachable state.
THEOREM Invariant == Spec => []IInv
<1>1. Init => IInv
  <2>1. ASSUME Init PROVE UsedInv
    BY <2>1 DEF Init, UsedInv, Zero, Challenges
  <2>2. ASSUME Init PROVE CountInv
    <3>1. ASSUME NEW c \in Challenges PROVE Counted(c) = 0
      <4>1. Comparing(c) = {}
        BY <2>2 DEF Init, Comparing, Idle
      <4> QED
        BY <2>2, <4>1, FS_EmptySet DEF Init, Counted, Zero, Challenges
    <3> QED
      BY <2>2, <3>1, Bounds DEF Init, CountInv, Zero, Challenges
  <2>3. ASSUME Init PROVE VerifiedInv
    BY <2>3 DEF Init, VerifiedInv, Unenrolled, Idle
  <2>4. ASSUME Init PROVE BoundsInv
    <3>1. user.secret <= secrets /\ secrets <= MaxSecrets /\ verified \subseteq 1 .. secrets
      BY <2>4, BoundsOK DEF Init, Unenrolled, NoSecret
    <3>2. \A w \in Workers : call[w].secret = 0 /\ call[w].challenge = 0
      BY <2>4 DEF Init, Idle, NoSecret
    <3>3. spent \in [AllRecoveryCodes -> Nat]
      BY <2>4 DEF Init
    <3>4. clock = 0 /\ fails = {} /\ secrets \in Nat
      BY <2>4 DEF Init
    <3> QED
      BY <3>1, <3>2, <3>3, <3>4, BoundsOK, FS_EmptySet DEF BoundsInv
  <2>5. ASSUME Init PROVE FailsInv
    <3>1. Failing = {} /\ fails = {}
      BY <2>5 DEF Init, Failing, FailSteps, Idle
    <3>2. Cardinality(Workers) \in Nat /\ MaxFails \in Nat \ {0}
      BY BoundsOK, FS_CardinalityType
    <3> QED
      BY <3>1, <3>2, FS_EmptySet DEF FailsInv
  <2> QED
    BY <2>1, <2>2, <2>3, <2>4, <2>5, InitShape DEF IInv
<1>2. IInv /\ [Next]_vars => IInv'
  BY StepShape, StepUsed, StepCount, StepVerified, StepBounds, StepFails DEF IInv
<1> QED
  BY <1>1, <1>2, PTL DEF Spec

\* While the server runs, a challenge is good for one session, whoever presents
\* it at the same time and whenever the gate forgets it.
THEOREM OneSessionPerChallenge == Spec => []ChallengeUsedOnce
<1>1. IInv => ChallengeUsedOnce
  BY DEF IInv, UsedInv, ChallengeUsedOnce
<1> QED
  BY <1>1, Invariant, PTL

\* While the server runs, no more codes are compared for a challenge than the
\* gate allows.
THEOREM ComparisonsAreBounded == Spec => []AttemptsBounded
<1>1. IInv => AttemptsBounded
  <2> SUFFICES ASSUME IInv, NEW c \in Challenges PROVE tried[c] <= MaxAttempts
    BY DEF AttemptsBounded
  <2>1. Counted(c) <= MaxAttempts
    BY DEF IInv, CountInv
  <2>2. tried[c] \in Nat /\ MaxAttempts \in Nat /\ Cardinality(Comparing(c)) \in Nat
    BY ComparingFinite, Bounds DEF IInv, ShapeInv
  <2> QED
    BY <2>1, <2>2 DEF Counted
<1> QED
  BY <1>1, Invariant, PTL

\* The second factor is only ever on with a secret that was verified.
THEOREM EnabledIsVerified == Spec => []EnabledWasVerified
<1>1. IInv => EnabledWasVerified
  BY DEF IInv, VerifiedInv, EnabledWasVerified
<1> QED
  BY <1>1, Invariant, PTL

\* Requests that were let through together may fail together, and no others: the
\* limiter keeps fewer failures than its limit and one per handler.
THEOREM FailuresAreBounded == Spec => []FailsBounded
<1>1. IInv => FailsBounded
  <2> SUFFICES ASSUME IInv PROVE FailsBounded
    OBVIOUS
  <2>1. Failing \in SUBSET Workers /\ IsFiniteSet(Workers) /\ IsFiniteSet(fails)
    BY BoundsOK DEF Failing, IInv, BoundsInv
  <2>2. /\ Cardinality(Failing) \in Nat /\ Cardinality(Workers) \in Nat
        /\ Cardinality(fails) \in Nat /\ MaxFails \in Nat
    BY <2>1, BoundsOK, FS_Subset, FS_CardinalityType
  <2> QED
    BY <2>2 DEF IInv, FailsInv, FailsBounded
<1> QED
  BY <1>1, Invariant, PTL

\* The row, the server's memory and the requests have their types, and a second
\* factor that is on has a secret.
THEOREM LoginTypes == Spec => []TypeOK
<1>1. IInv => TypeOK
  <2> SUFFICES ASSUME IInv PROVE TypeOK
    OBVIOUS
  <2>1. ShapeInv /\ BoundsInv /\ VerifiedInv
    BY DEF IInv
  <2>2. /\ secrets \in Nat /\ secrets <= MaxSecrets /\ MaxSecrets \in Nat
        /\ MaxChallenges \in Nat /\ MaxTime \in Nat
    BY <2>1, BoundsOK DEF ShapeInv, BoundsInv
  <2>3. verified \subseteq 1 .. secrets
    BY <2>1 DEF BoundsInv
  <2>4. /\ user \in [secret : Secrets \cup {NoSecret}, enabled : BOOLEAN,
                     codes : SUBSET AllRecoveryCodes]
        /\ user.enabled => user.secret # NoSecret
    <3>1. user \in [secret : Nat, enabled : BOOLEAN, codes : SUBSET AllRecoveryCodes]
      BY <2>1 DEF ShapeInv
    <3>2. user.secret \in Secrets \cup {NoSecret}
      BY <2>1, <2>2, <3>1 DEF BoundsInv, Secrets, NoSecret
    <3>3. user.enabled => user.secret # NoSecret
      BY <2>1, <2>2, <2>3 DEF VerifiedInv, NoSecret
    <3> QED
      BY <3>1, <3>2, <3>3
  <2>5. call \in [Workers -> Call]
    <3>1. call \in [Workers -> Frame]
      BY <2>1 DEF ShapeInv
    <3>2. ASSUME NEW w \in Workers PROVE call[w] \in Call
      <4>1. call[w] \in Frame
        BY <3>1
      <4>2. /\ call[w].secret \in Secrets \cup {NoSecret}
            /\ call[w].challenge \in 0 .. MaxChallenges
        BY <2>1, <2>2, <4>1 DEF BoundsInv, Frame, Secrets, NoSecret
      <4> QED
        BY <4>1, <4>2 DEF Frame, Call
    <3> QED
      BY <3>1, <3>2
  <2> QED
    BY <2>1, <2>2, <2>3, <2>4, <2>5 DEF ShapeInv, BoundsInv, TypeOK
<1> QED
  BY <1>1, Invariant, PTL
=============================================================================

----------------------------- MODULE PageProofs -----------------------------
(* The pages of the console, for any number of requests and any order of    *)
(* their answers: security, detail, users, Peppol, inbox and branding, what *)
(* they say together, the types of all, and each page within the console.   *)
EXTENDS MCConsole, SessionProofs, InvoiceFormProofs, NewInvoiceProofs, LicenseProofs,
        FiniteSetTheorems, TLAPS

-----------------------------------------------------------------------------
(* The security page.                                                       *)

SecKinds == {"refresh", "after", "setup", "confirm", "remove"}
SecRequests == [n : Nat, kind : SecKinds, secret : Nat, since : {"on", "off"}, dirty : BOOLEAN]
SecServers == [secret : Nat, on : BOOLEAN, made : Nat]
SecViews == [setup : Nat, recovery : Nat, removing : BOOLEAN, busy : BOOLEAN]

SecShape ==
    /\ secServer \in SecServers
    /\ secView \in SecViews
    /\ secReqs \subseteq SecRequests
    /\ secSent \in Nat
    /\ secTold \in Nat

\* What a request found before the server changed is marked as out of date, and
\* unless the page's user came from such a request, it is the server's.
SecKnown ==
    /\ \A r \in secReqs : r.dirty \/ r.since = SecStatus(secServer)
    /\ secStale \/ secUser \in {"nobody", "open"} \/ secUser = SecStatus(secServer)

\* Codes put away by nobody are still the page's, shown or not, unless AppShell took
\* the page away.
SecKept == secTold # NoCodes => secView.recovery = secTold \/ secLost

SecInv == SecShape /\ SecKnown /\ SecKept

LEMMA StatusIs ==
    ASSUME NEW server
    PROVE  SecStatus(server) \in {"on", "off"}
  BY DEF SecStatus

\* What is sent together with a new request is of the server as it is after the step.
LEMMA SentIs ==
    ASSUME NEW reqs \in SUBSET SecRequests, NEW kind \in SecKinds, NEW secret \in Nat,
           secSent \in Nat, SecSend(reqs, kind, secret),
           \A r \in reqs : r.dirty \/ r.since = SecStatus(secServer')
    PROVE  /\ secReqs' \subseteq SecRequests /\ secSent' \in Nat
           /\ \A r \in secReqs' : r.dirty \/ r.since = SecStatus(secServer')
  <1> DEFINE new == [n |-> secSent + 1, kind |-> kind, secret |-> secret,
                     since |-> SecStatus(secServer'), dirty |-> FALSE]
  <1>1. secSent + 1 \in Nat /\ SecStatus(secServer') \in {"on", "off"}
    BY StatusIs
  <1>2. new \in SecRequests /\ new.since = SecStatus(secServer')
    BY <1>1 DEF SecRequests
  <1>3. secReqs' = reqs \cup {new} /\ secSent' = secSent + 1
    BY DEF SecSend
  <1> HIDE DEF new
  <1>4. QED
    BY <1>1, <1>2, <1>3

LEMMA OutdatedIs ==
    ASSUME NEW reqs \in SUBSET SecRequests
    PROVE  SecOutdated(reqs) \in SUBSET SecRequests /\ \A r \in SecOutdated(reqs) : r.dirty
  <1>1. ASSUME NEW r \in reqs
        PROVE  [r EXCEPT !.dirty = TRUE] \in SecRequests /\ [r EXCEPT !.dirty = TRUE].dirty
    BY DEF SecRequests
  <1>2. QED
    BY <1>1 DEF SecOutdated

LEMMA RefreshesAre ==
    ASSUME SecShape
    PROVE  Refreshes \in SUBSET SecRequests
  <1>1. ASSUME NEW r \in secReqs
        PROVE  [r EXCEPT !.kind = "refresh"] \in SecRequests
    BY DEF SecShape, SecRequests, SecKinds
  <1>2. QED
    BY <1>1 DEF Refreshes

LEMMA NewSecretIs ==
    ASSUME SecShape, NewSecret
    PROVE  secServer' \in SecServers
  <1>1. secServer.made + 1 \in Nat
    BY DEF SecShape, SecServers
  <1>2. QED
    BY <1>1 DEF NewSecret, SecServers

LEMMA SwitchedIs ==
    ASSUME SecShape,
           \/ NewSecret
           \/ secServer' = [secServer EXCEPT !.on = TRUE]
           \/ secServer' = [secServer EXCEPT !.secret = 0, !.on = FALSE]
    PROVE  secServer' \in SecServers
  <1>1. secServer \in SecServers
    BY DEF SecShape
  <1>2. CASE NewSecret
    BY <1>2, NewSecretIs
  <1>3. CASE secServer' = [secServer EXCEPT !.on = TRUE]
    BY <1>1, <1>3 DEF SecServers
  <1>4. CASE secServer' = [secServer EXCEPT !.secret = 0, !.on = FALSE]
    BY <1>1, <1>4 DEF SecServers
  <1>5. QED
    BY <1>2, <1>3, <1>4

LEMMA InitSecurity == SecurityInit => SecInv
  <1> SUFFICES ASSUME SecurityInit
               PROVE  SecInv
    OBVIOUS
  <1>1. secServer \in SecServers /\ SecStatus(secServer) = "off"
    BY DEF SecurityInit, SecServers, SecStatus
  <1>2. secView \in SecViews
    BY DEF SecurityInit, EmptySecView, NoCodes, SecViews
  <1>3. secReqs \subseteq SecRequests /\ \A r \in secReqs : r.since = "off"
    BY DEF SecurityInit, SecRequests, SecKinds
  <1>4. secSent \in Nat /\ secTold = 0 /\ secUser = "off"
    BY DEF SecurityInit, NoCodes
  <1>5. QED
    BY <1>1, <1>2, <1>3, <1>4 DEF SecInv, SecShape, SecKnown, SecKept, NoCodes

\* A step of the user that leaves the server alone and sends a request.
LEMMA AskingKeeps ==
    ASSUME SecInv, UNCHANGED secServer,
           \/ UNCHANGED <<secUser, secStale>>
           \/ secUser' = SecStatus(secServer),
           NEW reqs \in SUBSET SecRequests, \A r \in reqs : r.dirty \/ r \in secReqs,
           NEW kind \in SecKinds, NEW secret \in Nat, SecSend(reqs, kind, secret),
           secView' \in SecViews, secTold' \in Nat, SecKept'
    PROVE  SecInv'
  <1>1. \A r \in reqs : r.dirty \/ r.since = SecStatus(secServer')
    BY DEF SecInv, SecKnown
  <1>2. /\ secReqs' \subseteq SecRequests /\ secSent' \in Nat
        /\ \A r \in secReqs' : r.dirty \/ r.since = SecStatus(secServer')
    BY <1>1, SentIs DEF SecInv, SecShape
  <1>3. QED
    BY <1>2 DEF SecInv, SecShape, SecKnown

LEMMA UserKeeps ==
    ASSUME SecInv,
           \/ RefreshAgain \/ LeaveSecurity \/ SentToLogin \/ StartSetup \/ ConfirmSetup
           \/ RemoveFactor \/ \E r \in secReqs : SecUnauthorized(r)
    PROVE  SecInv'
  <1>1. /\ secView \in SecViews /\ secTold \in Nat /\ secReqs \in SUBSET SecRequests
        /\ secView.setup \in Nat
    BY DEF SecInv, SecShape, SecViews
  <1>2. CASE RefreshAgain
    <2>1. SecOutdated(secReqs) \in SUBSET SecRequests /\ \A r \in SecOutdated(secReqs) : r.dirty
      BY <1>1, OutdatedIs
    <2>2. QED
      BY <1>1, <1>2, <2>1, AskingKeeps DEF RefreshAgain, SecKinds, SecInv, SecKept
  <1>3. CASE LeaveSecurity
    <2>1. /\ SecOutdated(Refreshes) \in SUBSET SecRequests
          /\ \A r \in SecOutdated(Refreshes) : r.dirty
      BY RefreshesAre, OutdatedIs DEF SecInv
    <2>2. EmptySecView \in SecViews
      BY DEF EmptySecView, NoCodes, SecViews
    <2>3. QED
      BY <1>3, <2>1, <2>2, AskingKeeps DEF LeaveSecurity, SecKinds, NoCodes, SecKept
  <1>4. CASE StartSetup
    <2>1. secView' \in SecViews
      BY <1>1, <1>4 DEF StartSetup, NoCodes, SecViews
    <2>2. QED
      BY <1>1, <1>4, <2>1, AskingKeeps DEF StartSetup, SecKinds, NoCodes, SecKept
  <1>5. CASE ConfirmSetup \/ RemoveFactor
    <2>1. secView' \in SecViews /\ secView'.recovery = secView.recovery
      BY <1>1, <1>5 DEF ConfirmSetup, RemoveFactor, SecViews
    <2>2. SecKept'
      BY <1>5, <2>1 DEF ConfirmSetup, RemoveFactor, SecInv, SecKept
    <2>3. QED
      BY <1>1, <1>5, <2>1, <2>2, AskingKeeps DEF ConfirmSetup, RemoveFactor, SecKinds
  <1>6. CASE SentToLogin \/ \E r \in secReqs : SecUnauthorized(r)
    <2>1. /\ SecOutdated(Refreshes) \in SUBSET SecRequests
          /\ \A r \in SecOutdated(Refreshes) : r.dirty
      BY RefreshesAre, OutdatedIs DEF SecInv
    <2>2. EmptySecView \in SecViews
      BY DEF EmptySecView, NoCodes, SecViews
    <2>3. TakenAway /\ (UNCHANGED <<secUser, secStale>> \/ secUser' = SecStatus(secServer))
      BY <1>6 DEF SentToLogin, SecUnauthorized
    <2>4. QED
      BY <1>1, <2>1, <2>2, <2>3, AskingKeeps DEF TakenAway, SecKinds, SecKept
  <1>7. QED
    BY <1>2, <1>3, <1>4, <1>5, <1>6

LEMMA DialogKeeps ==
    ASSUME SecInv, CloseDialogs \/ AskRemove
    PROVE  SecInv'
  <1>1. secView' \in SecViews /\ secView'.recovery = secView.recovery
    <2>1. secView \in SecViews
      BY DEF SecInv, SecShape
    <2>2. \/ secView' = [secView EXCEPT !.setup = 0, !.removing = FALSE]
          \/ secView' = [secView EXCEPT !.removing = TRUE]
      BY DEF CloseDialogs, AskRemove
    <2>3. CASE secView' = [secView EXCEPT !.setup = 0, !.removing = FALSE]
      BY <2>1, <2>3 DEF SecViews
    <2>4. CASE secView' = [secView EXCEPT !.removing = TRUE]
      BY <2>1, <2>4 DEF SecViews
    <2>5. QED
      BY <2>2, <2>3, <2>4
  <1>2. UNCHANGED <<secServer, secUser, secReqs, secSent, secTold, secLost, secStale>>
    BY DEF CloseDialogs, AskRemove
  <1>3. QED
    BY <1>1, <1>2 DEF SecInv, SecShape, SecKnown, SecKept

\* A step that changes the server marks what others were asked before, and the
\* page's user, as out of date.
LEMMA ChangeKeeps ==
    ASSUME SecInv, NEW reqs \in SUBSET SecRequests, secServer' \in SecServers, secStale',
           \/ secReqs' = SecOutdated(reqs) /\ UNCHANGED secSent
           \/ SecSend(SecOutdated(reqs), "after", 0),
           secView' \in SecViews, secTold' \in Nat, SecKept'
    PROVE  SecInv'
  <1>1. SecOutdated(reqs) \in SUBSET SecRequests /\ \A r \in SecOutdated(reqs) : r.dirty
    BY OutdatedIs
  <1>2. /\ secReqs' \subseteq SecRequests /\ secSent' \in Nat
        /\ \A r \in secReqs' : r.dirty \/ r.since = SecStatus(secServer')
    BY <1>1, SentIs DEF SecInv, SecShape, SecKinds
  <1>3. QED
    BY <1>2 DEF SecInv, SecShape, SecKnown

LEMMA AnswerKeeps ==
    ASSUME SecInv, NEW r \in secReqs, SetUp(r) \/ Confirmed(r) \/ FactorRemoved(r)
    PROVE  SecInv'
  <1>1. /\ SecOthers(r) \in SUBSET SecRequests /\ secServer \in SecServers
        /\ secView \in SecViews /\ secTold \in Nat /\ r.secret \in Nat
    BY DEF SecInv, SecShape, SecOthers, SecRequests
  <1>2. CASE SetUp(r)
    <2>1. secServer' \in SecServers
      BY <1>2, NewSecretIs DEF SetUp, SecInv
    <2>2. secServer'.secret \in Nat
      BY <2>1 DEF SecServers
    <2>3. secView' \in SecViews /\ secView'.recovery = secView.recovery
      BY <1>1, <1>2, <2>2 DEF SetUp, SecViews
    <2>4. SecKept' /\ secTold' \in Nat
      BY <1>1, <1>2, <2>3 DEF SetUp, SecInv, SecKept
    <2>5. QED
      BY <1>1, <1>2, <2>1, <2>3, <2>4, ChangeKeeps DEF SetUp
  <1>3. CASE Confirmed(r)
    <2>1. secServer' \in SecServers
      BY <1>1, <1>3 DEF Confirmed, SecServers
    <2>2. ConfirmAnswers(r) \in Nat
      BY <1>1 DEF ConfirmAnswers, NoCodes
    <2>3. secView' \in SecViews /\ secView'.recovery = ConfirmAnswers(r)
      BY <1>1, <1>3, <2>2 DEF Confirmed, SecViews
    <2>4. SecKept' /\ secTold' \in Nat
      BY <1>3, <2>2, <2>3 DEF Confirmed, SecKept
    <2>5. QED
      BY <1>1, <1>3, <2>1, <2>3, <2>4, ChangeKeeps DEF Confirmed
  <1>4. CASE FactorRemoved(r)
    <2>1. secServer' \in SecServers
      BY <1>1, <1>4 DEF FactorRemoved, SecServers
    <2>2. secView' \in SecViews
      BY <1>1, <1>4 DEF FactorRemoved, SecViews, NoCodes
    <2>3. SecKept' /\ secTold' \in Nat
      BY <1>4 DEF FactorRemoved, SecKept, NoCodes
    <2>4. QED
      BY <1>1, <1>4, <2>1, <2>2, <2>3, ChangeKeeps DEF FactorRemoved
  <1>5. QED
    BY <1>2, <1>3, <1>4

LEMMA FailureKeeps ==
    ASSUME SecInv, NEW r \in secReqs, SecFails(r)
    PROVE  SecInv'
  <1>1. /\ SecOthers(r) \in SUBSET SecRequests /\ secServer \in SecServers
        /\ secView \in SecViews /\ secTold \in Nat
    BY DEF SecInv, SecShape, SecOthers
  <1>2. /\ secView' \in SecViews /\ secView'.recovery = secView.recovery
        /\ UNCHANGED <<secUser, secSent, secTold, secLost>>
    BY <1>1 DEF SecFails, SecViews
  <1>3. SecKept'
    BY <1>2 DEF SecInv, SecKept
  <1>4. CASE UNCHANGED secServer /\ secReqs' = SecOthers(r) /\ UNCHANGED secStale
    BY <1>1, <1>2, <1>3, <1>4 DEF SecInv, SecShape, SecKnown, SecOthers
  <1>5. CASE ~(UNCHANGED secServer /\ secReqs' = SecOthers(r) /\ UNCHANGED secStale)
    <2>1. secReqs' = SecOutdated(SecOthers(r)) /\ secStale'
      BY <1>5 DEF SecFails
    <2>2. \/ NewSecret
          \/ secServer' = [secServer EXCEPT !.on = TRUE]
          \/ secServer' = [secServer EXCEPT !.secret = 0, !.on = FALSE]
      BY <1>5 DEF SecFails
    <2>3. secServer' \in SecServers
      BY <2>2, SwitchedIs DEF SecInv
    <2>4. QED
      BY <1>1, <1>2, <1>3, <2>1, <2>3, ChangeKeeps
  <1>6. QED
    BY <1>4, <1>5

LEMMA ElsewhereKeeps ==
    ASSUME SecInv, Elsewhere
    PROVE  SecInv'
  <1>1. /\ secReqs \in SUBSET SecRequests /\ secServer \in SecServers
        /\ secView \in SecViews /\ secTold \in Nat
    BY DEF SecInv, SecShape
  <1>2. \/ NewSecret
        \/ secServer' = [secServer EXCEPT !.on = TRUE]
        \/ secServer' = [secServer EXCEPT !.secret = 0, !.on = FALSE]
    BY DEF Elsewhere
  <1>3. secServer' \in SecServers
    BY <1>2, SwitchedIs DEF SecInv
  <1>4. /\ secReqs' = SecOutdated(secReqs) /\ secStale'
        /\ UNCHANGED <<secView, secSent, secTold, secLost>>
    BY DEF Elsewhere
  <1>5. SecKept'
    BY <1>4 DEF SecInv, SecKept
  <1>6. QED
    BY <1>1, <1>3, <1>4, <1>5, ChangeKeeps

LEMMA RefreshedKeeps ==
    ASSUME SecInv, NEW r \in secReqs, SecRefreshed(r)
    PROVE  SecInv'
  <1>1. secView' \in SecViews /\ secView'.recovery = secView.recovery
    BY DEF SecRefreshed, ViewAfterRefresh, SecInv, SecShape, SecViews
  <1>2. /\ secReqs' = SecOthers(r) /\ secStale' = r.dirty
        /\ secUser' \in {r.since, SecStatus(secServer), "nobody", "open"}
        /\ UNCHANGED <<secServer, secSent, secTold, secLost>>
    BY DEF SecRefreshed
  <1>3. r.dirty \/ r.since = SecStatus(secServer)
    BY DEF SecInv, SecKnown
  <1>4. SecKnown'
    BY <1>2, <1>3 DEF SecInv, SecKnown, SecOthers
  <1>5. QED
    BY <1>1, <1>2, <1>4 DEF SecInv, SecShape, SecKept, SecOthers

LEMMA NextKeepsSecurity == SecInv /\ [SecurityNext]_secVars => SecInv'
  <1> SUFFICES ASSUME SecInv, [SecurityNext]_secVars
               PROVE  SecInv'
    OBVIOUS
  <1>1. CASE UNCHANGED secVars
    BY <1>1 DEF secVars, SecInv, SecShape, SecKnown, SecKept
  <1>2. CASE SecurityNext
    BY <1>2, UserKeeps, DialogKeeps, AnswerKeeps, FailureKeeps, ElsewhereKeeps, RefreshedKeeps
    DEF SecurityNext
  <1>3. QED
    BY <1>1, <1>2

\* SecurityPage.tsx, confirm: whatever refresh, failure or change elsewhere is
\* answered in between, codes the user was told stay on the page, but for a session
\* that ends: nobody is signed in (ErrorState), or AppShell took the page away.
THEOREM CodesStayShown == SecuritySpec => []CodesShown
  <1>1. SecInv => CodesShown
    BY DEF SecInv, SecKept, CodesShown, SecShown
  <1>2. QED
    BY <1>1, InitSecurity, NextKeepsSecurity, PTL DEF SecuritySpec

\* AuthProvider.tsx, refresh: with every answer in, the page knows the server's
\* second factor, but for the exceptions of SecurityFresh.
THEOREM SecurityPageIsFresh == SecuritySpec => []SecurityFresh
  <1>1. SecInv => SecurityFresh
    BY DEF SecInv, SecKnown, SecurityFresh
  <1>2. QED
    BY <1>1, InitSecurity, NextKeepsSecurity, PTL DEF SecuritySpec
-----------------------------------------------------------------------------
(* The detail page.                                                         *)

DetRequests == [n : Nat, kind : {"get", "evidence", "send"}, id : Nat]
DetPages == [row : Nat, evidence : Nat, error : {"none", "404", "other"}]
DetDialogs == [open : BOOLEAN, sending : BOOLEAN, result : Nat]

DetShape ==
    /\ detId \in Nat
    /\ detPage \in DetPages
    /\ detDialog \in DetDialogs
    /\ detReqs \subseteq DetRequests
    /\ detSent \in Nat
    /\ detDoubt \in [late : SUBSET {"get", "evidence"}, moved : BOOLEAN]

Waiting(kind) == \E r \in detReqs : r.kind = kind

\* As in the property, but the evidence is right also under an error message,
\* and a URL without a number has one.
UrlInv ==
    /\ detPage.error = "none" => Waiting("get") \/ "get" \in detDoubt.late \/ detPage.row = detId
    /\ IF detId = 0
       THEN detPage.error # "none"
       ELSE Waiting("evidence") \/ "evidence" \in detDoubt.late \/ detPage.evidence \in {0, detId}

\* The dialog is busy while a send is under way, and as long as nothing moved
\* under it, the invoice it was opened for is there and valid.
SendInv ==
    /\ \A r, s \in detReqs : r.kind = "send" /\ s.kind = "send" => r = s
    /\ Waiting("send") => detDialog.sending
    /\ detDialog.open /\ ~detDoubt.moved =>
          /\ RowShown /\ detPage.row \in ValidOnes
          /\ \A r \in detReqs : r.kind = "send" => r.id = detPage.row
          /\ detDialog.result \in {0, detPage.row}

DetInv == DetShape /\ UrlInv /\ SendInv

\* The requests that are sent together.
Together == {<<>>, <<"get">>, <<"get", "evidence">>, <<"send">>}

LEMMA DetSendIs ==
    ASSUME DetShape, NEW reqs \in SUBSET DetRequests, NEW kinds \in Together, NEW id \in Nat,
           DetSend(reqs, kinds, id)
    PROVE  /\ detReqs' \subseteq DetRequests /\ detSent' \in Nat /\ reqs \subseteq detReqs'
           /\ \A k \in DOMAIN kinds : \E r \in detReqs' : r.kind = kinds[k]
           /\ \A r \in detReqs' \ reqs : r.id = id /\ \E k \in DOMAIN kinds : r.kind = kinds[k]
           /\ kinds = <<"send">> => \A r, s \in detReqs' \ reqs : r = s
  <1> DEFINE New(k) == [n |-> detSent + k, kind |-> kinds[k], id |-> id]
  <1>1. detSent \in Nat /\ DOMAIN kinds \subseteq {1, 2} /\ Len(kinds) \in Nat
    BY DEF DetShape, Together
  <1>2. /\ detReqs' = reqs \cup {New(k) : k \in DOMAIN kinds}
        /\ detSent' = detSent + Len(kinds)
    BY DEF DetSend
  <1>3. ASSUME NEW k \in DOMAIN kinds
        PROVE  New(k) \in DetRequests /\ New(k).id = id /\ New(k).kind = kinds[k]
    <2>1. detSent + k \in Nat
      BY <1>1
    <2>2. kinds[k] \in {"get", "evidence", "send"}
      BY DEF Together
    <2>3. QED
      BY <2>1, <2>2 DEF DetRequests
  <1>4. kinds = <<"send">> => DOMAIN kinds = {1}
    OBVIOUS
  <1> HIDE DEF New
  <1>5. QED
    BY <1>1, <1>2, <1>3, <1>4

LEMMA InitDetail == DetailInit => DetInv
  <1> SUFFICES ASSUME DetailInit
               PROVE  DetInv
    OBVIOUS
  <1>1. AnInvoice \in Nat /\ AnInvoice # 0
    BY DetailAssumption DEF AnInvoice
  <1> DEFINE get == [n |-> 1, kind |-> "get", id |-> AnInvoice]
             evidence == [n |-> 2, kind |-> "evidence", id |-> AnInvoice]
  <1>2. get \in DetRequests /\ evidence \in DetRequests /\ detReqs = {get, evidence}
    BY <1>1 DEF DetRequests, DetailInit
  <1>3. get.kind = "get" /\ evidence.kind = "evidence"
    OBVIOUS
  <1>4. DetShape
    BY <1>1, <1>2 DEF DetailInit, DetShape, DetPages, DetDialogs
  <1> HIDE DEF get, evidence
  <1>5. QED
    BY <1>1, <1>2, <1>3, <1>4 DEF DetailInit, DetInv, UrlInv, SendInv, Waiting

LEMMA GoKeeps == ASSUME DetInv, GoToInvoice PROVE DetInv'
  <1>1. PICK to \in (Invoices \cup {0}) \ {detId} :
           /\ detId' = to
           /\ detPage' = PageReloaded(to, 0)
           /\ DetSend(detReqs, IF to = 0 THEN <<>> ELSE <<"get", "evidence">>, to)
           /\ detDoubt' = [late |-> {}, moved |-> detDoubt.moved \/ MovedNow]
           /\ UNCHANGED detDialog
    BY DEF GoToInvoice
  <1> DEFINE kinds == IF to = 0 THEN <<>> ELSE <<"get", "evidence">>
  <1>2. to \in Nat
    BY DetailAssumption
  <1>3. /\ detReqs \in SUBSET DetRequests /\ detPage \in DetPages /\ detDialog \in DetDialogs
        /\ detDoubt.moved \in BOOLEAN
    BY DEF DetInv, DetShape
  <1>4. kinds \in Together
    BY DEF Together
  <1>5. DetSend(detReqs, kinds, to)
    BY <1>1
  <1>6. /\ \A k \in DOMAIN kinds : kinds[k] # "send"
        /\ to # 0 => 1 \in DOMAIN kinds /\ kinds[1] = "get" /\ 2 \in DOMAIN kinds /\ kinds[2] = "evidence"
    OBVIOUS
  <1> HIDE DEF kinds
  <1>7. /\ detReqs' \subseteq DetRequests /\ detSent' \in Nat /\ detReqs \subseteq detReqs'
        /\ \A k \in DOMAIN kinds : \E r \in detReqs' : r.kind = kinds[k]
        /\ \A r \in detReqs' \ detReqs : \E k \in DOMAIN kinds : r.kind = kinds[k]
    <2>1. DetShape /\ detReqs \in SUBSET DetRequests
      BY DEF DetInv, DetShape
    <2>2. /\ detReqs' \subseteq DetRequests /\ detSent' \in Nat /\ detReqs \subseteq detReqs'
          /\ \A k \in DOMAIN kinds : \E r \in detReqs' : r.kind = kinds[k]
          /\ \A r \in detReqs' \ detReqs : r.id = to /\ \E k \in DOMAIN kinds : r.kind = kinds[k]
          /\ kinds = <<"send">> => \A r, s \in detReqs' \ detReqs : r = s
      BY <2>1, <1>2, <1>4, <1>5, DetSendIs, Zenon
    <2>3. QED
      BY <2>2
  <1>8. \A r \in detReqs' : r.kind = "send" => r \in detReqs
    BY <1>6, <1>7
  <1>9. detPage' \in DetPages /\ (to = 0 => detPage'.error # "none")
    BY <1>1, <1>2, <1>3 DEF PageReloaded, DetPages
  <1>10. MovedNow \in BOOLEAN /\ detDoubt'.moved = (detDoubt.moved \/ MovedNow)
         /\ detDoubt' \in [late : SUBSET {"get", "evidence"}, moved : BOOLEAN]
    BY <1>1, <1>3 DEF MovedNow
  <1>11. DetShape'
    BY <1>1, <1>2, <1>3, <1>7, <1>9, <1>10 DEF DetShape
  <1>12. UrlInv'
    BY <1>1, <1>6, <1>7, <1>9 DEF UrlInv, Waiting
  <1>13. SendInv'
    BY <1>1, <1>8, <1>10 DEF DetInv, SendInv, Waiting, MovedNow
  <1>14. QED
    BY <1>11, <1>12, <1>13 DEF DetInv

LEMMA RetryKeeps == ASSUME DetInv, RetryDetail PROVE DetInv'
  <1> DEFINE kinds == IF detId = 0 THEN <<>> ELSE <<"get">>
  <1>1. /\ detPage.error = "other"
        /\ detPage' = PageReloaded(detId, detPage.evidence)
        /\ DetSend(detReqs, kinds, detId)
        /\ detDoubt' = [detDoubt EXCEPT !.late = @ \ {"get"}]
        /\ UNCHANGED <<detId, detDialog>>
    BY DEF RetryDetail
  <1>2. /\ DetShape /\ detId \in Nat /\ detReqs \in SUBSET DetRequests /\ detPage \in DetPages
        /\ detDoubt \in [late : SUBSET {"get", "evidence"}, moved : BOOLEAN]
    BY DEF DetInv, DetShape
  <1>3. kinds \in Together
    BY DEF Together
  <1>4. /\ \A k \in DOMAIN kinds : kinds[k] # "send"
        /\ detId # 0 => 1 \in DOMAIN kinds /\ kinds[1] = "get"
    OBVIOUS
  <1> HIDE DEF kinds
  <1>5. /\ detReqs' \subseteq DetRequests /\ detSent' \in Nat /\ detReqs \subseteq detReqs'
        /\ \A k \in DOMAIN kinds : \E r \in detReqs' : r.kind = kinds[k]
        /\ \A r \in detReqs' \ detReqs : \E k \in DOMAIN kinds : r.kind = kinds[k]
    BY <1>1, <1>2, <1>3, DetSendIs
  <1>6. \A r \in detReqs' : r.kind = "send" => r \in detReqs
    BY <1>4, <1>5
  <1>7. /\ detPage' \in DetPages /\ (detId = 0 => detPage'.error # "none")
        /\ detId # 0 => detPage'.evidence = detPage.evidence
    BY <1>1, <1>2 DEF PageReloaded, DetPages
  <1>8. /\ detDoubt' \in [late : SUBSET {"get", "evidence"}, moved : BOOLEAN]
        /\ detDoubt'.moved = detDoubt.moved
        /\ "evidence" \in detDoubt.late => "evidence" \in detDoubt'.late
    BY <1>1, <1>2
  <1>9. DetShape'
    BY <1>1, <1>2, <1>5, <1>7, <1>8 DEF DetShape
  <1>10. UrlInv'
    BY <1>1, <1>4, <1>5, <1>7, <1>8 DEF DetInv, UrlInv, Waiting
  <1>11. SendInv'
    BY <1>1, <1>6, <1>8 DEF DetInv, SendInv, Waiting, RowShown
  <1>12. QED
    BY <1>9, <1>10, <1>11 DEF DetInv

\* What is waited for still is when a request of another kind, or an older one of
\* the same kind, is answered.
LEMMA LateIs ==
    ASSUME NEW r \in detReqs, detReqs' = DetOthers(r), DetShape, r.kind \in {"get", "evidence"}
    PROVE  /\ LateAfter(r) \in SUBSET {"get", "evidence"} /\ detDoubt.late \subseteq LateAfter(r)
           /\ r.id = detId \/ r.kind \in LateAfter(r) \/ \E s \in detReqs' : s.kind = r.kind
           /\ \A kind : kind # r.kind /\ (\E s \in detReqs : s.kind = kind)
                  => \E s \in detReqs' : s.kind = kind
           /\ detReqs' \subseteq detReqs
  <1>1. detDoubt.late \in SUBSET {"get", "evidence"}
    BY DEF DetShape
  <1>2. QED
    BY <1>1 DEF LateAfter, DetOthers

LEMMA GotKeeps == ASSUME DetInv, NEW r \in detReqs, DetailGot(r) PROVE DetInv'
  <1>1. /\ DetShape /\ detPage \in DetPages /\ r.id \in Nat /\ detReqs \subseteq DetRequests
        /\ detDoubt \in [late : SUBSET {"get", "evidence"}, moved : BOOLEAN]
    BY DEF DetInv, DetShape, DetRequests
  <1>2. /\ r.kind = "get" /\ detReqs' = DetOthers(r)
        /\ detDoubt' = [late |-> LateAfter(r), moved |-> detDoubt.moved \/ MovedNow]
        /\ UNCHANGED <<detId, detDialog, detSent>>
    BY DEF DetailGot
  <1>3. /\ LateAfter(r) \in SUBSET {"get", "evidence"} /\ detDoubt.late \subseteq LateAfter(r)
        /\ r.id = detId \/ "get" \in LateAfter(r) \/ Waiting("get")'
        /\ Waiting("evidence") => Waiting("evidence")'
        /\ detReqs' \subseteq detReqs
    BY <1>1, <1>2, LateIs DEF Waiting
  <1>4. /\ detPage' \in DetPages /\ detPage'.evidence = detPage.evidence
        /\ detPage.error # "none" => detPage'.error # "none"
        /\ detPage'.error = "none" => detPage'.row = r.id
    <2>1. CASE detPage' = [detPage EXCEPT !.row = r.id]
      BY <1>1, <2>1 DEF DetPages
    <2>2. CASE detPage' = [detPage EXCEPT !.error = "404"]
      BY <1>1, <2>2 DEF DetPages
    <2>3. CASE detPage' = [detPage EXCEPT !.error = "other"]
      BY <1>1, <2>3 DEF DetPages
    <2>4. QED
      BY <2>1, <2>2, <2>3 DEF DetailGot
  <1>5. /\ detDoubt' \in [late : SUBSET {"get", "evidence"}, moved : BOOLEAN]
        /\ detDoubt'.late = LateAfter(r) /\ detDoubt'.moved = (detDoubt.moved \/ MovedNow)
    BY <1>1, <1>2, <1>3 DEF MovedNow
  <1>6. DetShape'
    BY <1>1, <1>2, <1>3, <1>4, <1>5 DEF DetShape
  <1>7. UrlInv'
    BY <1>2, <1>3, <1>4, <1>5 DEF DetInv, UrlInv
  <1>8. SendInv'
    BY <1>2, <1>3, <1>5 DEF DetInv, SendInv, Waiting, MovedNow
  <1>9. QED
    BY <1>6, <1>7, <1>8 DEF DetInv

LEMMA EvidenceKeeps == ASSUME DetInv, NEW r \in detReqs, EvidenceGot(r) PROVE DetInv'
  <1>1. /\ DetShape /\ detPage \in DetPages /\ r.id \in Nat /\ detReqs \subseteq DetRequests
        /\ detDoubt \in [late : SUBSET {"get", "evidence"}, moved : BOOLEAN]
    BY DEF DetInv, DetShape, DetRequests
  <1>2. PICK e \in {r.id, 0} :
           /\ r.kind = "evidence" /\ detReqs' = DetOthers(r)
           /\ detPage' = [detPage EXCEPT !.evidence = e]
           /\ detDoubt' = [detDoubt EXCEPT !.late = LateAfter(r)]
           /\ UNCHANGED <<detId, detDialog, detSent>>
    BY DEF EvidenceGot
  <1>3. /\ LateAfter(r) \in SUBSET {"get", "evidence"} /\ detDoubt.late \subseteq LateAfter(r)
        /\ r.id = detId \/ "evidence" \in LateAfter(r) \/ Waiting("evidence")'
        /\ Waiting("get") => Waiting("get")'
        /\ detReqs' \subseteq detReqs
    BY <1>1, <1>2, LateIs DEF Waiting
  <1>4. /\ detPage' \in DetPages /\ detPage'.evidence = e
        /\ detPage'.error = detPage.error /\ detPage'.row = detPage.row
    BY <1>1, <1>2 DEF DetPages
  <1>5. /\ detDoubt' \in [late : SUBSET {"get", "evidence"}, moved : BOOLEAN]
        /\ detDoubt'.late = LateAfter(r) /\ detDoubt'.moved = detDoubt.moved
    BY <1>1, <1>2, <1>3
  <1>6. DetShape'
    BY <1>1, <1>2, <1>3, <1>4, <1>5 DEF DetShape
  <1>7. UrlInv'
    BY <1>2, <1>3, <1>4, <1>5 DEF DetInv, UrlInv
  <1>8. SendInv'
    BY <1>2, <1>3, <1>4, <1>5 DEF DetInv, SendInv, Waiting, RowShown
  <1>9. QED
    BY <1>6, <1>7, <1>8 DEF DetInv

LEMMA DialogOpensOrCloses == ASSUME DetInv, OpenSend \/ CloseSend PROVE DetInv'
  <1>1. /\ DetShape /\ detDialog \in DetDialogs
        /\ detDoubt \in [late : SUBSET {"get", "evidence"}, moved : BOOLEAN]
    BY DEF DetInv, DetShape
  <1>2. UNCHANGED <<detId, detPage, detReqs, detSent>>
    BY DEF OpenSend, CloseSend
  <1>3. CASE OpenSend
    <2>1. /\ detDialog' \in DetDialogs /\ detDialog'.sending = detDialog.sending
          /\ detDialog'.result = 0
      BY <1>1, <1>3 DEF OpenSend, DetDialogs
    <2>2. /\ detDoubt' \in [late : SUBSET {"get", "evidence"}, moved : BOOLEAN]
          /\ detDoubt'.late = detDoubt.late /\ detDoubt'.moved = Waiting("send")
      BY <1>1, <1>3 DEF OpenSend, Waiting
    <2>3. DetShape'
      BY <1>1, <1>2, <2>1, <2>2 DEF DetShape
    <2>4. UrlInv'
      BY <1>2, <2>2 DEF DetInv, UrlInv, Waiting
    <2>5. RowShown /\ detPage.row \in ValidOnes
      BY <1>3 DEF OpenSend, MaySend
    <2>6. SendInv'
      BY <1>2, <2>1, <2>2, <2>5 DEF DetInv, SendInv, Waiting, RowShown
    <2>7. QED
      BY <2>3, <2>4, <2>6 DEF DetInv
  <1>4. CASE CloseSend
    <2>1. /\ detDialog' \in DetDialogs /\ detDialog'.sending = detDialog.sending
          /\ ~detDialog'.open
      BY <1>1, <1>4 DEF CloseSend, DetDialogs
    <2>2. detDoubt' = detDoubt
      BY <1>4 DEF CloseSend
    <2>3. DetShape'
      BY <1>1, <1>2, <2>1, <2>2 DEF DetShape
    <2>4. UrlInv'
      BY <1>2, <2>2 DEF DetInv, UrlInv, Waiting
    <2>5. SendInv'
      BY <1>2, <2>1 DEF DetInv, SendInv, Waiting
    <2>6. QED
      BY <2>3, <2>4, <2>5 DEF DetInv
  <1>5. QED
    BY <1>3, <1>4

LEMMA SendingKeeps == ASSUME DetInv, DoSend PROVE DetInv'
  <1>1. /\ DetShape /\ detDialog \in DetDialogs /\ detReqs \in SUBSET DetRequests
        /\ detPage.row \in Nat
    BY DEF DetInv, DetShape, DetPages
  <1>2. /\ RowShown /\ detDialog.open /\ ~detDialog.sending /\ DetSend(detReqs, <<"send">>, detPage.row)
        /\ UNCHANGED <<detId, detPage, detDoubt>>
    BY DEF DoSend
  <1>3. /\ detDialog' \in DetDialogs /\ detDialog'.sending /\ detDialog'.open
        /\ detDialog'.result = 0
    BY <1>1, <1>2 DEF DoSend, DetDialogs
  <1>4. <<"send">> \in Together /\ DOMAIN <<"send">> = {1} /\ <<"send">>[1] = "send"
    BY DEF Together
  <1>5. /\ detReqs' \subseteq DetRequests /\ detSent' \in Nat /\ detReqs \subseteq detReqs'
        /\ \A r \in detReqs' \ detReqs : r.id = detPage.row /\ r.kind = "send"
        /\ \A r, s \in detReqs' \ detReqs : r = s
    <2> DEFINE kinds == <<"send">>
    <2>1. kinds \in Together /\ DetSend(detReqs, kinds, detPage.row) /\ kinds = <<"send">>
          /\ \A k \in DOMAIN kinds : kinds[k] = "send"
      BY <1>2, <1>4
    <2> HIDE DEF kinds
    <2>2. QED
      BY <1>1, <2>1, DetSendIs
  <1>6. ~Waiting("send")
    BY <1>2 DEF DetInv, SendInv
  <1>7. DetShape'
    BY <1>1, <1>2, <1>3, <1>5 DEF DetShape
  <1>8. UrlInv'
    BY <1>2, <1>5 DEF DetInv, UrlInv, Waiting
  <1>9. SendInv'
    BY <1>2, <1>3, <1>5, <1>6 DEF DetInv, SendInv, Waiting, RowShown
  <1>10. QED
    BY <1>7, <1>8, <1>9 DEF DetInv

LEMMA SendAnswerKeeps == ASSUME DetInv, NEW r \in detReqs, SendAnswered(r) PROVE DetInv'
  <1>1. /\ DetShape /\ detDialog \in DetDialogs /\ r.id \in Nat /\ detReqs \subseteq DetRequests
    BY DEF DetInv, DetShape, DetRequests
  <1>2. PICK result \in {r.id, 0} :
           detDialog' = [detDialog EXCEPT !.sending = FALSE, !.result = result]
    BY DEF SendAnswered
  <1>3. /\ r.kind = "send" /\ detReqs' = detReqs \ {r}
        /\ UNCHANGED <<detId, detPage, detSent, detDoubt>>
    BY DEF SendAnswered, DetOthers
  <1>4. /\ detDialog' \in DetDialogs /\ detDialog'.open = detDialog.open
        /\ detDialog'.result = result
    <2>1. result \in Nat
      BY <1>1
    <2>2. QED
      BY <1>1, <1>2, <2>1 DEF DetDialogs
  <1>5. ~Waiting("send")'
    BY <1>3 DEF DetInv, SendInv, Waiting
  <1>6. DetShape'
    BY <1>1, <1>3, <1>4 DEF DetShape
  <1>7. UrlInv'
    BY <1>3 DEF DetInv, UrlInv, Waiting
  <1>8. SendInv'
    BY <1>2, <1>3, <1>4, <1>5 DEF DetInv, SendInv, Waiting, RowShown
  <1>9. QED
    BY <1>6, <1>7, <1>8 DEF DetInv

LEMMA NextKeepsDetail == DetInv /\ [DetailNext]_detVars => DetInv'
  <1> SUFFICES ASSUME DetInv, [DetailNext]_detVars
               PROVE  DetInv'
    OBVIOUS
  <1>1. CASE UNCHANGED detVars
    BY <1>1 DEF detVars, DetInv, DetShape, UrlInv, SendInv, Waiting, RowShown
  <1>2. CASE DetailNext
    BY <1>2, GoKeeps, RetryKeeps, GotKeeps, EvidenceKeeps, DialogOpensOrCloses, SendingKeeps,
       SendAnswerKeeps DEF DetailNext
  <1>3. QED
    BY <1>1, <1>2

\* InvoiceDetailPage.tsx, reload: in whatever order the answers for one invoice
\* and another come, the page ends with those of its URL, but for an answer that
\* came after that of a newer request.
THEOREM PageIsOfItsUrl == DetailSpec => []DetailIsOfItsUrl
  <1>1. DetInv => DetailIsOfItsUrl
    BY DEF DetInv, UrlInv, Waiting, DetailIsOfItsUrl
  <1>2. QED
    BY <1>1, InitDetail, NextKeepsDetail, PTL DEF DetailSpec

\* InvoiceDetailPage.tsx, SendDialog: at most one send is under way, and it is of
\* the valid invoice on the page, whose result the dialog shows.
THEOREM SendIsOfThePage == DetailSpec => []SendsWhatIsShown
  <1>1. ASSUME DetInv
        PROVE  SendsWhatIsShown
    <2> DEFINE sends == {r \in detReqs : r.kind = "send"}
    <2>1. Cardinality(sends) <= 1
      <3>1. CASE sends = {}
        BY <3>1, FS_EmptySet
      <3>2. CASE sends # {}
        <4>1. PICK r : sends = {r}
          BY <1>1, <3>2 DEF DetInv, SendInv
        <4>2. QED
          <5>1. Cardinality({r}) = 1
            BY FS_Singleton
          <5>2. QED
            BY <4>1, <5>1
      <3>3. QED
        BY <3>1, <3>2
    <2>2. QED
      BY <1>1, <2>1 DEF DetInv, SendInv, SendsWhatIsShown
  <1>2. QED
    BY <1>1, InitDetail, NextKeepsDetail, PTL DEF DetailSpec

-----------------------------------------------------------------------------
(* The users page.                                                          *)

UsIsRequest(r) ==
    r = [n |-> r.n, kind |-> r.kind, since |-> r.since, dirty |-> r.dirty, form |-> r.form,
         choice |-> r.choice, first |-> r.first]

UsShape ==
    /\ \A r \in usReqs : UsIsRequest(r)
    /\ usForm = [dialog |-> usForm.dialog, user |-> usForm.user, role |-> usForm.role,
                 busy |-> usForm.busy]
    /\ usForm.dialog \in {"none", "add", "edit", "delete"}
    /\ usChoice = [role |-> usChoice.role, reset |-> usChoice.reset]
    /\ usShown = [users |-> usShown.users, loading |-> usShown.loading, error |-> usShown.error]

\* The role in a form is the one chosen in it, and a request carries both.
ChosenIn(kind, given, choice) ==
    kind \in {"add", "edit"} => choice.reset \/ given.role = choice.role

RolesChosen ==
    /\ ChosenIn(usForm.dialog, usForm, usChoice)
    /\ \A r \in usReqs : ChosenIn(r.kind, r.form, r.choice)

\* A list that is not out of date is the server's, and is under way unless the
\* page has it.
UsListing == \E r \in usReqs : r.kind = "list"
UsKnown ==
    /\ \A r \in usReqs : r.kind = "list" => r.dirty \/ r.since = usServer
    /\ UsListing \/ usStale \/ usShown.error \/ usShown.users = usServer

UsInv == UsShape /\ RolesChosen /\ UsKnown

\* What EditKeepsRole says of a step.
EditIsKept ==
    \A r \in usReqs :
          LET answered == \A s \in usReqs' : s.n # r.n \/ s.kind # r.kind
              user == IF r.kind = "add" THEN usAdded' ELSE r.form.user
          IN answered /\ r.kind \in {"add", "edit"} /\ ~r.choice.reset /\ usServer' # usServer
                => usServer'[user] = r.choice.role

\* A request is still under way after a step.
UsStillThere(r) == \E s \in usReqs' : s.n = r.n /\ s.kind = r.kind

LEMMA NotAnsweredKeeps ==
    ASSUME \A r \in usReqs : UsStillThere(r)
    PROVE  EditIsKept
  BY DEF UsStillThere, EditIsKept

LEMMA UsOutdatedAre ==
    ASSUME UsInv, NEW reqs \in SUBSET usReqs
    PROVE  /\ \A s \in UsOutdated(reqs) :
                  UsIsRequest(s) /\ s.dirty /\ ChosenIn(s.kind, s.form, s.choice)
           /\ \A r \in reqs : \E s \in UsOutdated(reqs) : s.n = r.n /\ s.kind = r.kind
  <1>1. ASSUME NEW r \in reqs
        PROVE  LET s == [r EXCEPT !.dirty = TRUE]
               IN /\ UsIsRequest(s) /\ s.dirty /\ s.n = r.n /\ s.kind = r.kind
                  /\ ChosenIn(s.kind, s.form, s.choice)
    <2>1. UsIsRequest(r) /\ ChosenIn(r.kind, r.form, r.choice)
      BY DEF UsInv, UsShape, RolesChosen
    <2>2. [r EXCEPT !.dirty = TRUE] =
              [n |-> r.n, kind |-> r.kind, since |-> r.since, dirty |-> TRUE, form |-> r.form,
               choice |-> r.choice, first |-> r.first]
      <3>1. PICK s : s = [r EXCEPT !.dirty = TRUE]
        OBVIOUS
      <3>2. s = [n |-> r.n, kind |-> r.kind, since |-> r.since, dirty |-> TRUE, form |-> r.form,
                 choice |-> r.choice, first |-> r.first]
        BY <2>1, <3>1 DEF UsIsRequest
      <3>3. QED
        BY <3>1, <3>2
    <2>3. QED
      BY <2>1, <2>2 DEF UsIsRequest
  <1>2. QED
    BY <1>1 DEF UsOutdated

\* The list is asked for again, of the server as it is after the step.
LEMMA UsersLoaded ==
    ASSUME UsInv, NEW server, NEW reqs \in SUBSET usReqs, usServer' = server,
           LoadUsers(server, reqs)
    PROVE  /\ \A s \in usReqs' : UsIsRequest(s) /\ ChosenIn(s.kind, s.form, s.choice)
           /\ UsKnown'
           /\ usShown' = [users |-> usShown.users, loading |-> TRUE, error |-> FALSE]
           /\ \A r \in reqs : UsStillThere(r)
  <1> DEFINE list == [n |-> usSent + 1, kind |-> "list", since |-> server, dirty |-> FALSE,
                      form |-> EmptyUserForm, choice |-> NoChoice, first |-> FALSE]
  <1>1. usReqs' = UsOutdated(reqs) \cup {list}
    BY DEF LoadUsers, UsSend
  <1>2. UsIsRequest(list) /\ list.kind = "list" /\ list.since = server
    BY DEF UsIsRequest
  <1> HIDE DEF list
  <1>3. /\ \A s \in UsOutdated(reqs) :
               UsIsRequest(s) /\ s.dirty /\ ChosenIn(s.kind, s.form, s.choice)
        /\ \A r \in reqs : \E s \in UsOutdated(reqs) : s.n = r.n /\ s.kind = r.kind
    BY UsOutdatedAre
  <1>4. usShown' = [users |-> usShown.users, loading |-> TRUE, error |-> FALSE]
    BY DEF LoadUsers, UsInv, UsShape
  <1>5. \A s \in usReqs' : UsIsRequest(s) /\ ChosenIn(s.kind, s.form, s.choice)
    BY <1>1, <1>2, <1>3 DEF ChosenIn
  <1>6. UsKnown'
    BY <1>1, <1>2, <1>3 DEF UsKnown, UsListing
  <1>7. QED
    BY <1>1, <1>3, <1>4, <1>5, <1>6 DEF UsStillThere

LEMMA InitUsers == UsersInit => UsInv
  BY DEF UsersInit, UsInv, UsShape, UsIsRequest, RolesChosen, ChosenIn, UsKnown, UsListing,
         EmptyUserForm, NoChoice

\* The answers to a list.
LEMMA ListAnswerKeeps ==
    ASSUME UsInv, NEW r \in usReqs, UsersListed(r) \/ UsersNotListed(r)
    PROVE  UsInv' /\ EditIsKept
  <1>1. /\ usReqs' = usReqs \ {r} /\ UNCHANGED <<usServer, usForm, usChoice>>
    BY DEF UsersListed, UsersNotListed, UsOthers
  <1>2. RolesChosen' /\ EditIsKept
    BY <1>1 DEF UsInv, RolesChosen, ChosenIn, EditIsKept
  <1>3. UsShape'
    BY <1>1 DEF UsInv, UsShape, UsersListed, UsersNotListed, UsIsRequest
  <1>4. CASE UsersListed(r)
    <2>1. /\ r.kind = "list" /\ usStale' = r.dirty
          /\ \E users \in {r.since, usServer} : usShown' = [usShown EXCEPT !.users = users, !.loading = FALSE]
      BY <1>4 DEF UsersListed
    <2>2. usShown'.users \in {r.since, usServer}
      BY <2>1 DEF UsInv, UsShape
    <2>3. r.dirty \/ r.since = usServer
      BY <2>1 DEF UsInv, UsKnown
    <2>4. UsKnown'
      BY <1>1, <2>1, <2>2, <2>3 DEF UsInv, UsKnown
    <2>5. QED
      BY <1>2, <1>3, <2>4 DEF UsInv
  <1>5. CASE UsersNotListed(r)
    <2>1. usShown'.error
      BY <1>5 DEF UsersNotListed, UsInv, UsShape
    <2>2. UsKnown'
      BY <1>1, <2>1 DEF UsInv, UsKnown
    <2>3. QED
      BY <1>2, <1>3, <2>2 DEF UsInv
  <1>6. QED
    BY <1>4, <1>5

\* The dialogs, which change neither the server nor the list.
LEMMA UserDialogKeeps ==
    ASSUME UsInv, OpenAdd \/ OpenEdit \/ OpenDelete \/ CloseDialog \/ PickRole
    PROVE  UsInv' /\ EditIsKept
  <1>1. UNCHANGED <<usServer, usShown, usReqs, usStale>>
    BY DEF OpenAdd, OpenEdit, OpenDelete, OpenDialog, CloseDialog, PickRole
  <1>2. UsKnown' /\ EditIsKept
    BY <1>1 DEF UsInv, UsKnown, UsListing, EditIsKept
  <1> DEFINE Chosen == /\ usForm' = [dialog |-> usForm'.dialog, user |-> usForm'.user,
                                     role |-> usForm'.role, busy |-> usForm'.busy]
                       /\ usForm'.dialog \in {"none", "add", "edit", "delete"}
                       /\ usChoice' = [role |-> usChoice'.role, reset |-> usChoice'.reset]
                       /\ ChosenIn(usForm'.dialog, usForm', usChoice')
  <1>3. ASSUME NEW dialog, NEW user, NEW offered, OpenDialog(dialog, user, offered),
               dialog = "edit" => offered = usShown.users[user],
               dialog \in {"add", "edit", "delete"}
        PROVE  Chosen
    <2>1. usForm' = [dialog |-> dialog, user |-> user, role |-> offered, busy |-> usForm.busy]
      BY <1>3 DEF OpenDialog, UsInv, UsShape
    <2>2. usChoice' = [role |-> IF dialog = "edit" THEN usShown.users[user] ELSE offered, reset |-> FALSE]
      BY <1>3 DEF OpenDialog
    <2>3. QED
      BY <1>3, <2>1, <2>2 DEF ChosenIn
  <1>4. ASSUME OpenAdd PROVE Chosen
    BY <1>3, <1>4 DEF OpenAdd
  <1>5. ASSUME OpenEdit PROVE Chosen
    BY <1>3, <1>5 DEF OpenEdit, OfferedRole
  <1>6. ASSUME OpenDelete PROVE Chosen
    BY <1>3, <1>6 DEF OpenDelete
  <1>7. ASSUME CloseDialog PROVE Chosen
    BY <1>7 DEF CloseDialog, NoChoice, UsInv, UsShape, ChosenIn
  <1>8. ASSUME PickRole PROVE Chosen
    BY <1>8 DEF PickRole, UsInv, UsShape, ChosenIn
  <1>9. Chosen
    BY <1>4, <1>5, <1>6, <1>7, <1>8
  <1>10. QED
    BY <1>1, <1>2, <1>9 DEF UsInv, UsShape, RolesChosen

LEMMA SubmitKeeps ==
    ASSUME UsInv, SubmitUser
    PROVE  UsInv' /\ EditIsKept
  <1> DEFINE list == usForm.dialog = "list"
  <1>1. PICK r : r = [n |-> usSent + 1, kind |-> usForm.dialog, since |-> <<>>, dirty |-> FALSE,
                      form |-> IF list THEN EmptyUserForm ELSE usForm,
                      choice |-> IF list THEN NoChoice ELSE usChoice,
                      first |-> ~list /\ DOMAIN usShown.users = {}]
    OBVIOUS
  <1>2. /\ usReqs' = usReqs \cup {r} /\ usForm' = [usForm EXCEPT !.busy = TRUE]
        /\ UNCHANGED <<usServer, usAdded, usShown, usChoice, usStale>>
    BY <1>1 DEF SubmitUser, UsSend
  <1>3. usForm' = [dialog |-> usForm.dialog, user |-> usForm.user, role |-> usForm.role, busy |-> TRUE]
    BY <1>2 DEF UsInv, UsShape
  <1>4. UsIsRequest(r) /\ r.kind = usForm.dialog /\ ~list
    BY <1>1 DEF UsIsRequest, UsInv, UsShape
  <1>5. ChosenIn(r.kind, r.form, r.choice)
    BY <1>1, <1>4 DEF UsInv, RolesChosen, ChosenIn
  <1>6. UsShape'
    BY <1>2, <1>3, <1>4 DEF UsInv, UsShape, UsIsRequest
  <1>7. RolesChosen'
    BY <1>2, <1>3, <1>5 DEF UsInv, RolesChosen, ChosenIn
  <1>8. UsKnown'
    BY <1>2, <1>4 DEF UsInv, UsKnown, UsListing
  <1>9. EditIsKept
    BY <1>2 DEF EditIsKept
  <1>10. QED
    BY <1>6, <1>7, <1>8, <1>9 DEF UsInv

\* Asking for the list again, without or with an answer to a refresh.
LEMMA ReloadKeeps ==
    ASSUME UsInv, NEW reqs \in SUBSET usReqs, LoadUsers(usServer, reqs),
           UNCHANGED <<usServer, usAdded, usChoice, usStale>>,
           usForm' = usForm \/ usForm' = [usForm EXCEPT !.busy = FALSE]
    PROVE  UsInv' /\ EditIsKept
  <1>1. /\ \A s \in usReqs' : UsIsRequest(s) /\ ChosenIn(s.kind, s.form, s.choice)
        /\ UsKnown'
        /\ usShown' = [users |-> usShown.users, loading |-> TRUE, error |-> FALSE]
    BY UsersLoaded
  <1>2. \E busy : usForm' = [dialog |-> usForm.dialog, user |-> usForm.user,
                             role |-> usForm.role, busy |-> busy]
    BY DEF UsInv, UsShape
  <1>3. UsShape'
    BY <1>1, <1>2 DEF UsInv, UsShape, UsIsRequest
  <1>4. RolesChosen'
    BY <1>1, <1>2 DEF UsInv, RolesChosen, ChosenIn
  <1>5. EditIsKept
    BY DEF EditIsKept
  <1>6. QED
    BY <1>1, <1>3, <1>4, <1>5 DEF UsInv

\* A change applied to the server gives the user the role in the form.
LEMMA StoredRole ==
    ASSUME UsInv, NEW r \in usReqs, r.kind \in {"add", "edit", "delete"}, CanApply(r), StoreUser(r),
           \A s \in usReqs \ {r} : UsStillThere(s)
    PROVE  EditIsKept
  <1>1. ASSUME r.kind \in {"add", "edit"}, ~r.choice.reset
        PROVE  usServer'[IF r.kind = "add" THEN usAdded' ELSE r.form.user] = r.choice.role
    <2>1. r.form.role = r.choice.role
      BY <1>1 DEF UsInv, RolesChosen, ChosenIn
    <2>2. CASE r.kind = "add"
      BY <2>1, <2>2 DEF StoreUser, Applied
    <2>3. CASE r.kind = "edit"
      <3>1. r.form.user \in DOMAIN usServer /\ usServer' = [usServer EXCEPT ![r.form.user] = r.form.role]
        BY <2>3 DEF CanApply, StoreUser, Applied
      <3>2. QED
        BY <2>1, <2>3, <3>1
    <2>4. QED
      BY <1>1, <2>2, <2>3
  <1>2. QED
    BY <1>1 DEF EditIsKept, UsStillThere

\* After a change the form that is open is one that was reset, or is still as
\* it was chosen.
LEMMA FormAfterIs ==
    ASSUME UsInv, NEW r
    PROVE  /\ \E dialog \in {"none", "add", "edit", "delete"} :
                 /\ \E user, chosen : FormAfter(r) = [dialog |-> dialog, user |-> user,
                                                      role |-> chosen, busy |-> usForm.busy]
                 /\ ChosenIn(dialog, FormAfter(r), ChoiceAfter(r))
           /\ ChoiceAfter(r) = [role |-> ChoiceAfter(r).role, reset |-> ChoiceAfter(r).reset]
  <1>1. FormAfter(r) = [dialog |-> IF usForm.dialog = r.kind THEN "none" ELSE usForm.dialog,
                        user |-> IF usForm.dialog = r.kind THEN 0 ELSE usForm.user,
                        role |-> IF r.kind = "delete" THEN usForm.role ELSE ResetRole(r.first),
                        busy |-> usForm.busy]
    <2>1. PICK s : s = FormAfter(r)
      OBVIOUS
    <2>2. s = [dialog |-> IF usForm.dialog = r.kind THEN "none" ELSE usForm.dialog,
               user |-> IF usForm.dialog = r.kind THEN 0 ELSE usForm.user,
               role |-> IF r.kind = "delete" THEN usForm.role ELSE ResetRole(r.first),
               busy |-> usForm.busy]
      BY <2>1 DEF FormAfter, UsInv, UsShape
    <2>3. QED
      BY <2>1, <2>2
  <1>2. usForm.dialog \notin {"none", r.kind}
            => ChoiceAfter(r) = [role |-> usChoice.role, reset |-> usChoice.reset \/ r.kind # "delete"]
    BY DEF ChoiceAfter, UsInv, UsShape
  <1>3. usForm.dialog \in {"none", r.kind} => ChoiceAfter(r) = NoChoice
    BY DEF ChoiceAfter
  <1>4. ChoiceAfter(r) = [role |-> ChoiceAfter(r).role, reset |-> ChoiceAfter(r).reset]
    <2>1. CASE usForm.dialog \in {"none", r.kind}
      <3>1. ChoiceAfter(r) = [role |-> "admin", reset |-> FALSE]
        BY <1>3, <2>1 DEF NoChoice
      <3>2. QED
        BY <3>1
    <2>2. CASE usForm.dialog \notin {"none", r.kind}
      <3>1. PICK a, b : ChoiceAfter(r) = [role |-> a, reset |-> b]
        BY <1>2, <2>2
      <3>2. QED
        BY <3>1
    <2>3. QED
      BY <2>1, <2>2
  <1>5. ChosenIn(FormAfter(r).dialog, FormAfter(r), ChoiceAfter(r))
    <2>1. CASE usForm.dialog \in {"none", r.kind}
      BY <1>1, <2>1 DEF ChosenIn
    <2>2. CASE usForm.dialog \notin {"none", r.kind}
      <3>1. /\ FormAfter(r).dialog = usForm.dialog
            /\ r.kind = "delete" => FormAfter(r).role = usForm.role
        BY <1>1, <2>2
      <3>2. /\ ChoiceAfter(r).role = usChoice.role
            /\ ChoiceAfter(r).reset = (usChoice.reset \/ r.kind # "delete")
        BY <1>2, <2>2
      <3>3. ChosenIn(usForm.dialog, usForm, usChoice)
        BY DEF UsInv, RolesChosen
      <3>4. QED
        BY <3>1, <3>2, <3>3 DEF ChosenIn
    <2>3. QED
      BY <2>1, <2>2
  <1>6. FormAfter(r).dialog \in {"none", "add", "edit", "delete"}
    BY <1>1 DEF UsInv, UsShape
  <1>7. PICK a, b, c : FormAfter(r) = [dialog |-> a, user |-> b, role |-> c, busy |-> usForm.busy]
    BY <1>1
  <1>8. FormAfter(r).dialog = a
    BY <1>7
  <1>9. a \in {"none", "add", "edit", "delete"} /\ ChosenIn(a, FormAfter(r), ChoiceAfter(r))
    BY <1>5, <1>6, <1>8
  <1>10. QED
    BY <1>4, <1>7, <1>9

LEMMA ChangedUserKeeps ==
    ASSUME UsInv, NEW r \in usReqs, UserChanged(r)
    PROVE  UsInv' /\ EditIsKept
  <1>1. /\ r.kind \in {"add", "edit", "delete"} /\ CanApply(r) /\ StoreUser(r)
        /\ usChoice' = ChoiceAfter(r) /\ usStale' = TRUE
    BY DEF UserChanged
  <1>2. /\ UsOthers(r) \in SUBSET usReqs /\ UsOthers(r) = usReqs \ {r}
        /\ UsIsRequest(r) /\ ChosenIn(r.kind, r.form, r.choice)
    BY DEF UsOthers, UsInv, UsShape, RolesChosen
  <1>3. PICK dialog \in {"none", "add", "edit", "delete"} :
            /\ \E user, chosen : FormAfter(r) = [dialog |-> dialog, user |-> user,
                                                 role |-> chosen, busy |-> usForm.busy]
            /\ ChosenIn(dialog, FormAfter(r), ChoiceAfter(r))
    BY FormAfterIs
  <1>4. /\ \E user, chosen, busy :
               usForm' = [dialog |-> dialog, user |-> user, role |-> chosen, busy |-> busy]
        /\ usChoice' = [role |-> usChoice'.role, reset |-> usChoice'.reset]
        /\ ChosenIn(dialog, usForm', usChoice')
    <2> PICK user, chosen : FormAfter(r) = [dialog |-> dialog, user |-> user,
                                            role |-> chosen, busy |-> usForm.busy]
      BY <1>3
    <2>1. usForm' = FormAfter(r) \/ usForm' = [FormAfter(r) EXCEPT !.busy = FALSE]
      BY DEF UserChanged
    <2>2. usChoice' = [role |-> usChoice'.role, reset |-> usChoice'.reset]
      BY <1>1, FormAfterIs
    <2>3. PICK busy : usForm' = [dialog |-> dialog, user |-> user, role |-> chosen, busy |-> busy]
      BY <1>3, <2>1
    <2>4. ChosenIn(dialog, usForm', usChoice')
      BY <1>1, <1>3, <2>3 DEF ChosenIn
    <2>5. QED
      BY <2>2, <2>3, <2>4
  <1>5. /\ \A s \in usReqs' : UsIsRequest(s) /\ ChosenIn(s.kind, s.form, s.choice)
        /\ UsKnown'
        /\ usShown' = [users |-> usShown'.users, loading |-> usShown'.loading, error |-> usShown'.error]
        /\ \A s \in UsOthers(r) : UsStillThere(s)
    <2>1. CASE r.kind = "add"
      <3>1. /\ usReqs' = UsOutdated(UsOthers(r)) \cup {[r EXCEPT !.kind = "refresh"]}
            /\ usShown' = usShown
        BY <2>1 DEF UserChanged
      <3>2. /\ \A s \in UsOutdated(UsOthers(r)) :
                   UsIsRequest(s) /\ s.dirty /\ ChosenIn(s.kind, s.form, s.choice)
            /\ \A s \in UsOthers(r) : \E t \in UsOutdated(UsOthers(r)) : t.n = s.n /\ t.kind = s.kind
        BY <1>2, UsOutdatedAre
      <3>3. [r EXCEPT !.kind = "refresh"] =
                [n |-> r.n, kind |-> "refresh", since |-> r.since, dirty |-> r.dirty,
                 form |-> r.form, choice |-> r.choice, first |-> r.first]
        BY <1>2 DEF UsIsRequest
      <3>4. PICK new : new = [r EXCEPT !.kind = "refresh"]
        OBVIOUS
      <3>5. UsIsRequest(new) /\ new.kind = "refresh"
        BY <3>3, <3>4 DEF UsIsRequest
      <3>6. \A s \in usReqs' : UsIsRequest(s) /\ ChosenIn(s.kind, s.form, s.choice)
        BY <3>1, <3>2, <3>4, <3>5 DEF ChosenIn
      <3>7. UsKnown'
        BY <1>1, <3>1, <3>2, <3>4, <3>5 DEF UsKnown
      <3>8. \A s \in UsOthers(r) : UsStillThere(s)
        BY <3>1, <3>2 DEF UsStillThere
      <3>9. QED
        BY <3>1, <3>6, <3>7, <3>8 DEF UsInv, UsShape
    <2>2. CASE r.kind # "add"
      <3>1. LoadUsers(Applied(r), UsOthers(r)) /\ usServer' = Applied(r)
        BY <2>2 DEF UserChanged, StoreUser
      <3>2. /\ \A s \in usReqs' : UsIsRequest(s) /\ ChosenIn(s.kind, s.form, s.choice)
            /\ UsKnown'
            /\ usShown' = [users |-> usShown.users, loading |-> TRUE, error |-> FALSE]
            /\ \A s \in UsOthers(r) : UsStillThere(s)
        BY <1>2, <3>1, UsersLoaded
      <3>3. QED
        BY <3>2
    <2>3. QED
      BY <2>1, <2>2
  <1>6. EditIsKept
    BY <1>1, <1>2, <1>5, StoredRole
  <1>7. UsShape'
    BY <1>3, <1>4, <1>5 DEF UsShape, UsIsRequest
  <1>8. RolesChosen'
    BY <1>4, <1>5 DEF RolesChosen, ChosenIn
  <1>9. QED
    BY <1>5, <1>6, <1>7, <1>8 DEF UsInv

LEMMA UnchangedUserKeeps ==
    ASSUME UsInv, NEW r \in usReqs, UserNotChanged(r)
    PROVE  UsInv' /\ EditIsKept
  <1>1. /\ r.kind \in {"add", "edit", "delete"} /\ UNCHANGED <<usShown, usChoice>>
        /\ usForm' = [dialog |-> usForm.dialog, user |-> usForm.user, role |-> usForm.role,
                      busy |-> FALSE]
    BY DEF UserNotChanged, UsInv, UsShape
  <1>2. CASE usReqs' = UsOthers(r) /\ UNCHANGED <<usServer, usAdded, usStale>>
    <2>1. UsShape' /\ RolesChosen'
      BY <1>1, <1>2 DEF UsOthers, UsInv, UsShape, UsIsRequest, RolesChosen, ChosenIn
    <2>2. UsKnown'
      BY <1>1, <1>2 DEF UsOthers, UsInv, UsKnown, UsListing
    <2>3. EditIsKept
      BY <1>2 DEF EditIsKept
    <2>4. QED
      BY <2>1, <2>2, <2>3 DEF UsInv
  <1>3. CASE CanApply(r) /\ StoreUser(r) /\ usReqs' = UsOutdated(UsOthers(r)) /\ usStale'
    <2>1. UsOthers(r) \in SUBSET usReqs /\ UsOthers(r) = usReqs \ {r}
      BY DEF UsOthers
    <2>2. /\ \A s \in usReqs' : UsIsRequest(s) /\ s.dirty /\ ChosenIn(s.kind, s.form, s.choice)
          /\ \A s \in UsOthers(r) : \E t \in usReqs' : t.n = s.n /\ t.kind = s.kind
      BY <1>3, <2>1, UsOutdatedAre
    <2>3. UsShape'
      BY <1>1, <2>2 DEF UsInv, UsShape, UsIsRequest
    <2>4. RolesChosen'
      BY <1>1, <2>2 DEF UsInv, RolesChosen, ChosenIn
    <2>5. UsKnown'
      BY <1>3, <2>2 DEF UsKnown
    <2>6. EditIsKept
      BY <1>1, <1>3, <2>1, <2>2, StoredRole DEF UsStillThere
    <2>7. QED
      BY <2>3, <2>4, <2>5, <2>6 DEF UsInv
  <1>4. QED
    BY <1>2, <1>3 DEF UserNotChanged

LEMMA OtherAdminKeeps ==
    ASSUME UsInv, OtherAdmin
    PROVE  UsInv' /\ EditIsKept
  <1>1. usReqs' = UsOutdated(usReqs) /\ usStale' /\ UNCHANGED <<usShown, usForm, usChoice>>
    BY DEF OtherAdmin
  <1>2. /\ \A s \in usReqs' : UsIsRequest(s) /\ s.dirty /\ ChosenIn(s.kind, s.form, s.choice)
        /\ \A r \in usReqs : UsStillThere(r)
    BY <1>1, UsOutdatedAre DEF UsStillThere
  <1>3. UsShape' /\ RolesChosen'
    BY <1>1, <1>2 DEF UsInv, UsShape, UsIsRequest, RolesChosen, ChosenIn
  <1>4. UsKnown'
    BY <1>1, <1>2 DEF UsKnown
  <1>5. QED
    BY <1>2, <1>3, <1>4, NotAnsweredKeeps DEF UsInv

LEMMA NextKeepsUsers == UsInv /\ [UsersNext]_usVars => UsInv' /\ (UsersNext => EditIsKept)
  <1> SUFFICES ASSUME UsInv, [UsersNext]_usVars
               PROVE  UsInv' /\ (UsersNext => EditIsKept)
    OBVIOUS
  <1>1. CASE RetryUsers
    BY <1>1, ReloadKeeps DEF RetryUsers
  <1>2. CASE OpenAdd \/ OpenEdit \/ OpenDelete \/ CloseDialog \/ PickRole
    BY <1>2, UserDialogKeeps
  <1>3. CASE SubmitUser
    BY <1>3, SubmitKeeps
  <1>4. ASSUME NEW r \in usReqs, UsersListed(r) \/ UsersNotListed(r)
        PROVE  UsInv' /\ EditIsKept
    BY <1>4, ListAnswerKeeps
  <1>5. ASSUME NEW r \in usReqs, UserChanged(r)
        PROVE  UsInv' /\ EditIsKept
    BY <1>5, ChangedUserKeeps
  <1>6. ASSUME NEW r \in usReqs, UserRefreshed(r)
        PROVE  UsInv' /\ EditIsKept
    BY <1>6, ReloadKeeps DEF UserRefreshed, UsOthers
  <1>7. ASSUME NEW r \in usReqs, UserNotChanged(r)
        PROVE  UsInv' /\ EditIsKept
    BY <1>7, UnchangedUserKeeps
  <1>8. CASE OtherAdmin
    BY <1>8, OtherAdminKeeps
  <1>9. CASE UNCHANGED usVars
    <2>1. UNCHANGED <<usServer, usShown, usForm, usChoice, usReqs, usStale>>
      BY <1>9 DEF usVars
    <2>2. UsInv' /\ EditIsKept
      BY <2>1 DEF UsInv, UsShape, UsIsRequest, RolesChosen, ChosenIn, UsKnown, UsListing, EditIsKept
    <2>3. QED
      BY <2>2
  <1>10. QED
    BY <1>1, <1>2, <1>3, <1>4, <1>5, <1>6, <1>7, <1>8, <1>9 DEF UsersNext

-----------------------------------------------------------------------------
(* The Peppol pages.                                                        *)

PpShape ==
    /\ ppServer \in [Halves -> Nat] /\ ppShown \in [Halves -> Nat] /\ ppAtLeast \in [Halves -> Nat]
    /\ \A r \in ppReqs : r.kind = "load" => r.since \in [Halves -> Nat]
    /\ ppEvidence = [open |-> ppEvidence.open, shown |-> ppEvidence.shown,
                     failed |-> ppEvidence.failed]

\* What the page must show it has reached, or is being loaded, or never will be.
PpReached ==
    (\E r \in ppReqs : r.kind = "load") \/ ppStale \/ \A h \in Halves : ppShown[h] >= ppAtLeast[h]

\* What is open has been asked for.
PpAsked ==
    ppEvidence.open
        => ppEvidence.shown \/ ppEvidence.failed \/ \E r \in ppReqs : r.kind = "message"

PpInv == PpShape /\ PpReached /\ PpAsked

LEMMA PpSendIs ==
    ASSUME NEW reqs \in SUBSET ppReqs, NEW kind, NEW id, PpSend(reqs, kind, id), PpShape,
           ppServer' \in [Halves -> Nat]
    PROVE  /\ \A r \in ppReqs' : r.kind = "load" => r.since \in [Halves -> Nat]
           /\ \A r \in reqs : r \in ppReqs'
           /\ \E r \in ppReqs' : r.kind = kind
  <1>1. PICK new : new = [n |-> ppSent + 1, kind |-> kind, since |-> ppServer', id |-> id]
    OBVIOUS
  <1>2. new.kind = kind /\ new.since \in [Halves -> Nat] /\ ppReqs' = reqs \cup {new}
    BY <1>1 DEF PpSend
  <1>3. QED
    BY <1>2 DEF PpShape

\* A load that is sent is there until it is answered.
LEMMA LoadKeeps ==
    ASSUME PpInv, NEW reqs \in SUBSET ppReqs, LoadPeppol(reqs), ppServer' \in [Halves -> Nat],
           UNCHANGED ppShown,
           \/ UNCHANGED ppEvidence /\ \A r \in ppReqs : r.kind = "message" => r \in reqs
           \/ ppEvidence' = ClosedEvidence
    PROVE  PpInv'
  <1>1. PpSend(reqs, "load", "") /\ ppAtLeast' = ppServer' /\ PpShape
    BY DEF LoadPeppol, PpInv
  <1>2. /\ \A r \in ppReqs' : r.kind = "load" => r.since \in [Halves -> Nat]
        /\ \A r \in reqs : r \in ppReqs'
        /\ \E r \in ppReqs' : r.kind = "load"
    BY <1>1, PpSendIs
  <1>3. ppEvidence' = [open |-> ppEvidence'.open, shown |-> ppEvidence'.shown,
                       failed |-> ppEvidence'.failed]
    BY DEF ClosedEvidence, PpInv, PpShape
  <1>4. PpShape'
    BY <1>1, <1>2, <1>3 DEF PpShape
  <1>5. PpReached'
    BY <1>2 DEF PpReached
  <1>6. PpAsked'
    BY <1>2 DEF PpInv, PpAsked, ClosedEvidence
  <1>7. QED
    BY <1>4, <1>5, <1>6 DEF PpInv

\* A request of another kind, and an answer to one, leave the loads alone.
LEMMA PpOtherKeeps ==
    ASSUME PpInv, UNCHANGED <<ppServer, ppShown, ppAtLeast, ppStale, ppEvidence>>,
           \A r \in ppReqs : r.kind \in {"load", "message"} => r \in ppReqs',
           \A r \in ppReqs' : r.kind = "load" => r.since \in [Halves -> Nat]
    PROVE  PpInv'
  BY DEF PpInv, PpShape, PpReached, PpAsked

LEMMA SettingsActionKeeps ==
    ASSUME PpInv, RetrySettings \/ TypeSelf \/ SaveSelf \/ TestConnection \/ PeppolChanges
    PROVE  PpInv'
  <1>1. PpShape
    BY DEF PpInv
  <1>2. CASE RetrySettings
    BY <1>1, <1>2, LoadKeeps DEF RetrySettings, PpShape
  <1>3. CASE TypeSelf
    BY <1>1, <1>3, PpOtherKeeps DEF TypeSelf, ppLoadVars, PpShape
  <1>4. CASE SaveSelf
    <2>1. /\ \A r \in ppReqs' : r.kind = "load" => r.since \in [Halves -> Nat]
          /\ \A r \in ppReqs : r \in ppReqs'
      BY <1>1, <1>4, PpSendIs DEF SaveSelf, PpShape
    <2>2. QED
      BY <1>4, <2>1, PpOtherKeeps DEF SaveSelf
  <1>5. CASE TestConnection
    <2>1. /\ \A r \in ppReqs' : r.kind = "load" => r.since \in [Halves -> Nat]
          /\ \A r \in ppReqs : r \in ppReqs'
      BY <1>1, <1>5, PpSendIs DEF TestConnection, PpShape
    <2>2. QED
      BY <1>5, <2>1, PpOtherKeeps DEF TestConnection
  <1>6. CASE PeppolChanges
    <2>1. ppServer' \in [Halves -> Nat]
      BY <1>1, <1>6 DEF PeppolChanges, PpShape
    <2>2. QED
      BY <1>6, <2>1 DEF PeppolChanges, PpInv, PpShape, PpReached, PpAsked
  <1>7. QED
    BY <1>2, <1>3, <1>4, <1>5, <1>6

LEMMA SelfAnswerKeeps ==
    ASSUME PpInv, NEW r \in ppReqs, SelfSaved(r) \/ SelfNotSaved(r) \/ Pinged(r)
    PROVE  PpInv'
  <1>1. PpShape
    BY DEF PpInv
  <1>2. CASE SelfSaved(r)
    <2>1. ppServer' \in [Halves -> Nat]
      BY <1>1, <1>2 DEF SelfSaved, PpShape
    <2>2. PpOthers(r) \in SUBSET ppReqs /\ \A s \in ppReqs : s.kind = "message" => s \in PpOthers(r)
      BY <1>2 DEF SelfSaved, PpOthers
    <2>3. QED
      BY <1>2, <2>1, <2>2, LoadKeeps DEF SelfSaved
  <1>3. CASE SelfNotSaved(r) \/ Pinged(r)
    BY <1>1, <1>3, PpOtherKeeps DEF SelfNotSaved, Pinged, PpOthers, PpShape
  <1>4. QED
    BY <1>2, <1>3

\* A load that was not overtaken brings what the page must have reached.
LEMMA LoadedKeeps ==
    ASSUME PpInv, NEW r \in ppReqs, PeppolLoaded(r)
    PROVE  PpInv'
  <1>1. /\ r.kind = "load" /\ ppReqs' = ppReqs \ {r} /\ ppShown' \in PeppolVersions(r)
        /\ ppStale' = (ppStale \/ Overtaken(r))
        /\ UNCHANGED <<ppServer, ppAtLeast, ppEvidence>>
    BY DEF PeppolLoaded, PpOthers
  <1>2. /\ r.since \in [Halves -> Nat] /\ ppAtLeast \in [Halves -> Nat]
        /\ ppShown' \in [Halves -> Nat] /\ \A h \in Halves : r.since[h] <= ppShown'[h]
    BY <1>1 DEF PpInv, PpShape, PeppolVersions
  <1>3. PpShape'
    BY <1>1, <1>2 DEF PpInv, PpShape
  <1>4. PpAsked'
    BY <1>1 DEF PpInv, PpAsked
  <1>5. PpReached'
    <2>1. CASE ppStale'
      BY <2>1 DEF PpReached
    <2>2. CASE ~ppStale'
      <3>1. \A h \in Halves : ~(r.since[h] < ppAtLeast[h])
        BY <1>1, <2>2 DEF Overtaken
      <3>2. \A h \in Halves : ppShown'[h] >= ppAtLeast[h]
        <4>1. SUFFICES ASSUME NEW h \in Halves
                       PROVE  ppShown'[h] >= ppAtLeast[h]
          OBVIOUS
        <4>2. r.since[h] \in Nat /\ ppAtLeast[h] \in Nat /\ ppShown'[h] \in Nat
          BY <1>2
        <4>3. QED
          BY <1>2, <3>1, <4>2
      <3>3. QED
        BY <1>1, <3>2 DEF PpReached
    <2>3. QED
      BY <2>1, <2>2
  <1>6. QED
    BY <1>3, <1>4, <1>5 DEF PpInv

LEMMA LedgerActionKeeps ==
    ASSUME PpInv, RefreshLedger \/ ToggleEvidence \/ \E r \in ppReqs : EvidenceAnswered(r)
    PROVE  PpInv'
  <1>1. PpShape
    BY DEF PpInv
  <1>2. CASE RefreshLedger
    <2>1. Unmounted(ppReqs) \in SUBSET ppReqs
      BY DEF Unmounted
    <2>2. QED
      BY <1>1, <1>2, <2>1, LoadKeeps DEF RefreshLedger, PpShape
  <1>3. CASE ToggleEvidence
    <2>1. /\ ppEvidence' = [open |-> ~ppEvidence.open, shown |-> ppEvidence.shown,
                            failed |-> ppEvidence.failed]
          /\ UNCHANGED <<ppServer, ppShown, ppStale, ppAtLeast>>
      BY <1>1, <1>3 DEF ToggleEvidence, PpShape
    <2>2. CASE ~ppEvidence.open /\ ~ppEvidence.shown
      <3>1. PpSend(ppReqs, "message", "")
        BY <1>3, <2>2 DEF ToggleEvidence
      <3>2. /\ \A r \in ppReqs' : r.kind = "load" => r.since \in [Halves -> Nat]
            /\ \A r \in ppReqs : r \in ppReqs'
            /\ \E r \in ppReqs' : r.kind = "message"
        BY <1>1, <2>1, <3>1, PpSendIs DEF PpShape
      <3>3. QED
        BY <2>1, <3>2 DEF PpInv, PpShape, PpReached, PpAsked
    <2>3. CASE ppEvidence.open \/ ppEvidence.shown
      <3>1. UNCHANGED ppReqs
        BY <1>3, <2>3 DEF ToggleEvidence
      <3>2. ppEvidence'.open => ppEvidence'.shown
        BY <2>1, <2>3
      <3>3. QED
        BY <2>1, <3>1, <3>2 DEF PpInv, PpShape, PpReached, PpAsked
    <2>4. QED
      BY <2>2, <2>3
  <1>4. ASSUME NEW r \in ppReqs, EvidenceAnswered(r)
        PROVE  PpInv'
    <2>1. /\ r.kind = "message" /\ ppReqs' = ppReqs \ {r}
          /\ UNCHANGED <<ppServer, ppShown, ppStale, ppAtLeast>>
      BY <1>4 DEF EvidenceAnswered, PpOthers
    <2>2. /\ ppEvidence' = [open |-> ppEvidence'.open, shown |-> ppEvidence'.shown,
                            failed |-> ppEvidence'.failed]
          /\ ppEvidence'.shown \/ ppEvidence'.failed
      BY <1>1, <1>4 DEF EvidenceAnswered, PpShape
    <2>3. QED
      BY <2>1, <2>2 DEF PpInv, PpShape, PpReached, PpAsked
  <1>5. QED
    BY <1>2, <1>3, <1>4

LEMMA NotLoadedKeeps ==
    ASSUME PpInv, NEW r \in ppReqs, PeppolNotLoaded(r)
    PROVE  PpInv'
  <1>1. /\ ppReqs' \subseteq ppReqs /\ ppStale' /\ ppEvidence' = ClosedEvidence
        /\ UNCHANGED <<ppServer, ppShown, ppAtLeast>>
    BY DEF PeppolNotLoaded, Unmounted, PpOthers
  <1>2. QED
    BY <1>1 DEF PpInv, PpShape, PpReached, PpAsked, ClosedEvidence

LEMMA InitPeppolPages == PeppolPagesInit => PpInv
  <1> SUFFICES ASSUME PeppolPagesInit
               PROVE  PpInv
    OBVIOUS
  <1>1. [h \in Halves |-> 1] \in [Halves -> Nat] /\ [h \in Halves |-> 0] \in [Halves -> Nat]
    OBVIOUS
  <1>2. PICK new : new = [n |-> 1, kind |-> "load", since |-> [h \in Halves |-> 1], id |-> ""]
    OBVIOUS
  <1>3. ppReqs = {new} /\ new.kind = "load" /\ new.since \in [Halves -> Nat]
    BY <1>1, <1>2 DEF PeppolPagesInit
  <1>4. QED
    BY <1>1, <1>3 DEF PeppolPagesInit, ClosedEvidence, PpInv, PpShape, PpReached, PpAsked

LEMMA NextKeepsPeppolPages == PpInv /\ [SettingsNext \/ LedgerNext]_ppVars => PpInv'
  <1> SUFFICES ASSUME PpInv, [SettingsNext \/ LedgerNext]_ppVars
               PROVE  PpInv'
    OBVIOUS
  <1>1. CASE RetrySettings \/ TypeSelf \/ SaveSelf \/ TestConnection \/ PeppolChanges
    BY <1>1, SettingsActionKeeps
  <1>2. ASSUME NEW r \in ppReqs, PeppolLoaded(r)
        PROVE  PpInv'
    BY <1>2, LoadedKeeps
  <1>3. ASSUME NEW r \in ppReqs, PeppolNotLoaded(r)
        PROVE  PpInv'
    BY <1>3, NotLoadedKeeps
  <1>4. ASSUME NEW r \in ppReqs, SelfSaved(r) \/ SelfNotSaved(r) \/ Pinged(r)
        PROVE  PpInv'
    BY <1>4, SelfAnswerKeeps
  <1>5. CASE RefreshLedger \/ ToggleEvidence \/ \E r \in ppReqs : EvidenceAnswered(r)
    BY <1>5, LedgerActionKeeps
  <1>6. CASE UNCHANGED ppVars
    <2>1. UNCHANGED <<ppServer, ppShown, ppReqs, ppStale, ppAtLeast, ppEvidence>>
      BY <1>6 DEF ppVars, ppLoadVars
    <2>2. QED
      BY <2>1 DEF PpInv, PpShape, PpReached, PpAsked
  <1>7. QED
    BY <1>1, <1>2, <1>3, <1>4, <1>5, <1>6 DEF SettingsNext, LedgerNext

\* At rest nothing is under way, and each part of the invariant is what the
\* property says of it.
LEMMA PeppolPagesAreFresh == PpInv => PeppolPagesFresh
  BY DEF PpInv, PpReached, PpAsked, PeppolPagesFresh

-----------------------------------------------------------------------------
(* The console: each page by itself keeps its invariant, whichever of them  *)
(* is open.                                                                 *)

PagesInv == LicInv /\ LicFreshInv /\ UsInv /\ SecInv /\ PpInv

LEMMA InitPages == ConsoleInit => PagesInv
  BY InitLicense, InitLicenseFresh, InitUsers, InitSecurity, InitPeppolPages
  DEF ConsoleInit, PagesInv

LEMMA NextKeepsPages ==
    ASSUME PagesInv, [ConsoleNext]_consoleVars
    PROVE  PagesInv' /\ (UsersNext => EditIsKept)
  <1>1. [LicenseNext]_licVars
    BY DEF ConsoleNext, consoleVars
  <1>2. [UsersNext]_usVars
    BY DEF ConsoleNext, consoleVars
  <1>3. [SecurityNext]_secVars
    BY DEF ConsoleNext, consoleVars
  <1>4. [SettingsNext \/ LedgerNext]_ppVars
    <2>1. ConsoleNext => SettingsNext \/ LedgerNext \/ UNCHANGED ppVars
      BY DEF ConsoleNext
    <2>2. QED
      BY <2>1 DEF consoleVars
  <1>5. LicInv' /\ LicFreshInv'
    BY <1>1, NextKeepsLicense, NextKeepsLicenseFresh DEF PagesInv
  <1>6. UsInv' /\ (UsersNext => EditIsKept)
    BY <1>2, NextKeepsUsers DEF PagesInv
  <1>7. SecInv'
    BY <1>3, NextKeepsSecurity DEF PagesInv
  <1>8. PpInv'
    BY <1>4, NextKeepsPeppolPages DEF PagesInv
  <1>9. QED
    BY <1>5, <1>6, <1>7, <1>8 DEF PagesInv

\* LicensePage.tsx, load; UsersPage.tsx, load; AuthProvider.tsx, refresh;
\* PeppolSettingsPage.tsx and PeppolLedgerPage.tsx, load: a page that has every
\* answer shows what the server has, but for the exceptions each part names.
THEOREM PagesAreFresh == ConsoleSpec => []SettledPagesAreFresh
  <1>1. PagesInv => SettledPagesAreFresh
    <2>1. LicFreshInv => LicenseFresh
      BY DEF LicFreshInv, LicenseFresh, Loads
    <2>2. UsInv => UsersFresh
      BY DEF UsInv, UsKnown, UsListing, UsersFresh
    <2>3. SecInv => SecurityFresh
      BY DEF SecInv, SecKnown, SecurityFresh
    <2>4. QED
      BY <2>1, <2>2, <2>3, PeppolPagesAreFresh DEF PagesInv, SettledPagesAreFresh
  <1>2. PagesInv /\ [ConsoleNext]_consoleVars => PagesInv'
    BY NextKeepsPages
  <1>3. QED
    BY <1>1, <1>2, InitPages, PTL DEF ConsoleSpec

\* UsersPage.tsx, onAdd and onEdit: the role the server stores is the one chosen
\* in the dialog, whichever answers came while it was open, unless one of them
\* reset the form.
THEOREM ChosenRoleIsStored == ConsoleSpec => EditKeepsRole
  <1>1. PagesInv /\ [ConsoleNext]_consoleVars =>
            [\A r \in usReqs :
                LET answered == \A s \in usReqs' : s.n # r.n \/ s.kind # r.kind
                    user == IF r.kind = "add" THEN usAdded' ELSE r.form.user
                IN answered /\ r.kind \in {"add", "edit"} /\ ~r.choice.reset /\ usServer' # usServer
                      => usServer'[user] = r.choice.role]_usVars
    <2>1. SUFFICES ASSUME PagesInv, [ConsoleNext]_consoleVars
                   PROVE  EditIsKept \/ UNCHANGED usVars
      BY DEF EditIsKept
    <2>2. UsersNext \/ UNCHANGED usVars
      BY <2>1 DEF ConsoleNext, consoleVars
    <2>3. QED
      BY <2>1, <2>2, NextKeepsPages
  <1>2. PagesInv /\ [ConsoleNext]_consoleVars => PagesInv'
    BY NextKeepsPages
  <1>3. QED
    BY <1>1, <1>2, InitPages, PTL DEF ConsoleSpec, EditKeepsRole

-----------------------------------------------------------------------------
(* The uploads of the inbox page.                                           *)

UpEntry(e) == e = [settled |-> e.settled, drop |-> e.drop, from |-> e.from, shared |-> e.shared]
UpBatch(b) == /\ b = [drop |-> b.drop, files |-> b.files, next |-> b.next,
                      refetch |-> b.refetch, filter |-> b.filter]
              /\ b.files \in Nat /\ b.next \in Nat

\* A batch that will come to the entry at a position.
ComesTo(b, i) == b.drop = inboxUploads[i].drop /\ b.next <= i /\ i <= b.files

\* An entry that is not settled is one that its batch still comes to; if it
\* shares the page with no other drop, every batch is its own.
UpInv ==
    /\ DOMAIN inboxUploads \subseteq Nat
    /\ \A b \in inboxBatches : UpBatch(b)
    /\ \A i \in DOMAIN inboxUploads :
          /\ UpEntry(inboxUploads[i])
          /\ inboxUploads[i].settled \/ \E b \in inboxBatches : ComesTo(b, i)
          /\ ~inboxUploads[i].shared =>
                /\ \A b \in inboxBatches : b.drop = inboxUploads[i].drop
                /\ inboxUploads[i].settled => inboxUploads[i].from = inboxUploads[i].drop

LEMMA InitUploads == InboxInit => UpInv
  BY DEF InboxInit, UpInv

LEMMA DropKeeps ==
    ASSUME UpInv, DropFiles
    PROVE  UpInv'
  <1>1. PICK k \in 1 .. MaxFiles :
            /\ inboxUploads' = [i \in 1 .. k |-> [settled |-> FALSE, drop |-> inboxDropped + 1,
                                                  from |-> 0, shared |-> inboxBatches # {}]]
            /\ inboxBatches' = inboxBatches
                               \cup {[drop |-> inboxDropped + 1, files |-> k, next |-> 1,
                                      refetch |-> FALSE, filter |-> inboxFilter]}
    BY DEF DropFiles
  <1>2. PICK new : new = [drop |-> inboxDropped + 1, files |-> k, next |-> 1,
                          refetch |-> FALSE, filter |-> inboxFilter]
    OBVIOUS
  <1>3. k \in Nat
    BY <1>1, InboxAssumption
  <1>4. /\ UpBatch(new) /\ new.drop = inboxDropped + 1 /\ new.files = k /\ new.next = 1
        /\ inboxBatches' = inboxBatches \cup {new}
    BY <1>1, <1>2, <1>3 DEF UpBatch
  <1>5. DOMAIN inboxUploads' = 1 .. k /\ DOMAIN inboxUploads' \subseteq Nat
    BY <1>1, <1>3
  <1>6. ASSUME NEW i \in DOMAIN inboxUploads'
        PROVE  /\ UpEntry(inboxUploads'[i]) /\ ~inboxUploads'[i].settled
               /\ inboxUploads'[i].drop = inboxDropped + 1
               /\ inboxUploads'[i].shared = (inboxBatches # {})
               /\ \E b \in inboxBatches' : ComesTo(b, i)'
    <2>1. inboxUploads'[i] = [settled |-> FALSE, drop |-> inboxDropped + 1,
                              from |-> 0, shared |-> inboxBatches # {}]
      BY <1>1, <1>5
    <2>2. i \in Nat /\ 1 <= i /\ i <= k
      BY <1>3, <1>5
    <2>3. inboxUploads'[i].drop = inboxDropped + 1
      BY <2>1
    <2>4. \E b \in inboxBatches' : ComesTo(b, i)'
      BY <1>4, <2>2, <2>3 DEF ComesTo
    <2>5. QED
      BY <2>1, <2>4 DEF UpEntry
  <1>7. QED
    BY <1>4, <1>5, <1>6 DEF UpInv

LEMMA UploadKeeps ==
    ASSUME UpInv, NEW b \in inboxBatches, UploadFile(b)
    PROVE  UpInv'
  <1>1. PICK refetch :
            /\ Uploading(b)
            /\ inboxUploads' = [i \in DOMAIN inboxUploads |->
                                   IF i = b.next
                                   THEN [inboxUploads[i] EXCEPT !.settled = TRUE, !.from = b.drop]
                                   ELSE inboxUploads[i]]
            /\ inboxBatches' = (inboxBatches \ {b})
                               \cup {[b EXCEPT !.next = @ + 1, !.refetch = refetch]}
    BY DEF UploadFile, EntryOf
  <1>2. UpBatch(b)
    BY DEF UpInv
  <1>3. PICK new : new = [b EXCEPT !.next = @ + 1, !.refetch = refetch]
    OBVIOUS
  <1>4. new = [drop |-> b.drop, files |-> b.files, next |-> b.next + 1, refetch |-> refetch,
               filter |-> b.filter]
    BY <1>2, <1>3 DEF UpBatch
  <1>5. /\ UpBatch(new) /\ new.drop = b.drop /\ new.files = b.files /\ new.next = b.next + 1
        /\ inboxBatches' = (inboxBatches \ {b}) \cup {new}
    <2>1. b.files \in Nat /\ b.next + 1 \in Nat
      BY <1>2 DEF UpBatch
    <2>2. UpBatch(new) /\ new.drop = b.drop /\ new.files = b.files /\ new.next = b.next + 1
      BY <1>4, <2>1 DEF UpBatch
    <2>3. QED
      BY <1>1, <1>3, <2>2
  <1>6. DOMAIN inboxUploads' = DOMAIN inboxUploads /\ DOMAIN inboxUploads \subseteq Nat
    BY <1>1 DEF UpInv
  <1>7. ASSUME NEW i \in DOMAIN inboxUploads
        PROVE  /\ UpEntry(inboxUploads'[i])
               /\ inboxUploads'[i].drop = inboxUploads[i].drop
               /\ inboxUploads'[i].shared = inboxUploads[i].shared
               /\ i = b.next => inboxUploads'[i].settled /\ inboxUploads'[i].from = b.drop
               /\ i # b.next => inboxUploads'[i] = inboxUploads[i]
    <2>1. UpEntry(inboxUploads[i])
      BY DEF UpInv
    <2>2. CASE i # b.next
      BY <1>1, <2>1, <2>2
    <2>3. CASE i = b.next
      <3>1. PICK e : e = [inboxUploads[i] EXCEPT !.settled = TRUE, !.from = b.drop]
        OBVIOUS
      <3>2. inboxUploads'[i] = e
        BY <1>1, <2>3, <3>1
      <3>3. e = [settled |-> TRUE, drop |-> inboxUploads[i].drop, from |-> b.drop,
                 shared |-> inboxUploads[i].shared]
        BY <2>1, <3>1 DEF UpEntry
      <3>4. QED
        BY <2>3, <3>2, <3>3 DEF UpEntry
    <2>4. QED
      BY <2>2, <2>3
  <1>8. ASSUME NEW i \in DOMAIN inboxUploads, ~inboxUploads'[i].settled
        PROVE  \E c \in inboxBatches' : ComesTo(c, i)'
    <2>1. i # b.next /\ inboxUploads'[i] = inboxUploads[i] /\ i \in Nat
      BY <1>6, <1>7, <1>8
    <2>2. PICK c \in inboxBatches : ComesTo(c, i)
      BY <1>8, <2>1 DEF UpInv
    <2>3. CASE c # b
      BY <1>5, <2>1, <2>2, <2>3 DEF ComesTo
    <2>4. CASE c = b
      <3>1. new.next <= i /\ i <= new.files /\ new.drop = inboxUploads'[i].drop
        BY <1>2, <1>5, <2>1, <2>2, <2>4 DEF ComesTo, UpBatch
      <3>2. QED
        BY <1>5, <3>1 DEF ComesTo
    <2>5. QED
      BY <2>3, <2>4
  <1>9. ASSUME NEW i \in DOMAIN inboxUploads, ~inboxUploads'[i].shared
        PROVE  /\ \A c \in inboxBatches' : c.drop = inboxUploads'[i].drop
               /\ inboxUploads'[i].settled => inboxUploads'[i].from = inboxUploads'[i].drop
    <2>1. /\ \A c \in inboxBatches : c.drop = inboxUploads[i].drop
          /\ inboxUploads[i].settled => inboxUploads[i].from = inboxUploads[i].drop
      BY <1>7, <1>9 DEF UpInv
    <2>2. QED
      BY <1>5, <1>7, <2>1
  <1>10. QED
    BY <1>2, <1>5, <1>6, <1>7, <1>8, <1>9 DEF UpInv

LEMMA BatchEndKeeps ==
    ASSUME UpInv, NEW b \in inboxBatches, BatchEnds(b)
    PROVE  UpInv'
  <1>1. /\ ~Uploading(b) /\ inboxBatches' = inboxBatches \ {b} /\ UNCHANGED inboxUploads
    BY DEF BatchEnds
  <1>2. ASSUME NEW i \in DOMAIN inboxUploads
        PROVE  ~ComesTo(b, i)
    BY <1>1 DEF UpInv, UpBatch, ComesTo, Uploading
  <1>3. \A i \in DOMAIN inboxUploads, c \in inboxBatches : ComesTo(c, i) <=> ComesTo(c, i)'
    BY <1>1 DEF ComesTo
  <1>4. QED
    BY <1>1, <1>2, <1>3 DEF UpInv

LEMMA NextKeepsUploads == UpInv /\ [InboxNext]_inboxVars => UpInv'
  <1> SUFFICES ASSUME UpInv, [InboxNext]_inboxVars
               PROVE  UpInv'
    OBVIOUS
  <1>1. CASE DropFiles
    BY <1>1, DropKeeps
  <1>2. ASSUME NEW b \in inboxBatches, UploadFile(b)
        PROVE  UpInv'
    BY <1>2, UploadKeeps
  <1>3. ASSUME NEW b \in inboxBatches, BatchEnds(b)
        PROVE  UpInv'
    BY <1>3, BatchEndKeeps
  <1>4. CASE UNCHANGED <<inboxUploads, inboxBatches>>
    BY <1>4 DEF UpInv, ComesTo
  <1>5. ASSUME ChangeFilter \/ RetryLoad \/ LoadOlder \/ InvoiceArrives \/ AnswerPanel
                   \/ DismissPanel \/ UNCHANGED inboxVars
        PROVE  UNCHANGED <<inboxUploads, inboxBatches>>
    BY <1>5 DEF ChangeFilter, RetryLoad, LoadOlder, InvoiceArrives, AnswerPanel, DismissPanel,
                inboxVars
  <1>6. ASSUME NEW r \in inboxLoads, AnswerList(r) \/ LoadFails(r)
        PROVE  UNCHANGED <<inboxUploads, inboxBatches>>
    BY <1>6 DEF AnswerList, LoadFails
  <1>7. QED
    BY <1>1, <1>2, <1>3, <1>4, <1>5, <1>6 DEF InboxNext

\* InboxPage.tsx, onFiles: whatever drops, uploads and loads come in between,
\* when the last upload ends no entry is left in progress, and an entry tells of
\* its own file unless another drop was made meanwhile.
THEOREM UploadsAreSettled == ConsoleSpec => []UploadsSettled
  <1>1. UpInv => UploadsSettled
    BY DEF UpInv, UploadsSettled
  <1>2. ConsoleInit => UpInv
    BY InitUploads DEF ConsoleInit
  <1>3. UpInv /\ [ConsoleNext]_consoleVars => UpInv'
    BY NextKeepsUploads DEF ConsoleNext, consoleVars
  <1>4. QED
    BY <1>1, <1>2, <1>3, PTL DEF ConsoleSpec

-----------------------------------------------------------------------------
(* The list of the inbox page. A page is cut out of the invoices by their   *)
(* rank, so what is needed of counting is only that ranks grow with the     *)
(* archive and with age.                                                    *)

InLoad(r) == /\ r = [n |-> r.n, filter |-> r.filter, off |-> r.off, append |-> r.append,
                     since |-> r.since]
             /\ r.n \in Nat /\ r.n <= inboxSent /\ r.filter \in Filters /\ r.off \in Nat
             /\ r.append \in BOOLEAN /\ (~r.append => r.off = 0)
             /\ r.since \in Nat /\ r.since <= inboxArchive

InList(l) == /\ l = [rows |-> l.rows, count |-> l.count, total |-> l.total, offset |-> l.offset,
                     loading |-> l.loading, error |-> l.error]
             /\ l.rows \subseteq 1 .. inboxArchive
             /\ l.count \in Nat /\ l.total \in Nat /\ l.offset \in Nat

InBatch(b) == UpBatch(b) /\ b.filter \in Filters /\ b.refetch \in BOOLEAN

InShape ==
    /\ inboxArchive \in Nat /\ inboxSent \in Nat
    /\ inboxFilter \in Filters
    /\ InList(inboxList)
    /\ \A r \in inboxLoads : InLoad(r)
    /\ \A r, s \in inboxLoads : r.n = s.n => r = s
    /\ \A b \in inboxBatches : InBatch(b)
    /\ inboxKnown \in Nat /\ inboxKnown <= inboxArchive

\* The rows of a list are the pages up to its offset, and perhaps more of the
\* newest, of the invoices a filter selects among the first m: an invoice below
\* all of them has at least as many before it as the list counts.
NoHole(f, rows, m) == \A id \in 1 .. m, a, b \in rows :
                          Matches(f, id) /\ a < id /\ id < b => id \in rows
Below(f, l, m) == \A id \in Listed(f, m) :
                      (\A row \in l.rows : id < row) => l.count <= Rank(f, m, id)
Loaded(f, l, m) ==
    /\ l.rows \subseteq Listed(f, m)
    /\ NoHole(f, l.rows, m)
    /\ l.count = IF l.offset + Limit < l.total THEN l.offset + Limit ELSE l.total
    /\ l.count > 0 => l.rows # {}
    /\ l.total <= Cardinality(Listed(f, m))
    /\ Below(f, l, m)

Reaches(f, rows, known) == known > 0 /\ Matches(f, known) => \E id \in rows : id >= known

ReloadsLater == \E b \in inboxBatches : b.refetch

\* The load that will replace the rows knows of every upload that no drop will
\* still reload for; a page to append was asked for with the rows as they are.
Replaced == \E r \in inboxLoads : Newest(r) /\ ~r.append
NewestKnows == \A r \in inboxLoads :
    Newest(r) /\ ~r.append => inboxKnown <= r.since \/ ReloadsLater
AppendFits == \A r \in inboxLoads :
    Newest(r) => /\ r.append /\ r.filter = inboxFilter
                 /\ r.off = inboxList.offset + Limit /\ inboxList.count < inboxList.total
                 /\ Loaded(inboxFilter, inboxList, r.since)
InInv ==
    /\ InShape
    /\ NewestKnows
    /\ inboxDoubt = {} /\ ~Replaced =>
          /\ Loaded(inboxFilter, inboxList, inboxArchive)
          /\ AppendFits
          /\ Reaches(inboxFilter, inboxList.rows, inboxKnown) \/ ReloadsLater

LEMMA ListedAreFinite ==
    ASSUME NEW f, NEW n \in Nat
    PROVE  /\ Listed(f, n) \subseteq Nat
           /\ IsFiniteSet(Listed(f, n))
           /\ Cardinality(Listed(f, n)) \in Nat
           /\ \A S \in SUBSET Listed(f, n) :
                 IsFiniteSet(S) /\ Cardinality(S) \in Nat
                 /\ Cardinality(S) <= Cardinality(Listed(f, n))
           /\ \A id : Rank(f, n, id) \in Nat
  <1>1. IsFiniteSet(1 .. n)
    BY FS_Interval
  <1>2. Listed(f, n) \subseteq 1 .. n
    BY DEF Listed
  <1>3. IsFiniteSet(Listed(f, n))
    BY <1>1, <1>2, FS_Subset
  <1>4. \A S \in SUBSET Listed(f, n) :
           IsFiniteSet(S) /\ Cardinality(S) \in Nat
           /\ Cardinality(S) <= Cardinality(Listed(f, n))
    BY <1>3, FS_Subset, FS_CardinalityType
  <1>5. \A id : {x \in Listed(f, n) : x > id} \in SUBSET Listed(f, n)
    OBVIOUS
  <1>6. \A id : Rank(f, n, id) \in Nat
    BY <1>4, <1>5 DEF Rank
  <1>7. QED
    BY <1>2, <1>3, <1>4, <1>6, FS_CardinalityType

\* An invoice has as many before it in a larger archive, and as an older one.
LEMMA RankGrows ==
    ASSUME NEW f, NEW m \in Nat, NEW n \in Nat, m <= n,
           NEW id \in Nat, NEW x \in Nat, x <= id
    PROVE  /\ Listed(f, m) \subseteq Listed(f, n)
           /\ Cardinality(Listed(f, m)) <= Cardinality(Listed(f, n))
           /\ Rank(f, m, id) <= Rank(f, n, x)
  <1>1. Listed(f, m) \subseteq Listed(f, n)
    BY DEF Listed
  <1>2. Listed(f, n) \subseteq Nat
    BY ListedAreFinite
  <1>3. {y \in Listed(f, m) : y > id} \subseteq {y \in Listed(f, n) : y > x}
    BY <1>1, <1>2
  <1>4. IsFiniteSet({y \in Listed(f, n) : y > x})
    BY ListedAreFinite
  <1>5. Rank(f, m, id) <= Rank(f, n, x)
    BY <1>3, <1>4, FS_Subset DEF Rank
  <1>6. QED
    BY <1>1, <1>5, ListedAreFinite

\* The first invoice of a list: there is one, at or above any other.
LEMMA TopOfList ==
    ASSUME NEW f, NEW n \in Nat, NEW known \in Listed(f, n)
    PROVE  \E id \in Listed(f, n) : known <= id /\ Rank(f, n, id) = 0
  <1>1. PICK id \in Listed(f, n) : \A x \in Listed(f, n) : x <= id
    <2>1. known \in 1 .. n /\ Matches(f, known)
      BY DEF Listed
    <2>2. CASE f = "all"
      BY <2>1, <2>2 DEF Listed, Matches
    <2>3. CASE f # "all"
      <3>1. known % 3 = 0
        BY <2>1, <2>3 DEF Matches
      <3>2. PICK top \in 1 .. n : top % 3 = 0 /\ \A x \in 1 .. n : x % 3 = 0 => x <= top
        <4>1. n - (n % 3) \in 1 .. n /\ (n - (n % 3)) % 3 = 0
          BY <2>1, <3>1
        <4>2. \A x \in 1 .. n : x % 3 = 0 => x <= n - (n % 3)
          OBVIOUS
        <4>3. QED
          BY <4>1, <4>2
      <3>3. QED
        BY <3>2, <2>3 DEF Listed, Matches
    <2>4. QED
      BY <2>2, <2>3
  <1>2. Listed(f, n) \subseteq Nat
    BY ListedAreFinite
  <1>3. {x \in Listed(f, n) : x > id} = {}
    BY <1>1, <1>2
  <1>4. QED
    BY <1>1, <1>3, FS_EmptySet DEF Rank

LEMMA LoadedGrows ==
    ASSUME NEW f, NEW l, NEW m \in Nat, NEW n \in Nat, m <= n, l.count \in Nat, l.total \in Nat,
           l.offset \in Nat, Loaded(f, l, m)
    PROVE  Loaded(f, l, n)
  <1>1. Limit \in Nat \ {0}
    BY InboxAssumption
  <1>2. /\ l.rows \subseteq Listed(f, m) /\ l.rows \subseteq 1 .. m
        /\ NoHole(f, l.rows, m) /\ Below(f, l, m)
        /\ l.count = IF l.offset + Limit < l.total THEN l.offset + Limit ELSE l.total
        /\ l.count > 0 => l.rows # {}
        /\ l.total <= Cardinality(Listed(f, m))
    BY DEF Loaded, Listed
  <1>3. l.rows \subseteq Listed(f, n) /\ l.total <= Cardinality(Listed(f, n))
    <2>1. /\ Listed(f, m) \subseteq Listed(f, n)
          /\ Cardinality(Listed(f, m)) <= Cardinality(Listed(f, n))
      BY RankGrows
    <2>2. Cardinality(Listed(f, m)) \in Nat /\ Cardinality(Listed(f, n)) \in Nat
      BY ListedAreFinite
    <2>3. QED
      BY <1>2, <2>1, <2>2
  <1>4. NoHole(f, l.rows, n)
    BY <1>2 DEF NoHole
  <1>5. ASSUME NEW id \in Listed(f, n), \A row \in l.rows : id < row
        PROVE  l.count <= Rank(f, n, id)
    <2>1. id \in 1 .. n /\ Matches(f, id)
      BY DEF Listed
    <2>2. CASE l.rows = {}
      BY <1>2, <2>2, ListedAreFinite
    <2>3. CASE l.rows # {}
      <3>1. id \in Listed(f, m)
        BY <1>2, <1>5, <2>1, <2>3 DEF Listed
      <3>2. l.count <= Rank(f, m, id)
        BY <1>2, <1>5, <3>1 DEF Below
      <3>3. Rank(f, m, id) <= Rank(f, n, id)
        BY <2>1, RankGrows
      <3>4. Rank(f, m, id) \in Nat /\ Rank(f, n, id) \in Nat
        BY ListedAreFinite
      <3>5. QED
        BY <3>2, <3>3, <3>4
    <2>4. QED
      BY <2>2, <2>3
  <1>6. QED
    BY <1>2, <1>3, <1>4, <1>5 DEF Loaded, Below

\* A page is without a hole, and its rows are as many as the ranks it covers.
LEMMA PageShape ==
    ASSUME NEW f, NEW n \in Nat, NEW off \in Nat
    PROVE  /\ Page(f, n, off) \subseteq Listed(f, n)
           /\ \A id \in Listed(f, n) :
                 id \in Page(f, n, off) <=> off <= Rank(f, n, id) /\ Rank(f, n, id) < off + Limit
           /\ NoHole(f, Page(f, n, off), n)
           /\ PageLen(f, n, off) \in Nat
           /\ off <= Cardinality(Listed(f, n)) =>
                 off + PageLen(f, n, off) =
                     IF off + Limit < Cardinality(Listed(f, n)) THEN off + Limit
                     ELSE Cardinality(Listed(f, n))
  <1>1. Limit \in Nat \ {0}
    BY InboxAssumption
  <1>2. \A id : Rank(f, n, id) \in Nat
    BY ListedAreFinite
  <1>3. \A id \in Listed(f, n) :
           id \in Page(f, n, off) <=> off <= Rank(f, n, id) /\ Rank(f, n, id) < off + Limit
    BY <1>1, <1>2 DEF Page
  <1>4. Page(f, n, off) \subseteq Listed(f, n)
    BY DEF Page
  <1>5. ASSUME NEW id \in 1 .. n, NEW a \in Page(f, n, off), NEW b \in Page(f, n, off),
               Matches(f, id), a < id, id < b
        PROVE  id \in Page(f, n, off)
    <2>1. a \in Listed(f, n) /\ b \in Listed(f, n) /\ id \in Listed(f, n)
      BY <1>4, <1>5 DEF Listed
    <2>2. a \in Nat /\ b \in Nat /\ id \in Nat
      BY <2>1, ListedAreFinite
    <2>3. Rank(f, n, b) <= Rank(f, n, id) /\ Rank(f, n, id) <= Rank(f, n, a)
      BY <1>5, <2>2, RankGrows
    <2>4. QED
      BY <1>1, <1>2, <1>3, <2>1, <2>3
  <1>6. NoHole(f, Page(f, n, off), n)
    BY <1>5 DEF NoHole
  <1>7. Cardinality(Listed(f, n)) \in Nat
    BY ListedAreFinite
  <1>8. QED
    BY <1>1, <1>3, <1>4, <1>6, <1>7 DEF PageLen

LEMMA FirstPage ==
    ASSUME NEW f, NEW l, NEW n \in Nat,
           l.rows = Page(f, n, 0), l.count = PageLen(f, n, 0),
           l.total = Cardinality(Listed(f, n)), l.offset = 0
    PROVE  Loaded(f, l, n)
  <1>1. Limit \in Nat \ {0} /\ l.total \in Nat
    BY InboxAssumption, ListedAreFinite
  <1>2. /\ l.rows \subseteq Listed(f, n) /\ NoHole(f, l.rows, n)
        /\ l.count = IF l.offset + Limit < l.total THEN l.offset + Limit ELSE l.total
        /\ \A id \in Listed(f, n) : id \in l.rows <=> Rank(f, n, id) < Limit
    <2>1. /\ Page(f, n, 0) \subseteq Listed(f, n) /\ NoHole(f, Page(f, n, 0), n)
          /\ \A id \in Listed(f, n) :
                id \in Page(f, n, 0) <=> 0 <= Rank(f, n, id) /\ Rank(f, n, id) < 0 + Limit
          /\ PageLen(f, n, 0) \in Nat
          /\ 0 <= Cardinality(Listed(f, n)) =>
                0 + PageLen(f, n, 0) = IF 0 + Limit < Cardinality(Listed(f, n)) THEN 0 + Limit
                                       ELSE Cardinality(Listed(f, n))
      BY PageShape
    <2>2. \A id : Rank(f, n, id) \in Nat
      BY ListedAreFinite
    <2>3. QED
      BY <1>1, <2>1, <2>2
  <1>3. ASSUME l.count > 0
        PROVE  l.rows # {}
    <2>1. Listed(f, n) # {}
      BY <1>1, <1>2, <1>3, FS_EmptySet
    <2>2. PICK id \in Listed(f, n) : Rank(f, n, id) = 0
      BY <2>1, TopOfList
    <2>3. QED
      BY <1>1, <1>2, <2>2
  <1>4. ASSUME NEW id \in Listed(f, n), \A row \in l.rows : id < row
        PROVE  l.count <= Rank(f, n, id)
    <2>1. id \notin l.rows
      <3>1. id \in Nat
        BY ListedAreFinite
      <3>2. QED
        BY <1>4, <3>1
    <2>2. Rank(f, n, id) \in Nat
      BY ListedAreFinite
    <2>3. QED
      BY <1>1, <1>2, <2>1, <2>2
  <1>5. QED
    BY <1>2, <1>3, <1>4, <1>1 DEF Loaded, Below

\* A page that does not end above every row joins them without a hole.
LEMMA NextPage ==
    ASSUME NEW f, NEW k, NEW l, NEW n \in Nat,
           k.count \in Nat, k.total \in Nat, k.offset \in Nat,
           Loaded(f, k, n), k.count < k.total,
           l.offset = k.offset + Limit,
           l.rows = k.rows \cup Page(f, n, k.offset + Limit),
           l.count = k.count + PageLen(f, n, k.offset + Limit),
           l.total = Cardinality(Listed(f, n)),
           Cardinality({id \in Listed(f, n) : \A row \in k.rows : id > row})
               <= k.offset + Limit + Limit
    PROVE  Loaded(f, l, n)
  <1>1. Limit \in Nat \ {0} /\ l.total \in Nat
    BY InboxAssumption, ListedAreFinite
  <1>2. PICK off \in Nat : off = k.offset + Limit
    BY <1>1
  <1>3. PICK page : page = Page(f, n, off)
    OBVIOUS
  <1>4. /\ k.rows \subseteq Listed(f, n) /\ NoHole(f, k.rows, n) /\ Below(f, k, n)
        /\ k.count = off /\ k.rows # {}
        /\ k.total <= l.total
    BY <1>1, <1>2 DEF Loaded
  <1>5. /\ page \subseteq Listed(f, n) /\ NoHole(f, page, n)
        /\ \A id \in Listed(f, n) :
              id \in page <=> off <= Rank(f, n, id) /\ Rank(f, n, id) < off + Limit
    BY <1>3, PageShape
  <1>6. l.count = IF l.offset + Limit < l.total THEN l.offset + Limit ELSE l.total
    <2>1. /\ PageLen(f, n, off) \in Nat
          /\ off <= Cardinality(Listed(f, n)) =>
                off + PageLen(f, n, off) =
                    IF off + Limit < Cardinality(Listed(f, n)) THEN off + Limit
                    ELSE Cardinality(Listed(f, n))
      BY PageShape
    <2>2. off <= Cardinality(Listed(f, n))
      BY <1>1, <1>2, <1>4
    <2>3. QED
      BY <1>2, <1>4, <2>1, <2>2
  <1>7. \A id : Rank(f, n, id) \in Nat
    BY ListedAreFinite
  <1>8. l.rows = k.rows \cup page /\ l.rows \subseteq Listed(f, n)
    BY <1>2, <1>3, <1>4, <1>5
  <1>9. Listed(f, n) \subseteq Nat
    BY ListedAreFinite
  <1>10. ASSUME NEW id \in Listed(f, n), NEW a \in k.rows, id < a, id \notin k.rows
         PROVE  off <= Rank(f, n, id)
    <2>1. \A row \in k.rows : id < row
      <3>1. id \in 1 .. n /\ Matches(f, id)
        BY DEF Listed
      <3>2. SUFFICES ASSUME NEW row \in k.rows, ~(id < row)
                     PROVE  FALSE
        OBVIOUS
      <3>3. row \in Nat /\ id \in Nat /\ a \in Nat /\ id # row
        BY <1>4, <1>9, <1>10
      <3>4. row < id
        BY <3>2, <3>3
      <3>5. QED
        BY <1>4, <1>10, <3>1, <3>4 DEF NoHole
    <2>2. QED
      BY <1>4, <2>1 DEF Below
  <1>11. ASSUME NEW id \in Listed(f, n), NEW a \in k.rows, a < id, id \notin k.rows
         PROVE  Rank(f, n, id) < off + Limit
    <2>1. \A row \in k.rows : id > row
      <3>1. id \in 1 .. n /\ Matches(f, id)
        BY DEF Listed
      <3>2. SUFFICES ASSUME NEW row \in k.rows, ~(id > row)
                     PROVE  FALSE
        OBVIOUS
      <3>3. row \in Nat /\ id \in Nat /\ a \in Nat /\ id # row
        BY <1>4, <1>9, <1>11
      <3>4. id < row
        BY <3>2, <3>3
      <3>5. QED
        BY <1>4, <1>11, <3>1, <3>4 DEF NoHole
    <2>2. PICK newer : newer = {x \in Listed(f, n) : \A row \in k.rows : x > row}
      OBVIOUS
    <2>3. newer \in SUBSET Listed(f, n) /\ id \in newer
      BY <2>1, <2>2
    <2>4. IsFiniteSet(newer) /\ Cardinality(newer) \in Nat
      BY <2>3, ListedAreFinite
    <2>5. {x \in Listed(f, n) : x > id} \subseteq newer \ {id}
      <3>1. ASSUME NEW x \in Listed(f, n), x > id
            PROVE  x \in newer \ {id}
        <4>1. x \in Nat /\ id \in Nat /\ \A row \in k.rows : row \in Nat
          BY <1>4, <1>9
        <4>2. \A row \in k.rows : x > row
          BY <2>1, <3>1, <4>1
        <4>3. x # id
          BY <3>1, <4>1
        <4>4. QED
          BY <2>2, <4>2, <4>3
      <3>2. QED
        BY <3>1
    <2>6. IsFiniteSet(newer \ {id}) /\ Cardinality(newer \ {id}) = Cardinality(newer) - 1
      BY <2>3, <2>4, FS_RemoveElement
    <2>7. Rank(f, n, id) <= Cardinality(newer) - 1
      BY <2>5, <2>6, FS_Subset DEF Rank
    <2>8. Cardinality(newer) <= off + Limit
      BY <1>2, <2>2
    <2>9. QED
      BY <1>1, <1>7, <2>4, <2>7, <2>8
  <1>12. ASSUME NEW id \in 1 .. n, NEW a \in l.rows, NEW b \in l.rows,
                Matches(f, id), a < id, id < b, id \notin k.rows
         PROVE  id \in page
    <2>1. id \in Listed(f, n)
      BY <1>12 DEF Listed
    <2>2. a \in Nat /\ b \in Nat /\ id \in Nat
      BY <1>8, <1>9
    <2>3. CASE a \in k.rows /\ b \in k.rows
      BY <1>4, <1>12, <2>3 DEF NoHole
    <2>4. CASE a \in page /\ b \in page
      BY <1>5, <1>12, <2>4 DEF NoHole
    <2>5. CASE a \in k.rows /\ b \in page
      <3>1. Rank(f, n, id) < off + Limit
        BY <1>11, <1>12, <2>1, <2>5
      <3>2. Rank(f, n, b) <= Rank(f, n, id)
        BY <1>12, <2>2, RankGrows
      <3>3. off <= Rank(f, n, b)
        BY <1>5, <2>5
      <3>4. QED
        BY <1>5, <1>7, <2>1, <3>1, <3>2, <3>3
    <2>6. CASE a \in page /\ b \in k.rows
      <3>1. off <= Rank(f, n, id)
        BY <1>10, <1>12, <2>1, <2>6
      <3>2. Rank(f, n, id) <= Rank(f, n, a)
        BY <1>12, <2>2, RankGrows
      <3>3. Rank(f, n, a) < off + Limit
        BY <1>5, <2>6
      <3>4. QED
        BY <1>1, <1>5, <1>7, <2>1, <3>1, <3>2, <3>3
    <2>7. QED
      BY <1>8, <2>3, <2>4, <2>5, <2>6
  <1>13. NoHole(f, l.rows, n)
    BY <1>8, <1>12 DEF NoHole
  <1>14. ASSUME NEW id \in Listed(f, n), \A row \in l.rows : id < row
         PROVE  l.count <= Rank(f, n, id)
    <2>1. id \in Nat /\ id \notin page
      BY <1>8, <1>9, <1>14
    <2>2. off <= Rank(f, n, id)
      BY <1>4, <1>8, <1>14 DEF Below
    <2>3. off + Limit <= Rank(f, n, id)
      BY <1>1, <1>5, <1>7, <2>1, <2>2
    <2>4. l.count <= off + Limit
      BY <1>1, <1>2, <1>6
    <2>5. l.count \in Nat
      BY <1>1, <1>2, <1>6
    <2>6. QED
      BY <1>1, <1>7, <2>3, <2>4, <2>5
  <1>15. QED
    BY <1>1, <1>4, <1>6, <1>8, <1>13, <1>14 DEF Loaded, Below

LEMMA LoadedReads ==
    ASSUME NEW f, NEW l, NEW k, NEW m, Loaded(f, l, m),
           k.rows = l.rows, k.count = l.count, k.total = l.total, k.offset = l.offset
    PROVE  Loaded(f, k, m)
  BY DEF Loaded, Below

LEMMA InitInbox == InboxInit => InInv
  <1>1. SUFFICES ASSUME InboxInit
                 PROVE  InInv
    OBVIOUS
  <1>2. PICK r : r = [n |-> 1, filter |-> "all", off |-> 0, append |-> FALSE, since |-> OldRows]
    OBVIOUS
  <1>3. /\ inboxLoads = {r} /\ inboxSent = 1 /\ inboxKnown = 0 /\ inboxBatches = {}
        /\ inboxArchive = OldRows /\ OldRows \in Nat /\ inboxFilter = "all"
    BY <1>1, <1>2, InboxAssumption DEF InboxInit
  <1>4. InLoad(r) /\ Newest(r) /\ ~r.append
    BY <1>2, <1>3 DEF InLoad, Filters, Newest
  <1>5. InList(inboxList)
    BY <1>1 DEF InboxInit, InList
  <1>6. InShape
    BY <1>3, <1>4, <1>5 DEF InShape, Filters
  <1>7. NewestKnows /\ Replaced
    BY <1>2, <1>3, <1>4 DEF NewestKnows, Replaced
  <1>8. QED
    BY <1>6, <1>7 DEF InInv

LEMMA ShapeFacts ==
    ASSUME InShape
    PROVE  /\ inboxArchive \in Nat /\ inboxSent \in Nat /\ inboxFilter \in Filters
           /\ inboxKnown \in Nat /\ inboxKnown <= inboxArchive
           /\ inboxList.rows \subseteq 1 .. inboxArchive
           /\ inboxList.count \in Nat /\ inboxList.total \in Nat /\ inboxList.offset \in Nat
           /\ \A r \in inboxLoads : /\ r.n \in Nat /\ r.n <= inboxSent /\ r.filter \in Filters
                                    /\ r.off \in Nat /\ r.since \in 0 .. inboxArchive
                                    /\ ~r.append => r.off = 0
           /\ \A r, s \in inboxLoads : Newest(r) /\ Newest(s) => r = s
  BY DEF InShape, InList, InLoad, Newest

\* What asking for a list leaves behind.
LEMMA Asking ==
    ASSUME InShape, NEW filter \in Filters, NEW off \in Nat, NEW append \in BOOLEAN,
           ~append => off = 0, LoadInbox(filter, off, append),
           UNCHANGED <<inboxArchive, inboxKnown>>, inboxFilter' \in Filters,
           \A b \in inboxBatches' : InBatch(b)
    PROVE  /\ InShape'
           /\ \A r \in inboxLoads' : Newest(r)' =>
                 /\ r.filter = filter /\ r.off = off /\ r.append = append
                 /\ r.since = inboxArchive
           /\ \E r \in inboxLoads' : Newest(r)' /\ r.append = append
           /\ /\ inboxList'.rows = inboxList.rows /\ inboxList'.count = inboxList.count
              /\ inboxList'.total = inboxList.total /\ inboxList'.offset = inboxList.offset
  <1>1. PICK new : new = [n |-> inboxSent + 1, filter |-> filter, off |-> off,
                          append |-> append, since |-> inboxArchive]
    OBVIOUS
  <1>2. /\ inboxSent' = inboxSent + 1 /\ inboxLoads' = inboxLoads \cup {new}
        /\ inboxList' = [inboxList EXCEPT !.loading = TRUE, !.error = FALSE]
    BY <1>1 DEF LoadInbox, SetList
  <1>3. PICK list : list = [inboxList EXCEPT !.loading = TRUE, !.error = FALSE]
    OBVIOUS
  <1>4. InList(inboxList)
    BY DEF InShape
  <1>5. list = [rows |-> inboxList.rows, count |-> inboxList.count, total |-> inboxList.total,
                offset |-> inboxList.offset, loading |-> TRUE, error |-> FALSE]
    BY <1>3, <1>4 DEF InList
  <1>6. list = inboxList'
    BY <1>2, <1>3
  <1>7. InList(inboxList)'
    BY <1>4, <1>5, <1>6 DEF InList
  <1>8. /\ new.n = inboxSent + 1 /\ new.filter = filter /\ new.off = off
        /\ new.append = append /\ new.since = inboxArchive
    BY <1>1
  <1>9. InLoad(new)'
    BY <1>1, <1>2, <1>8 DEF InLoad, InShape
  <1>10. \A r \in inboxLoads : InLoad(r)' /\ r.n # new.n /\ ~Newest(r)'
    BY <1>2, <1>8 DEF InLoad, InShape, Newest
  <1>11. \A r, s \in inboxLoads' : r.n = s.n => r = s
    BY <1>2, <1>10 DEF InShape
  <1>12. InShape'
    BY <1>2, <1>7, <1>9, <1>10, <1>11 DEF InShape
  <1>13. Newest(new)'
    BY <1>2, <1>8 DEF Newest
  <1>14. QED
    BY <1>2, <1>5, <1>6, <1>8, <1>10, <1>12, <1>13

\* A list asked for from its top is one that will replace the rows, and knows
\* of every upload so far.
LEMMA AskingAnew ==
    ASSUME InInv, NEW filter \in Filters, LoadInbox(filter, 0, FALSE),
           UNCHANGED <<inboxArchive, inboxKnown>>, inboxFilter' \in Filters,
           \A b \in inboxBatches' : InBatch(b)
    PROVE  InInv'
  <1>1. InShape
    BY DEF InInv
  <1>2. /\ InShape'
        /\ \A r \in inboxLoads' : Newest(r)' => r.since = inboxArchive
        /\ \E r \in inboxLoads' : Newest(r)' /\ r.append = FALSE
    BY <1>1, Asking
  <1>3. Replaced'
    BY <1>2 DEF Replaced
  <1>4. NewestKnows'
    BY <1>1, <1>2, ShapeFacts DEF NewestKnows
  <1>5. QED
    BY <1>2, <1>3, <1>4 DEF InInv

LEMMA LoadOlderKeeps ==
    ASSUME InInv, LoadOlder
    PROVE  InInv'
  <1>1. InShape
    BY DEF InInv
  <1>2. Limit \in Nat \ {0}
    BY InboxAssumption
  <1>3. PICK off \in Nat : off = inboxList.offset + Limit
    BY <1>1, <1>2, ShapeFacts
  <1>4. /\ inboxList.count < inboxList.total
        /\ LoadInbox(inboxFilter, off, TRUE)
        /\ inboxDoubt' = IF inboxLoads = {} THEN inboxDoubt ELSE inboxDoubt \cup {"late"}
        /\ UNCHANGED <<inboxArchive, inboxFilter, inboxBatches, inboxKnown>>
    BY <1>3 DEF LoadOlder
  <1>5. \A b \in inboxBatches : InBatch(b)
    BY <1>1 DEF InShape
  <1>6. /\ InShape'
        /\ \A r \in inboxLoads' : Newest(r)' =>
              /\ r.filter = inboxFilter /\ r.off = off /\ r.append = TRUE
              /\ r.since = inboxArchive
        /\ inboxList'.rows = inboxList.rows /\ inboxList'.count = inboxList.count
        /\ inboxList'.total = inboxList.total /\ inboxList'.offset = inboxList.offset
    BY <1>1, <1>4, <1>5, Asking, ShapeFacts
  <1>7. NewestKnows'
    BY <1>6 DEF NewestKnows
  <1>8. ASSUME inboxDoubt' = {}
        PROVE  /\ Loaded(inboxFilter', inboxList', inboxArchive')
               /\ AppendFits'
               /\ Reaches(inboxFilter', inboxList'.rows, inboxKnown') \/ ReloadsLater'
    <2>1. inboxLoads = {} /\ inboxDoubt = {}
      BY <1>4, <1>8
    <2>2. /\ Loaded(inboxFilter, inboxList, inboxArchive)
          /\ Reaches(inboxFilter, inboxList.rows, inboxKnown) \/ ReloadsLater
      BY <2>1 DEF InInv, Replaced
    <2>3. Loaded(inboxFilter, inboxList', inboxArchive)
      BY <1>6, <2>2, LoadedReads
    <2>4. AppendFits'
      BY <1>3, <1>4, <1>6, <2>3 DEF AppendFits
    <2>5. QED
      BY <1>4, <1>6, <2>2, <2>3, <2>4 DEF ReloadsLater
  <1>9. QED
    BY <1>6, <1>7, <1>8 DEF InInv

LEMMA AnswerKeepsShape ==
    ASSUME InInv, NEW r \in inboxLoads, AnswerList(r) \/ LoadFails(r)
    PROVE  /\ InShape' /\ NewestKnows'
           /\ UNCHANGED <<inboxArchive, inboxFilter, inboxSent, inboxBatches, inboxKnown>>
           /\ inboxLoads' = inboxLoads \ {r}
  <1>1. /\ UNCHANGED <<inboxArchive, inboxFilter, inboxSent, inboxBatches, inboxKnown>>
        /\ inboxLoads' = inboxLoads \ {r}
    BY DEF AnswerList, LoadFails
  <1>2. InShape
    BY DEF InInv
  <1>3. InList(inboxList)'
    <2>1. CASE AnswerList(r)
      <3>1. PICK n \in r.since .. inboxArchive :
               inboxList' = [rows |-> IF r.append THEN inboxList.rows \cup Page(r.filter, n, r.off)
                                      ELSE Page(r.filter, n, r.off),
                             count |-> IF r.append
                                       THEN inboxList.count + PageLen(r.filter, n, r.off)
                                       ELSE PageLen(r.filter, n, r.off),
                             total |-> Cardinality(Listed(r.filter, n)), offset |-> r.off,
                             loading |-> FALSE, error |-> inboxList.error]
        BY <2>1 DEF AnswerList, SetList
      <3>2. /\ n \in Nat /\ n <= inboxArchive /\ inboxArchive \in Nat /\ r.off \in Nat
            /\ inboxList.rows \subseteq 1 .. inboxArchive /\ inboxList.count \in Nat
        BY <1>2, ShapeFacts
      <3>3. Page(r.filter, n, r.off) \subseteq 1 .. inboxArchive
        BY <3>2 DEF Page, Listed
      <3>4. PageLen(r.filter, n, r.off) \in Nat /\ Cardinality(Listed(r.filter, n)) \in Nat
        BY <3>2, PageShape, ListedAreFinite
      <3>5. QED
        BY <1>1, <3>1, <3>2, <3>3, <3>4 DEF InList
    <2>2. CASE LoadFails(r)
      <3>1. PICK error : inboxList' = [inboxList EXCEPT !.loading = FALSE, !.error = error]
        BY <2>2 DEF LoadFails, SetList
      <3>2. PICK list : list = [inboxList EXCEPT !.loading = FALSE, !.error = error]
        OBVIOUS
      <3>3. list = [rows |-> inboxList.rows, count |-> inboxList.count, total |-> inboxList.total,
                    offset |-> inboxList.offset, loading |-> FALSE, error |-> error]
        BY <1>2, <3>2 DEF InShape, InList
      <3>4. list = inboxList'
        BY <3>1, <3>2
      <3>5. QED
        BY <1>1, <1>2, <3>3, <3>4 DEF InShape, InList
    <2>3. QED
      BY <2>1, <2>2
  <1>4. InShape'
    BY <1>1, <1>2, <1>3 DEF InShape, InLoad
  <1>5. NewestKnows'
    BY <1>1 DEF InInv, NewestKnows, Newest, ReloadsLater
  <1>6. QED
    BY <1>1, <1>4, <1>5

LEMMA AnswerKeepsList ==
    ASSUME InInv, NEW r \in inboxLoads, AnswerList(r)
    PROVE  InInv'
  <1>1. /\ InShape /\ InShape' /\ NewestKnows'
        /\ UNCHANGED <<inboxArchive, inboxFilter, inboxSent, inboxBatches, inboxKnown>>
        /\ inboxLoads' = inboxLoads \ {r}
    BY AnswerKeepsShape DEF InInv
  <1>2. PICK n \in r.since .. inboxArchive :
           /\ inboxList' = [rows |-> IF r.append THEN inboxList.rows \cup Page(r.filter, n, r.off)
                                     ELSE Page(r.filter, n, r.off),
                            count |-> IF r.append
                                      THEN inboxList.count + PageLen(r.filter, n, r.off)
                                      ELSE PageLen(r.filter, n, r.off),
                            total |-> Cardinality(Listed(r.filter, n)), offset |-> r.off,
                            loading |-> FALSE, error |-> inboxList.error]
           /\ inboxDoubt' = IF ~Newest(r) THEN inboxDoubt \cup {"late"}
                            ELSE IF r.append /\ Outrun(r, n) THEN inboxDoubt \cup {"outrun"}
                            ELSE IF r.append THEN inboxDoubt
                            ELSE IF r.filter = inboxFilter THEN {} ELSE {"stale"}
    BY DEF AnswerList, SetList
  <1>3. /\ n \in Nat /\ n <= inboxArchive /\ inboxArchive \in Nat /\ r.since \in Nat
        /\ r.since <= n /\ r.off \in Nat /\ (~r.append => r.off = 0)
        /\ inboxList.count \in Nat /\ inboxList.total \in Nat /\ inboxList.offset \in Nat
        /\ inboxKnown \in Nat
        /\ \A s \in inboxLoads : Newest(r) /\ Newest(s) => r = s
    BY <1>1, ShapeFacts
  <1>4. /\ inboxList'.count \in Nat /\ inboxList'.total \in Nat /\ inboxList'.offset \in Nat
    <2>1. PageLen(r.filter, n, r.off) \in Nat /\ Cardinality(Listed(r.filter, n)) \in Nat
      BY <1>3, PageShape, ListedAreFinite
    <2>2. QED
      BY <1>2, <1>3, <2>1
  <1>5. ASSUME inboxDoubt' = {}
        PROVE  /\ Loaded(inboxFilter, inboxList', inboxArchive)
               /\ Newest(r)
               /\ Reaches(inboxFilter, inboxList'.rows, inboxKnown) \/ ReloadsLater
    <2>1. Newest(r)
      BY <1>2, <1>5
    <2>2. CASE ~r.append
      <3>1. r.filter = inboxFilter
        BY <1>2, <1>5, <2>1, <2>2
      <3>2. /\ inboxList'.rows = Page(inboxFilter, n, 0)
            /\ inboxList'.count = PageLen(inboxFilter, n, 0)
            /\ inboxList'.total = Cardinality(Listed(inboxFilter, n)) /\ inboxList'.offset = 0
        BY <1>2, <1>3, <2>2, <3>1
      <3>3. Loaded(inboxFilter, inboxList', n)
        BY <1>3, <3>2, FirstPage
      <3>4. Loaded(inboxFilter, inboxList', inboxArchive)
        BY <1>3, <1>4, <3>3, LoadedGrows
      <3>5. ASSUME ~ReloadsLater, inboxKnown > 0, Matches(inboxFilter, inboxKnown)
            PROVE  \E id \in inboxList'.rows : id >= inboxKnown
        <4>1. inboxKnown <= r.since
          BY <2>1, <2>2, <3>5 DEF InInv, NewestKnows
        <4>2. inboxKnown \in Listed(inboxFilter, n)
          BY <1>3, <3>5, <4>1 DEF Listed
        <4>3. PICK id \in Listed(inboxFilter, n) :
                 inboxKnown <= id /\ Rank(inboxFilter, n, id) = 0
          BY <1>3, <4>2, TopOfList
        <4>4. Limit \in Nat \ {0}
          BY InboxAssumption
        <4>5. id \in Page(inboxFilter, n, 0)
          BY <4>3, <4>4 DEF Page
        <4>6. QED
          BY <1>3, <3>2, <4>3, <4>5, ListedAreFinite
      <3>6. QED
        BY <2>1, <3>4, <3>5 DEF Reaches
    <2>3. CASE r.append
      <3>1. inboxDoubt = {} /\ ~Outrun(r, n)
        BY <1>2, <1>5, <2>1, <2>3
      <3>2. ~Replaced
        BY <1>3, <2>1, <2>3 DEF Replaced
      <3>3. /\ r.filter = inboxFilter /\ r.off = inboxList.offset + Limit
            /\ inboxList.count < inboxList.total
            /\ Loaded(inboxFilter, inboxList, r.since)
            /\ Reaches(inboxFilter, inboxList.rows, inboxKnown) \/ ReloadsLater
        BY <2>1, <3>1, <3>2 DEF InInv, AppendFits
      <3>4. Loaded(inboxFilter, inboxList, n)
        BY <1>3, <3>3, LoadedGrows
      <3>5. /\ inboxList'.rows = inboxList.rows
                                 \cup Page(inboxFilter, n, inboxList.offset + Limit)
            /\ inboxList'.count = inboxList.count
                                  + PageLen(inboxFilter, n, inboxList.offset + Limit)
            /\ inboxList'.total = Cardinality(Listed(inboxFilter, n))
            /\ inboxList'.offset = inboxList.offset + Limit
        BY <1>2, <2>3, <3>3
      <3>6. PICK newer : newer = {id \in Listed(inboxFilter, n) :
                                     \A row \in inboxList.rows : id > row}
        OBVIOUS
      <3>7. Cardinality(newer) <= inboxList.offset + Limit + Limit
        <4>1. Limit \in Nat
          BY InboxAssumption
        <4>2. newer \in SUBSET Listed(inboxFilter, n)
          BY <3>6
        <4>3. Cardinality(newer) \in Nat
          BY <1>3, <4>2, ListedAreFinite
        <4>4. ~(inboxList.offset + Limit + Limit < Cardinality(newer))
          BY <3>1, <3>3, <3>6 DEF Outrun
        <4>5. QED
          BY <1>3, <4>1, <4>3, <4>4
      <3>8. Loaded(inboxFilter, inboxList', n)
        BY <1>3, <3>3, <3>4, <3>5, <3>6, <3>7, NextPage
      <3>9. Loaded(inboxFilter, inboxList', inboxArchive)
        BY <1>3, <1>4, <3>8, LoadedGrows
      <3>10. QED
        BY <2>1, <3>3, <3>5, <3>9 DEF Reaches
    <2>4. QED
      BY <2>2, <2>3
  <1>6. ASSUME inboxDoubt' = {}
        PROVE  AppendFits'
    BY <1>1, <1>3, <1>5, <1>6 DEF AppendFits, Newest
  <1>7. QED
    BY <1>1, <1>5, <1>6 DEF InInv, ReloadsLater

\* The archive grows, or uploads go on, while the list stays as it is.
LEMMA ArchiveGrows ==
    ASSUME InInv, inboxArchive' \in {inboxArchive, inboxArchive + 1},
           UNCHANGED <<inboxFilter, inboxList, inboxLoads, inboxSent, inboxDoubt>>,
           \A b \in inboxBatches' : InBatch(b),
           ReloadsLater => ReloadsLater',
           inboxKnown' = inboxKnown \/ (inboxKnown' = inboxArchive' /\ ReloadsLater')
    PROVE  InInv'
  <1>1. InShape
    BY DEF InInv
  <1>2. /\ inboxArchive \in Nat /\ inboxArchive' \in Nat /\ inboxArchive <= inboxArchive'
        /\ inboxKnown' \in Nat /\ inboxKnown' <= inboxArchive'
        /\ inboxList.count \in Nat /\ inboxList.total \in Nat /\ inboxList.offset \in Nat
    BY <1>1, ShapeFacts
  <1>3. InShape'
    BY <1>1, <1>2 DEF InShape, InList, InLoad
  <1>4. NewestKnows'
    BY DEF InInv, NewestKnows, Newest
  <1>5. ASSUME inboxDoubt' = {}, ~Replaced'
        PROVE  /\ Loaded(inboxFilter', inboxList', inboxArchive')
               /\ AppendFits'
               /\ Reaches(inboxFilter', inboxList'.rows, inboxKnown') \/ ReloadsLater'
    <2>1. inboxDoubt = {} /\ ~Replaced
      BY <1>5 DEF Replaced, Newest
    <2>2. /\ Loaded(inboxFilter, inboxList, inboxArchive) /\ AppendFits
          /\ Reaches(inboxFilter, inboxList.rows, inboxKnown) \/ ReloadsLater
      BY <2>1 DEF InInv
    <2>3. Loaded(inboxFilter, inboxList, inboxArchive')
      BY <1>2, <2>2, LoadedGrows
    <2>4. AppendFits'
      BY <2>2 DEF AppendFits, Newest
    <2>5. QED
      BY <2>2, <2>3, <2>4
  <1>6. QED
    BY <1>3, <1>4, <1>5 DEF InInv

LEMMA DropKeepsList ==
    ASSUME InInv, DropFiles
    PROVE  InInv'
  <1>1. InShape
    BY DEF InInv
  <1>2. PICK new : /\ UpBatch(new) /\ new.filter = inboxFilter /\ new.refetch = FALSE
                   /\ inboxBatches' = inboxBatches \cup {new}
    <2>1. PICK k \in 1 .. MaxFiles :
              inboxBatches' = inboxBatches \cup {[drop |-> inboxDropped + 1, files |-> k,
                                   next |-> 1, refetch |-> FALSE, filter |-> inboxFilter]}
      BY DEF DropFiles
    <2>2. k \in Nat
      BY <2>1, InboxAssumption
    <2>3. PICK new : new = [drop |-> inboxDropped + 1, files |-> k, next |-> 1,
                            refetch |-> FALSE, filter |-> inboxFilter]
      OBVIOUS
    <2>4. UpBatch(new) /\ new.filter = inboxFilter /\ new.refetch = FALSE
      BY <2>2, <2>3 DEF UpBatch
    <2>5. QED
      BY <2>1, <2>3, <2>4
  <1>3. \A b \in inboxBatches' : InBatch(b)
    BY <1>1, <1>2 DEF InShape, InBatch
  <1>4. UNCHANGED <<inboxArchive, inboxFilter, inboxList, inboxLoads, inboxSent, inboxDoubt,
                    inboxKnown>>
    BY DEF DropFiles
  <1>5. ReloadsLater => ReloadsLater'
    BY <1>2 DEF ReloadsLater
  <1>6. QED
    BY <1>3, <1>4, <1>5, ArchiveGrows

\* Only an answer that names an invoice moves what is known, and it marks its
\* drop for a reload.
LEMMA UploadKeepsList ==
    ASSUME InInv, NEW b \in inboxBatches, UploadFile(b)
    PROVE  InInv'
  <1>1. InShape /\ UpBatch(b) /\ b.filter \in Filters /\ b.refetch \in BOOLEAN
    BY DEF InInv, InShape, InBatch
  <1>2. PICK status \in {"ok", "parse_error", "duplicate", "error_status", "error"},
             stored \in BOOLEAN :
           /\ status \in {"ok", "parse_error"} => stored
           /\ inboxArchive' = IF stored THEN inboxArchive + 1 ELSE inboxArchive
           /\ inboxKnown' = IF status \in {"ok", "parse_error"}
                            THEN inboxArchive + 1 ELSE inboxKnown
           /\ inboxBatches' = (inboxBatches \ {b})
                              \cup {[b EXCEPT !.next = @ + 1, !.refetch = @ \/ Refetches(status)]}
           /\ UNCHANGED <<inboxFilter, inboxList, inboxLoads, inboxSent, inboxDoubt>>
    BY DEF UploadFile
  <1>3. PICK refetch \in BOOLEAN : refetch = (b.refetch \/ status \in {"ok", "parse_error"})
    OBVIOUS
  <1>4. PICK new : new = [b EXCEPT !.next = @ + 1, !.refetch = refetch]
    OBVIOUS
  <1>5. new = [drop |-> b.drop, files |-> b.files, next |-> b.next + 1, refetch |-> refetch,
               filter |-> b.filter]
    BY <1>1, <1>4 DEF UpBatch
  <1>6. inboxBatches' = (inboxBatches \ {b}) \cup {new}
    BY <1>2, <1>3, <1>4 DEF Refetches
  <1>7. UpBatch(new) /\ new.filter = b.filter /\ new.refetch = refetch
    <2>1. b.files \in Nat /\ b.next + 1 \in Nat
      BY <1>1 DEF UpBatch
    <2>2. QED
      BY <1>5, <2>1 DEF UpBatch
  <1>8. \A c \in inboxBatches' : InBatch(c)
    BY <1>1, <1>3, <1>6, <1>7 DEF InShape, InBatch
  <1>9. ReloadsLater => ReloadsLater'
    BY <1>3, <1>6, <1>7 DEF ReloadsLater
  <1>10. inboxKnown' = inboxKnown \/ (inboxKnown' = inboxArchive' /\ ReloadsLater')
    BY <1>2, <1>3, <1>6, <1>7 DEF ReloadsLater
  <1>11. inboxArchive' \in {inboxArchive, inboxArchive + 1}
    BY <1>2
  <1>12. QED
    BY <1>2, <1>8, <1>9, <1>10, <1>11, ArchiveGrows

LEMMA BatchEndKeepsList ==
    ASSUME InInv, NEW b \in inboxBatches, BatchEnds(b)
    PROVE  InInv'
  <1>1. \A c \in inboxBatches : InBatch(c)
    BY DEF InInv, InShape
  <1>2. /\ inboxBatches' = inboxBatches \ {b}
        /\ UNCHANGED <<inboxArchive, inboxFilter, inboxKnown, inboxDoubt>>
    BY DEF BatchEnds
  <1>3. inboxFilter' \in Filters
    BY <1>2 DEF InInv, InShape
  <1>4. CASE b.refetch
    <2>1. LoadInbox(b.filter, 0, FALSE)
      BY <1>4 DEF BatchEnds
    <2>2. QED
      BY <1>1, <1>2, <1>3, <2>1, AskingAnew DEF InBatch
  <1>5. CASE ~b.refetch
    <2>1. UNCHANGED <<inboxSent, inboxLoads, inboxList>>
      BY <1>5 DEF BatchEnds
    <2>2. ReloadsLater => ReloadsLater'
      BY <1>2, <1>5 DEF ReloadsLater
    <2>3. QED
      BY <1>1, <1>2, <2>1, <2>2, ArchiveGrows
  <1>6. QED
    BY <1>4, <1>5

LEMMA NextKeepsInbox == InInv /\ [InboxNext]_inboxVars => InInv'
  <1> SUFFICES ASSUME InInv, [InboxNext]_inboxVars
               PROVE  InInv'
    OBVIOUS
  <1>1. /\ inboxFilter \in Filters
        /\ \A b \in inboxBatches : InBatch(b)
    BY DEF InInv, InShape
  <1>2. ASSUME NEW r \in inboxLoads, AnswerList(r)
        PROVE  InInv'
    BY <1>2, AnswerKeepsList
  <1>3. ASSUME NEW r \in inboxLoads, LoadFails(r)
        PROVE  InInv'
    <2>1. inboxDoubt' # {}
      BY <1>3 DEF LoadFails
    <2>2. InShape' /\ NewestKnows'
      BY <1>3, AnswerKeepsShape
    <2>3. QED
      BY <2>1, <2>2 DEF InInv
  <1>4. CASE ChangeFilter
    <2>1. PICK f \in Filters \ {inboxFilter} :
             /\ inboxFilter' = f /\ LoadInbox(f, 0, FALSE)
             /\ UNCHANGED <<inboxArchive, inboxBatches, inboxKnown>>
      BY <1>4 DEF ChangeFilter
    <2>2. QED
      BY <1>1, <2>1, AskingAnew
  <1>5. CASE RetryLoad
    <2>1. /\ LoadInbox(inboxFilter, 0, FALSE)
          /\ UNCHANGED <<inboxArchive, inboxFilter, inboxBatches, inboxKnown>>
      BY <1>5 DEF RetryLoad
    <2>2. QED
      BY <1>1, <2>1, AskingAnew
  <1>6. CASE LoadOlder
    BY <1>6, LoadOlderKeeps
  <1>7. CASE DropFiles
    BY <1>7, DropKeepsList
  <1>8. ASSUME NEW b \in inboxBatches, UploadFile(b)
        PROVE  InInv'
    BY <1>8, UploadKeepsList
  <1>9. ASSUME NEW b \in inboxBatches, BatchEnds(b)
        PROVE  InInv'
    BY <1>9, BatchEndKeepsList
  <1>10. CASE InvoiceArrives \/ AnswerPanel \/ DismissPanel \/ UNCHANGED inboxVars
    <2>1. /\ inboxArchive' \in {inboxArchive, inboxArchive + 1}
          /\ UNCHANGED <<inboxFilter, inboxList, inboxLoads, inboxSent, inboxDoubt,
                         inboxBatches, inboxKnown>>
      BY <1>10 DEF InvoiceArrives, AnswerPanel, DismissPanel, inboxVars
    <2>2. ReloadsLater => ReloadsLater'
      BY <2>1 DEF ReloadsLater
    <2>3. QED
      BY <1>1, <2>1, <2>2, ArchiveGrows
  <1>11. QED
    BY <1>2, <1>3, <1>4, <1>5, <1>6, <1>7, <1>8, <1>9, <1>10 DEF InboxNext

\* InboxPage.tsx, load and its callers: at rest the rows are the invoices of the
\* filters without a hole, up to the latest an upload was told of, whatever
\* loads, uploads and arrivals came between, but for the cases InboxRight names.
THEOREM InboxIsRight == ConsoleSpec => []InboxRight
  <1>1. InInv => InboxRight
    <2>1. SUFFICES ASSUME InInv, inboxLoads = {}, inboxDoubt = {}
                   PROVE  /\ \A id \in inboxList.rows : Matches(inboxFilter, id)
                          /\ NoHole(inboxFilter, inboxList.rows, inboxArchive)
                          /\ Reaches(inboxFilter, inboxList.rows, inboxKnown) \/ ReloadsLater
      BY DEF InboxRight, NoHole, Reaches, ReloadsLater
    <2>2. ~Replaced
      BY <2>1 DEF Replaced
    <2>3. /\ Loaded(inboxFilter, inboxList, inboxArchive)
          /\ Reaches(inboxFilter, inboxList.rows, inboxKnown) \/ ReloadsLater
      BY <2>1, <2>2 DEF InInv
    <2>4. QED
      BY <2>3 DEF Loaded, Listed
  <1>2. ConsoleInit => InInv
    BY InitInbox DEF ConsoleInit
  <1>3. InInv /\ [ConsoleNext]_consoleVars => InInv'
    BY NextKeepsInbox DEF ConsoleNext, consoleVars
  <1>4. QED
    BY <1>1, <1>2, <1>3, PTL DEF ConsoleSpec

-----------------------------------------------------------------------------
(* The branding page.                                                       *)

BrBranding(b) == b = [text |-> b.text, logo |-> b.logo]
BrRequest(r) == /\ r = [n |-> r.n, kind |-> r.kind, company |-> r.company,
                        branding |-> r.branding]
                /\ r.n \in Nat /\ r.n <= brSent /\ BrBranding(r.branding)
                /\ r.company \in DOMAIN brStored \cup {0}
                /\ r.kind \in {"default", "select"} => r.company \in DOMAIN brStored

BrPage(v) == /\ v = [companies |-> v.companies, company |-> v.company, draft |-> v.draft,
                     loading |-> v.loading, error |-> v.error, saving |-> v.saving,
                     previewing |-> v.previewing, pdf |-> v.pdf]
             /\ BrBranding(v.draft)
             /\ v.companies \subseteq DOMAIN brStored
             /\ v.company \in DOMAIN brStored \cup {0}

BrServer == /\ \E k \in 0 .. MaxCompanies : DOMAIN brStored = 1 .. k
            /\ \A c \in DOMAIN brStored : BrBranding(brStored[c])

BrShape == BrServer /\ BrPage(brView) /\ brSent \in Nat /\ \A r \in brReqs : BrRequest(r)

\* A branding is a company's own, or the company was saved to in doubt.
Owned(b, c) == (b.text = c /\ b.logo \in {0, c}) \/ c \in brMixed

\* The draft is the selected company's, unless an answer for it is awaited, has
\* failed, or was overtaken.
DraftOwned ==
    ~brDoubt /\ (\A r \in brReqs : r.kind \notin {"default", "select"})
        => Owned(brView.draft, brView.company)

\* What was sent last was sent for the company that is selected.
LastIsSelected ==
    \A r \in brReqs : r.n = brSent /\ r.kind \in {"default", "select", "save", "logo"}
                          => r.company = brView.company

\* What is under way from or to the server is the company's of the request.
SentIsOwned ==
    \A r \in brReqs : r.kind \in {"default", "select", "save", "patch"}
                          => Owned(r.branding, r.company)

StoredIsOwned == \A c \in DOMAIN brStored : Owned(brStored[c], c)

AllMixed == 1 .. MaxCompanies \subseteq brMixed

BrOwned == DraftOwned /\ LastIsSelected /\ SentIsOwned /\ StoredIsOwned

BrInv == BrShape /\ (BrOwned \/ AllMixed)

\* What each step keeps.
BrKept == BrShape' /\ (BrOwned \/ AllMixed => BrOwned' \/ AllMixed')

LEMMA BrSendIs ==
    ASSUME BrShape, BrServer', DOMAIN brStored' = DOMAIN brStored,
           NEW reqs \in SUBSET brReqs, NEW kind, NEW c \in DOMAIN brStored \cup {0}, NEW branding,
           BrBranding(branding), BrSend(reqs, kind, c, branding),
           kind \in {"default", "select"} => c \in DOMAIN brStored
    PROVE  /\ brSent' \in Nat
           /\ \A r \in brReqs' : BrRequest(r)'
           /\ \A r \in reqs : r \in brReqs' /\ r.n # brSent'
           /\ \A r \in brReqs' : r \in reqs \/ (/\ r.kind = kind /\ r.company = c
                                                /\ r.branding = branding)
           /\ \E r \in brReqs' : r.kind = kind
  <1>1. PICK new : new = [n |-> brSent + 1, kind |-> kind, company |-> c, branding |-> branding]
    OBVIOUS
  <1>2. /\ new.kind = kind /\ new.company = c /\ new.branding = branding /\ new.n = brSent + 1
        /\ new = [n |-> new.n, kind |-> new.kind, company |-> new.company,
                  branding |-> new.branding]
    BY <1>1
  <1>3. brReqs' = reqs \cup {new} /\ brSent' = brSent + 1 /\ brSent \in Nat
    BY <1>1 DEF BrSend, BrShape
  <1>4. BrRequest(new)'
    BY <1>2, <1>3 DEF BrRequest
  <1>5. ASSUME NEW r \in reqs
        PROVE  BrRequest(r)' /\ r.n # brSent'
    <2>1. BrRequest(r)
      BY DEF BrShape
    <2>2. QED
      BY <1>3, <2>1 DEF BrRequest
  <1>6. QED
    BY <1>2, <1>3, <1>4, <1>5

\* A request that is sent, with or without an answer before it.
LEMMA BrAskKeeps ==
    ASSUME BrShape, BrServer', DOMAIN brStored' = DOMAIN brStored, BrPage(brView'),
           brMixed \subseteq brMixed',
           NEW reqs \in SUBSET brReqs, NEW kind, NEW c \in DOMAIN brStored \cup {0}, NEW branding,
           BrBranding(branding), BrSend(reqs, kind, c, branding),
           kind \in {"default", "select"} => c \in DOMAIN brStored,
           kind \in {"default", "select", "save", "logo"} => c = brView'.company,
           BrOwned => /\ kind \in {"default", "select", "save", "patch"} => Owned(branding, c)'
                      /\ StoredIsOwned'
                      /\ \/ kind \in {"default", "select"}
                         \/ brDoubt'
                         \/ Owned(brView.draft, brView.company)'
                         \/ /\ brDoubt' = brDoubt /\ brView'.draft = brView.draft
                            /\ brView'.company = brView.company
                            /\ \A r \in brReqs : r.kind \in {"default", "select"} => r \in reqs
    PROVE  BrKept
  <1>1. /\ brSent' \in Nat
        /\ \A r \in brReqs' : BrRequest(r)'
        /\ \A r \in reqs : r \in brReqs' /\ r.n # brSent'
        /\ \A r \in brReqs' : r \in reqs \/ (/\ r.kind = kind /\ r.company = c
                                             /\ r.branding = branding)
        /\ \E r \in brReqs' : r.kind = kind
    BY BrSendIs
  <1>2. BrShape'
    BY <1>1 DEF BrShape, BrPage
  <1>3. ASSUME BrOwned
        PROVE  BrOwned'
    <2>1. LastIsSelected'
      BY <1>1 DEF LastIsSelected
    <2>2. SentIsOwned'
      BY <1>1, <1>3 DEF BrOwned, SentIsOwned, Owned
    <2>3. DraftOwned'
      <3>1. CASE kind \in {"default", "select"} \/ brDoubt' \/ Owned(brView.draft, brView.company)'
        BY <1>1, <3>1 DEF DraftOwned
      <3>2. CASE /\ brDoubt' = brDoubt /\ brView'.draft = brView.draft
                 /\ brView'.company = brView.company
                 /\ \A r \in brReqs : r.kind \in {"default", "select"} => r \in reqs
        <4>1. DraftOwned
          BY <1>3 DEF BrOwned
        <4>2. Owned(brView.draft, brView.company) => Owned(brView.draft, brView.company)'
          BY <3>2 DEF Owned
        <4>3. QED
          BY <1>1, <3>2, <4>1, <4>2 DEF DraftOwned
      <3>3. QED
        BY <1>3, <3>1, <3>2
    <2>4. QED
      BY <1>3, <2>1, <2>2, <2>3 DEF BrOwned
  <1>4. QED
    BY <1>2, <1>3 DEF BrKept, AllMixed

\* A step that sends nothing and selects nothing.
LEMMA BrRestKeeps ==
    ASSUME BrShape, BrServer', DOMAIN brStored' = DOMAIN brStored, BrPage(brView'),
           brMixed \subseteq brMixed', brReqs' \subseteq brReqs, brSent' = brSent,
           brView'.company = brView.company,
           BrOwned => DraftOwned' /\ StoredIsOwned'
    PROVE  BrKept
  <1>1. BrShape'
    BY DEF BrShape, BrRequest, BrPage
  <1>2. BrOwned => BrOwned'
    BY DEF BrOwned, LastIsSelected, SentIsOwned, Owned
  <1>3. QED
    BY <1>1, <1>2 DEF BrKept, AllMixed

\* An answer that is not overtaken is about the selected company.
LEMMA NotOvertaken ==
    ASSUME BrShape, BrOwned, NEW r \in brReqs, ~Doubtful(r),
           r.kind \in {"default", "select", "save", "logo"}
    PROVE  r.company = brView.company
  BY DEF Doubtful, BrOwned, LastIsSelected

LEMMA LowestIs ==
    ASSUME BrServer, DOMAIN brStored # {}
    PROVE  Min(DOMAIN brStored) \in DOMAIN brStored
  <1>1. PICK k \in 0 .. MaxCompanies : DOMAIN brStored = 1 .. k
    BY DEF BrServer
  <1>2. 1 \in DOMAIN brStored /\ \A c \in DOMAIN brStored : 1 <= c
    BY <1>1, BrandingAssumption
  <1>3. QED
    BY <1>2 DEF Min

LEMMA StoredIs ==
    ASSUME BrShape, NEW r \in brReqs, r.kind \in {"save", "patch"},
           \/ brStored' = brStored
           \/ brStored' = [brStored EXCEPT ![r.company] = r.branding],
           brMixed \subseteq brMixed'
    PROVE  /\ BrServer' /\ DOMAIN brStored' = DOMAIN brStored
           /\ BrOwned => StoredIsOwned'
  <1>1. BrServer /\ BrRequest(r)
    BY DEF BrShape
  <1>2. ASSUME NEW c \in DOMAIN brStored
        PROVE  brStored'[c] = brStored[c] \/ (c = r.company /\ brStored'[c] = r.branding)
    OBVIOUS
  <1>3. DOMAIN brStored' = DOMAIN brStored
    OBVIOUS
  <1>4. BrServer'
    BY <1>1, <1>2, <1>3 DEF BrServer, BrRequest
  <1>5. BrOwned => StoredIsOwned'
    BY <1>2, <1>3 DEF BrOwned, StoredIsOwned, SentIsOwned, Owned
  <1>6. QED
    BY <1>3, <1>4, <1>5

LEMMA InitBranding == BrandingInit => BrInv
  <1> SUFFICES ASSUME BrandingInit
               PROVE  BrInv
    OBVIOUS
  <1>1. PICK k \in {0, MaxCompanies} : brStored = [c \in 1 .. k |-> [text |-> c, logo |-> c]]
    BY DEF BrandingInit
  <1>2. k \in 0 .. MaxCompanies /\ DOMAIN brStored = 1 .. k
    BY <1>1, BrandingAssumption
  <1>3. \A c \in DOMAIN brStored : BrBranding(brStored[c]) /\ Owned(brStored[c], c)
    BY <1>1, <1>2 DEF BrBranding, Owned
  <1>4. BrPage(brView) /\ Owned(brView.draft, brView.company)
    BY DEF BrandingInit, EmptyDraft, BrPage, BrBranding, Owned
  <1>5. PICK new : new = [n |-> 1, kind |-> "list", company |-> 0, branding |-> EmptyDraft(0)]
    OBVIOUS
  <1>6. BrRequest(new) /\ new.kind = "list" /\ brReqs = {new}
    BY <1>5 DEF BrandingInit, EmptyDraft, BrRequest, BrBranding
  <1>7. BrShape
    BY <1>2, <1>3, <1>4, <1>6 DEF BrandingInit, BrShape, BrServer
  <1>8. BrOwned
    BY <1>3, <1>4, <1>6 DEF BrOwned, DraftOwned, LastIsSelected, SentIsOwned, StoredIsOwned
  <1>9. QED
    BY <1>7, <1>8 DEF BrInv

LEMMA EmptyIs == \A c : BrBranding(EmptyDraft(c)) /\ Owned(EmptyDraft(c), c)
  BY DEF BrBranding, EmptyDraft, Owned

\* What the user does: nothing of it changes the server.
LEMMA BrUserKeeps ==
    ASSUME BrShape,
           RetryBranding \/ SelectCompany \/ PickLogo \/ RemoveLogo \/ SaveBranding
               \/ PreviewBranding \/ CreateCompany
    PROVE  BrKept
  <1>1. /\ BrServer /\ BrPage(brView)
        /\ brView.company \in DOMAIN brStored \cup {0} /\ BrBranding(brView.draft)
        /\ brView.companies \subseteq DOMAIN brStored
    BY DEF BrShape, BrPage
  <1>2. UNCHANGED <<brStored, brDoubt>> /\ brMixed \subseteq brMixed'
    BY DEF RetryBranding, SelectCompany, PickLogo, RemoveLogo, SaveBranding, PreviewBranding,
           CreateCompany
  <1>3. BrServer' /\ (BrOwned => StoredIsOwned')
    BY <1>1, <1>2 DEF BrServer, BrOwned, StoredIsOwned, Owned
  <1>4. CASE RetryBranding
    <2>1. /\ BrSend(brReqs, "list", 0, EmptyDraft(0))
          /\ brView' = [brView EXCEPT !.loading = TRUE, !.error = FALSE]
      BY <1>4 DEF RetryBranding
    <2>2. BrPage(brView') /\ brView'.draft = brView.draft /\ brView'.company = brView.company
      BY <1>1, <2>1 DEF BrPage
    <2>3. QED
      BY <1>2, <1>3, <2>1, <2>2, EmptyIs, BrAskKeeps
  <1>5. CASE SelectCompany
    <2>1. PICK c \in brView.companies :
              /\ BrSend(brReqs, "select", c, brStored[c])
              /\ brView' = [brView EXCEPT !.company = c, !.pdf = 0]
      BY <1>5 DEF SelectCompany
    <2>2. c \in DOMAIN brStored /\ BrBranding(brStored[c])
      BY <1>1 DEF BrServer
    <2>3. BrPage(brView') /\ brView'.company = c
      BY <1>1, <2>1, <2>2 DEF BrPage
    <2>4. BrOwned => Owned(brStored[c], c)'
      BY <1>2, <1>3, <2>2 DEF StoredIsOwned, Owned
    <2>5. QED
      BY <1>2, <1>3, <2>1, <2>2, <2>3, <2>4, BrAskKeeps
  <1>6. CASE PickLogo
    <2>1. BrSend(brReqs, "logo", brView.company, EmptyDraft(0)) /\ brView' = brView
      BY <1>6 DEF PickLogo
    <2>2. QED
      BY <1>1, <1>2, <1>3, <2>1, EmptyIs, BrAskKeeps
  <1>7. CASE RemoveLogo
    <2>1. brView' = [brView EXCEPT !.draft.logo = 0] /\ UNCHANGED <<brReqs, brSent>>
      BY <1>7 DEF RemoveLogo
    <2>2. PICK draft : draft = [brView.draft EXCEPT !.logo = 0]
      OBVIOUS
    <2>3. draft = [text |-> brView.draft.text, logo |-> 0]
      BY <1>1, <2>2 DEF BrBranding
    <2>4. brView' = [brView EXCEPT !.draft = draft]
      BY <2>1, <2>2
    <2>5. BrPage(brView') /\ brView'.draft = draft /\ brView'.company = brView.company
      BY <1>1, <2>3, <2>4 DEF BrPage, BrBranding
    <2>6. BrOwned => DraftOwned'
      BY <1>2, <2>1, <2>3, <2>5 DEF BrOwned, DraftOwned, Owned
    <2>7. QED
      BY <1>2, <1>3, <2>1, <2>5, <2>6, BrRestKeeps
  <1>8. ASSUME NEW kind \in {"save", "patch", "generate"},
               BrSend(brReqs, kind, brView.company, brView.draft),
               BrPage(brView'), brView'.draft = brView.draft, brView'.company = brView.company,
               kind # "generate" /\ Unsettled => brView.company \in brMixed'
        PROVE  BrKept
    <2>1. BrOwned /\ kind # "generate" => Owned(brView.draft, brView.company)'
      <3>1. CASE Unsettled
        BY <1>8, <3>1 DEF Owned
      <3>2. CASE ~Unsettled
        <4>1. ~brDoubt /\ \A r \in brReqs : r.kind \notin {"default", "select"}
          BY <3>2 DEF Unsettled
        <4>2. BrOwned => Owned(brView.draft, brView.company)
          BY <4>1 DEF BrOwned, DraftOwned
        <4>3. QED
          BY <1>2, <1>8, <4>2 DEF Owned
      <3>3. QED
        BY <3>1, <3>2
    <2>2. BrOwned /\ kind \in {"default", "select", "save", "patch"}
              => \A b, c : b = brView.draft /\ c = brView.company => Owned(b, c)'
      BY <1>8, <2>1 DEF Owned
    <2>3. PICK b, c : b = brView.draft /\ c = brView.company
      OBVIOUS
    <2>4. BrSend(brReqs, kind, c, b) /\ BrBranding(b) /\ c \in DOMAIN brStored \cup {0}
      BY <1>1, <1>8, <2>3
    <2>5. BrOwned => (kind \in {"default", "select", "save", "patch"} => Owned(b, c)')
      BY <2>2, <2>3
    <2>6. kind \in {"default", "select", "save", "logo"} => c = brView'.company
      BY <1>8, <2>3
    <2>7. QED
      BY <1>2, <1>3, <1>8, <2>4, <2>5, <2>6, BrAskKeeps
  <1>9. CASE SaveBranding
    <2>1. /\ BrSend(brReqs, "save", brView.company, brView.draft)
          /\ brView' = [brView EXCEPT !.saving = TRUE]
          /\ Unsettled => brView.company \in brMixed'
      BY <1>9 DEF SaveBranding, SaveTarget
    <2>2. BrPage(brView') /\ brView'.draft = brView.draft /\ brView'.company = brView.company
      BY <1>1, <2>1 DEF BrPage
    <2>3. QED
      BY <1>8, <2>1, <2>2
  <1>10. CASE PreviewBranding
    <2>1. /\ BrSend(brReqs, IF CanWrite THEN "patch" ELSE "generate", brView.company, brView.draft)
          /\ brView' = [brView EXCEPT !.previewing = TRUE]
          /\ Unsettled /\ CanWrite => brView.company \in brMixed'
      BY <1>10 DEF PreviewBranding, SaveTarget
    <2>2. BrPage(brView') /\ brView'.draft = brView.draft /\ brView'.company = brView.company
      BY <1>1, <2>1 DEF BrPage
    <2>3. CASE CanWrite
      BY <1>8, <2>1, <2>2, <2>3
    <2>4. CASE ~CanWrite
      BY <1>8, <2>1, <2>2, <2>4
    <2>5. QED
      BY <2>3, <2>4
  <1>11. CASE CreateCompany
    <2>1. BrSend(brReqs, "create", 0, EmptyDraft(0)) /\ brView' = brView
      BY <1>11 DEF CreateCompany
    <2>2. QED
      BY <1>1, <1>2, <1>3, <2>1, EmptyIs, BrAskKeeps
  <1>12. QED
    BY <1>4, <1>5, <1>6, <1>7, <1>9, <1>10, <1>11

\* The list of companies, and a branding the page asked for.
LEMMA BrLoadKeeps ==
    ASSUME BrShape, NEW r \in brReqs,
           \/ CompaniesListed(r)
           \/ r.kind \in {"default", "select"} /\ CompanyFetched(r)
           \/ r.kind \in {"list", "default", "select"} /\ BrLoadFails(r)
    PROVE  BrKept
  <1>1. /\ BrServer /\ BrPage(brView) /\ BrRequest(r)
        /\ brView.company \in DOMAIN brStored \cup {0} /\ brView.companies \subseteq DOMAIN brStored
        /\ BrOthers(r) = brReqs \ {r} /\ BrOthers(r) \in SUBSET brReqs
    BY DEF BrShape, BrPage, BrOthers
  <1>2. UNCHANGED <<brStored, brMixed>>
    BY DEF CompaniesListed, CompanyFetched, BrLoadFails
  <1>3. BrServer' /\ (BrOwned => StoredIsOwned')
    BY <1>1, <1>2 DEF BrServer, BrOwned, StoredIsOwned, Owned
  <1>4. CASE CompaniesListed(r) /\ DOMAIN brStored = {}
    <2>1. /\ brReqs' = BrOthers(r) /\ brSent' = brSent
          /\ brView' = [brView EXCEPT !.companies = {}, !.company = 0,
                                      !.draft = EmptyDraft(0), !.loading = FALSE]
      BY <1>4 DEF CompaniesListed
    <2>2. /\ BrPage(brView') /\ brView'.company = 0 /\ brView'.draft = EmptyDraft(0)
          /\ brView.company = 0
      BY <1>1, <1>4, <2>1, EmptyIs DEF BrPage
    <2>3. Owned(brView.draft, brView.company)'
      BY <2>2 DEF EmptyDraft, Owned
    <2>4. QED
      BY <1>1, <1>2, <1>3, <2>1, <2>2, <2>3, BrRestKeeps DEF DraftOwned
  <1>5. CASE CompaniesListed(r) /\ DOMAIN brStored # {}
    <2>1. PICK c : c = Min(DOMAIN brStored)
      OBVIOUS
    <2>2. /\ BrSend(BrOthers(r), "default", c, brStored[c])
          /\ brView' = [brView EXCEPT !.companies = DOMAIN brStored, !.company = c]
      BY <1>5, <2>1 DEF CompaniesListed
    <2>3. c \in DOMAIN brStored /\ BrBranding(brStored[c])
      BY <1>1, <1>5, <2>1, LowestIs DEF BrServer
    <2>4. BrPage(brView') /\ brView'.company = c
      BY <1>1, <2>2, <2>3 DEF BrPage
    <2>5. BrOwned => Owned(brStored[c], c)'
      BY <1>2, <1>3, <2>3 DEF StoredIsOwned, Owned
    <2>6. QED
      BY <1>1, <1>2, <1>3, <2>2, <2>3, <2>4, <2>5, BrAskKeeps
  <1>6. CASE r.kind \in {"default", "select"} /\ CompanyFetched(r)
    <2>1. PICK branding \in {r.branding, brStored[r.company]} :
              brView' = [brView EXCEPT !.draft = branding,
                                       !.loading = IF r.kind = "default" THEN FALSE ELSE @]
      BY <1>6 DEF CompanyFetched
    <2>2. brReqs' = BrOthers(r) /\ brDoubt' = Doubtful(r) /\ brSent' = brSent
      BY <1>6 DEF CompanyFetched
    <2>3. CASE BrBranding(branding) /\ (BrOwned => Owned(branding, r.company))
      <3>1. /\ BrPage(brView') /\ brView'.company = brView.company /\ brView'.draft = branding
        BY <1>1, <2>1, <2>3 DEF BrPage
      <3>2. BrOwned => DraftOwned'
        <4>1. SUFFICES ASSUME BrOwned, ~Doubtful(r)
                       PROVE  Owned(brView.draft, brView.company)'
          BY <2>2 DEF DraftOwned
        <4>2. r.company = brView.company
          BY <1>6, <4>1, NotOvertaken
        <4>3. QED
          BY <1>2, <2>3, <3>1, <4>1, <4>2 DEF Owned
      <3>3. QED
        BY <1>1, <1>2, <1>3, <2>2, <3>1, <3>2, BrRestKeeps
    <2>4. BrOwned => Owned(r.branding, r.company)
      BY <1>6 DEF BrOwned, SentIsOwned
    <2>5. BrBranding(r.branding)
      BY <1>1 DEF BrRequest
    <2>6. r.company \in DOMAIN brStored
              => BrBranding(brStored[r.company]) /\ (BrOwned => Owned(brStored[r.company], r.company))
      BY <1>1 DEF BrServer, BrOwned, StoredIsOwned
    <2>7. QED
      BY <1>1, <1>6, <2>1, <2>3, <2>4, <2>5, <2>6 DEF BrRequest
  <1>7. CASE BrLoadFails(r)
    <2>1. /\ brReqs' = BrOthers(r) /\ brDoubt' /\ brSent' = brSent
          /\ \/ brView' = brView
             \/ brView' = [brView EXCEPT !.loading = FALSE, !.error = TRUE]
      BY <1>7 DEF BrLoadFails
    <2>2. BrPage(brView') /\ brView'.company = brView.company
      BY <1>1, <2>1 DEF BrPage
    <2>3. QED
      BY <1>1, <1>2, <1>3, <2>1, <2>2, BrRestKeeps DEF DraftOwned
  <1>8. QED
    BY <1>4, <1>5, <1>6, <1>7

\* A logo that is put into the draft, the answers to a save, and the preview's.
LEMMA BrLogoKeeps ==
    ASSUME BrShape, NEW r \in brReqs, r.kind = "logo", LogoRead(r)
    PROVE  BrKept
  <1>1. /\ BrServer /\ BrPage(brView) /\ BrBranding(brView.draft)
        /\ BrOthers(r) = brReqs \ {r}
        /\ brView' = [brView EXCEPT !.draft.logo = r.company]
        /\ brReqs' = BrOthers(r) /\ brDoubt' = (brDoubt \/ Doubtful(r))
        /\ UNCHANGED <<brStored, brSent, brMixed>>
    BY DEF BrShape, BrPage, BrOthers, LogoRead
  <1>2. PICK draft : draft = [brView.draft EXCEPT !.logo = r.company]
    OBVIOUS
  <1>3. draft = [text |-> brView.draft.text, logo |-> r.company]
    BY <1>1, <1>2 DEF BrBranding
  <1>4. brView' = [brView EXCEPT !.draft = draft]
    BY <1>1, <1>2
  <1>5. BrPage(brView') /\ brView'.draft = draft /\ brView'.company = brView.company
    BY <1>1, <1>3, <1>4 DEF BrPage, BrBranding
  <1>6. BrServer' /\ (BrOwned => StoredIsOwned')
    BY <1>1 DEF BrServer, BrOwned, StoredIsOwned, Owned
  <1>7. BrOwned => DraftOwned'
    <2>1. SUFFICES ASSUME BrOwned, ~brDoubt, ~Doubtful(r)
                   PROVE  Owned(brView.draft, brView.company)'
      BY <1>1 DEF DraftOwned
    <2>2. r.company = brView.company
      BY <2>1, NotOvertaken
    <2>3. \A s \in brReqs : s.kind \notin {"default", "select"}
      BY <1>1, <2>1 DEF Doubtful
    <2>4. Owned(brView.draft, brView.company)
      BY <2>1, <2>3 DEF BrOwned, DraftOwned
    <2>5. QED
      BY <1>1, <1>3, <1>5, <2>2, <2>4 DEF Owned
  <1>8. QED
    BY <1>1, <1>5, <1>6, <1>7, BrRestKeeps

LEMMA BrSavedKeeps ==
    ASSUME BrShape, NEW r \in brReqs, r.kind = "save", BrandingSaved(r) \/ SaveFails(r)
    PROVE  BrKept
  <1>1. /\ BrPage(brView) /\ BrRequest(r) /\ BrBranding(r.branding)
        /\ BrOthers(r) = brReqs \ {r} /\ BrOthers(r) \in SUBSET brReqs
    BY DEF BrShape, BrOthers, BrRequest
  <1>2. /\ \/ brStored' = brStored
           \/ brStored' = [brStored EXCEPT ![r.company] = r.branding]
        /\ brMixed' = brMixed
    BY DEF BrandingSaved, SaveFails
  <1>3. BrServer' /\ DOMAIN brStored' = DOMAIN brStored /\ (BrOwned => StoredIsOwned')
    BY <1>2, StoredIs
  <1>4. CASE BrandingSaved(r)
    <2>1. /\ brView' = [brView EXCEPT !.draft = r.branding]
          /\ BrSend(BrOthers(r), "relist", 0, EmptyDraft(0)) /\ brDoubt' = Doubtful(r)
      BY <1>4 DEF BrandingSaved
    <2>2. BrPage(brView') /\ brView'.draft = r.branding /\ brView'.company = brView.company
      BY <1>1, <2>1 DEF BrPage
    <2>3. BrOwned /\ ~brDoubt' => Owned(brView.draft, brView.company)'
      <3>1. SUFFICES ASSUME BrOwned, ~Doubtful(r)
                     PROVE  Owned(brView.draft, brView.company)'
        BY <2>1
      <3>2. r.company = brView.company
        BY <3>1, NotOvertaken
      <3>3. Owned(r.branding, r.company)
        BY <3>1 DEF BrOwned, SentIsOwned
      <3>4. QED
        BY <1>2, <2>2, <3>2, <3>3 DEF Owned
    <2>4. QED
      BY <1>1, <1>2, <1>3, <2>1, <2>2, <2>3, EmptyIs, BrAskKeeps
  <1>5. CASE SaveFails(r)
    <2>1. /\ brView' = [brView EXCEPT !.saving = FALSE] /\ brReqs' = BrOthers(r)
          /\ UNCHANGED <<brSent, brDoubt>>
      BY <1>5 DEF SaveFails
    <2>2. BrPage(brView') /\ brView'.draft = brView.draft /\ brView'.company = brView.company
      BY <1>1, <2>1 DEF BrPage
    <2>3. BrOwned => DraftOwned'
      BY <1>1, <1>2, <2>1, <2>2 DEF BrOwned, DraftOwned, Owned
    <2>4. QED
      BY <1>1, <1>2, <1>3, <2>1, <2>2, <2>3, BrRestKeeps
  <1>6. QED
    BY <1>4, <1>5

LEMMA BrPreviewKeeps ==
    ASSUME BrShape, NEW r \in brReqs,
           \/ r.kind = "relist" /\ Relisted(r)
           \/ r.kind = "patch" /\ Patched(r)
           \/ r.kind \in {"patch", "generate"} /\ PreviewEnds(r)
           \/ r.kind = "create" /\ CreateFails(r)
    PROVE  BrKept
  <1>1. /\ BrServer /\ BrPage(brView) /\ BrRequest(r) /\ BrBranding(r.branding)
        /\ r.company \in DOMAIN brStored \cup {0}
        /\ BrOthers(r) = brReqs \ {r} /\ BrOthers(r) \in SUBSET brReqs
    BY DEF BrShape, BrOthers, BrRequest
  <1>2. /\ brMixed' = brMixed /\ brDoubt' = brDoubt
        /\ \/ brStored' = brStored
           \/ r.kind = "patch" /\ brStored' = [brStored EXCEPT ![r.company] = r.branding]
    BY DEF Relisted, Patched, PreviewEnds, CreateFails
  <1>3. BrServer' /\ DOMAIN brStored' = DOMAIN brStored /\ (BrOwned => StoredIsOwned')
    <2>1. CASE brStored' = brStored
      BY <1>1, <1>2, <2>1 DEF BrServer, BrOwned, StoredIsOwned, Owned
    <2>2. CASE r.kind = "patch" /\ brStored' = [brStored EXCEPT ![r.company] = r.branding]
      BY <1>2, <2>2, StoredIs
    <2>3. QED
      BY <1>2, <2>1, <2>2
  <1>4. CASE r.kind = "patch" /\ Patched(r)
    <2>1. BrSend(BrOthers(r), "generate", r.company, r.branding) /\ brView' = brView
      BY <1>4 DEF Patched
    <2>2. \A s \in brReqs : s.kind \in {"default", "select"} => s \in BrOthers(r)
      BY <1>1, <1>4
    <2>3. QED
      BY <1>1, <1>2, <1>3, <2>1, <2>2, BrAskKeeps
  <1>5. ASSUME brReqs' = BrOthers(r), brSent' = brSent, BrPage(brView'),
               brView'.draft = brView.draft, brView'.company = brView.company,
               r.kind \notin {"default", "select"}
        PROVE  BrKept
    <2>1. BrOwned => DraftOwned'
      BY <1>1, <1>2, <1>5 DEF BrOwned, DraftOwned, Owned
    <2>2. QED
      BY <1>1, <1>2, <1>3, <1>5, <2>1, BrRestKeeps
  <1>6. CASE r.kind = "relist" /\ Relisted(r)
    <2>1. PICK cs \in {brView.companies, DOMAIN brStored} :
              brView' = [brView EXCEPT !.saving = FALSE, !.companies = cs]
      BY <1>6 DEF Relisted
    <2>2. BrPage(brView') /\ brView'.draft = brView.draft /\ brView'.company = brView.company
      BY <1>1, <2>1 DEF BrPage
    <2>3. QED
      BY <1>5, <1>6, <2>2 DEF Relisted
  <1>7. CASE r.kind \in {"patch", "generate"} /\ PreviewEnds(r)
    <2>1. PICK p : brView' = [brView EXCEPT !.previewing = FALSE, !.pdf = p]
      BY <1>7 DEF PreviewEnds
    <2>2. BrPage(brView') /\ brView'.draft = brView.draft /\ brView'.company = brView.company
      BY <1>1, <2>1 DEF BrPage
    <2>3. QED
      BY <1>5, <1>7, <2>2 DEF PreviewEnds
  <1>8. CASE r.kind = "create" /\ CreateFails(r)
    BY <1>1, <1>5, <1>8 DEF CreateFails
  <1>9. QED
    BY <1>4, <1>6, <1>7, <1>8

\* A company that is created; if the page was told while something else was
\* under way, no company's branding is vouched for any more.
LEMMA BrCreatedKeeps ==
    ASSUME BrShape, NEW r \in brReqs, r.kind = "create", CompanyCreated(r)
    PROVE  BrKept
  <1>1. PICK told \in BOOLEAN :
            LET c == Cardinality(DOMAIN brStored) + 1
            IN /\ c <= MaxCompanies
               /\ brStored' = [x \in 1 .. c |-> IF x = c THEN EmptyDraft(c) ELSE brStored[x]]
               /\ brView' = IF told THEN [brView EXCEPT !.companies = {c}, !.company = c,
                                                        !.draft = EmptyDraft(c)]
                            ELSE brView
               /\ brReqs' = BrOthers(r)
               /\ brMixed' = IF told /\ BrOthers(r) # {} THEN 1 .. MaxCompanies ELSE brMixed
               /\ UNCHANGED <<brSent, brDoubt>>
    BY DEF CompanyCreated
  <1>2. PICK k \in 0 .. MaxCompanies : DOMAIN brStored = 1 .. k
    BY DEF BrShape, BrServer
  <1>3. k \in Nat /\ Cardinality(DOMAIN brStored) = k
    BY <1>2, BrandingAssumption, FS_Interval
  <1>4. PICK c : c = k + 1
    OBVIOUS
  <1>5. /\ c <= MaxCompanies
        /\ brStored' = [x \in 1 .. c |-> IF x = c THEN EmptyDraft(c) ELSE brStored[x]]
        /\ brView' = IF told THEN [brView EXCEPT !.companies = {c}, !.company = c,
                                                 !.draft = EmptyDraft(c)]
                     ELSE brView
        /\ brReqs' = BrOthers(r)
        /\ brMixed' = IF told /\ BrOthers(r) # {} THEN 1 .. MaxCompanies ELSE brMixed
        /\ brSent' = brSent /\ brDoubt' = brDoubt
    BY <1>1, <1>3, <1>4
  <1>6. /\ c \in 1 .. MaxCompanies /\ DOMAIN brStored' = 1 .. c
        /\ DOMAIN brStored \subseteq DOMAIN brStored' /\ c \in DOMAIN brStored'
        /\ \A x \in DOMAIN brStored' : x = c \/ x \in DOMAIN brStored
    BY <1>2, <1>3, <1>4, <1>5, BrandingAssumption
  <1>7. \A x \in DOMAIN brStored' : brStored'[x] = IF x = c THEN EmptyDraft(c) ELSE brStored[x]
    BY <1>5, <1>6
  <1>8. BrServer'
    BY <1>6, <1>7, EmptyIs DEF BrShape, BrServer
  <1>9. BrPage(brView)'
    <2>1. CASE told
      <3>1. brView' = [brView EXCEPT !.companies = {c}, !.company = c, !.draft = EmptyDraft(c)]
        BY <1>5, <2>1
      <3>2. /\ BrBranding(brView'.draft) /\ brView'.company = c /\ brView'.companies = {c}
            /\ brView' = [companies |-> brView'.companies, company |-> brView'.company,
                          draft |-> brView'.draft, loading |-> brView'.loading,
                          error |-> brView'.error, saving |-> brView'.saving,
                          previewing |-> brView'.previewing, pdf |-> brView'.pdf]
        BY <3>1, EmptyIs DEF BrShape, BrPage
      <3>3. QED
        BY <1>6, <3>2 DEF BrPage, BrBranding
    <2>2. CASE ~told
      BY <1>5, <1>6, <2>2 DEF BrShape, BrPage, BrBranding
    <2>3. QED
      BY <2>1, <2>2
  <1>10. BrOthers(r) = brReqs \ {r}
    BY DEF BrOthers
  <1>11. \A s \in brReqs' : BrRequest(s)'
    BY <1>5, <1>6, <1>10 DEF BrShape, BrRequest
  <1>12. BrShape' /\ (AllMixed => AllMixed')
    BY <1>5, <1>8, <1>9, <1>11 DEF BrShape, AllMixed
  <1>13. BrOwned => BrOwned' \/ AllMixed'
    <2>1. CASE told /\ BrOthers(r) # {}
      BY <1>5, <2>1 DEF AllMixed
    <2>2. CASE ~(told /\ BrOthers(r) # {})
      <3>1. brMixed' = brMixed
        BY <1>5, <2>2
      <3>2. BrOwned => StoredIsOwned'
        BY <1>6, <1>7, <3>1, EmptyIs DEF BrOwned, StoredIsOwned, Owned, EmptyDraft
      <3>3. CASE told
        <4>1. brReqs' = {} /\ brView'.company = c /\ brView'.draft = EmptyDraft(c)
          BY <1>5, <2>2, <3>3 DEF BrShape, BrPage
        <4>2. Owned(brView.draft, brView.company)'
          BY <4>1 DEF Owned, EmptyDraft
        <4>3. QED
          BY <3>2, <4>1, <4>2 DEF BrOwned, DraftOwned, LastIsSelected, SentIsOwned
      <3>4. CASE ~told
        <4>1. brView' = brView /\ brReqs' = brReqs \ {r} /\ brSent' = brSent /\ brDoubt' = brDoubt
          BY <1>5, <1>10, <3>4
        <4>2. BrOwned => DraftOwned' /\ LastIsSelected' /\ SentIsOwned'
          BY <3>1, <4>1 DEF BrOwned, DraftOwned, LastIsSelected, SentIsOwned, Owned
        <4>3. QED
          BY <3>2, <4>2 DEF BrOwned
      <3>5. QED
        BY <3>3, <3>4
    <2>3. QED
      BY <2>1, <2>2
  <1>14. QED
    BY <1>12, <1>13 DEF BrKept

LEMMA NextKeepsBranding == BrInv /\ [BrandingNext]_brVars => BrInv'
  <1> SUFFICES ASSUME BrInv, [BrandingNext]_brVars
               PROVE  BrInv'
    OBVIOUS
  <1>1. BrShape /\ (BrOwned \/ AllMixed) /\ (BrKept => BrInv')
    BY DEF BrInv, BrKept
  <1>2. CASE RetryBranding \/ SelectCompany \/ PickLogo \/ RemoveLogo \/ SaveBranding
                 \/ PreviewBranding \/ CreateCompany
    BY <1>1, <1>2, BrUserKeeps
  <1>3. ASSUME NEW r \in brReqs, BrandingAnswer(r)
        PROVE  BrInv'
    <2>1. CASE \/ CompaniesListed(r)
               \/ r.kind \in {"default", "select"} /\ CompanyFetched(r)
               \/ r.kind \in {"list", "default", "select"} /\ BrLoadFails(r)
      BY <1>1, <2>1, BrLoadKeeps
    <2>2. CASE r.kind = "logo" /\ LogoRead(r)
      BY <1>1, <2>2, BrLogoKeeps
    <2>3. CASE r.kind = "save" /\ (BrandingSaved(r) \/ SaveFails(r))
      BY <1>1, <2>3, BrSavedKeeps
    <2>4. CASE \/ r.kind = "relist" /\ Relisted(r)
               \/ r.kind = "patch" /\ Patched(r)
               \/ r.kind \in {"patch", "generate"} /\ PreviewEnds(r)
               \/ r.kind = "create" /\ CreateFails(r)
      BY <1>1, <2>4, BrPreviewKeeps
    <2>5. CASE r.kind = "create" /\ CompanyCreated(r)
      BY <1>1, <2>5, BrCreatedKeeps
    <2>6. QED
      BY <1>3, <2>1, <2>2, <2>3, <2>4, <2>5 DEF BrandingAnswer
  <1>4. CASE UNCHANGED brVars
    <2>1. UNCHANGED <<brStored, brView, brReqs, brSent, brDoubt, brMixed>>
      BY <1>4 DEF brVars
    <2>2. BrShape'
      BY <1>1, <2>1 DEF BrShape, BrServer, BrPage, BrBranding, BrRequest
    <2>3. (BrOwned => BrOwned') /\ (AllMixed => AllMixed')
      BY <2>1 DEF BrOwned, DraftOwned, LastIsSelected, SentIsOwned, StoredIsOwned, Owned, AllMixed
    <2>4. QED
      BY <1>1, <2>2, <2>3 DEF BrInv
  <1>5. QED
    BY <1>2, <1>3, <1>4 DEF BrandingNext

\* BrandingPage.tsx, selectCompany, save and preview: what is stored as a
\* company's text and logo is its own, whatever is selected before the answers
\* are in, but for the companies saved to in doubt.
THEOREM BrandingIsItsOwners == ConsoleSpec => []BrandingSavedToItsOwner
  <1>1. BrInv => BrandingSavedToItsOwner
    <2>1. SUFFICES ASSUME BrShape, BrOwned \/ AllMixed, NEW c \in DOMAIN brStored
                   PROVE  (brStored[c].text = c /\ brStored[c].logo \in {0, c}) \/ c \in brMixed
      BY DEF BrInv, BrandingSavedToItsOwner
    <2>2. CASE BrOwned
      BY <2>2 DEF BrOwned, StoredIsOwned, Owned
    <2>3. CASE AllMixed
      <3>1. PICK k \in 0 .. MaxCompanies : DOMAIN brStored = 1 .. k
        BY <2>1 DEF BrShape, BrServer
      <3>2. c \in 1 .. MaxCompanies
        BY <3>1, BrandingAssumption
      <3>3. QED
        BY <2>3, <3>2 DEF AllMixed
    <2>4. QED
      BY <2>1, <2>2, <2>3
  <1>2. ConsoleInit => BrInv
    <2>1. SUFFICES ASSUME ConsoleInit
                   PROVE  BrInv
      OBVIOUS
    <2>2. QED
      BY <2>1, InitBranding DEF ConsoleInit
  <1>3. BrInv /\ [ConsoleNext]_consoleVars => BrInv'
    BY NextKeepsBranding DEF ConsoleNext, consoleVars
  <1>4. QED
    BY <1>1, <1>2, <1>3, PTL DEF ConsoleSpec

-----------------------------------------------------------------------------
(* The types of the other pages, with the bounds of their counters.         *)

\* A request carries no secret the server has not made.
SecTypes == SecurityTypeOK /\ \A r \in secReqs : r.secret \in 0 .. SecMaxSecrets

LEMMA SecuritySends ==
    ASSUME SecTypes, NEW reqs, NEW kind, NEW secret \in 0 .. SecMaxSecrets,
           \A r \in reqs : r.secret \in 0 .. SecMaxSecrets, SecSend(reqs, kind, secret)
    PROVE  /\ secSent' \in 1 .. SecMaxSends
           /\ \A r \in secReqs' : r.secret \in 0 .. SecMaxSecrets
  <1> DEFINE new == [n |-> secSent + 1, kind |-> kind, secret |-> secret,
                     since |-> SecStatus(secServer'), dirty |-> FALSE]
  <1>1. new.secret = secret /\ secReqs' = reqs \cup {new}
    BY DEF SecSend
  <1> HIDE DEF new
  <1>2. \A r \in secReqs' : r.secret \in 0 .. SecMaxSecrets
    BY <1>1
  <1>3. secSent \in 1 .. SecMaxSends /\ secSent' = secSent + 1 /\ secSent < SecMaxSends
    BY DEF SecTypes, SecurityTypeOK, SecSend
  <1>4. secSent' \in 1 .. SecMaxSends
    BY <1>3, SecurityAssumption
  <1>5. QED
    BY <1>2, <1>4

\* Marking requests as out of date, or leaving some, changes no secret.
LEMMA SecretsStay ==
    ASSUME SecTypes, SecShape
    PROVE  /\ \A r \in secReqs : \A s \in SecOutdated(SecOthers(r)) : s.secret \in 0 .. SecMaxSecrets
           /\ \A s \in SecOutdated(secReqs) : s.secret \in 0 .. SecMaxSecrets
           /\ \A s \in SecOutdated(Refreshes) : s.secret \in 0 .. SecMaxSecrets
  <1>1. \A r \in secReqs : r \in SecRequests
    BY DEF SecShape
  <1>2. \A r \in SecRequests : [r EXCEPT !.dirty = TRUE].secret = r.secret
    BY DEF SecRequests
  <1>3. \A r \in SecRequests : /\ [r EXCEPT !.kind = "refresh"].secret = r.secret
                               /\ [r EXCEPT !.kind = "refresh"] \in SecRequests
    BY DEF SecRequests, SecKinds
  <1>4. \A s \in Refreshes : s \in SecRequests /\ s.secret \in 0 .. SecMaxSecrets
    BY <1>1, <1>3 DEF Refreshes, SecTypes
  <1>5. QED
    BY <1>1, <1>2, <1>4 DEF SecOutdated, SecOthers, SecTypes

LEMMA SecurityTypes ==
    ASSUME SecInv, SecTypes, [SecurityNext]_secVars
    PROVE  SecTypes'
  <1> DEFINE Secrets == 0 .. SecMaxSecrets
             Servers == [secret : Secrets, on : BOOLEAN, made : Secrets]
             Views == [setup : Secrets, recovery : Secrets, removing : BOOLEAN, busy : BOOLEAN]
             Reqs == \A r \in secReqs' : r.secret \in Secrets
             Counted == secSent' \in 1 .. SecMaxSends
             Fits == /\ secServer' \in Servers /\ secView' \in Views
                     /\ secUser' \in {"on", "off", "nobody", "open"}
                     /\ Counted /\ secTold' \in Secrets /\ secLost' \in BOOLEAN /\ Reqs
  <1>1. /\ secServer \in Servers /\ secView \in Views /\ secUser \in {"on", "off", "nobody", "open"}
        /\ secSent \in 1 .. SecMaxSends /\ secTold \in Secrets /\ secLost \in BOOLEAN
        /\ \A r \in secReqs : r.secret \in Secrets
        /\ SecMaxSecrets \in Nat /\ 0 \in Secrets
    BY SecurityAssumption DEF SecTypes, SecurityTypeOK
  <1>2. SUFFICES Fits
    BY DEF SecTypes, SecurityTypeOK
  <1>3. SecShape
    BY DEF SecInv
  <1>4. EmptySecView \in Views
    BY <1>1 DEF EmptySecView, NoCodes
  <1>5. ASSUME NewSecret
        PROVE  secServer' \in Servers /\ secServer'.secret \in Secrets
    <2>1. secServer.made + 1 \in Secrets
      BY <1>1, <1>5 DEF NewSecret
    <2>2. QED
      BY <2>1, <1>5 DEF NewSecret
  <1>6. CASE RefreshAgain
    BY <1>1, <1>3, <1>6, SecretsStay, SecuritySends DEF RefreshAgain
  <1>7. CASE LeaveSecurity
    BY <1>1, <1>3, <1>4, <1>7, SecretsStay, SecuritySends DEF LeaveSecurity, NoCodes
  <1>8. CASE StartSetup \/ ConfirmSetup \/ RemoveFactor
    <2>1. Counted /\ Reqs
      BY <1>1, <1>8, SecuritySends DEF StartSetup, ConfirmSetup, RemoveFactor
    <2>2. QED
      BY <1>1, <1>8, <2>1 DEF StartSetup, ConfirmSetup, RemoveFactor, NoCodes
  <1>9. CASE CloseDialogs \/ AskRemove
    BY <1>1, <1>9 DEF CloseDialogs, AskRemove
  <1>10. CASE Elsewhere
    <2>1. secServer' \in Servers
      BY <1>1, <1>5, <1>10 DEF Elsewhere
    <2>2. QED
      BY <1>1, <1>3, <1>10, <2>1, SecretsStay DEF Elsewhere
  <1>11. ASSUME NEW r \in secReqs, SecRefreshed(r)
         PROVE  Fits
    <2>1. r.since \in {"on", "off"} /\ SecStatus(secServer) \in {"on", "off"}
      BY <1>3, StatusIs DEF SecShape, SecRequests
    <2>2. secView' \in Views
      BY <1>1, <1>11 DEF SecRefreshed, ViewAfterRefresh
    <2>3. QED
      BY <1>1, <1>11, <2>1, <2>2 DEF SecRefreshed, SecOthers
  <1>12. ASSUME NEW r \in secReqs, SetUp(r)
         PROVE  Fits
    BY <1>1, <1>3, <1>5, <1>12, SecretsStay DEF SetUp
  <1>13. ASSUME NEW r \in secReqs, Confirmed(r)
         PROVE  Fits
    <2>1. Counted /\ Reqs
      BY <1>1, <1>3, <1>13, SecretsStay, SecuritySends DEF Confirmed
    <2>2. ConfirmAnswers(r) \in Secrets
      BY <1>1 DEF ConfirmAnswers, NoCodes
    <2>3. QED
      BY <1>1, <1>13, <2>1, <2>2 DEF Confirmed
  <1>14. ASSUME NEW r \in secReqs, FactorRemoved(r)
         PROVE  Fits
    <2>1. Counted /\ Reqs
      BY <1>1, <1>3, <1>14, SecretsStay, SecuritySends DEF FactorRemoved
    <2>2. QED
      BY <1>1, <1>14, <2>1 DEF FactorRemoved, NoCodes
  <1>15. ASSUME NEW r \in secReqs, SecFails(r)
         PROVE  Fits
    <2>1. secServer' \in Servers
      BY <1>1, <1>5, <1>15 DEF SecFails
    <2>2. Reqs
      BY <1>1, <1>3, <1>15, SecretsStay DEF SecFails, SecOthers
    <2>3. QED
      BY <1>1, <1>15, <2>1, <2>2 DEF SecFails
  <1>16. CASE SentToLogin \/ \E r \in secReqs : SecUnauthorized(r)
    <2>1. TakenAway /\ secUser' \in {secUser, SecStatus(secServer)}
      BY <1>16 DEF SentToLogin, SecUnauthorized
    <2>2. secUser' \in {"on", "off", "nobody", "open"}
      BY <1>1, <2>1, StatusIs
    <2>3. QED
      BY <1>1, <1>3, <1>4, <2>1, <2>2, SecretsStay, SecuritySends DEF TakenAway
  <1>17. CASE UNCHANGED secVars
    BY <1>1, <1>17 DEF secVars
  <1>18. QED
    BY <1>6, <1>7, <1>8, <1>9, <1>10, <1>11, <1>12, <1>13, <1>14, <1>15, <1>16, <1>17
    DEF SecurityNext

LEMMA PeppolPagesTypes ==
    ASSUME PeppolPagesTypeOK, [SettingsNext \/ LedgerNext]_ppVars
    PROVE  PeppolPagesTypeOK'
  <1> DEFINE Selves == [id : {"stored", "typed"}, saving : BOOLEAN, pinging : BOOLEAN]
             Opened == [open : BOOLEAN, shown : BOOLEAN, failed : BOOLEAN]
             Pages == [loading : BOOLEAN, error : {"none", "plan", "other"}]
             Servers == [Halves -> 1 .. PpMaxVersion]
             Views == [Halves -> 0 .. PpMaxVersion]
             Fits == /\ ppServer' \in Servers /\ ppShown' \in Views /\ ppPage' \in Pages
                     /\ ppSent' \in 1 .. PpMaxSends /\ ppSelf' \in Selves /\ ppEvidence' \in Opened
  <1>1. /\ ppServer \in Servers /\ ppShown \in Views /\ ppPage \in Pages
        /\ ppSent \in 1 .. PpMaxSends /\ ppSelf \in Selves /\ ppEvidence \in Opened
        /\ PpMaxSends \in Nat /\ PpMaxVersion \in Nat
    BY PeppolPagesAssumption DEF PeppolPagesTypeOK
  <1>2. SUFFICES Fits
    BY DEF PeppolPagesTypeOK
  <1>3. ASSUME NEW reqs, NEW kind, NEW id, PpSend(reqs, kind, id)
        PROVE  ppSent' \in 1 .. PpMaxSends
    BY <1>1, <1>3 DEF PpSend
  <1>4. ASSUME NEW reqs, LoadPeppol(reqs)
        PROVE  ppSent' \in 1 .. PpMaxSends /\ ppPage' \in Pages
    BY <1>3, <1>4 DEF LoadPeppol
  <1>5. ClosedEvidence \in Opened
    BY DEF ClosedEvidence
  <1>6. CASE PeppolChanges
    <2>1. PICK h \in Halves : ppServer[h] < PpMaxVersion /\ ppServer' = [ppServer EXCEPT ![h] = @ + 1]
      BY <1>6 DEF PeppolChanges
    <2>2. ppServer[h] + 1 \in 1 .. PpMaxVersion
      BY <1>1, <2>1
    <2>3. ppServer' \in Servers
      BY <1>1, <2>1, <2>2
    <2>4. QED
      BY <1>1, <1>6, <2>3 DEF PeppolChanges
  <1>7. ASSUME NEW r \in ppReqs, PeppolLoaded(r)
        PROVE  Fits
    <2>1. ppShown' \in Views
      BY <1>7 DEF PeppolLoaded, PeppolVersions
    <2>2. QED
      BY <1>1, <1>7, <2>1 DEF PeppolLoaded
  <1>8. ASSUME NEW r \in ppReqs, PeppolNotLoaded(r)
        PROVE  Fits
    BY <1>1, <1>5, <1>8 DEF PeppolNotLoaded
  <1>9. CASE RetrySettings \/ RefreshLedger
    BY <1>1, <1>4, <1>5, <1>9 DEF RetrySettings, RefreshLedger
  <1>10. CASE TypeSelf \/ SaveSelf \/ TestConnection
    BY <1>1, <1>3, <1>10 DEF TypeSelf, ppLoadVars, SaveSelf, TestConnection
  <1>11. ASSUME NEW r \in ppReqs, SelfSaved(r)
         PROVE  Fits
    <2>1. \A h \in Halves : ppServer[h] + 1 \in 1 .. PpMaxVersion
      BY <1>1, <1>11 DEF SelfSaved
    <2>2. ppServer' \in Servers
      BY <1>11, <2>1 DEF SelfSaved
    <2>3. QED
      BY <1>1, <1>4, <1>11, <2>2 DEF SelfSaved
  <1>12. ASSUME NEW r \in ppReqs, SelfNotSaved(r) \/ Pinged(r)
         PROVE  Fits
    BY <1>1, <1>12 DEF SelfNotSaved, Pinged
  <1>13. CASE ToggleEvidence
    BY <1>1, <1>3, <1>13 DEF ToggleEvidence
  <1>14. ASSUME NEW r \in ppReqs, EvidenceAnswered(r)
         PROVE  Fits
    BY <1>1, <1>14 DEF EvidenceAnswered
  <1>15. CASE UNCHANGED ppVars
    BY <1>1, <1>15 DEF ppVars, ppLoadVars
  <1>16. QED
    BY <1>6, <1>7, <1>8, <1>9, <1>10, <1>11, <1>12, <1>13, <1>14, <1>15
    DEF SettingsNext, LedgerNext

\* Every request is for an invoice there is, or for none.
DetTypes == DetailTypeOK /\ \A r \in detReqs : r.id \in Invoices \cup {0}

LEMMA DetailSends ==
    ASSUME DetTypes, NEW reqs \in SUBSET detReqs, NEW kinds \in Together,
           NEW id \in Invoices \cup {0}, DetSend(reqs, kinds, id)
    PROVE  detSent' \in 2 .. DetMaxSends /\ \A r \in detReqs' : r.id \in Invoices \cup {0}
  <1>1. Len(kinds) \in Nat
    BY DEF Together
  <1>2. detSent \in 2 .. DetMaxSends /\ detSent' = detSent + Len(kinds) /\ detSent' <= DetMaxSends
    BY DEF DetSend, DetTypes, DetailTypeOK
  <1>3. detSent' \in 2 .. DetMaxSends
    BY <1>1, <1>2, DetailAssumption
  <1>4. \A r \in detReqs' : r \in reqs \/ r.id = id
    BY DEF DetSend
  <1>5. QED
    BY <1>3, <1>4 DEF DetTypes

LEMMA DetailTypes ==
    ASSUME DetInv, DetTypes, [DetailNext]_detVars
    PROVE  DetTypes'
  <1> DEFINE Ids == Invoices \cup {0}
             Pages == [row : Ids, evidence : Ids, error : {"none", "404", "other"}]
             Dialogs == [open : BOOLEAN, sending : BOOLEAN, result : Ids]
             Doubts == [late : SUBSET {"get", "evidence"}, moved : BOOLEAN]
             Reqs == \A r \in detReqs' : r.id \in Ids
             Counted == detSent' \in 2 .. DetMaxSends
             Fits == /\ detId' \in Ids /\ detPage' \in Pages /\ detDialog' \in Dialogs
                     /\ Counted /\ detDoubt' \in Doubts /\ Reqs
  <1>1. /\ detId \in Ids /\ detPage \in Pages /\ detDialog \in Dialogs
        /\ detSent \in 2 .. DetMaxSends /\ detDoubt \in Doubts
        /\ \A r \in detReqs : r.id \in Ids
    BY DEF DetTypes, DetailTypeOK
  <1>2. SUFFICES Fits
    BY DEF DetTypes, DetailTypeOK
  <1>3. \A r \in detReqs : r.kind \in {"get", "evidence", "send"}
    BY DEF DetInv, DetShape, DetRequests
  <1>4. detDoubt' \in Doubts
    BY NextKeepsDetail DEF DetInv, DetShape
  <1>5. ASSUME NEW id \in Ids, NEW e \in Ids
        PROVE  PageReloaded(id, e) \in Pages
    BY <1>1 DEF PageReloaded
  <1>6. CASE GoToInvoice
    <2>1. PICK id \in Ids :
              /\ detId' = id /\ detPage' = PageReloaded(id, 0)
              /\ DetSend(detReqs, IF id = 0 THEN <<>> ELSE <<"get", "evidence">>, id)
              /\ UNCHANGED detDialog
      BY <1>6 DEF GoToInvoice
    <2>2. Counted /\ Reqs
      BY <2>1, DetailSends DEF Together
    <2>3. QED
      BY <1>1, <1>4, <1>5, <2>1, <2>2
  <1>7. CASE RetryDetail
    <2>1. Counted /\ Reqs
      BY <1>1, <1>7, DetailSends DEF Together, RetryDetail
    <2>2. detPage' \in Pages
      BY <1>1, <1>5, <1>7 DEF RetryDetail
    <2>3. QED
      BY <1>1, <1>4, <1>7, <2>1, <2>2 DEF RetryDetail
  <1>8. CASE OpenSend \/ CloseSend
    BY <1>1, <1>4, <1>8 DEF OpenSend, CloseSend
  <1>9. CASE DoSend
    <2>1. Counted /\ Reqs
      BY <1>1, <1>9, DetailSends DEF Together, DoSend
    <2>2. QED
      BY <1>1, <1>4, <1>9, <2>1 DEF DoSend
  <1>10. ASSUME NEW r \in detReqs, DetailGot(r)
         PROVE  Fits
    BY <1>1, <1>4, <1>10 DEF DetailGot, DetOthers
  <1>11. ASSUME NEW r \in detReqs, EvidenceGot(r)
         PROVE  Fits
    BY <1>1, <1>4, <1>11 DEF EvidenceGot, DetOthers
  <1>12. ASSUME NEW r \in detReqs, SendAnswered(r)
         PROVE  Fits
    BY <1>1, <1>4, <1>12 DEF SendAnswered, DetOthers
  <1>13. CASE UNCHANGED detVars
    BY <1>1, <1>13 DEF detVars
  <1>14. QED
    BY <1>6, <1>7, <1>8, <1>9, <1>10, <1>11, <1>12, <1>13 DEF DetailNext

\* Lists of users there were, and requests whose form is of one of them.
AreUsers(users) == \E D \in SUBSET (1 .. usAdded) : users \in [D -> RoleNames]
UsTyped(r) == /\ r.form.role \in RoleNames /\ r.form.user \in 0 .. usAdded
              /\ r.kind = "list" => AreUsers(r.since)
UsTypes == /\ UsersTypeOK
           /\ AreUsers(usServer) /\ AreUsers(usShown.users)
           /\ \A r \in usReqs : UsTyped(r)

LEMMA UsOutdatedTyped ==
    ASSUME UsInv, UsTypes, NEW reqs \in SUBSET usReqs
    PROVE  \A s \in UsOutdated(reqs) : UsTyped(s)
  <1>1. ASSUME NEW r \in reqs
        PROVE  UsTyped([r EXCEPT !.dirty = TRUE])
    <2>1. PICK s : s = [r EXCEPT !.dirty = TRUE]
      OBVIOUS
    <2>2. UsIsRequest(r) /\ UsTyped(r)
      BY DEF UsInv, UsShape, UsTypes
    <2>3. s.form = r.form /\ s.kind = r.kind /\ s.since = r.since
      BY <2>1, <2>2 DEF UsIsRequest
    <2>4. QED
      BY <2>1, <2>2, <2>3 DEF UsTyped
  <1>2. QED
    BY <1>1 DEF UsOutdated

\* A list is asked for, or a form sent.
LEMMA UsersSends ==
    ASSUME UsTypes, NEW reqs, \A r \in reqs : UsTyped(r), NEW kind, NEW since,
           UsSend(reqs, kind, since), kind = "list" => AreUsers(since), UNCHANGED usAdded
    PROVE  usSent' \in 1 .. UsMaxSends /\ \A r \in usReqs' : UsTyped(r)'
  <1> DEFINE new == [n |-> usSent + 1, kind |-> kind, since |-> since, dirty |-> FALSE,
                     form |-> IF kind = "list" THEN EmptyUserForm ELSE usForm,
                     choice |-> IF kind = "list" THEN NoChoice ELSE usChoice,
                     first |-> kind # "list" /\ DOMAIN usShown.users = {}]
  <1>1. usReqs' = reqs \cup {new}
    BY DEF UsSend
  <1>2. new.kind = kind /\ new.since = since
        /\ new.form = IF kind = "list" THEN EmptyUserForm ELSE usForm
    OBVIOUS
  <1> HIDE DEF new
  <1>3. usAdded \in Nat
    BY UsersAssumption DEF UsTypes, UsersTypeOK
  <1>4. new.form.role \in RoleNames /\ new.form.user \in 0 .. usAdded
    BY <1>2, <1>3 DEF UsTypes, UsersTypeOK, EmptyUserForm, RoleNames
  <1>5. UsTyped(new)
    BY <1>2, <1>4 DEF UsTyped
  <1>6. \A r : UsTyped(r) => UsTyped(r)'
    BY DEF UsTyped, AreUsers
  <1>7. usSent' \in 1 .. UsMaxSends
    BY UsersAssumption DEF UsSend, UsTypes, UsersTypeOK
  <1>8. QED
    BY <1>1, <1>5, <1>6, <1>7

\* A change applied to the server leaves it with users that were added.
LEMMA StoredUsers ==
    ASSUME UsTypes, NEW r \in usReqs, r.kind \in {"add", "edit", "delete"},
           CanApply(r), StoreUser(r)
    PROVE  AreUsers(usServer)' /\ usAdded' \in usAdded .. MaxUsers
  <1>1. PICK D \in SUBSET (1 .. usAdded) : usServer \in [D -> RoleNames]
    BY DEF UsTypes, AreUsers
  <1>2. usAdded \in Nat /\ usAdded <= MaxUsers /\ MaxUsers \in Nat /\ r.form.role \in RoleNames
    BY UsersAssumption DEF UsTypes, UsersTypeOK, UsTyped
  <1>3. CASE r.kind = "add"
    <2>1. /\ usAdded' = usAdded + 1 /\ usAdded < MaxUsers
          /\ usServer' = [u \in D \cup {usAdded + 1} |->
                             IF u = usAdded + 1 THEN r.form.role ELSE usServer[u]]
      BY <1>1, <1>3 DEF StoreUser, CanApply, Applied
    <2>2. D \cup {usAdded + 1} \in SUBSET (1 .. usAdded + 1)
      BY <1>2
    <2>3. usServer' \in [D \cup {usAdded + 1} -> RoleNames]
      BY <1>1, <1>2, <2>1
    <2>4. AreUsers(usServer)' /\ usAdded' \in usAdded .. MaxUsers
      BY <1>2, <2>1, <2>2, <2>3 DEF AreUsers
    <2>5. QED
      BY <2>4
  <1>4. CASE r.kind = "edit"
    <2>1. usAdded' = usAdded /\ usServer' \in [D -> RoleNames]
      BY <1>1, <1>2, <1>4 DEF StoreUser, Applied
    <2>2. QED
      BY <1>1, <1>2, <2>1 DEF AreUsers
  <1>5. CASE r.kind = "delete"
    <2>1. /\ usAdded' = usAdded
          /\ usServer' = [u \in D \ {r.form.user} |-> usServer[u]]
      BY <1>1, <1>5 DEF StoreUser, Applied
    <2>2. usServer' \in [D \ {r.form.user} -> RoleNames]
      BY <1>1, <2>1
    <2>3. D \ {r.form.user} \in SUBSET (1 .. usAdded)
      BY <1>1
    <2>4. QED
      BY <1>2, <2>1, <2>2, <2>3 DEF AreUsers
  <1>6. QED
    BY <1>3, <1>4, <1>5

\* Users added later change nothing about those there were.
GrownUsers(users) == \E D \in SUBSET (1 .. usAdded') : users \in [D -> RoleNames]
GrownTyped(r) == /\ r.form.role \in RoleNames /\ r.form.user \in 0 .. usAdded'
                 /\ r.kind = "list" => GrownUsers(r.since)

LEMMA UsersStay ==
    ASSUME UsTypes, usAdded' \in usAdded .. MaxUsers
    PROVE  /\ usAdded \in 0 .. usAdded' /\ usAdded' \in 0 .. MaxUsers
           /\ 0 .. usAdded \subseteq 0 .. usAdded'
           /\ \A users : AreUsers(users) => GrownUsers(users)
           /\ \A r : UsTyped(r) => GrownTyped(r)
  <1>1. usAdded \in Nat /\ usAdded' \in Nat /\ usAdded <= usAdded' /\ usAdded' <= MaxUsers
    BY UsersAssumption DEF UsTypes, UsersTypeOK
  <1>2. usAdded \in 0 .. usAdded' /\ usAdded' \in 0 .. MaxUsers
    BY <1>1
  <1>3. 1 .. usAdded \subseteq 1 .. usAdded' /\ 0 .. usAdded \subseteq 0 .. usAdded'
    BY <1>1
  <1>4. \A users : AreUsers(users) => GrownUsers(users)
    BY <1>3 DEF AreUsers, GrownUsers
  <1>5. \A r : UsTyped(r) => GrownTyped(r)
    BY <1>3, <1>4 DEF UsTyped, GrownTyped
  <1>6. QED
    BY <1>2, <1>3, <1>4, <1>5

LEMMA UsersTyped ==
    ASSUME usAdded' \in 0 .. MaxUsers, GrownUsers(usServer'), GrownUsers(usShown'.users),
           usForm'.dialog \in {"none", "add", "edit", "delete"}, usForm'.role \in RoleNames,
           usForm'.user \in 0 .. usAdded', usChoice' \in [role : RoleNames, reset : BOOLEAN],
           usSent' \in 1 .. UsMaxSends, \A r \in usReqs' : GrownTyped(r)
    PROVE  UsTypes'
  <1>1. ASSUME NEW users, GrownUsers(users)
        PROVE  /\ DOMAIN users \subseteq 1 .. usAdded' 
               /\ \A u \in DOMAIN users : users[u] \in RoleNames
    BY <1>1 DEF GrownUsers
  <1>2. UsersTypeOK'
    BY <1>1 DEF UsersTypeOK
  <1>3. AreUsers(usServer)' /\ AreUsers(usShown.users)'
    BY DEF AreUsers, GrownUsers
  <1>4. \A r \in usReqs' : UsTyped(r)'
    BY DEF UsTyped, GrownTyped, AreUsers, GrownUsers
  <1>5. QED
    BY <1>2, <1>3, <1>4 DEF UsTypes

LEMMA UsersTypes ==
    ASSUME UsInv, UsTypes, [UsersNext]_usVars
    PROVE  UsTypes'
  <1> DEFINE Dialogs == {"none", "add", "edit", "delete"}
             FormOk == /\ usForm'.dialog \in Dialogs /\ usForm'.role \in RoleNames
                     /\ usForm'.user \in 0 .. usAdded'
             Choice == usChoice' \in [role : RoleNames, reset : BOOLEAN]
             Counted == usSent' \in 1 .. UsMaxSends
             Reqs == \A r \in usReqs' : GrownTyped(r)
             ServerOk == usAdded' \in usAdded .. MaxUsers /\ GrownUsers(usServer')
             ShownOk == GrownUsers(usShown'.users)
             Fits == ServerOk /\ ShownOk /\ FormOk /\ Choice /\ Counted /\ Reqs
  <1>1. /\ UsShape
        /\ usForm.role \in RoleNames /\ usForm.user \in 0 .. usAdded
        /\ usChoice \in [role : RoleNames, reset : BOOLEAN] /\ usSent \in 1 .. UsMaxSends
        /\ usAdded \in Nat /\ usAdded <= MaxUsers /\ usAdded \in usAdded .. MaxUsers
        /\ DOMAIN usShown.users \subseteq 1 .. usAdded
        /\ \A u \in DOMAIN usShown.users : usShown.users[u] \in RoleNames
        /\ AreUsers(usServer) /\ AreUsers(usShown.users) /\ \A r \in usReqs : UsTyped(r)
    <2>1. \A u \in DOMAIN usShown.users : usShown.users[u] \in RoleNames
      BY DEF UsTypes, AreUsers
    <2>2. usAdded \in Nat /\ usAdded <= MaxUsers /\ MaxUsers \in Nat
      BY UsersAssumption DEF UsTypes, UsersTypeOK
    <2>3. QED
      BY <2>1, <2>2 DEF UsInv, UsTypes, UsersTypeOK
  <1>2. ASSUME Fits PROVE UsTypes'
    BY <1>2, UsersStay, UsersTyped
  <1>3. ASSUME UNCHANGED usAdded
        PROVE  /\ \A users : AreUsers(users) => GrownUsers(users)
               /\ \A r : UsTyped(r) => GrownTyped(r)
               /\ \A D \in SUBSET usReqs : \A r \in D \cup UsOutdated(D) : GrownTyped(r)
    <2>1. /\ \A users : AreUsers(users) => GrownUsers(users)
          /\ \A r : UsTyped(r) => GrownTyped(r)
      BY <1>1, <1>3, UsersStay
    <2>2. \A D \in SUBSET usReqs : \A r \in D \cup UsOutdated(D) : GrownTyped(r)
      BY <1>1, <2>1, UsOutdatedTyped
    <2>3. QED
      BY <2>1, <2>2
  <1>4. ASSUME UNCHANGED <<usServer, usAdded>>
        PROVE  ServerOk
    BY <1>1, <1>3, <1>4
  <1>5. ASSUME NEW reqs \in SUBSET usReqs, NEW server, LoadUsers(server, reqs),
               AreUsers(server), UNCHANGED usAdded
        PROVE  Counted /\ Reqs /\ ShownOk
    <2>1. Counted /\ \A r \in usReqs' : UsTyped(r)'
      BY <1>5, UsOutdatedTyped, UsersSends DEF LoadUsers
    <2>2. Reqs
      BY <2>1 DEF UsTyped, GrownTyped, AreUsers, GrownUsers
    <2>3. usShown'.users = usShown.users
      BY <1>1, <1>5 DEF LoadUsers, UsShape
    <2>4. QED
      BY <1>1, <1>3, <1>5, <2>1, <2>2, <2>3
  <1>6. ASSUME NEW dialog \in {"add", "edit", "delete"}, NEW user \in 0 .. usAdded,
               NEW offered \in RoleNames, OpenDialog(dialog, user, offered),
               dialog = "edit" => usShown.users[user] \in RoleNames
        PROVE  Fits
    <2>1. UNCHANGED <<usServer, usAdded, usShown, usReqs, usSent>>
      BY <1>6 DEF OpenDialog
    <2>2. FormOk
      BY <1>1, <1>6, <2>1 DEF OpenDialog, UsShape
    <2>3. Choice
      BY <1>6 DEF OpenDialog
    <2>4. QED
      BY <1>1, <1>3, <1>4, <2>1, <2>2, <2>3
  <1>7. CASE OpenAdd \/ OpenEdit \/ OpenDelete
    <2>1. \A first : ResetRole(first) \in RoleNames
      BY DEF ResetRole, RoleNames
    <2>2. CASE OpenAdd
      <3>1. 0 \in 0 .. usAdded
        BY <1>1
      <3>2. Fits
        BY <1>6, <2>1, <2>2, <3>1 DEF OpenAdd
      <3>3. QED
        BY <1>2, <3>2
    <2>3. \A u \in DOMAIN usShown.users : u \in 0 .. usAdded
      BY <1>1
    <2>4. CASE OpenEdit
      <3>1. Fits
        BY <1>1, <1>6, <2>3, <2>4 DEF OpenEdit, OfferedRole
      <3>2. QED
        BY <1>2, <3>1
    <2>5. CASE OpenDelete
      <3>1. Fits
        BY <1>1, <1>6, <2>3, <2>5 DEF OpenDelete
      <3>2. QED
        BY <1>2, <3>1
    <2>6. QED
      BY <1>7, <2>2, <2>4, <2>5
  <1>8. CASE CloseDialog \/ PickRole
    <2>1. UNCHANGED <<usServer, usAdded, usShown, usReqs, usSent>>
      BY <1>8 DEF CloseDialog, PickRole
    <2>2. FormOk /\ Choice
      <3>1. CASE CloseDialog
        <4>1. Choice
          BY <3>1 DEF CloseDialog, NoChoice, RoleNames
        <4>2. QED
          BY <1>1, <2>1, <3>1, <4>1 DEF CloseDialog, UsShape
      <3>2. CASE PickRole
        <4>1. PICK picked \in UsPicked \ {usForm.role} :
                  /\ usForm' = [usForm EXCEPT !.role = picked]
                  /\ usChoice' = [role |-> picked, reset |-> FALSE]
          BY <3>2 DEF PickRole
        <4>2. picked \in RoleNames
          BY UsersAssumption
        <4>3. QED
          BY <1>1, <2>1, <4>1, <4>2 DEF UsShape
      <3>3. QED
        BY <1>8, <3>1, <3>2
    <2>3. QED
      BY <1>1, <1>2, <1>3, <1>4, <2>1, <2>2
  <1>9. CASE SubmitUser
    <2>1. Counted /\ \A r \in usReqs' : UsTyped(r)'
      <3>1. usForm.dialog # "list"
        BY <1>1 DEF UsShape
      <3>2. QED
        BY <1>1, <1>9, <3>1, UsersSends DEF SubmitUser
    <2>2. Reqs
      BY <2>1 DEF UsTyped, GrownTyped, AreUsers, GrownUsers
    <2>3. UNCHANGED <<usServer, usAdded, usShown, usChoice>> /\ FormOk
      BY <1>1, <1>9 DEF SubmitUser, UsShape
    <2>4. QED
      BY <1>1, <1>2, <1>3, <1>4, <2>1, <2>2, <2>3
  <1>10. CASE RetryUsers
    <2>1. Counted /\ Reqs /\ ShownOk
      BY <1>1, <1>5, <1>10 DEF RetryUsers
    <2>2. QED
      BY <1>1, <1>2, <1>4, <1>10, <2>1 DEF RetryUsers, UsShape
  <1>11. ASSUME NEW r \in usReqs, UsersListed(r) \/ UsersNotListed(r)
         PROVE  UsTypes'
    <2>1. UNCHANGED <<usServer, usAdded, usForm, usChoice, usSent>> /\ usReqs' = usReqs \ {r}
      BY <1>11 DEF UsersListed, UsersNotListed, UsOthers
    <2>2. usShown'.users \in {r.since, usServer, usShown.users} /\ r.kind = "list"
      BY <1>1, <1>11 DEF UsersListed, UsersNotListed, UsShape
    <2>3. ShownOk
      BY <1>1, <1>3, <2>1, <2>2 DEF UsTyped
    <2>4. QED
      BY <1>1, <1>2, <1>3, <1>4, <2>1, <2>3 DEF UsShape
  <1>12. ASSUME NEW r \in usReqs, UserRefreshed(r)
         PROVE  UsTypes'
    <2>1. Counted /\ Reqs /\ ShownOk
      BY <1>1, <1>5, <1>12 DEF UserRefreshed, UsOthers
    <2>2. UNCHANGED <<usServer, usAdded, usChoice>> /\ FormOk
      BY <1>1, <1>12 DEF UserRefreshed, UsShape
    <2>3. QED
      BY <1>1, <1>2, <1>4, <2>1, <2>2
  <1>13. ASSUME NEW r \in usReqs, r.kind \in {"add", "edit", "delete"},
                CanApply(r), StoreUser(r)
         PROVE  /\ ServerOk /\ usAdded' \in Nat /\ usAdded <= usAdded'
                /\ \A u \in 0 .. usAdded : u \in 0 .. usAdded'
                /\ \A users : AreUsers(users) => GrownUsers(users)
                /\ \A s : UsTyped(s) => GrownTyped(s)
    <2>1. AreUsers(usServer)' /\ usAdded' \in usAdded .. MaxUsers
      BY <1>13, StoredUsers
    <2>2. ServerOk
      BY <2>1 DEF AreUsers, GrownUsers
    <2>3. QED
      BY <1>1, <2>1, <2>2, UsersStay
  <1>14. ASSUME NEW r \in usReqs, UserChanged(r)
         PROVE  UsTypes'
    <2>1. /\ r.kind \in {"add", "edit", "delete"} /\ CanApply(r) /\ StoreUser(r)
          /\ usChoice' = ChoiceAfter(r)
          /\ UsOthers(r) \in SUBSET usReqs /\ UsIsRequest(r) /\ UsTyped(r)
      BY <1>1, <1>14 DEF UserChanged, UsOthers, UsShape
    <2>2. /\ ServerOk /\ usAdded' \in Nat /\ usAdded <= usAdded'
          /\ \A u \in 0 .. usAdded : u \in 0 .. usAdded'
          /\ \A users : AreUsers(users) => GrownUsers(users)
          /\ \A s : UsTyped(s) => GrownTyped(s)
      BY <1>13, <2>1
    <2>3. Choice
      <3>1. CASE usForm.dialog \in {"none", r.kind}
        BY <2>1, <3>1 DEF ChoiceAfter, NoChoice, RoleNames
      <3>2. CASE usForm.dialog \notin {"none", r.kind}
        BY <1>1, <2>1, <3>2 DEF ChoiceAfter
      <3>3. QED
        BY <3>1, <3>2
    <2>4. FormOk
      <3>1. PICK after : after = FormAfter(r)
        OBVIOUS
      <3>2. after = [dialog |-> IF usForm.dialog = r.kind THEN "none" ELSE usForm.dialog,
                    user |-> IF usForm.dialog = r.kind THEN 0 ELSE usForm.user,
                    role |-> IF r.kind = "delete" THEN usForm.role ELSE ResetRole(r.first),
                    busy |-> usForm.busy]
        BY <1>1, <3>1 DEF FormAfter, UsShape
      <3>3. usForm' = after \/ usForm' = [after EXCEPT !.busy = FALSE]
        BY <1>14, <3>1 DEF UserChanged
      <3>4. ResetRole(r.first) \in RoleNames
        BY DEF ResetRole, RoleNames
      <3>5. usForm'.dialog \in Dialogs /\ usForm'.role \in RoleNames
            /\ usForm'.user \in {0, usForm.user}
        BY <1>1, <3>2, <3>3, <3>4 DEF UsShape
      <3>6. 0 \in 0 .. usAdded
        BY <1>1
      <3>7. QED
        BY <1>1, <2>2, <3>5, <3>6
    <2>5. CASE r.kind = "add"
      <3>1. /\ usReqs' = UsOutdated(UsOthers(r)) \cup {[r EXCEPT !.kind = "refresh"]}
            /\ UNCHANGED <<usShown, usSent>>
        BY <1>14, <2>5 DEF UserChanged
      <3>2. PICK s : s = [r EXCEPT !.kind = "refresh"]
        OBVIOUS
      <3>3. s.form = r.form /\ s.kind = "refresh"
        BY <2>1, <3>2 DEF UsIsRequest
      <3>4. UsTyped(s)
        BY <2>1, <3>3 DEF UsTyped
      <3>5. Reqs
        BY <2>1, <2>2, <3>1, <3>2, <3>4, UsOutdatedTyped
      <3>6. QED
        BY <1>1, <1>2, <2>2, <2>3, <2>4, <3>1, <3>5
    <2>6. CASE r.kind # "add"
      <3>1. /\ LoadUsers(Applied(r), UsOthers(r)) /\ usServer' = Applied(r)
            /\ UNCHANGED usAdded
        BY <1>14, <2>6 DEF UserChanged, StoreUser
      <3>2. AreUsers(usServer)'
        BY <2>2 DEF AreUsers, GrownUsers
      <3>3. AreUsers(Applied(r))
        BY <3>1, <3>2 DEF AreUsers
      <3>4. Counted /\ Reqs /\ ShownOk
        BY <1>5, <2>1, <3>1, <3>3
      <3>5. QED
        BY <1>2, <2>2, <2>3, <2>4, <3>4
    <2>7. QED
      BY <2>5, <2>6
  <1>15. ASSUME NEW r \in usReqs, UserNotChanged(r)
         PROVE  UsTypes'
    <2>1. /\ UNCHANGED <<usShown, usChoice, usSent>>
          /\ UsOthers(r) \in SUBSET usReqs /\ r.kind \in {"add", "edit", "delete"}
          /\ usForm' = [usForm EXCEPT !.busy = FALSE]
      BY <1>15 DEF UserNotChanged, UsOthers
    <2>2. /\ usForm'.dialog = usForm.dialog /\ usForm'.role = usForm.role
          /\ usForm'.user = usForm.user
      BY <1>1, <2>1 DEF UsShape
    <2>3. CASE usReqs' = UsOthers(r) /\ UNCHANGED <<usServer, usAdded, usStale>>
      BY <1>1, <1>2, <1>3, <1>4, <2>1, <2>2, <2>3 DEF UsShape
    <2>4. CASE CanApply(r) /\ StoreUser(r) /\ usReqs' = UsOutdated(UsOthers(r))
      <3>1. /\ ServerOk
            /\ \A u \in 0 .. usAdded : u \in 0 .. usAdded'
            /\ \A users : AreUsers(users) => GrownUsers(users)
            /\ \A s : UsTyped(s) => GrownTyped(s)
        BY <1>13, <2>1, <2>4
      <3>2. Reqs
        BY <2>1, <2>4, <3>1, UsOutdatedTyped
      <3>3. QED
        BY <1>1, <1>2, <2>1, <2>2, <3>1, <3>2 DEF UsShape
    <2>5. QED
      BY <1>15, <2>3, <2>4 DEF UserNotChanged
  <1>16. CASE OtherAdmin
    <2>1. PICK u \in DOMAIN usServer : usServer' = [usServer EXCEPT ![u] = "viewer"]
      BY <1>16 DEF OtherAdmin
    <2>2. /\ usReqs' = UsOutdated(usReqs)
          /\ UNCHANGED <<usAdded, usShown, usForm, usChoice, usSent>>
      BY <1>16 DEF OtherAdmin
    <2>3. AreUsers(usServer')
      <3>1. PICK D \in SUBSET (1 .. usAdded) : usServer \in [D -> RoleNames]
        BY <1>1 DEF AreUsers
      <3>2. usServer' \in [D -> RoleNames]
        BY <2>1, <3>1 DEF RoleNames
      <3>3. QED
        BY <3>2 DEF AreUsers
    <2>4. QED
      BY <1>1, <1>2, <1>3, <2>2, <2>3 DEF UsShape
  <1>17. CASE UNCHANGED usVars
    <2>1. UNCHANGED <<usServer, usAdded, usShown, usForm, usChoice, usReqs, usSent>>
      BY <1>17 DEF usVars
    <2>2. QED
      BY <1>1, <1>2, <1>3, <1>4, <2>1 DEF UsShape
  <1>18. QED
    BY <1>7, <1>8, <1>9, <1>10, <1>11, <1>12, <1>14, <1>15, <1>16, <1>17 DEF UsersNext

\* A list tells of no more invoices than there are.
InTypes == InboxTypeOK /\ inboxList.total <= inboxArchive

Panels == {"hidden", "asking", "shown", "dismissed"}
Doubtings == {"late", "failed", "stale", "outrun"}

LEMMA ListIs ==
    ASSUME InTypes, InInv', inboxArchive' \in inboxArchive .. MaxRows,
           inboxList'.total \in 0 .. inboxArchive',
           inboxList'.loading \in BOOLEAN, inboxList'.error \in BOOLEAN,
           inboxPanel' \in Panels, inboxDoubt' \subseteq Doubtings,
           inboxSent' \in 1 .. MaxLoads, inboxDropped' \in 0 .. MaxFiles
    PROVE  InTypes'
  <1>1. inboxArchive' \in Nat /\ inboxArchive' <= MaxRows /\ MaxRows \in Nat
    BY InboxAssumption DEF InTypes, InboxTypeOK
  <1>2. /\ inboxList' = [rows |-> inboxList'.rows, count |-> inboxList'.count,
                         total |-> inboxList'.total, offset |-> inboxList'.offset,
                         loading |-> inboxList'.loading, error |-> inboxList'.error]
        /\ inboxList'.rows \subseteq 1 .. inboxArchive'
        /\ inboxList'.count \in Nat /\ inboxList'.offset \in Nat
    BY DEF InInv, InShape, InList
  <1>3. inboxList'.rows \in SUBSET (1 .. MaxRows) /\ inboxList'.total \in 0 .. MaxRows
        /\ inboxList'.total <= inboxArchive'
    BY <1>1, <1>2
  <1>4. inboxList' \in [rows : SUBSET (1 .. MaxRows), count : Nat, total : 0 .. MaxRows,
                        offset : Nat, loading : BOOLEAN, error : BOOLEAN]
    BY <1>2, <1>3
  <1>5. inboxFilter' \in Filters /\ \A r \in inboxLoads' : r.n <= inboxSent' /\ r.filter \in Filters
    BY DEF InInv, InShape, InLoad
  <1>6. QED
    BY <1>1, <1>3, <1>4, <1>5 DEF InTypes, InboxTypeOK, Panels, Doubtings

\* The list is replaced by another, and the panel decided on.
LEMMA PanelIs ==
    ASSUME InTypes, NEW list, SetList(list)
    PROVE  inboxList' = list /\ inboxPanel' \in Panels
  BY DEF InTypes, InboxTypeOK, SetList, PanelAfter, Panels

LEMMA LoadingIs ==
    ASSUME InTypes, NEW filter, NEW off, NEW append, LoadInbox(filter, off, append)
    PROVE  /\ inboxList'.total = inboxList.total
           /\ inboxList'.loading \in BOOLEAN /\ inboxList'.error \in BOOLEAN
           /\ inboxPanel' \in Panels /\ inboxSent' \in 1 .. MaxLoads
  <1>1. inboxList' = [inboxList EXCEPT !.loading = TRUE, !.error = FALSE] /\ inboxPanel' \in Panels
    BY PanelIs DEF LoadInbox
  <1>2. /\ inboxList'.total = inboxList.total
        /\ inboxList'.loading = TRUE /\ inboxList'.error = FALSE
    BY <1>1 DEF InTypes, InboxTypeOK
  <1>3. inboxSent' \in 1 .. MaxLoads
    BY InboxAssumption DEF InTypes, InboxTypeOK, LoadInbox
  <1>4. QED
    BY <1>1, <1>2, <1>3

LEMMA InboxTypes ==
    ASSUME InInv, InTypes, [InboxNext]_inboxVars
    PROVE  InTypes'
  <1>1. /\ inboxArchive \in Nat /\ inboxArchive <= MaxRows /\ MaxRows \in Nat
        /\ inboxList.total \in Nat /\ inboxList.total \in 0 .. inboxArchive
        /\ inboxArchive \in inboxArchive .. MaxRows
        /\ inboxList.loading \in BOOLEAN /\ inboxList.error \in BOOLEAN
        /\ inboxPanel \in Panels /\ inboxDoubt \subseteq Doubtings
        /\ inboxSent \in 1 .. MaxLoads /\ inboxDropped \in 0 .. MaxFiles
    BY InboxAssumption DEF InTypes, InboxTypeOK, Panels, Doubtings
  <1>2. InInv'
    BY NextKeepsInbox
  <1>3. ASSUME NEW r \in inboxLoads, AnswerList(r)
        PROVE  InTypes'
    <2>1. PICK n \in r.since .. inboxArchive :
              /\ SetList([rows |-> IF r.append THEN inboxList.rows \cup Page(r.filter, n, r.off)
                                   ELSE Page(r.filter, n, r.off),
                          count |-> IF r.append THEN inboxList.count + PageLen(r.filter, n, r.off)
                                    ELSE PageLen(r.filter, n, r.off),
                          total |-> Cardinality(Listed(r.filter, n)), offset |-> r.off,
                          loading |-> FALSE, error |-> inboxList.error])
              /\ inboxDoubt' = IF ~Newest(r) THEN inboxDoubt \cup {"late"}
                        ELSE IF r.append /\ Outrun(r, n) THEN inboxDoubt \cup {"outrun"}
                        ELSE IF r.append THEN inboxDoubt
                        ELSE IF r.filter = inboxFilter THEN {} ELSE {"stale"}
      BY <1>3 DEF AnswerList
    <2>2. UNCHANGED <<inboxArchive, inboxSent, inboxDropped>>
      BY <1>3 DEF AnswerList
    <2>3. /\ inboxList'.total = Cardinality(Listed(r.filter, n))
          /\ inboxList'.loading = FALSE /\ inboxList'.error = inboxList.error
          /\ inboxPanel' \in Panels
      BY <2>1, PanelIs
    <2>4. inboxDoubt' \subseteq Doubtings
      BY <1>1, <2>1 DEF Doubtings
    <2>5. Cardinality(Listed(r.filter, n)) \in 0 .. inboxArchive
      <3>1. r.since \in Nat /\ n \in Nat /\ n <= inboxArchive
        BY <1>1, <1>3 DEF InInv, InShape, InLoad
      <3>2. /\ IsFiniteSet(1 .. n) /\ Cardinality(1 .. n) = n
            /\ Listed(r.filter, n) \subseteq 1 .. n
        <4>1. IsFiniteSet(1 .. n) /\ Cardinality(1 .. n) = IF 1 > n THEN 0 ELSE n - 1 + 1
          BY <3>1, FS_Interval
        <4>2. (IF 1 > n THEN 0 ELSE n - 1 + 1) = n
          BY <3>1
        <4>3. Listed(r.filter, n) \subseteq 1 .. n
          BY DEF Listed
        <4>4. QED
          BY <4>1, <4>2, <4>3
      <3>3. Cardinality(Listed(r.filter, n)) <= n /\ Cardinality(Listed(r.filter, n)) \in Nat
        BY <3>2, FS_Subset, FS_CardinalityType
      <3>4. QED
        BY <1>1, <3>1, <3>3
    <2>6. QED
      BY <1>1, <1>2, <2>2, <2>3, <2>4, <2>5, ListIs
  <1>4. ASSUME NEW r \in inboxLoads, LoadFails(r)
        PROVE  InTypes'
    <2>1. PICK unauthorized \in BOOLEAN :
              SetList([inboxList EXCEPT !.loading = FALSE, !.error = @ \/ ~unauthorized])
      BY <1>4 DEF LoadFails
    <2>2. PICK e \in BOOLEAN : e = (inboxList.error \/ ~unauthorized)
      OBVIOUS
    <2>3. inboxList' = [inboxList EXCEPT !.loading = FALSE, !.error = e] /\ inboxPanel' \in Panels
      BY <2>1, <2>2, PanelIs
    <2>4. /\ inboxList'.total = inboxList.total
          /\ inboxList'.loading = FALSE /\ inboxList'.error = e
      BY <2>3 DEF InTypes, InboxTypeOK
    <2>5. UNCHANGED <<inboxArchive, inboxSent, inboxDropped>> /\ inboxDoubt' \subseteq Doubtings
      BY <1>1, <1>4 DEF LoadFails, Doubtings
    <2>6. QED
      BY <1>1, <1>2, <2>2, <2>3, <2>4, <2>5, ListIs
  <1>5. ASSUME NEW filter, NEW off, NEW append, LoadInbox(filter, off, append),
               UNCHANGED <<inboxArchive, inboxDropped>>,
               inboxDoubt' \in {inboxDoubt, inboxDoubt \cup {"late"}}
        PROVE  InTypes'
    <2>1. inboxDoubt' \subseteq Doubtings
      BY <1>1, <1>5 DEF Doubtings
    <2>2. QED
      BY <1>1, <1>2, <1>5, <2>1, LoadingIs, ListIs
  <1>6. CASE ChangeFilter \/ RetryLoad \/ LoadOlder
    BY <1>5, <1>6 DEF ChangeFilter, RetryLoad, LoadOlder
  <1>7. CASE DropFiles
    <2>1. PICK k \in 1 .. MaxFiles : inboxDropped + k <= MaxFiles /\ inboxDropped' = inboxDropped + k
      BY <1>7 DEF DropFiles
    <2>2. inboxDropped' \in 0 .. MaxFiles
      BY <1>1, <2>1, InboxAssumption
    <2>3. UNCHANGED <<inboxArchive, inboxList, inboxSent, inboxPanel, inboxDoubt>>
      BY <1>7 DEF DropFiles
    <2>4. QED
      BY <1>1, <1>2, <2>2, <2>3, ListIs
  <1>8. ASSUME UNCHANGED <<inboxList, inboxSent, inboxDropped, inboxDoubt>>,
               inboxPanel' \in Panels,
               \/ inboxArchive' = inboxArchive
               \/ inboxArchive < MaxRows /\ inboxArchive' = inboxArchive + 1
        PROVE  InTypes'
    <2>1. inboxArchive' \in inboxArchive .. MaxRows /\ inboxList'.total \in 0 .. inboxArchive'
      BY <1>1, <1>8
    <2>2. QED
      BY <1>1, <1>2, <1>8, <2>1, ListIs
  <1>9. ASSUME NEW b \in inboxBatches, UploadFile(b)
        PROVE  InTypes'
    BY <1>1, <1>8, <1>9 DEF UploadFile
  <1>10. ASSUME NEW b \in inboxBatches, BatchEnds(b)
         PROVE  InTypes'
    <2>1. CASE b.refetch
      BY <1>5, <1>10, <2>1 DEF BatchEnds
    <2>2. CASE ~b.refetch
      BY <1>1, <1>8, <1>10, <2>2 DEF BatchEnds
    <2>3. QED
      BY <2>1, <2>2
  <1>11. CASE InvoiceArrives
    BY <1>1, <1>8, <1>11 DEF InvoiceArrives
  <1>12. CASE AnswerPanel \/ DismissPanel
    BY <1>1, <1>8, <1>12 DEF AnswerPanel, DismissPanel, Panels
  <1>13. CASE UNCHANGED inboxVars
    BY <1>1, <1>8, <1>13 DEF inboxVars
  <1>14. QED
    BY <1>3, <1>4, <1>6, <1>7, <1>9, <1>10, <1>11, <1>12, <1>13 DEF InboxNext

\* The text and the logo of some companies, or of none.
Brandings == [text : 0 .. MaxCompanies, logo : 0 .. MaxCompanies]
BrTypes == BrandingTypeOK /\ \A r \in brReqs : r.branding \in Brandings

LEMMA EmptyDraftIs == \A c \in 0 .. MaxCompanies : EmptyDraft(c) \in Brandings
  <1>1. 0 \in 0 .. MaxCompanies
    BY BrandingAssumption
  <1>2. QED
    BY <1>1 DEF EmptyDraft, Brandings

LEMMA BrTyped ==
    ASSUME BrInv', \A c \in DOMAIN brStored' : brStored'[c] \in Brandings,
           brView'.draft \in Brandings, brView'.pdf \in DOMAIN brStored' \cup {0},
           brSent' \in 1 .. BrMaxSends, \A r \in brReqs' : r.branding \in Brandings
    PROVE  BrTypes'
  <1>1. PICK k \in 0 .. MaxCompanies : DOMAIN brStored' = 1 .. k
    BY DEF BrInv, BrShape, BrServer
  <1>2. Cardinality(1 .. k) = k
    <2>1. k \in Nat /\ Cardinality(1 .. k) = IF 1 > k THEN 0 ELSE k - 1 + 1
      BY <1>1, BrandingAssumption, FS_Interval
    <2>2. (IF 1 > k THEN 0 ELSE k - 1 + 1) = k
      BY <2>1
    <2>3. QED
      BY <2>1, <2>2
  <1>3. /\ brView'.companies \subseteq DOMAIN brStored'
        /\ brView'.company \in DOMAIN brStored' \cup {0}
        /\ \A r \in brReqs' : r.n <= brSent'
    BY DEF BrInv, BrShape, BrPage, BrRequest
  <1>4. brView'.company \in 0 .. MaxCompanies
    BY <1>1, <1>3, BrandingAssumption
  <1>5. QED
    BY <1>1, <1>2, <1>3, <1>4 DEF BrTypes, BrandingTypeOK, Brandings

LEMMA BrSendTyped ==
    ASSUME BrTypes, NEW reqs \in SUBSET brReqs, NEW kind, NEW c, NEW branding \in Brandings,
           BrSend(reqs, kind, c, branding)
    PROVE  brSent' \in 1 .. BrMaxSends /\ \A r \in brReqs' : r.branding \in Brandings
  <1>1. PICK new : new = [n |-> brSent + 1, kind |-> kind, company |-> c, branding |-> branding]
    OBVIOUS
  <1>2. new.branding = branding /\ brReqs' = reqs \cup {new}
    BY <1>1 DEF BrSend
  <1>3. brSent' \in 1 .. BrMaxSends
    BY BrandingAssumption DEF BrSend, BrTypes, BrandingTypeOK
  <1>4. QED
    BY <1>2, <1>3 DEF BrTypes

\* A branding is stored for a company there is.
LEMMA BrStoreTyped ==
    ASSUME BrTypes, NEW r \in brReqs,
           \/ brStored' = brStored
           \/ brStored' = [brStored EXCEPT ![r.company] = r.branding]
    PROVE  /\ DOMAIN brStored' = DOMAIN brStored
           /\ \A c \in DOMAIN brStored' : brStored'[c] \in Brandings
  BY DEF BrTypes, BrandingTypeOK, Brandings

LEMMA BrandingTypes ==
    ASSUME BrInv, BrTypes, [BrandingNext]_brVars
    PROVE  BrTypes'
  <1> DEFINE StoredFits == \A c \in DOMAIN brStored' : brStored'[c] \in Brandings
             DraftFits == brView'.draft \in Brandings
             PdfFits == brView'.pdf \in DOMAIN brStored' \cup {0}
             Sends == brSent' \in 1 .. BrMaxSends /\ \A r \in brReqs' : r.branding \in Brandings
             ViewFits == DraftFits /\ PdfFits
  <1>1. /\ BrShape /\ \A c \in DOMAIN brStored : brStored[c] \in Brandings
        /\ brView.draft \in Brandings /\ brView.pdf \in DOMAIN brStored \cup {0}
        /\ brSent \in 1 .. BrMaxSends /\ \A r \in brReqs : r.branding \in Brandings
        /\ brView.companies \subseteq DOMAIN brStored
        /\ brView.company \in DOMAIN brStored \cup {0}
        /\ \A r \in brReqs : r.company \in DOMAIN brStored \cup {0}
    BY DEF BrInv, BrShape, BrPage, BrRequest, BrTypes, BrandingTypeOK, Brandings
  <1>2. /\ DOMAIN brStored \subseteq 0 .. MaxCompanies /\ 0 \in 0 .. MaxCompanies
        /\ EmptyDraft(0) \in Brandings
    <2>1. PICK k \in 0 .. MaxCompanies : DOMAIN brStored = 1 .. k
      BY DEF BrInv, BrShape, BrServer
    <2>2. 0 \in 0 .. MaxCompanies /\ 1 .. k \subseteq 0 .. MaxCompanies
      BY BrandingAssumption
    <2>3. QED
      BY <2>1, <2>2, EmptyDraftIs
  <1>3. ASSUME StoredFits, ViewFits, Sends
        PROVE  BrTypes'
    BY <1>3, NextKeepsBranding, BrTyped
  <1>4. ASSUME NEW reqs \in SUBSET brReqs, NEW kind, NEW c, NEW branding \in Brandings,
               BrSend(reqs, kind, c, branding)
        PROVE  Sends
    BY <1>4, BrSendTyped
  <1>5. ASSUME NEW r \in brReqs
        PROVE  /\ BrOthers(r) \in SUBSET brReqs
               /\ brReqs' = BrOthers(r) /\ UNCHANGED brSent => Sends
    BY <1>1 DEF BrOthers
  <1>6. brView = [companies |-> brView.companies, company |-> brView.company,
                  draft |-> brView.draft, loading |-> brView.loading, error |-> brView.error,
                  saving |-> brView.saving, previewing |-> brView.previewing, pdf |-> brView.pdf]
    BY <1>1 DEF BrShape, BrPage
  <1>7. ASSUME UNCHANGED brStored
        PROVE  StoredFits
    BY <1>1, <1>7
  <1>8. CASE RetryBranding
    <2>1. Sends
      BY <1>2, <1>4, <1>8 DEF RetryBranding
    <2>2. ViewFits /\ StoredFits
      BY <1>1, <1>6, <1>8 DEF RetryBranding
    <2>3. QED
      BY <1>3, <2>1, <2>2
  <1>9. CASE SelectCompany
    <2>1. PICK c \in brView.companies \ {brView.company} :
              /\ BrSend(brReqs, "select", c, brStored[c])
              /\ brView' = [brView EXCEPT !.company = c, !.pdf = 0]
      BY <1>9 DEF SelectCompany
    <2>2. Sends
      BY <1>1, <1>4, <2>1
    <2>3. ViewFits /\ StoredFits
      BY <1>1, <1>6, <1>9, <2>1 DEF SelectCompany
    <2>4. QED
      BY <1>3, <2>2, <2>3
  <1>10. CASE PickLogo \/ CreateCompany
    <2>1. Sends
      BY <1>2, <1>4, <1>10 DEF PickLogo, CreateCompany
    <2>2. ViewFits /\ StoredFits
      BY <1>1, <1>10 DEF PickLogo, CreateCompany
    <2>3. QED
      BY <1>3, <2>1, <2>2
  <1>11. CASE RemoveLogo
    <2>1. UNCHANGED <<brStored, brReqs, brSent>> /\ brView' = [brView EXCEPT !.draft.logo = 0]
      BY <1>11 DEF RemoveLogo
    <2>2. DraftFits
      BY <1>1, <1>2, <1>6, <2>1 DEF Brandings
    <2>3. PdfFits
      BY <1>1, <1>6, <2>1
    <2>4. QED
      BY <1>1, <1>3, <2>1, <2>2, <2>3
  <1>12. CASE SaveBranding \/ PreviewBranding
    <2>1. Sends
      BY <1>1, <1>4, <1>12 DEF SaveBranding, PreviewBranding
    <2>2. ViewFits /\ StoredFits
      BY <1>1, <1>6, <1>12 DEF SaveBranding, PreviewBranding
    <2>3. QED
      BY <1>3, <2>1, <2>2
  <1>13. ASSUME NEW r \in brReqs, CompaniesListed(r)
         PROVE  BrTypes'
    <2>1. CASE DOMAIN brStored = {}
      <3>1. /\ brReqs' = BrOthers(r) /\ UNCHANGED <<brSent, brStored>>
            /\ brView' = [brView EXCEPT !.companies = {}, !.company = 0,
                                        !.draft = EmptyDraft(0), !.loading = FALSE]
        BY <1>13, <2>1 DEF CompaniesListed
      <3>2. ViewFits
        BY <1>1, <1>2, <1>6, <3>1
      <3>3. QED
        BY <1>3, <1>5, <1>7, <3>1, <3>2
    <2>2. CASE DOMAIN brStored # {}
      <3>1. /\ BrSend(BrOthers(r), "default", Min(DOMAIN brStored), brStored[Min(DOMAIN brStored)])
            /\ brView' = [brView EXCEPT !.companies = DOMAIN brStored,
                                        !.company = Min(DOMAIN brStored)]
            /\ UNCHANGED brStored
        BY <1>13, <2>2 DEF CompaniesListed
      <3>2. brStored[Min(DOMAIN brStored)] \in Brandings
        BY <1>1, <2>2, LowestIs DEF BrShape
      <3>3. Sends
        BY <1>4, <1>5, <3>1, <3>2
      <3>4. ViewFits
        BY <1>1, <1>6, <3>1
      <3>5. QED
        BY <1>3, <1>7, <3>1, <3>3, <3>4
    <2>3. QED
      BY <2>1, <2>2
  <1>14. ASSUME NEW r \in brReqs, r.kind \in {"default", "select"}, CompanyFetched(r)
         PROVE  BrTypes'
    <2>1. PICK branding \in {r.branding, brStored[r.company]} :
              brView' = [brView EXCEPT !.draft = branding,
                                       !.loading = IF r.kind = "default" THEN FALSE ELSE @]
      BY <1>14 DEF CompanyFetched
    <2>2. r.company \in DOMAIN brStored
      BY <1>1, <1>14 DEF BrShape, BrRequest
    <2>3. ViewFits /\ StoredFits
      BY <1>1, <1>6, <1>14, <2>1, <2>2 DEF CompanyFetched
    <2>4. Sends
      BY <1>5, <1>14 DEF CompanyFetched
    <2>5. QED
      BY <1>3, <2>3, <2>4
  <1>15. ASSUME NEW r \in brReqs, BrLoadFails(r)
         PROVE  BrTypes'
    <2>1. ViewFits /\ StoredFits
      BY <1>1, <1>6, <1>15 DEF BrLoadFails
    <2>2. Sends
      BY <1>5, <1>15 DEF BrLoadFails
    <2>3. QED
      BY <1>3, <2>1, <2>2
  <1>16. ASSUME NEW r \in brReqs, LogoRead(r)
         PROVE  BrTypes'
    <2>1. /\ UNCHANGED <<brStored, brSent>> /\ brView' = [brView EXCEPT !.draft.logo = r.company]
          /\ brReqs' = BrOthers(r)
      BY <1>16 DEF LogoRead
    <2>2. r.company \in 0 .. MaxCompanies
      BY <1>1, <1>2
    <2>3. DraftFits
      BY <1>1, <1>6, <2>1, <2>2 DEF Brandings
    <2>4. PdfFits
      BY <1>1, <1>6, <2>1
    <2>5. QED
      BY <1>3, <1>5, <1>7, <2>1, <2>3, <2>4
  <1>17. ASSUME NEW r \in brReqs, BrandingSaved(r)
         PROVE  BrTypes'
    <2>1. StoredFits /\ DOMAIN brStored' = DOMAIN brStored
      BY <1>17, BrStoreTyped DEF BrandingSaved
    <2>2. Sends
      BY <1>2, <1>4, <1>5, <1>17 DEF BrandingSaved
    <2>3. ViewFits
      BY <1>1, <1>6, <1>17, <2>1 DEF BrandingSaved
    <2>4. QED
      BY <1>3, <2>1, <2>2, <2>3
  <1>18. ASSUME NEW r \in brReqs, SaveFails(r)
         PROVE  BrTypes'
    <2>1. StoredFits /\ DOMAIN brStored' = DOMAIN brStored
      BY <1>18, BrStoreTyped DEF SaveFails
    <2>2. Sends
      BY <1>5, <1>18 DEF SaveFails
    <2>3. ViewFits
      BY <1>1, <1>6, <1>18, <2>1 DEF SaveFails
    <2>4. QED
      BY <1>3, <2>1, <2>2, <2>3
  <1>19. ASSUME NEW r \in brReqs, Relisted(r)
         PROVE  BrTypes'
    <2>1. PICK cs : brView' = [brView EXCEPT !.saving = FALSE, !.companies = cs]
      BY <1>19 DEF Relisted
    <2>2. ViewFits /\ StoredFits
      BY <1>1, <1>6, <1>19, <2>1 DEF Relisted
    <2>3. Sends
      BY <1>5, <1>19 DEF Relisted
    <2>4. QED
      BY <1>3, <2>2, <2>3
  <1>20. ASSUME NEW r \in brReqs, Patched(r)
         PROVE  BrTypes'
    <2>1. StoredFits /\ DOMAIN brStored' = DOMAIN brStored
      BY <1>20, BrStoreTyped DEF Patched
    <2>2. Sends
      BY <1>1, <1>4, <1>5, <1>20 DEF Patched
    <2>3. ViewFits
      BY <1>1, <1>20, <2>1 DEF Patched
    <2>4. QED
      BY <1>3, <2>1, <2>2, <2>3
  <1>21. ASSUME NEW r \in brReqs, PreviewEnds(r)
         PROVE  BrTypes'
    <2>1. brStored' = brStored \/ brStored' = [brStored EXCEPT ![r.company] = r.branding]
      BY <1>21 DEF PreviewEnds
    <2>2. StoredFits /\ DOMAIN brStored' = DOMAIN brStored
      BY <2>1, BrStoreTyped
    <2>3. Sends
      BY <1>5, <1>21 DEF PreviewEnds
    <2>4. PICK p \in {r.company, brView.pdf, 0} :
              brView' = [brView EXCEPT !.previewing = FALSE, !.pdf = p]
      BY <1>21 DEF PreviewEnds
    <2>5. ViewFits
      BY <1>1, <1>6, <2>2, <2>4
    <2>6. QED
      BY <1>3, <2>2, <2>3, <2>5
  <1>22. ASSUME NEW r \in brReqs, CompanyCreated(r)
         PROVE  BrTypes'
    <2>1. PICK told \in BOOLEAN :
              LET c == Cardinality(DOMAIN brStored) + 1
              IN /\ c <= MaxCompanies
                 /\ brStored' = [x \in 1 .. c |-> IF x = c THEN EmptyDraft(c) ELSE brStored[x]]
                 /\ brView' = IF told THEN [brView EXCEPT !.companies = {c}, !.company = c,
                                                          !.draft = EmptyDraft(c)]
                              ELSE brView
      BY <1>22 DEF CompanyCreated
    <2>2. PICK k \in Nat : DOMAIN brStored = 1 .. k /\ k = Cardinality(DOMAIN brStored)
      <3>1. PICK k \in 0 .. MaxCompanies : DOMAIN brStored = 1 .. k
        BY <1>1 DEF BrShape, BrServer
      <3>2. k \in Nat /\ Cardinality(1 .. k) = IF 1 > k THEN 0 ELSE k - 1 + 1
        BY <3>1, BrandingAssumption, FS_Interval
      <3>3. (IF 1 > k THEN 0 ELSE k - 1 + 1) = k
        BY <3>2
      <3>4. QED
        BY <3>1, <3>2, <3>3
    <2>3. EmptyDraft(k + 1) \in Brandings
      BY <2>1, <2>2, EmptyDraftIs, BrandingAssumption
    <2>4. DOMAIN brStored \subseteq DOMAIN brStored' /\ StoredFits
      BY <1>1, <2>1, <2>2, <2>3
    <2>5. ViewFits
      BY <1>1, <1>6, <2>1, <2>2, <2>3, <2>4
    <2>6. Sends
      BY <1>5, <1>22 DEF CompanyCreated
    <2>7. QED
      BY <1>3, <2>4, <2>5, <2>6
  <1>23. ASSUME NEW r \in brReqs, CreateFails(r)
         PROVE  BrTypes'
    <2>1. UNCHANGED <<brStored, brView, brSent>> /\ brReqs' = BrOthers(r)
      BY <1>23 DEF CreateFails
    <2>2. QED
      BY <1>1, <1>3, <1>5, <1>7, <2>1
  <1>24. CASE UNCHANGED brVars
    BY <1>1, <1>3, <1>24 DEF brVars
  <1>25. QED
    BY <1>8, <1>9, <1>10, <1>11, <1>12, <1>13, <1>14, <1>15, <1>16, <1>17, <1>18, <1>19, <1>20,
       <1>21, <1>22, <1>23, <1>24
    DEF BrandingNext, BrandingAnswer

-----------------------------------------------------------------------------
(* The console's types.                                                     *)

LEMMA FirstTypes ==
    ASSUME ConsoleInit
    PROVE  /\ NewInvoiceTypeOK /\ LicenseTypeOK /\ PeppolPagesTypeOK
           /\ SesTypes /\ InTypes /\ BrTypes /\ UsTypes /\ SecTypes /\ DetTypes
  <1>1. NewInvoiceTypeOK
    <2>1. Len(newArchive) = 0 /\ newShown.id = 0 /\ newShown.busy = FALSE
      BY DEF ConsoleInit, NewInvoiceInit
    <2>2. /\ 0 \in 0 .. MaxPicks /\ 0 \in 0 .. MaxGenerates /\ 0 \in 0 .. 0
          /\ "" \in Numbers
      <3>1. MaxPicks \in Nat /\ MaxGenerates \in Nat /\ "" \in Numbers
        BY NewInvoiceAssumption
      <3>2. \A n \in Nat : 0 \in 0 .. n
        OBVIOUS
      <3>3. QED
        BY <3>1, <3>2, Zenon
    <2>3. QED
      BY <2>1, <2>2 DEF ConsoleInit, NewInvoiceInit, NewInvoiceTypeOK
  <1>2. LicenseTypeOK
    BY LicenseAssumption DEF ConsoleInit, LicenseInit, LicenseTypeOK
  <1>3. PeppolPagesTypeOK
    <2>1. 1 \in 1 .. PpMaxVersion /\ 0 \in 0 .. PpMaxVersion /\ 1 \in 1 .. PpMaxSends
      BY PeppolPagesAssumption
    <2>2. QED
      BY <2>1 DEF ConsoleInit, PeppolPagesInit, PeppolPagesTypeOK, ClosedEvidence
  <1>4. SesTypes
    <2>1. PICK mode \in {"open", "token", "users"}, s \in {0, 1} :
              /\ srv = [mode |-> mode, issued |-> s, alive |-> 1 .. s]
              /\ store = [session |-> s, token |-> NoToken]
      BY DEF ConsoleInit, SessionInit
    <2>2. s \in 0 .. MaxSessions /\ 1 .. s \in SUBSET (1 .. MaxSessions) /\ s \in 0 .. s
      BY SessionAssumption
    <2>3. Len(net) = 1 /\ 1 <= MaxNet + 1 /\ 1 <= MaxNet
      BY SessionAssumption DEF ConsoleInit, SessionInit
    <2>4. QED
      BY <2>1, <2>2, <2>3 DEF ConsoleInit, SessionInit, SesTypes, SessionTypeOK, EmptyForm, HiddenBar
  <1>5. InTypes
    BY InboxAssumption DEF ConsoleInit, InboxInit, InTypes, InboxTypeOK, Filters
  <1>6. BrTypes
    <2>1. PICK k \in {0, MaxCompanies} : brStored = [c \in 1 .. k |-> [text |-> c, logo |-> c]]
      BY DEF ConsoleInit, BrandingInit
    <2>2. k \in Nat /\ 1 .. k \subseteq 0 .. MaxCompanies /\ 0 \in 0 .. MaxCompanies
      BY <2>1, BrandingAssumption
    <2>3. Cardinality(1 .. k) = k
      <3>1. Cardinality(1 .. k) = IF 1 > k THEN 0 ELSE k - 1 + 1
        BY <2>2, FS_Interval
      <3>2. (IF 1 > k THEN 0 ELSE k - 1 + 1) = k
        BY <2>2
      <3>3. QED
        BY <3>1, <3>2
    <2>4. DOMAIN brStored = 1 .. k /\ \A c \in DOMAIN brStored : brStored[c] \in Brandings
      BY <2>1, <2>2 DEF Brandings
    <2>5. EmptyDraft(0) \in Brandings
      BY <2>2, EmptyDraftIs
    <2>6. brSent = 1 /\ \A r \in brReqs : r.branding = EmptyDraft(0) /\ r.n = 1
      BY DEF ConsoleInit, BrandingInit
    <2>7. QED
      BY <2>2, <2>3, <2>4, <2>5, <2>6, BrandingAssumption
      DEF ConsoleInit, BrandingInit, BrTypes, BrandingTypeOK, Brandings
  <1>7. UsTypes
    <2>1. usServer \in {<<>>, <<"admin">>} /\ usAdded = Cardinality(DOMAIN usServer)
      BY DEF ConsoleInit, UsersInit
    <2>2. /\ usAdded \in 0 .. MaxUsers /\ DOMAIN usServer = 1 .. usAdded
          /\ usServer \in [1 .. usAdded -> RoleNames]
      <3>1. CASE usServer = <<>>
        <4>1. DOMAIN usServer = {} /\ usAdded = 0
          BY <2>1, <3>1, FS_EmptySet
        <4>2. QED
          BY <3>1, <4>1, UsersAssumption
      <3>2. CASE usServer = <<"admin">>
        <4>1. DOMAIN usServer = {1} /\ usAdded = 1
          BY <2>1, <3>2, FS_Singleton
        <4>2. QED
          BY <3>2, <4>1, UsersAssumption DEF RoleNames
      <3>3. QED
        BY <2>1, <3>1, <3>2
    <2>3. AreUsers(usServer)
      BY <2>2 DEF AreUsers
    <2>4. usShown.users = <<>> /\ AreUsers(usShown.users) /\ DOMAIN usShown.users = {}
      <3>1. usShown.users = <<>>
        BY DEF ConsoleInit, UsersInit
      <3>2. <<>> \in [{} -> RoleNames] /\ {} \in SUBSET (1 .. usAdded)
        OBVIOUS
      <3>3. QED
        BY <3>1, <3>2 DEF AreUsers
    <2>5. ASSUME NEW r \in usReqs
          PROVE  UsTyped(r)
      <3>1. r.form = EmptyUserForm /\ r.since = usServer
        BY DEF ConsoleInit, UsersInit
      <3>2. 0 \in 0 .. usAdded
        BY <2>2, UsersAssumption
      <3>3. QED
        BY <2>3, <3>1, <3>2 DEF UsTyped, EmptyUserForm, RoleNames
    <2>6. QED
      BY <2>2, <2>3, <2>4, <2>5, UsersAssumption
      DEF ConsoleInit, UsersInit, UsTypes, UsersTypeOK, EmptyUserForm, NoChoice, RoleNames
  <1>8. SecTypes
    <2>1. 0 \in 0 .. SecMaxSecrets /\ 1 \in 1 .. SecMaxSends
      BY SecurityAssumption
    <2>2. \A r \in secReqs : r.secret = 0
      BY DEF ConsoleInit, SecurityInit
    <2>3. QED
      BY <2>1, <2>2
      DEF ConsoleInit, SecurityInit, SecTypes, SecurityTypeOK, EmptySecView, NoCodes
  <1>9. DetTypes
    <2>1. AnInvoice \in Invoices
      BY DetailAssumption DEF AnInvoice
    <2>2. \A r \in detReqs : r.id = AnInvoice
      BY DEF ConsoleInit, DetailInit
    <2>3. 2 \in 2 .. DetMaxSends
      BY DetailAssumption
    <2>4. QED
      BY <2>1, <2>2, <2>3 DEF ConsoleInit, DetailInit, DetTypes, DetailTypeOK
  <1>10. QED
    BY <1>1, <1>2, <1>3, <1>4, <1>5, <1>6, <1>7, <1>8, <1>9

\* Every page's invariant, and its types with the bounds of its counters.
ConsoleInv ==
    /\ part \in Parts /\ role \in RoleNames
    /\ SessionInv /\ SesTypes
    /\ InInv /\ InTypes
    /\ ArchiveInv /\ AttachedInv /\ NewInvoiceTypeOK
    /\ LicInv /\ LicenseTypeOK
    /\ BrInv /\ BrTypes
    /\ UsInv /\ UsTypes
    /\ SecInv /\ SecTypes
    /\ DetInv /\ DetTypes
    /\ PeppolPagesTypeOK

LEMMA InitConsole == ConsoleInit => ConsoleInv
  <1> SUFFICES ASSUME ConsoleInit
               PROVE  ConsoleInv
    OBVIOUS
  <1>1. part \in Parts /\ role \in RoleNames
    BY DEF ConsoleInit, RoleInit
  <1>2. /\ SessionInit /\ InboxInit /\ NewInvoiceInit /\ LicenseInit /\ BrandingInit
        /\ UsersInit /\ SecurityInit /\ DetailInit
    BY DEF ConsoleInit
  <1>3. /\ SessionInv /\ InInv /\ ArchiveInv /\ AttachedInv /\ LicInv /\ BrInv /\ UsInv
        /\ SecInv /\ DetInv
    BY <1>2, InitSession, InitInbox, InitArchive, InitAttached, InitLicense, InitBranding,
       InitUsers, InitSecurity, InitDetail
  <1>4. QED
    BY <1>1, <1>3, FirstTypes DEF ConsoleInv

\* A step of the console is a step of one page, and the others rest.
LEMMA PageSteps ==
    ASSUME [ConsoleNext]_consoleVars
    PROVE  /\ [SessionNext]_sessionVars /\ [InboxNext]_inboxVars /\ [FormNext]_formVars
           /\ [NewInvoiceNext]_newVars /\ [LicenseNext]_licVars /\ [BrandingNext]_brVars
           /\ [UsersNext]_usVars /\ [SecurityNext]_secVars /\ [DetailNext]_detVars
           /\ [SettingsNext \/ LedgerNext]_ppVars /\ UNCHANGED <<role, part>>
  <1>1. CASE UNCHANGED consoleVars
    BY <1>1 DEF consoleVars
  <1>2. CASE ConsoleNext
    <2>1. /\ FormNext \/ UNCHANGED formVars
          /\ NewInvoiceNext \/ UNCHANGED newVars
      BY <1>2 DEF ConsoleNext, FormNext, NewInvoiceNext
    <2>2. SettingsNext \/ LedgerNext \/ UNCHANGED ppVars
      BY <1>2 DEF ConsoleNext
    <2>3. QED
      BY <1>2, <2>1, <2>2 DEF ConsoleNext
  <1>3. QED
    BY <1>1, <1>2

LEMMA NextKeepsConsole == ConsoleInv /\ [ConsoleNext]_consoleVars => ConsoleInv'
  <1> SUFFICES ASSUME ConsoleInv, [ConsoleNext]_consoleVars
               PROVE  ConsoleInv'
    OBVIOUS
  <1>1. /\ [SessionNext]_sessionVars /\ [InboxNext]_inboxVars /\ [NewInvoiceNext]_newVars
        /\ [LicenseNext]_licVars /\ [BrandingNext]_brVars /\ [UsersNext]_usVars
        /\ [SecurityNext]_secVars /\ [DetailNext]_detVars
        /\ [SettingsNext \/ LedgerNext]_ppVars /\ UNCHANGED <<role, part>>
    BY PageSteps
  <1>2. SessionInv' /\ SesTypes'
    BY <1>1, NextKeepsSession, SessionTypes DEF ConsoleInv
  <1>3. InInv' /\ InTypes'
    BY <1>1, NextKeepsInbox, InboxTypes DEF ConsoleInv
  <1>4. ArchiveInv' /\ AttachedInv' /\ NewInvoiceTypeOK'
    BY <1>1, NextKeepsArchive, NextKeepsAttached, NewInvoiceTypes DEF ConsoleInv
  <1>5. LicInv' /\ LicenseTypeOK'
    BY <1>1, NextKeepsLicense, LicenseTypes DEF ConsoleInv
  <1>6. BrInv' /\ BrTypes'
    BY <1>1, NextKeepsBranding, BrandingTypes DEF ConsoleInv
  <1>7. UsInv' /\ UsTypes'
    BY <1>1, NextKeepsUsers, UsersTypes DEF ConsoleInv
  <1>8. SecInv' /\ SecTypes'
    BY <1>1, NextKeepsSecurity, SecurityTypes DEF ConsoleInv
  <1>9. DetInv' /\ DetTypes'
    BY <1>1, NextKeepsDetail, DetailTypes DEF ConsoleInv
  <1>10. PeppolPagesTypeOK'
    BY <1>1, PeppolPagesTypes DEF ConsoleInv
  <1>11. part' \in Parts /\ role' \in RoleNames
    BY <1>1 DEF ConsoleInv
  <1>12. QED
    BY <1>2, <1>3, <1>4, <1>5, <1>6, <1>7, <1>8, <1>9, <1>10, <1>11 DEF ConsoleInv

\* The components and pages of frontend/src share the session and the role and
\* nothing else: the console behaves as each of the pages that is specified on
\* its own, so what holds of that page holds in the console.
THEOREM ConsoleIsItsPages ==
    ConsoleSpec => /\ SessionSpec /\ FormSpec /\ NewInvoiceSpec
                   /\ LicenseSpec /\ SecuritySpec /\ DetailSpec
  <1>1. ConsoleInit => /\ SessionInit /\ FormInit /\ NewInvoiceInit
                       /\ LicenseInit /\ SecurityInit /\ DetailInit
    BY DEF ConsoleInit
  <1>2. [ConsoleNext]_consoleVars =>
            /\ [SessionNext]_sessionVars /\ [FormNext]_formVars /\ [NewInvoiceNext]_newVars
            /\ [LicenseNext]_licVars /\ [SecurityNext]_secVars /\ [DetailNext]_detVars
    BY PageSteps
  <1>3. QED
    BY <1>1, <1>2, PTL
    DEF ConsoleSpec, SessionSpec, FormSpec, NewInvoiceSpec, LicenseSpec, SecuritySpec, DetailSpec

\* LicensePage.tsx, onCreateKey; SecurityPage.tsx, confirm; InvoiceDetailPage.tsx,
\* reload and doSend; NewInvoicePage.tsx, generate and onAddAttachments; lib/gobl.ts,
\* the document, the preview and the check of the VAT id: what each page promises
\* holds of the console that the runs explore, whichever page is open.
THEOREM PagesInTheConsole ==
    ConsoleSpec => [](/\ KeyIsSeen /\ CodesShown /\ DetailIsOfItsUrl /\ SendsWhatIsShown
                      /\ LinesWellFormed /\ DocumentIsWhatIsShown /\ VatIdErrorsCaught
                      /\ PreviewAgrees /\ ArchivedIsGenerated /\ AttachmentsKept)
  BY ConsoleIsItsPages, PlaintextIsShown, CodesStayShown, PageIsOfItsUrl, SendIsOfThePage,
     RowsHaveTheirIds, HiddenFieldsAreNotSent, OneWrongDigitIsReported, PreviewIsTheDocument,
     ArchivedWhatIsShown, AttachmentsAreKept, PTL

\* AuthProvider.tsx, refresh; LoginPage.tsx, submit: in the console too, whoever sees
\* the splash screen or a busy form is owed the answer to a request.
THEOREM SessionInTheConsole == ConsoleSpec => []NobodyWaitsInVain
  BY ConsoleIsItsPages, WaitingEnds, PTL

\* The pages of frontend/src: every part of the state keeps its type, and every
\* counter its bound, on all pages and for all values of the bounds.
THEOREM ConsoleTypes == ConsoleSpec => []ConsoleTypeOK
  <1>1. ASSUME ConsoleInv, FormTypeOK
        PROVE  ConsoleTypeOK
    BY <1>1 DEF ConsoleInv, ConsoleTypeOK, SesTypes, InTypes, BrTypes, UsTypes, SecTypes, DetTypes
  <1>2. ConsoleSpec => []FormTypeOK
    BY ConsoleIsItsPages, FormTypes, PTL
  <1>3. QED
    BY <1>1, <1>2, InitConsole, NextKeepsConsole, PTL DEF ConsoleSpec
=============================================================================

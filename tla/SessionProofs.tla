--------------------------- MODULE SessionProofs ----------------------------
(* That nobody waits for an answer that will not come, and what is stored,  *)
(* for any number of sessions and requests and any order of answers.        *)
EXTENDS Session, SequenceTheorems, TLAPS

-----------------------------------------------------------------------------
(* The inductive invariant: a session is stored only where users sign in,   *)
(* and no request was sent to such a server unless it is one by now.        *)

Modes == {"open", "token", "users"}
Requests(mode) ==
    {r \in [kind : {"page", "status", "me", "login", "mfa"},
            bearer : {"none", "session", "token"} \X Nat,
            accepted : BOOLEAN, mode : Modes, mounted : BOOLEAN] :
        r.mode = "users" => mode = "users"}

Server == [mode : Modes, issued : Nat, alive : SUBSET Nat]
Store == [session : Nat, token : {NoToken, RightToken, WrongToken}]
Auth == [mode : Modes \cup {"null"}, user : BOOLEAN, loading : BOOLEAN]

SessionInv ==
    /\ srv \in Server
    /\ store \in Store
    /\ auth \in Auth
    /\ net \in Seq(Requests(srv.mode))
    /\ store.session # 0 => srv.mode = "users"

-----------------------------------------------------------------------------
(* The requests in flight.                                                  *)

LEMMA RequestIs ==
    ASSUME SessionInv, NEW kind \in {"page", "status", "me", "login", "mfa"}
    PROVE  Request(kind) \in Requests(srv.mode)
  <1>1. /\ store.session \in Nat /\ store.token \in Nat
        /\ srv.mode \in Modes
    BY DEF SessionInv, Store, Server, NoToken, RightToken, WrongToken
  <1>2. Bearer \in {"none", "session", "token"} \X Nat
    BY <1>1 DEF Bearer, NoBearer
  <1>3. Accepts(Bearer) \in BOOLEAN
    BY DEF Accepts
  <1> HIDE DEF Bearer, Accepts
  <1>4. QED
    BY <1>1, <1>2, <1>3 DEF Request, Requests

LEMMA SendKeeps ==
    ASSUME SessionInv, NEW kind \in {"page", "status", "me", "login", "mfa"},
           Send(net, Request(kind))
    PROVE  net' \in Seq(Requests(srv.mode))
  <1> DEFINE r == Request(kind)
  <1>1. r \in Requests(srv.mode)
    BY RequestIs
  <1>2. net' = Append(net, r) /\ net \in Seq(Requests(srv.mode))
    BY DEF Send, SessionInv
  <1> HIDE DEF r
  <1>3. QED
    BY <1>1, <1>2, AppendProperties

LEMMA AnsweredKeeps ==
    ASSUME NEW S, NEW q \in Seq(S), NEW i \in DOMAIN q
    PROVE  RemoveAt(q, i) \in Seq(S)
  <1>1. Len(q) \in Nat /\ DOMAIN q = 1 .. Len(q)
    BY LenProperties
  <1>2. i \in 1 .. Len(q)
    BY <1>1
  <1>3. SubSeq(q, 1, i - 1) \in Seq(S) /\ SubSeq(q, i + 1, Len(q)) \in Seq(S)
    BY <1>1, <1>2, SubSeqProperties
  <1>4. QED
    BY <1>3, ConcatProperties DEF RemoveAt

LEMMA OrphanedKeeps ==
    ASSUME NEW mode \in Modes, NEW q \in Seq(Requests(mode))
    PROVE  Orphaned(q) \in Seq(Requests(mode))
  <1>1. Len(q) \in Nat /\ DOMAIN q = 1 .. Len(q) /\ \A i \in 1 .. Len(q) : q[i] \in Requests(mode)
    BY LenProperties, ElementOfSeq
  <1>2. ASSUME NEW i \in DOMAIN q
        PROVE  [q[i] EXCEPT !.mounted = FALSE] \in Requests(mode)
    <2>1. q[i] \in Requests(mode)
      BY <1>1
    <2>2. QED
      BY <2>1 DEF Requests
  <1>3. Orphaned(q) \in [1 .. Len(q) -> Requests(mode)]
    BY <1>1, <1>2 DEF Orphaned
  <1>4. QED
    BY <1>1, <1>3

-----------------------------------------------------------------------------
(* The steps.                                                               *)

LEMMA InitSession == SessionInit => SessionInv
  <1> SUFFICES ASSUME SessionInit
               PROVE  SessionInv
    OBVIOUS
  <1>1. PICK mode \in Modes, s \in {0, 1} :
            /\ s = 1 => mode = "users"
            /\ srv = [mode |-> mode, issued |-> s, alive |-> 1 .. s]
            /\ store = [session |-> s, token |-> NoToken]
    BY DEF SessionInit, Modes
  <1>2. srv \in Server /\ store \in Store /\ (store.session # 0 => srv.mode = "users")
    BY <1>1 DEF Server, Store
  <1>3. auth \in Auth
    BY DEF SessionInit, Auth
  <1>4. Request("status") \in Requests(srv.mode)
    <2>1. Bearer \in {"none", "session", "token"} \X Nat
      BY <1>2 DEF Bearer, NoBearer, Store, NoToken, RightToken, WrongToken
    <2>2. Accepts(Bearer) \in BOOLEAN /\ srv.mode \in Modes
      BY <1>2 DEF Accepts, Server
    <2> HIDE DEF Bearer, Accepts
    <2>3. QED
      BY <2>1, <2>2 DEF Request, Requests
  <1>5. net \in Seq(Requests(srv.mode))
    BY <1>4 DEF SessionInit
  <1>6. QED
    BY <1>2, <1>3, <1>5 DEF SessionInv

\* A step that leaves the server alone, with what it stores and who is signed in
\* still of their types, and the requests of theirs.
LEMMA Keeps ==
    ASSUME SessionInv, UNCHANGED srv, store' \in Store, store'.session \in {store.session, 0},
           auth' \in Auth, net' \in Seq(Requests(srv.mode))
    PROVE  SessionInv'
  BY DEF SessionInv

LEMMA LocalStep ==
    ASSUME SessionInv,
           \/ ShellRedirect \/ LoginRedirect \/ ToggleRecovery \/ WaitOver
           \/ SaveToken(RightToken) \/ SaveToken(WrongToken) \/ DismissBar
    PROVE  SessionInv'
  <1>1. UNCHANGED <<srv, auth>>
    BY DEF ShellRedirect, LoginRedirect, ToggleRecovery, WaitOver, SaveToken, DismissBar
  <1>2. net' \in Seq(Requests(srv.mode))
    <2>1. net' = net \/ net' = Orphaned(net)
      BY DEF ShellRedirect, LoginRedirect, ToggleRecovery, WaitOver, SaveToken, DismissBar
    <2>2. srv.mode \in Modes /\ net \in Seq(Requests(srv.mode))
      BY DEF SessionInv, Server
    <2>3. QED
      BY <2>1, <2>2, OrphanedKeeps
  <1>3. store' \in Store /\ store'.session = store.session
    <2>1. store' = store \/ \E t \in {RightToken, WrongToken} : store' = [store EXCEPT !.token = t]
      BY DEF ShellRedirect, LoginRedirect, ToggleRecovery, WaitOver, SaveToken, DismissBar
    <2>2. QED
      BY <2>1 DEF SessionInv, Store
  <1>4. QED
    BY <1>1, <1>2, <1>3, Keeps DEF SessionInv

LEMMA SendingStep ==
    ASSUME SessionInv, PageRequest \/ RefreshAuth \/ SubmitLogin \/ SubmitMFA \/ AutoSubmit
    PROVE  SessionInv'
  <1>1. UNCHANGED <<srv, store>>
    BY DEF PageRequest, RefreshAuth, SubmitLogin, SubmitMFA, AutoSubmit, Submit
  <1>2. net' \in Seq(Requests(srv.mode))
    BY SendKeeps DEF PageRequest, RefreshAuth, SubmitLogin, SubmitMFA, AutoSubmit, Submit
  <1>3. auth' \in Auth
    <2>1. auth' = auth \/ auth' = [auth EXCEPT !.loading = TRUE]
      BY DEF PageRequest, RefreshAuth, SubmitLogin, SubmitMFA, AutoSubmit, Submit
    <2>2. QED
      BY <2>1 DEF SessionInv, Auth
  <1>4. QED
    BY <1>1, <1>2, <1>3, Keeps DEF SessionInv

LEMMA LogoutStep ==
    ASSUME SessionInv, Logout
    PROVE  SessionInv'
  <1>1. store' \in Store /\ store'.session = 0 /\ auth' \in Auth /\ ~auth'.user
    BY DEF Logout, SessionInv, Store, Auth
  <1>2. UNCHANGED <<srv, net>> /\ auth.user
    BY DEF Logout
  <1>3. QED
    BY <1>1, <1>2, Keeps DEF SessionInv

LEMMA ServerStep ==
    ASSUME SessionInv, Expire \/ BecomesUsers
    PROVE  SessionInv'
  <1>1. UNCHANGED <<store, auth, net>>
    BY DEF Expire, BecomesUsers
  <1>2. srv' \in Server /\ srv'.mode \in {srv.mode, "users"}
    <2>1. srv \in Server
      BY DEF SessionInv
    <2>2. CASE Expire
      <3>1. PICK s \in srv.alive : srv' = [srv EXCEPT !.alive = @ \ {s}]
        BY <2>2 DEF Expire
      <3>2. QED
        BY <2>1, <3>1 DEF Server
    <2>3. CASE BecomesUsers
      BY <2>1, <2>3 DEF BecomesUsers, Server, Modes
    <2>4. QED
      BY <2>2, <2>3
  <1>3. Requests(srv.mode) \subseteq Requests(srv'.mode)
    BY <1>2 DEF Requests
  <1>4. net \in Seq(Requests(srv'.mode))
    <2>1. Len(net) \in Nat /\ net \in [1 .. Len(net) -> Requests(srv.mode)]
      BY LenProperties DEF SessionInv
    <2>2. net \in [1 .. Len(net) -> Requests(srv'.mode)]
      BY <1>3, <2>1
    <2>3. QED
      BY <2>1, <2>2
  <1>5. QED
    BY <1>1, <1>2, <1>4 DEF SessionInv

LEMMA PageStep ==
    ASSUME SessionInv, NEW i \in DOMAIN net, AnswerPage(i)
    PROVE  SessionInv'
  <1>1. net' = RemoveAt(net, i) /\ UNCHANGED <<srv, auth>>
    BY DEF AnswerPage, Answered
  <1>2. net' \in Seq(Requests(srv.mode))
    BY <1>1, AnsweredKeeps DEF SessionInv
  <1>3. PICK outcome \in Outcomes(net[i]) : FetchFails(outcome)
    BY DEF AnswerPage
  <1>4. store' \in Store /\ store'.session \in {store.session, 0}
    BY <1>3 DEF FetchFails, SessionInv, Store
  <1>5. QED
    BY <1>1, <1>2, <1>4, Keeps DEF SessionInv

LEMMA StatusStep ==
    ASSUME SessionInv, NEW i \in DOMAIN net, AnswerStatus(i)
    PROVE  SessionInv'
  <1>1. UNCHANGED <<srv, store>>
    BY DEF AnswerStatus
  <1>2. RemoveAt(net, i) \in Seq(Requests(srv.mode))
    BY AnsweredKeeps DEF SessionInv
  <1>3. Request("me") \in Requests(srv.mode)
    BY RequestIs
  <1>4. net' \in Seq(Requests(srv.mode))
    <2>1. net' = RemoveAt(net, i) \/ net' = Append(RemoveAt(net, i), Request("me"))
      BY DEF AnswerStatus, Answered
    <2>2. QED
      BY <1>2, <1>3, <2>1, AppendProperties
  <1>5. net[i].mode \in Modes /\ srv.mode \in Modes /\ auth \in Auth
    <2>1. net[i] \in Requests(srv.mode)
      BY LenProperties, ElementOfSeq DEF SessionInv
    <2>2. QED
      BY <2>1 DEF Requests, SessionInv, Server
  <1>6. auth' \in Auth
    <2>1. PICK mode \in Modes \cup {"failed"} :
              \/ mode = "users" /\ auth' = [auth EXCEPT !.mode = mode]
              \/ auth' = [mode |-> IF mode = "failed" THEN "open" ELSE mode,
                          user |-> FALSE, loading |-> FALSE]
      <3>1. PICK mode \in {net[i].mode, srv.mode, "failed"} :
                IF mode = "users" /\ store.session # 0
                THEN auth' = [auth EXCEPT !.mode = mode]
                ELSE auth' = [mode |-> IF mode = "failed" THEN "open" ELSE mode,
                              user |-> FALSE, loading |-> FALSE]
        BY DEF AnswerStatus, Refreshed
      <3>2. mode \in Modes \cup {"failed"}
        BY <1>5
      <3>3. QED
        BY <3>1, <3>2
    <2>2. CASE mode = "users" /\ auth' = [auth EXCEPT !.mode = mode]
      BY <1>5, <2>2 DEF Auth, Modes
    <2>3. ASSUME NEW m \in Modes, auth' = [mode |-> m, user |-> FALSE, loading |-> FALSE]
          PROVE  auth' \in Auth
      BY <2>3 DEF Auth
    <2>4. (IF mode = "failed" THEN "open" ELSE mode) \in Modes
      BY DEF Modes
    <2>5. QED
      BY <2>1, <2>2, <2>3, <2>4
  <1>7. QED
    BY <1>1, <1>4, <1>6, Keeps DEF SessionInv

LEMMA MeStep ==
    ASSUME SessionInv, NEW i \in DOMAIN net, AnswerMe(i)
    PROVE  SessionInv'
  <1>1. net' = RemoveAt(net, i) /\ UNCHANGED srv /\ net[i].kind = "me"
    BY DEF AnswerMe, Answered
  <1>2. net' \in Seq(Requests(srv.mode))
    BY <1>1, AnsweredKeeps DEF SessionInv
  <1>3. store' \in Store /\ store'.session \in {store.session, 0}
    BY DEF AnswerMe, SessionInv, Store
  <1>4. auth' \in Auth
    <2>1. PICK b \in BOOLEAN : auth' = [mode |-> auth.mode, user |-> b, loading |-> FALSE]
      BY DEF AnswerMe, Refreshed
    <2>2. QED
      BY <2>1 DEF SessionInv, Auth
  <1>5. QED
    BY <1>1, <1>2, <1>3, <1>4, Keeps

LEMMA LoginStep ==
    ASSUME SessionInv, NEW i \in DOMAIN net, AnswerLogin(i)
    PROVE  SessionInv'
  <1>1. RemoveAt(net, i) \in Seq(Requests(srv.mode)) /\ srv.mode \in Modes
    BY AnsweredKeeps DEF SessionInv, Server
  <1>2. CASE net[i].mode = "users" /\ FinishLogin(i)
    <2>1. srv.mode = "users"
      <3>1. net[i] \in Requests(srv.mode)
        BY LenProperties, ElementOfSeq DEF SessionInv
      <3>2. QED
        BY <1>2, <3>1 DEF Requests
    <2> DEFINE new == srv.issued + 1
    <2>2. new \in Nat /\ new # 0
      BY DEF SessionInv, Server
    <2>3. /\ srv' = [srv EXCEPT !.issued = new, !.alive = @ \cup {new}]
          /\ store' = [store EXCEPT !.session = new]
          /\ auth' = [auth EXCEPT !.user = TRUE, !.mode = "users"]
      BY <1>2 DEF FinishLogin
    <2> HIDE DEF new
    <2>4. srv' \in Server /\ srv'.mode = srv.mode
      BY <2>2, <2>3 DEF SessionInv, Server
    <2>5. store' \in Store /\ store'.session # 0
      BY <2>2, <2>3 DEF SessionInv, Store
    <2>6. auth' \in Auth
      BY <2>3 DEF SessionInv, Auth, Modes
    <2>7. net' \in Seq(Requests(srv'.mode))
      BY <1>1, <1>2, <2>4, OrphanedKeeps DEF FinishLogin, Answered
    <2>8. QED
      BY <2>1, <2>4, <2>5, <2>6, <2>7 DEF SessionInv
  <1>3. CASE UNCHANGED <<srv, store, auth>> /\ net' = RemoveAt(net, i)
    BY <1>1, <1>3, Keeps DEF SessionInv
  <1>4. QED
    BY <1>2, <1>3 DEF AnswerLogin, FormAnswer, Answered

LEMMA NextKeepsSession == SessionInv /\ [SessionNext]_sessionVars => SessionInv'
  <1> SUFFICES ASSUME SessionInv, [SessionNext]_sessionVars
               PROVE  SessionInv'
    OBVIOUS
  <1>1. CASE UNCHANGED sessionVars
    BY <1>1, Keeps DEF sessionVars, SessionInv
  <1>2. CASE SessionNext
    BY <1>2, LocalStep, SendingStep, LogoutStep, ServerStep, PageStep, StatusStep, MeStep, LoginStep
    DEF SessionNext
  <1>3. QED
    BY <1>1, <1>2

-----------------------------------------------------------------------------
(* The types, with the bound of the requests in flight.                     *)

\* Requests in flight are within their bound.
SesTypes == SessionTypeOK /\ Len(net) <= MaxNet

LEMMA NetShrinks ==
    ASSUME SessionInv, NEW i \in DOMAIN net
    PROVE  Len(RemoveAt(net, i)) = Len(net) - 1 /\ Len(net) \in Nat
  <1>1. Len(net) \in Nat /\ DOMAIN net = 1 .. Len(net)
    BY LenProperties DEF SessionInv
  <1>2. i \in 1 .. Len(net)
    BY <1>1
  <1>3. /\ SubSeq(net, 1, i - 1) \in Seq(Requests(srv.mode))
        /\ Len(SubSeq(net, 1, i - 1)) = i - 1
    BY <1>1, <1>2, SubSeqProperties DEF SessionInv
  <1>4. /\ SubSeq(net, i + 1, Len(net)) \in Seq(Requests(srv.mode))
        /\ Len(SubSeq(net, i + 1, Len(net))) = Len(net) - i
    BY <1>1, <1>2, SubSeqProperties DEF SessionInv
  <1>5. Len(RemoveAt(net, i)) = (i - 1) + (Len(net) - i)
    BY <1>3, <1>4, ConcatProperties DEF RemoveAt
  <1>6. QED
    BY <1>1, <1>2, <1>5

\* The login page and the token bar.
FormsAre == /\ path \in {"page", "login"}
            /\ form \in [busy : BOOLEAN, mfa : BOOLEAN, wait : BOOLEAN, recovery : BOOLEAN]
            /\ bar \in [visible : BOOLEAN, dismissed : BOOLEAN]

LEMMA Redirected ==
    ASSUME FormsAre,
           \/ GoToLogin \/ GoToPage \/ NotifyUnauthorized \/ UNCHANGED <<path, form, bar>>
    PROVE  FormsAre'
  <1>1. EmptyForm \in [busy : BOOLEAN, mfa : BOOLEAN, wait : BOOLEAN, recovery : BOOLEAN]
    BY DEF EmptyForm
  <1>2. HiddenBar \in [visible : BOOLEAN, dismissed : BOOLEAN]
    BY DEF HiddenBar
  <1>3. ASSUME GoToLogin \/ GoToPage
        PROVE  FormsAre'
    BY <1>1, <1>2, <1>3 DEF FormsAre, GoToLogin, GoToPage
  <1>4. ASSUME NotifyUnauthorized
        PROVE  FormsAre'
    <2>1. CASE auth.mode = "users"
      BY <1>3, <1>4, <2>1 DEF NotifyUnauthorized
    <2>2. CASE auth.mode # "users"
      <3>1. PICK b \in BOOLEAN : b = (bar.visible \/ (path = "page" /\ ~bar.dismissed))
        OBVIOUS
      <3>2. bar' = [bar EXCEPT !.visible = b] /\ UNCHANGED <<path, form>>
        BY <1>4, <2>2, <3>1 DEF NotifyUnauthorized
      <3>3. QED
        BY <3>2 DEF FormsAre
    <2>3. QED
      BY <2>1, <2>2
  <1>5. ASSUME UNCHANGED <<path, form, bar>>
        PROVE  FormsAre'
    BY <1>5 DEF FormsAre
  <1>6. QED
    BY <1>3, <1>4, <1>5

\* A step that changes neither the server nor the session stored, but perhaps
\* by ending it.
LEMMA SessionStays ==
    ASSUME SesTypes, SessionInv', UNCHANGED srv, store'.session \in {store.session, 0},
           FormsAre', Len(net') <= MaxNet
    PROVE  SesTypes'
  <1>1. store'.session \in 0 .. srv.issued
    BY DEF SesTypes, SessionTypeOK
  <1>2. store' \in [session : 0 .. srv.issued, token : {NoToken, RightToken, WrongToken}]
    BY <1>1 DEF SessionInv, Store
  <1>3. auth' \in [mode : {"null", "open", "token", "users"}, user : BOOLEAN, loading : BOOLEAN]
    BY DEF SessionInv, Auth, Modes
  <1>4. Len(net') \in Nat
    BY LenProperties DEF SessionInv
  <1>5. QED
    BY <1>2, <1>3, <1>4, SessionAssumption DEF SesTypes, SessionTypeOK, FormsAre

LEMMA SendFits ==
    ASSUME SessionInv, NEW r, Send(net, r)
    PROVE  Len(net') <= MaxNet
  <1>1. Len(net) \in Nat /\ net' = Append(net, r) /\ Len(net) < MaxNet
    BY LenProperties DEF SessionInv, Send
  <1>2. Len(net') = Len(net) + 1
    BY <1>1 DEF SessionInv
  <1>3. QED
    BY <1>1, <1>2, SessionAssumption

LEMMA OrphanedLen ==
    ASSUME NEW mode \in Modes, NEW q \in Seq(Requests(mode))
    PROVE  Len(Orphaned(q)) = Len(q)
  <1>1. Len(q) \in Nat /\ DOMAIN q = 1 .. Len(q)
    BY LenProperties
  <1>2. Orphaned(q) \in Seq(Requests(mode))
    BY OrphanedKeeps
  <1>3. /\ Len(Orphaned(q)) \in Nat
        /\ DOMAIN Orphaned(q) = 1 .. Len(Orphaned(q))
    BY <1>2, LenProperties
  <1>4. DOMAIN Orphaned(q) = DOMAIN q
    BY DEF Orphaned
  <1>5. ASSUME NEW a \in Nat, NEW b \in Nat, 1 .. a = 1 .. b
        PROVE  a = b
    <2>1. a \in 1 .. a \/ a = 0
      OBVIOUS
    <2>2. b \in 1 .. b \/ b = 0
      OBVIOUS
    <2>3. QED
      BY <1>5, <2>1, <2>2
  <1>6. 1 .. Len(Orphaned(q)) = 1 .. Len(q)
    BY <1>1, <1>3, <1>4
  <1>7. QED
    BY <1>1, <1>3, <1>5, <1>6

LEMMA SessionTypes ==
    ASSUME SessionInv, SesTypes, [SessionNext]_sessionVars
    PROVE  SesTypes'
  <1>1. /\ SessionInv' /\ FormsAre
        /\ Len(net) \in Nat /\ Len(net) <= MaxNet
        /\ srv \in [mode : {"open", "token", "users"}, issued : 0 .. MaxSessions,
                    alive : SUBSET (1 .. MaxSessions)]
        /\ store.session \in 0 .. srv.issued /\ srv.issued \in Nat /\ MaxNet \in Nat
    <2>1. SessionInv'
      BY NextKeepsSession
    <2>2. Len(net) \in Nat
      BY LenProperties DEF SessionInv
    <2>3. QED
      BY <2>1, <2>2, SessionAssumption DEF SesTypes, SessionTypeOK, FormsAre
  <1>2. ASSUME NEW i \in DOMAIN net
        PROVE  /\ Len(RemoveAt(net, i)) \in Nat /\ Len(RemoveAt(net, i)) + 1 <= MaxNet
               /\ Len(RemoveAt(net, i)) <= MaxNet
    <2>1. ASSUME NEW a \in Nat, NEW b \in Nat, b <= MaxNet, a = b - 1
          PROVE  a + 1 <= MaxNet /\ a <= MaxNet
      BY <1>1, <2>1
    <2>2. Len(RemoveAt(net, i)) = Len(net) - 1 /\ Len(RemoveAt(net, i)) \in Nat
      <3>1. RemoveAt(net, i) \in Seq(Requests(srv.mode))
        BY AnsweredKeeps DEF SessionInv
      <3>2. QED
        BY <3>1, NetShrinks, LenProperties
    <2>3. QED
      BY <1>1, <2>1, <2>2
  <1>3. ASSUME UNCHANGED srv, store'.session \in {store.session, 0},
               \/ GoToLogin \/ GoToPage \/ NotifyUnauthorized \/ UNCHANGED <<path, form, bar>>,
               Len(net') <= MaxNet
        PROVE  SesTypes'
    BY <1>1, <1>3, Redirected, SessionStays
  <1>4. CASE PageRequest \/ RefreshAuth
    <2>1. Len(net') <= MaxNet /\ UNCHANGED <<srv, store, path, form, bar>>
      BY <1>4, SendFits DEF PageRequest, RefreshAuth
    <2>2. QED
      BY <1>3, <2>1
  <1>5. CASE SubmitLogin \/ SubmitMFA \/ AutoSubmit
    <2>1. Len(net') <= MaxNet /\ UNCHANGED <<srv, store, path, bar>>
          /\ form' = [form EXCEPT !.busy = TRUE]
      BY <1>5, SendFits DEF SubmitLogin, SubmitMFA, AutoSubmit, Submit
    <2>2. FormsAre'
      BY <1>1, <2>1 DEF FormsAre
    <2>3. QED
      BY <1>1, <2>1, <2>2, SessionStays
  <1>6. CASE ToggleRecovery \/ WaitOver
    <2>1. UNCHANGED <<srv, store, path, bar, net>>
      BY <1>6 DEF ToggleRecovery, WaitOver
    <2>2. FormsAre'
      BY <1>1, <1>6, <2>1 DEF FormsAre, ToggleRecovery, WaitOver
    <2>3. QED
      BY <1>1, <2>1, <2>2, SessionStays
  <1>7. CASE ShellRedirect
    BY <1>1, <1>3, <1>7 DEF ShellRedirect
  <1>8. CASE LoginRedirect
    <2>1. Len(net') = Len(net)
      <3>1. srv.mode \in Modes /\ net \in Seq(Requests(srv.mode))
        BY DEF SessionInv, Server
      <3>2. QED
        BY <1>8, <3>1, OrphanedLen DEF LoginRedirect
    <2>2. QED
      BY <1>1, <1>3, <1>8, <2>1 DEF LoginRedirect
  <1>9. CASE Logout
    <2>1. store'.session = 0
      BY <1>9 DEF Logout, SessionInv, Store
    <2>2. QED
      BY <1>1, <1>3, <1>9, <2>1 DEF Logout
  <1>10. CASE SaveToken(RightToken) \/ SaveToken(WrongToken) \/ DismissBar
    <2>1. UNCHANGED <<srv, path, form, net>> /\ store'.session = store.session
      BY <1>10 DEF SaveToken, DismissBar, SessionInv, Store
    <2>2. FormsAre'
      <3>1. \/ bar' = [bar EXCEPT !.visible = FALSE]
            \/ bar' = [visible |-> FALSE, dismissed |-> TRUE]
        BY <1>10 DEF SaveToken, DismissBar
      <3>2. bar' \in [visible : BOOLEAN, dismissed : BOOLEAN]
        <4>1. bar \in [visible : BOOLEAN, dismissed : BOOLEAN]
          BY <1>1 DEF FormsAre
        <4>2. CASE bar' = [bar EXCEPT !.visible = FALSE]
          BY <4>1, <4>2
        <4>3. CASE bar' = [visible |-> FALSE, dismissed |-> TRUE]
          BY <4>3
        <4>4. QED
          BY <3>1, <4>2, <4>3
      <3>3. QED
        BY <1>1, <2>1, <3>2 DEF FormsAre
    <2>3. QED
      BY <1>1, <2>1, <2>2, SessionStays
  <1>11. CASE Expire \/ BecomesUsers
    <2>1. UNCHANGED <<store, auth, path, form, bar, net>>
      BY <1>11 DEF Expire, BecomesUsers
    <2>2. srv'.issued = srv.issued
          /\ srv' \in [mode : {"open", "token", "users"}, issued : 0 .. MaxSessions,
                       alive : SUBSET (1 .. MaxSessions)]
      <3>1. CASE Expire
        <4>1. PICK s \in srv.alive : srv' = [srv EXCEPT !.alive = @ \ {s}]
          BY <3>1 DEF Expire
        <4>2. QED
          BY <1>1, <4>1
      <3>2. CASE BecomesUsers
        BY <1>1, <3>2 DEF BecomesUsers
      <3>3. QED
        BY <1>11, <3>1, <3>2
    <2>3. QED
      BY <2>1, <2>2 DEF SesTypes, SessionTypeOK
  <1>12. ASSUME NEW i \in DOMAIN net, AnswerPage(i)
         PROVE  SesTypes'
    <2>1. PICK outcome \in Outcomes(net[i]) : FetchFails(outcome)
      BY <1>12 DEF AnswerPage
    <2>2. NotifyUnauthorized \/ UNCHANGED <<path, form, bar>>
      BY <2>1 DEF FetchFails
    <2>3. store'.session \in {store.session, 0}
      BY <2>1 DEF FetchFails, SessionInv, Store
    <2>4. UNCHANGED srv /\ Len(net') <= MaxNet
      BY <1>1, <1>2, <1>12 DEF AnswerPage, Answered
    <2>5. QED
      BY <1>3, <2>2, <2>3, <2>4
  <1>13. ASSUME NEW i \in DOMAIN net, AnswerStatus(i)
         PROVE  SesTypes'
    <2>1. UNCHANGED <<srv, store, path, form, bar>>
      BY <1>13 DEF AnswerStatus
    <2>2. net' = RemoveAt(net, i) \/ net' = Append(RemoveAt(net, i), Request("me"))
      BY <1>13 DEF AnswerStatus, Answered
    <2>3. RemoveAt(net, i) \in Seq(Requests(srv.mode))
      BY AnsweredKeeps DEF SessionInv
    <2>4. Len(Append(RemoveAt(net, i), Request("me"))) = Len(RemoveAt(net, i)) + 1
      BY <2>3
    <2>5. Len(net') <= MaxNet
      BY <1>1, <1>2, <2>2, <2>4
    <2>6. QED
      BY <1>3, <2>1, <2>5
  <1>14. ASSUME NEW i \in DOMAIN net, AnswerMe(i)
         PROVE  SesTypes'
    <2>1. NotifyUnauthorized \/ UNCHANGED <<path, form, bar>>
      BY <1>14 DEF AnswerMe
    <2>2. store'.session \in {store.session, 0}
      BY <1>14 DEF AnswerMe, SessionInv, Store
    <2>3. UNCHANGED srv /\ Len(net') <= MaxNet
      BY <1>1, <1>2, <1>14 DEF AnswerMe, Answered
    <2>4. QED
      BY <1>3, <2>1, <2>2, <2>3
  <1>15. ASSUME NEW i \in DOMAIN net, AnswerLogin(i)
         PROVE  SesTypes'
    <2>1. CASE FinishLogin(i)
      <3>1. /\ srv.issued < MaxSessions /\ store'.session = srv.issued + 1
            /\ srv' = [mode |-> srv.mode, issued |-> srv.issued + 1,
                       alive |-> srv.alive \cup {srv.issued + 1}]
        BY <1>1, <2>1 DEF FinishLogin, SessionInv, Store
      <3>2. srv.issued + 1 \in 1 .. MaxSessions
        BY <1>1, <3>1, SessionAssumption
      <3>3. srv' \in [mode : {"open", "token", "users"}, issued : 0 .. MaxSessions,
                      alive : SUBSET (1 .. MaxSessions)]
        BY <1>1, <3>1, <3>2, SessionAssumption
      <3>4. srv'.issued = srv.issued + 1 /\ store'.session \in 0 .. srv'.issued
        BY <1>1, <3>1
      <3>5. store' \in [session : 0 .. srv'.issued, token : {NoToken, RightToken, WrongToken}]
        BY <1>1, <3>4 DEF SessionInv, Store
      <3>6. auth' \in [mode : {"null", "open", "token", "users"}, user : BOOLEAN, loading : BOOLEAN]
        BY <1>1 DEF SessionInv, Auth, Modes
      <3>7. FormsAre'
        BY <1>1, <2>1 DEF FinishLogin, FormsAre, EmptyForm, HiddenBar
      <3>8. Len(net') = Len(RemoveAt(net, i))
        <4>1. srv.mode \in Modes /\ RemoveAt(net, i) \in Seq(Requests(srv.mode))
          BY AnsweredKeeps DEF SessionInv, Server
        <4>2. QED
          BY <2>1, <4>1, OrphanedLen DEF FinishLogin, Answered
      <3>9. Len(net') <= MaxNet + 1 /\ Len(net') <= MaxNet
        BY <1>1, <1>2, <3>8
      <3>10. QED
        BY <3>3, <3>5, <3>6, <3>7, <3>9 DEF SesTypes, SessionTypeOK, FormsAre
    <2>2. ASSUME NEW f \in {[form EXCEPT !.mfa = TRUE], [form EXCEPT !.wait = TRUE], form},
                 FormAnswer(i, f)
          PROVE  SesTypes'
      <3>1. UNCHANGED <<srv, store, auth, path, bar>> /\ Len(net') <= MaxNet
        BY <1>1, <1>2, <2>2 DEF FormAnswer, Answered
      <3>2. f \in [busy : BOOLEAN, mfa : BOOLEAN, wait : BOOLEAN, recovery : BOOLEAN]
        BY <1>1 DEF FormsAre
      <3>3. form' \in {[f EXCEPT !.busy = FALSE], form}
        BY <2>2 DEF FormAnswer
      <3>4. FormsAre'
        BY <1>1, <3>1, <3>2, <3>3 DEF FormsAre
      <3>5. QED
        BY <1>1, <3>1, <3>4, SessionStays
    <2>3. QED
      BY <1>15, <2>1, <2>2 DEF AnswerLogin
  <1>16. CASE UNCHANGED sessionVars
    BY <1>1, <1>3, <1>16 DEF sessionVars
  <1>17. QED
    BY <1>4, <1>5, <1>6, <1>7, <1>8, <1>9, <1>10, <1>11, <1>12, <1>13, <1>14, <1>15, <1>16
    DEF SessionNext

-----------------------------------------------------------------------------
(* Nobody waits in vain.                                                    *)

Refreshing(q) == \E k \in DOMAIN q : q[k].kind \in {"status", "me"}
Submitted(q) == \E k \in DOMAIN q : q[k].kind \in {"login", "mfa"} /\ q[k].mounted

LEMMA OthersStay ==
    ASSUME NEW S, NEW q \in Seq(S), NEW i \in DOMAIN q, NEW k \in DOMAIN q, k # i
    PROVE  \E l \in DOMAIN RemoveAt(q, i) : RemoveAt(q, i)[l] = q[k]
  <1> DEFINE n == Len(q)
             before == SubSeq(q, 1, i - 1)
             after == SubSeq(q, i + 1, n)
  <1>1. n \in Nat /\ i \in 1 .. n /\ k \in 1 .. n
    BY LenProperties
  <1>2. /\ before \in Seq(S) /\ Len(before) = i - 1
        /\ \A l \in 1 .. i - 1 : before[l] = q[l]
    BY <1>1, SubSeqProperties
  <1>3. /\ after \in Seq(S) /\ Len(after) = n - i
        /\ \A l \in 1 .. n - i : after[l] = q[i + l]
    <2>1. i + 1 \in 1 .. n + 1 /\ n \in i .. n
      BY <1>1
    <2>2. /\ after \in Seq(S) /\ Len(after) = n - i
          /\ \A l \in 1 .. n - i : after[l] = q[(i + 1) + l - 1]
      BY <1>1, <2>1, SubSeqProperties
    <2>3. \A l \in 1 .. n - i : (i + 1) + l - 1 = i + l
      BY <1>1
    <2>4. QED
      BY <2>2, <2>3
  <1> HIDE DEF before, after
  <1>4. RemoveAt(q, i) = before \o after
    BY DEF RemoveAt, before, after
  <1>5. /\ Len(before \o after) = n - 1
        /\ DOMAIN (before \o after) = 1 .. n - 1
        /\ \A l \in 1 .. n - 1 : (before \o after)[l] = IF l <= i - 1 THEN before[l] ELSE after[l - (i - 1)]
    <2>1. /\ before \o after \in Seq(S)
          /\ Len(before \o after) = Len(before) + Len(after)
          /\ \A l \in 1 .. Len(before) + Len(after) : (before \o after)[l] =
                 IF l <= Len(before) THEN before[l] ELSE after[l - Len(before)]
      BY <1>2, <1>3, ConcatProperties
    <2>2. Len(before) + Len(after) = n - 1
      BY <1>1, <1>2, <1>3
    <2>3. DOMAIN (before \o after) = 1 .. Len(before \o after)
      BY <2>1, LenProperties
    <2>4. QED
      BY <1>2, <2>1, <2>2, <2>3
  <1>6. CASE k < i
    <2>1. k \in 1 .. n - 1 /\ k <= i - 1 /\ k \in 1 .. i - 1
      BY <1>1, <1>6
    <2>2. QED
      BY <1>2, <1>4, <1>5, <2>1
  <1>7. CASE k > i
    <2>1. k - 1 \in 1 .. n - 1 /\ ~(k - 1 <= i - 1) /\ (k - 1) - (i - 1) = k - i
          /\ k - i \in 1 .. n - i /\ i + (k - i) = k
      BY <1>1, <1>7
    <2>2. QED
      BY <1>3, <1>4, <1>5, <2>1
  <1>8. QED
    BY <1>1, <1>6, <1>7

LEMMA SentIsThere ==
    ASSUME NEW S, NEW q \in Seq(S), NEW r \in S
    PROVE  /\ Refreshing(q) => Refreshing(Append(q, r))
           /\ Submitted(q) => Submitted(Append(q, r))
           /\ r.kind \in {"status", "me"} => Refreshing(Append(q, r))
           /\ r.kind \in {"login", "mfa"} /\ r.mounted => Submitted(Append(q, r))
  <1>1. /\ Len(q) \in Nat /\ DOMAIN q = 1 .. Len(q)
        /\ DOMAIN Append(q, r) = 1 .. Len(q) + 1
        /\ \A k \in 1 .. Len(q) : Append(q, r)[k] = q[k]
        /\ Append(q, r)[Len(q) + 1] = r
    BY LenProperties, AppendProperties
  <1>2. /\ Len(q) + 1 \in DOMAIN Append(q, r)
        /\ \A k \in DOMAIN q : k \in DOMAIN Append(q, r) /\ Append(q, r)[k] = q[k]
    BY <1>1
  <1>3. QED
    BY <1>1, <1>2 DEF Refreshing, Submitted

LEMMA AnsweredIsGone ==
    ASSUME NEW S, NEW q \in Seq(S), NEW i \in DOMAIN q
    PROVE  /\ Refreshing(q) /\ q[i].kind \notin {"status", "me"} => Refreshing(RemoveAt(q, i))
           /\ Submitted(q) /\ ~(q[i].kind \in {"login", "mfa"} /\ q[i].mounted)
                  => Submitted(RemoveAt(q, i))
  BY OthersStay DEF Refreshing, Submitted

\* The form of another visit, or of none, is not busy.
LEMMA FormStays ==
    ASSUME FormsAre,
           \/ GoToLogin \/ GoToPage \/ NotifyUnauthorized \/ UNCHANGED <<path, form, bar>>
    PROVE  form'.busy => form.busy
  BY DEF GoToLogin, GoToPage, NotifyUnauthorized, EmptyForm

LEMMA NextKeepsWaiting ==
    ASSUME SessionInv, SesTypes, NobodyWaitsInVain, [SessionNext]_sessionVars
    PROVE  NobodyWaitsInVain'
  <1> DEFINE R == Requests(srv.mode)
  <1>1. /\ net \in Seq(R) /\ auth \in Auth /\ FormsAre
        /\ auth.loading => Refreshing(net)
        /\ form.busy => Submitted(net)
    BY DEF SessionInv, SesTypes, SessionTypeOK, FormsAre, NobodyWaitsInVain, Refreshing, Submitted
  <1>2. SUFFICES /\ auth'.loading => Refreshing(net')
                 /\ form'.busy => Submitted(net')
    BY DEF NobodyWaitsInVain, Refreshing, Submitted
  <1>3. /\ \A kind \in {"page", "status", "me", "login", "mfa"} : Request(kind) \in R
        /\ \A kind : Request(kind).kind = kind /\ Request(kind).mounted
    BY RequestIs DEF Request
  <1> HIDE DEF R
  <1>4. CASE PageRequest
    <2>1. net' = Append(net, Request("page")) /\ UNCHANGED <<auth, form>>
      BY <1>4 DEF PageRequest, Send
    <2>2. QED
      BY <1>1, <1>3, <2>1, SentIsThere
  <1>5. CASE RefreshAuth
    <2>1. net' = Append(net, Request("status")) /\ UNCHANGED form
      BY <1>5 DEF RefreshAuth, Send
    <2>2. QED
      BY <1>1, <1>3, <2>1, SentIsThere
  <1>6. CASE SubmitLogin \/ SubmitMFA \/ AutoSubmit
    <2>1. PICK kind \in {"login", "mfa"} : net' = Append(net, Request(kind)) /\ UNCHANGED auth
      BY <1>6 DEF SubmitLogin, SubmitMFA, AutoSubmit, Submit, Send
    <2>2. QED
      BY <1>1, <1>3, <2>1, SentIsThere
  <1>7. CASE Logout \/ ShellRedirect
    <2>1. net' = net /\ auth'.loading = auth.loading /\ GoToLogin
      BY <1>1, <1>7 DEF Logout, ShellRedirect, Auth
    <2>2. QED
      BY <1>1, <2>1, FormStays
  <1>8. CASE LoginRedirect
    <2>1. net' = Orphaned(net) /\ auth' = auth /\ ~form'.busy
      BY <1>8 DEF LoginRedirect, GoToPage, EmptyForm
    <2>2. Refreshing(net) => Refreshing(net')
      BY <2>1 DEF Refreshing, Orphaned
    <2>3. QED
      BY <1>1, <2>1, <2>2
  <1>9. CASE ToggleRecovery \/ WaitOver
    <2>1. /\ UNCHANGED <<auth, net>>
          /\ \/ form' = [form EXCEPT !.recovery = ~@]
             \/ form' = [form EXCEPT !.wait = FALSE]
      BY <1>9 DEF ToggleRecovery, WaitOver
    <2>2. form'.busy = form.busy
      BY <1>1, <2>1 DEF FormsAre
    <2>3. QED
      BY <1>1, <2>1, <2>2
  <1>10. CASE \/ SaveToken(RightToken) \/ SaveToken(WrongToken) \/ DismissBar
              \/ Expire \/ BecomesUsers \/ UNCHANGED sessionVars
    <2>1. UNCHANGED <<auth, form, net>>
      BY <1>10 DEF SaveToken, DismissBar, Expire, BecomesUsers, sessionVars
    <2>2. QED
      BY <1>1, <2>1
  <1>11. ASSUME NEW i \in DOMAIN net, AnswerPage(i)
         PROVE  /\ auth'.loading => Refreshing(net')
                /\ form'.busy => Submitted(net')
    <2>1. net' = RemoveAt(net, i) /\ net[i].kind = "page" /\ UNCHANGED auth
      BY <1>11 DEF AnswerPage, Answered
    <2>2. NotifyUnauthorized \/ UNCHANGED <<path, form, bar>>
      BY <1>11 DEF AnswerPage, FetchFails
    <2>3. form'.busy => form.busy
      BY <1>1, <2>2, FormStays
    <2>4. QED
      BY <1>1, <2>1, <2>3, AnsweredIsGone
  <1>12. ASSUME NEW i \in DOMAIN net, AnswerStatus(i)
         PROVE  /\ auth'.loading => Refreshing(net')
                /\ form'.busy => Submitted(net')
    <2>1. net[i].kind = "status" /\ UNCHANGED form
      BY <1>12 DEF AnswerStatus
    <2>2. RemoveAt(net, i) \in Seq(R)
      BY <1>1, AnsweredKeeps
    <2>3. \/ net' = Append(RemoveAt(net, i), Request("me"))
          \/ net' = RemoveAt(net, i) /\ ~auth'.loading
      BY <1>12 DEF AnswerStatus, Answered, Refreshed
    <2>4. Submitted(net) => Submitted(RemoveAt(net, i))
      BY <1>1, <2>1, AnsweredIsGone
    <2>5. CASE net' = Append(RemoveAt(net, i), Request("me"))
      BY <1>1, <1>3, <2>1, <2>2, <2>4, <2>5, SentIsThere
    <2>6. CASE net' = RemoveAt(net, i) /\ ~auth'.loading
      BY <1>1, <2>1, <2>4, <2>6
    <2>7. QED
      BY <2>3, <2>5, <2>6
  <1>13. ASSUME NEW i \in DOMAIN net, AnswerMe(i)
         PROVE  /\ auth'.loading => Refreshing(net')
                /\ form'.busy => Submitted(net')
    <2>1. net' = RemoveAt(net, i) /\ net[i].kind = "me" /\ ~auth'.loading
      BY <1>13 DEF AnswerMe, Answered, Refreshed
    <2>2. NotifyUnauthorized \/ UNCHANGED <<path, form, bar>>
      BY <1>13 DEF AnswerMe
    <2>3. form'.busy => form.busy
      BY <1>1, <2>2, FormStays
    <2>4. QED
      BY <1>1, <2>1, <2>3, AnsweredIsGone
  <1>14. ASSUME NEW i \in DOMAIN net, AnswerLogin(i)
         PROVE  /\ auth'.loading => Refreshing(net')
                /\ form'.busy => Submitted(net')
    <2>1. net[i].kind \in {"login", "mfa"} /\ RemoveAt(net, i) \in Seq(R)
      BY <1>1, <1>14, AnsweredKeeps DEF AnswerLogin
    <2>2. Refreshing(net) => Refreshing(RemoveAt(net, i))
      BY <1>1, <2>1, AnsweredIsGone
    <2>3. CASE FinishLogin(i)
      <3>1. /\ net' = Orphaned(RemoveAt(net, i)) /\ ~form'.busy
            /\ auth'.loading = auth.loading
        BY <1>1, <2>3 DEF FinishLogin, Answered, EmptyForm, Auth
      <3>2. Refreshing(RemoveAt(net, i)) => Refreshing(net')
        BY <3>1 DEF Refreshing, Orphaned
      <3>3. QED
        BY <1>1, <2>2, <3>1, <3>2
    <2>4. ASSUME NEW f \in {[form EXCEPT !.mfa = TRUE], [form EXCEPT !.wait = TRUE], form},
                 FormAnswer(i, f)
          PROVE  /\ auth'.loading => Refreshing(net')
                 /\ form'.busy => Submitted(net')
      <3>1. net' = RemoveAt(net, i) /\ UNCHANGED auth
        BY <2>4 DEF FormAnswer, Answered
      <3>2. CASE net[i].mounted
        <4>1. form' = [f EXCEPT !.busy = FALSE]
          BY <2>4, <3>2 DEF FormAnswer
        <4>2. f \in [busy : BOOLEAN, mfa : BOOLEAN, wait : BOOLEAN, recovery : BOOLEAN]
          BY <1>1 DEF FormsAre
        <4>3. ~form'.busy
          BY <4>1, <4>2
        <4>4. QED
          BY <1>1, <2>2, <3>1, <4>3
      <3>3. CASE ~net[i].mounted
        <4>1. form' = form
          BY <2>4, <3>3 DEF FormAnswer
        <4>2. Submitted(net) => Submitted(RemoveAt(net, i))
          BY <1>1, <3>3, AnsweredIsGone
        <4>3. QED
          BY <1>1, <2>2, <3>1, <4>1, <4>2
      <3>4. QED
        BY <3>2, <3>3
    <2>5. QED
      BY <1>14, <2>3, <2>4 DEF AnswerLogin
  <1>15. QED
    BY <1>4, <1>5, <1>6, <1>7, <1>8, <1>9, <1>10, <1>11, <1>12, <1>13, <1>14 DEF SessionNext

LEMMA InitWaiting == SessionInit => NobodyWaitsInVain
  <1> SUFFICES ASSUME SessionInit
               PROVE  NobodyWaitsInVain
    OBVIOUS
  <1>1. net = <<Request("status")>> /\ 1 \in DOMAIN net /\ net[1].kind = "status"
    BY DEF SessionInit, Request
  <1>2. ~form.busy
    BY DEF SessionInit, EmptyForm
  <1>3. QED
    BY <1>1, <1>2 DEF NobodyWaitsInVain

\* The types as the app starts: they hold if one request at least is allowed.
LEMMA InitSessionTypes == SessionInit => SesTypes
  <1> SUFFICES ASSUME SessionInit
               PROVE  SesTypes
    OBVIOUS
  <1>1. Len(net) = 1 /\ MaxNet \in Nat /\ 1 <= MaxNet /\ MaxSessions \in Nat /\ 1 <= MaxSessions
    BY SessionAssumption DEF SessionInit
  <1>2. QED
    BY <1>1 DEF SessionInit, SesTypes, SessionTypeOK, EmptyForm, HiddenBar

\* AuthProvider.tsx, refresh; LoginPage.tsx, onSubmit and submitMFA: however many
\* refreshes overlap, answers come late or forms are left and entered again, what
\* waits has an answer under way.
THEOREM WaitingEnds == SessionSpec => []NobodyWaitsInVain
  <1>1. SessionInit => SessionInv /\ SesTypes /\ NobodyWaitsInVain
    BY InitSession, InitSessionTypes, InitWaiting
  <1>2. /\ SessionInv /\ SesTypes /\ NobodyWaitsInVain /\ [SessionNext]_sessionVars
        => SessionInv' /\ SesTypes' /\ NobodyWaitsInVain'
    BY NextKeepsSession, SessionTypes, NextKeepsWaiting
  <1>3. QED
    BY <1>1, <1>2, PTL DEF SessionSpec
=============================================================================

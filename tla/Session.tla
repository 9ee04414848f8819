------------------------------ MODULE Session ------------------------------
(* Who the console believes is signed in (frontend/src/components,          *)
(* lib/api.ts, pages/LoginPage.tsx): the bearer in the browser's storage,   *)
(* the AuthProvider's state, the route, the login form and the token bar,   *)
(* against a server whose sessions expire and whose answers come in any     *)
(* order. One tab. A route is "login" or "page", any page of the AppShell.  *)
EXTENDS Naturals, Sequences, SequencesExt

CONSTANTS MaxSessions,   \* bound: sessions the server issues
          MaxNet         \* bound: requests in flight

ASSUME SessionAssumption == MaxSessions \in Nat \ {0} /\ MaxNet \in Nat \ {0}

VARIABLES srv,     \* the server: its auth mode, the sessions issued and alive
          store,   \* localStorage: session (0: none) and operator token
          auth,    \* AuthProvider: mode, whether a user is set, loading
          path,    \* the route
          form,    \* LoginPage's state
          bar,     \* TokenBar's state
          net      \* requests in flight, in the order they were sent

sessionVars == <<srv, store, auth, path, form, bar, net>>

NoToken == 0
RightToken == 1
WrongToken == 2
NoBearer == <<"none", 0>>

Bearer == IF store.session # 0 THEN <<"session", store.session>>
          ELSE IF store.token # NoToken THEN <<"token", store.token>> ELSE NoBearer

Accepts(b) == \/ srv.mode = "open"
              \/ b = <<"token", RightToken>>
              \/ srv.mode = "users" /\ b[1] = "session" /\ b[2] \in srv.alive

\* A server only refuses what it accepted before, never the reverse.
Request(kind) == [kind |-> kind, bearer |-> Bearer, accepted |-> Accepts(Bearer),
                  mode |-> srv.mode, mounted |-> TRUE]
Send(q, r) == Len(q) < MaxNet /\ net' = Append(q, r)
Answered(i) == RemoveAt(net, i)

EmptyForm == [busy |-> FALSE, mfa |-> FALSE, wait |-> FALSE, recovery |-> FALSE]
HiddenBar == [visible |-> FALSE, dismissed |-> FALSE]

\* Leaving the login page unmounts it: its requests live on without their form.
Orphaned(q) == [i \in DOMAIN q |-> IF q[i].kind \in {"login", "mfa"}
                                   THEN [q[i] EXCEPT !.mounted = FALSE] ELSE q[i]]

\* A route keeps its component when it is entered again; AppShell holds the bar.
GoToLogin == /\ path' = "login"
             /\ form' = IF path = "login" THEN form ELSE EmptyForm
             /\ bar' = HiddenBar
GoToPage == path' = "page" /\ form' = EmptyForm /\ bar' = HiddenBar

-----------------------------------------------------------------------------
\* The listeners: AuthProvider's in users mode, TokenBar's in the others.
NotifyUnauthorized ==
    IF auth.mode = "users" THEN GoToLogin
    ELSE /\ UNCHANGED <<path, form>>
         /\ bar' = [bar EXCEPT !.visible = @ \/ (path = "page" /\ ~bar.dismissed)]

\* What a failed request does to the session, before its caller sees the error.
FetchFails(outcome) ==
    CASE outcome = "unauthorized" /\ Bearer = NoBearer ->
             NotifyUnauthorized /\ UNCHANGED store
      [] outcome = "unauthorized" /\ store.session # 0 ->
             NotifyUnauthorized /\ store' = [store EXCEPT !.session = 0]
      [] OTHER -> UNCHANGED <<store, path, form, bar>>

\* A session that is accepted is answered as one that is not if the store cannot
\* tell its user.
Outcomes(r) == {"network"}
               \cup (IF r.accepted THEN {"ok"} ELSE {})
               \cup (IF r.accepted /\ r.bearer[1] = "session"
                     THEN {"forbidden", "unauthorized"} ELSE {})
               \cup (IF Accepts(r.bearer) THEN {} ELSE {"unauthorized"})

PageRequest == /\ path = "page"
               /\ Send(net, Request("page"))
               /\ UNCHANGED <<srv, store, auth, path, form, bar>>

AnswerPage(i) == \E outcome \in Outcomes(net[i]) :
    /\ net[i].kind = "page"
    /\ FetchFails(outcome)
    /\ net' = Answered(i)
    /\ UNCHANGED <<srv, auth>>

-----------------------------------------------------------------------------
\* AuthProvider.refresh: at the start, after a user is added, on the security page.
RefreshAuth == /\ path = "page"
               /\ Send(net, Request("status"))
               /\ auth' = [auth EXCEPT !.loading = TRUE]
               /\ UNCHANGED <<srv, store, path, form, bar>>

\* Gone wrong: setLoading(false) is skipped with the rest where a call fails.
StillLoading(mode, user) == [mode |-> mode, user |-> user, loading |-> ~user /\ auth.loading]

\* What every way through a refresh ends with.
Refreshed(mode, user) == [mode |-> mode, user |-> user, loading |-> FALSE]

AnswerStatus(i) ==
    /\ net[i].kind = "status"
    /\ \E mode \in {net[i].mode, srv.mode, "failed"} :
           IF mode = "users" /\ store.session # 0
           THEN /\ auth' = [auth EXCEPT !.mode = mode]
                /\ net' = Append(Answered(i), Request("me"))
           ELSE /\ auth' = Refreshed(IF mode = "failed" THEN "open" ELSE mode, FALSE)
                /\ net' = Answered(i)
    /\ UNCHANGED <<srv, store, path, form, bar>>

AnswerMe(i) == \E outcome \in Outcomes(net[i]) \ {"forbidden"} :
    /\ net[i].kind = "me"
    /\ IF outcome = "unauthorized" /\ (Bearer = NoBearer \/ store.session # 0)
       THEN NotifyUnauthorized ELSE UNCHANGED <<path, form, bar>>
    /\ store' = IF outcome = "ok" THEN store ELSE [store EXCEPT !.session = 0]
    /\ auth' = Refreshed(auth.mode, outcome = "ok")
    /\ net' = Answered(i)
    /\ UNCHANGED srv

Logout == /\ path = "page" /\ auth.user
          /\ store' = [store EXCEPT !.session = 0]
          /\ auth' = [auth EXCEPT !.user = FALSE]
          /\ GoToLogin
          /\ UNCHANGED <<srv, net>>

\* Gone wrong: AppShell asks for a bearer where it should ask for a user.
ShellTrustsBearer == /\ path = "page" /\ auth.mode = "users"
                     /\ ~auth.loading /\ Bearer = NoBearer
                     /\ GoToLogin
                     /\ UNCHANGED <<srv, store, auth, net>>

\* AppShell's effect.
ShellRedirect == /\ path = "page" /\ auth.mode = "users"
                 /\ ~auth.loading /\ ~auth.user
                 /\ GoToLogin
                 /\ UNCHANGED <<srv, store, auth, net>>

-----------------------------------------------------------------------------
\* LoginPage's effect: nobody has to sign in, or someone already is.
LoginRedirect == /\ path = "login"
                 /\ auth.mode \in {"open", "token"} \/ (auth.mode = "users" /\ auth.user)
                 /\ GoToPage
                 /\ net' = Orphaned(net)
                 /\ UNCHANGED <<srv, store, auth>>

Submit(kind) == /\ Send(net, Request(kind))
                /\ form' = [form EXCEPT !.busy = TRUE]
                /\ UNCHANGED <<srv, store, auth, path, bar>>

SubmitLogin == path = "login" /\ ~form.mfa /\ ~form.busy /\ ~form.wait /\ Submit("login")
SubmitMFA == path = "login" /\ form.mfa /\ ~form.busy /\ ~form.wait /\ Submit("mfa")

\* The sixth digit submits, whatever is in flight.
AutoSubmit == path = "login" /\ form.mfa /\ ~form.recovery /\ Submit("mfa")

ToggleRecovery == /\ path = "login" /\ form.mfa
                  /\ form' = [form EXCEPT !.recovery = ~@]
                  /\ UNCHANGED <<srv, store, auth, path, bar, net>>

WaitOver == /\ form.wait
            /\ form' = [form EXCEPT !.wait = FALSE]
            /\ UNCHANGED <<srv, store, auth, path, bar, net>>

\* A login that succeeds is honoured wherever the user is by now.
FinishLogin(i) == /\ srv.issued < MaxSessions
                  /\ srv' = [srv EXCEPT !.issued = @ + 1, !.alive = @ \cup {srv.issued + 1}]
                  /\ store' = [store EXCEPT !.session = srv.issued + 1]
                  /\ auth' = [auth EXCEPT !.user = TRUE, !.mode = "users"]
                  /\ path' = "page" /\ form' = EmptyForm
                  /\ bar' = IF path = "page" THEN bar ELSE HiddenBar
                  /\ net' = Orphaned(Answered(i))

FormAnswer(i, f) == /\ form' = IF net[i].mounted THEN [f EXCEPT !.busy = FALSE] ELSE form
                    /\ net' = Answered(i)
                    /\ UNCHANGED <<srv, store, auth, path, bar>>

AnswerLogin(i) ==
    /\ net[i].kind \in {"login", "mfa"}
    /\ \/ net[i].mode = "users" /\ FinishLogin(i)
       \/ net[i].kind = "login" /\ FormAnswer(i, [form EXCEPT !.mfa = TRUE])
       \/ FormAnswer(i, [form EXCEPT !.wait = TRUE])
       \/ FormAnswer(i, form)

-----------------------------------------------------------------------------
\* TokenBar. Saving a token mounts the page again, which loads.
SaveToken(tok) == /\ path = "page" /\ auth.mode # "users" /\ bar.visible
                  /\ store' = [store EXCEPT !.token = tok]
                  /\ bar' = [bar EXCEPT !.visible = FALSE]
                  /\ UNCHANGED <<srv, auth, path, form, net>>

DismissBar == /\ path = "page" /\ auth.mode # "users" /\ bar.visible
              /\ bar' = [visible |-> FALSE, dismissed |-> TRUE]
              /\ UNCHANGED <<srv, store, auth, path, form, net>>

\* The server: a session runs out or its user is removed; the first user is added.
Expire == /\ \E s \in srv.alive : srv' = [srv EXCEPT !.alive = @ \ {s}]
          /\ UNCHANGED <<store, auth, path, form, bar, net>>

BecomesUsers == /\ srv.mode # "users"
                /\ srv' = [srv EXCEPT !.mode = "users"]
                /\ UNCHANGED <<store, auth, path, form, bar, net>>

\* The app starts on some route, perhaps with a session from an earlier visit.
SessionInit ==
    /\ \E mode \in {"open", "token", "users"}, s \in {0, 1} :
           /\ s = 1 => mode = "users"
           /\ srv = [mode |-> mode, issued |-> s, alive |-> 1 .. s]
           /\ store = [session |-> s, token |-> NoToken]
    /\ auth = [mode |-> "null", user |-> FALSE, loading |-> TRUE]
    /\ path \in {"page", "login"}
    /\ form = EmptyForm
    /\ bar = HiddenBar
    /\ net = <<Request("status")>>

SessionNext ==
    \/ PageRequest \/ RefreshAuth
    \/ \E i \in DOMAIN net : AnswerPage(i) \/ AnswerStatus(i) \/ AnswerMe(i) \/ AnswerLogin(i)
    \/ Logout \/ ShellRedirect \/ LoginRedirect
    \/ SubmitLogin \/ SubmitMFA \/ AutoSubmit \/ ToggleRecovery \/ WaitOver
    \/ SaveToken(RightToken) \/ SaveToken(WrongToken) \/ DismissBar
    \/ Expire \/ BecomesUsers

SessionSpec == SessionInit /\ [][SessionNext]_sessionVars

SessionTypeOK ==
    /\ srv \in [mode : {"open", "token", "users"}, issued : 0 .. MaxSessions,
                alive : SUBSET (1 .. MaxSessions)]
    /\ store \in [session : 0 .. srv.issued, token : {NoToken, RightToken, WrongToken}]
    /\ auth \in [mode : {"null", "open", "token", "users"}, user : BOOLEAN, loading : BOOLEAN]
    /\ path \in {"page", "login"}
    /\ form \in [busy : BOOLEAN, mfa : BOOLEAN, wait : BOOLEAN, recovery : BOOLEAN]
    /\ bar \in [visible : BOOLEAN, dismissed : BOOLEAN]
    /\ Len(net) <= MaxNet + 1

\* While AuthProvider is loading, AppShell redirects nobody: a refresh is then under
\* way, however many overlapped. A login form that is busy awaits an answer of its own,
\* not one of a form that was left.
NobodyWaitsInVain ==
    /\ auth.loading => \E i \in DOMAIN net : net[i].kind \in {"status", "me"}
    /\ form.busy => \E i \in DOMAIN net : net[i].kind \in {"login", "mfa"} /\ net[i].mounted

\* Where users sign in, a page nobody is signed in on gives way to the login,
\* whatever answers are late.
AnonymousIsSentToLogin ==
    (auth.mode = "users" /\ ~auth.user /\ path = "page")
        ~> (path = "login" \/ auth.user \/ auth.mode # "users")

\* api.ts: "Session expired / revoked - clear and notify so AuthGate can
\* redirect." Once at the login, only a bearer leads back to a page.
RedirectHolds ==
    [][path = "login" /\ path' = "page" /\ auth'.mode = "users" => Bearer' # NoBearer]_sessionVars
=============================================================================

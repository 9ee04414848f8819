------------------------------ MODULE Security ------------------------------
(* pages/SecurityPage.tsx: setting up, confirming and removing the second   *)
(* factor. The server tells the recovery codes once, in its answer to the   *)
(* confirmation. The same user may do all of this in another browser.       *)
EXTENDS Naturals, FiniteSets

CONSTANTS SecMaxSecrets,  \* bound: secrets the server makes
          SecMaxSends     \* bound: requests

ASSUME SecurityAssumption == {SecMaxSecrets, SecMaxSends} \subseteq Nat \ {0}

VARIABLES secServer,  \* secret (0: none), confirmed or not, secrets so far
          secView,    \* the page: setup's secret, recovery codes, remove dialog, busy
          secUser,    \* AuthProvider: the user's second factor, or nobody; or mode open
          secReqs,    \* requests not answered
          secSent,    \* requests so far
          secTold,    \* history: the codes the user was told of and has not put away
          secLost,    \* history: AppShell took the page away since
          secStale    \* history: why secUser may be stale

secVars == <<secServer, secView, secUser, secReqs, secSent, secTold, secLost, secStale>>

NoCodes == 0
EmptySecView == [setup |-> 0, recovery |-> NoCodes, removing |-> FALSE, busy |-> FALSE]
\* With nobody signed in the page is an ErrorState.
SecShown == IF secUser = "nobody" THEN EmptySecView ELSE secView
SecStatus(server) == IF server.on THEN "on" ELSE "off"

SecSend(reqs, kind, secret) ==
    /\ secSent < SecMaxSends /\ secSent' = secSent + 1
    /\ secReqs' = reqs \cup {[n |-> secSent + 1, kind |-> kind, secret |-> secret,
                              since |-> SecStatus(secServer'), dirty |-> FALSE]}
SecOthers(r) == secReqs \ {r}
SecOutdated(reqs) == {[r EXCEPT !.dirty = TRUE] : r \in reqs}

-----------------------------------------------------------------------------
\* auth.refresh: on mounting, after a change, and from the ErrorState.
RefreshAgain == /\ secUser = "nobody"
                /\ UNCHANGED secServer /\ SecSend(SecOutdated(secReqs), "refresh", 0)
                /\ UNCHANGED <<secView, secUser, secTold, secLost, secStale>>

\* Gone wrong: the page is mounted again while AuthProvider is loading.
MountedAgain(r) == EmptySecView

\* What is left of the page after a refresh: all of it.
ViewAfterRefresh(r) == [secView EXCEPT !.busy = @ /\ r.kind # "after"]

\* /me fails, and the session with it: nobody. /status fails: mode "open", no user.
SecRefreshed(r) == /\ r.kind \in {"refresh", "after"} /\ secReqs' = SecOthers(r)
                   /\ secUser' \in {r.since, SecStatus(secServer), "nobody", "open"}
                   /\ secView' = ViewAfterRefresh(r)
                   /\ secStale' = r.dirty
                   /\ UNCHANGED <<secServer, secSent, secTold, secLost>>

\* The user goes to another page; coming back starts anew. AuthProvider stays; what
\* the server still does of the other requests is as if done elsewhere.
Refreshes == {[r EXCEPT !.kind = "refresh"] : r \in {s \in secReqs : s.kind \in {"refresh", "after"}}}
LeaveSecurity == /\ secUser # "nobody"
                 /\ UNCHANGED secServer
                 /\ SecSend(SecOutdated(Refreshes), "refresh", 0)
                 /\ secView' = EmptySecView /\ secTold' = NoCodes
                 /\ UNCHANGED <<secUser, secLost, secStale>>

\* The user is sent to the login, signs in and returns.
TakenAway == /\ UNCHANGED <<secServer, secTold>>
             /\ SecSend(SecOutdated(Refreshes), "refresh", 0)
             /\ secView' = EmptySecView /\ secLost' = TRUE

\* By AppShell, as nobody is signed in.
SentToLogin == /\ secUser = "nobody" /\ TakenAway
               /\ secUser' = SecStatus(secServer) /\ secStale' = FALSE

\* By the answer to another request, as the session has ended.
SecUnauthorized(r) == /\ r.kind \in {"setup", "confirm", "remove"} /\ TakenAway
                      /\ UNCHANGED <<secUser, secStale>>

-----------------------------------------------------------------------------
StartSetup == /\ secUser \in {"off", "open"} /\ ~secView.busy /\ secView.setup = 0
              /\ UNCHANGED secServer /\ SecSend(secReqs, "setup", 0)
              /\ secView' = [secView EXCEPT !.busy = TRUE, !.recovery = NoCodes]
              /\ secTold' = NoCodes
              /\ UNCHANGED <<secUser, secLost, secStale>>

\* A new secret takes the place of the old, confirmed or not.
NewSecret == /\ secServer.made < SecMaxSecrets
             /\ secServer' = [secret |-> secServer.made + 1, on |-> FALSE,
                              made |-> secServer.made + 1]
SetUp(r) == /\ r.kind = "setup" /\ secReqs' = SecOutdated(SecOthers(r))
            /\ NewSecret
            /\ secView' = [secView EXCEPT !.setup = secServer'.secret, !.busy = FALSE]
            /\ secStale' = TRUE
            /\ UNCHANGED <<secUser, secSent, secTold, secLost>>

CloseDialogs == /\ secUser # "nobody"
                /\ secView' = [secView EXCEPT !.setup = 0, !.removing = FALSE]
                /\ UNCHANGED <<secServer, secUser, secReqs, secSent, secTold, secLost, secStale>>

ConfirmSetup == /\ SecShown.setup # 0 /\ ~secView.busy
                /\ UNCHANGED secServer /\ SecSend(secReqs, "confirm", secView.setup)
                /\ secView' = [secView EXCEPT !.busy = TRUE]
                /\ UNCHANGED <<secUser, secTold, secLost, secStale>>

\* The codes of a secret confirmed for the first time, or an empty list.
ConfirmAnswers(r) == IF secServer.on THEN NoCodes ELSE r.secret
Confirmable(r) == secServer.on \/ r.secret = secServer.secret

Confirmed(r) ==
    /\ r.kind = "confirm" /\ Confirmable(r)
    /\ secServer' = [secServer EXCEPT !.on = TRUE]
    /\ secView' = [secView EXCEPT !.recovery = ConfirmAnswers(r), !.setup = 0]
    /\ secTold' = ConfirmAnswers(r) /\ secLost' = FALSE
    /\ SecSend(SecOutdated(SecOthers(r)), "after", 0)
    /\ secStale' = TRUE
    /\ UNCHANGED secUser

AskRemove == /\ secUser = "on" /\ secView.setup = 0
             /\ secView' = [secView EXCEPT !.removing = TRUE]
             /\ UNCHANGED <<secServer, secUser, secReqs, secSent, secTold, secLost, secStale>>

RemoveFactor == /\ SecShown.removing /\ ~secView.busy
                /\ UNCHANGED secServer /\ SecSend(secReqs, "remove", 0)
                /\ secView' = [secView EXCEPT !.busy = TRUE]
                /\ UNCHANGED <<secUser, secTold, secLost, secStale>>

FactorRemoved(r) ==
    /\ r.kind = "remove"
    /\ secServer' = [secServer EXCEPT !.secret = 0, !.on = FALSE]
    /\ secView' = [secView EXCEPT !.removing = FALSE, !.recovery = NoCodes]
    /\ secTold' = NoCodes
    /\ SecSend(SecOutdated(SecOthers(r)), "after", 0)
    /\ secStale' = TRUE
    /\ UNCHANGED <<secUser, secLost>>

\* A wrong code, a refusal, or no answer to what was done or not: a message.
SecFails(r) ==
    /\ r.kind \in {"setup", "confirm", "remove"}
    /\ \/ UNCHANGED secServer /\ secReqs' = SecOthers(r) /\ UNCHANGED secStale
       \/ /\ CASE r.kind = "setup" -> NewSecret
               [] r.kind = "confirm" -> Confirmable(r) /\ secServer' = [secServer EXCEPT !.on = TRUE]
               [] OTHER -> secServer' = [secServer EXCEPT !.secret = 0, !.on = FALSE]
          /\ secReqs' = SecOutdated(SecOthers(r)) /\ secStale' = TRUE
    /\ secView' = [secView EXCEPT !.busy = FALSE]
    /\ UNCHANGED <<secUser, secSent, secTold, secLost>>

Elsewhere == /\ \/ NewSecret
                \/ secServer.secret # 0 /\ secServer' = [secServer EXCEPT !.on = TRUE]
                \/ secServer.secret # 0 /\ secServer' = [secServer EXCEPT !.secret = 0, !.on = FALSE]
             /\ secReqs' = SecOutdated(secReqs) /\ secStale' = TRUE
             /\ UNCHANGED <<secView, secUser, secSent, secTold, secLost>>

SecurityInit ==
    /\ secServer = [secret |-> 0, on |-> FALSE, made |-> 0]
    /\ secView = EmptySecView
    /\ secUser = "off"
    /\ secReqs = {[n |-> 1, kind |-> "refresh", secret |-> 0, since |-> "off", dirty |-> FALSE]}
    /\ secSent = 1 /\ secTold = NoCodes /\ secLost = FALSE /\ secStale = FALSE

SecurityNext ==
    \/ RefreshAgain \/ LeaveSecurity \/ SentToLogin \/ StartSetup \/ CloseDialogs \/ ConfirmSetup
    \/ AskRemove \/ RemoveFactor \/ Elsewhere
    \/ \E r \in secReqs : \/ SecRefreshed(r) \/ SetUp(r) \/ Confirmed(r)
                          \/ FactorRemoved(r) \/ SecFails(r) \/ SecUnauthorized(r)

SecuritySpec == SecurityInit /\ [][SecurityNext]_secVars

SecurityTypeOK ==
    /\ secServer \in [secret : 0 .. SecMaxSecrets, on : BOOLEAN, made : 0 .. SecMaxSecrets]
    /\ secView \in [setup : 0 .. SecMaxSecrets, recovery : 0 .. SecMaxSecrets,
                    removing : BOOLEAN, busy : BOOLEAN]
    /\ secUser \in {"on", "off", "nobody", "open"}
    /\ secSent \in 1 .. SecMaxSends
    /\ secTold \in 0 .. SecMaxSecrets /\ secLost \in BOOLEAN

\* Recovery codes the user was told stay on the page, whatever is answered late,
\* until another setup is started, the factor is removed or the page is left; but not
\* once the session has ended: while nobody is signed in the page is an ErrorState,
\* and the way to the login and back leaves an empty one.
CodesShown == secTold # NoCodes => \/ SecShown.recovery = secTold
                                   \/ secUser = "nobody" \/ secLost

\* At rest the page knows whether there is a second factor, unless AuthProvider has
\* no user, or it was changed elsewhere, or by a request whose answer is lost.
SecurityFresh == secReqs = {} /\ secUser \in {"on", "off"} /\ ~secStale
                    => secUser = SecStatus(secServer)
=============================================================================

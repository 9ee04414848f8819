------------------------------ MODULE License ------------------------------
(* pages/LicensePage.tsx: the license, the companies and the API keys, read *)
(* together after every change but a new license, which brings itself. The  *)
(* server's three tables are versions that grow; answers come in any order. *)
EXTENDS Roles

CONSTANTS LicMaxSends,   \* bound: requests
          LicMaxChanges  \* bound: changes of each table

ASSUME LicenseAssumption == {LicMaxSends, LicMaxChanges} \subseteq Nat \ {0}

VARIABLES licServer,  \* versions of the license (odd: there is one), companies, keys
          licShown,   \* the versions the page shows
          licPage,    \* loading, error, saving, the plaintext of a new key (0: none)
          licReqs,    \* requests not answered
          licSent,    \* requests so far
          licUnseen,  \* history: keys the page was told of and has not shown
          licDoubt    \* history: why the page may be stale, or keys may be lost

licVars == <<licServer, licShown, licPage, licReqs, licSent, licUnseen, licDoubt>>

Tables == {"license", "companies", "keys"}
TableOf(kind) == CASE kind \in {"paste", "remove"} -> "license"
                   [] kind \in {"company", "default"} -> "companies"
                   [] OTHER -> "keys"
HasLicense(v) == v % 2 = 1

\* The page's body is there, with the buttons on it.
LicVisible(page) == ~page.loading /\ ~page.error

\* A key counts as shown once the body with its plaintext is.
SetLicPage(page, told) ==
    /\ licPage' = page
    /\ licUnseen' = (licUnseen \cup told) \ (IF LicVisible(page) THEN {page.plain} ELSE {})

LicRequest(kind, server) == [n |-> licSent + 1, kind |-> kind, since |-> server, dirty |-> FALSE]
LicOthers(r) == licReqs \ {r}

\* History: a request in flight may answer with less than the page knows.
Outdated(reqs) == {[s EXCEPT !.dirty = TRUE] : s \in reqs}

\* load(), called with the other requests still in flight.
LoadLicense(server, reqs, page, told) ==
    /\ licSent < LicMaxSends /\ licSent' = licSent + 1
    /\ licReqs' = Outdated(reqs) \cup {LicRequest("load", server)}
    /\ SetLicPage([page EXCEPT !.loading = TRUE, !.error = FALSE], told)

\* Three answers, each of some moment since it was asked for.
AnswerLicLoad(r) ==
    /\ r.kind = "load" /\ licReqs' = LicOthers(r)
    /\ licShown' \in {v \in [Tables -> 0 .. LicMaxChanges + 1] :
                         \A t \in Tables : r.since[t] <= v[t] /\ v[t] <= licServer[t]}
    /\ SetLicPage([licPage EXCEPT !.loading = FALSE], {})
    /\ licDoubt' = [licDoubt EXCEPT !.stale = r.dirty]
    /\ UNCHANGED <<licServer, licSent>>

LicLoadFails(r) == /\ r.kind = "load" /\ licReqs' = LicOthers(r)
                   /\ SetLicPage([licPage EXCEPT !.loading = FALSE, !.error = TRUE], {})
                   /\ licDoubt' = [licDoubt EXCEPT !.stale = TRUE]
                   /\ UNCHANGED <<licServer, licShown, licSent>>

RetryLicense == /\ licPage.error
                /\ LoadLicense(licServer, licReqs, licPage, {})
                /\ UNCHANGED <<licServer, licShown, licDoubt>>

\* Which buttons are there, and which are not disabled.
CanClick(kind) ==
    /\ LicVisible(licPage)
    /\ IF kind \in {"company", "default"} THEN CanWrite ELSE CanAdmin
    /\ kind = "paste" => ~licPage.saving
    /\ kind = "remove" => HasLicense(licShown.license)
    /\ kind \in {"toggle", "delete"} => licShown.keys > 0

\* Creating a key puts the last one's plaintext away.
ClickLicense(kind) ==
    /\ CanClick(kind) /\ licSent < LicMaxSends
    /\ licSent' = licSent + 1
    /\ licReqs' = licReqs \cup {LicRequest(kind, licServer)}
    /\ licPage' = CASE kind = "paste" -> [licPage EXCEPT !.saving = TRUE]
                    [] kind = "create" -> [licPage EXCEPT !.plain = 0]
                    [] OTHER -> licPage
    /\ licDoubt' = [licDoubt EXCEPT !.lost = @ \/ (kind = "create"
                                                  /\ \E s \in licReqs : s.kind = "create")]
    /\ UNCHANGED <<licServer, licShown, licUnseen>>

NextVersion(kind, v) == IF kind \in {"paste", "remove"} /\ HasLicense(v) = (kind = "paste")
                        THEN v + 2 ELSE v + 1

ServerAfter(kind) == [licServer EXCEPT ![TableOf(kind)] = NextVersion(kind, @)]
CanChange(kind) == ServerAfter(kind)[TableOf(kind)] <= LicMaxChanges

\* Gone wrong: enabling or disabling a key brings no reload.
ReloadsButToggle(kind) == kind \notin {"paste", "toggle"}

\* Whether the page reads everything again after a change, and what it shows of it.
Reloads(kind) == kind # "paste"
\* Gone wrong: any other change puts the new key's plaintext away.
AfterAnyChange(kind) == [licPage EXCEPT !.plain = IF kind = "create" THEN ServerAfter(kind).keys
                                                  ELSE 0]

AfterChange(kind) == IF kind = "create" THEN [licPage EXCEPT !.plain = ServerAfter(kind).keys]
                     ELSE licPage

LicChanged(r) ==
    /\ r.kind # "load" /\ CanChange(r.kind)
    /\ licServer' = ServerAfter(r.kind)
    /\ IF Reloads(r.kind)
       THEN /\ LoadLicense(ServerAfter(r.kind), LicOthers(r), AfterChange(r.kind),
                           IF r.kind = "create" THEN {ServerAfter(r.kind).keys} ELSE {})
            /\ UNCHANGED <<licShown, licDoubt>>
       ELSE /\ licShown' = [licShown EXCEPT !.license = ServerAfter(r.kind).license]
            /\ licPage' = [licPage EXCEPT !.saving = FALSE]
            /\ licReqs' = Outdated(LicOthers(r))
            /\ UNCHANGED <<licSent, licUnseen, licDoubt>>

\* Refused, by the plan's limits for one, or its answer lost: a message, no reload.
LicNotChanged(r) == \E stored \in BOOLEAN :
    /\ r.kind # "load"
    /\ stored => CanChange(r.kind)
    /\ licServer' = IF stored THEN ServerAfter(r.kind) ELSE licServer
    /\ licPage' = IF r.kind = "paste" THEN [licPage EXCEPT !.saving = FALSE] ELSE licPage
    /\ licReqs' = IF stored THEN Outdated(LicOthers(r)) ELSE LicOthers(r)
    /\ licDoubt' = [licDoubt EXCEPT !.stale = @ \/ stored]
    /\ UNCHANGED <<licShown, licSent, licUnseen>>

LicenseInit ==
    /\ licServer = [t \in Tables |-> 0]
    /\ licShown = [t \in Tables |-> 0]
    /\ licPage = [loading |-> TRUE, error |-> FALSE, saving |-> FALSE, plain |-> 0]
    /\ licReqs = {[n |-> 1, kind |-> "load", since |-> [t \in Tables |-> 0], dirty |-> FALSE]}
    /\ licSent = 1
    /\ licUnseen = {}
    /\ licDoubt = [stale |-> FALSE, lost |-> FALSE]

LicKinds == {"paste", "remove", "company", "default", "create", "toggle", "delete"}

LicenseNext ==
    \/ RetryLicense
    \/ \E kind \in LicKinds : ClickLicense(kind)
    \/ \E r \in licReqs : AnswerLicLoad(r) \/ LicLoadFails(r) \/ LicChanged(r) \/ LicNotChanged(r)

LicenseSpec == LicenseInit /\ [][LicenseNext]_licVars

LicenseTypeOK ==
    /\ licServer \in [Tables -> 0 .. LicMaxChanges] /\ licShown \in [Tables -> 0 .. LicMaxChanges]
    /\ licPage \in [loading : BOOLEAN, error : BOOLEAN, saving : BOOLEAN, plain : 0 .. LicMaxChanges]
    /\ licSent \in 1 .. LicMaxSends
    /\ licDoubt \in [stale : BOOLEAN, lost : BOOLEAN]

\* A new key's plaintext, which the server tells once, is kept until the page
\* has shown it, also over a reload that fails, unless two keys were created at once.
KeyIsSeen == licDoubt.lost \/ licUnseen \subseteq {licPage.plain}

\* At rest the page shows what the server has, unless a load failed or was
\* overtaken, or a change was made whose answer was lost.
LicenseFresh == licReqs = {} /\ ~licPage.error /\ ~licDoubt.stale => licShown = licServer
=============================================================================

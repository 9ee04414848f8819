---------------------------- MODULE PeppolPages ----------------------------
(* pages/PeppolSettingsPage.tsx and pages/PeppolLedgerPage.tsx: two pages   *)
(* that each show two answers of the server, read at once and set together. *)
(* What the server has of each is a version that grows.                     *)
EXTENDS Roles, FiniteSetsExt

CONSTANTS PpMaxSends,   \* bound: requests
          PpMaxVersion  \* bound: changes on the server, of each half

ASSUME PeppolPagesAssumption == {PpMaxSends, PpMaxVersion} \subseteq Nat \ {0}

VARIABLES ppServer,  \* versions of the two halves: status and participants, or in and out
          ppShown,   \* the versions the page shows
          ppPage,    \* loading, error ("plan": the plan has no Peppol)
          ppReqs,    \* requests not answered
          ppSent,    \* requests so far
          ppStale,   \* history: an older load was answered last, or one failed
          ppAtLeast  \* history: the versions the page must have reached

ppLoadVars == <<ppServer, ppShown, ppPage, ppReqs, ppSent, ppStale, ppAtLeast>>

VARIABLES ppSelf,     \* the settings' form: the id typed, saving, pinging
          ppEvidence  \* the evidence of a message in the ledger: open, shown, failed

ppVars == <<ppLoadVars, ppSelf, ppEvidence>>

Halves == {1, 2}
PpOthers(r) == ppReqs \ {r}
PpSend(reqs, kind, id) ==
    /\ ppSent < PpMaxSends /\ ppSent' = ppSent + 1
    /\ ppReqs' = reqs \cup {[n |-> ppSent + 1, kind |-> kind, since |-> ppServer', id |-> id]}

\* A load that is sent must in the end show what the server has by now.
LoadPeppol(reqs) == /\ PpSend(reqs, "load", "")
                    /\ ppPage' = [loading |-> TRUE, error |-> "none"]
                    /\ ppAtLeast' = ppServer' /\ ppStale' = FALSE

PeppolVersions(r) == {v \in [Halves -> 0 .. PpMaxVersion] :
                         \A h \in Halves : r.since[h] <= v[h] /\ v[h] <= ppServer[h]}

NewestLoad(r) == \A s \in ppReqs : s.kind = "load" => s.n <= r.n
Overtaken(r) == ~NewestLoad(r) \/ \E h \in Halves : r.since[h] < ppAtLeast[h]

\* Promise.all: both halves are set, and the id typed is replaced by the stored one.
PeppolLoaded(r) == /\ r.kind = "load" /\ ppReqs' = PpOthers(r)
                   /\ ppShown' \in PeppolVersions(r)
                   /\ ppPage' = [ppPage EXCEPT !.loading = FALSE]
                   /\ ppSelf' = [ppSelf EXCEPT !.id = "stored"]
                   /\ ppStale' = (ppStale \/ Overtaken(r))
                   /\ UNCHANGED <<ppServer, ppSent, ppAtLeast, ppEvidence>>

ClosedEvidence == [open |-> FALSE, shown |-> FALSE, failed |-> FALSE]
Unmounted(reqs) == {r \in reqs : r.kind # "message"}

\* Either half failed; a message takes the place of the tables.
PeppolNotLoaded(r) == /\ r.kind = "load" /\ ppReqs' = Unmounted(PpOthers(r))
                      /\ \E e \in {"plan", "other"} : ppPage' = [loading |-> FALSE, error |-> e]
                      /\ ppStale' = TRUE /\ ppEvidence' = ClosedEvidence
                      /\ UNCHANGED <<ppServer, ppShown, ppSent, ppAtLeast, ppSelf>>

PeppolChanges == \E h \in Halves :
    /\ ppServer[h] < PpMaxVersion
    /\ ppServer' = [ppServer EXCEPT ![h] = @ + 1]
    /\ UNCHANGED <<ppShown, ppPage, ppReqs, ppSent, ppStale, ppAtLeast, ppSelf, ppEvidence>>

-----------------------------------------------------------------------------
\* The settings. The body stays while they are loaded again.
SettingsShown == ppPage.error = "none" /\ (~ppPage.loading \/ ppShown # [h \in Halves |-> 0])

RetrySettings == /\ ppPage.error = "other"
                 /\ UNCHANGED ppServer /\ LoadPeppol(ppReqs)
                 /\ UNCHANGED <<ppShown, ppSelf, ppEvidence>>

TypeSelf == /\ SettingsShown /\ CanWrite
            /\ ppSelf' = [ppSelf EXCEPT !.id = "typed"]
            /\ UNCHANGED <<ppLoadVars, ppEvidence>>

SaveSelf == /\ SettingsShown /\ CanWrite /\ ~ppSelf.saving
            /\ UNCHANGED ppServer /\ PpSend(ppReqs, "save", ppSelf.id)
            /\ ppSelf' = [ppSelf EXCEPT !.saving = TRUE]
            /\ UNCHANGED <<ppShown, ppPage, ppStale, ppAtLeast, ppEvidence>>

\* Both the status and the list of participants have a new self.
SelfSaved(r) == /\ r.kind = "save" /\ \A h \in Halves : ppServer[h] < PpMaxVersion
                /\ ppServer' = [h \in Halves |-> ppServer[h] + 1]
                /\ LoadPeppol(PpOthers(r))
                /\ ppSelf' = [ppSelf EXCEPT !.saving = FALSE]
                /\ UNCHANGED <<ppShown, ppEvidence>>

SelfNotSaved(r) == /\ r.kind = "save" /\ ppReqs' = PpOthers(r)
                   /\ ppSelf' = [ppSelf EXCEPT !.saving = FALSE]
                   /\ UNCHANGED <<ppServer, ppShown, ppPage, ppSent, ppStale, ppAtLeast, ppEvidence>>

TestConnection == /\ SettingsShown /\ CanWrite /\ ~ppSelf.pinging
                  /\ UNCHANGED ppServer /\ PpSend(ppReqs, "ping", "")
                  /\ ppSelf' = [ppSelf EXCEPT !.pinging = TRUE]
                  /\ UNCHANGED <<ppShown, ppPage, ppStale, ppAtLeast, ppEvidence>>

Pinged(r) == /\ r.kind = "ping" /\ ppReqs' = PpOthers(r)
             /\ ppSelf' = [ppSelf EXCEPT !.pinging = FALSE]
             /\ UNCHANGED <<ppServer, ppShown, ppPage, ppSent, ppStale, ppAtLeast, ppEvidence>>

SettingsNext ==
    \/ RetrySettings \/ TypeSelf \/ SaveSelf \/ TestConnection \/ PeppolChanges
    \/ \E r \in ppReqs : \/ PeppolLoaded(r) \/ PeppolNotLoaded(r)
                         \/ SelfSaved(r) \/ SelfNotSaved(r) \/ Pinged(r)

-----------------------------------------------------------------------------
\* The ledger, whose refresh is never disabled. While it loads, no table is
\* there, and with it go the opened evidences.
RefreshLedger == /\ UNCHANGED ppServer
                 /\ LoadPeppol(Unmounted(ppReqs))
                 /\ ppEvidence' = ClosedEvidence
                 /\ UNCHANGED <<ppShown, ppSelf>>

LedgerShown == ppPage.error = "none" /\ ~ppPage.loading /\ \E h \in Halves : ppShown[h] > 0

\* The effect asks for a message that is open and has not been shown.
ToggleEvidence ==
    /\ LedgerShown
    /\ ppEvidence' = [ppEvidence EXCEPT !.open = ~@]
    /\ IF ~ppEvidence.open /\ ~ppEvidence.shown
       THEN UNCHANGED ppServer /\ PpSend(ppReqs, "message", "")
       ELSE UNCHANGED <<ppServer, ppReqs, ppSent>>
    /\ UNCHANGED <<ppShown, ppPage, ppStale, ppAtLeast, ppSelf>>

\* A failure is never forgotten, also when the message comes after all.
EvidenceAnswered(r) == /\ r.kind = "message" /\ ppReqs' = PpOthers(r)
                       /\ \/ ppEvidence' = [ppEvidence EXCEPT !.shown = TRUE]
                          \/ ppEvidence' = [ppEvidence EXCEPT !.failed = TRUE]
                       /\ UNCHANGED <<ppServer, ppShown, ppPage, ppSent, ppStale, ppAtLeast, ppSelf>>

LedgerNext ==
    \/ RefreshLedger \/ ToggleEvidence \/ PeppolChanges
    \/ \E r \in ppReqs : PeppolLoaded(r) \/ PeppolNotLoaded(r) \/ EvidenceAnswered(r)

PeppolPagesInit ==
    /\ ppServer = [h \in Halves |-> 1]
    /\ ppShown = [h \in Halves |-> 0]
    /\ ppPage = [loading |-> TRUE, error |-> "none"]
    /\ ppReqs = {[n |-> 1, kind |-> "load", since |-> [h \in Halves |-> 1], id |-> ""]}
    /\ ppSent = 1 /\ ppStale = FALSE /\ ppAtLeast = [h \in Halves |-> 1]
    /\ ppSelf = [id |-> "stored", saving |-> FALSE, pinging |-> FALSE]
    /\ ppEvidence = ClosedEvidence

PeppolPagesTypeOK ==
    /\ ppServer \in [Halves -> 1 .. PpMaxVersion] /\ ppShown \in [Halves -> 0 .. PpMaxVersion]
    /\ ppPage \in [loading : BOOLEAN, error : {"none", "plan", "other"}]
    /\ ppSent \in 1 .. PpMaxSends
    /\ ppSelf \in [id : {"stored", "typed"}, saving : BOOLEAN, pinging : BOOLEAN]
    /\ ppEvidence \in [open : BOOLEAN, shown : BOOLEAN, failed : BOOLEAN]

\* Once nothing is loading, both halves are at least as new as when the load was
\* last asked for, by a save or by the refresh button, unless it failed or was
\* overtaken; and an open evidence is there or has failed.
PeppolPagesFresh ==
    ppReqs = {} => /\ ppStale \/ \A h \in Halves : ppShown[h] >= ppAtLeast[h]
                   /\ ppEvidence.open => ppEvidence.shown \/ ppEvidence.failed
=============================================================================

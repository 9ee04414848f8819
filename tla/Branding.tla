------------------------------ MODULE Branding ------------------------------
(* pages/BrandingPage.tsx: one editor for the branding of whichever company *)
(* is selected. A branding is told apart by the company its text and its    *)
(* logo come from (0: there is none), since one company's must never be     *)
(* saved over another's. Answers come in any order.                         *)
(* Accent, header and footer typed into the draft leave it that company's,  *)
(* so typing is no action of its own.                                       *)
EXTENDS Roles, FiniteSetsExt

CONSTANTS MaxCompanies,  \* bound: companies
          BrMaxSends     \* bound: requests

ASSUME BrandingAssumption == {MaxCompanies, BrMaxSends} \subseteq Nat \ {0}

VARIABLES brStored,  \* the server: the branding of each company there is
          brView,    \* the page's state
          brReqs,    \* requests not answered, and a logo file being read
          brSent,    \* requests so far
          brDoubt,   \* history: the draft may not be the selected company's
          brMixed    \* history: companies saved to while the draft was in doubt

brVars == <<brStored, brView, brReqs, brSent, brDoubt, brMixed>>

EmptyDraft(c) == [text |-> c, logo |-> 0]
BrOthers(r) == brReqs \ {r}

BrSend(reqs, kind, c, branding) ==
    /\ brSent < BrMaxSends /\ brSent' = brSent + 1
    /\ brReqs' = reqs \cup {[n |-> brSent + 1, kind |-> kind, company |-> c,
                             branding |-> branding]}

\* The page's body, which stays while a list it had is loaded again.
BrVisible == ~brView.error /\ brView.companies # {}

\* The answer to the last of the requests, or one that was overtaken.
Doubtful(r) == r.n # brSent \/ BrOthers(r) # {}

-----------------------------------------------------------------------------
\* load: the companies, then the default one's branding. The editor is there,
\* with the draft it had, before the second answer is.
CompaniesListed(r) ==
    LET all == DOMAIN brStored
    IN /\ r.kind = "list"
       /\ IF all = {}
          THEN /\ brReqs' = BrOthers(r) /\ UNCHANGED brSent
               /\ brView' = [brView EXCEPT !.companies = {}, !.company = 0,
                                           !.draft = EmptyDraft(0), !.loading = FALSE]
          ELSE /\ BrSend(BrOthers(r), "default", Min(all), brStored[Min(all)])
               /\ brView' = [brView EXCEPT !.companies = all, !.company = Min(all)]
       /\ UNCHANGED <<brStored, brDoubt, brMixed>>

\* The branding as it was when asked for, or as it is by now.
CompanyFetched(r) == \E branding \in {r.branding, brStored[r.company]} :
    /\ brView' = [brView EXCEPT !.draft = branding,
                                !.loading = IF r.kind = "default" THEN FALSE ELSE @]
    /\ brReqs' = BrOthers(r) /\ brDoubt' = Doubtful(r)
    /\ UNCHANGED <<brStored, brSent, brMixed>>

\* The old draft stays under the new selection.
BrLoadFails(r) ==
    /\ brView' = IF r.kind = "select" THEN brView
                 ELSE [brView EXCEPT !.loading = FALSE, !.error = TRUE]
    /\ brReqs' = BrOthers(r) /\ brDoubt' = TRUE
    /\ UNCHANGED <<brStored, brSent, brMixed>>

RetryBranding == /\ brView.error
                 /\ BrSend(brReqs, "list", 0, EmptyDraft(0))
                 /\ brView' = [brView EXCEPT !.loading = TRUE, !.error = FALSE]
                 /\ UNCHANGED <<brStored, brDoubt, brMixed>>

SelectCompany == \E c \in brView.companies \ {brView.company} :
    /\ BrVisible
    /\ BrSend(brReqs, "select", c, brStored[c])
    /\ brView' = [brView EXCEPT !.company = c, !.pdf = 0]
    /\ UNCHANGED <<brStored, brDoubt, brMixed>>

-----------------------------------------------------------------------------
\* A logo of the right type and size is read, and put into what the draft is then.
PickLogo == /\ BrVisible /\ CanWrite
            /\ BrSend(brReqs, "logo", brView.company, EmptyDraft(0))
            /\ UNCHANGED <<brStored, brView, brDoubt, brMixed>>

LogoRead(r) == /\ brView' = [brView EXCEPT !.draft.logo = r.company]
               /\ brReqs' = BrOthers(r) /\ brDoubt' = (brDoubt \/ Doubtful(r))
               /\ UNCHANGED <<brStored, brSent, brMixed>>

RemoveLogo == /\ BrVisible /\ CanWrite /\ brView.draft.logo # 0
              /\ brView' = [brView EXCEPT !.draft.logo = 0]
              /\ UNCHANGED <<brStored, brReqs, brSent, brDoubt, brMixed>>

-----------------------------------------------------------------------------
\* Gone wrong: the default company's branding is saved, whichever is selected.
DefaultCompany == Min(brView.companies)

\* save and preview send the company and the draft of their click.
SaveTarget == brView.company

Unsettled == brDoubt \/ \E r \in brReqs : r.kind \in {"default", "select", "save", "logo"}

SaveBranding == /\ BrVisible /\ CanWrite /\ brView.company # 0 /\ ~brView.saving
                /\ BrSend(brReqs, "save", SaveTarget, brView.draft)
                /\ brView' = [brView EXCEPT !.saving = TRUE]
                /\ brMixed' = IF Unsettled THEN brMixed \cup {SaveTarget} ELSE brMixed
                /\ UNCHANGED <<brStored, brDoubt>>

\* The saved branding becomes the draft, whatever is selected by now.
BrandingSaved(r) == /\ brStored' = [brStored EXCEPT ![r.company] = r.branding]
                    /\ brView' = [brView EXCEPT !.draft = r.branding]
                    /\ BrSend(BrOthers(r), "relist", 0, EmptyDraft(0))
                    /\ brDoubt' = Doubtful(r)
                    /\ UNCHANGED brMixed

\* The list again; without it, or without the first answer, only a message.
Relisted(r) == /\ brView' \in {[brView EXCEPT !.saving = FALSE, !.companies = cs] :
                                  cs \in {brView.companies, DOMAIN brStored}}
               /\ brReqs' = BrOthers(r)
               /\ UNCHANGED <<brStored, brSent, brDoubt, brMixed>>

SaveFails(r) == /\ brStored' \in {brStored, [brStored EXCEPT ![r.company] = r.branding]}
                /\ brView' = [brView EXCEPT !.saving = FALSE]
                /\ brReqs' = BrOthers(r)
                /\ UNCHANGED <<brSent, brDoubt, brMixed>>

\* A viewer's preview saves nothing first.
PreviewBranding ==
    /\ BrVisible /\ brView.company # 0 /\ ~brView.previewing
    /\ BrSend(brReqs, IF CanWrite THEN "patch" ELSE "generate", SaveTarget, brView.draft)
    /\ brView' = [brView EXCEPT !.previewing = TRUE]
    /\ brMixed' = IF Unsettled /\ CanWrite THEN brMixed \cup {SaveTarget} ELSE brMixed
    /\ UNCHANGED <<brStored, brDoubt>>

Patched(r) == /\ brStored' = [brStored EXCEPT ![r.company] = r.branding]
              /\ BrSend(BrOthers(r), "generate", r.company, r.branding)
              /\ UNCHANGED <<brView, brDoubt, brMixed>>

\* The PDF, or none: a message, and after a failure no PDF of before.
PreviewEnds(r) ==
    /\ brView' \in {[brView EXCEPT !.previewing = FALSE, !.pdf = p] : p \in
                       IF r.kind = "generate" THEN {r.company, brView.pdf, 0} ELSE {0}}
    /\ brReqs' = BrOthers(r)
    /\ brStored' \in {brStored} \cup (IF r.kind = "patch"
                                      THEN {[brStored EXCEPT ![r.company] = r.branding]} ELSE {})
    /\ UNCHANGED <<brSent, brDoubt, brMixed>>

-----------------------------------------------------------------------------
\* The first company, offered where there is none.
CreateCompany == /\ ~brView.error /\ ~brView.loading /\ brView.companies = {} /\ CanWrite
                 /\ BrSend(brReqs, "create", 0, EmptyDraft(0))
                 /\ UNCHANGED <<brStored, brView, brDoubt, brMixed>>

CompanyCreated(r) == \E told \in BOOLEAN :
    LET c == Cardinality(DOMAIN brStored) + 1
    IN /\ c <= MaxCompanies
       /\ brStored' = [x \in 1 .. c |-> IF x = c THEN EmptyDraft(c) ELSE brStored[x]]
       /\ brView' = IF told THEN [brView EXCEPT !.companies = {c}, !.company = c,
                                                !.draft = EmptyDraft(c)]
                    ELSE brView
       /\ brReqs' = BrOthers(r)
       /\ brMixed' = IF told /\ BrOthers(r) # {} THEN 1 .. MaxCompanies ELSE brMixed
       /\ UNCHANGED <<brSent, brDoubt>>

CreateFails(r) == brReqs' = BrOthers(r) /\ UNCHANGED <<brStored, brView, brSent, brDoubt, brMixed>>

BrandingInit ==
    /\ \E k \in {0, MaxCompanies} : brStored = [c \in 1 .. k |-> [text |-> c, logo |-> c]]
    /\ brView = [companies |-> {}, company |-> 0, draft |-> EmptyDraft(0), loading |-> TRUE,
                 error |-> FALSE, saving |-> FALSE, previewing |-> FALSE, pdf |-> 0]
    /\ brReqs = {[n |-> 1, kind |-> "list", company |-> 0, branding |-> EmptyDraft(0)]}
    /\ brSent = 1 /\ brDoubt = FALSE /\ brMixed = {}

BrandingAnswer(r) ==
    \/ CompaniesListed(r)
    \/ r.kind \in {"default", "select"} /\ CompanyFetched(r)
    \/ r.kind \in {"list", "default", "select"} /\ BrLoadFails(r)
    \/ r.kind = "logo" /\ LogoRead(r)
    \/ r.kind = "save" /\ (BrandingSaved(r) \/ SaveFails(r))
    \/ r.kind = "relist" /\ Relisted(r)
    \/ r.kind = "patch" /\ Patched(r)
    \/ r.kind \in {"patch", "generate"} /\ PreviewEnds(r)
    \/ r.kind = "create" /\ (CompanyCreated(r) \/ CreateFails(r))

BrandingNext ==
    \/ RetryBranding \/ SelectCompany \/ PickLogo \/ RemoveLogo
    \/ SaveBranding \/ PreviewBranding \/ CreateCompany
    \/ \E r \in brReqs : BrandingAnswer(r)

BrandingTypeOK ==
    LET brandings == [text : 0 .. MaxCompanies, logo : 0 .. MaxCompanies]
    IN /\ DOMAIN brStored = 1 .. Cardinality(DOMAIN brStored)
       /\ \A c \in DOMAIN brStored : brStored[c] \in brandings
       /\ brView.companies \subseteq DOMAIN brStored
       /\ brView.company \in 0 .. MaxCompanies /\ brView.draft \in brandings
       /\ brView.pdf \in DOMAIN brStored \cup {0}
       /\ brSent \in 1 .. BrMaxSends
       /\ \A r \in brReqs : r.n <= brSent

\* No company's text or logo is stored as another's, whatever was selected,
\* saved and previewed in between, unless it was saved while an answer for the
\* draft was awaited, had failed, or had been overtaken, or the first company
\* was created twice.
BrandingSavedToItsOwner ==
    \A c \in DOMAIN brStored :
        \/ brStored[c].text = c /\ brStored[c].logo \in {0, c}
        \/ c \in brMixed
=============================================================================

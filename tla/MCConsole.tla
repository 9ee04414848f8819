----------------------------- MODULE MCConsole -----------------------------
(* The console for TLC: one of its pages at a time, of those in Parts, with *)
(* the others at rest. Pages share nothing but the session and the role, so *)
(* the states to explore are the sum of theirs.                             *)
EXTENDS Session, Inbox, InvoiceForm, NewInvoice, License, Branding, Users, Security,
        Detail, PeppolPages

CONSTANT Parts  \* which pages the run is about

VARIABLE part

consoleVars == <<sessionVars, inboxVars, formVars, newVars, licVars, brVars, usVars, secVars,
                 detVars, ppVars, role, part>>

\* The roles that see a page differently.
RolesOf(p) == CASE p \in {"branding", "detail", "settings"} -> {"editor", "viewer"}
                [] p = "license" -> RoleNames
                [] p = "users" -> {"admin", "editor"}
                [] OTHER -> {"admin"}

ConsoleInit ==
    /\ part \in Parts
    /\ RoleInit /\ role \in RolesOf(part)
    /\ SessionInit /\ (part # "session" => srv.mode = "open" /\ path = "page")
    /\ InboxInit /\ FormInit /\ NewInvoiceInit /\ LicenseInit
    /\ BrandingInit /\ (part # "branding" => brStored = <<>>)
    /\ UsersInit /\ (part # "users" => usServer = <<>>)
    /\ SecurityInit /\ DetailInit /\ PeppolPagesInit

ConsoleNext ==
    /\ IF part = "session" THEN SessionNext ELSE UNCHANGED sessionVars
    /\ IF part = "inbox" THEN InboxNext ELSE UNCHANGED inboxVars
    /\ CASE part = "fields" -> EditFields
         [] part = "vatid" -> EditVatId
         [] part = "amounts" -> EditAmounts
         [] OTHER -> UNCHANGED formVars
    /\ CASE part = "generate" -> EditAndGenerate
         [] part = "attach" -> AttachFiles
         [] OTHER -> UNCHANGED newVars
    /\ IF part = "license" THEN LicenseNext ELSE UNCHANGED licVars
    /\ IF part = "branding" THEN BrandingNext ELSE UNCHANGED brVars
    /\ IF part = "users" THEN UsersNext ELSE UNCHANGED usVars
    /\ IF part = "security" THEN SecurityNext ELSE UNCHANGED secVars
    /\ IF part = "detail" THEN DetailNext ELSE UNCHANGED detVars
    /\ CASE part = "settings" -> SettingsNext
         [] part = "ledger" -> LedgerNext
         [] OTHER -> UNCHANGED ppVars
    /\ UNCHANGED <<role, part>>

\* React runs the effects, and AuthProvider's requests are answered.
ConsoleFairness ==
    /\ SF_sessionVars(part = "session" /\ ShellRedirect)
    /\ WF_sessionVars(part = "session" /\ LoginRedirect)
    /\ WF_sessionVars(part = "session" /\ \E i \in DOMAIN net : AnswerStatus(i))
    /\ WF_sessionVars(part = "session" /\ \E i \in DOMAIN net : AnswerMe(i))

ConsoleSpec == ConsoleInit /\ [][ConsoleNext]_consoleVars /\ ConsoleFairness

\* The types of every page.
ConsoleTypeOK ==
    /\ part \in Parts /\ role \in RoleNames
    /\ SessionTypeOK /\ InboxTypeOK /\ FormTypeOK /\ NewInvoiceTypeOK /\ LicenseTypeOK
    /\ BrandingTypeOK /\ UsersTypeOK /\ SecurityTypeOK /\ DetailTypeOK /\ PeppolPagesTypeOK

\* A page that has every answer shows what the server has, but for the
\* exceptions that each page's own part of this names.
SettledPagesAreFresh == LicenseFresh /\ UsersFresh /\ SecurityFresh /\ PeppolPagesFresh
=============================================================================

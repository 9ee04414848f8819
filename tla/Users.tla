------------------------------- MODULE Users -------------------------------
(* pages/UsersPage.tsx: the users, and the dialogs that add, edit and       *)
(* delete one. The two forms share their fields; a dialog may be closed and *)
(* another opened while the answer of the first is still to come. Other     *)
(* administrators change roles too. Answers come in any order.              *)
EXTENDS Roles

CONSTANTS MaxUsers,   \* bound: users ever added
          UsMaxSends, \* bound: requests
          UsPicked    \* bound: the roles administrators pick

ASSUME UsersAssumption == {MaxUsers, UsMaxSends} \subseteq Nat \ {0} /\ UsPicked \subseteq RoleNames

VARIABLES usServer,  \* the server: the role of each user
          usAdded,   \* users added so far
          usShown,   \* the list the page shows, loading, error
          usForm,    \* the open dialog, its user, the role in the form, busy
          usChoice,  \* history: the role the user chose, or left as it was offered
          usReqs,    \* requests not answered
          usSent,    \* requests so far
          usStale    \* history: why the list may be stale

usVars == <<usServer, usAdded, usShown, usForm, usChoice, usReqs, usSent, usStale>>

EmptyUserForm == [dialog |-> "none", user |-> 0, role |-> "admin", busy |-> FALSE]
NoChoice == [role |-> "admin", reset |-> FALSE]

UsOthers(r) == usReqs \ {r}
UsOutdated(reqs) == {[r EXCEPT !.dirty = TRUE] : r \in reqs}

\* A list is one of the users since it was asked for; a change carries the form.
UsSend(reqs, kind, since) ==
    /\ usSent < UsMaxSends /\ usSent' = usSent + 1
    /\ usReqs' = reqs \cup {[n |-> usSent + 1, kind |-> kind, since |-> since, dirty |-> FALSE,
                             form |-> IF kind = "list" THEN EmptyUserForm ELSE usForm,
                             choice |-> IF kind = "list" THEN NoChoice ELSE usChoice,
                             first |-> kind # "list" /\ DOMAIN usShown.users = {}]}

\* Gone wrong: the form is reset to no role at all.
NoRole(first) == ""

\* resetForm, with the list of the render it was called from; a server that
\* nobody signs in to has no users.
ResetRole(first) == IF first THEN "admin" ELSE "viewer"

-----------------------------------------------------------------------------
UsersListed(r) == \E users \in {r.since, usServer} :
    /\ r.kind = "list" /\ usReqs' = UsOthers(r)
    /\ usShown' = [usShown EXCEPT !.users = users, !.loading = FALSE]
    /\ usStale' = r.dirty
    /\ UNCHANGED <<usServer, usAdded, usForm, usChoice, usSent>>

UsersNotListed(r) == /\ r.kind = "list" /\ usReqs' = UsOthers(r)
                     /\ usShown' = [usShown EXCEPT !.loading = FALSE, !.error = TRUE]
                     /\ UNCHANGED <<usServer, usAdded, usForm, usChoice, usSent, usStale>>

LoadUsers(server, reqs) ==
    /\ UsSend(UsOutdated(reqs), "list", server)
    /\ usShown' = [usShown EXCEPT !.loading = TRUE, !.error = FALSE]

RetryUsers == /\ CanAdmin /\ usShown.error /\ ~usShown.loading
              /\ LoadUsers(usServer, usReqs)
              /\ UNCHANGED <<usServer, usAdded, usForm, usChoice, usStale>>

-----------------------------------------------------------------------------
OpenDialog(dialog, user, offered) ==
    /\ CanAdmin /\ usForm.dialog = "none"
    /\ usForm' = [usForm EXCEPT !.dialog = dialog, !.user = user, !.role = offered]
    /\ usChoice' = [role |-> IF dialog = "edit" THEN usShown.users[user] ELSE offered,
                    reset |-> FALSE]
    /\ UNCHANGED <<usServer, usAdded, usShown, usReqs, usSent, usStale>>

OpenAdd == OpenDialog("add", 0, ResetRole(DOMAIN usShown.users = {}))

\* Gone wrong: the dialog opens with the role of the one before.
RoleLeftOver(u) == usForm.role

\* What the edit dialog offers is the role in the list.
OfferedRole(u) == usShown.users[u]
OpenEdit == \E u \in DOMAIN usShown.users :
    ~usShown.loading /\ ~usShown.error /\ OpenDialog("edit", u, OfferedRole(u))
OpenDelete == \E u \in DOMAIN usShown.users :
    ~usShown.loading /\ ~usShown.error /\ OpenDialog("delete", u, usForm.role)

CloseDialog == /\ usForm.dialog # "none"
               /\ usForm' = [usForm EXCEPT !.dialog = "none", !.user = 0]
               /\ usChoice' = NoChoice
               /\ UNCHANGED <<usServer, usAdded, usShown, usReqs, usSent, usStale>>

PickRole == /\ usForm.dialog \in {"add", "edit"}
            /\ \E picked \in UsPicked \ {usForm.role} :
                  /\ usForm' = [usForm EXCEPT !.role = picked]
                  /\ usChoice' = [role |-> picked, reset |-> FALSE]
            /\ UNCHANGED <<usServer, usAdded, usShown, usReqs, usSent, usStale>>

SubmitUser == /\ usForm.dialog # "none" /\ ~usForm.busy
              /\ UsSend(usReqs, usForm.dialog, <<>>)
              /\ usForm' = [usForm EXCEPT !.busy = TRUE]
              /\ UNCHANGED <<usServer, usAdded, usShown, usChoice, usStale>>

-----------------------------------------------------------------------------
\* A change on the server; a user deleted meanwhile is not edited.
CanApply(r) == CASE r.kind = "add" -> usAdded < MaxUsers
                 [] OTHER -> r.form.user \in DOMAIN usServer
Applied(r) == CASE r.kind = "add" -> [u \in DOMAIN usServer \cup {usAdded + 1} |->
                                         IF u = usAdded + 1 THEN r.form.role ELSE usServer[u]]
                [] r.kind = "edit" -> [usServer EXCEPT ![r.form.user] = r.form.role]
                [] OTHER -> [u \in DOMAIN usServer \ {r.form.user} |-> usServer[u]]
StoreUser(r) == /\ usServer' = Applied(r)
                /\ usAdded' = IF r.kind = "add" THEN usAdded + 1 ELSE usAdded

\* The dialog of the request's kind closes, whoever it is open for; the fields
\* are reset, whichever dialog they are in.
FormAfter(r) ==
    [usForm EXCEPT !.dialog = IF @ = r.kind THEN "none" ELSE @,
                   !.user = IF usForm.dialog = r.kind THEN 0 ELSE @,
                   !.role = IF r.kind = "delete" THEN @ ELSE ResetRole(r.first)]
ChoiceAfter(r) == IF usForm.dialog \in {"none", r.kind} THEN NoChoice
                  ELSE [usChoice EXCEPT !.reset = @ \/ r.kind # "delete"]

\* Changed: the list is loaded again, after an add only once AuthProvider has
\* been refreshed.
UserChanged(r) ==
    /\ r.kind \in {"add", "edit", "delete"} /\ CanApply(r) /\ StoreUser(r)
    /\ usChoice' = ChoiceAfter(r)
    /\ IF r.kind = "add"
       THEN /\ usReqs' = UsOutdated(UsOthers(r)) \cup {[r EXCEPT !.kind = "refresh"]}
            /\ usForm' = FormAfter(r)
            /\ UNCHANGED <<usShown, usSent>>
       ELSE /\ LoadUsers(Applied(r), UsOthers(r))
            /\ usForm' = [FormAfter(r) EXCEPT !.busy = FALSE]
    /\ usStale' = TRUE

UserRefreshed(r) == /\ r.kind = "refresh"
                    /\ LoadUsers(usServer, UsOthers(r))
                    /\ usForm' = [usForm EXCEPT !.busy = FALSE]
                    /\ UNCHANGED <<usServer, usAdded, usChoice, usStale>>

\* Refused, or the answer lost: a message, and the dialog stays.
UserNotChanged(r) ==
    /\ r.kind \in {"add", "edit", "delete"}
    /\ usForm' = [usForm EXCEPT !.busy = FALSE]
    /\ \/ /\ usReqs' = UsOthers(r)
          /\ UNCHANGED <<usServer, usAdded, usStale>>
       \/ /\ CanApply(r) /\ StoreUser(r)
          /\ usReqs' = UsOutdated(UsOthers(r)) /\ usStale' = TRUE
    /\ UNCHANGED <<usShown, usChoice, usSent>>

\* Another administrator demotes a user.
OtherAdmin == \E u \in DOMAIN usServer :
    /\ usServer[u] # "viewer"
    /\ usServer' = [usServer EXCEPT ![u] = "viewer"]
    /\ usReqs' = UsOutdated(usReqs) /\ usStale' = TRUE
    /\ UNCHANGED <<usAdded, usShown, usForm, usChoice, usSent>>

UsersInit ==
    /\ usServer \in {<<>>, <<"admin">>}
    /\ usAdded = Cardinality(DOMAIN usServer)
    /\ usShown = [users |-> <<>>, loading |-> TRUE, error |-> FALSE]
    /\ usForm = EmptyUserForm
    /\ usChoice = NoChoice
    /\ usReqs = IF CanAdmin
                THEN {[n |-> 1, kind |-> "list", since |-> usServer, dirty |-> FALSE,
                       form |-> EmptyUserForm, choice |-> NoChoice, first |-> FALSE]}
                ELSE {}
    /\ usSent = 1
    /\ usStale = TRUE

UsersNext ==
    \/ RetryUsers \/ OpenAdd \/ OpenEdit \/ OpenDelete \/ CloseDialog \/ PickRole \/ SubmitUser
    \/ \E r \in usReqs : \/ UsersListed(r) \/ UsersNotListed(r)
                         \/ UserChanged(r) \/ UserRefreshed(r) \/ UserNotChanged(r)
    \/ OtherAdmin

UsersTypeOK ==
    /\ DOMAIN usServer \subseteq 1 .. usAdded /\ \A u \in DOMAIN usServer : usServer[u] \in RoleNames
    /\ usAdded \in 0 .. MaxUsers
    /\ DOMAIN usShown.users \subseteq 1 .. usAdded
    /\ usForm.dialog \in {"none", "add", "edit", "delete"} /\ usForm.role \in RoleNames
    /\ usForm.user \in 0 .. usAdded
    /\ usChoice \in [role : RoleNames, reset : BOOLEAN]
    /\ usSent \in 1 .. UsMaxSends

\* The role an edited or added user gets is the one the administrator picked, or
\* the one the list had for that user when the dialog was opened, unless the
\* form was reset under an open dialog by the answer to an earlier one.
EditKeepsRole ==
    [][\A r \in usReqs :
          LET answered == \A s \in usReqs' : s.n # r.n \/ s.kind # r.kind
              user == IF r.kind = "add" THEN usAdded' ELSE r.form.user
          IN answered /\ r.kind \in {"add", "edit"} /\ ~r.choice.reset /\ usServer' # usServer
                => usServer'[user] = r.choice.role]_usVars

\* At rest the list is the server's, unless a load failed or was overtaken, or a
\* change was made elsewhere or its answer lost.
UsersFresh == usReqs = {} /\ ~usShown.error /\ ~usStale => usShown.users = usServer
=============================================================================

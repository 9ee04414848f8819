------------------------------- MODULE Detail -------------------------------
(* pages/InvoiceDetailPage.tsx: one invoice, its evidence, and the dialog   *)
(* that sends it by Peppol. The browser's history leads from one invoice to *)
(* another without leaving the page: what it has stays, and answers for the *)
(* one before still come, in any order.                                     *)
EXTENDS Roles

CONSTANTS Invoices,     \* the archive's ids
          ValidOnes,    \* those whose status is valid
          DetMaxSends   \* bound: requests

ASSUME DetailAssumption == /\ Invoices \subseteq Nat \ {0} /\ Invoices # {}
                           /\ ValidOnes \subseteq Invoices
                           /\ DetMaxSends \in Nat \ {0, 1}

VARIABLES detId,      \* the id in the URL; 0: not a number
          detPage,    \* row, evidence (0: none), error
          detDialog,  \* open, sending, the invoice whose result is shown (0: none)
          detReqs,    \* requests not answered
          detSent,    \* requests so far
          detDoubt    \* history: answers that came too late, and whether the URL
                      \* or the invoice changed under an open dialog

detVars == <<detId, detPage, detDialog, detReqs, detSent, detDoubt>>

\* Requests that are sent together; the k-th of kinds is request detSent + k.
DetSend(reqs, kinds, id) ==
    /\ detSent + Len(kinds) <= DetMaxSends /\ detSent' = detSent + Len(kinds)
    /\ detReqs' = reqs \cup {[n |-> detSent + k, kind |-> kinds[k], id |-> id] : k \in DOMAIN kinds}
DetOthers(r) == detReqs \ {r}

\* reload forgets the row; a URL without a number only sets the error.
PageReloaded(id, evidence) ==
    IF id = 0 THEN [detPage EXCEPT !.error = "404"]
    ELSE [row |-> 0, evidence |-> evidence, error |-> "none"]

\* History: the dialog is open, or its request under way, while the invoice changes.
MovedNow == detDialog.open \/ \E r \in detReqs : r.kind = "send"

\* Gone wrong: the effects do not run again for another id.
GoWithoutReload == \E id \in (Invoices \cup {0}) \ {detId} :
    /\ detId' = id
    /\ detDoubt' = [late |-> {}, moved |-> detDoubt.moved \/ MovedNow]
    /\ UNCHANGED <<detPage, detDialog, detReqs, detSent>>

GoToInvoice == \E id \in (Invoices \cup {0}) \ {detId} :
    /\ detId' = id
    /\ detPage' = PageReloaded(id, 0)
    /\ DetSend(detReqs, IF id = 0 THEN <<>> ELSE <<"get", "evidence">>, id)
    /\ detDoubt' = [late |-> {}, moved |-> detDoubt.moved \/ MovedNow]
    /\ UNCHANGED detDialog

RetryDetail == /\ detPage.error = "other"
               /\ detPage' = PageReloaded(detId, detPage.evidence)
               /\ DetSend(detReqs, IF detId = 0 THEN <<>> ELSE <<"get">>, detId)
               /\ detDoubt' = [detDoubt EXCEPT !.late = @ \ {"get"}]
               /\ UNCHANGED <<detId, detDialog>>

\* An answer is late if the one to a newer request of its kind has come already.
LateAfter(r) == LET newer == {s \in DetOthers(r) : s.kind = r.kind /\ s.n > r.n}
                IN IF r.id # detId /\ newer = {} THEN detDoubt.late \cup {r.kind} ELSE detDoubt.late

DetailGot(r) == /\ r.kind = "get" /\ detReqs' = DetOthers(r)
                /\ detPage' \in {[detPage EXCEPT !.row = r.id],
                                 [detPage EXCEPT !.error = "404"], [detPage EXCEPT !.error = "other"]}
                /\ detDoubt' = [late |-> LateAfter(r), moved |-> detDoubt.moved \/ MovedNow]
                /\ UNCHANGED <<detId, detDialog, detSent>>

EvidenceGot(r) == /\ r.kind = "evidence" /\ detReqs' = DetOthers(r)
                  /\ \E e \in {r.id, 0} : detPage' = [detPage EXCEPT !.evidence = e]
                  /\ detDoubt' = [detDoubt EXCEPT !.late = LateAfter(r)]
                  /\ UNCHANGED <<detId, detDialog, detSent>>

-----------------------------------------------------------------------------
\* The page is there, and with it the dialog if it is open.
RowShown == detPage.error = "none" /\ detPage.row # 0
MaySend == RowShown /\ detPage.row \in ValidOnes /\ CanWrite

OpenSend == /\ MaySend /\ ~detDialog.open
            /\ detDialog' = [detDialog EXCEPT !.open = TRUE, !.result = 0]
            /\ detDoubt' = [detDoubt EXCEPT !.moved = \E r \in detReqs : r.kind = "send"]
            /\ UNCHANGED <<detId, detPage, detReqs, detSent>>

CloseSend == /\ RowShown /\ detDialog.open
             /\ detDialog' = [detDialog EXCEPT !.open = FALSE]
             /\ UNCHANGED <<detId, detPage, detReqs, detSent, detDoubt>>

\* Gone wrong: the button is not disabled while sending.
SendAgain == /\ RowShown /\ detDialog.open
             /\ DetSend(detReqs, <<"send">>, detPage.row)
             /\ detDialog' = [detDialog EXCEPT !.sending = TRUE, !.result = 0]
             /\ UNCHANGED <<detId, detPage, detDoubt>>

DoSend == /\ RowShown /\ detDialog.open /\ ~detDialog.sending
          /\ DetSend(detReqs, <<"send">>, detPage.row)
          /\ detDialog' = [detDialog EXCEPT !.sending = TRUE, !.result = 0]
          /\ UNCHANGED <<detId, detPage, detDoubt>>

\* The result stays in the dialog, or a message takes its place.
SendAnswered(r) == /\ r.kind = "send" /\ detReqs' = DetOthers(r)
                   /\ \E result \in {r.id, 0} :
                         detDialog' = [detDialog EXCEPT !.sending = FALSE, !.result = result]
                   /\ UNCHANGED <<detId, detPage, detSent, detDoubt>>

\* The invoice the list led to; which one makes no difference to the page.
AnInvoice == CHOOSE id \in Invoices : TRUE

DetailInit ==
    /\ detId = AnInvoice
    /\ detPage = [row |-> 0, evidence |-> 0, error |-> "none"]
    /\ detDialog = [open |-> FALSE, sending |-> FALSE, result |-> 0]
    /\ detReqs = {[n |-> 1, kind |-> "get", id |-> AnInvoice],
                  [n |-> 2, kind |-> "evidence", id |-> AnInvoice]}
    /\ detSent = 2
    /\ detDoubt = [late |-> {}, moved |-> FALSE]

DetailNext ==
    \/ GoToInvoice \/ RetryDetail \/ OpenSend \/ CloseSend \/ DoSend
    \/ \E r \in detReqs : DetailGot(r) \/ EvidenceGot(r) \/ SendAnswered(r)

DetailSpec == DetailInit /\ [][DetailNext]_detVars

DetailTypeOK ==
    /\ detId \in Invoices \cup {0}
    /\ detPage \in [row : Invoices \cup {0}, evidence : Invoices \cup {0},
                    error : {"none", "404", "other"}]
    /\ detDialog \in [open : BOOLEAN, sending : BOOLEAN, result : Invoices \cup {0}]
    /\ detSent \in 2 .. DetMaxSends
    /\ detDoubt \in [late : SUBSET {"get", "evidence"}, moved : BOOLEAN]

\* Once all is answered, the invoice and the evidence shown are those of the
\* URL, unless the answer for another came after theirs.
DetailIsOfItsUrl ==
    LET waiting(kind) == \E r \in detReqs : r.kind = kind
    IN detPage.error = "none" =>
          /\ waiting("get") \/ "get" \in detDoubt.late \/ detPage.row = detId
          /\ waiting("evidence") \/ "evidence" \in detDoubt.late \/ detPage.evidence \in {0, detId}

\* Only one send is under way; only a valid invoice is sent, and the result in
\* the open dialog is the shown invoice's, unless the URL or the invoice changed
\* under the open dialog or the running send.
SendsWhatIsShown ==
    LET sends == {r \in detReqs : r.kind = "send"}
    IN /\ Cardinality(sends) <= 1
       /\ detDialog.open /\ ~detDoubt.moved =>
             /\ \A r \in sends : r.id \in ValidOnes /\ r.id = detPage.row
             /\ RowShown => detDialog.result \in {0, detPage.row}
=============================================================================

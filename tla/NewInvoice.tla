----------------------------- MODULE NewInvoice -----------------------------
(* The requests of pages/NewInvoicePage.tsx while the user goes on typing:  *)
(* the prefill of the seller, the reading of attachments, and "generate",   *)
(* which makes the document and then archives it. A document is its number  *)
(* and the count of edits it was made after; InvoiceForm has its contents.  *)
EXTENDS Rows, SequencesExt

CONSTANTS Numbers,         \* invoice numbers the user types; "" is none
          FileNames,       \* names of the files picked
          MaxAttachments,  \* MAX_ATTACHMENTS
          MaxPicks,        \* bound: times files are picked
          MaxGenerates,    \* bound: documents asked for
          MaxEdits         \* bound: edits of the form

ASSUME NewInvoiceAssumption ==
    /\ {MaxAttachments, MaxPicks, MaxGenerates, MaxEdits} \subseteq Nat
    /\ "" \in Numbers

VARIABLES newForm,      \* number, edits, seller's name, archive box
          newPrefill,   \* the list of companies is still awaited
          newFiles,     \* attachments, picks so far, picks being read, Date.now()
          newRuns,      \* the generate calls under way
          newShown,     \* busy, the result, the id it was archived under
          newArchive,   \* the server's archive: number and document of each invoice
          newAsked,     \* generate calls so far
          newLost       \* history: files read, ids removed, whether picks overlapped

newVars == <<newForm, newPrefill, newFiles, newRuns, newShown, newArchive, newAsked, newLost>>

NoDoc == [number |-> "", edits |-> 0]
DocOf(f) == [number |-> f.number, edits |-> f.edits]

TypeNumber == \E n \in Numbers \ {newForm.number} :
    /\ newForm.edits < MaxEdits
    /\ newForm' = [newForm EXCEPT !.number = n, !.edits = @ + 1]
    /\ UNCHANGED <<newPrefill, newFiles, newRuns, newShown, newArchive, newAsked, newLost>>

TypeSeller == /\ newForm.edits < MaxEdits
              /\ newForm' = [newForm EXCEPT !.seller = "typed", !.edits = @ + 1]
              /\ UNCHANGED <<newPrefill, newFiles, newRuns, newShown, newArchive, newAsked, newLost>>

ToggleArchive == /\ newForm' = [newForm EXCEPT !.archive = ~@]
                 /\ UNCHANGED <<newPrefill, newFiles, newRuns, newShown, newArchive, newAsked,
                                newLost>>

\* The default company's name replaces the seller's, typed or not; or the list
\* is empty, or does not come.
Prefill == /\ newPrefill /\ newPrefill' = FALSE
           /\ \/ newForm' = [newForm EXCEPT !.seller = "company", !.edits = @ + 1]
              \/ UNCHANGED newForm
           /\ UNCHANGED <<newFiles, newRuns, newShown, newArchive, newAsked, newLost>>

-----------------------------------------------------------------------------
\* onAddAttachments: the room is reckoned when the files are picked, and what
\* there is none for is cut off.
PickFiles == \E names \in UNION {[1 .. k -> FileNames] : k \in 1 .. MaxAttachments + 1} :
    LET room == MaxAttachments - Len(newFiles.kept)
        count == IF Len(names) > room THEN room ELSE Len(names)
    IN /\ newFiles.picks < MaxPicks
       /\ room > 0
       /\ newFiles' = [newFiles EXCEPT !.picks = @ + 1,
                                       !.reading = @ \cup {[pick |-> newFiles.picks + 1,
                                                            names |-> [i \in 1 .. count |-> names[i]],
                                                            since |-> newFiles.clock]}]
       /\ newLost' = [newLost EXCEPT !.overlap = @ \/ newFiles.reading # {}]
       /\ UNCHANGED <<newForm, newPrefill, newRuns, newShown, newArchive, newAsked>>

\* A file gets its id when it has been read, at some time since it was picked. Files
\* of one name that are read in one millisecond share it.
ReadAt(r, at) == [i \in DOMAIN r.names |-> [pick |-> r.pick, place |-> i,
                                            id |-> <<at[i], r.names[i]>>]]

\* Gone wrong: the files read take the place of those the form has.
AttachedAlone(files) == files

\* The files read are added to what the form has by then.
Attached(files) == newFiles.kept \o files

FilesRead == \E r \in newFiles.reading :
    \E at \in [DOMAIN r.names -> r.since .. newFiles.clock + 1] :
        /\ newFiles' = [newFiles EXCEPT !.kept = Attached(ReadAt(r, at)), !.reading = @ \ {r},
                                        !.clock = IF \E i \in DOMAIN at : at[i] > @ THEN @ + 1 ELSE @]
        /\ newForm' = [newForm EXCEPT !.edits = @ + 1]
        /\ newLost' = [newLost EXCEPT !.read = @ \cup ToSet(ReadAt(r, at))]
        /\ UNCHANGED <<newPrefill, newRuns, newShown, newArchive, newAsked>>

\* One file that cannot be read, and none of its pick is added.
ReadFails == \E r \in newFiles.reading :
    /\ newFiles' = [newFiles EXCEPT !.reading = @ \ {r}]
    /\ UNCHANGED <<newForm, newPrefill, newRuns, newShown, newArchive, newAsked, newLost>>

RemoveFile == \E i \in DOMAIN newFiles.kept :
    /\ newFiles' = [newFiles EXCEPT !.kept = Without(@, newFiles.kept[i].id)]
    /\ newForm' = [newForm EXCEPT !.edits = @ + 1]
    /\ newLost' = [newLost EXCEPT !.removed = @ \cup {newFiles.kept[i].id}]
    /\ UNCHANGED <<newPrefill, newRuns, newShown, newArchive, newAsked>>

-----------------------------------------------------------------------------
\* generate, whose document, number and archive box are those of the click.
Generate ==
    /\ ~newShown.busy
    /\ newAsked < MaxGenerates /\ newAsked' = newAsked + 1
    /\ newRuns' = newRuns \cup {[n |-> newAsked + 1, doc |-> DocOf(newForm),
                                 archive |-> newForm.archive, stage |-> "generate"]}
    /\ newShown' = [busy |-> TRUE, result |-> NoDoc, id |-> 0, error |-> FALSE]
    /\ UNCHANGED <<newForm, newPrefill, newFiles, newArchive, newLost>>

Ended(r) == newRuns' = newRuns \ {r}

Generated(r) ==
    /\ r.stage = "generate"
    /\ IF r.archive
       THEN /\ newRuns' = (newRuns \ {r}) \cup {[r EXCEPT !.stage = "ingest"]}
            /\ newShown' = [newShown EXCEPT !.result = r.doc]
       ELSE Ended(r) /\ newShown' = [newShown EXCEPT !.result = r.doc, !.busy = FALSE]
    /\ UNCHANGED <<newForm, newPrefill, newFiles, newArchive, newAsked, newLost>>

NotGenerated(r) ==
    /\ r.stage = "generate" /\ Ended(r)
    /\ newShown' = [newShown EXCEPT !.error = TRUE, !.busy = FALSE]
    /\ UNCHANGED <<newForm, newPrefill, newFiles, newArchive, newAsked, newLost>>

\* Gone wrong: the number typed by the time the document is archived.
NumberByNow(r) == newForm.number

\* The external id the document is ingested under; none leaves it to the server.
ExternalIdOf(r) == r.doc.number
IsDuplicate(r) == \E i \in DOMAIN newArchive :
    IF ExternalIdOf(r) = "" THEN newArchive[i].doc = r.doc
    ELSE newArchive[i].number = ExternalIdOf(r)

Archived(r) == \E told \in BOOLEAN :
    /\ r.stage = "ingest" /\ ~IsDuplicate(r) /\ Ended(r)
    /\ newArchive' = Append(newArchive, [number |-> ExternalIdOf(r), doc |-> r.doc])
    /\ newShown' = [newShown EXCEPT !.id = IF told THEN Len(newArchive) + 1 ELSE @, !.busy = FALSE]
    /\ UNCHANGED <<newForm, newPrefill, newFiles, newAsked, newLost>>

NotArchived(r) ==
    /\ r.stage = "ingest" /\ Ended(r)
    /\ newShown' = [newShown EXCEPT !.busy = FALSE]
    /\ UNCHANGED <<newForm, newPrefill, newFiles, newArchive, newAsked, newLost>>

NewInvoiceInit ==
    /\ newForm = [number |-> "", edits |-> 0, seller |-> "", archive |-> TRUE]
    /\ newPrefill = TRUE
    /\ newFiles = [kept |-> <<>>, picks |-> 0, reading |-> {}, clock |-> 0]
    /\ newRuns = {}
    /\ newShown = [busy |-> FALSE, result |-> NoDoc, id |-> 0, error |-> FALSE]
    /\ newArchive = <<>>
    /\ newAsked = 0
    /\ newLost = [read |-> {}, removed |-> {}, overlap |-> FALSE]

EditAndGenerate ==
    \/ TypeNumber \/ TypeSeller \/ ToggleArchive \/ Prefill
    \/ Generate
    \/ \E r \in newRuns : Generated(r) \/ NotGenerated(r) \/ Archived(r) \/ NotArchived(r)
AttachFiles == PickFiles \/ FilesRead \/ ReadFails \/ RemoveFile

NewInvoiceNext == EditAndGenerate \/ AttachFiles

NewInvoiceSpec == NewInvoiceInit /\ [][NewInvoiceNext]_newVars

NewInvoiceTypeOK ==
    /\ newForm.number \in Numbers /\ newForm.edits \in Nat
    /\ newForm.seller \in {"", "typed", "company"} /\ newForm.archive \in BOOLEAN
    /\ newPrefill \in BOOLEAN
    /\ newFiles.picks \in 0 .. MaxPicks
    /\ newShown.busy \in BOOLEAN /\ newShown.id \in 0 .. Len(newArchive)
    /\ newAsked \in 0 .. MaxGenerates

\* The invoice the page names as archived holds the document the page offers
\* for download, under the number in that document, whatever was typed since.
ArchivedIsGenerated ==
    newShown.id # 0 => /\ newArchive[newShown.id].doc = newShown.result
                       /\ newArchive[newShown.id].number = newShown.result.number

\* No file is attached twice, nor one that was not read; one that was read is missing
\* only if one of its id was removed, which may be another of its name that was read
\* in the same millisecond; and there are no more files than allowed unless two
\* picks were read at once.
AttachmentsKept ==
    /\ \A i, j \in DOMAIN newFiles.kept :
          i # j => \/ newFiles.kept[i].pick # newFiles.kept[j].pick
                   \/ newFiles.kept[i].place # newFiles.kept[j].place
    /\ ToSet(newFiles.kept) \subseteq newLost.read
    /\ \A f \in newLost.read \ ToSet(newFiles.kept) : f.id \in newLost.removed
    /\ newLost.overlap \/ Len(newFiles.kept) <= MaxAttachments
=============================================================================

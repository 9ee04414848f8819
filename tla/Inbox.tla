------------------------------- MODULE Inbox -------------------------------
(* pages/InboxPage.tsx: the list of invoices with its filters and its       *)
(* "load older" button, the uploads, and the first-run panel, against an    *)
(* archive that grows. Loads are neither cancelled nor matched with what is *)
(* asked now: answers come in any order. Invoices are their ids, listed     *)
(* newest first: the rows are the set of the ids and how many they are, two *)
(* of them possibly the same. A filter takes effect at once, without its    *)
(* debounce.                                                                *)
EXTENDS Naturals, Sequences, FiniteSets

CONSTANTS Limit,       \* LIMIT, rows of a page
          OldRows,     \* invoices in the archive when the page opens
          MaxRows,     \* bound: invoices in the archive
          MaxLoads,    \* bound: lists asked for
          MaxFiles     \* bound: files dropped

ASSUME InboxAssumption == /\ {Limit, MaxLoads, MaxFiles} \subseteq Nat \ {0}
                          /\ {OldRows, MaxRows} \subseteq Nat /\ OldRows <= MaxRows

VARIABLES inboxArchive,  \* invoices on the server: 1 .. inboxArchive
          inboxFilter,   \* the filters
          inboxList,     \* rows and their count, total, offset, loading, error
          inboxLoads,    \* lists asked for and not answered
          inboxSent,     \* lists asked for so far
          inboxUploads,  \* the entries under the dropzone
          inboxBatches,  \* drops being uploaded
          inboxDropped,  \* files dropped so far
          inboxPanel,    \* the first-run panel: hidden, asking, shown, dismissed
          inboxKnown,    \* history: the latest invoice an upload was told of
          inboxDoubt     \* history: why the list may be off

inboxVars == <<inboxArchive, inboxFilter, inboxList, inboxLoads, inboxSent, inboxUploads,
               inboxBatches, inboxDropped, inboxPanel, inboxKnown, inboxDoubt>>

Filters == {"all", "some"}
Matches(f, id) == f = "all" \/ id % 3 = 0

\* The invoices a filter selects of the first n, and how many are listed before one.
Listed(f, n) == {id \in 1 .. n : Matches(f, id)}

Rank(f, n, id) == Cardinality({x \in Listed(f, n) : x > id})

\* A page, and its length.
Page(f, n, off) == {id \in Listed(f, n) : Rank(f, n, id) \in off .. off + Limit - 1}

PageLen(f, n, off) == LET left == Cardinality(Listed(f, n)) - off
                      IN IF left < 0 THEN 0 ELSE IF left < Limit THEN left ELSE Limit

\* The effect that decides on the panel; it runs again when what it reads changes.
PanelAfter(list) ==
    IF inboxPanel = "dismissed" THEN "dismissed"
    ELSE IF list.loading \/ list.error \/ list.total > 0 THEN "hidden"
    ELSE IF inboxList.loading \/ inboxList.error \/ inboxList.total > 0 THEN "asking"
    ELSE inboxPanel

SetList(list) == inboxList' = list /\ inboxPanel' = PanelAfter(list)

\* load(off, append) as a render with the given filters closed over it.
LoadInbox(filter, off, append) ==
    /\ inboxSent < MaxLoads
    /\ inboxSent' = inboxSent + 1
    /\ inboxLoads' = inboxLoads \cup {[n |-> inboxSent + 1, filter |-> filter, off |-> off,
                                       append |-> append, since |-> inboxArchive]}
    /\ SetList([inboxList EXCEPT !.loading = TRUE, !.error = FALSE])

Newest(r) == r.n = inboxSent

\* So many invoices are newer than every row that the next page ends above them.
Outrun(r, n) == r.off + Limit < Cardinality({id \in Listed(r.filter, n) :
                                                \A row \in inboxList.rows : id > row})

\* The server answers with the archive of some moment since it was asked.
AnswerList(r) == \E n \in r.since .. inboxArchive :
    LET page == Page(r.filter, n, r.off)
        len == PageLen(r.filter, n, r.off)
    IN /\ SetList([rows |-> IF r.append THEN inboxList.rows \cup page ELSE page,
                   count |-> IF r.append THEN inboxList.count + len ELSE len,
                   total |-> Cardinality(Listed(r.filter, n)), offset |-> r.off,
                   loading |-> FALSE, error |-> inboxList.error])
       /\ inboxLoads' = inboxLoads \ {r}
       /\ inboxDoubt' = IF ~Newest(r) THEN inboxDoubt \cup {"late"}
                        ELSE IF r.append /\ Outrun(r, n) THEN inboxDoubt \cup {"outrun"}
                        ELSE IF r.append THEN inboxDoubt
                        ELSE IF r.filter = inboxFilter THEN {} ELSE {"stale"}
       /\ UNCHANGED <<inboxArchive, inboxFilter, inboxSent, inboxUploads, inboxBatches,
                      inboxDropped, inboxKnown>>

\* A 401 is left to the token bar: no message, the old rows stay.
LoadFails(r) == \E unauthorized \in BOOLEAN :
    /\ inboxLoads' = inboxLoads \ {r}
    /\ SetList([inboxList EXCEPT !.loading = FALSE, !.error = @ \/ ~unauthorized])
    /\ inboxDoubt' = inboxDoubt \cup {"failed"}
    /\ UNCHANGED <<inboxArchive, inboxFilter, inboxSent, inboxUploads, inboxBatches,
                   inboxDropped, inboxKnown>>

ChangeFilter == \E f \in Filters \ {inboxFilter} :
    /\ inboxFilter' = f
    /\ LoadInbox(f, 0, FALSE)
    /\ UNCHANGED <<inboxArchive, inboxUploads, inboxBatches, inboxDropped, inboxKnown, inboxDoubt>>

RetryLoad == /\ inboxList.error
             /\ LoadInbox(inboxFilter, 0, FALSE)
             /\ UNCHANGED <<inboxArchive, inboxFilter, inboxUploads, inboxBatches, inboxDropped,
                            inboxKnown, inboxDoubt>>

\* The button is disabled while loading, a flag the first of two answers clears.
LoadOlder == /\ inboxList.count < inboxList.total /\ ~inboxList.loading
             /\ LoadInbox(inboxFilter, inboxList.offset + Limit, TRUE)
             /\ inboxDoubt' = IF inboxLoads = {} THEN inboxDoubt ELSE inboxDoubt \cup {"late"}
             /\ UNCHANGED <<inboxArchive, inboxFilter, inboxUploads, inboxBatches, inboxDropped,
                            inboxKnown>>

-----------------------------------------------------------------------------
\* onFiles: a drop replaces the entries of the one before it, which goes on.
DropFiles == \E k \in 1 .. MaxFiles :
    /\ inboxDropped + k <= MaxFiles
    /\ inboxDropped' = inboxDropped + k
    /\ inboxUploads' = [i \in 1 .. k |-> [settled |-> FALSE, drop |-> inboxDropped + 1,
                                          from |-> 0, shared |-> inboxBatches # {}]]
    /\ inboxBatches' = inboxBatches \cup {[drop |-> inboxDropped + 1, files |-> k, next |-> 1,
                                           refetch |-> FALSE, filter |-> inboxFilter]}
    /\ UNCHANGED <<inboxArchive, inboxFilter, inboxList, inboxLoads, inboxSent, inboxPanel,
                   inboxKnown, inboxDoubt>>

Uploading(b) == b.next <= b.files

\* Gone wrong: unreadable files, archived too, bring no reload.
RefetchesReadable(status) == status = "ok"

\* Which answers make the drop reload the list at its end.
Refetches(status) == status \in {"ok", "parse_error"}

\* Gone wrong: the entries are counted from the wrong end.
EntryAfter(b) == b.next + 1

\* An entry is found by its position.
EntryOf(b) == b.next

\* One file: ingested, kept as unreadable, a duplicate, refused, or no answer,
\* the file archived or not.
UploadFile(b) == \E status \in {"ok", "parse_error", "duplicate", "error_status", "error"},
                    stored \in BOOLEAN :
    /\ Uploading(b)
    /\ status \in {"ok", "parse_error"} => stored
    /\ status \in {"duplicate", "error_status"} => ~stored
    /\ stored => inboxArchive < MaxRows
    /\ inboxArchive' = IF stored THEN inboxArchive + 1 ELSE inboxArchive
    /\ inboxKnown' = IF status \in {"ok", "parse_error"}
                     THEN inboxArchive + 1 ELSE inboxKnown
    /\ inboxUploads' = [i \in DOMAIN inboxUploads |->
                           IF i = EntryOf(b)
                           THEN [inboxUploads[i] EXCEPT !.settled = TRUE, !.from = b.drop]
                           ELSE inboxUploads[i]]
    /\ inboxBatches' = (inboxBatches \ {b})
                       \cup {[b EXCEPT !.next = @ + 1, !.refetch = @ \/ Refetches(status)]}
    /\ UNCHANGED <<inboxFilter, inboxList, inboxLoads, inboxSent, inboxDropped, inboxPanel,
                   inboxDoubt>>

\* The reload uses the filters of the render in which the files were dropped.
BatchEnds(b) ==
    /\ ~Uploading(b)
    /\ inboxBatches' = inboxBatches \ {b}
    /\ IF b.refetch THEN LoadInbox(b.filter, 0, FALSE)
       ELSE UNCHANGED <<inboxSent, inboxLoads, inboxList, inboxPanel>>
    /\ UNCHANGED <<inboxArchive, inboxFilter, inboxUploads, inboxDropped, inboxKnown, inboxDoubt>>

\* Invoices that arrive by other ways.
InvoiceArrives == /\ inboxArchive < MaxRows
                  /\ inboxArchive' = inboxArchive + 1
                  /\ UNCHANGED <<inboxFilter, inboxList, inboxLoads, inboxSent, inboxUploads,
                                 inboxBatches, inboxDropped, inboxPanel, inboxKnown, inboxDoubt>>

\* The server's answer about Peppol, and OnboardingPanel's dismissal for good.
AnswerPanel == /\ inboxPanel = "asking"
               /\ inboxPanel' \in {"shown", "hidden"}
               /\ UNCHANGED <<inboxArchive, inboxFilter, inboxList, inboxLoads, inboxSent,
                              inboxUploads, inboxBatches, inboxDropped, inboxKnown, inboxDoubt>>

DismissPanel == /\ inboxPanel = "shown"
                /\ inboxPanel' = "dismissed"
                /\ UNCHANGED <<inboxArchive, inboxFilter, inboxList, inboxLoads, inboxSent,
                               inboxUploads, inboxBatches, inboxDropped, inboxKnown, inboxDoubt>>

\* The page mounts, with its first load on the way.
InboxInit ==
    /\ inboxArchive = OldRows
    /\ inboxFilter = "all"
    /\ inboxList = [rows |-> {}, count |-> 0, total |-> 0, offset |-> 0, loading |-> TRUE,
                     error |-> FALSE]
    /\ inboxLoads = {[n |-> 1, filter |-> "all", off |-> 0, append |-> FALSE, since |-> OldRows]}
    /\ inboxSent = 1
    /\ inboxUploads = <<>>
    /\ inboxBatches = {}
    /\ inboxDropped = 0
    /\ inboxPanel = "hidden"
    /\ inboxKnown = 0
    /\ inboxDoubt = {}

InboxNext ==
    \/ \E r \in inboxLoads : AnswerList(r) \/ LoadFails(r)
    \/ ChangeFilter \/ RetryLoad \/ LoadOlder
    \/ DropFiles \/ \E b \in inboxBatches : UploadFile(b) \/ BatchEnds(b)
    \/ InvoiceArrives \/ AnswerPanel \/ DismissPanel

InboxTypeOK ==
    /\ inboxArchive \in 0 .. MaxRows
    /\ inboxFilter \in Filters
    /\ inboxList \in [rows : SUBSET (1 .. MaxRows), count : Nat, total : 0 .. MaxRows,
                      offset : Nat, loading : BOOLEAN, error : BOOLEAN]
    /\ inboxSent \in 1 .. MaxLoads /\ inboxDropped \in 0 .. MaxFiles
    /\ \A r \in inboxLoads : r.n <= inboxSent /\ r.filter \in Filters
    /\ inboxPanel \in {"hidden", "asking", "shown", "dismissed"}
    /\ inboxDoubt \subseteq {"late", "failed", "stale", "outrun"}

\* Unless an answer was overtaken, a load failed, a filter changed under a running
\* upload, or more invoices came than the pages loaded so far hold: at rest the
\* rows are those of the filters, without a hole between the first and the last,
\* and reach up to the latest invoice an upload was told of; rows are only
\* missing at the end, where the button offers them.
InboxRight ==
    inboxLoads = {} /\ inboxDoubt = {} =>
        LET shown == inboxList.rows
        IN /\ \A id \in shown : Matches(inboxFilter, id)
           /\ \A id \in 1 .. inboxArchive :
                 Matches(inboxFilter, id) /\ (\E a, b \in shown : a < id /\ id < b)
                     => id \in shown
           /\ inboxBatches = {} /\ inboxKnown > 0 /\ Matches(inboxFilter, inboxKnown)
                 => \E id \in shown : id >= inboxKnown

\* Once no upload runs, no file is left in progress, and each entry tells of its
\* own file unless another drop was made before its own had ended.
UploadsSettled ==
    inboxBatches = {} => \A i \in DOMAIN inboxUploads :
        /\ inboxUploads[i].settled
        /\ inboxUploads[i].shared \/ inboxUploads[i].from = inboxUploads[i].drop
=============================================================================

-------------------------- MODULE NewInvoiceProofs --------------------------
(* What is archived and what stays attached, for any limits, any numbers    *)
(* and any order of clicks and answers.                                     *)
EXTENDS NewInvoice, InvoiceFormProofs

-----------------------------------------------------------------------------
(* The inductive invariants.                                                *)

Docs == [number : Numbers, edits : Nat]
Runs == [n : Nat, doc : Docs, archive : BOOLEAN, stage : {"generate", "ingest"}]
Entries == [number : Numbers, doc : Docs]
NewPage == [busy : BOOLEAN, result : Docs, id : Nat, error : BOOLEAN]
Form == [number : Numbers, edits : Nat, seller : {"", "typed", "company"}, archive : BOOLEAN]

ShapeInv ==
    /\ newForm \in Form
    /\ newRuns \subseteq Runs
    /\ newShown \in NewPage /\ newShown.id <= Len(newArchive)
    /\ newArchive \in Seq(Entries)
    /\ newAsked \in Nat

\* One call is under way at most, the page is busy with it and names no
\* archived invoice; once it ingests, its document is the one on the page.
RunInv ==
    /\ \A r, s \in newRuns : r = s
    /\ newRuns # {} => newShown.busy /\ newShown.id = 0
    /\ \A r \in newRuns : r.stage = "ingest" => newShown.result = r.doc

ArchiveInv == ShapeInv /\ RunInv /\ ArchivedIsGenerated

\* A file is one in its place of a pick; its id may be another's, too.
Files == [pick : Nat, place : Nat, id : Nat \X FileNames]
Readings == [pick : Nat, names : Seq(FileNames), since : Nat]

FilesInv ==
    /\ newFiles \in [kept : Seq(Files), picks : Nat, reading : SUBSET Readings, clock : Nat]
    /\ newLost.overlap \in BOOLEAN
    /\ DOMAIN newLost = {"read", "removed", "overlap"}
    /\ \A i \in 1 .. Len(newFiles.kept) : newFiles.kept[i] \in newLost.read
    /\ \A f \in newLost.read : \/ \E i \in 1 .. Len(newFiles.kept) : newFiles.kept[i] = f
                               \/ f.id \in newLost.removed

\* No file is there twice, nor comes with a pick that is still being read.
PicksInv ==
    /\ \A i, j \in 1 .. Len(newFiles.kept) :
          i # j => \/ newFiles.kept[i].pick # newFiles.kept[j].pick
                   \/ newFiles.kept[i].place # newFiles.kept[j].place
    /\ \A i \in 1 .. Len(newFiles.kept) : newFiles.kept[i].pick <= newFiles.picks
    /\ \A r \in newFiles.reading :
          /\ r.pick <= newFiles.picks
          /\ \A i \in 1 .. Len(newFiles.kept) : newFiles.kept[i].pick # r.pick
          /\ \A s \in newFiles.reading : s.pick = r.pick => s = r

\* Unless picks overlapped, there is room for the one that is being read.
RoomInv ==
    ~newLost.overlap =>
        /\ Len(newFiles.kept) <= MaxAttachments
        /\ \A r, s \in newFiles.reading : r = s
        /\ \A r \in newFiles.reading : Len(newFiles.kept) + Len(r.names) <= MaxAttachments

AttachedInv == FilesInv /\ PicksInv /\ RoomInv

-----------------------------------------------------------------------------
(* The document that is archived.                                           *)

LEMMA InitArchive == NewInvoiceInit => ArchiveInv
  <1> SUFFICES ASSUME NewInvoiceInit
               PROVE  ArchiveInv
    OBVIOUS
  <1>1. newArchive \in Seq(Entries) /\ Len(newArchive) = 0
    BY EmptySeq DEF NewInvoiceInit
  <1>2. newForm \in Form /\ NoDoc \in Docs
    BY NewInvoiceAssumption DEF NewInvoiceInit, Form, Docs, NoDoc
  <1>3. newShown \in NewPage /\ newShown.id = 0
    BY <1>2 DEF NewInvoiceInit, NewPage
  <1>4. newRuns = {} /\ newAsked = 0
    BY DEF NewInvoiceInit
  <1>5. QED
    BY <1>1, <1>2, <1>3, <1>4 DEF ArchiveInv, ShapeInv, RunInv, ArchivedIsGenerated

\* A step that leaves the calls, the page's result and the archive alone.
LEMMA QuietStep ==
    ASSUME ArchiveInv, newForm' \in Form, UNCHANGED <<newRuns, newShown, newArchive, newAsked>>
    PROVE  ArchiveInv'
  BY DEF ArchiveInv, ShapeInv, RunInv, ArchivedIsGenerated

LEMMA EditsAreQuiet ==
    ASSUME ArchiveInv,
           TypeNumber \/ TypeSeller \/ ToggleArchive \/ Prefill \/ PickFiles \/ FilesRead \/ ReadFails
           \/ RemoveFile
    PROVE  ArchiveInv'
  <1>1. newForm \in Form
    BY DEF ArchiveInv, ShapeInv
  <1>2. UNCHANGED <<newRuns, newShown, newArchive, newAsked>>
    BY DEF TypeNumber, TypeSeller, ToggleArchive, Prefill, PickFiles, FilesRead, ReadFails,
           RemoveFile
  <1>3. newForm' \in Form
    <2>1. newForm.edits + 1 \in Nat
      <3>1. newForm.edits \in Nat
        BY <1>1 DEF Form
      <3>2. QED
        BY <3>1
    <2>2. ASSUME NEW e \in Nat
          PROVE  /\ \A n \in Numbers : [newForm EXCEPT !.number = n, !.edits = e] \in Form
                 /\ \A n \in {"typed", "company"} :
                       [newForm EXCEPT !.seller = n, !.edits = e] \in Form
                 /\ [newForm EXCEPT !.edits = e] \in Form
                 /\ [newForm EXCEPT !.archive = ~@] \in Form
      <3>1. ASSUME NEW n \in Numbers PROVE [newForm EXCEPT !.number = n, !.edits = e] \in Form
        BY <1>1 DEF Form
      <3>2. ASSUME NEW n \in {"typed", "company"}
            PROVE  [newForm EXCEPT !.seller = n, !.edits = e] \in Form
        BY <1>1 DEF Form
      <3>3. [newForm EXCEPT !.edits = e] \in Form
        BY <1>1 DEF Form
      <3>4. [newForm EXCEPT !.archive = ~@] \in Form
        BY <1>1 DEF Form
      <3>5. QED
        BY <3>1, <3>2, <3>3, <3>4
    <2>3. \/ \E n \in Numbers : newForm' = [newForm EXCEPT !.number = n, !.edits = @ + 1]
          \/ \E n \in {"typed", "company"} :
                newForm' = [newForm EXCEPT !.seller = n, !.edits = @ + 1]
          \/ newForm' = [newForm EXCEPT !.edits = @ + 1]
          \/ newForm' = [newForm EXCEPT !.archive = ~@]
          \/ newForm' = newForm
      BY DEF TypeNumber, TypeSeller, ToggleArchive, Prefill, PickFiles, FilesRead, ReadFails,
           RemoveFile
    <2>4. QED
      BY <1>1, <2>1, <2>2, <2>3
  <1>4. QED
    BY <1>2, <1>3, QuietStep

LEMMA GenerateKeeps ==
    ASSUME ArchiveInv, Generate
    PROVE  ArchiveInv'
  <1> DEFINE run == [n |-> newAsked + 1, doc |-> DocOf(newForm), archive |-> newForm.archive,
                     stage |-> "generate"]
  <1>1. newRuns = {}
    BY DEF Generate, ArchiveInv, RunInv
  <1>2. newRuns' = {run}
    BY <1>1 DEF Generate
  <1>3. run \in Runs /\ run.stage = "generate"
    <2>1. newAsked + 1 \in Nat
      BY DEF ArchiveInv, ShapeInv
    <2>2. DocOf(newForm) \in Docs /\ newForm.archive \in BOOLEAN
      BY DEF ArchiveInv, ShapeInv, Form, Docs, DocOf
    <2>3. QED
      BY <2>1, <2>2 DEF Runs
  <1>4. NoDoc \in Docs
    BY NewInvoiceAssumption DEF NoDoc, Docs
  <1>5. newShown' \in NewPage /\ newShown'.busy /\ newShown'.id = 0
    BY <1>4 DEF Generate, NewPage
  <1> HIDE DEF run
  <1>6. ShapeInv'
    BY <1>2, <1>3, <1>5 DEF Generate, ArchiveInv, ShapeInv
  <1>7. RunInv'
    BY <1>2, <1>3, <1>5 DEF RunInv
  <1>8. QED
    BY <1>5, <1>6, <1>7 DEF ArchiveInv, ArchivedIsGenerated

LEMMA GeneratedKeeps ==
    ASSUME ArchiveInv, NEW r \in newRuns, Generated(r) \/ NotGenerated(r) \/ NotArchived(r)
    PROVE  ArchiveInv'
  <1>1. /\ r \in Runs /\ newRuns = {r} /\ newShown.busy /\ newShown.id = 0
        /\ r.stage = "ingest" => newShown.result = r.doc
    BY DEF ArchiveInv, ShapeInv, RunInv
  <1>2. r.doc \in Docs
    BY <1>1 DEF Runs
  <1>3. newShown' \in NewPage /\ newShown'.id = 0
    BY <1>1, <1>2 DEF Generated, NotGenerated, NotArchived, ArchiveInv, ShapeInv, NewPage
  <1>4. UNCHANGED <<newForm, newArchive, newAsked>>
    BY DEF Generated, NotGenerated, NotArchived
  <1>5. CASE Generated(r) /\ r.archive
    <2> DEFINE next == [r EXCEPT !.stage = "ingest"]
    <2>1. next \in Runs /\ next.doc = r.doc
      BY <1>1 DEF Runs
    <2>2. newRuns' = {next}
      BY <1>1, <1>5 DEF Generated
    <2>3. newShown'.busy /\ newShown'.result = r.doc
      BY <1>1, <1>5 DEF Generated, ArchiveInv, ShapeInv, NewPage
    <2> HIDE DEF next
    <2>4. QED
      BY <1>3, <1>4, <2>1, <2>2, <2>3 DEF ArchiveInv, ShapeInv, RunInv, ArchivedIsGenerated
  <1>6. CASE ~(Generated(r) /\ r.archive)
    <2>1. newRuns' = {}
      BY <1>1, <1>6 DEF Generated, NotGenerated, NotArchived, Ended
    <2>2. QED
      BY <1>3, <1>4, <2>1 DEF ArchiveInv, ShapeInv, RunInv, ArchivedIsGenerated
  <1>7. QED
    BY <1>5, <1>6

LEMMA ArchivedKeeps ==
    ASSUME ArchiveInv, NEW r \in newRuns, Archived(r)
    PROVE  ArchiveInv'
  <1> DEFINE entry == [number |-> ExternalIdOf(r), doc |-> r.doc]
  <1>1. r \in Runs /\ newRuns = {r} /\ newShown.id = 0 /\ newShown.result = r.doc
    BY DEF ArchiveInv, ShapeInv, RunInv, Archived
  <1>2. /\ entry \in Entries /\ entry.doc = r.doc /\ entry.number = r.doc.number
    BY <1>1 DEF Runs, Docs, Entries, ExternalIdOf
  <1>3. newRuns' = {} /\ newArchive' = Append(newArchive, entry)
    BY <1>1 DEF Archived, Ended
  <1> HIDE DEF entry
  <1>4. /\ newArchive' \in Seq(Entries)
        /\ Len(newArchive') = Len(newArchive) + 1 /\ Len(newArchive) \in Nat
        /\ newArchive'[Len(newArchive) + 1] = entry
    BY <1>2, <1>3 DEF ArchiveInv, ShapeInv
  <1>5. /\ newShown' \in NewPage /\ newShown'.result = r.doc
        /\ newShown'.id \in {0, Len(newArchive) + 1}
    <2>1. PICK id \in {newShown.id, Len(newArchive) + 1} :
              newShown' = [newShown EXCEPT !.id = id, !.busy = FALSE]
      BY DEF Archived
    <2>2. id \in Nat /\ id \in {0, Len(newArchive) + 1}
      BY <1>1, <1>4
    <2>3. newShown \in NewPage
      BY DEF ArchiveInv, ShapeInv
    <2>4. QED
      BY <1>1, <2>1, <2>2, <2>3 DEF NewPage
  <1>6. ArchivedIsGenerated'
    BY <1>2, <1>4, <1>5 DEF ArchivedIsGenerated
  <1>7. ShapeInv'
    BY <1>3, <1>4, <1>5 DEF Archived, ArchiveInv, ShapeInv
  <1>8. RunInv'
    BY <1>3 DEF RunInv
  <1>9. QED
    BY <1>6, <1>7, <1>8 DEF ArchiveInv

LEMMA NextKeepsArchive == ArchiveInv /\ [NewInvoiceNext]_newVars => ArchiveInv'
  <1> SUFFICES ASSUME ArchiveInv, [NewInvoiceNext]_newVars
               PROVE  ArchiveInv'
    OBVIOUS
  <1>1. CASE UNCHANGED newVars
    BY <1>1, QuietStep DEF newVars, ArchiveInv, ShapeInv
  <1>2. CASE NewInvoiceNext
    BY <1>2, EditsAreQuiet, GenerateKeeps, GeneratedKeeps, ArchivedKeeps
    DEF NewInvoiceNext, EditAndGenerate, AttachFiles
  <1>3. QED
    BY <1>1, <1>2

\* NewInvoicePage.tsx, generate: whatever is typed, toggled or answered while it
\* runs, the archived invoice the page names is the document it shows.
THEOREM ArchivedWhatIsShown == NewInvoiceSpec => []ArchivedIsGenerated
  <1>1. ArchiveInv => ArchivedIsGenerated
    BY DEF ArchiveInv
  <1>2. QED
    BY <1>1, InitArchive, NextKeepsArchive, PTL DEF NewInvoiceSpec

-----------------------------------------------------------------------------
(* The attachments.                                                         *)

LEMMA InitAttached == NewInvoiceInit => AttachedInv
  <1> SUFFICES ASSUME NewInvoiceInit
               PROVE  AttachedInv
    OBVIOUS
  <1>1. <<>> \in Seq(Files) /\ Len(<<>>) = 0
    BY EmptySeq
  <1>2. /\ newFiles.kept = <<>> /\ newFiles.reading = {} /\ newFiles.picks = 0
        /\ newLost.read = {} /\ newLost.removed = {} /\ newLost.overlap = FALSE
        /\ DOMAIN newLost = {"read", "removed", "overlap"}
    BY DEF NewInvoiceInit
  <1>3. newFiles \in [kept : Seq(Files), picks : Nat, reading : SUBSET Readings, clock : Nat]
    BY <1>1 DEF NewInvoiceInit
  <1>4. MaxAttachments \in Nat
    BY NewInvoiceAssumption
  <1>5. 1 .. Len(newFiles.kept) = {}
    BY <1>1, <1>2
  <1>6. FilesInv
    BY <1>2, <1>3, <1>5 DEF FilesInv
  <1>7. PicksInv
    BY <1>2, <1>5 DEF PicksInv
  <1>8. RoomInv
    BY <1>1, <1>2, <1>4 DEF RoomInv
  <1>9. QED
    BY <1>6, <1>7, <1>8 DEF AttachedInv

LEMMA PickKeeps ==
    ASSUME AttachedInv, PickFiles
    PROVE  AttachedInv'
  <1> DEFINE room == MaxAttachments - Len(newFiles.kept)
             CountOf(names) == IF Len(names) > room THEN room ELSE Len(names)
             NamesOf(names) == [i \in 1 .. CountOf(names) |-> names[i]]
             Read(names) == [pick |-> newFiles.picks + 1, names |-> NamesOf(names),
                             since |-> newFiles.clock]
  <1>1. PICK names \in UNION {[1 .. k -> FileNames] : k \in 1 .. MaxAttachments + 1} :
            /\ room > 0
            /\ newFiles' = [newFiles EXCEPT !.picks = @ + 1, !.reading = @ \cup {Read(names)}]
            /\ newLost' = [newLost EXCEPT !.overlap = @ \/ newFiles.reading # {}]
    BY DEF PickFiles
  <1> DEFINE cut == NamesOf(names)
             read == Read(names)
  <1>2. /\ newFiles.picks \in Nat /\ newFiles.clock \in Nat
        /\ newFiles.kept \in Seq(Files) /\ newFiles.reading \subseteq Readings
    BY DEF AttachedInv, FilesInv
  <1>3. MaxAttachments \in Nat /\ Len(newFiles.kept) \in Nat
    BY <1>2, NewInvoiceAssumption, LenProperties
  <1>4. cut \in Seq(FileNames) /\ Len(newFiles.kept) + Len(cut) <= MaxAttachments
    <2>p. PICK k \in 1 .. MaxAttachments + 1 : names \in [1 .. k -> FileNames]
      OBVIOUS
    <2>1. k \in Nat /\ room \in Nat
      BY <1>1, <1>3
    <2>2. names \in Seq(FileNames) /\ Len(names) = k
      BY <2>p, <2>1, SeqDef, LenProperties
    <2> DEFINE count == CountOf(names)
    <2>3. count \in Nat /\ count <= k /\ count <= room
      BY <2>1, <2>2
    <2>4. cut = [i \in 1 .. count |-> names[i]]
      OBVIOUS
    <2> HIDE DEF count, cut
    <2>5. cut \in [1 .. count -> FileNames]
      BY <2>p, <2>1, <2>3, <2>4
    <2>6. cut \in Seq(FileNames) /\ Len(cut) = count
      BY <2>3, <2>5, SeqDef, LenProperties
    <2>7. QED
      BY <1>3, <2>1, <2>3, <2>6
  <1> HIDE DEF cut
  <1>5. newFiles.picks + 1 \in Nat
    BY <1>2
  <1>6. /\ read \in Readings /\ read.pick = newFiles.picks + 1
        /\ read.names = cut
    BY <1>2, <1>4, <1>5 DEF Readings, cut
  <1>7. newFiles' = [newFiles EXCEPT !.picks = @ + 1, !.reading = @ \cup {read}]
    BY <1>1
  <1> HIDE DEF read
  <1>8. /\ newFiles'.kept = newFiles.kept
        /\ newFiles'.picks = newFiles.picks + 1
        /\ newFiles'.reading = newFiles.reading \cup {read}
        /\ newFiles' \in [kept : Seq(Files), picks : Nat, reading : SUBSET Readings, clock : Nat]
    <2> DEFINE picks == newFiles.picks + 1
    <2>1. picks \in Nat
      BY <1>5
    <2>2. newFiles' = [newFiles EXCEPT !.picks = picks, !.reading = @ \cup {read}]
      BY <1>7
    <2> HIDE DEF picks
    <2>3. QED
      BY <1>6, <2>1, <2>2 DEF AttachedInv, FilesInv, picks
  <1>9. /\ newLost'.read = newLost.read /\ newLost'.removed = newLost.removed
        /\ newLost'.overlap \in BOOLEAN
        /\ newLost'.overlap <=> newLost.overlap \/ newFiles.reading # {}
        /\ DOMAIN newLost' = {"read", "removed", "overlap"}
    BY <1>1 DEF AttachedInv, FilesInv
  <1>10. FilesInv'
    BY <1>8, <1>9 DEF AttachedInv, FilesInv
  <1>11. \A i \in 1 .. Len(newFiles.kept) : newFiles.kept[i].pick \in Nat
    <2> TAKE i \in 1 .. Len(newFiles.kept)
    <2>1. newFiles.kept[i] \in Files
      BY <1>2, ElementOfSeq
    <2>2. QED
      BY <2>1 DEF Files
  <1>12. \A r \in newFiles.reading : r.pick \in Nat
    BY <1>2 DEF Readings
  <1>13. PicksInv'
    BY <1>2, <1>6, <1>8, <1>11, <1>12 DEF AttachedInv, PicksInv
  <1>14. RoomInv'
    BY <1>3, <1>4, <1>6, <1>8, <1>9 DEF AttachedInv, RoomInv
  <1>15. QED
    BY <1>10, <1>13, <1>14 DEF AttachedInv

LEMMA ReadKeeps ==
    ASSUME AttachedInv, FilesRead
    PROVE  AttachedInv'
  <1> DEFINE ClockAfter(at) == IF \E i \in DOMAIN at : at[i] > newFiles.clock
                               THEN newFiles.clock + 1 ELSE newFiles.clock
  <1>r. PICK r \in newFiles.reading :
          \E at \in [DOMAIN r.names -> r.since .. newFiles.clock + 1] :
            /\ newFiles' = [newFiles EXCEPT !.kept = Attached(ReadAt(r, at)),
                                            !.reading = @ \ {r}, !.clock = ClockAfter(at)]
            /\ newLost' = [newLost EXCEPT !.read = @ \cup ToSet(ReadAt(r, at))]
    BY DEF FilesRead
  <1>1. PICK at \in [DOMAIN r.names -> r.since .. newFiles.clock + 1] :
            /\ newFiles' = [newFiles EXCEPT !.kept = Attached(ReadAt(r, at)),
                                            !.reading = @ \ {r}, !.clock = ClockAfter(at)]
            /\ newLost' = [newLost EXCEPT !.read = @ \cup ToSet(ReadAt(r, at))]
    BY <1>r
  <1> DEFINE kept == newFiles.kept
             n == Len(kept)
             m == Len(r.names)
             clock == ClockAfter(at)
             more == ReadAt(r, at)
             all == kept \o more
  <1>2. /\ r.pick \in Nat /\ r.since \in Nat /\ r.names \in Seq(FileNames)
        /\ kept \in Seq(Files) /\ newFiles.clock \in Nat
    BY DEF AttachedInv, FilesInv, Readings
  <1>3. n \in Nat /\ m \in Nat /\ DOMAIN r.names = 1 .. m /\ clock \in Nat
    BY <1>2, LenProperties
  <1>4. /\ more \in Seq(Files) /\ Len(more) = m /\ DOMAIN more = 1 .. m
        /\ \A i \in 1 .. m : more[i].pick = r.pick /\ more[i].place = i
    <2>1. \A i \in 1 .. m : at[i] \in Nat /\ r.names[i] \in FileNames
      BY <1>2, <1>3, ElementOfSeq
    <2>2. more = [i \in 1 .. m |-> [pick |-> r.pick, place |-> i, id |-> <<at[i], r.names[i]>>]]
      BY <1>3 DEF ReadAt
    <2> HIDE DEF more, m
    <2>3. \A i \in 1 .. m : more[i] \in Files /\ more[i].pick = r.pick /\ more[i].place = i
      BY <1>2, <1>3, <2>1, <2>2 DEF Files
    <2>4. more \in [1 .. m -> Files]
      BY <2>2, <2>3
    <2>5. more \in Seq(Files) /\ Len(more) = m /\ DOMAIN more = 1 .. m
      BY <1>3, <2>4, SeqDef, LenProperties
    <2>6. QED
      BY <2>3, <2>5
  <1> HIDE DEF more, kept, clock, m
  <1>5. /\ all \in Seq(Files) /\ Len(all) = n + m
        /\ \A i \in 1 .. n + m : all[i] = IF i <= n THEN kept[i] ELSE more[i - n]
    BY <1>2, <1>3, <1>4, ConcatProperties
  <1> HIDE DEF all
  <1>6. newFiles' = [newFiles EXCEPT !.kept = all, !.reading = @ \ {r}, !.clock = clock]
    BY <1>1 DEF Attached, all, more, kept, clock
  <1>7. /\ newFiles'.kept = all
        /\ newFiles'.picks = newFiles.picks
        /\ newFiles'.reading = newFiles.reading \ {r}
        /\ newFiles' \in [kept : Seq(Files), picks : Nat, reading : SUBSET Readings, clock : Nat]
    BY <1>3, <1>5, <1>6 DEF AttachedInv, FilesInv
  <1>8. /\ newLost'.read = newLost.read \cup {more[i] : i \in 1 .. m}
        /\ newLost'.removed = newLost.removed
        /\ newLost'.overlap = newLost.overlap
        /\ DOMAIN newLost' = {"read", "removed", "overlap"}
    <2>1. ToSet(more) = {more[i] : i \in 1 .. m}
      BY <1>4 DEF ToSet
    <2>2. QED
      BY <1>1, <2>1 DEF AttachedInv, FilesInv, more
  <1>9. \A i \in 1 .. n : all[i] = kept[i] /\ i \in 1 .. n + m
    BY <1>3, <1>5
  <1>10. \A i \in 1 .. m : all[n + i] = more[i] /\ n + i \in 1 .. n + m
    <2> TAKE i \in 1 .. m
    <2>1. n + i \in 1 .. n + m /\ ~(n + i <= n) /\ (n + i) - n = i
      BY <1>3
    <2>2. QED
      BY <1>5, <2>1
  <1>11. \A i \in 1 .. n + m : i \in 1 .. n \/ \E j \in 1 .. m : i = n + j
    <2> TAKE i \in 1 .. n + m
    <2>1. i \in 1 .. n \/ (i - n \in 1 .. m /\ i = n + (i - n))
      BY <1>3
    <2>2. QED
      BY <2>1
  <1>12. FilesInv'
    <2>1. /\ newLost.overlap \in BOOLEAN
          /\ \A i \in 1 .. n : kept[i] \in newLost.read
          /\ \A f \in newLost.read : \/ \E i \in 1 .. n : kept[i] = f
                                     \/ f.id \in newLost.removed
      BY DEF AttachedInv, FilesInv, kept, n
    <2>2. \A i \in 1 .. n + m : all[i] \in newLost'.read
      <3> TAKE i \in 1 .. n + m
      <3>1. CASE i \in 1 .. n
        BY <1>8, <1>9, <2>1, <3>1
      <3>2. ASSUME NEW j \in 1 .. m, i = n + j
            PROVE  all[i] \in newLost'.read
        BY <1>8, <1>10, <3>2
      <3>3. QED
        BY <1>11, <3>1, <3>2
    <2>3. \A f \in newLost'.read : \/ \E i \in 1 .. n + m : all[i] = f
                                   \/ f.id \in newLost'.removed
      BY <1>8, <1>9, <1>10, <2>1
    <2>4. QED
      BY <1>5, <1>7, <1>8, <2>1, <2>2, <2>3 DEF FilesInv
  <1>13. /\ \A i \in 1 .. n : kept[i].pick # r.pick /\ kept[i].pick <= newFiles.picks
         /\ \A i, j \in 1 .. n : i # j => \/ kept[i].pick # kept[j].pick
                                          \/ kept[i].place # kept[j].place
         /\ r.pick <= newFiles.picks
    BY DEF AttachedInv, PicksInv, kept, n
  <1>14. \A i, j \in 1 .. n + m : i # j => \/ all[i].pick # all[j].pick
                                           \/ all[i].place # all[j].place
    <2> SUFFICES ASSUME NEW i \in 1 .. n + m, NEW j \in 1 .. n + m, i # j
                 PROVE  all[i].pick # all[j].pick \/ all[i].place # all[j].place
      OBVIOUS
    <2>1. CASE i \in 1 .. n /\ j \in 1 .. n
      BY <1>9, <1>13, <2>1
    <2>2. CASE i \in 1 .. n /\ \E l \in 1 .. m : j = n + l
      BY <1>4, <1>9, <1>10, <1>13, <2>2
    <2>3. CASE j \in 1 .. n /\ \E l \in 1 .. m : i = n + l
      BY <1>4, <1>9, <1>10, <1>13, <2>3
    <2>4. ASSUME NEW k \in 1 .. m, NEW l \in 1 .. m, i = n + k, j = n + l
          PROVE  all[i].place # all[j].place
      <3>1. all[i].place = k /\ all[j].place = l
        BY <1>4, <1>10, <2>4
      <3>2. k # l
        BY <2>4
      <3>3. QED
        BY <3>1, <3>2
    <2>5. QED
      BY <1>11, <2>1, <2>2, <2>3, <2>4
  <1>15. \A i \in 1 .. n + m :
            /\ all[i].pick <= newFiles.picks
            /\ \A s \in newFiles.reading \ {r} : all[i].pick # s.pick
    <2> TAKE i \in 1 .. n + m
    <2>1. CASE i \in 1 .. n
      BY <1>9, <2>1 DEF AttachedInv, PicksInv, kept, n
    <2>2. CASE \E j \in 1 .. m : i = n + j
      BY <1>4, <1>10, <1>13, <2>2 DEF AttachedInv, PicksInv
    <2>3. QED
      BY <1>11, <2>1, <2>2
  <1>16. PicksInv'
    BY <1>5, <1>7, <1>14, <1>15 DEF AttachedInv, PicksInv
  <1>17. RoomInv'
    BY <1>5, <1>7, <1>8 DEF AttachedInv, RoomInv, kept, n, m
  <1>18. QED
    BY <1>12, <1>16, <1>17 DEF AttachedInv

LEMMA ReadFailsKeeps ==
    ASSUME AttachedInv, ReadFails
    PROVE  AttachedInv'
  <1>1. PICK r \in newFiles.reading : newFiles' = [newFiles EXCEPT !.reading = @ \ {r}]
    BY DEF ReadFails
  <1>2. /\ newFiles'.kept = newFiles.kept /\ newFiles'.picks = newFiles.picks
        /\ newFiles'.reading \subseteq newFiles.reading
        /\ newFiles' \in [kept : Seq(Files), picks : Nat, reading : SUBSET Readings, clock : Nat]
        /\ newLost' = newLost
    BY <1>1 DEF ReadFails, AttachedInv, FilesInv
  <1>3. FilesInv'
    BY <1>2 DEF AttachedInv, FilesInv
  <1>4. PicksInv'
    BY <1>2 DEF AttachedInv, PicksInv
  <1>5. RoomInv'
    BY <1>2 DEF AttachedInv, RoomInv
  <1>6. QED
    BY <1>3, <1>4, <1>5 DEF AttachedInv

LEMMA RemoveKeeps ==
    ASSUME AttachedInv, RemoveFile
    PROVE  AttachedInv'
  <1> DEFINE kept == newFiles.kept
             n == Len(kept)
  <1>1. PICK id : /\ newFiles' = [newFiles EXCEPT !.kept = Without(@, id)]
                  /\ newLost' = [newLost EXCEPT !.removed = @ \cup {id}]
    BY DEF RemoveFile
  <1> DEFINE left == Without(kept, id)
             m == Len(left)
  <1>2. kept \in Seq(Files)
    BY DEF AttachedInv, FilesInv
  <1>3. /\ left \in Seq(Files) /\ m <= n
        /\ \E at \in [1 .. m -> 1 .. n] :
              /\ \A k, l \in 1 .. m : k # l => at[k] # at[l]
              /\ \A k \in 1 .. m : left[k] = kept[at[k]] /\ kept[at[k]].id # id
              /\ \A i \in 1 .. n : kept[i].id # id => \E k \in 1 .. m : left[k] = kept[i]
    <2> HIDE DEF kept
    <2>1. left = Without(kept, id)
      OBVIOUS
    <2> HIDE DEF left
    <2>2. QED
      BY <1>2, <2>1, WithoutIs, SMTT(60)
  <1>4. PICK at \in [1 .. m -> 1 .. n] :
              /\ \A k, l \in 1 .. m : k # l => at[k] # at[l]
              /\ \A k \in 1 .. m : left[k] = kept[at[k]] /\ kept[at[k]].id # id
              /\ \A i \in 1 .. n : kept[i].id # id => \E k \in 1 .. m : left[k] = kept[i]
    BY <1>3
  <1>5. newFiles' = [newFiles EXCEPT !.kept = left]
    BY <1>1
  <1>6. n \in Nat /\ m \in Nat
    BY <1>2, <1>3, LenProperties
  <1> HIDE DEF left
  <1>7. /\ newFiles'.kept = left
        /\ newFiles'.picks = newFiles.picks
        /\ newFiles'.reading = newFiles.reading
        /\ newFiles' \in [kept : Seq(Files), picks : Nat, reading : SUBSET Readings, clock : Nat]
    BY <1>3, <1>5 DEF AttachedInv, FilesInv
  <1>8. /\ newLost'.read = newLost.read
        /\ newLost'.removed = newLost.removed \cup {id}
        /\ newLost'.overlap = newLost.overlap
        /\ DOMAIN newLost' = {"read", "removed", "overlap"}
    BY <1>1 DEF AttachedInv, FilesInv
  <1>9. \A k \in 1 .. m : at[k] \in 1 .. n /\ left[k] = kept[at[k]]
    BY <1>4
  <1>10. FilesInv'
    <2>1. /\ newLost.overlap \in BOOLEAN
          /\ \A i \in 1 .. n : kept[i] \in newLost.read
          /\ \A f \in newLost.read : \/ \E i \in 1 .. n : kept[i] = f
                                     \/ f.id \in newLost.removed
      BY DEF AttachedInv, FilesInv
    <2> HIDE DEF kept, n, m
    <2>2. \A k \in 1 .. m : left[k] \in newLost.read
      BY <1>9, <2>1
    <2>3. \A f \in newLost.read : \/ \E k \in 1 .. m : left[k] = f
                                  \/ f.id \in newLost.removed \cup {id}
      BY <1>4, <2>1
    <2>4. QED
      BY <1>7, <1>8, <2>1, <2>2, <2>3 DEF FilesInv, m
  <1>11. PicksInv'
    <2>1. /\ \A i, j \in 1 .. n : i # j => \/ kept[i].pick # kept[j].pick
                                           \/ kept[i].place # kept[j].place
          /\ \A i \in 1 .. n : /\ kept[i].pick <= newFiles.picks
                               /\ \A r \in newFiles.reading : kept[i].pick # r.pick
      BY DEF AttachedInv, PicksInv
    <2> HIDE DEF kept, n, m
    <2>2. \A k, l \in 1 .. m : k # l => \/ left[k].pick # left[l].pick
                                        \/ left[k].place # left[l].place
      BY <1>4, <1>9, <2>1
    <2>3. \A k \in 1 .. m : /\ left[k].pick <= newFiles.picks
                            /\ \A r \in newFiles.reading : left[k].pick # r.pick
      BY <1>9, <2>1
    <2>4. QED
      BY <1>7, <2>2, <2>3 DEF AttachedInv, PicksInv, m
  <1>12. RoomInv'
    <2>1. MaxAttachments \in Nat
      BY NewInvoiceAssumption
    <2>2. \A r \in newFiles.reading : Len(r.names) \in Nat
      BY LenProperties DEF AttachedInv, FilesInv, Readings
    <2>3. QED
      <3>1. Len(newFiles'.kept) = m /\ Len(newFiles.kept) = n /\ m <= n
        BY <1>3, <1>7
      <3> HIDE DEF kept, n, m
      <3>2. QED
        BY <1>6, <1>7, <1>8, <2>1, <2>2, <3>1 DEF AttachedInv, RoomInv
  <1>13. QED
    BY <1>10, <1>11, <1>12 DEF AttachedInv

LEMMA NextKeepsAttached == AttachedInv /\ [NewInvoiceNext]_newVars => AttachedInv'
  <1> SUFFICES ASSUME AttachedInv, [NewInvoiceNext]_newVars
               PROVE  AttachedInv'
    OBVIOUS
  <1>1. CASE PickFiles
    BY <1>1, PickKeeps
  <1>2. CASE FilesRead
    BY <1>2, ReadKeeps
  <1>3. CASE ReadFails
    BY <1>3, ReadFailsKeeps
  <1>4. CASE RemoveFile
    BY <1>4, RemoveKeeps
  <1>5. CASE UNCHANGED <<newFiles, newLost>>
    BY <1>5 DEF AttachedInv, FilesInv, PicksInv, RoomInv
  <1>6. QED
    BY <1>1, <1>2, <1>3, <1>4, <1>5
    DEF NewInvoiceNext, EditAndGenerate, AttachFiles, newVars, TypeNumber, TypeSeller,
        ToggleArchive, Prefill, Generate, Generated, NotGenerated, Archived, NotArchived

\* NewInvoicePage.tsx, onAddAttachments: in whatever order files are picked, read,
\* not read and removed, none is doubled, one that was read goes only with its id,
\* and the limit holds unless picks overlap.
THEOREM AttachmentsAreKept == NewInvoiceSpec => []AttachmentsKept
  <1>1. ASSUME AttachedInv
        PROVE  AttachmentsKept
    <2>1. newFiles.kept \in Seq(Files) /\ DOMAIN newFiles.kept = 1 .. Len(newFiles.kept)
      BY <1>1, LenProperties DEF AttachedInv, FilesInv
    <2>2. ToSet(newFiles.kept) = {newFiles.kept[i] : i \in 1 .. Len(newFiles.kept)}
      BY <2>1 DEF ToSet
    <2>3. QED
      BY <1>1, <2>1, <2>2 DEF AttachedInv, FilesInv, PicksInv, RoomInv, AttachmentsKept
  <1>2. QED
    BY <1>1, InitAttached, NextKeepsAttached, PTL DEF NewInvoiceSpec

-----------------------------------------------------------------------------
(* The types, with the bounds of the counters.                              *)

LEMMA NewInvoiceTypes ==
    ASSUME ArchiveInv, AttachedInv, NewInvoiceTypeOK, [NewInvoiceNext]_newVars
    PROVE  NewInvoiceTypeOK'
  <1>1. /\ newFiles.picks \in 0 .. MaxPicks /\ newAsked \in 0 .. MaxGenerates
        /\ MaxPicks \in Nat /\ MaxGenerates \in Nat
    BY NewInvoiceAssumption DEF NewInvoiceTypeOK
  <1>2. ArchiveInv' /\ AttachedInv'
    BY NextKeepsArchive, NextKeepsAttached
  <1>3. newPrefill' \in BOOLEAN
    BY DEF NewInvoiceTypeOK, NewInvoiceNext, EditAndGenerate, AttachFiles, TypeNumber, TypeSeller, ToggleArchive, Prefill,
           PickFiles, FilesRead, ReadFails, RemoveFile, Generate, Generated, NotGenerated, Archived,
           NotArchived, newVars
  <1>4. newAsked' \in 0 .. MaxGenerates
    <2>1. \/ newAsked' = newAsked
          \/ newAsked < MaxGenerates /\ newAsked' = newAsked + 1
      BY DEF NewInvoiceNext, EditAndGenerate, AttachFiles, TypeNumber, TypeSeller, ToggleArchive, Prefill, PickFiles,
             FilesRead, ReadFails, RemoveFile, Generate, Generated, NotGenerated, Archived, NotArchived,
             newVars
    <2>2. QED
      BY <1>1, <2>1
  <1>5. newFiles'.picks \in 0 .. MaxPicks
    <2>1. newFiles = [kept |-> newFiles.kept, picks |-> newFiles.picks,
                      reading |-> newFiles.reading, clock |-> newFiles.clock]
      BY DEF AttachedInv, FilesInv
    <2>2. CASE PickFiles
      <3>1. newFiles.picks < MaxPicks /\ newFiles'.picks = newFiles.picks + 1
        BY <2>1, <2>2 DEF PickFiles
      <3>2. QED
        BY <1>1, <3>1
    <2>3. CASE FilesRead
      BY <1>1, <2>1, <2>3 DEF FilesRead
    <2>4. CASE RemoveFile
      BY <1>1, <2>1, <2>4 DEF RemoveFile
    <2>r. CASE ReadFails
      BY <1>1, <2>1, <2>r DEF ReadFails
    <2>5. ASSUME ~PickFiles, ~FilesRead, ~ReadFails, ~RemoveFile
          PROVE  UNCHANGED newFiles
      BY <2>5 DEF NewInvoiceNext, EditAndGenerate, AttachFiles, TypeNumber, TypeSeller, ToggleArchive, Prefill, Generate,
                  Generated, NotGenerated, Archived, NotArchived, newVars
    <2>6. QED
      BY <1>1, <2>2, <2>3, <2>r, <2>4, <2>5
  <1>6. newShown'.id \in 0 .. Len(newArchive') /\ newShown'.busy \in BOOLEAN
        /\ newForm' \in Form
    <2>1. Len(newArchive') \in Nat
      BY <1>2, LenProperties DEF ArchiveInv, ShapeInv
    <2>2. QED
      BY <1>2, <2>1 DEF ArchiveInv, ShapeInv, NewPage
  <1>7. QED
    BY <1>3, <1>4, <1>5, <1>6 DEF NewInvoiceTypeOK, Form
=============================================================================

--------------------------- MODULE ArchiveProofs ---------------------------
(***************************************************************************)
(* Theorems of Archive, for any number of processes and workers, any set   *)
(* of documents and any archive left by an earlier version.                *)
(***************************************************************************)
EXTENDS Archive, SequenceTheorems, TLAPS

-----------------------------------------------------------------------------
(* The inductive invariant.                                                *)

\* The transaction belongs to the one worker that is past its first INSERT.
LockInv == \A w \in Workers : step[w] \in {"link", "commit"} <=> lock = w

\* A worker has arguments while it is in a call, a result at its end, and
\* works in an open process.
CallInv ==
    \A w \in Workers :
        /\ step[w] = "idle" <=> req[w] = Nobody
        /\ step[w] = "answered" <=> out[w] # Nobody
        /\ step[w] # "idle" => proc[ProcOf[w]] = "open"

\* While the transaction is open, its external id stays free.
FreshInv ==
    \A w \in Workers : lock = w => RowsWith(ExternalId(req[w])) = {}

\* The head that was read inside the transaction is still the head.
HeadInv == \A w \in Workers : step[w] = "commit" => head = LatestHash(links)

\* The links seal no row or all of them; all of them once a process is open.
CoverInv ==
    /\ DOMAIN links = {} \/ DOMAIN links = DOMAIN invoices
    /\ (\E p \in Procs : proc[p] = "open") => DOMAIN links = DOMAIN invoices
    /\ \A p \in Procs : counted[p] => DOMAIN links # {}

\* Rows loaded for a backfill that may still commit are all the rows there are.
LoadInv ==
    \A p \in Procs :
        /\ proc[p] = "load" => invoices # <<>>
        /\ proc[p] = "backfill" => snap[p] # <<>>
        /\ proc[p] = "backfill" /\ DOMAIN links = {} => snap[p] = invoices

\* Each link extends the hash of the one before it with the digest of its row.
Prior(lnk, k) == IF k = 1 THEN Genesis ELSE lnk[k - 1].hash
ChainInv ==
    \A k \in DOMAIN links : links[k] = NewLink(Prior(links, k), k, invoices[k])

IInv ==
    /\ TypeOK
    /\ LockInv
    /\ CallInv
    /\ FreshInv
    /\ HeadInv
    /\ CoverInv
    /\ LoadInv
    /\ ChainInv
    /\ UniqueExternalIds
    /\ AnswersAreTrue

-----------------------------------------------------------------------------
(* The operators of the chain.                                             *)

\* The greatest of 1 .. n is n.
LEMMA MaxInterval == ASSUME NEW n \in Nat \ {0} PROVE Max(1 .. n) = n
<1>1. n \in 1 .. n /\ \A y \in 1 .. n : n >= y
  OBVIOUS
<1>2. \A x \in 1 .. n : (\A y \in 1 .. n : x >= y) => x = n
  <2>1. ASSUME NEW x \in 1 .. n, \A y \in 1 .. n : x >= y PROVE x = n
    <3>1. x >= n /\ x <= n /\ x \in Nat
      BY <2>1
    <3>2. QED BY <3>1
  <2>2. QED BY <2>1
<1>3. QED BY <1>1, <1>2, Zenon DEF Max

\* A row's fields.
LEMMA RowOfType == ASSUME NEW r \in Requests PROVE RowOf(r) \in Row
  BY ConstantsOK DEF Row, RowOf, ExternalId, ExtIds

\* A link made from a hash and a row is a link.
LEMMA NewLinkType ==
  ASSUME NEW prev \in Hashes, NEW id \in Nat, NEW row \in Row
  PROVE  NewLink(prev, id, row) \in Link
<1>1. Digest(id, row) \in Digests
  BY DEF Digest, Digests, Row
<1>2. LinkHash(prev, Digest(id, row)) \in Hashes
  BY <1>1 DEF LinkHash, Hashes
<1>3. QED BY <1>2 DEF NewLink, Link

\* What backfillChain writes for a row is what insertWithChain would have
\* written, had it been there when the row was stored.
LEMMA SealAllChain ==
  ASSUME NEW rows \in Seq(Row)
  PROVE  /\ DOMAIN SealAll(rows) = 1 .. Len(rows)
         /\ SealAll(rows) \in [1 .. Len(rows) -> Link]
         /\ \A k \in 1 .. Len(rows) :
                SealAll(rows)[k] = NewLink(Prior(SealAll(rows), k), k, rows[k])
<1>1. \A k \in 0 .. Len(rows) : SealUpTo(rows, k) \in Hashes
  <2>1. ASSUME NEW k \in 0 .. Len(rows) PROVE SealUpTo(rows, k) \in Hashes
    <3>1. \A i \in 1 .. k : i \in Nat /\ rows[i] \in Row
      OBVIOUS
    <3>2. \A i \in 1 .. k : Digest(i, rows[i]) \in Digests
      BY <3>1 DEF Digest, Digests, Row
    <3>3. SealUpTo(rows, k) \in [1 .. k -> Digests]
      BY <3>2 DEF SealUpTo
    <3>4. k \in Nat
      OBVIOUS
    <3>5. QED BY <3>3, <3>4 DEF Hashes, Seq
  <2>2. QED BY <2>1
<1>2. \A k \in 1 .. Len(rows) : SealAll(rows)[k] \in Link
  BY <1>1, NewLinkType DEF SealAll
<1>3. ASSUME NEW k \in 1 .. Len(rows)
      PROVE  SealAll(rows)[k] = NewLink(Prior(SealAll(rows), k), k, rows[k])
  <2>1. CASE k = 1
    BY <2>1 DEF SealAll, SealUpTo, Prior, Genesis
  <2>2. CASE k > 1
    <3>1. k - 1 \in 1 .. Len(rows)
      BY <2>2
    <3>2. Prior(SealAll(rows), k) = LinkHash(SealUpTo(rows, k - 2), Digest(k - 1, rows[k - 1]))
      BY <3>1, <2>2 DEF SealAll, NewLink, Prior
    <3>3. SealUpTo(rows, k - 1) = LinkHash(SealUpTo(rows, k - 2), Digest(k - 1, rows[k - 1]))
      <4> DEFINE D(i) == Digest(i, rows[i])
      <4>1. k - 1 \in Nat /\ k - 2 \in Nat /\ (k - 2) + 1 = k - 1
        BY <2>2
      <4>2. [i \in 1 .. k - 1 |-> D(i)] = Append([i \in 1 .. k - 2 |-> D(i)], D(k - 1))
        <5> HIDE DEF D
        <5>1. QED BY <4>1
      <4>3. QED BY <4>2 DEF SealUpTo, LinkHash
    <3>4. QED BY <3>2, <3>3 DEF SealAll
  <2>3. QED BY <2>1, <2>2
<1>4. QED BY <1>2, <1>3 DEF SealAll

\* The head of a chain without gaps is what the next link must extend.
LEMMA LatestIsPrior ==
  ASSUME NEW n \in Nat, NEW lnk, DOMAIN lnk = 1 .. n
  PROVE  LatestHash(lnk) = Prior(lnk, n + 1)
<1>1. CASE n = 0
  BY <1>1 DEF LatestHash, Prior
<1>2. CASE n # 0
  <2>1. Max(DOMAIN lnk) = n
    BY <1>2, MaxInterval
  <2>2. DOMAIN lnk # {} /\ n + 1 # 1 /\ (n + 1) - 1 = n
    BY <1>2
  <2>3. QED BY <2>1, <2>2 DEF LatestHash, Prior
<1>3. QED BY <1>1, <1>2

-----------------------------------------------------------------------------
(* The invariant holds at the start and is kept by every action.           *)

LEMMA InitIInv == Init => IInv
<1> SUFFICES ASSUME Init PROVE IInv
  OBVIOUS
<1>1. invoices \in Seq(Row) /\ DOMAIN links = {} /\ links \in [DOMAIN links -> Link]
  <2>1. links \in Seq(Link) /\ Len(links) = 0
    BY DEF Init
  <2>2. links \in [1 .. 0 -> Link] /\ 1 .. 0 = {}
    BY <2>1
  <2>3. invoices \in Seq(Row)
    BY LegacyOK, EmptySeq DEF Init
  <2>4. QED BY <2>2, <2>3
<1>2. TypeOK
  <2>1. head \in Hashes /\ snap \in [Procs -> Seq(Row)]
    BY EmptySeq DEF Init, Hashes, Genesis
  <2>2. crashes \in 0 .. MaxCrashes
    BY ConstantsOK DEF Init
  <2>3. QED BY <1>1, <2>1, <2>2 DEF Init, TypeOK, ProcStates, StepStates
<1>3. LockInv /\ FreshInv
  BY ConstantsOK DEF Init, LockInv, FreshInv
<1>4. CallInv /\ HeadInv /\ CoverInv /\ LoadInv /\ ChainInv /\ AnswersAreTrue
  BY <1>1 DEF Init, CallInv, HeadInv, CoverInv, LoadInv, ChainInv, AnswersAreTrue
<1>5. UniqueExternalIds
  BY LegacyOK DEF Init, UniqueExternalIds
<1>6. QED BY <1>2, <1>3, <1>4, <1>5 DEF IInv

\* The parts of the invariant that speak of the tables and the transaction
\* alone: no step that leaves these alone can disturb them.
LEMMA TablesKept ==
  ASSUME IInv, UNCHANGED <<invoices, links, lock, head>>,
         UNCHANGED <<step, req, out>>
  PROVE  /\ LockInv' /\ FreshInv' /\ HeadInv' /\ ChainInv'
         /\ UniqueExternalIds' /\ AnswersAreTrue'
BY DEF IInv, LockInv, FreshInv, HeadInv, ChainInv, UniqueExternalIds,
       AnswersAreTrue, RowsWith, Prior, LatestHash

\* Open, up to the backfill: only the process's own progress changes.
LEMMA OpenKeeps ==
  ASSUME IInv, NEW p \in Procs,
         StartOpen(p) \/ CheckColumn(p) \/ AlterTable(p) \/ CountLinks(p)
            \/ CountInvoices(p) \/ LoadRows(p)
  PROVE  IInv'
<1> USE DEF IInv
<1>1. UNCHANGED <<invoices, links, lock, head, step, req, out>>
  BY DEF StartOpen, CheckColumn, AlterTable, CountLinks, CountInvoices, LoadRows,
         fileVars, workVars
<1>2. TypeOK'
  BY <1>1 DEF TypeOK, StartOpen, CheckColumn, AlterTable, CountLinks, CountInvoices,
              LoadRows, fileVars, workVars, ProcStates
<1>3. CallInv'
  BY <1>1, ConstantsOK DEF TypeOK, CallInv, StartOpen, CheckColumn, AlterTable,
              CountLinks, CountInvoices, LoadRows
<1>4. CoverInv'
  <2>1. CASE CountInvoices(p)
    <3>1. SkipsBackfill(p) => DOMAIN links = DOMAIN invoices
      <4>1. CASE counted[p]
        BY <4>1 DEF CoverInv
      <4>2. CASE invoices = <<>>
        <5>1. DOMAIN invoices = {}
          BY <4>2
        <5>2. QED BY <5>1 DEF TypeOK
      <4>3. QED BY <4>1, <4>2 DEF SkipsBackfill
    <3>2. QED BY <1>1, <2>1, <3>1 DEF TypeOK, CoverInv, CountInvoices
  <2>2. CASE CountLinks(p)
    BY <1>1, <2>2 DEF TypeOK, CoverInv, CountLinks
  <2>3. CASE StartOpen(p) \/ CheckColumn(p) \/ AlterTable(p) \/ LoadRows(p)
    BY <1>1, <2>3 DEF TypeOK, CoverInv, StartOpen, CheckColumn, AlterTable, LoadRows
  <2>4. QED BY <2>1, <2>2, <2>3
<1>5. LoadInv'
  BY <1>1 DEF TypeOK, LoadInv, StartOpen, CheckColumn, AlterTable, CountLinks,
              CountInvoices, LoadRows, SkipsBackfill
<1>6. QED BY <1>1, <1>2, <1>3, <1>4, <1>5, TablesKept

\* The backfill: its links appear on a table that holds none, and then they
\* seal every row, or it finds one of them there and changes nothing.
LEMMA BackfillKeeps ==
  ASSUME IInv, NEW p \in Procs, BackfillChain(p)
  PROVE  IInv'
<1> USE DEF IInv
<1> DEFINE n == Len(invoices)
<1>1. /\ proc[p] = "backfill" /\ lock = Nobody
      /\ UNCHANGED <<invoices, column, lock, head, counted, step, req, out, crashes>>
      /\ snap' = [snap EXCEPT ![p] = <<>>]
  BY DEF BackfillChain, workVars
<1>2. n \in Nat /\ DOMAIN invoices = 1 .. n
  BY DEF TypeOK
<1>3. snap[p] \in Seq(Row) /\ DOMAIN snap[p] = 1 .. Len(snap[p]) /\ Len(snap[p]) \in Nat \ {0}
  BY <1>1, EmptySeq DEF TypeOK, LoadInv
<1>4. snap' \in [Procs -> Seq(Row)]
  BY <1>1, EmptySeq DEF TypeOK
<1>5. CASE DOMAIN links = {}
  <2>1. snap[p] = invoices
    BY <1>1, <1>5 DEF LoadInv
  <2>2. proc' = [proc EXCEPT ![p] = "open"]
    BY <1>5 DEF BackfillChain, SealLoaded
  <2>3. links' = [i \in 1 .. n |-> SealAll(invoices)[i]]
    BY <1>2, <1>5, <2>1 DEF BackfillChain, SealLoaded
  <2>4. links' = SealAll(invoices)
    BY <2>3 DEF SealAll
  <2>5. /\ DOMAIN links' = 1 .. n
        /\ links' \in [1 .. n -> Link]
    BY <2>4, SealAllChain DEF TypeOK
  <2>6. ChainInv'
    BY <1>1, <2>4, <2>5, SealAllChain DEF TypeOK, ChainInv, Prior
  <2>7. TypeOK'
    BY <1>1, <1>2, <1>4, <2>2, <2>5 DEF TypeOK, ProcStates
  <2>8. LockInv' /\ FreshInv' /\ UniqueExternalIds' /\ AnswersAreTrue'
    BY <1>1 DEF LockInv, FreshInv, UniqueExternalIds, AnswersAreTrue, RowsWith
  <2>9. HeadInv'
    BY <1>1, ConstantsOK DEF HeadInv, LockInv
  <2>10. CallInv'
    BY <1>1, <2>2, ConstantsOK DEF TypeOK, CallInv
  <2>11. CoverInv' /\ LoadInv'
    <3>1. DOMAIN links' = DOMAIN invoices' /\ DOMAIN links' # {}
      BY <1>1, <1>2, <1>3, <2>1, <2>5
    <3>2. QED BY <1>1, <2>2, <3>1 DEF TypeOK, CoverInv, LoadInv
  <2>12. QED BY <2>6, <2>7, <2>8, <2>9, <2>10, <2>11
<1>6. CASE DOMAIN links # {}
  <2>1. DOMAIN links = 1 .. n
    BY <1>2, <1>6 DEF CoverInv
  <2>2. 1 \in DOMAIN snap[p] \cap DOMAIN links
    BY <1>2, <1>3, <1>6, <2>1
  <2>3. links' = links /\ proc' = [proc EXCEPT ![p] = "closed"]
    BY <2>2 DEF BackfillChain, SealLoaded
  <2>4. TypeOK'
    BY <1>1, <1>4, <2>3 DEF TypeOK, ProcStates
  <2>5. CallInv'
    BY <1>1, <2>3, ConstantsOK DEF TypeOK, CallInv
  <2>6. CoverInv' /\ LoadInv'
    BY <1>1, <1>6, <2>3 DEF TypeOK, CoverInv, LoadInv
  <2>7. QED BY <1>1, <2>3, <2>4, <2>5, <2>6, TablesKept
<1>7. QED BY <1>5, <1>6

\* The end of a process touches no table; it drops what its workers held.
LEMMA EndKeeps ==
  ASSUME IInv, NEW p \in Procs, Close(p) \/ Crash(p)
  PROVE  IInv'
<1> USE DEF IInv
<1>1. CASE Close(p)
  <2>1. UNCHANGED <<invoices, links, column, lock, head, counted, snap, step, req, out, crashes>>
    BY <1>1 DEF Close, fileVars, workVars
  <2>2. TypeOK'
    BY <1>1, <2>1 DEF TypeOK, Close, ProcStates
  <2>3. CallInv'
    BY <1>1, <2>1, ConstantsOK DEF TypeOK, CallInv, Close, WorkersOf
  <2>4. CoverInv' /\ LoadInv'
    BY <1>1, <2>1 DEF TypeOK, CoverInv, LoadInv, Close
  <2>5. QED BY <2>1, <2>2, <2>3, <2>4, TablesKept
<1>2. CASE Crash(p)
  <2>1. UNCHANGED <<invoices, links, column>>
    BY <1>2 DEF Crash, fileVars
  <2>2. \A w \in Workers : w \notin WorkersOf(p) =>
            step'[w] = step[w] /\ req'[w] = req[w] /\ out'[w] = out[w]
    BY <1>2 DEF Crash
  <2>3. \A w \in WorkersOf(p) : step'[w] = "idle" /\ req'[w] = Nobody /\ out'[w] = Nobody
    BY <1>2 DEF Crash, WorkersOf
  <2>4. /\ lock \in WorkersOf(p) => lock' = Nobody
        /\ lock \notin WorkersOf(p) => lock' = lock /\ head' = head
    BY <1>2 DEF Crash
  <2>5. TypeOK'
    <3>1. snap' \in [Procs -> Seq(Row)]
      BY <1>2, EmptySeq DEF Crash, TypeOK
    <3>2. head' \in Hashes
      BY <1>2, EmptySeq DEF Crash, TypeOK, Hashes, Genesis
    <3>3. /\ step' \in [Workers -> StepStates]
          /\ req' \in [Workers -> Requests \cup {Nobody}]
      BY <1>2 DEF Crash, TypeOK, StepStates
    <3>4. out' \in [Workers -> {Nobody, Failed}
                    \cup {Stored(i) : i \in DOMAIN invoices}
                    \cup {Duplicate(i) : i \in DOMAIN invoices}]
      BY <1>2 DEF Crash, TypeOK
    <3>5. /\ proc' \in [Procs -> ProcStates] /\ counted' \in [Procs -> BOOLEAN]
          /\ lock' \in Workers \cup {Nobody} /\ crashes' \in 0 .. MaxCrashes
      BY <1>2, ConstantsOK DEF Crash, TypeOK, ProcStates
    <3>6. QED BY <2>1, <3>1, <3>2, <3>3, <3>4, <3>5 DEF TypeOK
  <2>6. LockInv'
    BY <2>2, <2>3, <2>4, ConstantsOK DEF LockInv, WorkersOf
  <2>7. CallInv'
    BY <1>2, <2>2, <2>3, ConstantsOK DEF Crash, TypeOK, CallInv, WorkersOf
  <2>8. FreshInv'
    <3>1. ASSUME NEW w \in Workers, lock' = w PROVE RowsWith(ExternalId(req[w]))' = {}
      <4>1. lock = w /\ w \notin WorkersOf(p)
        BY <2>4, <3>1, ConstantsOK DEF WorkersOf
      <4>2. req'[w] = req[w]
        BY <2>2, <4>1
      <4>3. QED BY <2>1, <4>1, <4>2 DEF FreshInv, RowsWith, ExternalId
    <3>2. QED BY <3>1 DEF FreshInv
  <2>9. HeadInv'
    <3>1. ASSUME NEW w \in Workers, step'[w] = "commit" PROVE head' = LatestHash(links)'
      <4>1. w \notin WorkersOf(p) /\ step[w] = "commit"
        BY <2>2, <2>3, <3>1
      <4>2. lock = w
        BY <4>1 DEF LockInv
      <4>3. head' = head
        BY <2>4, <4>1, <4>2
      <4>4. QED BY <2>1, <4>1, <4>3 DEF HeadInv, LatestHash
    <3>2. QED BY <3>1 DEF HeadInv
  <2>10. CoverInv' /\ LoadInv'
    BY <1>2, <2>1 DEF Crash, TypeOK, CoverInv, LoadInv
  <2>11. ChainInv' /\ UniqueExternalIds'
    BY <2>1 DEF ChainInv, UniqueExternalIds, Prior
  <2>12. AnswersAreTrue'
    <3>1. ASSUME NEW w \in Workers, step'[w] = "answered"
          PROVE  step[w] = "answered" /\ out'[w] = out[w] /\ req'[w] = req[w]
      BY <2>2, <2>3, <3>1
    <3>2. QED BY <2>1, <3>1 DEF AnswersAreTrue, ExternalId
  <2>13. QED BY <2>5, <2>6, <2>7, <2>8, <2>9, <2>10, <2>11, <2>12
<1>3. QED BY <1>1, <1>2

\* A duplicate is answered with a row under that external id.
LEMMA ExistingIsThere ==
  ASSUME NEW ext
  PROVE  \/ Existing(ext) = Failed /\ RowsWith(ext) = {}
         \/ \E i \in DOMAIN invoices :
                Existing(ext) = Duplicate(i) /\ invoices[i].ext = ext
<1>1. CASE RowsWith(ext) = {}
  BY <1>1 DEF Existing
<1>2. CASE RowsWith(ext) # {}
  <2>1. (CHOOSE i \in RowsWith(ext) : TRUE) \in RowsWith(ext)
    BY <1>2
  <2>2. Existing(ext) = Duplicate(CHOOSE i \in RowsWith(ext) : TRUE)
    BY <1>2 DEF Existing
  <2>3. QED BY <2>1, <2>2 DEF RowsWith
<1>3. QED BY <1>1, <1>2

\* The steps of a call that leave the tables alone.
CallStep(w) ==
    \/ \E r \in Requests : Ingest(w, r)
    \/ Lookup(w) \/ LookupFails(w) \/ InsertRow(w) \/ ReadHead(w)
    \/ InsertFails(w) \/ Recheck(w) \/ RecheckFails(w) \/ Return(w)

\* Where such a step can take its worker, and what it does to the lock.
LEMMA CallMoves ==
  ASSUME IInv, NEW w \in Workers, CallStep(w)
  PROVE  /\ UNCHANGED <<invoices, links, column, proc, counted, snap, crashes>>
         /\ \E s \in StepStates : step' = [step EXCEPT ![w] = s]
         /\ step'[w] = "idle" <=> req'[w] = Nobody
         /\ req' = req \/ \E r \in Requests \cup {Nobody} : req' = [req EXCEPT ![w] = r]
         /\ lock' = lock \/ (lock = Nobody /\ lock' = w) \/ (lock = w /\ lock' = Nobody)
         /\ step'[w] \in {"link", "commit"} <=> lock' = w
         /\ proc[ProcOf[w]] = "open"
<1> USE DEF IInv
<1>1. UNCHANGED <<invoices, links, column, proc, counted, snap, crashes>>
  BY DEF CallStep, Ingest, Lookup, LookupFails, InsertRow, ReadHead, InsertFails,
         Recheck, RecheckFails, Return, fileVars, openVars
<1>2. \E s \in StepStates : step' = [step EXCEPT ![w] = s]
  BY DEF CallStep, Ingest, Lookup, LookupFails, InsertRow, ReadHead, InsertFails,
         Recheck, RecheckFails, Return, Finish, Goto, StepStates
<1>3. step'[w] = "idle" <=> req'[w] = Nobody
  BY ConstantsOK DEF TypeOK, CallInv, CallStep, Ingest, Lookup, LookupFails, InsertRow,
         ReadHead, InsertFails, Recheck, RecheckFails, Return, Finish, Goto
<1>4. req' = req \/ \E r \in Requests \cup {Nobody} : req' = [req EXCEPT ![w] = r]
  BY DEF CallStep, Ingest, Lookup, LookupFails, InsertRow, ReadHead, InsertFails,
         Recheck, RecheckFails, Return, Finish, Goto
<1>5. /\ lock' = lock \/ (lock = Nobody /\ lock' = w) \/ (lock = w /\ lock' = Nobody)
      /\ step'[w] \in {"link", "commit"} <=> lock' = w
  BY ConstantsOK DEF TypeOK, LockInv, CallStep, Ingest, Lookup, LookupFails, InsertRow,
         ReadHead, InsertFails, Recheck, RecheckFails, Return, Finish, Goto, Release
<1>6. proc[ProcOf[w]] = "open"
  BY DEF CallInv, CallStep, Ingest, Lookup, LookupFails, InsertRow, ReadHead,
         InsertFails, Recheck, RecheckFails, Return
<1>7. QED BY <1>1, <1>2, <1>3, <1>4, <1>5, <1>6

\* What such a step reports.
LEMMA CallReports ==
  ASSUME IInv, NEW w \in Workers, CallStep(w)
  PROVE  /\ \/ out' = out
            \/ out' = [out EXCEPT ![w] = Nobody]
            \/ out' = [out EXCEPT ![w] = Failed]
            \/ \E i \in DOMAIN invoices :
                   /\ out' = [out EXCEPT ![w] = Duplicate(i)]
                   /\ req' = req
                   /\ invoices[i].ext = ExternalId(req[w])
         /\ step'[w] = "answered" <=> out'[w] # Nobody
         /\ step'[w] = "answered" => out'[w].kind # "stored"
<1> USE DEF IInv
<1>1. CASE \/ \E r \in Requests : Ingest(w, r)
           \/ LookupFails(w) \/ InsertRow(w) \/ ReadHead(w) \/ Return(w)
  BY <1>1 DEF TypeOK, CallInv, Ingest, LookupFails, InsertRow, ReadHead, Return, Goto
<1>2. Failed # Nobody /\ \A i \in DOMAIN invoices : Duplicate(i) # Nobody
  BY ConstantsOK DEF Result, Failed, Duplicate, TypeOK
<1>3. CASE InsertFails(w) \/ RecheckFails(w)
  BY <1>2, <1>3 DEF TypeOK, InsertFails, RecheckFails, Finish, Failed
<1>4. CASE Lookup(w) \/ Recheck(w)
  <2> DEFINE ext == ExternalId(req[w])
  <2>1. CASE step' = [step EXCEPT ![w] = "insert"] /\ UNCHANGED <<req, out>>
    BY <1>4, <2>1 DEF TypeOK, CallInv, Lookup, Recheck
  <2>2. CASE Finish(w, Existing(ext))
    <3> HIDE DEF ext
    <3>1. PICK e : e = Existing(ext)
      OBVIOUS
    <3>2. e = Failed \/ \E i \in DOMAIN invoices : e = Duplicate(i) /\ invoices[i].ext = ext
      BY <3>1, ExistingIsThere
    <3>3. out' = [out EXCEPT ![w] = e] /\ req' = req /\ step'[w] = "answered" /\ out'[w] = e
      BY <2>2, <3>1 DEF Finish, TypeOK
    <3>4. e # Nobody /\ e.kind # "stored"
      BY <1>2, <3>2 DEF Failed, Duplicate
    <3>5. QED BY <3>2, <3>3, <3>4 DEF ext
  <2>3. QED BY <1>4, <2>1, <2>2 DEF Lookup, Recheck, Goto
<1>5. QED BY <1>1, <1>3, <1>4 DEF CallStep

\* The lock is taken only for an external id that is free, the head is read
\* only under the lock.
LEMMA CallUnderLock ==
  ASSUME IInv, NEW w \in Workers, CallStep(w)
  PROVE  /\ lock' = w => /\ req'[w] = req[w]
                         /\ RowsWith(ExternalId(req[w])) = {}
         /\ head' = head \/ lock = w
         /\ step'[w] = "commit" => head' = LatestHash(links)
<1> USE DEF IInv
<1>1. CASE InsertRow(w)
  <2>1. step[w] = "insert" /\ req' = req /\ head' = head /\ step'[w] # "commit"
    BY <1>1 DEF InsertRow, Goto, TypeOK
  <2>2. lock' = w => RowsWith(ExternalId(req[w])) = {}
    BY <1>1, ConstantsOK DEF InsertRow, UniqueViolation
  <2>3. QED BY <2>1, <2>2
<1>2. CASE ReadHead(w)
  <2>1. /\ req' = req /\ lock' = lock /\ lock = w
        /\ head' = LatestHash(links)
    BY <1>2 DEF ReadHead, Goto, LockInv
  <2>2. QED BY <2>1 DEF FreshInv
<1>3. CASE InsertFails(w)
  BY <1>3, ConstantsOK DEF InsertFails, Release, Finish, TypeOK
<1>4. CASE \/ \E r \in Requests : Ingest(w, r)
           \/ Lookup(w) \/ LookupFails(w) \/ Recheck(w) \/ RecheckFails(w) \/ Return(w)
  BY <1>4, ConstantsOK DEF Ingest, Lookup, LookupFails, Recheck, RecheckFails, Return,
                           Finish, Goto, TypeOK, LockInv
<1>5. QED BY <1>1, <1>2, <1>3, <1>4 DEF CallStep

\* The head of the chain is a hash.
LEMMA LatestHashType == IInv => LatestHash(links) \in Hashes
<1> SUFFICES ASSUME IInv PROVE LatestHash(links) \in Hashes
  OBVIOUS
<1> USE DEF IInv
<1>1. CASE DOMAIN links = {}
  BY <1>1, EmptySeq DEF LatestHash, Genesis, Hashes
<1>2. CASE DOMAIN links # {}
  <2>1. DOMAIN links = 1 .. Len(invoices) /\ Len(invoices) \in Nat
    BY <1>2 DEF CoverInv, TypeOK
  <2>2. LatestHash(links) = links[Len(invoices)].hash /\ Len(invoices) \in DOMAIN links
    BY <1>2, <2>1, LatestIsPrior DEF Prior
  <2>3. QED BY <2>2 DEF TypeOK, Link
<1>3. QED BY <1>1, <1>2

LEMMA CallKeeps ==
  ASSUME IInv, NEW w \in Workers, CallStep(w)
  PROVE  IInv'
<1> USE DEF IInv
<1>1. /\ UNCHANGED <<invoices, links, column, proc, counted, snap, crashes>>
      /\ \E s \in StepStates : step' = [step EXCEPT ![w] = s]
      /\ step'[w] = "idle" <=> req'[w] = Nobody
      /\ req' = req \/ \E r \in Requests \cup {Nobody} : req' = [req EXCEPT ![w] = r]
      /\ lock' = lock \/ (lock = Nobody /\ lock' = w) \/ (lock = w /\ lock' = Nobody)
      /\ step'[w] \in {"link", "commit"} <=> lock' = w
      /\ proc[ProcOf[w]] = "open"
  BY CallMoves
<1>2. /\ \/ out' = out
         \/ out' = [out EXCEPT ![w] = Nobody]
         \/ out' = [out EXCEPT ![w] = Failed]
         \/ \E i \in DOMAIN invoices :
                /\ out' = [out EXCEPT ![w] = Duplicate(i)]
                /\ req' = req
                /\ invoices[i].ext = ExternalId(req[w])
      /\ step'[w] = "answered" <=> out'[w] # Nobody
      /\ step'[w] = "answered" => out'[w].kind # "stored"
  BY CallReports
<1>3. /\ lock' = w => req'[w] = req[w] /\ RowsWith(ExternalId(req[w])) = {}
      /\ head' = head \/ lock = w
      /\ step'[w] = "commit" => head' = LatestHash(links)
  BY CallUnderLock
<1>4. \A v \in Workers \ {w} : step'[v] = step[v] /\ req'[v] = req[v] /\ out'[v] = out[v]
  BY <1>1, <1>2 DEF TypeOK
<1>5. TypeOK'
  <2>1. head' \in Hashes
    <3>1. head' = head \/ head' = LatestHash(links) \/ head' = Genesis
      BY DEF CallStep, Ingest, Lookup, LookupFails, InsertRow, ReadHead, InsertFails,
             Recheck, RecheckFails, Return
    <3>2. QED BY <3>1, LatestHashType, EmptySeq DEF TypeOK, Genesis, Hashes
  <2>2. step' \in [Workers -> StepStates] /\ req' \in [Workers -> Requests \cup {Nobody}]
    BY <1>1 DEF TypeOK
  <2>3. lock' \in Workers \cup {Nobody}
    BY <1>1 DEF TypeOK
  <2>4. out' \in [Workers -> {Nobody, Failed}
                  \cup {Stored(i) : i \in DOMAIN invoices}
                  \cup {Duplicate(i) : i \in DOMAIN invoices}]
    BY <1>2 DEF TypeOK
  <2>5. QED BY <1>1, <2>1, <2>2, <2>3, <2>4 DEF TypeOK
<1>6. LockInv'
  BY <1>1, <1>4, ConstantsOK DEF LockInv
<1>7. CallInv'
  BY <1>1, <1>2, <1>4 DEF CallInv
<1>8. FreshInv'
  <2>1. ASSUME NEW v \in Workers, lock' = v PROVE RowsWith(ExternalId(req[v]))' = {}
    <3>1. req'[v] = req[v] /\ RowsWith(ExternalId(req[v])) = {}
      BY <1>1, <1>3, <1>4, <2>1, ConstantsOK DEF FreshInv
    <3>2. QED BY <1>1, <3>1 DEF RowsWith, ExternalId
  <2>2. QED BY <2>1 DEF FreshInv
<1>9. HeadInv'
  <2>1. ASSUME NEW v \in Workers, v # w, step'[v] = "commit"
        PROVE  head' = LatestHash(links)
    <3>1. step[v] = "commit" /\ lock = v
      BY <1>4, <2>1 DEF LockInv
    <3>2. QED BY <1>3, <2>1, <3>1 DEF HeadInv
  <2>2. QED BY <1>1, <1>3, <2>1 DEF HeadInv, LatestHash
<1>10. CoverInv' /\ LoadInv' /\ ChainInv' /\ UniqueExternalIds'
  BY <1>1 DEF CoverInv, LoadInv, ChainInv, UniqueExternalIds, Prior
<1>11. AnswersAreTrue'
  <2>1. ASSUME NEW v \in Workers, v # w, step'[v] = "answered"
        PROVE  step[v] = "answered" /\ out'[v] = out[v] /\ req'[v] = req[v]
    BY <1>4, <2>1
  <2>2. ASSUME step'[w] = "answered", out'[w].kind = "duplicate"
        PROVE  invoices[out'[w].id].ext = ExternalId(req'[w])
    <3>1. CASE out' = out
      <4>1. step[w] = "answered"
        BY <1>2, <2>2, <3>1 DEF CallInv
      <4>2. FALSE
        BY <2>2, <3>1, <4>1 DEF CallStep, Ingest, Lookup, LookupFails, InsertRow,
              ReadHead, InsertFails, Recheck, RecheckFails, Return, TypeOK
      <4>3. QED BY <4>2
    <3>2. CASE out' = [out EXCEPT ![w] = Nobody]
      BY <1>2, <2>2, <3>2 DEF TypeOK
    <3>3. CASE out' = [out EXCEPT ![w] = Failed]
      BY <2>2, <3>3 DEF TypeOK, Failed
    <3>4. CASE \E i \in DOMAIN invoices :
                   /\ out' = [out EXCEPT ![w] = Duplicate(i)]
                   /\ req' = req
                   /\ invoices[i].ext = ExternalId(req[w])
      BY <3>4 DEF TypeOK, Duplicate
    <3>5. QED BY <1>2, <3>1, <3>2, <3>3, <3>4
  <2>3. QED BY <1>1, <1>2, <2>1, <2>2 DEF AnswersAreTrue, ExternalId
<1>12. QED BY <1>5, <1>6, <1>7, <1>8, <1>9, <1>10, <1>11

\* Commit: the row and its link appear together, the link extends the head,
\* and the external id was still free.
LEMMA CommitKeeps ==
  ASSUME IInv, NEW w \in Workers, Commit(w)
  PROVE  IInv'
<1> USE DEF IInv
<1> DEFINE n == Len(invoices)
           row == RowOf(req[w])
<1>1. /\ step[w] = "commit" /\ lock = w /\ lock' = Nobody /\ head' = Genesis
      /\ step' = [step EXCEPT ![w] = "answered"] /\ req' = req
      /\ out' = [out EXCEPT ![w] = Stored(n + 1)]
      /\ UNCHANGED <<column, proc, counted, snap, crashes>>
  BY DEF Commit, Finish, LockInv, openVars, NextId
<1>2. req[w] \in Requests /\ proc[ProcOf[w]] = "open" /\ ProcOf[w] \in Procs
  BY <1>1, ConstantsOK DEF TypeOK, CallInv
<1>3. row \in Row
  BY <1>2, RowOfType
<1>4. n \in Nat /\ DOMAIN invoices = 1 .. n /\ DOMAIN links = 1 .. n
  BY <1>2 DEF TypeOK, CoverInv
<1>5. /\ invoices' \in Seq(Row) /\ Len(invoices') = n + 1
      /\ DOMAIN invoices' = 1 .. (n + 1)
      /\ invoices'[n + 1] = row
      /\ \A i \in 1 .. n : invoices'[i] = invoices[i]
  <2>1. invoices' = Append(invoices, row)
    BY DEF Commit, StoreSealed
  <2> HIDE DEF row
  <2>2. QED BY <1>3, <2>1 DEF TypeOK
<1>6. /\ DOMAIN links' = 1 .. (n + 1)
      /\ links'[n + 1] = NewLink(head, n + 1, row)
      /\ \A i \in 1 .. n : links'[i] = links[i]
      /\ links' \in [1 .. (n + 1) -> Link]
  <2>1. links' = [i \in DOMAIN links \cup {n + 1} |->
                     IF i = n + 1 THEN NewLink(head, n + 1, row) ELSE links[i]]
    BY DEF Commit, StoreSealed, NextId
  <2>2. DOMAIN links \cup {n + 1} = 1 .. (n + 1)
    BY <1>4
  <2>3. NewLink(head, n + 1, row) \in Link
    <3> HIDE DEF row
    <3>1. n + 1 \in Nat /\ head \in Hashes
      BY <1>4 DEF TypeOK
    <3>2. QED BY <1>3, <3>1, NewLinkType
  <2> HIDE DEF row
  <2>4. QED BY <1>4, <2>1, <2>2, <2>3 DEF TypeOK
<1>7. head = Prior(links, n + 1)
  BY <1>1, <1>4, LatestIsPrior DEF HeadInv
<1> HIDE DEF row
<1>8. TypeOK'
  <2>1. Stored(n + 1) \in {Stored(i) : i \in DOMAIN invoices'}
    BY <1>4, <1>5
  <2>2. DOMAIN invoices \subseteq DOMAIN invoices'
    BY <1>4, <1>5
  <2>3. out' \in [Workers -> {Nobody, Failed}
                  \cup {Stored(i) : i \in DOMAIN invoices'}
                  \cup {Duplicate(i) : i \in DOMAIN invoices'}]
    BY <1>1, <2>1, <2>2 DEF TypeOK
  <2>4. head' \in Hashes
    BY <1>1, EmptySeq DEF Hashes, Genesis
  <2>5. QED BY <1>1, <1>5, <1>6, <2>3, <2>4 DEF TypeOK, StepStates
<1>9. LockInv' /\ FreshInv' /\ HeadInv'
  <2>1. \A v \in Workers : step'[v] \notin {"link", "commit"}
    BY <1>1 DEF TypeOK, LockInv
  <2>2. QED BY <1>1, <2>1, ConstantsOK DEF LockInv, FreshInv, HeadInv
<1>10. CallInv'
  <2>1. Stored(n + 1) # Nobody
    BY <1>4, ConstantsOK DEF Stored, Result
  <2>2. QED BY <1>1, <1>2, <2>1 DEF TypeOK, CallInv
<1>11. CoverInv' /\ LoadInv'
  <2>1. DOMAIN links' = DOMAIN invoices' /\ DOMAIN links' # {} /\ invoices' # <<>>
    BY <1>4, <1>5, <1>6
  <2>2. QED BY <1>1, <2>1 DEF TypeOK, CoverInv, LoadInv
<1>12. ChainInv'
  <2>1. ASSUME NEW k \in 1 .. (n + 1)
        PROVE  links'[k] = NewLink(Prior(links', k), k, invoices'[k])
    <3>1. Prior(links', k) = Prior(links, k)
      BY <1>4, <1>6 DEF Prior
    <3>2. CASE k = n + 1
      BY <1>5, <1>6, <1>7, <3>1, <3>2
    <3>3. CASE k \in 1 .. n
      BY <1>4, <1>5, <1>6, <3>1, <3>3 DEF ChainInv
    <3>4. QED BY <1>4, <3>2, <3>3
  <2>2. QED BY <1>6, <2>1 DEF ChainInv, Prior
<1>13. UniqueExternalIds'
  <2>1. \A i \in 1 .. n : invoices[i].ext # row.ext
    BY <1>1, <1>4 DEF FreshInv, RowsWith, RowOf, row
  <2>2. QED BY <1>4, <1>5, <2>1 DEF UniqueExternalIds
<1>14. AnswersAreTrue'
  <2>1. ASSUME NEW v \in Workers, v # w, step'[v] = "answered"
        PROVE  /\ step[v] = "answered" /\ out'[v] = out[v] /\ req'[v] = req[v]
               /\ out[v].kind \in {"stored", "duplicate"} =>
                      out[v].id \in 1 .. n
    <3>1. step[v] = "answered" /\ out'[v] = out[v] /\ req'[v] = req[v]
      BY <1>1, <2>1 DEF TypeOK
    <3>2. out[v] # Nobody
      BY <3>1 DEF CallInv
    <3>3. out[v] = Failed \/ \E i \in 1 .. n : out[v] = Stored(i) \/ out[v] = Duplicate(i)
      BY <1>4, <3>2 DEF TypeOK
    <3>4. out[v].kind \in {"stored", "duplicate"} => out[v].id \in 1 .. n
      <4> HIDE DEF n
      <4>1. Failed.kind = "error"
        BY DEF Failed
      <4>2. \A i \in 1 .. n : Stored(i).id = i /\ Duplicate(i).id = i
        BY DEF Stored, Duplicate
      <4>3. QED BY <3>3, <4>1, <4>2
    <3>5. QED BY <3>1, <3>4
  <2>2. /\ out'[w].kind = "stored" /\ out'[w].id = n + 1
        /\ row = [ext |-> ExternalId(req[w]), doc |-> req[w].doc, status |-> Verdict[req[w].doc]]
    BY <1>1 DEF TypeOK, Stored, row, RowOf
  <2>3. QED BY <1>1, <1>5, <2>1, <2>2 DEF AnswersAreTrue, ExternalId
<1>15. QED BY <1>8, <1>9, <1>10, <1>11, <1>12, <1>13, <1>14

\* Every step keeps the invariant.
LEMMA NextIInv == IInv /\ [Next]_vars => IInv'
<1> SUFFICES ASSUME IInv, [Next]_vars PROVE IInv'
  OBVIOUS
<1>1. ASSUME NEW p \in Procs, StartOpen(p) \/ OpenStep(p) \/ Close(p) \/ Crash(p)
      PROVE  IInv'
  BY <1>1, OpenKeeps, BackfillKeeps, EndKeeps DEF OpenStep
<1>2. ASSUME NEW w \in Workers, CallStep(w) \/ Commit(w)
      PROVE  IInv'
  BY <1>2, CallKeeps, CommitKeeps
<1>3. CASE UNCHANGED vars
  <2>1. UNCHANGED <<invoices, links, column, lock, head, proc, counted, snap, step, req, out, crashes>>
    BY <1>3 DEF vars, fileVars, openVars, workVars
  <2>2. TypeOK' /\ CallInv' /\ CoverInv' /\ LoadInv'
    BY <2>1 DEF IInv, TypeOK, CallInv, CoverInv, LoadInv
  <2>3. QED BY <2>1, <2>2, TablesKept DEF IInv
<1>4. QED BY <1>1, <1>2, <1>3 DEF Next, IngestStep, CallStep

\* The invariant holds in every reachable state.
THEOREM Invariant == Spec => []IInv
BY InitIInv, NextIInv, PTL DEF Spec

-----------------------------------------------------------------------------
(* What follows from it.                                                   *)

\* The state of the archive and of its callers is well typed.
THEOREM TypeCorrect == Spec => []TypeOK
<1>1. IInv => TypeOK
  BY DEF IInv
<1>2. QED BY <1>1, Invariant, PTL

\* No two rows share an external id, whatever ingests at once
\* (archive.go:229-288).
THEOREM ExternalIdsAreUnique == Spec => []UniqueExternalIds
<1>1. IInv => UniqueExternalIds
  BY DEF IInv
<1>2. QED BY <1>1, Invariant, PTL

\* A caller is never told of another's row (archive.go:229-288).
THEOREM AnswersHold == Spec => []AnswersAreTrue
<1>1. IInv => AnswersAreTrue
  BY DEF IInv
<1>2. QED BY <1>1, Invariant, PTL

\* What comes before a link, when the ids 1 .. k - 1 are all there.
LEMMA PrevHashIsPrior ==
  ASSUME NEW n \in Nat, NEW lnk, NEW k \in 1 .. n
  PROVE  PrevHash(lnk, 1 .. n, k) = Prior(lnk, k)
<1>1. {j \in 1 .. n : j < k} = 1 .. (k - 1)
  OBVIOUS
<1>2. CASE k = 1
  <2>1. 1 .. (k - 1) = {}
    BY <1>2
  <2>2. QED BY <1>1, <1>2, <2>1 DEF PrevHash, Prior
<1>3. CASE k # 1
  <2>1. k - 1 \in Nat \ {0} /\ 1 .. (k - 1) # {}
    BY <1>3
  <2>2. Max(1 .. (k - 1)) = k - 1
    BY <2>1, MaxInterval
  <2>3. QED BY <1>1, <1>3, <2>1, <2>2 DEF PrevHash, Prior
<1>4. QED BY <1>2, <1>3

\* Links that extend one another without gaps pass both audits.
LEMMA SoundChain ==
  ASSUME IInv, DOMAIN links = DOMAIN invoices
  PROVE  VerifyChain /\ \A k \in DOMAIN invoices : EvidenceOK(k)
<1> DEFINE n == Len(invoices)
<1>1. n \in Nat /\ DOMAIN links = 1 .. n /\ DOMAIN invoices = 1 .. n
  BY DEF IInv, TypeOK
<1>2. ASSUME NEW k \in 1 .. n
      PROVE  links[k] = NewLink(PrevHash(links, 1 .. n, k), k, invoices[k])
  BY <1>1, PrevHashIsPrior DEF IInv, ChainInv
<1>3. (DOMAIN links) \cap (DOMAIN invoices) = 1 .. n
  BY <1>1
<1>4. QED BY <1>1, <1>2, <1>3 DEF VerifyChain, FirstBroken, EvidenceOK

\* Of an archive in use every row is sealed and the chain passes its audits:
\* VerifyChain, and EvidenceFor each row (phase8.go:174-336).
THEOREM ChainIsComplete == Spec => []ChainComplete
<1>1. IInv => ChainComplete
  BY SoundChain DEF IInv, CoverInv, ChainComplete
<1>2. QED BY <1>1, Invariant, PTL

\* No step of any process alters or drops a row or a link (archive.go, phase8.go).
THEOREM NeverRewritten == Spec => AppendOnly
<1> DEFINE Kept ==
      /\ \A i \in DOMAIN invoices :
             i \in DOMAIN invoices' /\ invoices'[i] = invoices[i]
      /\ \A i \in DOMAIN links :
             i \in DOMAIN links' /\ links'[i] = links[i]
<1>1. IInv /\ [Next]_vars => [Kept]_vars
  <2> SUFFICES ASSUME IInv, Next PROVE Kept
    OBVIOUS
  <2>1. ASSUME NEW p \in Procs, StartOpen(p) \/ OpenStep(p) \/ Close(p) \/ Crash(p)
        PROVE  Kept
    <3>1. CASE BackfillChain(p)
      <4>1. invoices' = invoices
        BY <3>1 DEF BackfillChain
      <4>2. CASE DOMAIN snap[p] \cap DOMAIN links = {}
        BY <3>1, <4>1, <4>2 DEF BackfillChain, SealLoaded
      <4>3. CASE DOMAIN snap[p] \cap DOMAIN links # {}
        BY <3>1, <4>1, <4>3 DEF BackfillChain, SealLoaded
      <4>4. QED BY <4>2, <4>3
    <3>2. CASE ~BackfillChain(p)
      BY <2>1, <3>2 DEF OpenStep, StartOpen, CheckColumn, AlterTable, CountLinks,
                        CountInvoices, LoadRows, Close, Crash, fileVars
    <3>3. QED BY <3>1, <3>2
  <2>2. ASSUME NEW w \in Workers, CallStep(w) PROVE Kept
    BY <2>2, CallMoves
  <2>3. ASSUME NEW w \in Workers, Commit(w) PROVE Kept
    <3>1. invoices \in Seq(Row) /\ DOMAIN links \subseteq DOMAIN invoices
      BY DEF IInv, TypeOK
    <3>2. invoices' = Append(invoices, RowOf(req[w]))
      BY <2>3 DEF Commit, StoreSealed
    <3>3. links' = [i \in DOMAIN links \cup {NextId} |->
                       IF i = NextId THEN NewLink(head, NextId, RowOf(req[w])) ELSE links[i]]
      BY <2>3 DEF Commit, StoreSealed
    <3>4. NextId \notin DOMAIN links
      BY <3>1 DEF NextId
    <3>5. \A i \in DOMAIN invoices : i \in DOMAIN invoices' /\ invoices'[i] = invoices[i]
      <4> DEFINE row == RowOf(req[w])
      <4> HIDE DEF row
      <4>1. invoices' = Append(invoices, row)
        BY <3>2 DEF row
      <4>2. QED BY <3>1, <4>1
    <3>6. QED BY <3>3, <3>4, <3>5
  <2>4. QED BY <2>1, <2>2, <2>3 DEF Next, IngestStep, CallStep
<1>2. QED BY <1>1, Invariant, PTL DEF Spec, AppendOnly

\* The first of the broken links.
LEMMA MinIsFirst ==
  ASSUME NEW S \in SUBSET Int, NEW m \in S, \A y \in S : m =< y
  PROVE  Min(S) = m
<1>1. \A x \in S : (\A y \in S : x =< y) => x = m
  <2>1. ASSUME NEW x \in S, \A y \in S : x =< y PROVE x = m
    <3>1. x =< m /\ m =< x /\ x \in Int /\ m \in Int
      BY <2>1
    <3>2. QED BY <3>1
  <2>2. QED BY <2>1
<1>2. QED BY <1>1, Zenon DEF Min

\* A hash commits to the hash before it and to the sealed row.
LEMMA LinkSealsRow ==
  ASSUME NEW prev \in Hashes, NEW id \in Nat, NEW r1 \in Row, NEW r2 \in Row
  PROVE  /\ NewLink(prev, id, r1) = NewLink(prev, id, r2) => r1 = r2
         /\ NewLink(prev, id, r1).hash # prev
<1> DEFINE d1 == Digest(id, r1)
           d2 == Digest(id, r2)
<1>1. d1 \in Digests /\ d2 \in Digests
  BY DEF Digest, Digests, Row
<1>2. d1 = d2 => r1 = r2
  BY DEF Digest, Row
<1> HIDE DEF d1, d2
<1>3. Append(prev, d1) = Append(prev, d2) => d1 = d2
  <2>1. Append(prev, d1)[Len(prev) + 1] = d1 /\ Append(prev, d2)[Len(prev) + 1] = d2
    BY <1>1 DEF Hashes
  <2>2. QED BY <2>1
<1>4. Append(prev, d1) # prev
  <2>1. Len(Append(prev, d1)) = Len(prev) + 1 /\ Len(prev) \in Nat
    BY <1>1 DEF Hashes
  <2>2. QED BY <2>1
<1>5. QED BY <1>2, <1>3, <1>4 DEF NewLink, LinkHash, d1, d2

\* VerifyChain names the row when a sealed column of one row is changed, and
\* the row after it when a row other than the newest is deleted
\* (phase8.go:223-271): for any archive, provided hashes do not collide.
THEOREM EditsAreFound == Spec => []EditsAreDetected
<1>1. ASSUME IInv, DOMAIN links = DOMAIN invoices, NEW k \in DOMAIN invoices
      PROVE  /\ \A row \in Row \ {invoices[k]} :
                    FirstBroken([invoices EXCEPT ![k] = row], links) = k
             /\ k # Len(invoices) =>
                    FirstBroken([i \in DOMAIN invoices \ {k} |-> invoices[i]], links) = k + 1
  <2> DEFINE n == Len(invoices)
  <2>1. n \in Nat /\ DOMAIN links = 1 .. n /\ DOMAIN invoices = 1 .. n /\ k \in 1 .. n
    BY <1>1 DEF IInv, TypeOK
  <2>2. /\ \A j \in 1 .. n : invoices[j] \in Row
        /\ \A j \in 1 .. n : links[j] \in Link
        /\ \A j \in 1 .. n : links[j] = NewLink(Prior(links, j), j, invoices[j])
    BY <1>1, <2>1 DEF IInv, TypeOK, ChainInv
  <2>3. \A j \in 1 .. n : Prior(links, j) \in Hashes
    BY <2>1, <2>2, EmptySeq DEF Prior, Link, Genesis, Hashes
  <2> HIDE DEF n
  <2>4. ASSUME NEW row \in Row \ {invoices[k]}
        PROVE  FirstBroken([invoices EXCEPT ![k] = row], links) = k
    <3> DEFINE inv == [invoices EXCEPT ![k] = row]
               ids == DOMAIN links \cap DOMAIN inv
               broken == {j \in ids : links[j] # NewLink(PrevHash(links, ids, j), j, inv[j])}
    <3>1. ids = 1 .. n
      BY <2>1
    <3>2. \A j \in 1 .. n : PrevHash(links, ids, j) = Prior(links, j)
      BY <2>1, <3>1, PrevHashIsPrior
    <3>3. \A j \in 1 .. n : j # k => links[j] = NewLink(PrevHash(links, ids, j), j, inv[j])
      BY <2>1, <2>2, <3>2
    <3>4. links[k] # NewLink(PrevHash(links, ids, k), k, inv[k])
      <4>1. inv[k] = row
        BY <2>1
      <4> HIDE DEF inv
      <4>2. NewLink(PrevHash(links, ids, k), k, inv[k]) = NewLink(Prior(links, k), k, row)
        BY <2>1, <3>2, <4>1
      <4>3. links[k] = NewLink(Prior(links, k), k, invoices[k])
        BY <2>1, <2>2
      <4>4. Prior(links, k) \in Hashes /\ k \in Nat /\ row \in Row /\ invoices[k] \in Row
        BY <2>1, <2>2, <2>3
      <4>5. NewLink(Prior(links, k), k, invoices[k]) = NewLink(Prior(links, k), k, row)
                => invoices[k] = row
        BY <4>4, LinkSealsRow
      <4>6. QED BY <4>2, <4>3, <4>5
    <3>5. broken = {k}
      BY <2>1, <3>1, <3>3, <3>4
    <3> HIDE DEF broken
    <3>6. broken \in SUBSET Int /\ k \in broken /\ \A y \in broken : k =< y
      BY <2>1, <3>5
    <3>7. Min(broken) = k
      BY <3>6, MinIsFirst
    <3>8. QED BY <3>5, <3>7 DEF FirstBroken, broken
  <2>5. ASSUME k # n
        PROVE  FirstBroken([i \in DOMAIN invoices \ {k} |-> invoices[i]], links) = k + 1
    <3> DEFINE inv == [i \in DOMAIN invoices \ {k} |-> invoices[i]]
               ids == DOMAIN links \cap DOMAIN inv
               broken == {j \in ids : links[j] # NewLink(PrevHash(links, ids, j), j, inv[j])}
    <3>1. ids = (1 .. n) \ {k}
      BY <2>1
    <3>2. \A j \in 1 .. (k + 1) : {i \in ids : i < j} = {i \in 1 .. n : i < j} \ {k}
      BY <2>1, <3>1
    <3>3. ASSUME NEW j \in 1 .. n, j < k
          PROVE  links[j] = NewLink(PrevHash(links, ids, j), j, inv[j])
      <4>1. {i \in ids : i < j} = {i \in 1 .. n : i < j}
        BY <2>1, <3>1, <3>3
      <4>2. PrevHash(links, ids, j) = PrevHash(links, 1 .. n, j)
        BY <4>1 DEF PrevHash
      <4>3. inv[j] = invoices[j]
        BY <2>1, <3>3
      <4> HIDE DEF inv
      <4>4. QED BY <2>1, <2>2, <4>2, <4>3, PrevHashIsPrior
    <3>4. k + 1 \in ids /\ links[k + 1] # NewLink(PrevHash(links, ids, k + 1), k + 1, inv[k + 1])
      <4>1. k + 1 \in 1 .. n
        BY <2>1, <2>5
      <4>2. {i \in ids : i < k + 1} = {i \in 1 .. n : i < k}
        BY <2>1, <3>1
      <4>3. PrevHash(links, ids, k + 1) = Prior(links, k)
        <5>1. PrevHash(links, ids, k + 1) = PrevHash(links, 1 .. n, k)
          BY <4>2 DEF PrevHash
        <5>2. QED BY <2>1, <5>1, PrevHashIsPrior
      <4>4. Prior(links, k + 1) = links[k].hash
        BY <2>1 DEF Prior
      <4>5. links[k].hash # Prior(links, k)
        BY <2>1, <2>2, <2>3, LinkSealsRow
      <4>6. links[k + 1].prev = links[k].hash
        <5>1. links[k + 1] = NewLink(Prior(links, k + 1), k + 1, invoices[k + 1])
          BY <2>2, <4>1
        <5>2. links[k + 1].prev = Prior(links, k + 1)
          BY <5>1 DEF NewLink
        <5>3. QED BY <4>4, <5>2
      <4>7. NewLink(PrevHash(links, ids, k + 1), k + 1, inv[k + 1]).prev = Prior(links, k)
        BY <4>3 DEF NewLink
      <4>8. k + 1 \in ids
        BY <2>1, <3>1, <4>1
      <4>9. QED BY <4>5, <4>6, <4>7, <4>8
    <3>5. /\ broken \in SUBSET Int
          /\ k + 1 \in broken
          /\ \A j \in broken : k + 1 =< j
      <4>1. \A j \in broken : j \in 1 .. n /\ j # k /\ ~(j < k)
        BY <3>1, <3>3
      <4> HIDE DEF ids
      <4>2. k + 1 \in broken
        BY <3>4
      <4> HIDE DEF broken
      <4>3. QED BY <2>1, <4>1, <4>2
    <3> HIDE DEF broken
    <3>6. Min(broken) = k + 1
      BY <3>5, MinIsFirst
    <3>7. broken # {}
      BY <3>5
    <3>8. QED BY <3>6, <3>7 DEF FirstBroken, broken
  <2>6. QED BY <2>4, <2>5 DEF n
<1>2. IInv => EditsAreDetected
  BY <1>1 DEF IInv, CoverInv, EditsAreDetected
<1>3. QED BY <1>2, Invariant, PTL

-----------------------------------------------------------------------------
(* The archive implements the ledger.                                      *)

\* Opening, closing and the inner steps of a call do not show in the ledger.
LEMMA CallRefines ==
  ASSUME IInv, NEW w \in Workers, CallStep(w)
  PROVE  [LedgerOf!LNext]_(LedgerOf!lvars)
<1> USE DEF IInv
<1>1. UNCHANGED invoices
  BY CallMoves
<1>2. CASE \E r \in Requests : Ingest(w, r)
  <2>1. PICK r \in Requests : Ingest(w, r)
    BY <1>2
  <2>2. LedgerOf!Ask(w, r)
    BY <1>1, <2>1 DEF LedgerOf!Ask, Ingest, CallInv, fileVars
  <2>3. QED BY <2>1, <2>2 DEF LedgerOf!LNext
<1>3. CASE UNCHANGED <<req, out>>
  BY <1>1, <1>3 DEF LedgerOf!lvars
<1>4. CASE /\ step[w] \notin {"idle", "answered"} /\ req' = req
           /\ \E e : /\ out' = [out EXCEPT ![w] = e]
                     /\ \/ e = Failed
                        \/ \E i \in DOMAIN invoices :
                               e = Duplicate(i) /\ invoices[i].ext = ExternalId(req[w])
  <2>1. LedgerOf!Waiting(w)
    BY <1>4 DEF CallInv, LedgerOf!Waiting
  <2>2. CASE out' = [out EXCEPT ![w] = Failed]
    <3>1. LedgerOf!Fail(w)
      BY <1>1, <1>4, <2>1, <2>2 DEF LedgerOf!Fail, LedgerOf!Failed, Failed
    <3>2. QED BY <3>1 DEF LedgerOf!LNext
  <2>3. ASSUME NEW i \in DOMAIN invoices, out' = [out EXCEPT ![w] = Duplicate(i)],
               invoices[i].ext = ExternalId(req[w])
        PROVE  [LedgerOf!LNext]_(LedgerOf!lvars)
    <3>1. LedgerOf!Refuse(w, i)
      BY <1>1, <1>4, <2>1, <2>3 DEF LedgerOf!Refuse, LedgerOf!Duplicate, Duplicate, RowOf
    <3>2. QED BY <3>1 DEF LedgerOf!LNext
  <2>4. QED BY <1>4, <2>2, <2>3
<1>5. CASE Return(w)
  <2>1. LedgerOf!Leave({w})
    BY <1>1, <1>5 DEF LedgerOf!Leave, Return, TypeOK
  <2>2. QED BY <2>1 DEF LedgerOf!LNext
<1>6. CASE InsertFails(w) \/ RecheckFails(w)
  BY <1>4, <1>6 DEF InsertFails, RecheckFails, Finish
<1>7. CASE Lookup(w) \/ Recheck(w)
  <2> DEFINE ext == ExternalId(req[w])
  <2>1. CASE Finish(w, Existing(ext))
    <3> HIDE DEF ext
    <3>1. \/ Existing(ext) = Failed
          \/ \E i \in DOMAIN invoices : Existing(ext) = Duplicate(i) /\ invoices[i].ext = ext
      BY ExistingIsThere
    <3>2. step[w] \notin {"idle", "answered"}
      BY <1>7 DEF Lookup, Recheck
    <3>3. req' = req /\ out' = [out EXCEPT ![w] = Existing(ext)]
      BY <2>1 DEF Finish
    <3>4. QED BY <1>4, <3>1, <3>2, <3>3 DEF ext
  <2>2. CASE UNCHANGED <<req, out>>
    BY <1>3, <2>2
  <2>3. QED BY <1>7, <2>1, <2>2 DEF Lookup, Recheck, Goto
<1>8. CASE LookupFails(w) \/ InsertRow(w) \/ ReadHead(w)
  BY <1>3, <1>8 DEF LookupFails, InsertRow, ReadHead, Goto
<1>9. QED BY <1>2, <1>5, <1>6, <1>7, <1>8 DEF CallStep

\* A commit is the ledger's one indivisible store.
LEMMA CommitRefines ==
  ASSUME IInv, NEW w \in Workers, Commit(w)
  PROVE  LedgerOf!Store(w)
<1> USE DEF IInv
<1>1. step[w] = "commit" /\ lock = w
  BY DEF Commit, LockInv
<1>2. LedgerOf!Waiting(w)
  BY <1>1 DEF CallInv, LedgerOf!Waiting
<1>3. \A i \in DOMAIN invoices : invoices[i].ext # RowOf(req[w]).ext
  BY <1>1 DEF FreshInv, RowsWith, RowOf
<1>4. /\ invoices' = Append(invoices, RowOf(req[w]))
      /\ out' = [out EXCEPT ![w] = LedgerOf!Stored(Len(invoices) + 1)]
      /\ req' = req
  BY DEF Commit, StoreSealed, Finish, NextId, Stored, LedgerOf!Stored
<1>5. QED BY <1>2, <1>3, <1>4 DEF LedgerOf!Store

\* The archive, with its processes, transactions, races and crashes, is a
\* ledger: its rows only grow, and each call of IngestWithSource takes effect
\* at one moment between its start and its return, or not at all
\* (archive.go:197-290, phase8.go:174-220).
THEOREM ImplementsLedger == Spec => LedgerSpec
<1>1. Init => LedgerOf!LInit
  BY DEF Init, LedgerOf!LInit
<1>2. IInv /\ [Next]_vars => [LedgerOf!LNext]_(LedgerOf!lvars)
  <2> SUFFICES ASSUME IInv, [Next]_vars PROVE [LedgerOf!LNext]_(LedgerOf!lvars)
    OBVIOUS
  <2>1. ASSUME NEW p \in Procs, StartOpen(p) \/ OpenStep(p) \/ Close(p)
        PROVE  [LedgerOf!LNext]_(LedgerOf!lvars)
    BY <2>1 DEF LedgerOf!lvars, OpenStep, StartOpen, CheckColumn, AlterTable, CountLinks,
                CountInvoices, LoadRows, BackfillChain, Close, fileVars, workVars
  <2>2. ASSUME NEW p \in Procs, Crash(p)
        PROVE  [LedgerOf!LNext]_(LedgerOf!lvars)
    <3>1. LedgerOf!Leave(WorkersOf(p))
      BY <2>2 DEF Crash, LedgerOf!Leave, fileVars
    <3>2. WorkersOf(p) \in SUBSET Workers
      BY DEF WorkersOf
    <3>3. QED BY <3>1, <3>2 DEF LedgerOf!LNext
  <2>3. ASSUME NEW w \in Workers, CallStep(w)
        PROVE  [LedgerOf!LNext]_(LedgerOf!lvars)
    BY <2>3, CallRefines
  <2>4. ASSUME NEW w \in Workers, Commit(w)
        PROVE  [LedgerOf!LNext]_(LedgerOf!lvars)
    BY <2>4, CommitRefines DEF LedgerOf!LNext
  <2>5. CASE UNCHANGED vars
    BY <2>5 DEF vars, fileVars, workVars, LedgerOf!lvars
  <2>6. QED BY <2>1, <2>2, <2>3, <2>4, <2>5 DEF Next, IngestStep, CallStep
<1>3. QED BY <1>1, <1>2, Invariant, PTL DEF Spec, LedgerSpec, LedgerOf!LSpec
=============================================================================

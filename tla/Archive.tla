------------------------------ MODULE Archive ------------------------------
(***************************************************************************)
(* The invoice archive (src/pkg/archive/archive.go, phase8.go): an SQLite  *)
(* file that several operating-system processes open at once (the server,  *)
(* `factura add`, `factura watch`, ...), each of which runs goroutines     *)
(* ("workers") that call IngestWithSource.                                 *)
(*                                                                         *)
(* What a step is: one SQL statement outside a transaction, or one         *)
(* statement inside insertWithChain's transaction, which holds SQLite's    *)
(* write lock from its first INSERT to its commit or rollback.  Readers of *)
(* other processes see the committed rows meanwhile; the workers of the    *)
(* same process wait, since SetMaxOpenConns(1) gives a process one         *)
(* connection.                                                             *)
(*                                                                         *)
(* A document is a model value: what matters of it is the external id its  *)
(* content gives it and the verdict of parser and validator.  SHA-256 is   *)
(* modelled as injective: the hash of a link is the sequence of the row    *)
(* digests it seals.                                                       *)
(***************************************************************************)
EXTENDS Integers, Sequences, FiniteSetsExt

CONSTANTS Procs,     \* processes that open the database file
          Workers,   \* goroutines that ingest
          ProcOf,    \* ProcOf[w]: the process worker w runs in
          Docs,      \* contents that may be ingested
          NaturalId, \* NaturalId[d]: hashID of the content of d
          Verdict,   \* Verdict[d]: the status Parse and ValidateBytes give d
          Hints,     \* caller-supplied external ids
          Requests,  \* the calls that are made: a document, a hint or Nobody
          Nobody,    \* "no hint", "no request", "no answer", "no lock holder"
          Legacy,    \* rows written before the hash chain existed
          MaxCrashes \* bound: how many times a process is killed

Statuses == {"valid", "invalid", "parse_error"}
ExtIds == Hints \cup {NaturalId[d] : d \in Docs}
Row == [ext : ExtIds, doc : Docs, status : Statuses]
Result == [kind : {"stored", "duplicate", "error"}, id : Nat]

ASSUME ConstantsOK ==
    /\ ProcOf \in [Workers -> Procs]
    /\ NaturalId \in [Docs -> ExtIds]
    /\ Verdict \in [Docs -> Statuses]
    /\ Requests \subseteq [doc : Docs, hint : Hints \cup {Nobody}]
    /\ Nobody \notin Hints \cup Workers \cup Requests \cup Result
    /\ MaxCrashes \in Nat
ASSUME LegacyOK ==
    /\ Legacy \in Seq(Row)
    /\ \A i, j \in DOMAIN Legacy : Legacy[i].ext = Legacy[j].ext => i = j

VARIABLES invoices, \* table invoices: the row with id i is invoices[i]
          links,    \* table chain_links: links[i] seals row i
          column,   \* the Phase 8 column invoice_type exists
          lock,     \* the worker inside insertWithChain's transaction
          head,     \* the chain head that worker read
          proc,     \* proc[p]: where process p is in Open
          counted,  \* counted[p]: backfillChain of p counted some link
          snap,     \* snap[p]: the rows backfillChain of p loaded
          step,     \* step[w]: where worker w is in IngestWithSource
          req,      \* req[w]: its arguments
          out,      \* out[w]: its result
          crashes   \* number of crashes so far

fileVars == <<invoices, links, column>>
openVars == <<proc, counted, snap>>
workVars == <<step, req, out>>
vars == <<fileVars, lock, head, openVars, workVars, crashes>>

Stored(id) == [kind |-> "stored", id |-> id]
Duplicate(id) == [kind |-> "duplicate", id |-> id]
Failed == [kind |-> "error", id |-> 0]

-----------------------------------------------------------------------------
(* The row a request makes: IngestWithSource up to its insert.             *)

ExternalId(r) == IF r.hint = Nobody THEN NaturalId[r.doc] ELSE r.hint

\* The status the row starts with is never replaced by the verdict.
RowUnjudged(r) == [ext |-> ExternalId(r), doc |-> r.doc, status |-> "parse_error"]
RowOf(r) == [ext |-> ExternalId(r), doc |-> r.doc, status |-> Verdict[r.doc]]

RowsWith(ext) == {i \in DOMAIN invoices : invoices[i].ext = ext}

\* The newest row is taken for the one that violated the constraint.
NewestRow(ext) == Duplicate(Len(invoices))
\* GetByExternalID as the answer to a duplicate
Existing(ext) ==
    IF RowsWith(ext) = {} THEN Failed ELSE Duplicate(CHOOSE i \in RowsWith(ext) : TRUE)

-----------------------------------------------------------------------------
(* The hash chain.                                                         *)

\* The stored file is not among the sealed columns.
DigestOfColumns(id, row) == <<id, row.ext, row.status, Nobody>>
Digest(id, row) == <<id, row.ext, row.status, row.doc>>
Digests == Nat \X ExtIds \X Statuses \X Docs
Hashes == Seq(Digests)
Link == [prev : Hashes, hash : Hashes]

Genesis == <<>>

\* ORDER BY id ASC instead of DESC
OldestHash(l) == IF DOMAIN l = {} THEN Genesis ELSE l[Min(DOMAIN l)].hash
LatestHash(l) == IF DOMAIN l = {} THEN Genesis ELSE l[Max(DOMAIN l)].hash

LinkHash(prev, digest) == Append(prev, digest)

NewLink(prev, id, row) == [prev |-> prev, hash |-> LinkHash(prev, Digest(id, row))]

\* backfillChain's loop over the loaded rows: link k seals the first k rows.
SealUpTo(rows, k) == [i \in 1 .. k |-> Digest(i, rows[i])]
SealAll(rows) ==
    [k \in 1 .. Len(rows) |-> NewLink(SealUpTo(rows, k - 1), k, rows[k])]

\* VerifyChain on the tables inv and lnk: it walks the links that join a row,
\* in id order, and stops at the first whose prev_hash or hash is wrong.
PrevHash(lnk, ids, k) ==
    LET before == {j \in ids : j < k} IN
    IF before = {} THEN Genesis ELSE lnk[Max(before)].hash
FirstBroken(inv, lnk) ==
    LET ids == DOMAIN lnk \cap DOMAIN inv
        broken == {k \in ids : lnk[k] # NewLink(PrevHash(lnk, ids, k), k, inv[k])}
    IN  IF broken = {} THEN 0 ELSE Min(broken)
VerifyChain == FirstBroken(invoices, links) = 0

\* EvidenceFor: the link of one row against the link before it
EvidenceOK(k) ==
    links[k] = NewLink(PrevHash(links, DOMAIN links, k), k, invoices[k])

-----------------------------------------------------------------------------
(* Open: migrate, the Phase 8 column, backfillChain.                       *)

StartOpen(p) ==
    /\ proc[p] = "closed"
    /\ proc' = [proc EXCEPT ![p] = "column"]
    /\ UNCHANGED <<fileVars, lock, head, counted, snap, workVars, crashes>>

\* ensureColumn: PRAGMA table_info
CheckColumn(p) ==
    /\ proc[p] = "column"
    /\ proc' = [proc EXCEPT ![p] = IF column THEN "count_links" ELSE "alter"]
    /\ UNCHANGED <<fileVars, lock, head, counted, snap, workVars, crashes>>

\* ensureColumn: ALTER TABLE; a second one finds the column there and Open fails.
AlterTable(p) ==
    /\ proc[p] = "alter"
    /\ lock = Nobody
    /\ proc' = [proc EXCEPT ![p] = IF column THEN "closed" ELSE "count_links"]
    /\ column' = TRUE
    /\ UNCHANGED <<invoices, links, lock, head, counted, snap, workVars, crashes>>

CountLinks(p) ==
    /\ proc[p] = "count_links"
    /\ counted' = [counted EXCEPT ![p] = DOMAIN links # {}]
    /\ proc' = [proc EXCEPT ![p] = "count_invoices"]
    /\ UNCHANGED <<fileVars, lock, head, snap, workVars, crashes>>

\* The count of links is not looked at.
SkipsIfEmpty(p) == invoices = <<>>
\* Nobody ever needs the backfill.
SkipsAlways(p) == TRUE
SkipsBackfill(p) == counted[p] \/ invoices = <<>>

CountInvoices(p) ==
    /\ proc[p] = "count_invoices"
    /\ proc' = [proc EXCEPT ![p] = IF SkipsBackfill(p) THEN "open" ELSE "load"]
    /\ counted' = [counted EXCEPT ![p] = FALSE]
    /\ UNCHANGED <<fileVars, lock, head, snap, workVars, crashes>>

LoadRows(p) ==
    /\ proc[p] = "load"
    /\ snap' = [snap EXCEPT ![p] = invoices]
    /\ proc' = [proc EXCEPT ![p] = "backfill"]
    /\ UNCHANGED <<fileVars, lock, head, counted, workVars, crashes>>

\* The chain is rebuilt from the loaded rows, whatever links are there.
RebuildChain(p) ==
    /\ links' = SealAll(snap[p])
    /\ proc' = [proc EXCEPT ![p] = "open"]
\* chain_links.id is the primary key: one link there already rolls all back.
SealLoaded(p) ==
    IF DOMAIN snap[p] \cap DOMAIN links = {}
    THEN /\ links' = [i \in DOMAIN links \cup DOMAIN snap[p] |->
                         IF i \in DOMAIN links THEN links[i] ELSE SealAll(snap[p])[i]]
         /\ proc' = [proc EXCEPT ![p] = "open"]
    ELSE /\ links' = links
         /\ proc' = [proc EXCEPT ![p] = "closed"]

BackfillChain(p) ==
    /\ proc[p] = "backfill"
    /\ lock = Nobody
    /\ SealLoaded(p)
    /\ snap' = [snap EXCEPT ![p] = <<>>]
    /\ UNCHANGED <<invoices, column, lock, head, counted, workVars, crashes>>

-----------------------------------------------------------------------------
(* IngestWithSource and insertWithChain.                                   *)

\* Worker w gets its process's only connection.
Connected(w) == \A v \in Workers \ {w} : lock = v => ProcOf[v] # ProcOf[w]

Finish(w, result) ==
    /\ step' = [step EXCEPT ![w] = "answered"]
    /\ out' = [out EXCEPT ![w] = result]
    /\ UNCHANGED req

Goto(w, next) ==
    /\ step' = [step EXCEPT ![w] = next]
    /\ UNCHANGED <<req, out>>

Ingest(w, r) ==
    /\ proc[ProcOf[w]] = "open"
    /\ step[w] = "idle"
    /\ step' = [step EXCEPT ![w] = "lookup"]
    /\ req' = [req EXCEPT ![w] = r]
    /\ UNCHANGED <<fileVars, lock, head, openVars, out, crashes>>

\* The first GetByExternalID: a row under this id ends the call.
Lookup(w) ==
    /\ step[w] = "lookup"
    /\ Connected(w)
    /\ LET ext == ExternalId(req[w]) IN
       IF RowsWith(ext) # {} THEN Finish(w, Existing(ext)) ELSE Goto(w, "insert")
    /\ UNCHANGED <<fileVars, lock, head, openVars, crashes>>

\* Its error is not told from "not found": the call goes on to insert.
LookupFails(w) ==
    /\ step[w] = "lookup"
    /\ Connected(w)
    /\ Goto(w, "insert")
    /\ UNCHANGED <<fileVars, lock, head, openVars, crashes>>

\* The table without its UNIQUE constraint on external_id
NeverViolated(ext) == FALSE
UniqueViolation(ext) == RowsWith(ext) # {}

\* BEGIN and the INSERT into invoices: takes the write lock, or violates UNIQUE.
InsertRow(w) ==
    /\ step[w] = "insert"
    /\ lock = Nobody
    /\ IF UniqueViolation(ExternalId(req[w]))
       THEN Goto(w, "recheck") /\ UNCHANGED lock
       ELSE Goto(w, "link") /\ lock' = w
    /\ UNCHANGED <<fileVars, head, openVars, crashes>>

\* latestChainHash, inside the transaction
ReadHead(w) ==
    /\ step[w] = "link"
    /\ head' = LatestHash(links)
    /\ Goto(w, "commit")
    /\ UNCHANGED <<fileVars, lock, openVars, crashes>>

\* LastInsertId counted from zero
IdFromZero == Len(invoices)
NextId == Len(invoices) + 1

\* Only the invoice row is written.
StoreUnsealed(row) ==
    /\ invoices' = Append(invoices, row)
    /\ UNCHANGED links
\* The link's INSERT and COMMIT: row and link appear together.
StoreSealed(row) ==
    /\ invoices' = Append(invoices, row)
    /\ links' = [i \in DOMAIN links \cup {NextId} |->
                    IF i = NextId THEN NewLink(head, NextId, row) ELSE links[i]]

\* The deferred Rollback is missing: the connection keeps its transaction.
StillLocked(w) == lock' = lock
Release(w) == lock' = IF lock = w THEN Nobody ELSE lock

Commit(w) ==
    /\ step[w] = "commit"
    /\ StoreSealed(RowOf(req[w]))
    /\ Finish(w, Stored(NextId))
    /\ lock' = Nobody
    /\ head' = Genesis
    /\ UNCHANGED <<column, openVars, crashes>>

\* Any other error of the insert (busy past its timeout, I/O): rolled back.
InsertFails(w) ==
    /\ step[w] \in {"insert", "link", "commit"}
    /\ Connected(w)
    /\ Release(w)
    /\ head' = IF lock = w THEN Genesis ELSE head
    /\ Finish(w, Failed)
    /\ UNCHANGED <<fileVars, openVars, crashes>>

\* After a unique violation: the row that won the race is the answer.
Recheck(w) ==
    /\ step[w] = "recheck"
    /\ Connected(w)
    /\ Finish(w, Existing(ExternalId(req[w])))
    /\ UNCHANGED <<fileVars, lock, head, openVars, crashes>>

RecheckFails(w) ==
    /\ step[w] = "recheck"
    /\ Connected(w)
    /\ Finish(w, Failed)
    /\ UNCHANGED <<fileVars, lock, head, openVars, crashes>>

Return(w) ==
    /\ step[w] = "answered"
    /\ step' = [step EXCEPT ![w] = "idle"]
    /\ req' = [req EXCEPT ![w] = Nobody]
    /\ out' = [out EXCEPT ![w] = Nobody]
    /\ UNCHANGED <<fileVars, lock, head, openVars, crashes>>

-----------------------------------------------------------------------------
(* A process ends: Close once nothing runs in it, or it is killed.         *)

WorkersOf(p) == {w \in Workers : ProcOf[w] = p}

Close(p) ==
    /\ proc[p] = "open"
    /\ \A w \in WorkersOf(p) : step[w] = "idle"
    /\ proc' = [proc EXCEPT ![p] = "closed"]
    /\ UNCHANGED <<fileVars, lock, head, counted, snap, workVars, crashes>>

\* SQLite rolls the open transaction of a dead process back.
Crash(p) ==
    /\ proc[p] # "closed"
    /\ crashes < MaxCrashes
    /\ crashes' = crashes + 1
    /\ proc' = [proc EXCEPT ![p] = "closed"]
    /\ snap' = [snap EXCEPT ![p] = <<>>]
    /\ counted' = [counted EXCEPT ![p] = FALSE]
    /\ lock' = IF lock \in WorkersOf(p) THEN Nobody ELSE lock
    /\ head' = IF lock \in WorkersOf(p) THEN Genesis ELSE head
    /\ step' = [w \in Workers |-> IF w \in WorkersOf(p) THEN "idle" ELSE step[w]]
    /\ req' = [w \in Workers |-> IF w \in WorkersOf(p) THEN Nobody ELSE req[w]]
    /\ out' = [w \in Workers |-> IF w \in WorkersOf(p) THEN Nobody ELSE out[w]]
    /\ UNCHANGED fileVars

-----------------------------------------------------------------------------

Init ==
    /\ invoices \in {<<>>, Legacy}
    /\ links = <<>>
    /\ column = FALSE
    /\ lock = Nobody
    /\ head = Genesis
    /\ proc = [p \in Procs |-> "closed"]
    /\ counted = [p \in Procs |-> FALSE]
    /\ snap = [p \in Procs |-> <<>>]
    /\ step = [w \in Workers |-> "idle"]
    /\ req = [w \in Workers |-> Nobody]
    /\ out = [w \in Workers |-> Nobody]
    /\ crashes = 0

OpenStep(p) ==
    \/ CheckColumn(p) \/ AlterTable(p) \/ CountLinks(p)
    \/ CountInvoices(p) \/ LoadRows(p) \/ BackfillChain(p)

IngestStep(w) ==
    \/ Lookup(w) \/ InsertRow(w) \/ ReadHead(w) \/ Commit(w) \/ Recheck(w)

Next ==
    \/ \E p \in Procs : StartOpen(p) \/ OpenStep(p) \/ Close(p) \/ Crash(p)
    \/ \E w \in Workers :
        \/ \E r \in Requests : Ingest(w, r)
        \/ IngestStep(w)
        \/ LookupFails(w) \/ InsertFails(w) \/ RecheckFails(w)
        \/ Return(w)

Spec == Init /\ [][Next]_vars

\* A process that is started runs Open to its end and is started again after a
\* failure; a waiting worker gets the connection in the end (database/sql hands
\* it out first come, first served).
Fairness ==
    /\ \A p \in Procs : WF_vars(StartOpen(p)) /\ SF_vars(OpenStep(p))
    /\ \A w \in Workers : SF_vars(IngestStep(w))

FairSpec == Spec /\ Fairness

-----------------------------------------------------------------------------
(* Properties.                                                             *)

ProcStates ==
    {"closed", "column", "alter", "count_links", "count_invoices", "load",
     "backfill", "open"}
StepStates ==
    {"idle", "lookup", "insert", "link", "commit", "recheck", "answered"}

\* The tables and the state of every caller have their types; ids handed out
\* are ids of rows.
TypeOK ==
    /\ invoices \in Seq(Row)
    /\ DOMAIN links \subseteq DOMAIN invoices
    /\ links \in [DOMAIN links -> Link]
    /\ column \in BOOLEAN
    /\ lock \in Workers \cup {Nobody}
    /\ head \in Hashes
    /\ proc \in [Procs -> ProcStates]
    /\ counted \in [Procs -> BOOLEAN]
    /\ snap \in [Procs -> Seq(Row)]
    /\ step \in [Workers -> StepStates]
    /\ req \in [Workers -> Requests \cup {Nobody}]
    /\ out \in [Workers -> {Nobody, Failed}
                    \cup {Stored(i) : i \in DOMAIN invoices}
                    \cup {Duplicate(i) : i \in DOMAIN invoices}]
    /\ crashes \in 0 .. MaxCrashes

\* Two rows never share an external id, though every caller looks it up in one
\* statement and inserts in a later one (archive.go:229, 265, 279).
UniqueExternalIds ==
    \A i, j \in DOMAIN invoices : invoices[i].ext = invoices[j].ext => i = j

\* Once any process is through Open, no row is without a link, VerifyChain
\* passes and every evidence bundle is OK, while several processes seal rows
\* and others still run the backfill (phase8.go:64, 174, 223, 286).
ChainComplete ==
    (\E p \in Procs : proc[p] = "open") =>
        /\ DOMAIN links = DOMAIN invoices
        /\ VerifyChain
        /\ \A k \in DOMAIN invoices : EvidenceOK(k)

\* Nobody who is told "stored" or "duplicate" was told of another's row: a
\* stored row is there with the caller's file, judged, under the id the caller
\* meant; a duplicate is there under that id (archive.go:229-241, 265-288).
AnswersAreTrue ==
    \A w \in Workers : step[w] = "answered" =>
        /\ out[w].kind = "stored" =>
               invoices[out[w].id] = [ext |-> ExternalId(req[w]), doc |-> req[w].doc,
                                      status |-> Verdict[req[w].doc]]
        /\ out[w].kind = "duplicate" => invoices[out[w].id].ext = ExternalId(req[w])

\* Of an archive in use, VerifyChain names the row whenever a sealed column of
\* one row is changed behind its back, and the row after it when a row that is
\* not the newest is deleted (phase8.go:223-271).
EditsAreDetected ==
    (\E p \in Procs : proc[p] = "open") =>
        /\ \A k \in DOMAIN invoices : \A row \in Row \ {invoices[k]} :
               FirstBroken([invoices EXCEPT ![k] = row], links) = k
        /\ \A k \in DOMAIN invoices \ {Len(invoices)} :
               FirstBroken([i \in DOMAIN invoices \ {k} |-> invoices[i]], links) = k + 1

\* No step of any process, Open with its backfill included, changes or drops
\* a row or a link that was there.
AppendOnly ==
    [][/\ \A i \in DOMAIN invoices :
              i \in DOMAIN invoices' /\ invoices'[i] = invoices[i]
       /\ \A i \in DOMAIN links :
              i \in DOMAIN links' /\ links'[i] = links[i]]_vars

\* Every call of IngestWithSource returns, or its process is killed.
Answered ==
    \A w \in Workers : step[w] = "lookup" ~> step[w] \in {"answered", "idle"}

\* Opening an archive may fail because another process migrates it at the same
\* time, but it succeeds in the end when it is repeated.
OpenSucceeds ==
    \A p \in Procs : proc[p] = "column" ~> proc[p] = "open"

\* The refinement: the committed rows are the ledger, and a call takes effect
\* at one point between its start and its return.
LedgerOf == INSTANCE Ledger WITH
    Requests <- Requests, ledger <- invoices, asked <- req, answer <- out
LedgerSpec == LedgerOf!LSpec
=============================================================================

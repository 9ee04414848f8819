------------------------------- MODULE Ledger -------------------------------
(***************************************************************************)
(* What the archive promises to the programs that ingest into it           *)
(* (src/pkg/archive/archive.go, package comment and Ingest): a ledger of   *)
(* invoice rows that only grows, never holds one external id twice, and    *)
(* answers each request, in one indivisible step, with the row it stored,  *)
(* with the row already stored under that external id, or with an error    *)
(* that stored nothing.  Archive.tla implements this with processes that   *)
(* share a database file.                                                  *)
(***************************************************************************)
EXTENDS Naturals, Sequences

CONSTANTS Workers, \* the callers of IngestWithSource
          Requests, \* what a caller may ask for
          RowOf(_),  \* the row a request asks to store
          Legacy,    \* the rows of an archive that predates the program
          Nobody     \* "no request", "no answer yet"

VARIABLES ledger, \* the rows, in the order they were stored
          asked,  \* asked[w]: the request of caller w, or Nobody
          answer  \* answer[w]: what w was told, or Nobody

lvars == <<ledger, asked, answer>>

Stored(id) == [kind |-> "stored", id |-> id]
Duplicate(id) == [kind |-> "duplicate", id |-> id]
Failed == [kind |-> "error", id |-> 0]

LInit ==
    /\ ledger \in {<<>>, Legacy}
    /\ asked = [w \in Workers |-> Nobody]
    /\ answer = [w \in Workers |-> Nobody]

Waiting(w) == asked[w] # Nobody /\ answer[w] = Nobody

Ask(w, r) ==
    /\ asked[w] = Nobody
    /\ asked' = [asked EXCEPT ![w] = r]
    /\ UNCHANGED <<ledger, answer>>

Store(w) ==
    LET row == RowOf(asked[w]) IN
    /\ Waiting(w)
    /\ \A i \in DOMAIN ledger : ledger[i].ext # row.ext
    /\ ledger' = Append(ledger, row)
    /\ answer' = [answer EXCEPT ![w] = Stored(Len(ledger) + 1)]
    /\ UNCHANGED asked

Refuse(w, id) ==
    /\ Waiting(w)
    /\ ledger[id].ext = RowOf(asked[w]).ext
    /\ answer' = [answer EXCEPT ![w] = Duplicate(id)]
    /\ UNCHANGED <<ledger, asked>>

Fail(w) ==
    /\ Waiting(w)
    /\ answer' = [answer EXCEPT ![w] = Failed]
    /\ UNCHANGED <<ledger, asked>>

\* Callers leave: one that has its answer, or all those of a process that died.
Leave(ws) ==
    /\ asked' = [w \in Workers |-> IF w \in ws THEN Nobody ELSE asked[w]]
    /\ answer' = [w \in Workers |-> IF w \in ws THEN Nobody ELSE answer[w]]
    /\ UNCHANGED ledger

LNext ==
    \/ \E w \in Workers :
        \/ \E r \in Requests : Ask(w, r)
        \/ Store(w)
        \/ \E id \in DOMAIN ledger : Refuse(w, id)
        \/ Fail(w)
    \/ \E ws \in SUBSET Workers : Leave(ws)

LSpec == LInit /\ [][LNext]_lvars
=============================================================================

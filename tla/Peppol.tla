------------------------------- MODULE Peppol -------------------------------
(***************************************************************************)
(* The Peppol engine (src/pkg/peppol/engine.go, retry.go, factory.go and   *)
(* src/pkg/archive/peppol.go): handlers, the poller and command-line       *)
(* processes ("workers") send, retry and receive invoices through an       *)
(* external Access Point (AP) and keep one row per message in the table    *)
(* peppol_messages of the archive.                                         *)
(*                                                                         *)
(* What a step is: one SQL statement, one HTTP exchange with the AP split  *)
(* into the request and its answer, or one IngestWithSource, which is one  *)
(* step of Ledger.tla (the rows are known by their external id here).      *)
(*                                                                         *)
(* A call that is refused before it writes anything (participant unknown,  *)
(* invoice not valid, message not retryable, ...) changes nothing and is   *)
(* not a step.  An envelope is what ToXML writes and FromXML reads: an id  *)
(* and a payload.  The receipt statuses accepted and delivered, which the  *)
(* code only labels differently, are the one "delivered".                  *)
(***************************************************************************)
EXTENDS Naturals, Sequences, FiniteSets, FiniteSetsExt

CONSTANTS Workers,    \* goroutines and processes that use the engine
          Processes,  \* a partition of Workers: who is killed together
          Poller,     \* the worker that runs StartPeppolPoller's loop
          Docs,       \* invoice documents
          Stored,     \* those in the archive to send by id; others come as GOBL
          Incoming,   \* what others sent to us: records [id, doc, status]
          ApSendsSbd, \* the AP answers a poll with sbd_xml_base64
          None,       \* no id, no invoice, no envelope
          MaxTries,   \* attempts of SendWithRetry: 3
          MaxSends,   \* bound: calls of Send
          MaxRows,    \* bound: bad envelopes are taken while there is room
          MaxFaults   \* bound: crashes and failing statements

\* The id Send makes from the clock, and the id the AP makes for that message.
Key(n) == <<"factura-out", n>>
ApKey(n) == <<"ap", n>>
Keys == {Key(n) : n \in 1 .. MaxSends}
IncomingIds == {m.id : m \in Incoming}
Ids == Keys \cup {ApKey(n) : n \in 1 .. MaxSends} \cup IncomingIds

Wrap(id, payload) == [id |-> id, payload |-> payload]
Sbds == {Wrap(id, doc) : id \in Ids, doc \in Docs}
Payloads == Docs \cup Sbds
Envelopes == {Wrap(id, payload) : id \in Ids, payload \in Payloads}

\* External ids of archived rows.
Own(doc) == <<"own", doc>>
Received(id) == <<"peppol", id>>
Sent(id) == <<"peppol:send", id>>
ExtIds == {Own(d) : d \in Docs} \cup {Received(id) : id \in Ids} \cup {Sent(id) : id \in Ids}

MessageStatus == {"sending", "delivered", "failed"}
Receipts == {"none", "delivered", "rejected", "error"}
Message == [dir : {"in", "out"}, apid : Ids \cup {None}, status : MessageStatus,
            receipt : Receipts, invoice : ExtIds \cup {None},
            bis : Envelopes \cup {None}]

ASSUME IncomingOK ==
    /\ Incoming \subseteq [id : IncomingIds, doc : Docs, status : {"delivered", "failed"}]
    /\ \A m, o \in Incoming : m.id = o.id => m = o
    /\ \A n \in 1 .. MaxSends : {Key(n), ApKey(n)} \cap IncomingIds = {}
    /\ None \notin Ids /\ None \notin ExtIds /\ None \notin Envelopes /\ None \notin Docs
    /\ Docs \cap Sbds = {}
ASSUME StoredOK == Stored \subseteq Docs
ASSUME BoundsOK ==
    /\ MaxTries \in Nat \ {0} /\ MaxSends \in Nat /\ MaxRows \in Nat /\ MaxFaults \in Nat
    /\ ApSendsSbd \in BOOLEAN
    /\ Processes \subseteq SUBSET Workers
    /\ Poller \in Workers

VARIABLES messages, \* table peppol_messages: the row with id i is messages[i]
          archived, \* table invoices: archived[ext] is the stored file
          call,     \* call[w]: where worker w is, and its local variables
          sends,    \* number of Send calls so far, and the clock they read
          ownIds,   \* the AP answers with ids of its own, not with our keys
          posted,   \* requests POSTed to the AP, lost ones included
          taken,    \* those the AP took over to deliver
          presumed, \* history: messages called delivered on an answer that does
                    \* not say so, and which the AP has not taken
          faults    \* number of crashes and failed statements so far

tables == <<messages, archived>>
accessPoint == <<ownIds, posted, taken, presumed>>
vars == <<tables, call, sends, accessPoint, faults>>

Idle == [at |-> "idle", op |-> "none", msg |-> 0, id |-> None, key |-> None,
         body |-> None, inv |-> None, status |-> "delivered", tries |-> 0,
         receipt |-> "none", cause |-> "none"]

-----------------------------------------------------------------------------
(* Rows.                                                                   *)

RowsWith(id) == {i \in DOMAIN messages : messages[i].apid = id}

\* The unique index is over non-empty ids only.
NeverTaken(i, id) == FALSE
TakenBy(i, id) == id # None /\ RowsWith(id) \ {i} # {}

\* UPDATE ... WHERE id = ?: one that violates the unique index changes nothing,
\* and every caller ignores the error.
UpdateRow(i, row) ==
    messages' = IF TakenBy(i, row.apid) THEN messages ELSE [messages EXCEPT ![i] = row]

\* A call that is over keeps what it answers.
At(c, next) ==
    IF next = "done" THEN [Idle EXCEPT !.at = "done", !.op = c.op, !.msg = c.msg, !.id = c.id,
                                       !.inv = c.inv, !.receipt = c.receipt]
    ELSE [c EXCEPT !.at = next]
Goto(w, next) == call' = [call EXCEPT ![w] = At(@, next)]

\* The step of Send and Retry that follows one that writes the message's row.
AfterWrite(c) ==
    CASE c.at \in {"name", "reset"} -> "post"
      [] c.at = "mark" /\ c.receipt # "error" /\ (c.op = "send" \/ c.receipt = "delivered") -> "rename"
      [] c.at = "rename" /\ c.op = "send" /\ c.receipt = "delivered" -> "archive"
      [] OTHER -> "done"

\* COALESCE(NULLIF(?, ''), old)
Coalesce(new, old) == IF new = None THEN old ELSE new

-----------------------------------------------------------------------------
(* Send.                                                                   *)

\* The payload is an archived invoice, or made from GOBL: none is linked yet.
InvoiceOf(doc) == IF doc \in Stored THEN Own(doc) ELSE None

\* Up to SendRecord
StartSend(w, doc, invoice) ==
    /\ call[w] = Idle
    /\ sends < MaxSends
    /\ sends' = sends + 1
    /\ call' = [call EXCEPT ![w] =
                   [Idle EXCEPT !.at = "record", !.op = "send", !.body = doc,
                                !.inv = invoice, !.key = Key(sends + 1)]]
    /\ UNCHANGED <<tables, accessPoint, faults>>

OutRow(c) ==
    [dir |-> "out", apid |-> None, status |-> "sending", receipt |-> "none",
     invoice |-> c.inv, bis |-> Wrap(c.key, c.body)]

RecordOut(w) ==
    /\ call[w].at = "record"
    /\ messages' = Append(messages, OutRow(call[w]))
    /\ call' = [call EXCEPT ![w].msg = Len(messages) + 1, ![w].at = "name"]
    /\ UNCHANGED <<archived, sends, accessPoint, faults>>

\* SetPeppolAPMessageID before the first attempt
NameOut(w) ==
    LET c == call[w] IN
    /\ c.at = "name"
    /\ UpdateRow(c.msg, [messages[c.msg] EXCEPT !.apid = c.key])
    /\ Goto(w, AfterWrite(c))
    /\ UNCHANGED <<archived, sends, accessPoint, faults>>

-----------------------------------------------------------------------------
(* Retry.                                                                  *)

\* The key of a retry is taken from the id column.
KeyOfColumn(row) == Coalesce(row.apid, row.bis.id)
\* FromXML(m.BisXML): the key of the first attempt
KeyOf(row) == row.bis.id

Retryable(row) == row.dir = "out" /\ row.status \in {"sending", "failed"}

\* MessageByID and the checks on what it read
StartRetry(w, i) ==
    /\ call[w] = Idle
    /\ i \in DOMAIN messages
    /\ Retryable(messages[i])
    /\ call' = [call EXCEPT ![w] =
                   [Idle EXCEPT !.at = "reset", !.op = "retry", !.msg = i,
                                !.id = messages[i].apid, !.inv = messages[i].invoice,
                                !.key = KeyOf(messages[i]),
                                !.body = messages[i].bis.payload]]
    /\ UNCHANGED <<tables, sends, accessPoint, faults>>

\* UpdatePeppolMessage: back to sending, with the columns read before
Reset(w) ==
    LET c == call[w] IN
    /\ c.at = "reset"
    /\ UpdateRow(c.msg, [messages[c.msg] EXCEPT
                            !.apid = Coalesce(c.id, @), !.status = "sending",
                            !.invoice = Coalesce(c.inv, @)])
    /\ Goto(w, AfterWrite(c))
    /\ UNCHANGED <<archived, sends, accessPoint, faults>>

-----------------------------------------------------------------------------
(* SendWithRetry and the AP.                                               *)

Request(c) == [key |-> c.key, msg |-> c.msg, doc |-> c.body]

Post(w) ==
    /\ call[w].at = "post"
    /\ posted' = posted \cup {Request(call[w])}
    /\ call' = [call EXCEPT ![w].at = "await", ![w].tries = @ + 1, ![w].cause = "none"]
    /\ UNCHANGED <<tables, sends, ownIds, taken, presumed, faults>>

\* The AP processes a request, however late, unless it took one of that key.
HasKey(key) == \E q \in taken : q.key = key
Take(p) ==
    /\ p \in posted
    /\ ~HasKey(p.key)
    /\ taken' = taken \cup {p}
    /\ presumed' = presumed \ {p.msg}
    /\ UNCHANGED <<tables, call, sends, ownIds, posted, faults>>

\* The id in the AP's answer: "id" of its JSON, or the key where that is empty.
ApName(key) == IF ownIds /\ key \in Keys THEN ApKey(key[2]) ELSE key

\* What sendOnce makes of an answer below 400: it ignores that it cannot read or
\* parse the body, and a status that is missing or unknown; only "failed" is a
\* rejection. An AP that has the message does not say that it failed.
Understood(key) == {"delivered"} \cup (IF HasKey(key) THEN {} ELSE {"rejected"})

Conclude(c, receipt, id) ==
    [c EXCEPT !.at = "mark", !.receipt = receipt, !.tries = 0, !.cause = "none", !.id = id]

\* An answer without an id is about our key.
Answer(w) ==
    LET c == call[w] IN
    /\ c.at = "await"
    /\ \E receipt \in Understood(c.key), id \in {c.key, ApName(c.key)} :
        /\ call' = [call EXCEPT ![w] = Conclude(c, receipt, id)]
        /\ presumed' = IF receipt = "delivered" /\ ~HasKey(c.key)
                       THEN presumed \cup {c.msg} ELSE presumed
    /\ UNCHANGED <<tables, sends, ownIds, posted, taken, faults>>

\* The next attempt is not counted; one too many; the message is not marked.
RetriesForever(c) == [c EXCEPT !.at = "post", !.tries = 0]
OneTooMany(c) ==
    IF c.tries <= MaxTries THEN [c EXCEPT !.at = "post"] ELSE Conclude(c, "error", None)
LeftSending(c) ==
    IF c.tries < MaxTries THEN [c EXCEPT !.at = "post"]
    ELSE [Conclude(c, "error", None) EXCEPT !.at = "done"]
\* Any error of ap.Send: network, timeout or 5xx ("transient"), or 4xx ("client")
TryAgain(c) ==
    IF c.tries < MaxTries THEN [c EXCEPT !.at = "post"] ELSE Conclude(c, "error", None)

Unanswered(w, cause) ==
    /\ call[w].at = "await"
    /\ call' = [call EXCEPT ![w] = TryAgain([@ EXCEPT !.cause = cause])]
    /\ UNCHANGED <<tables, sends, accessPoint, faults>>

\* The caller's context is done: no further attempt.
GiveUp(w) ==
    /\ call[w].at \in {"post", "await"}
    /\ call' = [call EXCEPT ![w] = Conclude(@, "error", None)]
    /\ UNCHANGED <<tables, sends, accessPoint, faults>>

\* What is sent counts as delivered unless the AP says it failed.
StatusUnlessRejected(receipt) == IF receipt = "rejected" THEN "failed" ELSE "delivered"
StatusOf(receipt) == IF receipt = "delivered" THEN "delivered" ELSE "failed"

\* MarkDelivered, MarkAccepted, MarkFailed
Mark(w) ==
    LET c == call[w] IN
    /\ c.at = "mark"
    /\ UpdateRow(c.msg, [messages[c.msg] EXCEPT !.status = StatusOf(c.receipt),
                                                !.receipt = c.receipt])
    /\ Goto(w, AfterWrite(c))
    /\ UNCHANGED <<archived, sends, accessPoint, faults>>

\* SetPeppolAPMessageID with the id of the receipt
Rename(w) ==
    LET c == call[w] IN
    /\ c.at = "rename"
    /\ UpdateRow(c.msg, [messages[c.msg] EXCEPT !.apid = c.id])
    /\ Goto(w, AfterWrite(c))
    /\ UNCHANGED <<archived, sends, accessPoint, faults>>

-----------------------------------------------------------------------------
(* IngestWithSource: the first file under an external id stays.            *)

Ingest(ext, body) ==
    archived' = [e \in DOMAIN archived \cup {ext} |->
                    IF e \in DOMAIN archived THEN archived[e] ELSE body]

\* Send's artifact
ArchiveSent(w) ==
    LET c == call[w] IN
    /\ c.at = "archive"
    /\ Ingest(Sent(c.id), c.body)
    /\ call' = [call EXCEPT ![w].inv = Sent(c.id), ![w].at = "link"]
    /\ UNCHANGED <<messages, sends, accessPoint, faults>>

\* SetPeppolInvoiceID
LinkSent(w) ==
    LET c == call[w] IN
    /\ c.at = "link"
    /\ UpdateRow(c.msg, [messages[c.msg] EXCEPT !.invoice = c.inv])
    /\ Goto(w, AfterWrite(c))
    /\ UNCHANGED <<archived, sends, accessPoint, faults>>

-----------------------------------------------------------------------------
(* ReceiveSBD, called by the AP's POST or for each message of a poll.      *)

\* A message taken for a receiver that is ourselves comes back, under the key
\* in its envelope or under the AP's id.
Bounces ==
    UNION {{[id |-> id, doc |-> p.doc] : id \in {p.key, ApName(p.key)}} : p \in taken}

Pushed(m) == Wrap(m.id, m.doc)
\* The bridge drops the AP's id, and ToXML makes one up.
PolledAnew(m) == Wrap(Key(MaxSends), m.doc)
\* httpBridge.Poll, and PollAndIngest's ToXML around what ap_http left as payload
Polled(m) == Wrap(m.id, IF ApSendsSbd THEN Wrap(m.id, m.doc) ELSE m.doc)

\* raw is well-formed; its status is the sender's, which a poll does not pass on.
StartReceive(w, status, raw) ==
    /\ call[w] = Idle
    /\ call' = [call EXCEPT ![w] =
                   [Idle EXCEPT !.at = "seen", !.op = "receive", !.id = raw.id,
                                !.body = raw.payload, !.status = status]]
    /\ UNCHANGED <<tables, sends, accessPoint, faults>>

\* FromXML fails: only the raw bytes are recorded.
BadEnvelope(w) ==
    /\ call[w] = Idle
    /\ Len(messages) < MaxRows
    /\ messages' = Append(messages,
                       [dir |-> "in", apid |-> None, status |-> "failed",
                        receipt |-> "none", invoice |-> None, bis |-> None])
    /\ UNCHANGED <<archived, call, sends, accessPoint, faults>>

\* The answer to a duplicate: the row there is, and its invoice
Known(c) ==
    At([c EXCEPT !.receipt = "delivered", !.msg = Min(RowsWith(c.id)),
                 !.inv = messages[Min(RowsWith(c.id))].invoice], "done")

\* MessageByAPMessageID, in ReceiveSBD ("seen") and again in RecordInbound.
LookupMessage(w) ==
    LET c == call[w] IN
    /\ c.at \in {"seen", "seen_again"}
    /\ call' = [call EXCEPT ![w] =
                   IF RowsWith(c.id) # {} THEN Known(c)
                   ELSE [c EXCEPT !.at = IF c.at = "seen" THEN "ingest" ELSE "insert"]]
    /\ UNCHANGED <<tables, sends, accessPoint, faults>>

\* The id of the content, as Ingest makes it without a hint
ContentId(c) == Own(c.body)
ExternalIdOf(c) == Received(c.id)

IngestReceived(w) ==
    LET c == call[w] IN
    /\ c.at = "ingest"
    /\ Ingest(ExternalIdOf(c), c.body)
    /\ call' = [call EXCEPT ![w].inv = ExternalIdOf(c), ![w].at = "seen_again"]
    /\ UNCHANGED <<messages, sends, accessPoint, faults>>

InRow(c) ==
    [dir |-> "in", apid |-> c.id, status |-> c.status, receipt |-> "none",
     invoice |-> c.inv, bis |-> Wrap(c.id, c.body)]

\* RecordInbound's INSERT, which may violate the unique index.
InsertMessage(w) ==
    LET c == call[w] IN
    /\ c.at = "insert"
    /\ IF TakenBy(0, c.id)
       THEN /\ Goto(w, "refetch")
            /\ UNCHANGED messages
       ELSE /\ messages' = Append(messages, InRow(c))
            /\ call' = [call EXCEPT ![w] = At([c EXCEPT !.receipt = "delivered",
                                                        !.msg = Len(messages) + 1], "done")]
    /\ UNCHANGED <<archived, sends, accessPoint, faults>>

\* The row that violated it; a Rename may have taken the id from it meanwhile.
Refetch(w) ==
    LET c == call[w] IN
    /\ c.at = "refetch"
    /\ call' = [call EXCEPT ![w] = IF RowsWith(c.id) # {} THEN Known(c)
                                   ELSE At(c, "done")]
    /\ UNCHANGED <<tables, sends, accessPoint, faults>>

-----------------------------------------------------------------------------
(* The end of a call, and what goes wrong.                                 *)

Return(w) ==
    /\ call[w].at = "done"
    /\ call' = [call EXCEPT ![w] = Idle]
    /\ UNCHANGED <<tables, sends, accessPoint, faults>>

Fault == faults < MaxFaults /\ faults' = faults + 1

\* Updates whose error is ignored
WriteFails(w) ==
    /\ Fault
    /\ call[w].at \in {"name", "reset", "mark", "rename", "link"}
    /\ Goto(w, AfterWrite(call[w]))
    /\ UNCHANGED <<tables, sends, accessPoint>>

\* A lookup that fails counts as "not there".
LookupFails(w) ==
    /\ Fault
    /\ call[w].at \in {"seen", "seen_again"}
    /\ Goto(w, IF call[w].at = "seen" THEN "ingest" ELSE "insert")
    /\ UNCHANGED <<tables, sends, accessPoint>>

\* The inserts of SendRecord and RecordInbound and the two ingests: the call
\* ends, with an error but for Send's artifact.
InsertFails(w) ==
    /\ Fault
    /\ call[w].at \in {"record", "archive", "ingest", "insert", "refetch"}
    /\ Goto(w, "done")
    /\ UNCHANGED <<tables, sends, accessPoint>>

Crash(ws) ==
    /\ Fault
    /\ \E w \in ws : call[w] # Idle
    /\ call' = [w \in Workers |-> IF w \in ws THEN Idle ELSE call[w]]
    /\ UNCHANGED <<tables, sends, accessPoint>>

-----------------------------------------------------------------------------

Init ==
    /\ messages = <<>>
    /\ archived = [e \in {Own(d) : d \in Stored} |-> CHOOSE d \in Stored : e = Own(d)]
    /\ call = [w \in Workers |-> Idle]
    /\ sends = 0
    /\ ownIds \in BOOLEAN
    /\ posted = {}
    /\ taken = {}
    /\ presumed = {}
    /\ faults = 0

Step(w) ==
    \/ RecordOut(w) \/ NameOut(w) \/ Reset(w) \/ Post(w)
    \/ Answer(w) \/ GiveUp(w)
    \/ \E cause \in {"transient", "client"} : Unanswered(w, cause)
    \/ Mark(w) \/ Rename(w) \/ ArchiveSent(w) \/ LinkSent(w)
    \/ LookupMessage(w) \/ IngestReceived(w) \/ InsertMessage(w) \/ Refetch(w)
    \/ Return(w)

Start(w) ==
    \/ \E doc \in Docs : StartSend(w, doc, InvoiceOf(doc))
    \/ \E i \in DOMAIN messages : StartRetry(w, i)
    \/ \E m \in Incoming :
        \/ StartReceive(w, m.status, Pushed(m))
        \/ StartReceive(w, "delivered", Polled(m))
    \/ \E m \in Bounces : StartReceive(w, "delivered", Pushed(m))
    \/ BadEnvelope(w)

Fails(w) == WriteFails(w) \/ LookupFails(w) \/ InsertFails(w)

Next ==
    \/ \E w \in Workers : Start(w) \/ Step(w) \/ Fails(w)
    \/ \E p \in posted : Take(p)
    \/ \E ws \in Processes : Crash(ws)

Spec == Init /\ [][Next]_vars

\* A call that runs goes on (each attempt has a timeout of 30 s), and the
\* poller, whose process is started again after a crash, polls for ever; the AP
\* answers each poll with every message (since is the zero time).
Fairness ==
    /\ \A w \in Workers : WF_vars(Step(w))
    /\ \A m \in Incoming : SF_vars(StartReceive(Poller, "delivered", Polled(m)))

FairSpec == Spec /\ Fairness

-----------------------------------------------------------------------------
(* Properties.                                                             *)

Steps == {"idle", "record", "name", "reset", "post", "await", "mark", "rename", "archive",
          "link", "seen", "ingest", "seen_again", "insert", "refetch", "done"}
Call == [at : Steps, op : {"none", "send", "retry", "receive"}, msg : DOMAIN messages \cup {0},
         id : Ids \cup {None}, key : Ids \cup {None}, body : Payloads \cup {None},
         inv : ExtIds \cup {None}, status : MessageStatus, tries : 0 .. MaxTries,
         receipt : Receipts, cause : {"none", "transient", "client"}]
Requests == [key : Ids, msg : DOMAIN messages, doc : Docs]

\* Tables, callers and the AP have their types; no call makes more attempts than
\* SendWithRetry's three.
TypeOK ==
    /\ messages \in Seq(Message)
    /\ DOMAIN archived \subseteq ExtIds
    /\ archived \in [DOMAIN archived -> Payloads]
    /\ call \in [Workers -> Call]
    /\ sends \in 0 .. MaxSends
    /\ ownIds \in BOOLEAN
    /\ posted \subseteq Requests
    /\ taken \subseteq posted
    /\ presumed \subseteq DOMAIN messages
    /\ faults \in 0 .. MaxFaults

\* However often a message is retried, by whom and after which lost answers, an
\* AP that honours the idempotency key takes it once (retry.go:28-30,
\* engine.go:278-284).
SentAtMostOnce ==
    \A p, q \in taken : p.msg = q.msg => p = q

\* Nothing is called delivered that the AP did not take, no row, no answer and no
\* artifact, unless an answer about that message was presumed to say so; and an
\* artifact is the document of its message (engine.go:221-252, ap_http.go:180-188).
TakenOrPresumed(i) == i \in presumed \/ \E p \in taken : p.msg = i
ArtifactOf(i, id) ==
    /\ messages[i].dir = "out" /\ TakenOrPresumed(i)
    /\ id \in {messages[i].bis.id, ApName(messages[i].bis.id)}

DeliveryIsReal ==
    /\ \A i \in DOMAIN messages :
           messages[i].dir = "out" /\ messages[i].status = "delivered" => TakenOrPresumed(i)
    /\ \A w \in Workers :
           call[w].op \in {"send", "retry"} /\ call[w].receipt = "delivered" =>
               TakenOrPresumed(call[w].msg)
    /\ \A id \in Ids :
           Sent(id) \in DOMAIN archived =>
               \E i \in DOMAIN messages :
                   ArtifactOf(i, id) /\ archived[Sent(id)] = messages[i].bis.payload

\* A received message that is on record names its invoice, and that invoice is
\* archived under the message's id, whatever crashed between the ingest and the
\* record (engine.go:82-92).
InboundIsArchived ==
    \A i \in DOMAIN messages :
        messages[i].dir = "in" /\ messages[i].apid # None =>
            /\ messages[i].invoice = Received(messages[i].apid)
            /\ messages[i].invoice \in DOMAIN archived

\* A delivery that is answered with 200 is on record, once, as is every other
\* delivery of that message (engine.go:53-102, peppol.go:192-219).
Acknowledged ==
    \A w \in Workers :
        call[w].op = "receive" /\ call[w].at = "done" /\ call[w].receipt = "delivered"
        /\ call[w].id \in IncomingIds =>
            /\ Cardinality(RowsWith(call[w].id)) = 1
            /\ call[w].msg \in RowsWith(call[w].id)
            /\ call[w].inv = Received(call[w].id)

\* What is archived for a received message is the invoice it carries, not its
\* envelope (ap_http.go:238-245, engine.go:126-130).
ReceivedIntact ==
    \A m \in Incoming :
        Received(m.id) \in DOMAIN archived => archived[Received(m.id)] = m.doc

\* A message on record as delivered stays delivered: it is not sent again
\* ("not retryable", engine.go:275-277).
DeliveryStays ==
    [][\A i \in DOMAIN messages :
          messages[i].dir = "out" /\ messages[i].status = "delivered" =>
              messages'[i].status = "delivered"]_vars

\* An attempt follows a failed one only after a network error or a 5xx.
RetriesTransientOnly ==
    [][\A w \in Workers :
          call[w].at = "post" /\ call'[w].at = "await" => call[w].cause # "client"]_vars

\* Send, Retry and ReceiveSBD return, even if the AP never answers.
CallsEnd == \A w \in Workers : call[w].at # "idle" ~> call[w].at = "idle"

\* No message is left "sending" but by a crash or a failed statement.
LeftAsSending(i) == i \in DOMAIN messages /\ messages[i].status = "sending"
Settled ==
    \A i \in 1 .. MaxSends + MaxRows : LeftAsSending(i) ~> (~LeftAsSending(i) \/ faults > 0)

\* The poller gets every message that others sent to us on record, across
\* crashes and failing statements.
EverythingArrives ==
    \A m \in Incoming : <>(\E i \in DOMAIN messages :
        messages[i].apid = m.id /\ Received(m.id) \in DOMAIN archived)
=============================================================================

---------------------------- MODULE PeppolProofs ----------------------------
(***************************************************************************)
(* Theorems of Peppol, for any number of workers, documents, messages from *)
(* others, attempts and faults, and any way of killing processes.          *)
(***************************************************************************)
EXTENDS Peppol, SequenceTheorems, FiniteSetTheorems, TLAPS

-----------------------------------------------------------------------------
(* The inductive invariant.                                                *)

\* Ids of rows we sent: keys, and what the AP calls them.
OutIds == Keys \cup {ApKey(n) : n \in 1 .. MaxSends}
UsedKeys == {Key(n) : n \in 1 .. sends}

IsOut(i) == i \in DOMAIN messages /\ messages[i].dir = "out"

\* An outgoing row keeps, as its envelope, a key that Send made and its document.
OutRows ==
    \A i \in DOMAIN messages : messages[i].dir = "out" =>
        /\ messages[i].apid \in OutIds \cup {None}
        /\ messages[i].bis \in [id : UsedKeys, payload : Docs]

\* The unique index, and what plays its part for the keys in the envelopes.
UniqueIds ==
    \A i, j \in DOMAIN messages :
        messages[i].apid # None /\ messages[i].apid = messages[j].apid => i = j
UniqueKeys ==
    \A i, j \in DOMAIN messages :
        /\ messages[i].dir = "out" /\ messages[j].dir = "out"
        /\ messages[i].bis.id = messages[j].bis.id
        => i = j

\* A key that is not yet in an envelope is in the hands of one call.
NewKeys ==
    \A w \in Workers : call[w].at = "record" =>
        /\ \A i \in DOMAIN messages : messages[i].dir = "out" => messages[i].bis.id # call[w].key
        /\ \A v \in Workers \ {w} : call[v].at = "record" => call[v].key # call[w].key

\* Every request, however old, says what the envelope of its row says.
Requested ==
    \A p \in posted : IsOut(p.msg) /\ messages[p.msg].bis = Wrap(p.key, p.doc)

\* The AP honours the idempotency key.
TakenOnce == \A p, q \in taken : p.key = q.key => p = q

\* Artifacts of Send.
ArtifactsAreReal ==
    \A id \in Ids :
        Sent(id) \in DOMAIN archived =>
            \E i \in DOMAIN messages :
                ArtifactOf(i, id) /\ archived[Sent(id)] = messages[i].bis.payload

Sending == {"name", "reset", "post", "await", "mark", "rename", "archive", "link"}
Receiving == {"seen", "ingest", "seen_again", "insert", "refetch"}

\* A call of Send or Retry works on an outgoing row, with its key and document.
SendOK(c) ==
    /\ c.at = "record" =>
          c.op = "send" /\ c.key \in UsedKeys /\ c.body \in Docs /\ c.receipt = "none"
    /\ c.at \in Sending =>
          /\ c.op \in {"send", "retry"}
          /\ IsOut(c.msg) /\ messages[c.msg].bis = Wrap(c.key, c.body)
    /\ c.at \in {"record", "name", "reset"} => c.tries = 0
    /\ c.at = "post" => c.tries < MaxTries
    /\ c.at = "reset" => c.id \in OutIds \cup {None}
    /\ c.at = "mark" /\ c.receipt # "error" => c.id \in {c.key, ApName(c.key)}
    /\ c.at \in {"rename", "archive"} => c.id \in {c.key, ApName(c.key)}
    /\ c.at = "archive" => c.receipt = "delivered"

\* What a call answers as delivered, the AP took or was presumed to have.
DeliveredOK(c) ==
    c.op \in {"send", "retry"} /\ c.receipt = "delivered" => TakenOrPresumed(c.msg)

\* A call of ReceiveSBD has ingested what it is about to record, and answers
\* with a row that is there.
ReceiveOK(c) ==
    /\ c.at \in Receiving =>
          c.op = "receive" /\ c.id \in Ids /\ c.body \in Payloads /\ c.receipt = "none"
    /\ c.at \in {"seen_again", "insert"} =>
          c.inv = Received(c.id) /\ Received(c.id) \in DOMAIN archived
    /\ c.op = "receive" /\ c.at = "done" /\ c.receipt = "delivered" /\ c.id \in IncomingIds =>
          /\ c.msg \in DOMAIN messages
          /\ messages[c.msg].dir = "in" /\ messages[c.msg].apid = c.id
          /\ c.inv = Received(c.id)

CallOK(c) == c \in Call /\ SendOK(c) /\ DeliveredOK(c) /\ ReceiveOK(c)

\* The tables and the access point.
TablesOK ==
    /\ messages \in Seq(Message)
    /\ DOMAIN archived \subseteq ExtIds
    /\ archived \in [DOMAIN archived -> Payloads]
    /\ OutRows /\ UniqueIds /\ UniqueKeys /\ InboundIsArchived

AccessPointOK ==
    /\ ownIds \in BOOLEAN
    /\ posted \subseteq Requests
    /\ taken \subseteq posted
    /\ presumed \subseteq DOMAIN messages
    /\ Requested /\ TakenOnce /\ ArtifactsAreReal
    /\ \A i \in DOMAIN messages :
           messages[i].dir = "out" /\ messages[i].status = "delivered" => TakenOrPresumed(i)

CallsOK ==
    /\ call = [w \in Workers |-> call[w]]
    /\ \A w \in Workers : CallOK(call[w])
    /\ NewKeys

CountersOK == sends \in 0 .. MaxSends /\ faults \in 0 .. MaxFaults

IInv == TablesOK /\ AccessPointOK /\ CallsOK /\ CountersOK

-----------------------------------------------------------------------------
(* Ids and keys.                                                           *)

LEMMA UsedKeysAre ==
    ASSUME CountersOK
    PROVE  /\ UsedKeys \subseteq Keys /\ Keys \subseteq Ids /\ OutIds \subseteq Ids
           /\ \A key \in Keys : ApName(key) \in OutIds
           /\ OutIds \cap IncomingIds = {}
  <1>1. sends \in Nat /\ sends <= MaxSends /\ MaxSends \in Nat
    BY BoundsOK DEF CountersOK
  <1>2. UsedKeys \subseteq Keys /\ Keys \subseteq Ids /\ OutIds \subseteq Ids
    BY <1>1 DEF UsedKeys, Keys, OutIds, Ids
  <1>3. ASSUME NEW key \in Keys
        PROVE  ApName(key) \in OutIds
    <2>1. PICK n \in 1 .. MaxSends : key = Key(n)
      BY DEF Keys
    <2>2. key[2] = n
      BY <2>1 DEF Key
    <2>3. QED
      BY <2>1, <2>2 DEF ApName, OutIds
  <1>4. OutIds \cap IncomingIds = {}
    BY IncomingOK DEF OutIds, Keys
  <1>5. QED
    BY <1>2, <1>3, <1>4

LEMMA NewKeyIs ==
    ASSUME CountersOK
    PROVE  Key(sends + 1) \notin UsedKeys
  <1>1. sends \in Nat
    BY DEF CountersOK
  <1>2. \A n \in 1 .. sends : Key(n) # Key(sends + 1)
    BY <1>1 DEF Key
  <1>3. QED
    BY <1>2 DEF UsedKeys

LEMMA NoneIsNoId == None \notin Ids /\ None \notin ExtIds /\ None \notin Envelopes
  BY IncomingOK

-----------------------------------------------------------------------------
(* What no step takes back.                                                *)

\* Rows stay, the incoming ones as they are, the outgoing with their envelopes.
RowsKept ==
    \A i \in DOMAIN messages :
        /\ i \in DOMAIN messages'
        /\ messages'[i].dir = messages[i].dir /\ messages'[i].bis = messages[i].bis
        /\ messages[i].dir = "in" => messages'[i] = messages[i]

FilesKept == \A e \in DOMAIN archived : e \in DOMAIN archived' /\ archived'[e] = archived[e]

Kept ==
    /\ RowsKept
    /\ FilesKept
    /\ taken \subseteq taken'
    /\ \A i \in presumed : TakenOrPresumed(i)'
    /\ ownIds' = ownIds
    /\ sends <= sends'

LEMMA PresumedStays ==
    ASSUME taken \subseteq taken', \A i \in presumed : TakenOrPresumed(i)',
           NEW i, TakenOrPresumed(i)
    PROVE  TakenOrPresumed(i)'
  BY DEF TakenOrPresumed

\* The same where no answer is presumed.
LEMMA PresumedSame ==
    ASSUME UNCHANGED accessPoint
    PROVE  /\ ownIds' = ownIds /\ posted' = posted /\ taken' = taken /\ presumed' = presumed
           /\ \A i \in presumed : TakenOrPresumed(i)'
  BY DEF accessPoint, TakenOrPresumed

\* What a call works on is as right after a step as before.
LEMMA WorkStays ==
    ASSUME NEW c \in Call, SendOK(c), ReceiveOK(c), Kept, CountersOK, CountersOK'
    PROVE  c \in Call' /\ SendOK(c)' /\ ReceiveOK(c)'
  <1>1. /\ RowsKept /\ DOMAIN archived \subseteq DOMAIN archived' /\ ownIds' = ownIds
    BY DEF Kept, FilesKept
  <1>2. UsedKeys \subseteq UsedKeys'
    BY DEF Kept, CountersOK, UsedKeys
  <1>3. DOMAIN messages \subseteq DOMAIN messages'
    BY <1>1 DEF RowsKept
  <1>4. c \in Call'
    BY <1>3 DEF Call
  <1>5. SendOK(c)'
    BY <1>1, <1>2 DEF SendOK, RowsKept, IsOut, ApName
  <1>6. ReceiveOK(c)'
    BY <1>1 DEF ReceiveOK, RowsKept
  <1>7. QED
    BY <1>4, <1>5, <1>6

\* A call of another worker is as right after a step as before.
LEMMA CallStays ==
    ASSUME NEW c, CallOK(c), Kept, CountersOK, CountersOK'
    PROVE  CallOK(c)'
  <1>1. c \in Call' /\ SendOK(c)' /\ ReceiveOK(c)'
    BY WorkStays DEF CallOK
  <1>2. DeliveredOK(c)'
    <2>1. DeliveredOK(c) /\ taken \subseteq taken' /\ \A i \in presumed : TakenOrPresumed(i)'
      BY DEF CallOK, Kept
    <2>2. TakenOrPresumed(c.msg) => TakenOrPresumed(c.msg)'
      BY <2>1, PresumedStays
    <2>3. QED
      BY <2>1, <2>2 DEF DeliveredOK
  <1>3. QED
    BY <1>1, <1>2 DEF CallOK

LEMMA IdleIs == CallOK(Idle) /\ Idle.at = "idle" /\ Idle.op = "none"
  <1>1. Idle \in Call
    BY BoundsOK DEF Idle, Call, Steps, MessageStatus, Receipts
  <1>2. SendOK(Idle) /\ DeliveredOK(Idle) /\ ReceiveOK(Idle)
    BY DEF Idle, SendOK, DeliveredOK, ReceiveOK, Sending, Receiving
  <1>3. QED
    BY <1>1, <1>2 DEF CallOK, Idle

\* The calls after a step of one worker.
LEMMA OthersStay ==
    ASSUME IInv, Kept, CountersOK', NEW w \in Workers, NEW c, CallOK(c)',
           call' = [call EXCEPT ![w] = c]
    PROVE  /\ call' = [v \in Workers |-> call'[v]]
           /\ \A v \in Workers : call'[v] = IF v = w THEN c ELSE call[v]
           /\ \A v \in Workers : CallOK(call[v])'
  <1>1. /\ call = [v \in Workers |-> call[v]] /\ \A v \in Workers : CallOK(call[v])
        /\ CountersOK
    BY DEF IInv, CallsOK
  <1>2. call' = [v \in Workers |-> call'[v]] /\ \A v \in Workers : call'[v] = IF v = w THEN c ELSE call[v]
    BY <1>1
  <1>3. ASSUME NEW v \in Workers \ {w}
        PROVE  CallOK(call[v])'
    <2>1. call'[v] = call[v]
      BY <1>2
    <2> DEFINE d == call[v]
    <2>2. CallOK(d)
      BY <1>1
    <2>3. QED
      BY <1>1, <2>1, CallStays DEF CallOK
  <1>4. QED
    BY <1>2, <1>3

\* The same of a step that adds no outgoing row and no key.
LEMMA CallsStay ==
    ASSUME IInv, Kept, CountersOK', NEW w \in Workers, NEW c, c.at # "record", CallOK(c)',
           call' = [call EXCEPT ![w] = c],
           \A i \in DOMAIN messages' : messages'[i].dir = "out" => i \in DOMAIN messages
    PROVE  CallsOK'
  <1>1. /\ call' = [v \in Workers |-> call'[v]]
        /\ \A v \in Workers : call'[v] = IF v = w THEN c ELSE call[v]
        /\ \A v \in Workers : CallOK(call[v])'
    BY OthersStay
  <1>2. NewKeys'
    BY <1>1 DEF IInv, CallsOK, NewKeys, Kept, RowsKept
  <1>3. QED
    BY <1>1, <1>2 DEF CallsOK

\* The calls after a step of the access point, a bad envelope or a crash.
LEMMA CallsLeft ==
    ASSUME IInv, Kept, CountersOK', call' = [v \in Workers |-> call'[v]],
           \A v \in Workers : call'[v] \in {call[v], Idle},
           \A i \in DOMAIN messages' : messages'[i].dir = "out" => i \in DOMAIN messages
    PROVE  CallsOK'
  <1>1. (\A v \in Workers : CallOK(call[v])) /\ NewKeys /\ CountersOK
    BY DEF IInv, CallsOK
  <1>2. ASSUME NEW v \in Workers
        PROVE  CallOK(call[v])'
    <2>1. PICK d \in {call[v], Idle} : call'[v] = d
      OBVIOUS
    <2>2. CallOK(d)
      BY <1>1, IdleIs
    <2>3. CallOK(d)'
      BY <1>1, <2>2, CallStays
    <2>4. QED
      BY <2>1, <2>3 DEF CallOK
  <1>3. NewKeys'
    BY <1>1, IdleIs DEF NewKeys, Kept, RowsKept
  <1>4. QED
    BY <1>2, <1>3 DEF CallsOK

-----------------------------------------------------------------------------
(* What the statements do to the tables.                                   *)

LEMMA TablesStay ==
    ASSUME TablesOK, UNCHANGED tables, CountersOK, CountersOK', sends <= sends'
    PROVE  TablesOK' /\ RowsKept /\ FilesKept
  <1>1. messages' = messages /\ archived' = archived
    BY DEF tables
  <1>2. UsedKeys \subseteq UsedKeys'
    BY DEF CountersOK, UsedKeys
  <1>3. QED
    BY <1>1, <1>2 DEF TablesOK, OutRows, UniqueIds, UniqueKeys, InboundIsArchived, RowsKept, FilesKept

\* The access point after a step that only writes tables.
LEMMA PointStays ==
    ASSUME AccessPointOK, RowsKept, UNCHANGED accessPoint,
           \A id \in Ids : Sent(id) \in DOMAIN archived' =>
               \E i \in DOMAIN messages :
                   ArtifactOf(i, id) /\ archived'[Sent(id)] = messages[i].bis.payload,
           \A i \in DOMAIN messages' :
               messages'[i].dir = "out" /\ messages'[i].status = "delivered" =>
                   TakenOrPresumed(i)
    PROVE  AccessPointOK'
  <1>1. /\ ownIds' = ownIds /\ posted' = posted /\ taken' = taken /\ presumed' = presumed
        /\ \A i \in presumed : TakenOrPresumed(i)'
    BY PresumedSame
  <1>2. \A i : TakenOrPresumed(i) => TakenOrPresumed(i)'
    BY <1>1, PresumedStays
  <1>3. posted' \subseteq Requests' /\ presumed' \subseteq DOMAIN messages'
    BY <1>1 DEF AccessPointOK, RowsKept, Requests
  <1>4. Requested'
    BY <1>1 DEF AccessPointOK, Requested, RowsKept, IsOut
  <1>5. ArtifactsAreReal'
    BY <1>1, <1>2 DEF ArtifactsAreReal, ArtifactOf, ApName, RowsKept
  <1>6. QED
    BY <1>1, <1>2, <1>3, <1>4, <1>5 DEF AccessPointOK, TakenOnce

\* The rows and the artifacts of the access point before a step.
LEMMA PointIs ==
    ASSUME AccessPointOK
    PROVE  /\ \A id \in Ids : Sent(id) \in DOMAIN archived =>
                  \E i \in DOMAIN messages :
                      ArtifactOf(i, id) /\ archived[Sent(id)] = messages[i].bis.payload
           /\ \A i \in DOMAIN messages :
                  messages[i].dir = "out" /\ messages[i].status = "delivered" =>
                      TakenOrPresumed(i)
  BY DEF AccessPointOK, ArtifactsAreReal

\* UPDATE of an outgoing row.
LEMMA RowUpdated ==
    ASSUME TablesOK, AccessPointOK, CountersOK, UNCHANGED <<archived, accessPoint, sends>>,
           NEW i, IsOut(i), NEW row \in Message, UpdateRow(i, row),
           row.dir = "out", row.bis = messages[i].bis, row.apid \in OutIds \cup {None},
           row.status = "delivered" => TakenOrPresumed(i)
    PROVE  /\ TablesOK' /\ AccessPointOK' /\ Kept
           /\ DOMAIN messages' = DOMAIN messages
  <1>1. archived' = archived /\ UNCHANGED accessPoint /\ sends' = sends /\ sends \in Nat
    BY DEF CountersOK
  <1>2. CASE messages' = messages
    <2>1. TablesOK' /\ RowsKept
      BY <1>1, <1>2 DEF TablesOK, OutRows, UsedKeys, UniqueIds, UniqueKeys, InboundIsArchived, RowsKept
    <2>2. AccessPointOK'
      BY <1>1, <1>2, <2>1, PointIs, PointStays
    <2>3. QED
      BY <1>1, <1>2, <2>1, <2>2, PresumedSame DEF FilesKept, Kept
  <1>3. CASE messages' # messages
    <2>1. messages' = [messages EXCEPT ![i] = row] /\ ~TakenBy(i, row.apid)
      BY <1>3 DEF UpdateRow
    <2>2. messages \in Seq(Message) /\ i \in DOMAIN messages
      BY DEF TablesOK, IsOut
    <2>3. messages' \in Seq(Message) /\ DOMAIN messages' = DOMAIN messages
      BY <2>1, <2>2, ExceptSeq
    <2>4. \A j \in DOMAIN messages : messages'[j] = IF j = i THEN row ELSE messages[j]
      BY <2>1
    <2>5. messages[i].dir = "out" /\ UsedKeys' = UsedKeys
      BY <1>1 DEF IsOut, UsedKeys
    <2>6. OutRows'
      BY <2>3, <2>4, <2>5 DEF TablesOK, OutRows
    <2>7. UniqueIds'
      <3>1. row.apid # None => \A j \in DOMAIN messages \ {i} : messages[j].apid # row.apid
        BY <2>1 DEF TakenBy, RowsWith
      <3>2. QED
        BY <2>3, <2>4, <3>1 DEF TablesOK, UniqueIds
    <2>8. UniqueKeys'
      BY <2>3, <2>4, <2>5 DEF TablesOK, UniqueKeys
    <2>9. InboundIsArchived'
      BY <1>1, <2>3, <2>4 DEF TablesOK, InboundIsArchived
    <2>10. RowsKept
      BY <2>3, <2>4, <2>5 DEF RowsKept
    <2>11. AccessPointOK'
      BY <1>1, <2>3, <2>4, <2>10, PointIs, PointStays
    <2>12. QED
      BY <1>1, <2>3, <2>6, <2>7, <2>8, <2>9, <2>10, <2>11, PresumedSame DEF FilesKept, TablesOK, Kept
  <1>4. QED
    BY <1>2, <1>3

\* INSERT of a row under an id that is free.
LEMMA RowAppended ==
    ASSUME TablesOK, AccessPointOK, CountersOK, UNCHANGED <<archived, accessPoint, sends>>,
           NEW row \in Message, messages' = Append(messages, row),
           row.apid # None => RowsWith(row.apid) = {},
           row.dir = "out" =>
               /\ row.apid = None /\ row.status # "delivered"
               /\ row.bis \in [id : UsedKeys, payload : Docs]
               /\ \A i \in DOMAIN messages :
                      messages[i].dir = "out" => messages[i].bis.id # row.bis.id,
           row.dir = "in" /\ row.apid # None =>
               row.invoice = Received(row.apid) /\ row.invoice \in DOMAIN archived
    PROVE  /\ TablesOK' /\ AccessPointOK' /\ Kept
           /\ DOMAIN messages' = DOMAIN messages \cup {Len(messages) + 1}
           /\ messages'[Len(messages) + 1] = row
           /\ Len(messages) + 1 \notin DOMAIN messages
  <1>1. archived' = archived /\ UNCHANGED accessPoint /\ sends' = sends /\ sends \in Nat
    BY DEF CountersOK
  <1> DEFINE k == Len(messages) + 1
  <1>2. messages \in Seq(Message) /\ Len(messages) \in Nat /\ DOMAIN messages = 1 .. Len(messages)
    BY LenProperties DEF TablesOK
  <1>3. /\ messages' \in Seq(Message) /\ DOMAIN messages' = DOMAIN messages \cup {k}
        /\ k \notin DOMAIN messages /\ messages'[k] = row
        /\ \A j \in DOMAIN messages : messages'[j] = messages[j]
    BY <1>2, AppendProperties
  <1> HIDE DEF k
  <1>4. UsedKeys' = UsedKeys /\ row.dir \in {"in", "out"}
    BY <1>1 DEF UsedKeys, Message
  <1>5. OutRows'
    BY <1>3, <1>4 DEF TablesOK, OutRows
  <1>6. UniqueIds'
    <2>1. row.apid # None => \A j \in DOMAIN messages : messages[j].apid # row.apid
      BY DEF RowsWith
    <2>2. QED
      BY <1>3, <2>1 DEF TablesOK, UniqueIds
  <1>7. UniqueKeys'
    BY <1>3 DEF TablesOK, UniqueKeys
  <1>8. InboundIsArchived'
    BY <1>1, <1>3 DEF TablesOK, InboundIsArchived
  <1>9. RowsKept
    BY <1>3 DEF RowsKept
  <1>10. AccessPointOK'
    BY <1>1, <1>3, <1>9, PointIs, PointStays
  <1>11. QED
    BY <1>1, <1>3, <1>5, <1>6, <1>7, <1>8, <1>9, <1>10, PresumedSame DEF FilesKept, TablesOK, Kept, k

\* IngestWithSource.
LEMMA FileIngested ==
    ASSUME TablesOK, AccessPointOK, CountersOK, UNCHANGED <<messages, accessPoint, sends>>,
           NEW ext \in ExtIds, NEW body \in Payloads, Ingest(ext, body),
           \A id \in Ids : ext = Sent(id) =>
               \E i \in DOMAIN messages : ArtifactOf(i, id) /\ body = messages[i].bis.payload
    PROVE  TablesOK' /\ AccessPointOK' /\ Kept /\ ext \in DOMAIN archived'
  <1>1. messages' = messages /\ UNCHANGED accessPoint /\ sends' = sends /\ sends \in Nat
    BY DEF CountersOK
  <1>2. /\ DOMAIN archived' = DOMAIN archived \cup {ext}
        /\ \A e \in DOMAIN archived : archived'[e] = archived[e]
        /\ ext \notin DOMAIN archived => archived'[ext] = body
        /\ archived' = [e \in DOMAIN archived' |-> archived'[e]]
    BY DEF Ingest
  <1>3. /\ DOMAIN archived' \subseteq ExtIds
        /\ archived' \in [DOMAIN archived' -> Payloads]
    BY <1>2 DEF TablesOK
  <1>4. TablesOK' /\ RowsKept
    BY <1>1, <1>2, <1>3
    DEF TablesOK, OutRows, UsedKeys, UniqueIds, UniqueKeys, InboundIsArchived, RowsKept
  <1>5. AccessPointOK'
    <2>1. \A id \in Ids : Sent(id) \in DOMAIN archived' =>
              \E i \in DOMAIN messages :
                  ArtifactOf(i, id) /\ archived'[Sent(id)] = messages[i].bis.payload
      BY <1>2, PointIs
    <2>2. QED
      BY <1>1, <1>4, <2>1, PointIs, PointStays
  <1>6. QED
    BY <1>1, <1>2, <1>4, <1>5, PresumedSame DEF FilesKept, Kept

-----------------------------------------------------------------------------
(* What a step does to its call.                                           *)

LEMMA AtIs ==
    ASSUME NEW c \in Call, NEW next \in Steps
    PROVE  /\ At(c, next) \in Call /\ At(c, next).at = next
           /\ At(c, next).op = c.op /\ At(c, next).msg = c.msg /\ At(c, next).id = c.id
           /\ At(c, next).inv = c.inv /\ At(c, next).receipt = c.receipt
           /\ next # "done" => /\ At(c, next).key = c.key /\ At(c, next).body = c.body
                               /\ At(c, next).tries = c.tries /\ At(c, next).cause = c.cause
  <1>1. CASE next = "done"
    <2> DEFINE d == [Idle EXCEPT !.at = "done", !.op = c.op, !.msg = c.msg, !.id = c.id,
                                 !.inv = c.inv, !.receipt = c.receipt]
    <2>1. At(c, next) = d
      BY <1>1 DEF At
    <2>2. d \in Call
      <3>1. Idle \in Call
        BY IdleIs DEF CallOK
      <3>2. "done" \in Steps
        BY DEF Steps
      <3>3. /\ c.op \in {"none", "send", "retry", "receive"}
            /\ c.msg \in DOMAIN messages \cup {0} /\ c.id \in Ids \cup {None}
            /\ c.inv \in ExtIds \cup {None} /\ c.receipt \in Receipts
        BY DEF Call
      <3>4. QED
        BY <3>1, <3>2, <3>3 DEF Call
    <2>3. /\ d.at = "done" /\ d.op = c.op /\ d.msg = c.msg /\ d.id = c.id
          /\ d.inv = c.inv /\ d.receipt = c.receipt
      BY DEF Idle
    <2>4. QED
      BY <1>1, <2>1, <2>2, <2>3
  <1>2. CASE next # "done"
    <2>1. At(c, next) = [c EXCEPT !.at = next]
      BY <1>2 DEF At
    <2>2. QED
      BY <2>1 DEF Call
  <1>3. QED
    BY <1>1, <1>2

LEMMA EndIs ==
    ASSUME NEW c, CallOK(c), c.receipt # "delivered" \/ c.op # "receive"
    PROVE  CallOK(At(c, "done")) /\ At(c, "done").at # "record"
  <1> DEFINE d == At(c, "done")
  <1>1. /\ d \in Call /\ d.at = "done" /\ d.op = c.op /\ d.msg = c.msg /\ d.id = c.id
        /\ d.inv = c.inv /\ d.receipt = c.receipt
    BY AtIs DEF CallOK, Steps
  <1> HIDE DEF d
  <1>2. SendOK(d)
    BY <1>1 DEF SendOK, Sending
  <1>3. DeliveredOK(d) /\ ReceiveOK(d)
    BY <1>1 DEF CallOK, DeliveredOK, ReceiveOK, Receiving
  <1>4. QED
    BY <1>1, <1>2, <1>3 DEF CallOK, d

LEMMA AfterWriteIs ==
    ASSUME NEW c, CallOK(c), c.at \in {"name", "reset", "mark", "rename", "link"}
    PROVE  CallOK(At(c, AfterWrite(c))) /\ At(c, AfterWrite(c)).at # "record"
  <1> DEFINE next == AfterWrite(c)
             d == At(c, next)
  <1>1. c \in Call /\ SendOK(c) /\ DeliveredOK(c)
    BY DEF CallOK
  <1>2. c.op \in {"send", "retry"} /\ IsOut(c.msg) /\ messages[c.msg].bis = Wrap(c.key, c.body)
    BY <1>1 DEF SendOK, Sending
  <1>3. CASE next = "done"
    BY <1>2, <1>3, EndIs
  <1>4. CASE next # "done"
    <2>1. /\ next \in {"post", "rename", "archive"}
          /\ next = "post" => c.at \in {"name", "reset"}
          /\ next = "rename" => c.at = "mark" /\ c.receipt # "error"
          /\ next = "archive" => c.at = "rename" /\ c.receipt = "delivered"
      BY <1>4 DEF AfterWrite
    <2>2. /\ d \in Call /\ d.at = next /\ d.op = c.op /\ d.msg = c.msg /\ d.id = c.id
          /\ d.inv = c.inv /\ d.receipt = c.receipt
          /\ d.key = c.key /\ d.body = c.body /\ d.tries = c.tries
      BY <1>1, <1>4, <2>1, AtIs DEF Steps
    <2> HIDE DEF d, next
    <2>3. SendOK(d)
      BY <1>1, <1>2, <2>1, <2>2, BoundsOK DEF SendOK, Sending
    <2>4. DeliveredOK(d) /\ ReceiveOK(d)
      BY <1>1, <1>2, <2>1, <2>2 DEF DeliveredOK, ReceiveOK, Receiving
    <2>5. QED
      BY <2>1, <2>2, <2>3, <2>4 DEF CallOK, d, next
  <1>5. QED
    BY <1>3, <1>4

LEMMA ConcludeIs ==
    ASSUME NEW c, CallOK(c), c.at \in {"post", "await"},
           NEW receipt \in {"delivered", "rejected", "error"}, NEW id \in Ids \cup {None},
           receipt # "error" => id \in {c.key, ApName(c.key)}
    PROVE  LET d == Conclude(c, receipt, id) IN
           /\ d \in Call /\ SendOK(d) /\ ReceiveOK(d)
           /\ d.at # "record" /\ d.op = c.op /\ d.msg = c.msg /\ d.receipt = receipt
  <1> DEFINE d == Conclude(c, receipt, id)
  <1>1. c \in Call /\ SendOK(c)
    BY DEF CallOK
  <1>2. c.op \in {"send", "retry"} /\ IsOut(c.msg) /\ messages[c.msg].bis = Wrap(c.key, c.body)
    BY <1>1 DEF SendOK, Sending
  <1>3. d.at = "mark" /\ d.receipt = receipt /\ d.op = c.op /\ d.msg = c.msg /\ d.key = c.key
        /\ d.body = c.body /\ d.id = id
    BY <1>1 DEF Conclude, Call
  <1>4. d \in Call
    <2>1. "mark" \in Steps /\ receipt \in Receipts /\ 0 \in 0 .. MaxTries
      BY BoundsOK DEF Steps, Receipts
    <2>2. d = [c EXCEPT !.at = "mark", !.receipt = receipt, !.tries = 0, !.cause = "none", !.id = id]
      BY DEF Conclude
    <2> HIDE DEF d
    <2>3. QED
      BY <1>1, <2>1, <2>2 DEF Call
  <1> HIDE DEF d
  <1>5. SendOK(d) /\ ReceiveOK(d)
    BY <1>2, <1>3 DEF SendOK, ReceiveOK, Sending, Receiving
  <1>6. QED
    BY <1>3, <1>4, <1>5 DEF d

-----------------------------------------------------------------------------
(* The steps.                                                              *)

\* Of a call in the state IInv.
LEMMA CallIs ==
    ASSUME IInv, NEW w \in Workers
    PROVE  /\ TablesOK /\ AccessPointOK /\ CountersOK
           /\ CallOK(call[w]) /\ call[w] \in Call /\ SendOK(call[w]) /\ ReceiveOK(call[w])
           /\ call = [v \in Workers |-> call[v]]
  BY DEF IInv, CallsOK, CallOK

\* A step that changes its call and nothing else.
LEMMA OnlyCall ==
    ASSUME IInv, NEW w \in Workers, NEW d, CallOK(d), d.at # "record",
           call' = [call EXCEPT ![w] = d], UNCHANGED <<tables, accessPoint, sends>>, CountersOK'
    PROVE  IInv' /\ Kept
  <1>1. TablesOK /\ AccessPointOK /\ CountersOK /\ sends' = sends /\ sends \in Nat
    BY DEF IInv, CountersOK
  <1>2. TablesOK' /\ RowsKept /\ FilesKept
    BY <1>1, TablesStay
  <1>3. messages' = messages /\ archived' = archived /\ UNCHANGED accessPoint
    BY DEF tables
  <1>4. AccessPointOK'
    BY <1>1, <1>2, <1>3, PointIs, PointStays
  <1>5. Kept
    BY <1>1, <1>2, <1>3, PresumedSame DEF Kept
  <1>6. CallOK(d)'
    BY <1>1, <1>5, CallStays
  <1>7. CallsOK'
    BY <1>3, <1>5, <1>6, CallsStay
  <1>8. QED
    BY <1>2, <1>4, <1>5, <1>7 DEF IInv

\* A step that updates the outgoing row of its call.
LEMMA UpdateStep ==
    ASSUME IInv, NEW w \in Workers, NEW d, CallOK(d), d.at # "record",
           call' = [call EXCEPT ![w] = d], UNCHANGED <<archived, accessPoint, sends, faults>>,
           NEW i, IsOut(i), NEW row \in Message, UpdateRow(i, row),
           row.dir = "out", row.bis = messages[i].bis, row.apid \in OutIds \cup {None},
           row.status = "delivered" => TakenOrPresumed(i)
    PROVE  IInv' /\ Kept
  <1>1. TablesOK /\ AccessPointOK /\ CountersOK /\ CountersOK'
    BY DEF IInv, CountersOK
  <1>2. TablesOK' /\ AccessPointOK' /\ Kept /\ DOMAIN messages' = DOMAIN messages
    BY <1>1, RowUpdated
  <1>3. CallOK(d)'
    BY <1>1, <1>2, CallStays
  <1>4. CallsOK'
    BY <1>1, <1>2, <1>3, CallsStay
  <1>5. QED
    BY <1>1, <1>2, <1>4 DEF IInv

\* The row, the key and the document of a call of Send or Retry.
LEMMA RowOfCall ==
    ASSUME IInv, NEW w \in Workers, call[w].at \in Sending
    PROVE  /\ call[w].op \in {"send", "retry"} /\ IsOut(call[w].msg)
           /\ messages[call[w].msg] \in Message /\ messages[call[w].msg].dir = "out"
           /\ messages[call[w].msg].bis = Wrap(call[w].key, call[w].body)
           /\ call[w].key \in OutIds /\ call[w].key \in Ids /\ call[w].key \in Keys
           /\ call[w].body \in Docs /\ call[w].body \in Payloads
           /\ ApName(call[w].key) \in OutIds /\ OutIds \subseteq Ids
           /\ messages[call[w].msg].apid \in OutIds \cup {None}
           /\ messages[call[w].msg].status = "delivered" =>
                  TakenOrPresumed(call[w].msg)
  <1> DEFINE c == call[w]
  <1>1. /\ TablesOK /\ AccessPointOK /\ CountersOK /\ SendOK(c)
    BY CallIs
  <1>2. c.op \in {"send", "retry"} /\ IsOut(c.msg) /\ messages[c.msg].bis = Wrap(c.key, c.body)
    BY <1>1 DEF SendOK
  <1>3. c.msg \in DOMAIN messages /\ messages[c.msg].dir = "out"
    BY <1>2 DEF IsOut
  <1>4. messages[c.msg] \in Message
    BY <1>1, <1>3, ElementOfSeq DEF TablesOK
  <1>5. messages[c.msg].apid \in OutIds \cup {None} /\ Wrap(c.key, c.body) \in [id : UsedKeys, payload : Docs]
    BY <1>1, <1>2, <1>3 DEF TablesOK, OutRows
  <1>6. c.key \in UsedKeys /\ c.body \in Docs /\ c.body \in Payloads
    BY <1>5 DEF Wrap, Payloads
  <1>7. c.key \in OutIds /\ c.key \in Ids /\ c.key \in Keys /\ ApName(c.key) \in OutIds /\ OutIds \subseteq Ids
    BY <1>1, <1>6, UsedKeysAre DEF OutIds
  <1>8. QED
    BY <1>1, <1>2, <1>3, <1>4, <1>5, <1>6, <1>7, PointIs

LEMMA StartSendKeeps ==
    ASSUME IInv, NEW w \in Workers, NEW doc \in Docs, NEW invoice \in {Own(doc), None},
           StartSend(w, doc, invoice)
    PROVE  IInv' /\ Kept
  <1>0. PICK d : d = [Idle EXCEPT !.at = "record", !.op = "send", !.body = doc,
                                  !.inv = invoice, !.key = Key(sends + 1)]
    OBVIOUS
  <1>1. /\ sends \in 0 .. MaxSends /\ sends < MaxSends /\ sends' = sends + 1 /\ faults' = faults
        /\ call' = [call EXCEPT ![w] = d] /\ UNCHANGED <<tables, accessPoint>>
        /\ CountersOK
    BY <1>0 DEF StartSend, IInv, CountersOK
  <1>2. CountersOK' /\ sends <= sends'
    BY <1>1, BoundsOK DEF CountersOK
  <1>3. TablesOK' /\ RowsKept /\ FilesKept
    BY <1>1, <1>2, TablesStay DEF IInv
  <1>4. messages' = messages /\ archived' = archived
    BY <1>1 DEF tables
  <1>5. AccessPointOK'
    BY <1>1, <1>3, <1>4, PointIs, PointStays DEF IInv
  <1>6. Kept
    BY <1>1, <1>2, <1>3, PresumedSame DEF Kept
  <1>7. Key(sends + 1) \in UsedKeys' /\ Key(sends + 1) \in Ids
    BY <1>1, <1>2, UsedKeysAre, BoundsOK DEF UsedKeys, Keys, Ids
  <1>8. d \in Call'
    <2>1. Idle \in Call'
      BY <1>4, IdleIs DEF CallOK, Call
    <2>2. /\ "record" \in Steps /\ invoice \in ExtIds \cup {None} /\ doc \in Payloads \cup {None}
          /\ Key(sends + 1) \in Ids \cup {None}
      BY <1>7 DEF Steps, ExtIds, Payloads
    <2>3. QED
      BY <1>0, <2>1, <2>2 DEF Call
  <1>9. /\ d.at = "record" /\ d.op = "send" /\ d.body = doc /\ d.key = Key(sends + 1)
        /\ d.tries = 0 /\ d.receipt = "none"
    BY <1>0 DEF Idle
  <1>10. CallOK(d)'
    BY <1>7, <1>8, <1>9 DEF CallOK, SendOK, DeliveredOK, ReceiveOK, Sending, Receiving
  <1>11. /\ call' = [v \in Workers |-> call'[v]]
         /\ \A v \in Workers : call'[v] = IF v = w THEN d ELSE call[v]
         /\ \A v \in Workers : CallOK(call[v])'
    BY <1>1, <1>2, <1>6, <1>10, OthersStay
  <1>12. NewKeys'
    <2>1. /\ NewKeys /\ \A v \in Workers : call[v].at = "record" => call[v].key \in UsedKeys
          /\ \A i \in DOMAIN messages : messages[i].dir = "out" => messages[i].bis.id \in UsedKeys
      BY DEF IInv, CallsOK, CallOK, SendOK, TablesOK, OutRows
    <2>2. Key(sends + 1) \notin UsedKeys
      BY <1>1, NewKeyIs
    <2>3. QED
      BY <1>4, <1>9, <1>11, <2>1, <2>2 DEF NewKeys
  <1>13. QED
    BY <1>2, <1>3, <1>5, <1>6, <1>11, <1>12 DEF IInv, CallsOK

LEMMA RecordOutKeeps ==
    ASSUME IInv, NEW w \in Workers, RecordOut(w)
    PROVE  IInv' /\ Kept
  <1> DEFINE c == call[w]
             k == Len(messages) + 1
             row == OutRow(c)
  <1>0. PICK d : d = [c EXCEPT !.msg = k, !.at = "name"]
    OBVIOUS
  <1>1. /\ c.at = "record" /\ messages' = Append(messages, row) /\ call' = [call EXCEPT ![w] = d]
        /\ UNCHANGED <<archived, sends, accessPoint, faults>>
    BY <1>0, CallIs DEF RecordOut
  <1>2. /\ TablesOK /\ AccessPointOK /\ CountersOK /\ CallOK(c) /\ c \in Call /\ NewKeys
    BY CallIs DEF IInv, CallsOK
  <1>3. CountersOK'
    BY <1>1, <1>2 DEF CountersOK
  <1>4. c.op = "send" /\ c.key \in UsedKeys /\ c.body \in Docs /\ c.receipt = "none" /\ c.tries = 0
    BY <1>1, <1>2 DEF CallOK, SendOK
  <1>5. row \in Message
    <2>1. Wrap(c.key, c.body) \in Envelopes
      BY <1>2, <1>4, UsedKeysAre DEF Envelopes, Payloads
    <2>2. c.inv \in ExtIds \cup {None} /\ "sending" \in MessageStatus /\ "none" \in Receipts
      BY <1>2 DEF Call, MessageStatus, Receipts
    <2>3. QED
      BY <2>1, <2>2 DEF OutRow, Message
  <1>6. /\ row.dir = "out" /\ row.apid = None /\ row.status = "sending"
        /\ row.bis = Wrap(c.key, c.body) /\ row.bis.id = c.key
        /\ row.bis \in [id : UsedKeys, payload : Docs]
    BY <1>4 DEF OutRow, Wrap
  <1>7. \A i \in DOMAIN messages : messages[i].dir = "out" => messages[i].bis.id # row.bis.id
    BY <1>1, <1>2, <1>6 DEF NewKeys
  <1> HIDE DEF row
  <1>8. /\ TablesOK' /\ AccessPointOK' /\ Kept
        /\ DOMAIN messages' = DOMAIN messages \cup {k} /\ messages'[k] = row
        /\ k \notin DOMAIN messages
    BY <1>1, <1>2, <1>5, <1>6, <1>7, RowAppended
  <1>9. /\ d.at = "name" /\ d.op = "send" /\ d.msg = k /\ d.key = c.key /\ d.body = c.body
        /\ d.tries = 0 /\ d.receipt = "none"
    BY <1>0, <1>2, <1>4 DEF Call
  <1>10. d \in Call'
    <2>1. c \in Call' /\ k \in DOMAIN messages' /\ "name" \in Steps
      BY <1>2, <1>8 DEF Call, Steps
    <2> HIDE DEF k
    <2>2. QED
      BY <1>0, <2>1 DEF Call
  <1> HIDE DEF k
  <1>11. CallOK(d)'
    BY <1>6, <1>8, <1>9, <1>10
    DEF CallOK, SendOK, DeliveredOK, ReceiveOK, Sending, Receiving, IsOut
  <1>12. /\ call' = [v \in Workers |-> call'[v]]
         /\ \A v \in Workers : call'[v] = IF v = w THEN d ELSE call[v]
         /\ \A v \in Workers : CallOK(call[v])'
    BY <1>1, <1>3, <1>8, <1>11, OthersStay
  <1>13. NewKeys'
    <2>1. \A i \in DOMAIN messages :
              messages'[i].dir = messages[i].dir /\ messages'[i].bis = messages[i].bis
      BY <1>8 DEF Kept, RowsKept
    <2>2. QED
      BY <1>1, <1>2, <1>6, <1>8, <1>9, <1>12, <2>1 DEF NewKeys
  <1>14. QED
    BY <1>3, <1>8, <1>12, <1>13 DEF IInv, CallsOK

\* An update of the row of a call of Send or Retry, and where the call goes on.
LEMMA WriteKeeps ==
    ASSUME IInv, NEW w \in Workers, call[w].at \in {"name", "reset", "mark", "rename", "link"},
           NEW row \in Message, UpdateRow(call[w].msg, row), Goto(w, AfterWrite(call[w])),
           UNCHANGED <<archived, sends, accessPoint, faults>>,
           row.dir = "out", row.bis = messages[call[w].msg].bis, row.apid \in OutIds \cup {None},
           row.status = "delivered" => TakenOrPresumed(call[w].msg)
    PROVE  IInv' /\ Kept
  <1>1. PICK d : d = At(call[w], AfterWrite(call[w]))
    OBVIOUS
  <1>2. PICK i : i = call[w].msg
    OBVIOUS
  <1>3. CallOK(call[w]) /\ call' = [call EXCEPT ![w] = d]
    BY <1>1, CallIs DEF Goto
  <1>4. CallOK(d) /\ d.at # "record"
    BY <1>1, <1>3, AfterWriteIs
  <1>5. IsOut(i)
    BY <1>2, RowOfCall DEF Sending
  <1>6. QED
    BY <1>2, <1>3, <1>4, <1>5, UpdateStep

LEMMA NameOutKeeps ==
    ASSUME IInv, NEW w \in Workers, NameOut(w)
    PROVE  IInv' /\ Kept
  <1> DEFINE c == call[w]
             row == [messages[c.msg] EXCEPT !.apid = c.key]
  <1>1. c.at = "name" /\ c.at \in Sending
    BY DEF NameOut, Sending
  <1>2. /\ messages[c.msg] \in Message /\ messages[c.msg].dir = "out"
        /\ c.key \in OutIds /\ c.key \in Ids
        /\ messages[c.msg].status = "delivered" => TakenOrPresumed(c.msg)
    BY <1>1, RowOfCall
  <1>3. /\ row \in Message /\ row.dir = "out" /\ row.bis = messages[c.msg].bis
        /\ row.apid = c.key /\ row.status = messages[c.msg].status
    BY <1>2 DEF Message
  <1>4. UpdateRow(c.msg, row) /\ Goto(w, AfterWrite(c)) /\ UNCHANGED <<archived, sends, accessPoint, faults>>
    BY DEF NameOut
  <1> HIDE DEF row
  <1>5. QED
    BY <1>1, <1>2, <1>3, <1>4, WriteKeeps

LEMMA ResetKeeps ==
    ASSUME IInv, NEW w \in Workers, Reset(w)
    PROVE  IInv' /\ Kept
  <1> DEFINE c == call[w]
             old == messages[c.msg]
             row == [old EXCEPT !.apid = Coalesce(c.id, @), !.status = "sending",
                                !.invoice = Coalesce(c.inv, @)]
  <1>1. c.at = "reset" /\ c.at \in Sending
    BY DEF Reset, Sending
  <1>2. /\ old \in Message /\ old.dir = "out" /\ old.apid \in OutIds \cup {None}
        /\ OutIds \subseteq Ids
    BY <1>1, RowOfCall
  <1>3. c \in Call /\ c.id \in OutIds \cup {None}
    BY <1>1, CallIs DEF SendOK
  <1>4. /\ Coalesce(c.id, old.apid) \in OutIds \cup {None}
        /\ Coalesce(c.inv, old.invoice) \in ExtIds \cup {None} /\ "sending" \in MessageStatus
    BY <1>2, <1>3 DEF Coalesce, Call, Message, MessageStatus
  <1>5. /\ row \in Message /\ row.dir = "out" /\ row.bis = old.bis
        /\ row.apid \in OutIds \cup {None} /\ row.status = "sending"
    BY <1>2, <1>4 DEF Message
  <1>6. UpdateRow(c.msg, row) /\ Goto(w, AfterWrite(c)) /\ UNCHANGED <<archived, sends, accessPoint, faults>>
    BY DEF Reset
  <1> HIDE DEF row
  <1>7. QED
    BY <1>1, <1>5, <1>6, WriteKeeps

LEMMA MarkKeeps ==
    ASSUME IInv, NEW w \in Workers, Mark(w)
    PROVE  IInv' /\ Kept
  <1> DEFINE c == call[w]
             old == messages[c.msg]
             row == [old EXCEPT !.status = StatusOf(c.receipt), !.receipt = c.receipt]
  <1>1. c.at = "mark" /\ c.at \in Sending
    BY DEF Mark, Sending
  <1>2. /\ old \in Message /\ old.dir = "out" /\ old.apid \in OutIds \cup {None}
        /\ c.op \in {"send", "retry"}
    BY <1>1, RowOfCall
  <1>3. c \in Call /\ DeliveredOK(c)
    BY CallIs DEF CallOK
  <1>4. /\ c.receipt \in Receipts /\ StatusOf(c.receipt) \in MessageStatus
        /\ StatusOf(c.receipt) = "delivered" => TakenOrPresumed(c.msg)
    BY <1>2, <1>3 DEF StatusOf, MessageStatus, Call, DeliveredOK
  <1>5. /\ row \in Message /\ row.dir = "out" /\ row.bis = old.bis
        /\ row.apid = old.apid /\ row.status = StatusOf(c.receipt)
    BY <1>2, <1>4 DEF Message
  <1>6. UpdateRow(c.msg, row) /\ Goto(w, AfterWrite(c)) /\ UNCHANGED <<archived, sends, accessPoint, faults>>
    BY DEF Mark
  <1> HIDE DEF row
  <1>7. QED
    BY <1>1, <1>2, <1>4, <1>5, <1>6, WriteKeeps

LEMMA RenameKeeps ==
    ASSUME IInv, NEW w \in Workers, Rename(w)
    PROVE  IInv' /\ Kept
  <1> DEFINE c == call[w]
             old == messages[c.msg]
             row == [old EXCEPT !.apid = c.id]
  <1>1. c.at = "rename" /\ c.at \in Sending
    BY DEF Rename, Sending
  <1>2. /\ old \in Message /\ old.dir = "out" /\ ApName(c.key) \in OutIds /\ OutIds \subseteq Ids
        /\ old.status = "delivered" => TakenOrPresumed(c.msg)
    BY <1>1, RowOfCall
  <1>3. c.id \in {c.key, ApName(c.key)}
    BY <1>1, CallIs DEF SendOK
  <1>4. c.id \in OutIds /\ c.id \in Ids
    BY <1>1, <1>2, <1>3, RowOfCall
  <1>5. /\ row \in Message /\ row.dir = "out" /\ row.bis = old.bis
        /\ row.apid = c.id /\ row.status = old.status
    BY <1>2, <1>4 DEF Message
  <1>6. UpdateRow(c.msg, row) /\ Goto(w, AfterWrite(c)) /\ UNCHANGED <<archived, sends, accessPoint, faults>>
    BY DEF Rename
  <1> HIDE DEF row
  <1>7. QED
    BY <1>1, <1>2, <1>4, <1>5, <1>6, WriteKeeps

LEMMA LinkSentKeeps ==
    ASSUME IInv, NEW w \in Workers, LinkSent(w)
    PROVE  IInv' /\ Kept
  <1> DEFINE c == call[w]
             old == messages[c.msg]
             row == [old EXCEPT !.invoice = c.inv]
  <1>1. c.at = "link" /\ c.at \in Sending
    BY DEF LinkSent, Sending
  <1>2. /\ old \in Message /\ old.dir = "out" /\ old.apid \in OutIds \cup {None}
        /\ old.status = "delivered" => TakenOrPresumed(c.msg)
    BY <1>1, RowOfCall
  <1>3. c.inv \in ExtIds \cup {None}
    BY CallIs DEF Call
  <1>4. /\ row \in Message /\ row.dir = "out" /\ row.bis = old.bis
        /\ row.apid = old.apid /\ row.status = old.status
    BY <1>2, <1>3 DEF Message
  <1>5. UpdateRow(c.msg, row) /\ Goto(w, AfterWrite(c)) /\ UNCHANGED <<archived, sends, accessPoint, faults>>
    BY DEF LinkSent
  <1> HIDE DEF row
  <1>6. QED
    BY <1>1, <1>2, <1>4, <1>5, WriteKeeps

LEMMA StartRetryKeeps ==
    ASSUME IInv, NEW w \in Workers, NEW i \in DOMAIN messages, StartRetry(w, i)
    PROVE  IInv' /\ Kept
  <1> DEFINE row == messages[i]
  <1>1. PICK d : d = [Idle EXCEPT !.at = "reset", !.op = "retry", !.msg = i, !.id = row.apid,
                                  !.inv = row.invoice, !.key = KeyOf(row),
                                  !.body = row.bis.payload]
    OBVIOUS
  <1>2. /\ row.dir = "out" /\ call' = [call EXCEPT ![w] = d]
        /\ UNCHANGED <<tables, sends, accessPoint, faults>>
    BY <1>1 DEF StartRetry, Retryable
  <1>3. TablesOK /\ CountersOK /\ CountersOK'
    BY <1>2 DEF IInv, CountersOK
  <1>4. /\ row \in Message /\ row.apid \in OutIds \cup {None}
        /\ row.bis \in [id : UsedKeys, payload : Docs]
    BY <1>2, <1>3, ElementOfSeq DEF TablesOK, OutRows
  <1>5. /\ row.invoice \in ExtIds \cup {None} /\ KeyOf(row) \in Ids /\ row.bis.payload \in Payloads
        /\ row.apid \in Ids \cup {None} /\ row.bis = Wrap(KeyOf(row), row.bis.payload)
    BY <1>3, <1>4, UsedKeysAre DEF Message, KeyOf, Payloads, Wrap
  <1>6. "reset" \in Steps /\ Idle \in Call
    BY IdleIs DEF CallOK, Steps
  <1>7. d \in Call
    BY <1>1, <1>5, <1>6 DEF Call
  <1>8. /\ d.at = "reset" /\ d.op = "retry" /\ d.msg = i /\ d.id = row.apid
        /\ d.key = KeyOf(row) /\ d.body = row.bis.payload /\ d.tries = 0 /\ d.receipt = "none"
    BY <1>1 DEF Idle
  <1>9. CallOK(d)
    BY <1>2, <1>4, <1>5, <1>7, <1>8
    DEF CallOK, SendOK, DeliveredOK, ReceiveOK, Sending, Receiving, IsOut
  <1>10. QED
    BY <1>2, <1>3, <1>8, <1>9, OnlyCall

\* The AP after a request reaches it or is on its way.
LEMMA PointGrows ==
    ASSUME TablesOK, AccessPointOK, CountersOK, UNCHANGED <<tables, sends, ownIds>>,
           posted \subseteq posted', posted' \subseteq Requests, taken \subseteq taken',
           presumed' \subseteq DOMAIN messages, \A i \in presumed : TakenOrPresumed(i)',
           taken' \subseteq posted',
           \A p \in posted' : IsOut(p.msg) /\ messages[p.msg].bis = Wrap(p.key, p.doc),
           \A p, q \in taken' : p.key = q.key => p = q
    PROVE  TablesOK' /\ AccessPointOK' /\ Kept
  <1>1. messages' = messages /\ archived' = archived /\ ownIds' = ownIds /\ sends' = sends /\ sends \in Nat
    BY DEF tables, CountersOK
  <1>2. TablesOK' /\ RowsKept
    BY <1>1 DEF TablesOK, OutRows, UsedKeys, UniqueIds, UniqueKeys, InboundIsArchived, RowsKept
  <1>3. posted' \subseteq Requests' /\ ownIds' \in BOOLEAN /\ presumed' \subseteq DOMAIN messages'
    BY <1>1 DEF Requests, AccessPointOK
  <1>0. \A i : TakenOrPresumed(i) => TakenOrPresumed(i)'
    BY PresumedStays
  <1>4. Requested' /\ TakenOnce'
    BY <1>1 DEF Requested, TakenOnce, IsOut
  <1>5. ArtifactsAreReal'
    BY <1>1, <1>0 DEF AccessPointOK, ArtifactsAreReal, ArtifactOf, ApName
  <1>6. \A i \in DOMAIN messages' :
            messages'[i].dir = "out" /\ messages'[i].status = "delivered" => TakenOrPresumed(i)'
    BY <1>1, <1>0 DEF AccessPointOK
  <1>7. QED
    BY <1>1, <1>2, <1>3, <1>4, <1>5, <1>6 DEF AccessPointOK, Kept, FilesKept

LEMMA PostKeeps ==
    ASSUME IInv, NEW w \in Workers, Post(w)
    PROVE  IInv' /\ Kept
  <1> DEFINE c == call[w]
  <1>1. PICK d : d = [c EXCEPT !.at = "await", !.tries = c.tries + 1, !.cause = "none"]
    OBVIOUS
  <1>2. PICK p : p = Request(c)
    OBVIOUS
  <1>3. /\ c.at = "post" /\ c.at \in Sending /\ call' = [call EXCEPT ![w] = d]
        /\ posted' = posted \cup {p} /\ UNCHANGED <<tables, sends, ownIds, taken, presumed, faults>>
    BY <1>1, <1>2, CallIs DEF Post, Sending
  <1>4. /\ TablesOK /\ AccessPointOK /\ CountersOK /\ CountersOK' /\ CallOK(c) /\ c \in Call
        /\ SendOK(c) /\ DeliveredOK(c)
    BY <1>3, CallIs DEF CountersOK, CallOK
  <1>5. /\ c.op \in {"send", "retry"} /\ IsOut(c.msg) /\ messages[c.msg].bis = Wrap(c.key, c.body)
        /\ c.key \in Ids /\ c.body \in Docs
    BY <1>3, RowOfCall
  <1>6. p.key = c.key /\ p.msg = c.msg /\ p.doc = c.body /\ p \in Requests
    BY <1>2, <1>5 DEF Request, Requests, IsOut
  <1>7. TablesOK' /\ AccessPointOK' /\ Kept
    <2>1. \A i \in presumed : TakenOrPresumed(i)'
      BY <1>3 DEF TakenOrPresumed
    <2>2. QED
      BY <1>3, <1>4, <1>5, <1>6, <2>1, PointGrows DEF AccessPointOK, Requested, TakenOnce
  <1>8. c.tries < MaxTries /\ c.tries + 1 \in 0 .. MaxTries /\ "await" \in Steps
    BY <1>3, <1>4, BoundsOK DEF SendOK, Call, Steps
  <1>9. d \in Call /\ d.at = "await" /\ d.op = c.op /\ d.msg = c.msg /\ d.key = c.key
        /\ d.body = c.body /\ d.receipt = c.receipt
    BY <1>1, <1>4, <1>8 DEF Call
  <1>10. CallOK(d)
    BY <1>4, <1>5, <1>9 DEF CallOK, SendOK, DeliveredOK, ReceiveOK, Sending, Receiving
  <1>11. CallOK(d)'
    BY <1>4, <1>7, <1>10, CallStays
  <1>12. messages' = messages
    BY <1>3 DEF tables
  <1>13. CallsOK'
    BY <1>3, <1>4, <1>7, <1>9, <1>11, <1>12, CallsStay
  <1>14. QED
    BY <1>4, <1>7, <1>13 DEF IInv

LEMMA TakeKeeps ==
    ASSUME IInv, NEW p \in posted, Take(p)
    PROVE  IInv' /\ Kept
  <1>1. /\ ~HasKey(p.key) /\ taken' = taken \cup {p} /\ presumed' = presumed \ {p.msg}
        /\ UNCHANGED <<tables, call, sends, ownIds, posted, faults>>
    BY DEF Take
  <1>2. /\ TablesOK /\ AccessPointOK /\ CountersOK /\ CountersOK'
        /\ call = [v \in Workers |-> call[v]]
    BY <1>1 DEF IInv, CallsOK, CountersOK
  <1>3. TablesOK' /\ AccessPointOK' /\ Kept
    <2>1. \A i \in presumed : TakenOrPresumed(i)'
      BY <1>1 DEF TakenOrPresumed
    <2>2. QED
      BY <1>1, <1>2, <2>1, PointGrows DEF AccessPointOK, Requested, TakenOnce, HasKey
  <1>4. messages' = messages
    BY <1>1 DEF tables
  <1>5. CallsOK'
    BY <1>1, <1>2, <1>3, <1>4, CallsLeft
  <1>6. QED
    BY <1>2, <1>3, <1>5 DEF IInv

\* A request the AP took under a call's key is that of the call's message.
LEMMA KeyIsOfMessage ==
    ASSUME IInv, NEW w \in Workers, call[w].at \in Sending, NEW q \in taken,
           q.key = call[w].key \/ q.msg = call[w].msg
    PROVE  q.msg = call[w].msg /\ q.key = call[w].key /\ q.doc = call[w].body
  <1> DEFINE c == call[w]
  <1>1. IsOut(c.msg) /\ messages[c.msg].bis = Wrap(c.key, c.body)
    BY RowOfCall
  <1>2. IsOut(q.msg) /\ messages[q.msg].bis = Wrap(q.key, q.doc)
    BY DEF IInv, AccessPointOK, Requested
  <1>3. q.msg = c.msg
    <2>1. CASE q.key = c.key
      BY <1>1, <1>2, <2>1 DEF IInv, TablesOK, UniqueKeys, IsOut, Wrap
    <2>2. QED
      BY <2>1
  <1>4. QED
    BY <1>1, <1>2, <1>3 DEF Wrap

LEMMA AnswerKeeps ==
    ASSUME IInv, NEW w \in Workers, Answer(w)
    PROVE  IInv' /\ Kept
  <1> DEFINE c == call[w]
  <1>1. c.at = "await" /\ c.at \in Sending
    BY DEF Answer, Sending
  <1>2. PICK receipt \in Understood(c.key), id \in {c.key, ApName(c.key)} :
           /\ call' = [call EXCEPT ![w] = Conclude(c, receipt, id)]
           /\ presumed' = IF receipt = "delivered" /\ ~HasKey(c.key)
                          THEN presumed \cup {c.msg} ELSE presumed
    BY CallIs DEF Answer
  <1>3. /\ TablesOK /\ AccessPointOK /\ CountersOK /\ CountersOK' /\ CallOK(c)
        /\ UNCHANGED <<tables, sends, ownIds, posted, taken, faults>>
    BY CallIs DEF Answer, CountersOK
  <1>4. PICK d, i : d = Conclude(c, receipt, id) /\ i = c.msg
    OBVIOUS
  <1>5. IsOut(c.msg) /\ c.key \in Ids /\ ApName(c.key) \in Ids
    BY <1>1, RowOfCall
  <1>6. receipt \in {"delivered", "rejected", "error"} /\ receipt # "error"
    BY <1>2 DEF Understood
  <1>7. /\ d \in Call /\ SendOK(d) /\ ReceiveOK(d)
        /\ d.at # "record" /\ d.op = c.op /\ d.msg = c.msg /\ d.receipt = receipt
    BY <1>1, <1>2, <1>3, <1>4, <1>5, <1>6, ConcludeIs
  <1>8. presumed \subseteq presumed' /\ presumed' \subseteq DOMAIN messages
    BY <1>2, <1>3, <1>5 DEF AccessPointOK, IsOut
  <1>9. \A j \in presumed : TakenOrPresumed(j)'
    BY <1>8 DEF TakenOrPresumed
  <1>10. TablesOK' /\ AccessPointOK' /\ Kept
    BY <1>3, <1>8, <1>9, PointGrows DEF AccessPointOK, Requested, TakenOnce
  <1>11. receipt = "delivered" => TakenOrPresumed(i)'
    <2>1. CASE HasKey(c.key)
      <3>1. PICK q \in taken : q.key = c.key
        BY <2>1 DEF HasKey
      <3>2. q.msg = c.msg
        BY <1>1, <3>1, KeyIsOfMessage
      <3>3. QED
        BY <1>3, <1>4, <3>1, <3>2 DEF TakenOrPresumed
    <2>2. CASE ~HasKey(c.key)
      BY <1>2, <1>4, <2>2 DEF TakenOrPresumed
    <2>3. QED
      BY <2>1, <2>2
  <1>12. CallOK(d)'
    <2>1. d \in Call' /\ SendOK(d)' /\ ReceiveOK(d)'
      BY <1>3, <1>7, <1>10, WorkStays
    <2>2. DeliveredOK(d)'
      BY <1>4, <1>7, <1>11 DEF DeliveredOK
    <2>3. QED
      BY <2>1, <2>2 DEF CallOK
  <1>13. messages' = messages
    BY <1>3 DEF tables
  <1>14. CallsOK'
    BY <1>2, <1>3, <1>4, <1>7, <1>10, <1>12, <1>13, CallsStay
  <1>15. QED
    BY <1>3, <1>10, <1>14 DEF IInv

LEMMA GiveUpKeeps ==
    ASSUME IInv, NEW w \in Workers, GiveUp(w)
    PROVE  IInv' /\ Kept
  <1> DEFINE c == call[w]
  <1>1. PICK d : d = Conclude(c, "error", None)
    OBVIOUS
  <1>2. /\ c.at \in {"post", "await"} /\ call' = [call EXCEPT ![w] = d]
        /\ UNCHANGED <<tables, sends, accessPoint, faults>>
    BY <1>1, CallIs DEF GiveUp
  <1>3. CallOK(c) /\ CountersOK'
    BY <1>2, CallIs DEF CountersOK
  <1>4. d \in Call /\ SendOK(d) /\ ReceiveOK(d) /\ d.at # "record" /\ d.receipt = "error"
    BY <1>1, <1>2, <1>3, ConcludeIs
  <1>5. CallOK(d)
    BY <1>4 DEF CallOK, DeliveredOK
  <1>6. QED
    BY <1>2, <1>3, <1>4, <1>5, OnlyCall

LEMMA UnansweredKeeps ==
    ASSUME IInv, NEW w \in Workers, NEW cause \in {"transient", "client"}, Unanswered(w, cause)
    PROVE  IInv' /\ Kept
  <1> DEFINE c == call[w]
  <1>1. PICK e : e = [c EXCEPT !.cause = cause]
    OBVIOUS
  <1>2. PICK d : d = TryAgain(e)
    OBVIOUS
  <1>3. /\ c.at = "await" /\ c.at \in Sending /\ call' = [call EXCEPT ![w] = d]
        /\ UNCHANGED <<tables, sends, accessPoint, faults>>
    BY <1>1, <1>2, CallIs DEF Unanswered, Sending
  <1>4. CallOK(c) /\ c \in Call /\ CountersOK /\ CountersOK'
    BY <1>3, CallIs DEF CountersOK
  <1>5. /\ e \in Call /\ e.at = "await" /\ e.op = c.op /\ e.msg = c.msg /\ e.key = c.key
        /\ e.body = c.body /\ e.receipt = c.receipt /\ e.tries = c.tries
    BY <1>1, <1>3, <1>4 DEF Call
  <1>6. /\ c.op \in {"send", "retry"} /\ IsOut(c.msg) /\ messages[c.msg].bis = Wrap(c.key, c.body)
    BY <1>3, RowOfCall
  <1>7. DeliveredOK(c)
    BY <1>4 DEF CallOK
  <1>8. CallOK(e)
    BY <1>5, <1>6, <1>7 DEF CallOK, SendOK, DeliveredOK, ReceiveOK, Sending, Receiving
  <1>9. CallOK(d) /\ d.at # "record"
    <2>1. CASE e.tries < MaxTries
      <3>1. d = [e EXCEPT !.at = "post"] /\ "post" \in Steps
        BY <1>2, <2>1 DEF TryAgain, Steps
      <3>2. /\ d \in Call /\ d.at = "post" /\ d.op = e.op /\ d.msg = e.msg /\ d.key = e.key
            /\ d.body = e.body /\ d.receipt = e.receipt /\ d.tries = e.tries
        BY <1>5, <3>1 DEF Call
      <3>3. QED
        BY <1>5, <1>6, <1>7, <2>1, <3>2
        DEF CallOK, SendOK, DeliveredOK, ReceiveOK, Sending, Receiving
    <2>2. CASE ~(e.tries < MaxTries)
      <3>1. d = Conclude(e, "error", None)
        BY <1>2, <2>2 DEF TryAgain
      <3>2. d \in Call /\ SendOK(d) /\ ReceiveOK(d) /\ d.at # "record" /\ d.receipt = "error"
        BY <1>5, <1>8, <3>1, ConcludeIs
      <3>3. QED
        BY <3>2 DEF CallOK, DeliveredOK
    <2>3. QED
      BY <2>1, <2>2
  <1>10. QED
    BY <1>3, <1>4, <1>9, OnlyCall

LEMMA ArchiveSentKeeps ==
    ASSUME IInv, NEW w \in Workers, ArchiveSent(w)
    PROVE  IInv' /\ Kept
  <1> DEFINE c == call[w]
  <1>1. PICK d : d = [c EXCEPT !.inv = Sent(c.id), !.at = "link"]
    OBVIOUS
  <1>2. PICK ext, body : ext = Sent(c.id) /\ body = c.body
    OBVIOUS
  <1>3. /\ c.at = "archive" /\ c.at \in Sending /\ Ingest(ext, body)
        /\ call' = [call EXCEPT ![w] = d] /\ UNCHANGED <<messages, sends, accessPoint, faults>>
    BY <1>1, <1>2, CallIs DEF ArchiveSent, Sending
  <1>4. /\ TablesOK /\ AccessPointOK /\ CountersOK /\ CountersOK' /\ CallOK(c) /\ c \in Call
        /\ SendOK(c) /\ DeliveredOK(c)
    BY <1>3, CallIs DEF CountersOK, CallOK
  <1>5. /\ c.op \in {"send", "retry"} /\ IsOut(c.msg) /\ messages[c.msg].bis = Wrap(c.key, c.body)
        /\ body \in Payloads /\ ApName(c.key) \in OutIds /\ OutIds \subseteq Ids
    BY <1>2, <1>3, RowOfCall
  <1>6. c.id \in {c.key, ApName(c.key)} /\ c.receipt = "delivered" /\ c.id \in Ids
    BY <1>3, <1>4, <1>5, RowOfCall DEF SendOK
  <1>7. ext \in ExtIds
    BY <1>2, <1>6 DEF ExtIds
  <1>8. TakenOrPresumed(c.msg) /\ c.msg \in DOMAIN messages /\ messages[c.msg].dir = "out"
    BY <1>4, <1>5, <1>6 DEF DeliveredOK, IsOut
  <1>9. ArtifactOf(c.msg, c.id) /\ body = messages[c.msg].bis.payload
    BY <1>2, <1>5, <1>6, <1>8 DEF ArtifactOf, Wrap
  <1>10. \A id \in Ids : ext = Sent(id) =>
            \E i \in DOMAIN messages : ArtifactOf(i, id) /\ body = messages[i].bis.payload
    BY <1>2, <1>8, <1>9 DEF Sent
  <1>11. TablesOK' /\ AccessPointOK' /\ Kept
    BY <1>3, <1>4, <1>5, <1>7, <1>10, FileIngested
  <1>12. /\ d \in Call /\ d.at = "link" /\ d.op = c.op /\ d.msg = c.msg /\ d.key = c.key
         /\ d.body = c.body /\ d.receipt = c.receipt
    BY <1>1, <1>2, <1>4, <1>7 DEF Call, Steps
  <1>13. CallOK(d)
    BY <1>4, <1>5, <1>12 DEF CallOK, SendOK, DeliveredOK, ReceiveOK, Sending, Receiving
  <1>14. CallOK(d)'
    BY <1>4, <1>11, <1>13, CallStays
  <1>15. CallsOK'
    BY <1>3, <1>4, <1>11, <1>12, <1>14, CallsStay
  <1>16. QED
    BY <1>4, <1>11, <1>15 DEF IInv

LEMMA ReturnKeeps ==
    ASSUME IInv, NEW w \in Workers, Return(w)
    PROVE  IInv' /\ Kept
  <1>1. call' = [call EXCEPT ![w] = Idle] /\ UNCHANGED <<tables, sends, accessPoint, faults>>
    BY DEF Return
  <1>2. CountersOK'
    BY <1>1 DEF IInv, CountersOK
  <1>3. QED
    BY <1>1, <1>2, IdleIs, OnlyCall

LEMMA FailsKeep ==
    ASSUME IInv, NEW w \in Workers, Fails(w)
    PROVE  IInv' /\ Kept
  <1> DEFINE c == call[w]
  <1>1. /\ CallOK(c) /\ c \in Call /\ SendOK(c) /\ ReceiveOK(c) /\ CountersOK
    BY CallIs
  <1>2. /\ Fault /\ UNCHANGED <<tables, sends, accessPoint>>
    BY DEF Fails, WriteFails, LookupFails, InsertFails
  <1>3. CountersOK'
    BY <1>1, <1>2, BoundsOK DEF Fault, CountersOK
  <1>4. CASE WriteFails(w)
    <2>1. PICK d : d = At(c, AfterWrite(c))
      OBVIOUS
    <2>2. c.at \in {"name", "reset", "mark", "rename", "link"} /\ call' = [call EXCEPT ![w] = d]
      BY <1>4, <2>1, CallIs DEF WriteFails, Goto
    <2>3. CallOK(d) /\ d.at # "record"
      BY <1>1, <2>1, <2>2, AfterWriteIs
    <2>4. QED
      BY <1>2, <1>3, <2>2, <2>3, OnlyCall
  <1>5. CASE LookupFails(w)
    <2> DEFINE next == IF c.at = "seen" THEN "ingest" ELSE "insert"
    <2>1. PICK d : d = At(c, next)
      OBVIOUS
    <2>2. c.at \in {"seen", "seen_again"} /\ c.at \in Receiving /\ call' = [call EXCEPT ![w] = d]
      BY <1>5, <2>1, CallIs DEF LookupFails, Goto, Receiving
    <2>3. /\ next \in {"ingest", "insert"} /\ next \in Steps /\ next # "done"
          /\ next = "insert" => c.at = "seen_again"
      BY <2>2 DEF Steps
    <2>4. /\ d \in Call /\ d.at = next /\ d.op = c.op /\ d.id = c.id /\ d.inv = c.inv
          /\ d.receipt = c.receipt /\ d.body = c.body
      BY <1>1, <2>1, <2>3, AtIs
    <2> HIDE DEF next
    <2>5. CallOK(d)
      BY <1>1, <2>2, <2>3, <2>4 DEF CallOK, SendOK, DeliveredOK, ReceiveOK, Sending, Receiving
    <2>6. QED
      BY <1>2, <1>3, <2>2, <2>3, <2>4, <2>5, OnlyCall
  <1>6. CASE InsertFails(w)
    <2>1. PICK d : d = At(c, "done")
      OBVIOUS
    <2>2. /\ c.at \in {"record", "archive", "ingest", "insert", "refetch"}
          /\ call' = [call EXCEPT ![w] = d]
      BY <1>6, <2>1, CallIs DEF InsertFails, Goto
    <2>3. c.receipt # "delivered" \/ c.op # "receive"
      BY <1>1, <2>2 DEF SendOK, ReceiveOK, Sending, Receiving
    <2>4. CallOK(d) /\ d.at # "record"
      BY <1>1, <2>1, <2>3, EndIs
    <2>5. QED
      BY <1>2, <1>3, <2>2, <2>4, OnlyCall
  <1>7. QED
    BY <1>4, <1>5, <1>6 DEF Fails

LEMMA CrashKeeps ==
    ASSUME IInv, NEW ws \in Processes, Crash(ws)
    PROVE  IInv' /\ Kept
  <1>1. /\ Fault /\ UNCHANGED <<tables, sends, accessPoint>>
        /\ call' = [w \in Workers |-> IF w \in ws THEN Idle ELSE call[w]]
    BY DEF Crash
  <1>2. TablesOK /\ AccessPointOK /\ CountersOK
    BY DEF IInv
  <1>3. CountersOK' /\ sends' = sends /\ sends \in Nat
    BY <1>1, <1>2, BoundsOK DEF Fault, CountersOK
  <1>4. TablesOK' /\ RowsKept /\ FilesKept
    BY <1>1, <1>2, <1>3, TablesStay
  <1>5. messages' = messages /\ archived' = archived
    BY <1>1 DEF tables
  <1>6. AccessPointOK'
    BY <1>1, <1>2, <1>4, <1>5, PointIs, PointStays
  <1>7. Kept
    BY <1>1, <1>3, <1>4, PresumedSame DEF Kept
  <1>8. /\ call' = [v \in Workers |-> call'[v]] /\ \A v \in Workers : call'[v] \in {call[v], Idle}
    BY <1>1
  <1>9. CallsOK'
    BY <1>3, <1>5, <1>7, <1>8, CallsLeft
  <1>10. QED
    BY <1>3, <1>4, <1>6, <1>7, <1>9 DEF IInv

LEMMA BadEnvelopeKeeps ==
    ASSUME IInv, NEW w \in Workers, BadEnvelope(w)
    PROVE  IInv' /\ Kept
  <1>1. PICK row : row = [dir |-> "in", apid |-> None, status |-> "failed",
                          receipt |-> "none", invoice |-> None, bis |-> None]
    OBVIOUS
  <1>2. /\ messages' = Append(messages, row) /\ UNCHANGED <<archived, call, sends, accessPoint, faults>>
    BY <1>1 DEF BadEnvelope
  <1>3. row \in Message /\ row.dir = "in" /\ row.apid = None
    BY <1>1 DEF Message, MessageStatus, Receipts
  <1>4. /\ TablesOK /\ AccessPointOK /\ CountersOK /\ CountersOK'
        /\ call = [v \in Workers |-> call[v]]
    BY <1>2 DEF IInv, CallsOK, CountersOK
  <1>5. /\ TablesOK' /\ AccessPointOK' /\ Kept
        /\ DOMAIN messages' = DOMAIN messages \cup {Len(messages) + 1}
        /\ messages'[Len(messages) + 1] = row
    BY <1>2, <1>3, <1>4, RowAppended
  <1>6. \A i \in DOMAIN messages' : messages'[i].dir = "out" => i \in DOMAIN messages
    BY <1>3, <1>5
  <1>7. CallsOK'
    BY <1>2, <1>4, <1>5, <1>6, CallsLeft
  <1>8. QED
    BY <1>4, <1>5, <1>7 DEF IInv

LEMMA StartReceiveKeeps ==
    ASSUME IInv, NEW w \in Workers, NEW status \in MessageStatus, NEW raw \in Envelopes,
           StartReceive(w, status, raw)
    PROVE  IInv' /\ Kept
  <1>1. PICK d : d = [Idle EXCEPT !.at = "seen", !.op = "receive", !.id = raw.id,
                                  !.body = raw.payload, !.status = status]
    OBVIOUS
  <1>2. call' = [call EXCEPT ![w] = d] /\ UNCHANGED <<tables, sends, accessPoint, faults>>
    BY <1>1 DEF StartReceive
  <1>3. CountersOK'
    BY <1>2 DEF IInv, CountersOK
  <1>4. raw.id \in Ids /\ raw.payload \in Payloads
    BY DEF Envelopes, Wrap
  <1>5. "seen" \in Steps /\ Idle \in Call
    BY IdleIs DEF CallOK, Steps
  <1>6. d \in Call
    BY <1>1, <1>4, <1>5 DEF Call
  <1>7. d.at = "seen" /\ d.op = "receive" /\ d.id = raw.id /\ d.body = raw.payload /\ d.receipt = "none"
    BY <1>1 DEF Idle
  <1>8. CallOK(d)
    BY <1>4, <1>6, <1>7 DEF CallOK, SendOK, DeliveredOK, ReceiveOK, Sending, Receiving
  <1>9. QED
    BY <1>2, <1>3, <1>7, <1>8, OnlyCall

\* What others sent and what bounces are envelopes.
LEMMA EnvelopesArrive ==
    ASSUME IInv
    PROVE  /\ \A m \in Incoming : Pushed(m) \in Envelopes /\ Polled(m) \in Envelopes
           /\ \A m \in Incoming : m.status \in MessageStatus
           /\ \A m \in Bounces : Pushed(m) \in Envelopes
  <1>1. ASSUME NEW m \in Incoming
        PROVE  /\ Pushed(m) \in Envelopes /\ Polled(m) \in Envelopes /\ m.status \in MessageStatus
    <2>1. m.id \in Ids /\ m.doc \in Docs /\ m.status \in MessageStatus
      BY IncomingOK DEF Ids, IncomingIds, MessageStatus
    <2>2. m.doc \in Payloads /\ Wrap(m.id, m.doc) \in Payloads
      BY <2>1 DEF Payloads, Sbds
    <2>3. QED
      BY <2>1, <2>2 DEF Pushed, Polled, Envelopes
  <1>2. ASSUME NEW m \in Bounces
        PROVE  Pushed(m) \in Envelopes
    <2>1. PICK p \in taken : m \in {[id |-> id, doc |-> p.doc] : id \in {p.key, ApName(p.key)}}
      BY DEF Bounces
    <2>2. p.key \in Ids /\ p.doc \in Docs
      BY DEF IInv, AccessPointOK, Requests
    <2>3. ApName(p.key) \in Ids
      BY <2>2, UsedKeysAre DEF IInv, ApName
    <2>4. m.id \in Ids /\ m.doc \in Payloads
      BY <2>1, <2>2, <2>3 DEF Payloads
    <2>5. QED
      BY <2>4 DEF Pushed, Envelopes
  <1>3. QED
    BY <1>1, <1>2

\* The answer to a duplicate is the one row there is under the message's id.
LEMMA KnownIs ==
    ASSUME IInv, NEW w \in Workers, call[w].at \in Receiving, RowsWith(call[w].id) # {}
    PROVE  CallOK(Known(call[w])) /\ Known(call[w]).at # "record"
  <1> DEFINE c == call[w]
  <1>1. /\ TablesOK /\ CountersOK /\ c \in Call /\ c.op = "receive" /\ c.id \in Ids
    BY CallIs DEF ReceiveOK
  <1>2. PICK i \in DOMAIN messages : messages[i].apid = c.id
    BY DEF RowsWith
  <1>3. c.id # None
    BY <1>1, NoneIsNoId
  <1>4. RowsWith(c.id) = {i}
    BY <1>1, <1>2, <1>3 DEF RowsWith, TablesOK, UniqueIds
  <1>5. i \in Nat /\ messages[i] \in Message
    BY <1>1, <1>2, ElementOfSeq, LenProperties DEF TablesOK
  <1>6. Min(RowsWith(c.id)) = i
    BY <1>4, <1>5 DEF Min
  <1> DEFINE e == [c EXCEPT !.receipt = "delivered", !.msg = i, !.inv = messages[i].invoice]
             d == At(e, "done")
  <1>7. Known(c) = d
    BY <1>6 DEF Known
  <1>8. messages[i].invoice \in ExtIds \cup {None} /\ "delivered" \in Receipts /\ i \in DOMAIN messages \cup {0}
    BY <1>2, <1>5 DEF Message, Receipts
  <1>9. /\ e \in Call /\ e.op = "receive" /\ e.id = c.id /\ e.msg = i /\ e.inv = messages[i].invoice
    BY <1>1, <1>8 DEF Call
  <1> HIDE DEF e
  <1>10. /\ d \in Call /\ d.at = "done" /\ d.op = "receive" /\ d.id = c.id /\ d.msg = i
         /\ d.inv = messages[i].invoice
    BY <1>9, AtIs DEF Steps
  <1>11. c.id \in IncomingIds => messages[i].dir = "in" /\ messages[i].invoice = Received(c.id)
    <2>1. ASSUME c.id \in IncomingIds
          PROVE  messages[i].dir = "in"
      <3>1. messages[i].dir = "out" => messages[i].apid \in OutIds \cup {None}
        BY <1>1, <1>2 DEF TablesOK, OutRows
      <3>2. c.id \notin OutIds
        BY <1>1, <2>1, UsedKeysAre
      <3>3. QED
        BY <1>2, <1>3, <1>5, <3>1, <3>2 DEF Message
    <2>2. QED
      BY <1>1, <1>2, <1>3, <2>1 DEF TablesOK, InboundIsArchived
  <1> HIDE DEF d
  <1>12. CallOK(d)
    BY <1>2, <1>10, <1>11 DEF CallOK, SendOK, DeliveredOK, ReceiveOK, Sending, Receiving
  <1>13. QED
    BY <1>7, <1>10, <1>12

LEMMA LookupMessageKeeps ==
    ASSUME IInv, NEW w \in Workers, LookupMessage(w)
    PROVE  IInv' /\ Kept
  <1> DEFINE c == call[w]
             next == IF c.at = "seen" THEN "ingest" ELSE "insert"
  <1>1. PICK d : d = IF RowsWith(c.id) # {} THEN Known(c) ELSE [c EXCEPT !.at = next]
    OBVIOUS
  <1>2. /\ c.at \in {"seen", "seen_again"} /\ c.at \in Receiving /\ call' = [call EXCEPT ![w] = d]
        /\ UNCHANGED <<tables, sends, accessPoint, faults>>
    BY <1>1, CallIs DEF LookupMessage, Receiving
  <1>3. /\ CallOK(c) /\ c \in Call /\ ReceiveOK(c) /\ CountersOK'
    BY <1>2, CallIs DEF CountersOK
  <1>4. CallOK(d) /\ d.at # "record"
    <2>1. CASE RowsWith(c.id) # {}
      BY <1>1, <1>2, <2>1, KnownIs
    <2>2. CASE RowsWith(c.id) = {}
      <3>1. next \in {"ingest", "insert"} /\ next \in Steps /\ (next = "insert" => c.at = "seen_again")
        BY <1>2 DEF Steps
      <3> HIDE DEF next
      <3>2. /\ d \in Call /\ d.at = next /\ d.op = c.op /\ d.id = c.id /\ d.inv = c.inv
            /\ d.receipt = c.receipt /\ d.body = c.body
        BY <1>1, <1>3, <2>2, <3>1 DEF Call
      <3>3. QED
        BY <1>2, <1>3, <3>1, <3>2 DEF CallOK, SendOK, DeliveredOK, ReceiveOK, Sending, Receiving
    <2>3. QED
      BY <2>1, <2>2
  <1>5. QED
    BY <1>2, <1>3, <1>4, OnlyCall

LEMMA RefetchKeeps ==
    ASSUME IInv, NEW w \in Workers, Refetch(w)
    PROVE  IInv' /\ Kept
  <1> DEFINE c == call[w]
  <1>1. PICK d : d = IF RowsWith(c.id) # {} THEN Known(c) ELSE At(c, "done")
    OBVIOUS
  <1>2. /\ c.at = "refetch" /\ c.at \in Receiving /\ call' = [call EXCEPT ![w] = d]
        /\ UNCHANGED <<tables, sends, accessPoint, faults>>
    BY <1>1, CallIs DEF Refetch, Receiving
  <1>3. CallOK(c) /\ c.receipt = "none" /\ CountersOK'
    BY <1>2, CallIs DEF CountersOK, ReceiveOK
  <1>4. CallOK(d) /\ d.at # "record"
    BY <1>1, <1>2, <1>3, KnownIs, EndIs
  <1>5. QED
    BY <1>2, <1>3, <1>4, OnlyCall

LEMMA IngestReceivedKeeps ==
    ASSUME IInv, NEW w \in Workers, IngestReceived(w)
    PROVE  IInv' /\ Kept
  <1> DEFINE c == call[w]
  <1>1. PICK d : d = [c EXCEPT !.inv = Received(c.id), !.at = "seen_again"]
    OBVIOUS
  <1>2. PICK ext, body : ext = Received(c.id) /\ body = c.body
    OBVIOUS
  <1>3. /\ c.at = "ingest" /\ Ingest(ext, body) /\ call' = [call EXCEPT ![w] = d]
        /\ UNCHANGED <<messages, sends, accessPoint, faults>>
    BY <1>1, <1>2, CallIs DEF IngestReceived, ExternalIdOf
  <1>4. /\ TablesOK /\ AccessPointOK /\ CountersOK /\ CountersOK' /\ c \in Call /\ c.op = "receive"
        /\ c.id \in Ids /\ body \in Payloads /\ c.receipt = "none"
    BY <1>2, <1>3, CallIs DEF CountersOK, ReceiveOK, Receiving
  <1>5. ext \in ExtIds /\ \A id \in Ids : ext # Sent(id)
    BY <1>2, <1>4 DEF ExtIds, Received, Sent
  <1>6. TablesOK' /\ AccessPointOK' /\ Kept /\ ext \in DOMAIN archived'
    BY <1>3, <1>4, <1>5, FileIngested
  <1>7. "seen_again" \in Steps /\ c \in Call' /\ messages' = messages
    BY <1>3, <1>4 DEF Steps, Call
  <1>8. /\ d \in Call' /\ d.at = "seen_again" /\ d.op = "receive" /\ d.id = c.id /\ d.body = c.body
        /\ d.receipt = "none" /\ d.inv = ext
    BY <1>1, <1>2, <1>4, <1>5, <1>7 DEF Call
  <1>9. CallOK(d)'
    BY <1>2, <1>4, <1>6, <1>8 DEF CallOK, SendOK, DeliveredOK, ReceiveOK, Sending, Receiving
  <1>10. CallsOK'
    BY <1>3, <1>4, <1>6, <1>7, <1>8, <1>9, CallsStay
  <1>11. QED
    BY <1>4, <1>6, <1>10 DEF IInv

LEMMA InsertMessageKeeps ==
    ASSUME IInv, NEW w \in Workers, InsertMessage(w)
    PROVE  IInv' /\ Kept
  <1> DEFINE c == call[w]
             k == Len(messages) + 1
  <1>1. /\ c.at = "insert" /\ c.at \in Receiving /\ UNCHANGED <<archived, sends, accessPoint, faults>>
    BY DEF InsertMessage, Receiving
  <1>2. /\ TablesOK /\ AccessPointOK /\ CountersOK /\ CountersOK' /\ CallOK(c) /\ c \in Call
        /\ c.op = "receive" /\ c.id \in Ids /\ c.body \in Payloads /\ c.receipt = "none"
        /\ c.inv = Received(c.id) /\ Received(c.id) \in DOMAIN archived
    BY <1>1, CallIs DEF CountersOK, ReceiveOK
  <1>3. CASE TakenBy(0, c.id)
    <2>1. PICK d : d = At(c, "refetch")
      OBVIOUS
    <2>2. call' = [call EXCEPT ![w] = d] /\ UNCHANGED tables
      BY <1>1, <1>3, <2>1, CallIs DEF InsertMessage, Goto, tables
    <2>3. /\ d \in Call /\ d.at = "refetch" /\ d.op = c.op /\ d.id = c.id /\ d.receipt = c.receipt
          /\ d.body = c.body
      BY <1>2, <2>1, AtIs DEF Steps
    <2>4. CallOK(d)
      BY <1>2, <2>3 DEF CallOK, SendOK, DeliveredOK, ReceiveOK, Sending, Receiving
    <2>5. QED
      BY <1>1, <1>2, <2>2, <2>3, <2>4, OnlyCall
  <1>4. CASE ~TakenBy(0, c.id)
    <2>1. PICK row : row = InRow(c)
      OBVIOUS
    <2>2. PICK d : d = At([c EXCEPT !.receipt = "delivered", !.msg = k], "done")
      OBVIOUS
    <2>3. messages' = Append(messages, row) /\ call' = [call EXCEPT ![w] = d]
      BY <1>4, <2>1, <2>2, CallIs DEF InsertMessage
    <2>4. row \in Message
      <3>1. Wrap(c.id, c.body) \in Envelopes /\ "none" \in Receipts
        BY <1>2 DEF Envelopes, Receipts
      <3>2. c.status \in MessageStatus /\ c.inv \in ExtIds \cup {None} /\ c.id \in Ids \cup {None}
        BY <1>2 DEF Call
      <3>3. QED
        BY <2>1, <3>1, <3>2 DEF InRow, Message
    <2>5. row.dir = "in" /\ row.apid = c.id /\ row.invoice = Received(c.id)
      BY <1>2, <2>1 DEF InRow
    <2>6. RowsWith(c.id) = {}
      <3>1. 0 \notin DOMAIN messages
        BY <1>2, LenProperties DEF TablesOK
      <3>2. RowsWith(c.id) \ {0} = {}
        BY <1>2, <1>4, NoneIsNoId DEF TakenBy
      <3>3. QED
        BY <3>1, <3>2 DEF RowsWith
    <2>7. /\ TablesOK' /\ AccessPointOK' /\ Kept
          /\ DOMAIN messages' = DOMAIN messages \cup {k} /\ messages'[k] = row
      BY <1>1, <1>2, <2>3, <2>4, <2>5, <2>6, RowAppended
    <2> HIDE DEF k
    <2>8. d = [Idle EXCEPT !.at = "done", !.op = c.op, !.msg = k, !.id = c.id, !.inv = c.inv,
                           !.receipt = "delivered"]
      <3>1. PICK e : e = [c EXCEPT !.receipt = "delivered", !.msg = k]
        OBVIOUS
      <3>2. e.op = c.op /\ e.msg = k /\ e.id = c.id /\ e.inv = c.inv /\ e.receipt = "delivered"
        BY <1>2, <3>1 DEF Call
      <3>3. d = At(e, "done")
        BY <2>2, <3>1
      <3>4. QED
        BY <3>2, <3>3 DEF At
    <2>9. d \in Call'
      <3>1. Idle \in Call'
        BY <2>7, IdleIs DEF CallOK, Call
      <3>2. /\ "done" \in Steps /\ k \in DOMAIN messages' \cup {0} /\ "delivered" \in Receipts
        BY <2>7 DEF Steps, Receipts
      <3>3. /\ c.op \in {"none", "send", "retry", "receive"} /\ c.id \in Ids \cup {None}
            /\ c.inv \in ExtIds \cup {None}
        BY <1>2 DEF Call
      <3>4. QED
        BY <2>8, <3>1, <3>2, <3>3 DEF Call
    <2>10. d.at = "done" /\ d.op = c.op /\ d.msg = k /\ d.id = c.id /\ d.inv = c.inv
      BY <2>8 DEF Idle
    <2>11. CallOK(d)'
      BY <1>2, <2>5, <2>7, <2>9, <2>10 DEF CallOK, SendOK, DeliveredOK, ReceiveOK, Sending, Receiving
    <2>12. \A i \in DOMAIN messages' : messages'[i].dir = "out" => i \in DOMAIN messages
      BY <2>5, <2>7
    <2>13. CallsOK'
      BY <1>2, <2>3, <2>7, <2>10, <2>11, <2>12, CallsStay
    <2>14. QED
      BY <1>2, <2>7, <2>13 DEF IInv
  <1>5. QED
    BY <1>3, <1>4

LEMMA InitPeppol == Init => IInv
  <1> SUFFICES ASSUME Init
               PROVE  IInv
    OBVIOUS
  <1>1. /\ messages = <<>> /\ call = [w \in Workers |-> Idle] /\ sends = 0 /\ ownIds \in BOOLEAN
        /\ posted = {} /\ taken = {} /\ presumed = {} /\ faults = 0
        /\ archived = [e \in {Own(d) : d \in Stored} |-> CHOOSE d \in Stored : e = Own(d)]
        /\ Stored \subseteq Docs
    BY StoredOK DEF Init
  <1>2. messages \in Seq(Message) /\ DOMAIN messages = {}
    BY <1>1
  <1>3. /\ DOMAIN archived \subseteq ExtIds
        /\ archived \in [DOMAIN archived -> Payloads]
        /\ \A id \in Ids : Sent(id) \notin DOMAIN archived
    <2>1. DOMAIN archived = {Own(d) : d \in Stored}
      BY <1>1
    <2>2. \A e \in DOMAIN archived : archived[e] \in Docs
      BY <1>1
    <2>3. \A id \in Ids : Sent(id) \notin {Own(d) : d \in Stored}
      BY DEF Sent, Own
    <2>4. archived = [e \in DOMAIN archived |-> archived[e]]
      BY <1>1
    <2>5. QED
      BY <1>1, <2>1, <2>2, <2>3, <2>4 DEF ExtIds, Payloads
  <1>4. TablesOK
    BY <1>2, <1>3 DEF TablesOK, OutRows, UniqueIds, UniqueKeys, InboundIsArchived
  <1>5. AccessPointOK
    BY <1>1, <1>2, <1>3 DEF AccessPointOK, Requested, TakenOnce, ArtifactsAreReal
  <1>6. CallsOK
    <2>1. \A w \in Workers : call[w] = Idle
      BY <1>1
    <2>2. call = [w \in Workers |-> call[w]]
      BY <1>1
    <2>3. QED
      BY <2>1, <2>2, IdleIs DEF CallsOK, NewKeys
  <1>7. CountersOK
    BY <1>1, BoundsOK DEF CountersOK
  <1>8. QED
    BY <1>4, <1>5, <1>6, <1>7 DEF IInv

LEMMA StutterKeeps ==
    ASSUME IInv, UNCHANGED vars
    PROVE  IInv' /\ Kept
  <1>1. UNCHANGED <<messages, archived, call, sends, ownIds, posted, taken, presumed, faults>>
    BY DEF vars, tables, accessPoint
  <1>2. TablesOK'
    BY <1>1 DEF IInv, TablesOK, OutRows, UsedKeys, UniqueIds, UniqueKeys, InboundIsArchived
  <1>3. AccessPointOK'
    BY <1>1
    DEF IInv, AccessPointOK, Requests, Requested, IsOut, TakenOnce, ArtifactsAreReal, ArtifactOf,
        TakenOrPresumed, ApName
  <1>4. CallsOK'
    BY <1>1
    DEF IInv, CallsOK, CallOK, Call, SendOK, UsedKeys, IsOut, ApName, DeliveredOK, TakenOrPresumed,
        ReceiveOK, NewKeys
  <1>5. CountersOK'
    BY <1>1 DEF IInv, CountersOK
  <1>6. Kept
    BY <1>1 DEF IInv, CountersOK, Kept, RowsKept, FilesKept, TakenOrPresumed
  <1>7. QED
    BY <1>2, <1>3, <1>4, <1>5, <1>6 DEF IInv

LEMMA NextKeeps ==
    ASSUME IInv, [Next]_vars
    PROVE  IInv' /\ Kept
  <1>1. ASSUME NEW w \in Workers, Start(w)
        PROVE  IInv' /\ Kept
    <2>1. ASSUME NEW doc \in Docs, StartSend(w, doc, InvoiceOf(doc))
          PROVE  IInv' /\ Kept
      <3>1. InvoiceOf(doc) \in {Own(doc), None}
        BY DEF InvoiceOf
      <3>2. QED
        BY <2>1, <3>1, StartSendKeeps
    <2>2. ASSUME NEW i \in DOMAIN messages, StartRetry(w, i)
          PROVE  IInv' /\ Kept
      BY <2>2, StartRetryKeeps
    <2>3. ASSUME NEW m \in Incoming, StartReceive(w, m.status, Pushed(m)) \/ StartReceive(w, "delivered", Polled(m))
          PROVE  IInv' /\ Kept
      <3>1. Pushed(m) \in Envelopes /\ Polled(m) \in Envelopes /\ m.status \in MessageStatus
        BY EnvelopesArrive
      <3>2. "delivered" \in MessageStatus
        BY DEF MessageStatus
      <3>3. QED
        BY <2>3, <3>1, <3>2, StartReceiveKeeps
    <2>4. ASSUME NEW m \in Bounces, StartReceive(w, "delivered", Pushed(m))
          PROVE  IInv' /\ Kept
      <3>1. Pushed(m) \in Envelopes /\ "delivered" \in MessageStatus
        BY EnvelopesArrive DEF MessageStatus
      <3>2. QED
        BY <2>4, <3>1, StartReceiveKeeps
    <2>5. CASE BadEnvelope(w)
      BY <2>5, BadEnvelopeKeeps
    <2>6. QED
      BY <1>1, <2>1, <2>2, <2>3, <2>4, <2>5 DEF Start
  <1>2. ASSUME NEW w \in Workers, Step(w)
        PROVE  IInv' /\ Kept
    <2>1. CASE RecordOut(w) \/ NameOut(w) \/ Reset(w) \/ Post(w) \/ Mark(w) \/ Rename(w)
      BY <2>1, RecordOutKeeps, NameOutKeeps, ResetKeeps, PostKeeps, MarkKeeps, RenameKeeps
    <2>2. CASE Answer(w) \/ GiveUp(w)
      BY <2>2, AnswerKeeps, GiveUpKeeps
    <2>3. ASSUME NEW cause \in {"transient", "client"}, Unanswered(w, cause)
          PROVE  IInv' /\ Kept
      BY <2>3, UnansweredKeeps
    <2>4. CASE ArchiveSent(w) \/ LinkSent(w) \/ Return(w)
      BY <2>4, ArchiveSentKeeps, LinkSentKeeps, ReturnKeeps
    <2>5. CASE LookupMessage(w) \/ IngestReceived(w) \/ InsertMessage(w) \/ Refetch(w)
      BY <2>5, LookupMessageKeeps, IngestReceivedKeeps, InsertMessageKeeps, RefetchKeeps
    <2>6. QED
      BY <1>2, <2>1, <2>2, <2>3, <2>4, <2>5 DEF Step
  <1>3. ASSUME NEW w \in Workers, Fails(w)
        PROVE  IInv' /\ Kept
    BY <1>3, FailsKeep
  <1>4. ASSUME NEW p \in posted, Take(p)
        PROVE  IInv' /\ Kept
    BY <1>4, TakeKeeps
  <1>5. ASSUME NEW ws \in Processes, Crash(ws)
        PROVE  IInv' /\ Kept
    BY <1>5, CrashKeeps
  <1>6. CASE UNCHANGED vars
    BY <1>6, StutterKeeps
  <1>7. QED
    BY <1>1, <1>2, <1>3, <1>4, <1>5, <1>6 DEF Next

-----------------------------------------------------------------------------
(* The theorems.                                                           *)

\* However sends, retries, polls and pushes overlap, whatever is lost, fails or
\* is killed: the tables, the AP and every call stay as IInv says (engine.go,
\* retry.go, archive/peppol.go).
THEOREM PeppolInvariant == Spec => []IInv
  <1>1. IInv /\ [Next]_vars => IInv'
    BY NextKeeps
  <1>2. QED
    BY <1>1, InitPeppol, PTL DEF Spec

\* No statement deletes a row of peppol_messages, changes one of a received
\* message, or takes the envelope from one of a sent message; no ingest writes
\* over a file; the AP gives nothing back (archive/peppol.go, archive.go).
THEOREM NothingIsTakenBack == Spec => [][Kept]_vars
  <1>1. IInv /\ [Next]_vars => [Kept]_vars
    BY NextKeeps
  <1>2. QED
    BY <1>1, PeppolInvariant, PTL DEF Spec

\* Tables, calls and the AP keep their types, and no call makes more attempts
\* than SendWithRetry's MaxTries (retry.go:28-66).
THEOREM PeppolTypes == Spec => []TypeOK
  <1>1. ASSUME IInv
        PROVE  TypeOK
    <2>1. call \in [Workers -> Call]
      BY <1>1 DEF IInv, CallsOK, CallOK
    <2>2. QED
      BY <1>1, <2>1 DEF IInv, TablesOK, AccessPointOK, CountersOK, TypeOK
  <1>2. QED
    BY <1>1, PeppolInvariant, PTL

\* An AP that honours the idempotency key takes a message once, because every
\* attempt and every retry sends the key of the row's envelope (engine.go:278-284).
THEOREM MessagesAreSentOnce == Spec => []SentAtMostOnce
  <1>1. ASSUME IInv
        PROVE  SentAtMostOnce
    <2>1. ASSUME NEW p \in taken, NEW q \in taken, p.msg = q.msg
          PROVE  p = q
      <3>1. Wrap(p.key, p.doc) = Wrap(q.key, q.doc)
        BY <1>1, <2>1 DEF IInv, AccessPointOK, Requested
      <3>2. p.key = q.key
        BY <3>1 DEF Wrap
      <3>3. QED
        BY <1>1, <3>2 DEF IInv, AccessPointOK, TakenOnce
    <2>2. QED
      BY <2>1 DEF SentAtMostOnce
  <1>2. QED
    BY <1>1, PeppolInvariant, PTL

\* A row, an answer or an artifact says delivered only where the AP took the
\* message, or was presumed to on an answer that does not say so
\* (engine.go:237-252, 311-318; ap_http.go:180-188).
THEOREM DeliveriesAreReal == Spec => []DeliveryIsReal
  <1>1. ASSUME IInv
        PROVE  DeliveryIsReal
    <2>1. \A w \in Workers : DeliveredOK(call[w])
      BY <1>1 DEF IInv, CallsOK, CallOK
    <2>2. AccessPointOK /\ ArtifactsAreReal
      BY <1>1 DEF IInv, AccessPointOK
    <2>3. QED
      BY <2>1, <2>2 DEF DeliveryIsReal, DeliveredOK, AccessPointOK, ArtifactsAreReal
  <1>2. QED
    BY <1>1, PeppolInvariant, PTL

\* A received message is on record only after its invoice is archived
\* (engine.go:82-92).
THEOREM ReceivedIsArchived == Spec => []InboundIsArchived
  <1>1. IInv => InboundIsArchived
    BY DEF IInv, TablesOK
  <1>2. QED
    BY <1>1, PeppolInvariant, PTL

\* A delivery that is answered with 200 is on record exactly once, whether it
\* was the first of its message, a copy, or lost the race for the unique index
\* (engine.go:53-102, peppol.go:192-219).
THEOREM DeliveriesAreAcknowledged == Spec => []Acknowledged
  <1>1. ASSUME IInv
        PROVE  Acknowledged
    <2> SUFFICES ASSUME NEW w \in Workers, call[w].op = "receive", call[w].at = "done",
                        call[w].receipt = "delivered", call[w].id \in IncomingIds
                 PROVE  /\ Cardinality(RowsWith(call[w].id)) = 1
                        /\ call[w].msg \in RowsWith(call[w].id)
                        /\ call[w].inv = Received(call[w].id)
      BY DEF Acknowledged
    <2> DEFINE c == call[w]
    <2>1. c.msg \in DOMAIN messages /\ messages[c.msg].apid = c.id /\ c.inv = Received(c.id)
      BY <1>1, CallIs DEF ReceiveOK
    <2>2. c.id # None
      BY NoneIsNoId DEF Ids
    <2>3. RowsWith(c.id) = {c.msg}
      BY <1>1, <2>1, <2>2 DEF RowsWith, IInv, TablesOK, UniqueIds
    <2>4. Cardinality({c.msg}) = 1
      BY FS_Singleton
    <2>5. QED
      BY <2>1, <2>3, <2>4
  <1>2. QED
    BY <1>1, PeppolInvariant, PTL
=============================================================================

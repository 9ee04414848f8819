# Factura: specifications, model checks and proofs

Factura receives, validates, archives and sends electronic invoices (XRechnung,
ZUGFeRD): a server and a command-line program written in Go, and a web console
in TypeScript. This directory holds TLA+ modules of the parts whose behaviour
depends on order, concurrency or failure, the TLC configurations that check them
on small instances, and theorems with proofs for TLAPS. Every definition is
translated from the code; `PROJECT.json` maps each one to its lines.

## The system

| Part | State it keeps | Operations | Talks to |
|---|---|---|---|
| Archive (`pkg/archive/archive.go`, `phase8.go`) | one SQLite file: tables `invoices`, `chain_links`; one connection per process | `Open` (migrate, `ensureColumn`, `backfillChain`), `IngestWithSource`, `insertWithChain`, `VerifyChain`, `EvidenceFor`, reads, `Close` | parser and validator; every process that opens the same file |
| Peppol engine (`pkg/peppol`, `archive/peppol.go`) | tables `peppol_messages`, `participants` | `Send`, `SendWithRetry`, `Retry`, `ReceiveSBD`, `PollAndIngest`, `AddParticipant` | the Access Point (AP) over HTTP, the archive |
| API keys (`pkg/apikeys`) | a cache of the key table, request buckets, monthly counters | `Refresh`, `Check`, `RecordUsage` | table `api_keys`, the handlers |
| Access (`archive/users.go`, `pkg/session`, `api/auth.go`) | table `users`, a cached "users exist", signed sessions, MFA challenges, login failures | login, second factor, bootstrap, add, change and remove users | the handlers |
| License (`pkg/license`, `api/phase6.go`) | a stored key, the plan's caps in memory | `Resolve`, `POST` and `DELETE` of a key | settings table |
| Companies, operators (`archive/phase6.go`) | tables `companies`, `operators` and their usage | add, set default, count usage | license caps |
| Batch and watch folder (`cmd/factura/cmd_serve.go`) | the set of files already seen | scan, read, ingest | archive |
| HTTP API (`pkg/api/api.go`) | a token bucket per client, the poller goroutine | routing, `takeToken`, `StartPeppolPoller` | all of the above |
| Parser, validator, generator (`pkg/parse`, `pkg/validate`, `pkg/generate`, `pkg/model`) | none | pure functions of a document | |
| Console: session (`frontend/src/components/AuthProvider.tsx`, `AppShell.tsx`, `TokenBar.tsx`, `lib/api.ts`, `pages/LoginPage.tsx`) | the bearer in the browser's storage, mode and user in memory, the route, the login form | `fetchJson` and its listeners, refresh, login, second factor, logout, both redirects | every page, `api/auth.go` |
| Console: invoice form (`pages/NewInvoicePage.tsx`, `lib/gobl.ts`) | the draft, its lines and discounts, attachments, the generate call | edit, prefill, attach, generate and archive; `toGobl`, `previewTotals`, `hintUStIdNr` | generator, archive |
| Console: inbox, detail, license, branding, users, security, Peppol pages (`pages/*.tsx`) | what was loaded last, open dialogs, busy flags | load, reload, the buttons, dialogs | one handler of the API each |
| SDKs | none | HTTP calls | HTTP API |

What makes it hard: several operating-system processes (the server, `factura
add`, `factura watch`, `factura peppol ...`) open one SQLite file, and within a
process many goroutines share one connection. Most operations are a read, some
Go code and a write, without a transaction around them; the unique indexes and
the one transaction in `insertWithChain` are what keeps them correct. The AP is
a remote service whose answers get lost. Nothing is repaired at start-up except
the hash chain. In the console every page is a set of callbacks on shared state:
a request is sent with what the form held then, the user goes on clicking,
nothing is cancelled, and its answer is applied to whatever the page is by then.
`PROJECT.json` lists the hazards line by line, with the
properties that cover each one.

## Plan

1. `Ledger`, `Archive`, `ArchiveProofs` (done): what every other part stores
   its documents in, and the only part with a transaction and a migration.
2. `Peppol` (done): messages against an unreliable AP. It uses the
   archive as its `IngestWithSource` step, which `Archive` is shown to implement
   atomically.
3. `Login`, `LoginProofs` (done): the first component with a clock; three
   in-memory guards that are each right under their own lock must be right together.
4. The console (done): `Session` first, since its mistakes hit every page; then
   the pages in the order of what they can lose: the invoice form and its
   document, the inbox, keys, users, second factor, branding, detail, Peppol.
   `SessionProofs`, `InvoiceFormProofs`, `NewInvoiceProofs`, `LicenseProofs` and
   `PageProofs` (done) prove what matters most of them.
5. `PeppolProofs` (done): the messages, for any number of sends, retries,
   deliveries, faults and kills.
6. The server's own tables behind the console's pages: cached `usersExist`,
   bootstrap, role changes against live sessions, the key cache under concurrent
   refreshes, caps and quotas. They come after the console because most are one
   check and one write, and what can go wrong with each is in the hazards
   already; `Users`, `License` and `Security` have as much of their servers as
   their pages can tell.
7. The watch folder, as a writer of `Archive`.

## Modules

**`Ledger`** is the abstract archive: a sequence of rows that grows, and
requests that each take effect in one step: stored, refused as a duplicate of a row
that is there, or failed with nothing stored.

**`Archive`** has the tables (`invoices`, `links`, `column`), SQLite's write
lock and the head read inside the transaction (`lock`, `head`), one record of
progress per process that is opening the file (`proc`, `counted`, `snap`) and
one per goroutine in `IngestWithSource` (`step`, `req`, `out`). One step is one
SQL statement.

| Action | Code |
|---|---|
| `StartOpen`, `CheckColumn`, `AlterTable` | `Open`, `migrate`, `ensureColumn` (one column stands for all that are added this way) |
| `CountLinks`, `CountInvoices`, `LoadRows`, `BackfillChain` | `backfillChain` |
| `Ingest`, `Lookup`, `LookupFails` | `IngestWithSource` up to its first lookup; its error counts as "not found" |
| `InsertRow`, `ReadHead`, `Commit`, `InsertFails` | `insertWithChain` |
| `Recheck`, `RecheckFails` | the second lookup, after a unique violation |
| `Return`, `Close`, `Crash` | the caller, `Close`, a killed process |

`VerifyChain` and `EvidenceOK` are operators on the tables: the code runs them
as reads.

**`Peppol`** has the message table and the archived files by external id
(`messages`, `archived`), one record per goroutine or process with the local
variables of its call (`call`), the AP (`posted`: requests sent, also the lost
and late ones; `taken`: those it accepted; `ownIds`: whether it answers with ids
of its own; `presumed`: history, the messages that were called delivered on an
answer that does not say so) and the number of sends and faults.

| Action | Code |
|---|---|
| `StartSend`, `RecordOut`, `NameOut` | `Send` to its first `SetPeppolAPMessageID` |
| `StartRetry`, `Reset` | `Retry`: reads and checks the row, later sets it back to "sending" |
| `Post`, `Delivered`, `Rejected`, `Unanswered`, `GiveUp` | one attempt of `SendWithRetry` and how it ends; `Take` is the AP |
| `Mark`, `Rename`, `ArchiveSent`, `LinkSent` | the rest of `Send` and `Retry` |
| `StartReceive`, `BadEnvelope`, `LookupMessage`, `IngestReceived`, `InsertMessage`, `Refetch` | `ReceiveSBD` and `RecordInbound`; `Pushed` and `Polled` are its two callers |
| `WriteFails`, `LookupFails`, `InsertFails`, `Crash` | statements that fail (with the error the code ignores or returns) and killed processes |

The AP is external: it honours `X-Idempotency-Key` (a second request under a key
it took is answered like the first and changes nothing), which is what the code
relies on. The two receipt statuses accepted and delivered differ in the label
only and are one status here. So does the code treat every other answer below 400
except "failed": a body that breaks off, that is no JSON, or whose status is
empty or unknown is recorded as delivered (`ap_http.go:164-195`, `engine.go:221`),
whether or not the AP took the message. `Delivered` may happen so, and then
puts the message into `presumed`.

**`Login`** is one account: its row (`user`: secret, flag, recovery codes), the
server's clock, the challenges it issued (`challenges`: when each expires; the
token itself is signed and not stored), the memory of `MFAGate` (`used`, `attempts`)
and of `LoginLimiter` (`fails`: a time and a number for each failure), and one record per request handler (`call`).
A code is told from others by the secret it was computed from or the set of
recovery codes it is in. One step is one SQL statement or one call of the gate or
the limiter, which hold their mutex throughout. `verified`, `logins`, `tried` and
`spent` record what happened, for the properties; nothing reads them.

| Action | Code |
|---|---|
| `StartLogin`, `CheckPassword`, `RecordFail`, `Grant` | `handleLogin`: `Allowed`, `UserByEmail` and `VerifyHash`, `RecordFail`, `Clear` with the challenge or the session |
| `StartMFA`, `IsUsed`, `CountAttempt` | `handleLoginMFA`: `ParseMFA`, `IsUsed`, `CheckAndCountAttempt`; the last two purge |
| `TestCode` | `GetUser` and `Verify` |
| `FindCode`, `SpendCode` | `ConsumeRecoveryCode`: its read and its write |
| `MarkUsed` | `MarkUsed`, then the session |
| `Setup`, `StartConfirm`, `Enable`, `Disable` | `handle2FASetup`, `handle2FAConfirm` (its read, its write), `handle2FADelete` |
| `Tick`, `Restart` | the clock; a restarted server has an empty gate and limiter |

### The console

Each page is a module of its own. A request is a record in a set (in `Session`, a
sequence) with what it was sent with; an answer is an action that takes any of
them, so answers come in any order or never, and a read is answered with the
server's state of some moment between the request and the answer. A change
may be made and its answer lost. What another browser or administrator does
meanwhile is an action too. Variables marked *history* record what the user
was shown or why the page may be behind; no guard reads them.

**`Session`** is one tab: the server's mode and live sessions (`srv`), the bearer
(`store`), AuthProvider's state (`auth`), the route (`path`), the login form and
the token bar (`form`, `bar`), and the requests in flight (`net`).

| Action | Code |
|---|---|
| `PageRequest`, `AnswerPage` | any page's request; `FetchFails` is what `fetchJson` does to the session, `NotifyUnauthorized` the two listeners |
| `RefreshAuth`, `AnswerStatus`, `AnswerMe` | `AuthProvider.refresh`: `/auth/status`, then `/me`; `Outcomes` is what the server's middleware may answer, also a 401 to a session it accepts when the store fails |
| `Logout`, `ShellRedirect`, `LoginRedirect` | `logout`, the effects of `AppShell` and of `LoginPage` |
| `SubmitLogin`, `SubmitMFA`, `AutoSubmit`, `ToggleRecovery`, `WaitOver`, `AnswerLogin` | `LoginPage`; a form that was unmounted (`Orphaned`) still honours a login |
| `SaveToken`, `DismissBar` | `TokenBar` |
| `Expire`, `BecomesUsers` | a session ends on the server; the first user is added |

**`InvoiceForm`** is `NewInvoicePage`'s draft with every input that shows, hides
or changes others, lines and discounts with their clock-made ids (`ClickAt`: two
rows added in one millisecond share one, which `formTwins` remembers), and the digits
of the VAT id. **`Rows`** has `map` and `filter` by id, for rows and attachments. **`Gobl`** has the pure functions of `lib/gobl.ts` on it: which
fields enter the document (`PartySent`, `PaymentSent`, `OrderingSent`,
`PrecedingSent`) and what stands there in the place of an empty one (`Defaults`), the
document's lines and discounts with money rounded to cents (`Money`) and quantities as
typed (`SentQuantity`), the preview's sums, the check digit. What the server's GOBL
library totals (`DocumentNet800`, `DocumentVat800`) and refuses (`Unreadable`) is
external. **`NewInvoice`** is the same page's requests.

| Action | Code |
|---|---|
| `PickDocType`, `PickMethod`, `ToggleKleinunternehmer`, `ToggleReverseCharge`, `TypeText`, `TypeVatDigit`, `EraseVatDigit` | the inputs |
| `AddLine`, `UpdateLine`, `RemoveLine`, `AddDiscount`, `UpdateDiscount`, `RemoveDiscount` | the functions of these names |
| `Prefill` | the effect that reads the default company |
| `PickFiles`, `FilesRead`, `ReadFails`, `RemoveFile` | `onAddAttachments` before and after its await, a reader's error, the remove button; an id is the time a file was read at and its name |
| `Generate`, `Generated`, `NotGenerated`, `Archived`, `NotArchived` | `generate` up to its first await, and after each one |

**`Inbox`**: filters, loads and "load older" (`LoadInbox`, `AnswerList`), drops of
several files that are uploaded one after the other, the first-run panel. An
invoice is its id, so the newest has the greatest; `Page` is what the server's
`ORDER BY id DESC LIMIT .. OFFSET ..` selects. The rows shown are a set and
`count` is their number as the page counts them, by the lengths of its answers.
**`License`**: the three tables, saving and removing the license, companies and
keys, the plaintext of a new key. **`Branding`**: list, selection, draft, logo,
save, preview. **`Users`**: the list and three dialogs on shared fields.
**`Security`**: setup, confirmation, removal, recovery codes, refresh. With no user
after a refresh the page is an ErrorState (`SecShown`) until AppShell sends the
visitor to the login (`SentToLogin`), as does the 401 of another request
(`SecUnauthorized`); back from there the page is empty, which `secLost` remembers.
**`Detail`**: the invoice and the evidence of a URL, the send dialog. Leaving a page
and coming back is modelled for `Security` only; the others are one visit, so the
detail page's sending flag or the license page's plaintext do not get lost that way.
**`PeppolPages`**: the settings and the ledger, each with two answers set
together, the own id, pings, evidence rows. **`Roles`** is what a viewer, editor
or administrator may do. In each the actions bear the name of the callback, or
of its answer, and `map` has the lines.

**`MCArchive`, `MCPeppol`, `MCLogin`** give the constants values for TLC.
**`MCConsole`** joins the pages: its constant `Parts` says which, and one of them
runs while the others rest, since a page that is not on the screen is unmounted
and pages share nothing but the session and the role.

## Runs

| Run | Instance | What it shows |
|---|---|---|
| `archive` | 2 processes, 3 workers, 2 documents, a hint, a new or a 2-row Phase 7 archive, 2 crashes; 130,993 states | `UniqueExternalIds`, `ChainComplete`, `AnswersAreTrue`, `EditsAreDetected`, `AppendOnly`, and that `Archive` implements `Ledger` |
| `archive_live` | the same with the requests for one document and 1 crash; 40,522 states | `Answered`, `OpenSucceeds` |
| `peppol` | 2 workers in 2 processes, 1 send, 2 attempts per call, 1 document that comes as GOBL, 1 inbound message, 1 fault; 2.05 million states | `SentAtMostOnce`, `DeliveryIsReal`, `InboundIsArchived`, `Acknowledged` |
| `peppol_out` | 1 send of a stored invoice and any number of retries, 1 attempt each, no faults; 204,493 states | `CallsEnd`, `Settled` |
| `peppol_in` | 2 inbound messages, pushed and polled, 2 rows for bad envelopes, 3 faults; 103,578 states | `EverythingArrives` |
| `login` | 2 handlers, 1 challenge, 2 attempts (and a third that is refused), 1 failure before the lock, clock 0 to 3, lifetime 2, window 1, 2 secrets, 1 set of 1 recovery code; 699,565 states | `ChallengeUsedOnce`, `AttemptsBounded`, `EnabledWasVerified`, `FailsBounded` |
| `login_recovery_code` | the same without time, 1 secret, 2 challenges | violates `RecoveryCodeUsedOnce` |
| `peppol_stale_retry` | 2 workers of a server, no faults | violates `DeliveryStays` |
| `peppol_retry_4xx` | the same | violates `RetriesTransientOnly` |
| `peppol_poll_sbd` | an AP that answers polls with `sbd_xml_base64` | violates `ReceivedIntact` |
| `console` | every page with the bounds below; 506,499 states | the console's properties, below |
| `session_expiry` | the session part alone | violates `RedirectHolds` |

What `console` shows, page by page:

- session: `NobodyWaitsInVain`: whoever sees the splash screen or a busy login form
  is owed the answer to a request under way; `AnonymousIsSentToLogin`: a page nobody
  is signed in on gives way to the login;
- inbox: `InboxRight`: at rest the rows are those of the filters, without a hole,
  and reach up to the latest invoice an upload was told of, but for the
  overtaken or failed loads it names, and but for more arrivals than the loaded
  pages hold (`Outrun`); `UploadsSettled`: no dropped file is left in
  progress, and each entry tells of its own file, unless drops overlapped;
- invoice form: `LinesWellFormed` (but for two rows of one millisecond),
  `DocumentIsWhatIsShown` (but for the defaults of empty fields), `PreviewAgrees` (but
  for the cases of `Previewable`), `VatIdErrorsCaught`, `ArchivedIsGenerated`,
  `AttachmentsKept` (the limit only while picks do not overlap);
- `BrandingSavedToItsOwner`, `KeyIsSeen`, `EditKeepsRole`, `CodesShown`,
  `DetailIsOfItsUrl`, `SendsWhatIsShown`: what is saved, told or sent is the shown
  company's, key's, user's, secret's, invoice's, with the exceptions under
  "Observed" (a save in doubt, a reset form, a session that ended, a late answer);
- `SettledPagesAreFresh`: with every answer in, the license, users, security and
  Peppol pages show what the server has, unless an older load was answered after a
  newer one, a load failed, or a change was made elsewhere or its answer lost.

Where the code has an exception, the property states it: "unless a load was
overtaken", "unless the form was reset under an open dialog". "Observed" lists
them; each comes from the counterexample of the property without it.

Why the bounds are enough. In the archive two workers of one process compete for
its connection and a third, in another process, for the file; that is every pair
of roles, and a crash can hit either process while the other goes on. A crash and one more
let a backfill die and its repetition too. Two Phase 7 rows make a
chain with a link that is not the first. In `peppol` one message is enough for
every conflict between a send and its retries, because messages share nothing
but the unique index; the inbound message is what conflicts on that index,
and so does the bounced copy of the sent one. Two attempts have a first, a
repeated and a last one.

In `login` one challenge is enough for what two handlers do to it at once, and the
clock passes its expiry, so that the gate forgets it while a handler is between two
calls; two secrets let a setup replace the one that is being confirmed. The
recovery code needs two challenges, since one gives one session.

In the console every conflict is between two requests, or a request and a click, so
two requests of a kind in flight are enough, and the bound on the total leaves
one more to answer afterwards. Two sessions let a login follow one that has
expired; two companies, users or invoices let an answer be another's; five rows
with a page of one let more invoices arrive than the pages hold, so that "load
older" appends a page wholly above the rows shown, and two loads let that or the
reload after a drop overtake the first one. (Both after one another need three: `Inbox`
alone was checked with three, and with pages of two, eight rows and four loads,
and is proved for all.) Two lines and one discount
with two rates (the one a line begins with and the one typed), half a quantity, a
negative price, a percentage and an amount reach the branches of the document and the
preview; a price that is no whole number of cents is one of the excluded cases
and left to the proof. Two milliseconds beside the first line's allow rows
with ids of their own and with a shared one; two names and room for two files allow
both kinds of attachments, and a pick that is cut off. VAT ids are typed with two digits there and proved
for all. The states are the sum over the pages, not the product.

The five violations are recorded under `findings` with the sentence of the code
or its documentation that each one contradicts: a `Retry` that acts on a status
it read before the original `Send` delivered the message; 4xx answers that are
retried; polled envelopes that are archived unopened; a recovery code that
two overlapping logins both find before either takes it out; and a page whose
session is answered 401, after which the login page finds AuthProvider's user still
set and leads back.

Deadlock is checked in the runs of the server's parts. In the two console runs it is
not: with its requests answered and its bound on new ones reached, a page rests.

## Fairness

`Archive`: weak fairness of `StartOpen` (a process that ended is started again),
strong fairness of the steps of `Open` and of `IngestWithSource`. Strong, because
a statement that needs the connection or the write lock is disabled again and
again by other callers: `database/sql` hands the one connection out first
come, first served, and a writer waits for `busy_timeout`. The failing and
crashing actions have no fairness.

`Peppol`: weak fairness of a call's own steps, since each attempt has a 30 s timeout
and the backoffs end; strong fairness of the poller's delivery of each message, since
`StartPeppolPoller` polls for ever with `since` zero, and its goroutine runs one
message at a time while requests keep coming. Nothing is assumed of the AP: it may
never answer.

`Login` has safety properties only and assumes no fairness.

The console: weak fairness of the answers to `/auth/status` and `/me` (an answer
or a network error always comes), weak fairness of `LoginRedirect` and strong
fairness of `ShellRedirect`: React runs an effect after the render that makes its
condition true, and only a refresh that starts in between can put it off.
Nothing is assumed of the user, of the server's sessions or of page requests.

## What is proved

`ArchiveProofs` proves, for any set of processes, workers, documents, hints,
requests, any legacy rows with distinct ids and any number of crashes:
`TypeCorrect`, `ExternalIdsAreUnique`, `AnswersHold`, `ChainIsComplete`,
`NeverRewritten`, `EditsAreFound` and `ImplementsLedger`.

The assumptions are `ConstantsOK` and `LegacyOK` of `Archive` and those on the proof's
constants that TLC evaluates in every run. SHA-256 is injective by construction:
a hash is the sequence of the digests it seals.

None of the properties is inductive. The invariant (`IInv`) adds what the code
relies on without saying so:

- `LockInv`: the worker that holds the lock is past its insert and no one
  else is, so what it read under the lock still holds when it commits;
- `FreshInv`: the id it is about to store is not in the table yet;
- `HeadInv`: the head it read is still the newest link's hash;
- `CallInv`: a worker that is not idle belongs to a process that is through
  `Open`, and has a request;
- `CoverInv`: once some process is through `Open`, every row has a link; before,
  there are none, or all;
- `LoadInv`: what a backfill has loaded is the whole table as long as no link
  exists;
- `ChainInv`: each link is the one made from the rows up to its id.

`ChainIsComplete` and `EditsAreFound` then follow from `ChainInv` with lemmas about
`FirstBroken`. `NeverRewritten` and `ImplementsLedger` take one step per action under
that invariant. The refinement maps the committed rows to the ledger; a call
takes effect at its `Commit`, at the lookup that found the row, or at its failure.

`LoginProofs` proves, for any finite set of handlers, any limits and any bounds:
`Invariant`, `OneSessionPerChallenge`, `ComparisonsAreBounded` and
`EnabledIsVerified`, from the assumption `BoundsOK`. Its invariant adds to the types:

- `UsedInv`: a challenge that gave a session is marked used or expired, so
  `MarkUsed` refuses it either way although the gate forgets it;
- `CountInv`: the codes compared for a challenge and those about to be are no
  more than its counter says, unless it is expired, and never more than the limit;
- `VerifiedInv`: what a handler is about to enable was verified.

- `BoundsInv`: what is remembered stays within the clock and the secrets there
  are, so that the failures kept are a finite set;
- `FailsInv`: the failures kept and those about to be recorded are fewer than the
  limit and one per handler: a handler was let through with fewer than the limit
  there, and each that was let through with it adds one at most. From these follow
  `FailuresAreBounded` and `LoginTypes`.

`PeppolProofs` proves, for any set of workers, documents and messages from others,
any number of sends, attempts and faults, and any process killed at any step:
`PeppolTypes`, `MessagesAreSentOnce`, `DeliveriesAreReal`, `ReceivedIsArchived`,
`DeliveriesAreAcknowledged`, and the action property `NothingIsTakenBack`. It
assumes `BoundsOK`, `IncomingOK` (the senders' ids are not keys of ours) and `StoredOK`. A
row's status proves little, as it is written late and by several calls; what the
code rests on is the envelope, which no statement changes. The invariant says:

- `OutRows`, `UniqueKeys`, `UniqueIds`: the row of a send holds, in its envelope, the
  key `Send` made for it; no two rows have one key, nor one AP id;
- `NewKeys`: a key that is in no row yet is in the hands of one call;
- `SendOK`: a call between its insert and its end works on a row whose envelope has
  its key and document, although a `Retry` read that row long before;
- `Requested`, `TakenOnce`: every request, the lost and late ones too, carries key and
  document of its row, and the AP took none twice;
- `DeliveredOK` and `AccessPointOK`: where a call, a row or an artifact says
  delivered, the AP has the message or was presumed to;
- `ReceiveOK`: a call that is about to record a received message has archived its
  invoice, and one that answers names a row that is there.

`SentAtMostOnce` follows because two messages the AP took for one row have its one key. Each
call's part is kept by the steps of the others because of `Kept`: rows stay with
direction and envelope, received rows as they are, files and taken messages for good.

The console's theorems hold for any numbers of lines, files, requests, sessions
and keys, whatever the bounds:

- `SessionProofs`, `WaitingEnds`: `NobodyWaitsInVain` is inductive with the types.
  The answer that takes a refresh or a submitted form from the requests in flight
  also clears its flag or sends the next request (`AnsweredIsGone`), every other
  answer leaves it there (`OthersStay`, on `RemoveAt`), and a form that is unmounted
  leaves a new one that is not busy (`FormStays`).
- `InvoiceFormProofs`: `OneWrongDigitIsReported`, `HiddenFieldsAreNotSent`,
  `RowsHaveTheirIds`, `PreviewIsTheDocument` and `FormTypes`, from `FormInv`: the
  form's types, and `Numbered`, that no row's id is later than the clock and, unless
  two were added in one millisecond, no two are the same. The first rests on lemmas that one step of the check-digit recurrence is injective in
  the digit and in the product, so that two ids that differ in one place end in
  different products; the third on what `filter`, `map` and the appended row do to a
  numbered list (`WithoutIs`). The fourth (the preview's net and VAT are the document's) compares
  the two row by row, with the sign of a credit note and the rate, and then needs that
  the sum of rows that are scaled is the sum scaled (`TotalScales`), for lists of any
  length. That is an induction, for which `AllNumbers` stands in: a set that has 0 and
  with each number the next has them all, or else the numbers up to some `n` it
  lacks, each less one, would be lacking too and one fewer, against the
  pigeonhole theorem of the library.
- `LicenseProofs`, `PlaintextIsShown`: `OwedInv` says that a plaintext the page still
  owes is the one it holds, and that no second create is under way unless two
  were asked for. `LicensePageIsFresh` is the page's part of `PagesAreFresh`.
- `NewInvoiceProofs`: `ArchivedWhatIsShown`, from `RunInv` (at most one call is
  under way, the page is busy with it, and once it ingests its document is the
  result on the page); `AttachmentsAreKept`, from `FilesInv` (a
  file that was read is there, or one of its id was removed), `PicksInv` (no
  file is there twice, nor comes with a pick still being read) and `RoomInv`
  (room for the pick being read, as long as picks do not overlap), with `WithoutIs`
  for the removal by id.
- `PageProofs`: `CodesStayShown`, from `SecKept` (the codes the user was told are in
  the page's state also while an ErrorState hides it, unless AppShell took the page
  away), and `SecurityPageIsFresh`, from `SecKnown` (what
  an unanswered request found on the server still holds, or the request is marked as
  out of date); `PageIsOfItsUrl`, from `UrlInv`, which keeps the evidence right under
  an error message too, since a retry takes the message away; `SendIsOfThePage`, from
  `SendInv` (the dialog is busy while a send is under way, sends are one, and as
  long as nothing moved under the open dialog its invoice is there and valid).
  `PagesAreFresh` composes the invariants of four pages, of which one runs at a time: a
  load that is not marked out of date has what the server has, and the page has it
  or awaits it. `ChosenRoleIsStored` (an action property), from `RolesChosen`: the
  form and every request under way carry the role chosen with them.
  `UploadsAreSettled`, from `UpInv`: an entry that is not settled is one that its
  batch still comes to. `BrandingIsItsOwners`, from `BrOwned`: draft, requests and
  stored branding are each of the company they stand under, unless a load for it is
  awaited, failed or was overtaken (`DraftOwned`), or the page saved in that doubt.
- `PageProofs`, `InboxIsRight`, from `InInv`. Its core is `Loaded`: the rows are the
  pages up to the offset, and perhaps newer ones, and whatever is older than all of
  them has at least `count` selected invoices before it. So a page asked for at the next
  offset begins at the rows shown or above them (`Below`), and unless it was outrun
  does not lie wholly above, and can be appended without a hole. `AppendFits` keeps that
  for the page under way, `NewestKnows` and `Reaches` keep count of the upload that the
  rows, a load, or the reload after a drop must reach. Of counting, the proof needs
  only that ranks grow with the archive and with age.
- `PageProofs`, the console as a whole. `ConsoleIsItsPages`: the pages share
  the session and the role and nothing else, so a behaviour of `ConsoleSpec`
  implements `SessionSpec`, `FormSpec`, `NewInvoiceSpec`, `LicenseSpec`,
  `SecuritySpec` and `DetailSpec`; every step of the console is a step or a
  stutter of each. With it `PagesInTheConsole` and `SessionInTheConsole` carry what
  is proved of a page alone over to the specification the runs explore.
  `ConsoleTypes` proves `ConsoleTypeOK` of all pages and every bound in it, from
  `ConsoleInv`: the types, the invariants above that they rest on, and what they
  lack to be inductive (no page shows more invoices than the archive has, a request
  under way is for an invoice or a secret there is, users on the server
  and on the page are well formed, and a page change that orphans requests
  keeps their number).

What the proofs found. Each invariant was checked by TLC first. That of `Inbox` was
refuted once the bounds let enough invoices arrive: `InboxRight` had held in an
instance too small for it. The exception is now stated (`Outrun`), the bounds are
larger, and the case is under "Observed". Proofs also showed three `CASE` expressions
whose arms overlapped, which leaves the choice open; they follow the order of the
code's conditions now. `Recent`, the rows of `Inbox` and `Without` are written as
sets and functions instead of recursions of the library, to be reasoned about; the sums
of `Gobl` are a recursive function (`Total`) instead of a fold. The types of the
initial states showed two bounds that were assumed without being said:
`OldRows <= MaxRows` in `Inbox` and `DetMaxSends` above 1 in `Detail`.

Only model-checked: liveness (`Answered`, `OpenSucceeds`, `CallsEnd`, `Settled`,
`EverythingArrives`, `AnonymousIsSentToLogin`), which is outside the prover's
reach. Every invariant and every safety action property of the passing runs has
a theorem.

## Observed

Differences between what a reader of the console would expect and what it does.
The model has them as they are; where a property would fail, it names them.

- Branding: while a selected company's branding is being read, or after that failed,
  the editor still has the draft of the one before, and save stores it under
  the new selection (`BrandingPage.tsx:95`, `:149`); a logo that is still
  being read lands in the draft that is there by then (`:118-123`); preview
  stores the draft too (`:178`); create-company is not disabled while busy (`:268`).
- Users: an edit always sends the role of the list, so a reset of the password alone
  takes back a role change made elsewhere (`UsersPage.tsx:102`); the late answer
  to an add resets an edit form that was opened meanwhile (`:82`).
- Session: a 401 "unauthorized" ends whatever session is stored by then
  (`api.ts:382-385`): that of a request of an earlier session ends a newer, live
  one, and so does one that the server gives since its store failed
  (`api.go:632`, `auth.go:214`, `auth.go:444-447`).
- Peppol: an answer below 400 that is unreadable or has no known status is recorded as
  delivered (`ap_http.go:164-195`).
- Security: the recovery codes are lost if the answer to the confirmation is, if
  the page is left, also while the confirmation is under way
  (`SecurityPage.tsx:60-62`), and if the refresh after it finds no user: the page
  is an ErrorState (`:100-102`) and AppShell leads to the login
  (`AppShell.tsx:45-50`); starting a setup on a stale page
  turns an active second factor off (`:41`).
- Detail: the answer for an earlier URL shows, and lets send, that invoice under the
  new URL (`InvoiceDetailPage.tsx:88`); the dialog keeps a result
  when the invoice changes (`:241`).
- Peppol: a failed evidence stays failed when it comes after all
  (`PeppolLedgerPage.tsx:34`); a load overwrites an id that was typed
  (`PeppolSettingsPage.tsx:36`).
- Inbox: lists may be answered out of order (`InboxPage.tsx:74`); "load older" counts
  its offset from the newest invoice (`:463`), so if more have come since than
  the loaded pages hold, the page it appends lies above the rows shown, which then
  have a hole; if fewer have come, it repeats rows; the reload
  after an upload uses the filters of the drop's render (`:220`); the first-run
  panel looks at the filtered total, though the comment at `:103` says archive.
- New invoice: overlapping picks exceed the limit of attachments
  (`NewInvoicePage.tsx:295`); two same-named files that are read in one millisecond
  share an id and are removed together (`:333`, `:581`); one file that cannot be read
  drops its whole pick without a word (`:340`); two lines added in one millisecond
  share an id, are edited and removed together, and removing them may leave no line
  (`:273`, `:286`); the prefill overwrites a name that was typed.
- Document and preview: an empty quantity is 1 in one and 0 in the other; one with
  a comma counts in the preview and is sent as it is, for the library to refuse
  (`gobl.ts:376`, `:547`); a fraction of a cent is rounded in the document only
  (`:520-525`); an
  amount of "5%" is 0 in the document; discounts of credit notes and of negative
  sums have different signs; a discount over mixed rates is booked under one;
  half a period is dropped; the document of a credit transfer has a default
  account where the IBAN was cleared (`gobl.ts:318`), and "NA" where there is no
  reference (`:385`).

## Abstractions and what is left out

- One column stands for all that `ensureColumn` adds: each goes through the same
  check and `ALTER`.
- A document is a value with an external id and a verdict; parsing and
  validation are functions of the bytes, and have no state.
- A busy database makes a statement wait or fail; both are possible at any time.
- The reads (`List`, `Search`, `Export`, `Get`) change nothing and have no action.
- `Send` numbers its keys; the code uses the clock in nanoseconds.
- An AP that is configured wrongly and replaced by the fake one in the command line
  (`cmd_peppol.go:46-55`) is not modelled, nor is the fake's own queue.
- A message's participants, labels and times are left out of its row.
- In `Login` the account exists throughout and its password does not change; a code
  is right or wrong for a secret whatever the time (`Verify` accepts the codes
  of three periods), so a code may be typed again, as in the code.
- The gate lives in memory: after a restart a challenge that was used may be used
  again until it expires. `ChallengeUsedOnce` and `AttemptsBounded` are about one run of
  the server; `Restart` starts their counts anew.
- The value of `Retry-After` and the QR code are not modelled.
- Console: a text is empty or filled in, or one of a few values where its number
  matters; money counts in cents, percentages of a cent are not rounded, and half a
  cent is rounded up, where the code's `toFixed` follows the binary number; a
  company, user, key or invoice is its number; downloads, rendering,
  translations, theme and the app's chrome have no state that any property is
  about. One tab; the debounce of a filter is taken as over.
- Not modelled: the server's tables of users, keys, companies, participants and
  licenses, its quotas and rate limits, and the watch folder (see the plan; their
  hazards are in `PROJECT.json`). Parser, validator and generator are pure functions of a
  document, and the SDKs pass calls on.

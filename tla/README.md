# Verification of the VentureMarket back end

TLA+ specifications, model-checking runs and machine-checked proofs about the
NestJS/Prisma back end in `src/`: a marketplace on which sellers publish
businesses, buyers negotiate offers, and an accepted offer opens a deal room
with its due diligence, agreements, documents and payment.

The server keeps no state of its own between requests. Everything lives in
PostgreSQL (and in BullMQ's queues), and a request handler is a sequence of
awaited statements; the server runs any number of handlers at once, and they
interleave at every `await`. Only a single statement or a `$transaction` is
atomic. Most services read a row, check it, and later write it **by id alone**, so
what a handler checked may be stale when it writes; and what follows the write
(timeline, audit row, notification, queue job) is lost when the handler dies.
Those two are the hazards this project is about.

## 1. Inventory

| Component (under `src/src/`) | State | Operations | What makes it correct |
|---|---|---|---|
| `businesses` | `businesses`, `business_listings`, metrics | create, update, updateListing, softDelete, addMetric, publish, unpublish | status and listing agree; only a draft goes on the market; every publication is matched against saved searches |
| `admin` | `AdminAction`, business status | approve, reject, suspend | no silent action; suspended means off the market |
| `offers` | `negotiations`, `offers`, `deals` | create, counter, reject, withdraw, accept | one winner per sale; closed offers stay closed; an accepted offer has its deal |
| `deals` | status, participants, tasks, timeline, notifications | updateStatus, addParticipant, createTask, updateTaskStatus | status follows the declared machine; finished deals stay finished; the timeline tells it all |
| `due-diligence` | requests, items | createRequest, updateItemStatus | the room hears of every request |
| `agreements` | versions, signatures, status | create, addVersion, sign | versions are numbered without gaps or clashes; SIGNED only when two signed one version |
| `transactions`, `webhooks` | payment status and log, processed event ids | create, provider event | each event applied once; row and log agree |
| `documents`, `storage` | documents, grants, access log, objects | upload, download, grant, revoke, remove | a row has its object; every download has a reason; everything is logged |
| `auth` | users, one-time tokens, refresh tokens | register, Google, login, verifyEmail, forgot/resetPassword, refresh, logout | one account per e-mail; a token is spent once; a reset ends all sessions |
| `saved-searches`, `jobs/processors/saved-search` | saved searches, notifications | create, update, remove, match | nobody missed, nobody told without bound |
| `ai`, `billing`, `jobs/processors/ai` | `ai_jobs`, `ai_analyses`, subscription | requestAnalysis, subscribe, process | daily limit; every analysis is answered |
| `jobs` | BullMQ queues (5 attempts), three of them with a processor | add, take, retry | at least once, boundedly often |
| `organizations`, `verification` | members; verification status | small updates | an owner remains; a review follows a submission |
| `conversations`, `watchlists`, `reports`, `users`, `categories` | rows of their own | inserts and single updates | membership checks |
| `listings` | none | search, cursor pages | pages partition the result |
| `common` | none | state machine, money, cursors, guards, audit | pure functions |

Interactions. `offers.accept` writes the business and listing rows that
`businesses` and `admin` write too: shared state with three writers.
`businesses.publish` feeds the saved-search queue. Deals are created by `accept`
and are the scope of agreements, due diligence, deal documents and payments, all
of which read the room's participants and write its timeline. Webhooks call
`transactions`. Queue workers run in the same or another process and read rows
that may have changed since the job was queued.

`PROJECT.json` lists each hazard at its line, and the properties it is checked by. Where
the code does not prevent the harm, a note says which part of it no property rules out.

## 2. Modules

Three groups, each with its composition at the bottom.

| Module | Models |
|---|---|
| `StateMachine` | `canTransition` |
| **Marketplace** | |
| `Businesses` | lifecycle of business and listing, suspension |
| `Offers` | offers, negotiations, deals; EXTENDS `Businesses`, whose handlers run next to its own |
| `Sale` | abstract specification: a business is put up, taken down, won |
| `AcceptLocking` | the transactions of accept and counter, statement by statement with PostgreSQL row locks; implements `Sale` as `Offers` does |
| `BusinessesProofs`, `MarketProofs`, `AcceptLockingProofs` | proofs |
| **Handlers and deal room** | |
| `Handlers` | slots, steps and scenarios, shared by all modules below |
| `Deals` | status, participants, tasks, timeline, notifications of one room |
| `DueDiligence`, `Agreements`, `Payments`, `Documents` | the other services of the room, each EXTENDS `Deals` |
| `DealRoom` | their composition over one set of slots, one timeline, one set of participants |
| `HandlersProofs` | what a handler's step does to the slots, for proofs about any service |
| `DealRoomProofs` | proofs; EXTENDS `HandlersProofs` |
| **Accounts** | |
| `Accounts` | users and one-time tokens |
| `Sessions` | refresh tokens; EXTENDS and composes with `Accounts` |
| `SessionsProofs` | proofs; EXTENDS `HandlersProofs` |
| **Background work** | |
| `Jobs` | a BullMQ queue: attempts, stalls, workers in slots like any handler |
| `Alerts`, `AiJobs` | the two processors that change the database, with the calls that feed them |
| `Background` | their composition over one queue |
| `BackgroundProofs` | proofs; EXTENDS `HandlersProofs` |

`MC*` modules hold only constants of instances.

Left of the plan: `Organizations` and `Verification`, whose small guards no other
service reads.

## 3. How the modules correspond to the code

**Slots and steps.** `Request` (and `OfferRequest`) is a set of slots. A free slot
is `Idle`; a handler in flight remembers the step it takes next (`at`) and the
values it has read so far. `Begin…` is the read and the checks a handler opens
with; the write it leads to is a separate action that looks at nothing but what
the handler remembers, unless the SQL has a `WHERE` with a status or a unique
constraint. Checks that nothing can falsify later (nobody leaves a deal room, no
agreement is deleted) are one step with the read before them. A `$transaction`
is one action, except in `AcceptLocking`. A call that is refused before any
write leaves no trace and has no action, except the two a property speaks of
(`RefusePublish`, `RefuseAccept`).

**Failure.** Where an instance allows it (`MayFail`, `scenario.fails`), any await
may reject and the process may die between any two steps: the rest of the
handler never runs. Nothing in the code resumes it. Jobs are the exception: a
rejecting processor is retried until its attempts are used up, and a job whose
worker dies is stalled and given to another (`Jobs!Stall`). A worker that only loses
its lock, because it is slow, and goes on beside the next one is not modelled.

**Scenarios.** From `Handlers` on, a *scenario* is the part of the service an
execution uses: which endpoints its clients call, whether awaits fail, which
history it records, and its bounds. It is a variable chosen at the start, so one run
covers several scenarios.

**Marketplace.** `biz[b]` holds both rows of a business: `status`, `listing`,
`deleted`, and which required fields are `filled` (the four texts, `details`,
travel together). `journal` records the watched follow-up writes, `publications`
counts how often a business went on the market; both are history. The statuses
`PENDING_REVIEW`, `REJECTED` and `ARCHIVED` are declared and never written, so
`approveBusiness` and `rejectBusiness` (whose update demands `PENDING_REVIEW`)
never change a row. In `Offers`, `create` has four awaits, the answers have a
`Begin…` and their writes; `deal` is the set of accepted offers with a deal row.
Amounts, terms and revisions carry no guard and are left out.

**`OwnerViewHidesPrice`.** `publish` checks completeness on the row `findOwned`
returns, and that row has been serialized: `askingPriceMinor` is blanked
(`businesses.service.ts:136`), so the check at line 291 always finds the price
missing. `TRUE` is the source as it stands: publish refuses everything, and the
only businesses ever on the market are those `prisma/seed.ts` inserts (`Seeded`).
`FALSE` is the serializer repaired, which is what the e2e test expects; the runs
that check the rest of the lifecycle use it, because otherwise publish and
everything behind it would never happen. The theorems hold for both values; the
one that needs `TRUE` says so.

**`AcceptLocking`.** An `UPDATE … WHERE` chooses its rows in the committed snapshot
it starts with, takes them in some order (every order is explored), waits for a
row another transaction has written, and then looks at its `WHERE` again, as READ
COMMITTED does. A count of zero where the code looks at the count rolls back.
Business and listing rows are written by the same statements' transactions and are
one row here. `reject`, `withdraw`, publish and the like are single writes that
wait for the row.

**Deal room.** One deal, and what other deals do to its rows: `scenario.elsewhere` are
the users who take part in another deal. `sign` is four awaits after its checks
(upsert, two counts, status). It ties the user and the agreement to the deal of the
URL, and the version to neither. So `BeginSign` takes any version that exists, of this
room (`VersionId`) or of another deal (`OtherVersion`), and `SignElsewhere` is the
call through the other deal: it adds the signature to a version of this room, which
`CountSignatures` counts like every other, while the status it writes and the event it
records are the other deal's. `upload` likewise asks only for a participant of the deal
it is given, whichever business that deal is about: a document of the business is
`here`, `elsewhere` or `outside` of deals. Everything else a room's handlers
touch is found by the deal's id, so one deal stands for all. `LAWYER` stands for
the four roles that do not manage; two item statuses stand for seven that no guard
tells apart. The payment provider is outside the source. Nothing in the source
stores a `providerRef` yet, so `Wire` is an external step; without it no event
would ever be routed. The provider sends its events in order and delivers each
at least once, again until it is answered, overlapping as it likes.

**Accounts.** A Google identity stands for its e-mail. `SignIn` is the token pair
that login, Google and the e-mail path end with. `expired` is a flag that time may
set at any moment. Hashing and JWTs are left out, but the await of the hash is
why lookups and inserts are separate steps.

**Background.** The queue job of an analysis has the id of its row. Publication of
the business is one bit in `Alerts`. The e-mail job a processor adds is an await
that may reject; `EmailProcessor` changes no row.

**Slips.** A definition whose comment starts with *Slip* is never used by a
specification: it is the definition next to it with a plausible mistake in it,
kept to demonstrate that the properties notice.

## 4. Runs

| Run | Instance | Checks |
|---|---|---|
| `lifecycle` | 3 handlers, every endpoint, one business, any may die | `TypeOK`, `ListingAgreement`, `PublicationsBounded`, `RetiredStays` |
| `market` | source as it stands, one seeded business, 2 buyers, 2 offer handlers, 3 offers, 2 negotiations | `OfferTypeOK`, `AtMostOneDeal`, `AcceptedOfferHasDeal`, `RowsLinked`, `ClosedOffersStay` |
| `resale` | price visible, failures, 2 business handlers, 1 offer handler, 2 offers, 2 negotiations | `DealsWithinPublications`, `ImplementsSale`, `SettledStays` |
| `announced` | fair, no failures, the seller an administrator, 2 offer handlers, 2 offers | `SuspensionRecorded`, `AlertsQueued`, `DealAnnounced` |
| `accept_locking` | 2 transactions, 3 offers in 2 negotiations, 2 sales | `AcceptsImplementSale`, `TransactionsEnd` |
| `deal_room` | ten scenarios, 2 handlers, 3 people, one of them an administrator | `RoomTypeOK`, `ReachedAlongMachine`, `FinalStays`, `UnmanagedStays`, `RoomTold`, `SignedMeansTwo`, `VersionsNumbered`, `AppliedOnce`, `LogExplains`, `PaymentsReachedStage`, `DocumentsKept` |
| `deal_room_live` | three of them, fair, no failures | `RoomHeard`, `EventsApplied` |
| `accounts` | four scenarios, 2 handlers, 2 e-mails, 2 users, 2 one-time tokens, 3 sessions | `SessionTypeOK`, `ActiveWasVerified`, `SpentStays`, `DeadFamilyStays`, `SignedOutEverywhere`, `RegisteredAreMailed` |
| `background` | four scenarios, 2 slots, 2 searches, 2 attempts, 1 stall, limits 1 and 2 | `BackgroundTypeOK`, `AlertsDelivered`, `WithinDailyLimit`, `AnalysisAnswered` |
| `publish_refused` | 1 handler, source as it stands | `CompleteDraftsPublish` **violated** |
| `countered_after_close` | 1 buyer, 2 offer handlers, 2 offers | `TerminalOffersStay` **violated** |
| `payment_event_lost` | 2 handlers that may fail, one payment | `AnsweredMeansApplied` **violated** |

*Why these bounds are enough to meet the interesting cases.* Handlers on
different businesses, deals or users share no row but the signatures, which other
deals add to as well (`SignElsewhere`), so one of each suffices. Two
handlers give every pairwise race of a stale write with a fresh one; the
lifecycle uses three, so that a suspension can land between the read and the write
of an overlapping publish and unpublish. Three offers hold an offer, its
counter-offer and a competing one; two negotiations hold two buyers, or one buyer
whose first negotiation was closed. In `AcceptLocking` two sibling accepts
deadlock, and two sales let a second winner come after a first. Three refresh
tokens are a session, its successor and a competing one; three version rows are a
clash and the number after it. Two attempts are a retry and a last failure.
Four analyses in a limit of one or two are more than may be asked for, over one
midnight. One version of this room and one of another deal are two to confuse, and
one user of another deal is a stranger among the signers. In deal rooms each scenario uses the services that touch the same
rows; the services of different scenarios meet only in the timeline and the
participants, which every scenario has. The theorems of section 5 lift
every safety property of the passing runs to any number of handlers, people and rows.

Handlers, buyers, rows of one kind and slots are interchangeable and declared
as symmetry sets, except in runs with liveness properties. Deadlock is checked
in `lifecycle` and `publish_refused`; the other instances really stop once their
bounded rows are used up.

*Fairness.* Node's event loop resumes every handler whose await has settled, so
each slot's next step is weakly fair (`Fairness`, `MarketFairness`,
`FairRoomSpec`, `FairSessionSpec`). Nothing obliges a client to call, so no
`Arrive` is fair, with one exception: the payment provider redelivers an event
until it is answered, and finds a free slot again and again (strong fairness of
`Redeliver`). In `AcceptLocking` PostgreSQL queues the waiters of a row in the
order they came, so a transaction that can go on again and again does (strong
fairness of `TxStep`), and its deadlock detector strikes (weak fairness of
`BreakDeadlock`; `TransactionsEnd` fails without it). The other liveness
properties assume that no await rejects: nothing in the code retries a follow-up.

### What the runs found

- `publish` cannot succeed at this commit (above), against
  `test/deal-flow.e2e-spec.ts:106-118`.
- A counter in flight overwrites a status that has become final, against
  `SECURITY.md:50-51`. This is why `ClosedOffersStay` and `AcceptedOfferHasDeal`
  speak of counters still on their way, and `TerminalOffersStay` fails.
- A payment event is recorded before it is applied, and any error of recording
  counts as a duplicate, so an event can be answered and never applied, against
  the comment at `webhooks.service.ts:52`.

### What the properties step around

Facts about this code that shaped the properties. Each is reachable in a model.

Marketplace:
- Suspension obeys no state machine (from PAUSED or SOLD, say), and its records are
  lost if the process stops after the first statement; `SuspensionRecorded` is
  stated for executions without failures.
- With the serializer repaired, two overlapping publishes of one draft can both
  pass: if the business is sold between their commits, the second puts it back
  on the market and it can be won again. `DealsWithinPublications` is what remains.
- A stale unpublish turns SOLD or SUSPENDED into PAUSED; a stale reject or
  withdraw marks an accepted negotiation REJECTED or WITHDRAWN; two overlapping
  creates give one buyer two OPEN negotiations.
- The loser of two deadlocked accepts gets a database error instead of
  `OFFER_ALREADY_ACCEPTED`. A counter that commits between two statements of an
  accept leaves its child open on a sold business.

Deal room:
- Two overlapping updates can take a deal along a transition the machine does not
  have: `ReachedAlongMachine` speaks of the statuses visited, not of the steps.
- addParticipant can demote the last manager, after which the room stands still
  (`UnmanagedStays`).
- A slower `sign` can write PARTIALLY_SIGNED over SIGNED, addVersion can write
  PENDING_SIGNATURE over it, and `sign` accepts the version of another agreement, also
  of another deal, and counts whoever signed. If somebody who takes part in another
  deal signs a version of this one, the next `sign` of the buyer writes SIGNED without the
  seller. So `SignedMeansTwo` demands one version signed by the buyer or the seller and
  by somebody else, the other of them or a user in another deal (where nobody is in
  another deal: both), and only of rooms into which nobody was let after accept
  (`JustTheTwo`): `sign` counts signatures against the parties of the moment, and
  `addParticipant` changes who is one, and back again. Nothing in the repository says
  who may sign, so this is a limit of the property and not a finding.
- A signature given through another deal is on that deal's timeline and not on this
  one's; `SignaturesTold` speaks of users who take part in no other deal.
- A payment may be created after the deal has left TRANSACTION; two events of one
  status are both applied and logged; a late `succeeded` overwrites REFUNDED.
- Renewing a grant without an expiry keeps the old one, expired or not. Listing and
  viewing documents is not logged; `DocumentsLogged` speaks of the rest.

Accounts and background:
- Two refreshes of one token that overlap both succeed and leave two live members
  of the family; `DeadFamilyStays` and `SignedOutEverywhere` speak of refreshes on
  their way. A verification token whose insert fails is never sent again.
- Requests of one user that overlap exceed the daily limit by as many as overlap
  (`WithinDailyLimit` is exact: with two slots the limit is exceeded by one).
- An error after an analysis was committed marks its row FAILED, and a user may be
  told both "ready" and "unavailable". Errors of the provider are caught, so
  they cost no attempt and are not retried.
- A retried alert job notifies again those it had reached (`AlertsBounded`).

## 5. Proofs

Every safety property of the passing runs, invariant, action property and refinement,
is a theorem that TLAPS checks for arbitrary constants: any people, rows and slots, any
`Calls`, `Watched`, `MayFail` and scenarios, any bounds. They rest on the
named assumptions of the modules; a hypothesis beyond those stands in the theorem itself
(`OwnerViewHidesPrice` in `OneDealPerBusiness`, `RecordsKept` in the two about suspension).
The assumptions say what constants are: administrators are accounts,
every business has an owner, seeds are businesses, bounds are naturals, switches are
Boolean. Five deserve a word.
- `RequestAssumption`, `SlotsAssumption`: finitely many handlers run at a time. The
  properties that count overlapping handlers need it.
- `QueuesAssumption`: alert jobs and AI jobs are different jobs, as the two queues
  number theirs separately.
- `VersionsAssumption`: a scenario has the rows for as many versions as it may add. A
  table never runs out of ids.
- `FirstOfferAssumption`: different negotiations were opened by different offers.
- `SaysAssumption`: the provider sends a sequence of events it has names for.

`BusinessesProofs`
- `TypeCorrect`: one lemma per way a slot may change (`BeginType`, `ContinueType`).
- `ListingsAgree`: `ListingAgreement` is inductive together with `TypeOK`, because
  every handler but suspend writes both rows at once and suspend leaves SUSPENDED
  in one of them.
- `RetirementIsFinal`: the only way onto the market is a publish in flight, and a
  publish takes off only from DRAFT (`OnlyBeginPublish`).
- `SuspensionsAreRecorded`: for executions in which no await fails and both records are
  watched (`RecordsKept`, as in the run `announced`: otherwise a suspension may stop in
  between, or its records are not in `journal` to look at). `SuspensionRecorded` is then
  inductive with `TypeOK`: only the first statement of suspend makes a business SUSPENDED
  (`SuspendedBySuspension`), and the handler goes on until both rows are written
  (`SuspendingGoesOn`), whoever overwrites the status meanwhile.
- `MarketedBoundedly`: strengthened to `PublicationsInv`. While a business is a
  draft or absent it has never been published; once it is not, no publish takes
  off any more, so publications plus publishes in flight never grow beyond
  the number of slots.

`Sale`: `OneWinner`, by counting winners against sales.

`MarketProofs`
- `MarketTypeCorrect`, `RowsStayLinked`: the inductive invariant is `RowsInv`, types and
  links together, since a handler's next write is well typed only if the row it
  remembers exists and is linked. Each action has a lemma; `RowsKept` (rows never
  vanish, and only their status changes) carries links across steps.
- `MarketImplementsSale`: every step of the marketplace is a `PutUp`, `TakeDown`,
  `Win` or stutter of `Sale` under `SaleView` (`BusinessSaleStep`, `AcceptEffect`).
- `DealsAreWithinPublications`: that and `OneWinner`.
- `OneDealPerBusiness`: assumes `OwnerViewHidesPrice`. Then no publish ever takes
  off (`NoPublish`), a business is on the market at most once, and wins at most once.
- `AcceptedOffersHaveDeals`, `AnswersAreFinal`, `SettlementIsFinal`: from
  `OfferEffects` (all a step may do to an offer), `CounterFromOpen` and
  `ShoppingFromPublished` (what a handler newly in flight must have read), and
  `NewOffer` (where a new offer comes from).
- `MarketSuspensionsAreRecorded`: no action of the offers suspends a business
  (`OffersSuspendNothing`) or takes a record away.

`AcceptLockingProofs`
- `LockedAcceptsImplementSale`: each step of the interleaved transactions is a `PutUp`,
  `TakeDown`, `Win` or stutter of `Sale` (`LockStep`). The inductive invariant
  `LockInv` is about the business row: one open transaction at most has written it
  (`OneHolds`); that row is still PUBLISHED for everybody else; an accept that has got
  past its second statement holds it, and no other transaction does. Locks on offers and
  negotiations are not needed for it, and neither is the order in which rows are taken.
- `LockedSalesHaveOneWinner`: that and `OneWinner`.

`DealRoomProofs`, about the composition `RoomSpec`, for any people, rows, scenarios and
any sequence of provider events. `Moves` says what a step may do to the slots; one
lemma per service names the steps its handlers go through (`DealMoves`, …,
`DocumentMoves`), so that `DealCases` and `PaymentCases` reduce every theorem
to the actions of one service.
- `StatusesLieAlongMachine`, `FinalDealsStay`, `UnmanagedRoomsStay`: `DealInv` says that
  the visited statuses are closed under predecessors in the machine and that every
  update about to write was allowed from one of them. It is inductive because
  `visited` only grows; `ReachedAlongMachine` alone is not, as it forgets the
  updates in flight. `UpdateEffects` lists all a step does to the status.
- `EventsApplyOnce`: `OnceInv`. An event between its recording and its application
  is recorded, not yet applied, and in the hands of one handler only, because the
  unique insert lets one handler through.
- `LogsExplain`: `LogInv`. Events are applied only to a row that exists, since only
  a row with a `providerRef` is routed to, so the first entry is the insert's.
- `PaymentsStartAtTheirStage`: `StageInv`, which the handlers between the read of the
  stage and the insert carry.
- `RoomTypesHold`, `VersionsAreNumbered`: `RoomRows`. What the handlers remember must exist
  for the next write to be typed, and the numbers must be known to be 1 .. n for it to be
  a number: so types and `Numbering` are one invariant. A number that an insert in flight
  has computed is at most one above those that exist, which only grow, and the unique
  constraint keeps it from being taken twice.
- `SigningTakesTwo`: `SigningInv`. Who counts is the buyer or the seller and has signed (the
  upsert comes first), so whoever counts two signatures has seen that of somebody else,
  the other of them or a user in another deal, since nobody else gets to sign
  (`AnotherOne`); signatures are never taken back, not even by `SignElsewhere`.
- `DocumentsAreKept`: `DocumentInv`. An upload about to insert its row has stored the object, for
  itself alone (`StoreInv`); every download that is logged or about to be has a reason, and
  rows, roles and grants, even revoked ones, stay (`ReasonInv`, with `GrantInv`).
- `TheRoomIsTold`: `TellingInv`, for executions without failures. Whatever was once told or about
  to be told stays so (`ToldStays`), and each write is told by the handler that made it
  (`DealTells`, `DiligenceTells`, `SigningTells`, `LogTells`), so that overwriting a status
  takes no event away. A signature from another deal is of a user the statement excludes.
  The services share one timeline, and `Apart` keeps a handler of
  one from counting for another.

`SessionsProofs`, about `SessionSpec`. The inductive invariant `SessionInv` says that tokens and
sessions have their users, that a session's family row exists and belongs to the same
user, that an e-mail has one user, and what each handler remembers of the rows it has
read (`HandlerLinked`). `RowsKept` says what no step takes back: owners, families, used
tokens, revocations.
- `SessionTypesHold`: the unique e-mail settles which of two overlapping registrations, or of a
  registration and a Google sign-in, gets the account.
- `ActiveUsersWereVerified`: only verifyEmail and Google make a user ACTIVE, and the token that
  verifyEmail has marked stays marked.
- `SpentTokensStaySpent`: a handler newly about to use a token found it unused (`HoldersChecked`).
- `DeadFamiliesStayDead`: a session joins a family only by a refresh that found a
  living member of it (`NewSessionsSucceed`).
- `EverySessionIsRevoked`: a reset revokes all sessions of its user in the transaction
  that sets the password (`ResetRevokes`).

`BackgroundProofs`, about `BackgroundSpec`. `BackgroundInv` has four parts; each side of the composition
keeps its own and leaves the other's alone (`Untouched`, `JobsKept`).
- `BackgroundTypesHold`: `QueueInv`. A job is with one worker at most, because `Stall` frees the
  slot of the worker and the job in one step.
- `AlertsAreDelivered`: `AlertInv`. A worker has told every due search it is past, and no
  search more than once in its run, on top of once in each run before (`InRun`).
- `LimitIsKept`: `LimitInv`. Analyses of today plus inserts in flight stay below limit plus
  slots, since each handler between count and insert has counted fewer than the limit;
  subscribing only raises it, midnight only lowers the count.
- `AnalysesAreAnswered`: `AnswerInv`, what is written and announced by each step of the processor,
  first attempt or not.

Only model-checked: the liveness properties (`AlertsQueued`, `DealAnnounced`, `TransactionsEnd`,
`RoomHeard`, `EventsApplied`, `RegisteredAreMailed`), which are beyond the prover. The
violated properties of section 4 are refuted by their runs.

## 6. Not modelled, and what the abstraction hides

- Outside of `AcceptLocking` a `$transaction` is atomic. The others each write rows
  by id, or insert under unique constraints, and decide nothing in between.
- Metrics, organization membership at creation, read-only endpoints, amounts,
  terms, revisions, content hashes, timestamps.
- Authorization beyond ownership and participation (guards, JWT), validation of
  request bodies, the webhook signature, signed storage URLs, configuration.
- `Organizations` (members can be removed until no owner is left), `Verification`
  (a status no guard elsewhere reads), `Conversations` (inserts behind a
  membership nobody loses), `Watchlists`, `Reports`, `Users`, `Categories`: rows no
  modelled service reads, changed in one statement each.
- A false stall: BullMQ takes a job from a worker that is alive but has not renewed its
  lock, and two workers process it at once. `Stall` is the death of the worker.
- `EmailProcessor` reads a user and calls the provider. markRead and markAllRead of
  notifications write a column nothing reads; preferences are never written.
- Marketplace search and its cursor pages only read; money conversion is floating
  point arithmetic.

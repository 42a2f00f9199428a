# RAANKO: a TLA+ verification project

RAANKO is a multi-tenant freight-forwarding application: a NestJS API over
PostgreSQL (`src/apps/api`, through Prisma), a Next.js front end (`src/apps/web`)
and a package of shared schemas (`src/packages/shared`). All state lives in the
database; the API is a set of request handlers that read rows, decide, and write.
Handlers of different requests interleave at every `await`, nothing locks a row,
and a handler with several statements may stop between any two of them. That is
what this project models: the state machines of the API's core under overlapping,
failing requests.

## Inventory

### How the parts interact

    platform staff ── tenants: provision, activate, suspend, read-only, trial
                          │ invitation of the owner
                          v
                     organization: invitations, users, memberships, branches
                          │ membership, role, write mode
                          v
    portal / staff ── HTTP ──> guards (session, tenant, permission, write mode)
                                  │
      RFQ ── createQuote ──> quote ── accept ──> booking ──> shipment ── tracking
                                                                │
                               customer invoice <── (staff) ────┘
                                  ├── payment, credit note
                                  └── audit log
      customers, suppliers, rates <── import
      documents <── upload, PDFs of quotes and invoices
      support requests, tickets ── notifications, preferences
      webhooks ── usage meters

    every server process, when it starts ──> entitlement catalogue (plans, features)

* Handlers share nothing but rows. They call each other only inside a service
  (`createBooking` reads a quote row directly; `webhooks.create` calls
  `usage.increment`; several services call `mail` and `notifications`).
* A Prisma call is one statement; `$transaction` makes several atomic, under the
  database's default READ COMMITTED. Most checks are made before the
  transaction or without one.
* There is no queue, no scheduler and no background worker in the repository.
  The only code that runs without a request is the seeding of the catalogue.

### Components

Sources are under `src/apps/api/src`.

| Component | State | Operations | Hard behaviour | What makes it correct |
|---|---|---|---|---|
| **Quotes** `quotes/`, `portal/` | RFQ status; quote family, version, status | createRfq, updateRfq, submitRfq (portal), createQuote, createVersion, send, accept, decline (staff and portal) | check-then-write of a status; version = latest + 1; two statements in createQuote | statuses follow the edges; versions 1, 2, 3...; a decision is final; an answered RFQ is marked |
| **Bookings, shipments** `operations/` | booking, shipment status, links | createBooking, createShipment, changeStatus, addTrackingEvent, publicTrack | quote checked before the transaction; stale status | transitions of the table; only accepted quotes are booked; rows name each other |
| **Finance** `finance/` | invoice status, paidAmount, outstanding; payments; credit notes; audit log | createCustomerInvoice, issue, delete, createPayment, createCreditNote, audit; supplier invoices, expenses, rates (inserts) | balances computed from a row read earlier; audit after the commit | balances match the money recorded; issued invoices stay; money is audited |
| **Sessions** `auth/`, `common/guards/auth.guards.ts` | session: user, tenant, expiry, revoked; refresh tokens: session, predecessor, expiry, revoked | three logins, refresh, logout, switchTenant, guard | rotation in several statements, reuse detection, expiry, logout racing refresh | one chain of tokens is valid; ended means ended; nobody is locked out; own memberships only |
| **Tenants** `platform/`, `tenants/` | tenant status, write mode, trial end | provision, activate, suspend, setReadOnly, extendTrial | slug check outside the transaction; read-then-write of the trial end | whoever is let in is let in by the write mode of then; a suspension takes hold |
| **Catalogue** `platform/` | features, plans, their links | ensureEntitlementCatalog | servers that start together race row by row, losers give up half-way | complete once it is quiet; future features stay off |
| **Organization** `organization/` | users, memberships, invitations, branches, branch scopes, onboarding | invite, accept, updateMembership, branches, settings | up to six statements for one invitation; scopes deleted and reinserted; acceptance checked outside its transaction | an accepted invitation is a membership; nobody is a member uninvited; scopes are those asked for |
| **Guards** `common/guards/` | none (read rows of the above) | session, permission, write-mode checks | what they checked is stale when the handler writes | a request that was let in before a suspension is the last |
| **Documents** `documents/`, `storage/` | document key, versions, download tokens; objects | upload, createVersion, persistGenerated, grant, stream | object before row; number from the latest read; version and document in two statements; keys given by the client | versions contiguous; bytes before rows; the document shows its newest version |
| **Support, notifications** `support/`, `notifications/`, `mail/` | tickets, messages, notifications, preferences | open, reply, markRead, preferences, createAndSend | a reply writes back the status it read; find-then-create of preferences in front of the notification | an answered ticket stays answered; every reply is told once |
| **Trails** `finance/`, `phase2/impersonation`, `phase2/webhooks`, `phase2/usage` | rows with an audit entry; meters per month; deliveries | supplier invoices, expenses, rates, PDFs, impersonations, webhooks | the trail is a statement after the row; find-then-create of the month's meter | rows and trails reconcile |
| **CRM, suppliers** `crm/`, `suppliers/` | customers, suppliers, rate sheets, import jobs | create, update, addActivity, softDelete, imports | imports insert row by row and record the job last; look-up before a write to a deleted customer | jobs account for what was imported; deleted customers are left alone |
| Custom domains, billing, senders, consolidations `phase2/` | one row per call | upsert, verify, patchPlan | find-then-create of a host name | a host name has one tenant |
| Rate limiter `common/rate-limit/` | a counter per key, in memory | consume | window boundary | no more than the limit per window |
| Portal reads, reports, future, health, web, shared | none | reads, pure code | none | not state machines |

What is hard to test in them, each hazard at its line, is listed in `PROJECT.json`.

## Plan

Most important behaviour first; 1 to 13 are done.

1. `StatusPath`: the abstract specification of a status column that nothing
   locks. `Quotes` implements it.
2. `Operations`: bookings and shipments, composed with `Quotes` (`EXTENDS`, one
   next-state relation of interleaved steps), also over `StatusPath`.
3. `Finance`: invoices, money and the audit log.
4. `Sessions`: logins, refresh, switch, logout.
5. `MC*` modules and runs for each of them, mutants for every property.
6. `*Proofs`: inductive invariants of these four components.
7. `Access`, `Tenants`: the tables of roles, permissions and routes, the guards
   that read them, and the lifecycle they race.
8. `Organization`: what the let-in requests do to memberships and branches.
9. `Documents`, `Catalog`: versions and bytes; seeding by racing servers.
10. `Desk`, `Trails`, `Records`: statements that follow a row (notification,
    audit entry, meter, import job) and what is left when they do not.
11. `DocumentsProofs`, `BackOfficeProofs`: the inductive invariants of 9 and of
    `Organization`.
12. `SumTheorems`: what sums over finite sets of requests and rows do when one of
    them moves; on it `TallyProofs`, the inductive invariants of `Desk`, `Trails` and
    `Records`, and the audit log of `Finance`.
13. The remaining safety properties of `Quotes` and `Operations`, the serial ones
    included.
14. Left: tracking events.

Reports, portal reads, the web front end and the shared package keep no state and
stay out.

## The modules

| Module | Models | Extends |
|---|---|---|
| `StatusPath` | what a status column promises without locks, and the proof that it does | TLAPS |
| `Quotes` | `quotes.service.ts`, the quote handlers of `portal.service.ts` | |
| `Operations` | `operations.service.ts`, `shipment-status.ts`, over the quotes | `Quotes` |
| `Finance` | `finance.service.ts` | |
| `Sessions` | `auth.service.ts`, the session check of `auth.guards.ts` | |
| `Access` | `role-permission.matrix.ts`, the platform roles of `auth.guards.ts`, the routes of the controllers: constant tables | |
| `Tenants` | `platform-tenants.service.ts`, `common/guards/*` | `Access` |
| `Organization` | `organization.service.ts` and provisioning | `Tenants` |
| `Catalog` | `ensureEntitlementCatalog` of `platform-tenants.service.ts` | |
| `Documents` | `documents.service.ts`, `storage.service.ts` | |
| `Desk` | `support.service.ts`, `notifications.service.ts` | |
| `Trails` | rows with trails of `finance.service.ts`, `impersonation`, `webhooks`, `usage` | |
| `Records` | `crm.service.ts`, `suppliers.service.ts` | |
| `MCQuotes`, `MCOperations`, `MCFinance`, `MCSessions` | small sets for TLC | the module of that name |
| `BackOffice` | `Organization`, `Catalog`, `Documents`, `Desk`, `Trails` and `Records` together | those six |
| `MCBackOffice` | the same, side by side for TLC | `BackOffice` |
| `PipelineProofs` | theorems about `Quotes` and `Operations` | `Operations` |
| `FinanceProofs`, `SessionsProofs`, `DocumentsProofs` | theorems | the module of that name |
| `SumTheorems` | lemmas about sums and cardinalities, no model | |
| `TallyProofs` | theorems about what `Desk`, `Trails` and `Records` count | those three, `SumTheorems` |
| `BackOfficeProofs` | theorems about `Catalog`, `Organization` and `BackOffice` | `BackOffice`, `DocumentsProofs`, `TallyProofs` |

### How code becomes a model

* **Requests.** A request is a slot (`QuoteReqs`, `OpReqs`, `FinReqs`,
  `AuthReqs`, `TenReqs`, `DocReqs`, `DeskReqs`, `TrailReqs`, `RecReqs`) that holds what a handler has read and is about to write: a record
  with an `op` naming its next statement. One slot runs one request after
  another; several slots are overlapping requests.
* **Steps.** Each Prisma call or `$transaction` is a step. A check and a write
  are one step only where what the check reads can never change (rows of quotes,
  RFQs and shipments are never deleted, an invoice's total is never updated).
* **Rows.** A table is a function from ids to rows; `"none"` (or `exists =
  FALSE`) is a row not inserted yet. Ids are fresh (`newId` is a ULID), so an
  insert takes an unused one. Unique and foreign keys of the schema are guards:
  `VersionTaken` is `@@unique([quoteFamilyId, versionNumber])`, and deleting an
  invoice unlinks payments and is refused by credit notes, as the migrations say.
* **Failure.** `QuoteReqFails`, `OpReqFails`, `ReqFails` and `AuthReqFails`, and the
  `Die` actions of the other modules, drop what a request was about to do; what it has written stays. They stand for a
  crash, a lost connection, a failed statement and a rolled-back transaction.
* **Clashes.** Where a statement would break a unique or foreign key, because
  another request was faster, the request ends there: `Clash`, `InsertClash`,
  `VersionClash`, `DeskClash`, `MeterClash`. They also end a request for which
  the model has no id, number or message left.
* **Time.** In `Sessions` a tick is long against a request, so the clock
  moves when no request is in flight; an access token (15 minutes) is good for
  the tick in which it was issued. `Trails` knows the month, `Tenants` lets the
  clock show any day when a trial is extended.
* **Left out.** Tenants and customers: every query is scoped by them and no
  operation moves a row between them, so one tenant is modelled, but in `Tenants`
  and `Organization`, which are about them. Amounts, lines, names, notes, dates
  of quotes; formatting of answers. The guards are modelled once, in `Tenants`;
  the other modules start where a request has passed them.
  Payments and credit notes are kept as sums per invoice, counted in the
  smallest unit of the schema's `Decimal(18, 4)`, which is exact.
* **History variables** (marked "history:" where they are declared) record what
  happened and guard nothing. Several of them say where requests overlapped or
  died (`mixed`, `raced`, `overlapped`, `untold`, `missing`, `orphans`, `crossed`), so
  that a property can promise something exact of all other rows.
* Mutants (definitions marked "Mutant:") are plausible bugs of the definition
  that follows them; they are not part of any specification.

### Quotes

`SetStatusRead`/`SetStatusWrite` are `setQuoteStatus` and the portal's accept and
decline, which have the same shape. `CreateQuoteRead`, `CreateQuoteInsert` and
`CreateQuoteMarkRfq` are the three stages of `createQuote`; a family is named by
its first quote. `CreateVersionRead` and `CreateVersionInsert` race;
`CreateVersionConflict` is the unique index's answer. `CreateRfq` is both
`createRfq` and `submitRfq`, and `UpdateRfq` may set any status.

Since two requests may have read `sent`, the code does not promise that the next
status follows the current one. What it does promise is `StatusPath`: each status
a row ever holds follows one the row really held. `qheld` is the refinement
mapping.

### Operations

`CreateBookingRead` is the check before the transaction, `CreateBookingCommit`
the transaction (with or without a shipment), `ChangeStatusRead`/`Write` the two
statements of `changeStatus`. `Next` interleaves `QuotesNext` and
`OperationsNext`: operations read quotes and never write them, and
`PipelineImplementsQuotes` proves that the composition keeps everything proved
about quotes.

### Finance

`PayRead` computes paidAmount and outstanding as `createPayment` does, from the
row it read; `PayCommit` stores them with the payment. `CreditRead`/`Commit`
likewise. `Audit` is a statement of its own after each change. `RowGone` and
`DeleteRestricted` are what the database answers to requests that lost a race.

### Sessions

`SessionInsert`, `SessionTouch` and `TokenInsert` are the statements of
`issueSession`; `RefreshRead`/`RotateWrite`, `RefreshReuse`, `SwitchRead`/`Write`,
`LogoutRead` and `RevokeSession`/`RevokeTokens` those of its callers and of
`logout`. `Authenticated` is the guard in front of switchTenant and logout. The
user's credentials, role and statuses decide whether a request goes on at all, so
both outcomes are possible; the model does not say that a suspended member is
refused.

### Access, Tenants and Organization

`Access` has the tables: `ROLE_PERMISSION_MATRIX` (pairs of a role and a
permission), `platformPermissionsForRole`, and for each controller its routes
with verb and permission. `Tenants` runs the guards on them in two steps, because
they read twice: `CompanyGuard` or `PortalGuard` reads the membership and whether
its tenant is blocked; `LoadContext` loads role permissions and write mode, and
then `Permits` and `TenantWriteModeGuard` decide. A request that passes is in
`op = "handle"`; `Serve` stands for every handler that leaves this state alone.
`Activate`, `Suspend`, `SetReadOnly` and `ExtendTrialRead`/`Commit` are the
platform's lifecycle.

`Organization` adds the handlers: `ProvisionRead`/`Commit`; `AcceptRead`/`Commit`;
`InviteRead`, `InviteInsert`, `InviteUser`, `InviteMember`, `AddScope`, `InviteLink`,
which are the statements of `inviteEmployee` in order; `ModifyRead`, `ModifyWrite`,
`Unscope`, `AddScope`, `ModifyEnd` of `updateMembership`; branches and settings as
single writes. `Advance(r)` is the next step of a request that is in, whichever
it is, and `Clash` and `Refuse` make one always possible. Whoever may not call a
handler never gets as far as its first step, so the composition shows what the
guards are worth. `SuspensionTakesHold` says that when a tenant stays suspended or
read-only, the requests to change something that were let in for it run out, and
that when a member stays anything but active, so do that member's. These are two
claims. The code does not satisfy the stronger one, in which a restriction of the
tenant and one of the member may relieve each other: `CompanyGuard` reads the
membership while only the tenant is read-only, `TenantWriteModeGuard` the write mode
while only the member is suspended, and a request passes both. Neither claim says
that nothing is written after a suspension: the requests that were let in do.

### Catalog

Every process seeds the catalogue as it starts. `Find` is the look-up of the
next row (`Before` is the order of the loops), `Insert` and `InsertClash` its two
outcomes, `ListFeatures` reads what to link with the plans, `Kill` is a crash in
the middle. A loser of a race gives up without having seeded the rest, which
looks like a bug and is not: the last server that inserts anything never loses.

### Documents

`Put`/`InsertDocument` are `upload` and `persistGenerated`; `VersionStart`,
`ReadLatest`, `PutVersion`, `InsertVersion`, `UpdateDocument` are `createVersion`,
which may also be given the key of bytes that are there already or a key the
client made up (`NamedKeys`), which nobody checks. `StreamRead`/`GetObject` are
both downloads. The clients' keys are why `KeysAreStored` only promises bytes for
keys that the service minted.

### Desk

`ReplyRead`, `InsertMessage`, `WriteStatus` are the replies to requests of customers
and to RAANKO tickets; for the latter `FindPreferences`, `InsertPreferences` and
`Notify` follow in the same request. `StatusAfter` is the status a reply writes.
`missing` counts the replies that nobody was told of: their request died, lost
the race for the preferences' row, or the preferences say so.

### Trails

Six handlers with the shape "write the row, then its trail" (`Write`, `WriteAudit`):
a `kind` tells them apart. Webhook endpoints have the meter of the month as their
trail: `FindMeter`, then `InsertMeter`, `IncrementMeter` or `MeterClash`.
`EnqueueRead`/`Deliver` record a delivery by the endpoint's state as it was read.

### Records

`ImportStart`, `RejectRow`, `ImportCustomer`, `FindSupplier`, `ImportRate`, `RecordJob`
are the loops of both imports. `Lookup` and `WriteCustomer` or `SoftDelete` are the
handlers of one customer: a customer may be deleted between the two.

### MCBackOffice

These components share no rows, so their product says no more than each of them
alone. The model has one variable more, `focus`, chosen at the start; only the
component that it names takes steps, and the states add up instead of
multiplying. A focus also narrows what is called (`StaffCalls`, `TenantCalls`, ...),
never what a request that is in does next. The third request slot is for the focus
on the guards only. Three foci of `Organization` start from `Settled`, which those very
handlers lead to: a tenant was provisioned and its owner accepted, an employee was
invited and accepted, removed, and taken back by a second invitation (whose
request ends at the membership that is there already).

## What the runs check

All runs are exhaustive. "Serial" means one request of a kind at a time, the
order the handlers' checks were written for.

| Run | Instance | Shows |
|---|---|---|
| `quotes` | 1 RFQ, 3 quotes, 2 overlapping requests, failures | `QuotesFollowPath` (refinement), `VersionsContiguous`, `FamilyAnswersOneRfq`, `QuoteKeepsIdentity` hold under every interleaving |
| `pipeline` | 1 quote, 1 shipment, 2 bookings, 2+2 requests, failures | `ShipmentsFollowPath`, `DeliveredWasCarried`, `BookedQuoteWasAccepted`, `BookingMatchesShipment`: what stale checks cannot break |
| `pipeline_serial` | 1+1 requests, 1 RFQ, 2 shipments, no failures | `DecisionIsFinal`, `TransitionsAreLegal`, `BookedWhileAccepted` hold serially; `RfqIsMarked` (liveness) |
| `finance` | 1 invoice, 3 overlapping requests | `NeverUnderstatesDue`, `BalanceWithinBounds`, `DraftHasNoMoney`, `CreditKeepsInvoice`, `AuditTrailReconciles`; `MoneyIsJournaled` (liveness) |
| `finance_serial` | 2 invoices, 1 request, failures | `PaidIsReceived`, `PaymentsReduceBalance`, `IssuedIsNotDeleted`, `IssuedOnce` hold serially, and a crash between statements does not break them |
| `sessions` | 1 session, 3 tokens, 2 users, 2 memberships, 2 overlapping requests, failures, 2 ticks | `ReplacedIsRevoked`, `LiveSessionHasToken`, `SessionNamesIssued`, `MembershipsAreOwn`, `RevokedSessionIssuesNothing`; `ReuseEndsSession` (liveness) |
| `backoffice` | ten foci; 2 overlapping requests (3 at the guards), failures; 3 servers for the catalogue; 2 members, 2 branches, 3 invitations; 1 document, 2 versions; 2 replies to each ticket; 2 months; 2 rows per import | `InvitationsMakeMembers`, `CatalogIsSeeded`, `DocumentsCoherent`, `DeskKeepsUp`, `TrailsReconcile`, `RecordsAgree` hold under every interleaving; `SuspensionTakesHold` (liveness) |
| `shipments_race` | 2 requests | `TransitionsAreLegal` is violated |
| `booking_once` | 1 request | `OneBookingPerQuote` is violated |
| `credit_forgotten` | 1 request | `BalanceIsExact` is violated |
| `issued_deleted` | 2 requests | `IssuedIsNotDeleted` is violated |
| `session_sliding` | 1 request, 4 tokens, 3 ticks | `SlidingSession` is violated |

`CHECK_DEADLOCK FALSE` is set where the finite supply of ids, of money or of
ticks runs out; the code itself never waits for anything. Quote ids, booking ids
and request slots are interchangeable and reduced by symmetry, in runs without
liveness properties only.

### Bounds, and why they are enough

* Two overlapping requests give every lost update and every stale check, for a
  request in this code holds one snapshot and writes it once. Three are used for
  money, where a third request can hide what two have done. Three quotes make a
  family with a successor and a competitor for its number.
* `MaxMoney` stops offering money for an invoice; amounts and totals are chosen so
  that a payment can be part of, all of and more than the total.
* `Lifetime` and `MaxTime` let tokens expire before, with and after the session.
  Three tokens are a login, a rotation and its fork or reuse.
* Three servers are a winner and two losers, one of which loses to the other;
  one feature of each sort makes two features, two plans and their links, enough
  for every place of the loops to be raced. Three invitations are the owner's, an
  employee's and a second one to the same address. Two members let one suspend
  the other. Two branches, of which one may be assigned, have an assignment to
  delete, to insert and to clash on. `MaxVersions = 2` has a first version, a
  successor and a clash; four keys have one that a client made up. `MaxReplies = 2`
  lets each of two replies be the last; `Months = 2` has a meter that is missing
  again; `MaxRows = 2` has a row to import and one to reject, in either order.
  `Days` and `TRIAL_DAYS` are 1 and `MaxTrial` 2: an extension and one that
  overlaps it. `Steps` and `InviteRoles` are one each: no guard tells more apart.
* `UsedRoutes` has the routes of `Organization` that write, one route that reads, one
  that writes and that the member who is suspended may call (`POST quotes`, by an
  employee in sales), and one of the portal; the tables of `Access` are complete.
  At the guards three requests are two that suspend a member and lift it again, and
  one between its two guards: enough for the behaviour that refutes the stronger
  claim above, which two requests are not.
* `PROJECT.json` names for `SuspensionTakesHold` the mutant of the first guard, which
  breaks the half about members; with `TenantWriteModeGuardBlocked`, the mutant of the
  second guard, TLC finds the half about tenants violated in the same run.
* `UsedKinds` has two of the six kinds of rows of `Trails`, one with an audit entry
  and the webhooks; the others take the same two steps, and the theorem
  `TrailsAddUp` is about all of them.
* The safety properties of these runs are also proved for every size; the run
  shows the property on an instance, and that its mutant breaks it.

### Fairness

Weak fairness of what a request has begun (`QuoteReqContinues`, `ReqContinues`):
the Node.js event loop resumes a handler whose database call has returned. No
fairness is assumed of the start of a request, of the clock, or of failures.
In `Organization` it is `WF(Advance(r))` for each request, which is enabled as long
as the request is in; a failure ends a request as well, so `SuspensionTakesHold` is
checked with failures. No property of the other components needs fairness.
`RfqIsMarked` and `MoneyIsJournaled` are checked without failures, since a handler
that dies between its statements does break both and the code has no repair.
`AuditTrailReconciles` is checked in the same run, so without failures too; its
theorem `AuditTrailStaysReconciled` says for requests that die what is left of it,
that the log never reports more than was committed.
`ReuseEndsSession` is checked with failures, and says what they may excuse.

## What disagrees with the documents

Each of these is a violation run; `PROJECT.json` quotes the document.

* `shipments_race`: `changeStatus` writes by id after its check. Two requests that
  read `booked` may leave a cancelled shipment `in_transit`.
* `booking_once`: nothing prevents a second booking of an accepted quote.
* `credit_forgotten`: `createPayment` recomputes outstanding as total minus
  payments, so a credit note given before is charged again. No race is needed.
* `issued_deleted`: a deletion that found a draft deletes the issued invoice.
* `session_sliding`: refresh tokens slide by 30 days, the session does not. From
  30 days after login refresh still answers with tokens, and every guard refuses
  them.

The same read-then-write shape makes `DecisionIsFinal`, `BookedWhileAccepted`,
`PaidIsReceived`, `PaymentsReduceBalance` and `IssuedOnce` fail once two requests
overlap: their runs are serial for that reason, and `shipments_race` and
`issued_deleted` stand for all of them. `switchTenant` leaves the session's other
tokens alone: a refresh with one of them moves the session back to its tenant,
which is why `SessionNamesIssued` says "a token", not "the newest". The code and
its documents promise nothing about what overlapping or dying requests leave in
the back office: an invitation that was never linked to a membership, branches of
two requests mixed, a document at the older of two versions, a ticket opened
again by a reply, a notification, an audit entry or a count that is missing,
imported rows without a job, an activity of a deleted customer. The properties
there do not forbid these outcomes: they say that this is all that happens, and to
which rows. The hazards in `PROJECT.json` carry a note where that is so.

## What is proved

Every safety property that a passing run checks, invariant or action property,
type invariants included, is also a theorem. TLAPS checks the theorems for every
value of the constants: any number of rows, overlapping requests, failures and
amounts. The only assumptions are the named ones of the modules: null references
are not ids, amounts and totals are as the DTOs require, an owner function is
total, there is a tenant and an address, and, where a property adds something up
(`Finance`, `Desk`, `Trails`, `Records`), the requests and rows it adds over are
finitely many. TLC evaluates them in every run.

The properties of the serial runs are proved for one request slot (`QuoteReqs`,
`OpReqs` or `FinReqs` is a singleton) and any number of rows and further requests of
the other kinds: that is the condition under which the code's checks work, and
`shipments_race` and `issued_deleted` show two slots breaking it.

The shape of the argument is the same everywhere. None of the properties is
inductive: each can be broken by a request that carries a wrong snapshot. The
inductive invariant therefore says what a snapshot in flight is worth when it is
written, however old it is:

* **StatusPath** `StaysClosed`: histories only grow, so a predecessor once held
  stays held.
* **Quotes** `QuotesInv` (`RowsCoherent`, `ReadsSupport`): the status a request
  will write follows one in the row's history; the version it will insert is at
  most one past a version that exists, which the unique index turns into
  contiguity. Theorems: `QuotesTypeCorrect`, `VersionsStayContiguous`,
  `QuotesImplementPath` (every step is one of `StatusPath` or a stutter),
  `QuoteHistoriesAreClosed`, `QuotesKeepIdentity`. `RfqInv` adds that the RFQ a
  createVersion request has copied is the one of the whole family, whichever
  version it was called on (`FamiliesAnswerOneRfq`), and `StatusReadIsFresh` that a
  single request's status is still the one it read (`SerialDecisionIsFinal`).
* **Operations** `PipelineInv`: `QuotesInv`, and a booking in flight names a quote
  whose history holds `accepted`. Theorems: `PipelineImplementsQuotes`,
  `ShipmentsImplementPath`, `DeliveredWasReallyCarried` (by walking the table back
  from `delivered` through the closed history), `BookedQuotesWereAccepted`,
  `BookingsMatchShipments`, `OperationsTypeCorrect`. With one request slot each,
  `ShipmentReadIsFresh` gives `SerialTransitionsAreLegal`, and `BookReadIsFresh`, over
  the serial quotes, `SerialBookedWhileAccepted`: bookings may overlap there, since
  only a second decision could make their check stale.
* **Finance** `FinanceInv` (`RequestsBacked`, `Balances`): the paidAmount a payment
  will store is at most what was received plus its own amount, and the balance it
  will store understates nothing, since money recorded only grows. Theorems:
  `DueIsNeverUnderstated`, `BalancesStayWithinBounds`, `DraftsHaveNoMoney`,
  `CreditedInvoicesAreKept`, `FinanceTypeCorrect`; and with one request slot, from
  `SerialInv`, `SerialPaymentsAreExact`, `SerialKeepsIssued`, `SerialIssuesOnce` and
  `SerialPaymentsReduceBalance`. `AuditTrailStaysReconciled` follows the sum of the
  amounts that requests have committed and not yet reported: a step of one request
  changes it by that request's amount.
* **Sessions** `SessionsInv` (`RequestsGrounded`, `RowsGrounded`): sessions and
  tokens are never deleted and never taken back from revoked, so what a request
  read about them holds when it writes; a request that revoked a token is the one
  that replaces it, which carries `LiveSessionHasToken` across the gap between the
  two statements. Theorems: `ReplacedTokensAreRevoked`, `LiveSessionsHaveTokens`,
  `SessionsNameIssued`, `MembershipsStayOwn`, `SessionsTypeCorrect`, and the action
  property `RevokedSessionsIssueNothing`.

* **Catalog** `CatalogInv` (`Covered`, `CannotLose`): every row is in the catalogue
  or still to be done by each server that is seeding, and the server that made
  the last insertion has not failed and will not: what it found missing is still
  missing. Hence, when it is quiet, a server has finished, and one that finishes
  has covered everything. Theorems: `CatalogTypeCorrect`, `CatalogSeededCorrect`.
* **Documents** `DocumentsInv` (`RowSound`, `Ready`, `Alone`): what a request has
  read about keys, bytes and numbers stays true, since none of them is taken back,
  and where no createVersion requests overlapped, the one that is in knows the
  latest version. Theorems: `DocumentsTypeCorrect`, `DocumentsStayCoherent`.
* **Organization** `OrganizationInv` (`Fits`, `ScopesFit`): memberships, users and
  invitations never go away (`Grows`), so what a request has found or made is there
  when it goes on; and as long as assignments of branches to a membership have
  neither overlapped nor died, there is at most one request that makes them, and
  what it still has to insert is all that is missing. Theorems:
  `OrganizationTypeCorrect`, `InvitationsStayTrue`.
* **Guards** `GuardsHeld` (`WentThrough`): what the guards know of a request stays with
  it until its handler begins. `OnlyGuardsLetIn` shows, action by action, that no
  other step of any handler brings a request before the guards or lets one in.
  From there: `GuardsStayHeld` (staff keep to the company's routes, customers to the
  portal, and a handler runs for roles that have its permission),
  `OnlyManagersEverChange` (the routes' table against the matrix: owners and admins
  alone reach what writes in `Organization`) and the action property
  `SuspensionShutsOutAlways`, the safe half of `SuspensionTakesHold`: after a suspension the
  requests of a member, and those let in to change something, only get fewer.
  These three are stated in `BackOfficeProofs`; the run checks the liveness that
  they leave open.
* **SumTheorems**: `SumFunctionOnSet` is a fold, that is a recursive function on
  the subsets of the index set. That the function exists and what one more index
  does to it (`SumStep`) is by induction on those subsets. The library states the
  induction with an operator parameter that the provers cannot instantiate;
  `SubsetInduction` states it for a set of subsets and derives it from the
  well-foundedness of the strict-subset ordering. `SumUpdate`, `SumInsert`, `SumSplit`,
  `SumAgree`, `SumCountsOne` and `CountMoves` are what the proofs below cite.
* **Desk** `DeskInv` (`AnswersStand`): a reply under way to an answered ticket that
  met no other has read `in_progress`, which it will not reopen; messages, notices,
  misses and requests that owe a notice are counted against each other, request by
  request. Theorem: `DeskStaysInStep`.
* **Trails** `TrailsInv` (`TrailsFit`, `RowAccount`): every row's account of writes,
  entries, requests on the way and misses balances, and the meters' sum is kept by
  moving one endpoint from "on the way" to a meter or to a miss. An endpoint has
  at most one of these to come. Theorem: `TrailsAddUp`.
* **Records** `RecordsInv` (`ImportsFit`, `ImportedExist`, `PendingCrossed`): an import's
  counts add up to the rows it is past, its imported rows exist, and a write under
  way to a deleted customer had found it before. Theorem: `RecordsStayInStep`.
* **BackOffice** `BackOfficeTypeCorrect`: the components share no variable, so the
  conjunction of their specifications has the conjunction of their invariants.
  `MCBackOffice` runs them from more initial states (`Settled`) than these theorems
  are about; those are states that the handlers lead to.

Only model-checked is liveness, which is beyond the prover: `RfqIsMarked`,
`MoneyIsJournaled`, `ReuseEndsSession` and `SuspensionTakesHold`; and of course what the
violation runs refute.

## What is not modelled, and why

* **Tenants**: that provisioning refuses while the plan `trial` is not seeded, and
  the mail it queues after its transaction: neither changes a row. Nothing in the
  repository reads the end of a trial, so overlapping extensions (which are in the
  model, and of which one is lost) break no promise.
* **Guards**: the slug of the host, which never changes for a tenant; the routes of
  future features and of the platform's support and audit pages.
* **Organization**: names, codes, logos, the default branch of the settings, the
  expiry of invitations (both outcomes of the check are possible at any time,
  so a request may also stop at it).
* **Bookings and shipments**: tracking events are appended and read; no other
  handler depends on them.
* **Suppliers**: `updateSupplier` and the charge templates write contents that no
  other code reads. **Notifications**: `dispatch` calls the same `createAndSend`; the
  mail service writes a log line. **Custom domains, billing, sender identities,
  consolidations**: one row per call, found by a unique key, that no other
  handler's decision depends on. Nothing in the repository sends webhooks.
* **Rate limiter**: its only operation has no `await` and is atomic.
* **Reports, portal reads, health, web front end, shared package**: they keep no
  state. Files and mail servers are external.
* Isolation anomalies inside a transaction: the transactions here write rows by
  id, from values computed before they begin, or insert.

# Verification of real-estate-auction

This project states what the auction platform must never do and must eventually
do, as TLA+ modules translated from its code. TLC checks the modules on small
instances, TLAPS proves theorems about them for all values of the constants.
Paths below are relative to the repository root.

1. [The system](#1-the-system): inventory of components
2. [Modules](#2-modules): which module models what, and how
3. [Runs](#3-runs): what TLC checks, the bounds, the fairness
4. [Disagreements](#4-disagreements-with-the-documentation): what the violation
   runs show, and what was met besides
5. [Proofs](#5-proofs)
6. [Limits](#6-limits-of-the-models): assumptions, abstractions, what is not modelled
7. [Plan](#7-plan)

## 1. The system

The platform collects court auctions, analyses the rights on them and lets users
follow items. Everything meets in one PostgreSQL database.

```
 court site ──> daily collector ──> auction_schedule, notices, photos, results
 (Python, cron)                         │
                                        ▼
 users ──> web / mobile ──> API ──> favorite, device_token, app_user, refresh_token
            (sessions)    (NestJS)      │        └──> CODEF (registry documents)
                                        ▼
                     notification job (cron) ──> FCM ──> devices
                     notification_cursor, notification_delivery
```

| component | state it keeps | operations | what is hard |
|---|---|---|---|
| **notification job** `apps/api/src/notify.ts`, `notifications/*` | `notification_cursor`, `notification_delivery`; inside a run: watermark, jobs, checkpoint, claimed user | one pass: read changes behind a watermark, fold per item, claim, push, release, move the cursor; then reminders | runs overlap, die, fail half-way; rows appear late; two clocks' precisions; a claim of another run |
| **schedule feed** `tools/collector/.../postgres_repository.py` | `auction_schedule` | `upsert_items`: one page, one transaction | `observed_at` is the transaction's start, visibility its commit; UNIQUE with NULLs |
| **device tokens** `notifications.service.ts` | `device_token` | register (upsert + prune), unregister, dead-token delete | two statements per registration; a token stays with its account |
| **favorites** `apps/api/src/favorites` | `favorite` | add, remove, list | read by the job in three separate queries |
| **account deletion** `auth.repository.ts` | `app_user` | `deleteUser`, cascades | hits a run between token read and claim, and rotations through the foreign key |
| **sessions (API)** `apps/api/src/auth` | `refresh_token` families | login, rotate, logout, mobile code exchange | READ COMMITTED rows and locks, reuse detection with a grace window, a lost answer |
| **session (mobile)** `apps/mobile/src/api/authSession.ts`, `auth/AuthContext.tsx`, `notifications/push.ts` | keystore token, access token, verifier, rotation in flight, generation number | boot, deep link, `authedFetch`, sign-out, account removal, push registration | everything between two awaits; a late answer against a new login or a sign-out; a kill of the app |
| **session (web)** `apps/web/middleware.ts`, `app/auth/fetch-with-refresh.ts`, `auth.controller.ts` | cookies of the browser, one map of refreshes in flight per server | page load, call with retry, logout, login by redirects | cookies that arrive in any order; several servers |
| **collector pipeline** `tools/collector/.../runner.py` | what a run found, had, lost; the tables it fills | stages of `run_daily`: search, notices, results, photos, masking | one stage of several failing; a kill; a stage that must run anyway |
| **CODEF registry** `apps/api/src/codef-registry` | request cache, token cache | lookup with continuations, invalidate | answers that arrive after an invalidation; a token that runs out on the way |
| **rights analysis** `apps/api/src/rights-analysis` | none | baseline right, priorities, distribution, notice verdicts, burden | arithmetic with caps, shares and stages; unknown amounts |
| **auction items** `apps/api/src/auction-items` | none of its own | list, favorites, notice analysis, affordability | several statements per answer while the collector writes |
| **web screens** `apps/web/app/items` | map, panel, heart | camera, marker, tab, toggle | answers in any order, components that stay mounted |
| **app screens** `apps/mobile/src/screens` | item list, favorites, item pages, checklist | paging, refresh, removal, ticks | answers against what the reader did meanwhile; storage |
| parsers, backtest, bootstrap, shared types | none that lives on | | not modelled, see section 6 |

The correctness of each part, in the order it matters:

* notification job: no change a user is owed is ever skipped; nothing is pushed
  twice; the cursor never overtakes uncommitted rows; every change and every due
  reminder gets out in the end; nothing goes out in the quiet hours;
* schedule feed: what becomes visible is ahead of every reader's cursor;
* device tokens: a device belongs to one account, at most ten per account;
* sessions: one live token per family, an ended family stays ended, a logout
  takes the successor of its token, honest races do not log anybody out, a
  sign-out is final on the device;
* collector: what is missing after a run is missing for a reason; a table of
  tenants read once is never lost; names go once a sale is closed;
* registry: a case is paid for once; no lookup carries a dead token; what is
  served is the document, never older than an invalidation that met no fetch;
* rights analysis: shares add up to the price; a higher price hurts nobody; the
  notice alone never contradicts the whole file;
* answers and screens: pages that show the same notice say the same of it; a
  screen shows the data of what it stands for, however late answers come.

The hazards behind these properties are listed at their lines in `PROJECT.json`.

## 2. Modules

```
ScheduleMessage ◄─ ScheduleFeed ◄─ NotificationDispatcher ◄─ MCDispatcher
                                         ▲   ▲      │ INSTANCE (refinement)
                                         │   │      ▼
                                         │   │  DeliveryLedger ◄─ DeliveryLedgerProofs
                            NotificationDispatcherProofs

RefreshTokens ◄─┬─ MobileSession ◄─ MCSession
                └─ WebSession ◄──── MCBrowser
      ▲                  ▲
RefreshTokensProofs ◄─┬─ SessionProofs      (with MobileSession)
                      └─ WebSessionProofs   (with WebSession)

Distribution ◄┐
              ├─ NoticeRules ◄─┬─ RightsAnalysis ◄─── RightsProofs
TotalBurden ◄─┘                └─ ItemQueries ◄─ ScreenWords
RightsAnalysis, ScreenWords ◄────────────────────────────────────┐
RegistryConnector, DailyCollector ◄──────────────────────────────┼─ MCReads
RightsProofs, ScreenWords, RegistryConnector, DailyCollector ◄─── ReadsProofs
MapView, AppScreens, ItemPanel, ItemList, Checklist ◄────────────┘
   ▲        ▲           ▲          ▲         ▲
   └────────┴───────────┴──────────┴─────────┴── ScreenProofs
```

### The notification job

**`ScheduleMessage`** — the pure rules. `NextSendableAt`, `IsQuietHour` and
`KstDaysUntil` are `quiet-hours.ts` on a clock that already is Korean time, with
the length of a day and the quiet hours as constants. `ChangeSentences` is
`buildScheduleChangeMessage`: a message is the set of its sentences, and it is
`{}` exactly when the code returns `null`.

**`ScheduleFeed`** — `auction_schedule` and the collector's transaction.
`clock` is the database clock, `rows` the committed rows, `page` the open
transaction with its start time. `BeginPage`, `InsertScheduleSnapshot`,
`CommitPage`, `AbortPage` are the steps of `upsert_items`; `Tick` lets time pass
but keeps a transaction younger than `MaxTxn`.

**`NotificationDispatcher`** — the job and what surrounds it. One action is one
SQL statement or one FCM call plus the local computation after it, so that
everything else can happen between any two awaits.

| variable | code |
|---|---|
| `cursor` | row `schedule-change` of `notification_cursor` |
| `ledger` | `notification_delivery`: pairs of user and dedupe key |
| `accounts`, `favorites`, `devices` | `app_user`, `favorite`, `device_token` |
| `run[r]` | the locals of process `r`: `pc` says which await it is at, `todo` the groups left, `checkpoint`/`blocked` the variables of `processScheduleChanges`, `targets` the devices `deliver` still has to visit, `user`/`anySent`/`allDelivered` its locals |
| `acked`, `owed` | history for the properties: accepted pushes, and which change has not yet reached which user |

| code | actions |
|---|---|
| `run()` | `StartRun` (nothing happens in the quiet hours), `EndRun`, `AbortRun` (the `catch`) |
| `processScheduleChanges` | `ReadNoCursor`, `ReadCursor`, `FindChanges`, `SkipJob` / `FindTokens` … `DeliverReturns` per group, `EndSchedule`, `AdvanceCursor` |
| `deliver` | `FindTokens`, `Deduplicate` / `ClaimDelivery` / `ClaimFails`, `SendAccepted` / `SendFailed` / `SendUnregistered` / `SendThrows`, `FinishUser` (`finally` included) |
| `processReminders` | `FindReminders`, then the same delivery actions |
| a killed process | `Crash` |
| users | `AddFavorite`, `RemoveFavorite`, `RegisterDevice`, `UnregisterDevice`, `DeleteUser` |

`ToDate` is the one conversion that matters: the driver hands a `timestamptz`
(microseconds) over as a `Date` (milliseconds). `Resolution` is the number of
database ticks in a millisecond; every value that passes through JavaScript is
cut to it, every value compared inside SQL is not.

`owed` makes "lost" precise. A change is owed to everyone who has the item as a
favorite when it is committed. It stops being owed when a push with it is
accepted, when the job finds the user without a device or with nothing to say,
when the user drops the favorite or the account, or when the very first run
starts the feed after it.

**`DeliveryLedger`** — the abstract specification of `notification_delivery`: a
row is first the claim of one sender and from the first accepted push on a
receipt. Its own consequences are `Exclusive` and `ReceiptsHaveRows`. The
dispatcher implements it under the mapping at the end of its module.

**`MCDispatcher`** — the values the runs use: histories of an item, favorites,
devices, symmetry.

### Sessions

**`RefreshTokens`** — the auth server (`auth.service.ts`, `auth.repository.ts`).
`row` is the table `refresh_token` (state, family, the token it was rotated
from), `req` the requests the server holds, `failures` counts rollbacks. One
action is one statement of a transaction, or several when nothing can be seen
between them.

| code | actions |
|---|---|
| `rotate` | `RefreshRefused` (not found, raced, expired), `RefreshDetectsReuse`, `RefreshLocks` (`FOR UPDATE`), `RotationCommits` |
| `revokeFamily` in a logout or after a reuse | `LogoutLocks`, `FamilySnapshot` (the rows the UPDATE sees), `FamilyRevoked` (after it waited for locked ones) |
| `issueSession` | `SessionInserted` |
| `deleteUser` | `DeleteStarts` (locks the user), `DeleteCommits` (the cascade) |
| failures | `RolledBack`, among them the deadlock of a rotation and a deletion |
| time | `GracePasses` (the ten seconds), `TokenExpires` |

A row lock is `LockedByOther`: a request that is in one of the phases `Holding`
with the same token. READ COMMITTED is the split of `FamilySnapshot` and
`FamilyRevoked`: a row that is inserted between them stays.

**`MobileSession`** extends the server with one app. `store` is the keystore,
`access` the token in memory, `verifier` and `code` the login by deep link,
`refresh` is `inFlightRefresh`, `call[p]` the `authedFetch` of task `p`, `pc[p]`
where the task stands, `latest` is `generation.current`, `device` what the server
knows of this device.

| code | actions |
|---|---|
| `refreshTokens` | `RefreshTokens`, `RefreshAnswer`, `RefreshRejected` (the store is read again before it is cleared), `RefreshLost` |
| `authedFetch` | `ApiHandles`, `ApiDeleted` (server), `CallAnswer`, `CallRetries`, `CallLost`, `DeletionLost` (the removal may have committed when its answer is lost; the device row goes with the commit, in `Server`) |
| `AuthContext` | `BootReads`, `BootRestored`, `StartLogin`, `DeepLink`, `CodeConsumed`, `LoginAnswer`, `LoginLost`, `LoginApplies`, `MeAnswer` |
| sign-out, removal | `SignOut`, `SignOutReads`, `SignOutPosts`, `SignOutAnswered`, `SignOutClears`; `RemoveAccount`, `RemoveAnswered`, `Removed` |
| `push.ts` | `PushRegisters`, `PushEnds`, and the clearing inside the sign-out |
| the device | `Restart`, `AccessRunsOut`, `TimePasses` |

**`WebSession`** extends the same server with one browser. `jar` holds its
cookies, `tab` what each tab waits for with the cookies its request was sent
with, `inFlight` the map of each web server, `ended` the last logged-out token.
`PageRequest`, `RefreshOnce`, `RefreshAnswered`, `RefreshTimesOut`, `PageArrives`
are the middleware; `ListFavorites`, `CallRefused`, `CallRefreshes`,
`CallRetried` are `fetch-with-refresh.ts`; `Logout`, `StartLogin`, `Callback` and
their answers are the links of the header. An answer sets its cookies when it
arrives (`SetCookies`), not when it was written.

### Registry and rights

**`RegistryConnector`** — `getOrFetch` with its in-flight sharing
(`GetRegisteredRights`), the token cache (`Authorized`, `ExpiresAt`), the
lookups and continuations (`Lookup`, `Continued`, `Answered`, `Refused`),
`Invalidate`, and the mapper of rows to rights (`MapRows`).

**`Distribution`** and **`TotalBurden`** — `rights-analysis/domain` as operators:
baseline right, priority of a tenant, the stages of the distribution (small
deposits, relief, taxes, ranks) that each book payments against what is left,
and the cost of a bid with its tax brackets. **`NoticeRules`** — the merge of
notice rows, the verdict on a deposit, affordability.

**`RightsAnalysis`** — the state is one `file` and its `analysis`; every action
changes the file the way a reader does (`RaiseSale`, `FileDemand`, `LearnTax`,
`RaiseDeposit`) and analyses it anew, so that a property can compare two analyses.

**`ItemQueries`** — the repository of auction items: each answer is built from
two or three statements (`FindMany`, `FindByUser`, `FindNoticeAnalysis`,
`FindAffordability`, then `ReadNotice`, `ReadTenants`, `Answer`) with the
collector's `CollectItem` and `UpsertNotice` between them. **`ScreenWords`** — what
the six screens that show a notice say of it, drawn from those answers.

### Screens and collector

**`MapView`** (web map: script, camera, debounce timer, numbered requests,
markers, card), **`ItemPanel`** (the panel beside it, its tabs and the heart),
**`AppScreens`** (favorites list and the two item pages of the app),
**`ItemList`** (pages by LIMIT and OFFSET against the collector), **`Checklist`**
(ticks and the device's storage). An action is an event handler with the render
and the effects that follow it; requests are records that are served and
answered later, in any order.

**`DailyCollector`** — `run_daily`. `site` is the court, `base` the database,
`job` the run with its local collections. Stages follow one another by `job.pc`:
`SearchPage`; `FindKeys`, `DetailServed` / `DetailEmpty` / `DetailFails` /
`BatchBreaks`, `SaveNotices`; `FindPending`, `BackfillCase`; `FindMissingPhotos`,
`PhotoCase`; `MaskNames`. Each may fail, and `Killed` ends the run at any point.

**`MCReads`** — instances of all of these. They share no state, so a behavior
runs one of ten parts and the others rest; a run of their product would only
multiply states.

## 3. Runs

| run | properties | instance | what it shows |
|---|---|---|---|
| `MCFeed` | `TypeOK`, `CommitsAheadOfCursor`, `NothingSkipped`, `CursorNeverMovesBack` | 1 process, 2 users sharing an item, 2 items, values with NULLs, 2 ticks per millisecond, batch limit 2, one device per account, and either 1 user call or 1 kill | with one process nothing is lost, whatever fails, but what a killed process had claimed |
| `MCOverlap` | `NoSecondPush`, `LedgerRefined` | 2 symmetric processes, 1 of them killed, 1 user with 2 devices, 1 user call (deletion included) | nothing is pushed twice; the ledger is implemented |
| `MCLive` | `EveryChangeSettles`, `EveryReminderArrives` | 1 process, 2 users, 2 items, batch limit 1, days of one tick | everything gets out in the end |
| `MCMobile` | `TypeOK`, `OneLivePerFamily`, `SessionKept`, `SignOutIsFinal`, `SignOutUnregisters`, `EndedFamilyStaysEnded`, `LogoutTakesSuccessor` | 2 symmetric request slots, 3 tokens, 1 each of login, access token run out, sign-out or removal, trouble | the app and the server together: families stay sound, a session is kept until the reader ends it, and what the reader ends is over |
| `MCWeb` | `PagesKeepSession`, `LogoutKillsLateCookies`, `OnlyDeletionsDeadlock` | 3 symmetric tabs, 2 web servers, 2 slots, 3 tokens, 4 loads, 1 login, 1 run-out, 1 trouble | page loads alone never lose the session; cookies that come after a logout are worth nothing; two that take one family apart never wait for each other |
| `MCReads` | 18 invariants and 4 action properties, below | ten parts | each part against late, lost or reordered answers and failing steps |
| `MCRepeat`, `MCOverlapLost`, `MCBatchLimit`, `MCQuietHours`, `MCRaced`, `MCSharedCookie` | one each | violations | see section 4 |

The properties of `MCReads` by part:

| part | properties |
|---|---|
| registry | `PaidOnce`, `TokenOutlivesLookup`, `RightsOfDocument` |
| files | `MoneyConserved`, `NoticeAgreesWithAnalysis`, `ClaimDecidesInAnyOrder`, `HigherPriceHurtsNobody`, `DemandOnlyInTime`, `UnknownTaxIsLowerBound` |
| items | `AnswersAgree`, `ScenariosOrdered` |
| map, panel | `MapShowsWhereItRests`, `NoGhostCard`; `PanelShowsItsItem`, `HeartTellsTruth` |
| favorites, pages | `RemovedStaysRemoved`; `PageShowsItsItem` |
| list, checklist | `RowsInOrder`; `ChecksKept` |
| daily | `NoticesComplete`, `TablesKept`, `NamesGone` |

### The bounds

`MaxRows`, `MaxClock`, `MaxEdits` and `MaxCrashes` bound counters that grow in
the job's system; everything else is finite by its constants.

* `MaxDisturbances` bounds user calls and kills together.
* `MCFeed`: two rows are there at the start and two more can be observed, which
  is the least with which a batch of two is full, folds two rows of one item, or
  holds one item that fails before one that succeeds. `Lag` 2 and `MaxTxn` 1
  are as tight as the assumption `MaxTxn < Lag` allows. Six ticks let two
  watermarks pass each row, so a cursor that skipped it is seen.
  A third device token and `MaxDevices` 1 let a registration prune another device
  while the job holds it. `PageSize` is 1: batches that cut a page are `MCBatchLimit`'s subject.
* `MCOverlap`: two processes, one change and one reminder on the same item; a
  third process meets the same index as the second.
* `MCLive`: one tick is a day, so D-3 and D-1 both fall into the run. The state
  space ends at `MaxClock` with the job still running, which is where the two
  liveness properties are judged.
* `MCMobile`: two requests at once are the least for a rotation against a logout,
  a deletion or a second rotation; three tokens are a family with a successor and
  a login of its own, or a chain of two rotations. Every disturbance happens at
  any point, but one of each kind per behavior.
* `MCWeb`: three tabs are a page that refreshes, one that joins it and one on the
  other server; four loads let each load again after the access cookie ran out.
  Logouts have no bound of their own: tabs may send theirs with a token and with
  its successor, or while a reuse is detected, so two transactions of one family,
  each with its own row locked, do meet (`WholeFamilySnapshot` deadlocks there).
* `MCReads`: two callers and two cases with two documents of which the second
  cannot be mapped; files with two tenants before and after the baseline, a lot
  sold before and after the reform of 2023, prices from below the costs to above
  all claims; four items at two places and one nowhere; two courts with three
  cases, a streak limit of 2, pages cut after 3 rows, and a second run after the
  first. The bounds that stop a part are named in its module.

`CHECK_DEADLOCK FALSE` stands in the runs of sessions and reads: their loads,
logins, moves and runs are used up at the bounds, and a reader who does nothing
more is no fault. That the server's transactions never wait for each other for
ever is the invariant `OnlyDeletionsDeadlock`: requests each of which waits for a
lock of another among them (`BlockedBy`) include an account deletion, whose ring
with a rotation PostgreSQL breaks (`RolledBack`). The runs of the job check
deadlock: it can always be started again.

### Fairness

`FairSpec`, in `MCLive` only. Weak fairness of the clock and of the collector's
commit; weak fairness of each process, because cron keeps starting it and a
process that runs goes on; strong fairness of `SendAccepted(r, t)`: a device
that is tried again and again is reached in the end. Nothing is assumed about
the collector inserting rows, about users, or about failures, which may happen
any number of times.
Strong fairness is needed: under weak fairness a device may fail at every
attempt, and the code promises nothing for that device. `MCLive` has no crashes,
because a claim whose holder died is never given back (hazard at
`notification-dispatcher.ts:202`), so neither property would hold. The abstract
ledger shows that loss as its action `Leave`, and `NothingSkipped` names it
(`LeftBehind`) as the one exception: with a kill at any point nothing else is lost.

The other runs state safety only and assume no fairness: requests may stay
unanswered for ever.

### Mutants

Every property of a passing run has a mutant in `PROJECT.json`: a plausible bug
in the translated code that TLC finds with that property. The operators of the
mutants are marked "Faulty" and used by nothing.

## 4. Disagreements with the documentation

* **`MCRepeat`: a change is announced twice.** The cursor is the last row's time
  cut to milliseconds, so `observed_at > cursor` returns that row again. When
  the item has been observed anew in between, the two rows are folded under the
  *new* row's key and the message starts from the state before the *old* one.
  The idempotency key (`003_notifications.sql:15`) does not catch it.
* **`MCOverlapLost`: a change is lost between two runs.** `deliver` counts
  another run's claim as delivered. If that run then fails and releases it, the
  cursor is already past the change. The comment at
  `notification-dispatcher.ts:112` rules this out for one run; overlapping runs
  are in scope according to `003_notifications.sql:16`.
* **`MCBatchLimit`: the limit cuts a collector batch.** The rows of a page share
  `observed_at`. When the limit falls between them and that time happens to be a
  whole millisecond, the cursor becomes that time and the rest is never read.
* **`MCQuietHours`: pushes after 21:00.** The quiet hours are tested once, with
  the time the run started (`notification-dispatcher.ts:82`), while
  `WP-09-push-notifications.md:46` puts off every notification that falls into
  them.
* **`MCRaced`: a lost answer signs the app out.** A rotation whose answer is lost
  leaves the old token in the keystore. The retry inside the grace window is
  refused as a race, and `auth.service.ts:14` says that the caller must not drop
  its session then. The app gets the 401 of any refusal and, finding its own
  token in the store, clears it (`authSession.ts:122`).
* **`MCSharedCookie`: a late page puts a rotated cookie back.** Pages that share
  one refresh each carry the same new cookie. A call that refreshes once more
  after the first of them is overtaken by a slower page, whose `Set-Cookie`
  restores the revoked token. `middleware.ts:18-21` means to exclude this.

Met while modelling, and modelled as the code has it, without a run of their own:

* Collector: with the real transport a 403 or 429 never becomes
  `BlockedByCourtError`. `urllib` raises `HTTPError`, an `OSError`, which
  `court_client.py:128` turns into an ordinary request failure, so the run goes
  on where `WP-02-auction-collector.md:18` and `runner.py:896` want it to stop.
  Were it raised, `runner.py:938` would leave before the masking, which
  `runner.py:1102` says always runs.
* Collector: an answer that cannot be parsed, or a reader that fails
  (`runner.py:546-553`), drops what the court's batch had collected so far.
* Collector: `find_items_pending_sale_result` no longer asks for an item whose
  sale is stored, so a later "distribution closed", on which the masking
  depends, is seen only if another item of the case is pending.
* Collector: a notice of the same writing that is stored under a new date keeps
  its old `tenant_scanned_at`, so its document is not opened again.
* Sessions: `revokeFamily` does not see the token that a rotation of a *later*
  member inserts after its snapshot (`EndedFamilyStaysEnded` has that rotation as
  its exception). A sign-out while a rotation is in flight leaves that rotation's
  token in the store (`SignOutIsFinal` has `calm`).
* Registry: `invalidate` drops only what is cached; a fetch in flight stores the
  older answer afterwards. A token that CODEF refuses stays cached.
* Items: rows changed in one transaction have no order among pages
  (`auction-items.repository.ts:338`), so a row can come twice or never; a
  refresh across a page under way leaves a hole (`ItemListScreen.tsx:61-66`).
* Item pages of the app: a load has no guard against a key that a notification
  changes meanwhile (`PageShowsItsItem` has `crossed`).
* Heart: a list that is answered 401 shows "anonymous" also where a refresh would
  have helped (`FavoriteButton.tsx:26` uses the bare call).
* Heart: it is kept mounted when the panel goes from one item to another and does
  not go back to "loading" (`FavoriteButton.tsx:23-48`). A press before the new
  list has come adds or removes the new item by the status of the old one, and a
  toggle of the old item that is answered after the change sets the status of the
  new one (`setStatus(nextStatus)`, line 70, has no guard). `HeartTellsTruth` has
  both as exceptions; every other behavior of a kept heart is under it.
* Analysis: under the relief of 2023 an unknown tax is no lower bound
  (`distribution.ts:40-43`), hence the date in `UnknownTaxIsLowerBound`.
  A price raised by a few won may cost a lower rank one won, because shares are
  cut to whole won (`distribution.ts:146-150`).
* Checklist: ticks made before the storage was read are lost if the screen is
  left first.

## 5. Proofs

The theorems hold for any users, items, tokens, requests, processes, tabs, cases,
notices, views and bounds that satisfy the named assumptions of the modules:
`CalendarAssumption`, `FeedAssumption`, `DispatcherAssumption`,
`TokensAssumption`, `MobileAssumption`, `WebAssumption`, `RegistryAssumption`,
`AnswersAssumption`, `AbsentAssumption`, `AbsentIsNoFlag`, `ItemAssumption`, `DailyAssumption`, `ListingAssumption`,
`FilesAssumption`, `ChangesAssumption`, `MapAssumption`, `PanelAssumption`, `ScreensAssumption`, `ChecklistAssumption`
and `ListAssumption`. TLC evaluates them in the runs. Two of them carry an
argument: `MaxTxn < Lag` (the comment at `notification-dispatcher.ts:18` says the
lag must be raised when a collector batch takes longer), and `Life > 2 * Margin`
(a new token outlives two exchanges with CODEF; the margin is the minute of
`codef-token.client.ts:21`).

| theorem | statement | module |
|---|---|---|
| `TypeCorrect` | `Spec => []TypeOK` | `NotificationDispatcherProofs` |
| `LagSuffices` | `Spec => []CommitsAheadOfCursor` | `NotificationDispatcherProofs` |
| `AtMostOnce` | `Spec => []NoSecondPush` | `NotificationDispatcherProofs` |
| `ImplementsLedger` | `Spec => LedgerRefined` | `NotificationDispatcherProofs` |
| `CursorMonotone` | with one process, `Spec => CursorNeverMovesBack` | `NotificationDispatcherProofs` |
| `NothingIsSkipped` | with one process, `Spec /\ []BatchesWhole => []NothingSkipped` | `NotificationDispatcherProofs` |
| `FittingBacklogSkipsNothing` | with one process, `Spec /\ []BacklogFits => []NothingSkipped` | `NotificationDispatcherProofs` |
| `LedgerExclusive`, `LedgerReceipts` | the abstract ledger's two consequences | `DeliveryLedgerProofs` |
| `SessionTypes` | `Spec => []TypeOK` | `SessionProofs` |
| `FamiliesHaveOneToken` | `Spec => []OneLivePerFamily` | `SessionProofs` |
| `EndedFamiliesStayEnded` | `Spec => EndedFamilyStaysEnded` | `SessionProofs` |
| `LogoutsTakeSuccessors` | `Spec => LogoutTakesSuccessor` | `SessionProofs` |
| `SignOutsAreFinal` | `Spec => []SignOutIsFinal` | `SessionProofs` |
| `SignOutsUnregister` | `Spec => []SignOutUnregisters` | `SessionProofs` |
| `NoRingOfWaits` | `Spec => []OnlyDeletionsDeadlock` | `SessionProofs` |
| `SessionsAreKept` | `Spec => []SessionKept` | `SessionProofs` |
| `LogoutsKillLateCookies` | `WebSpec => []LogoutKillsLateCookies` | `WebSessionProofs` |
| `PagesKeepTheSession` | `WebSpec => []PagesKeepSession` | `WebSessionProofs` |
| `NoRingOfWebWaits` | `WebSpec => []OnlyDeletionsDeadlock` | `WebSessionProofs` |
| `TokensOutliveLookups` | `RegistrySpec => []TokenOutlivesLookup` | `ReadsProofs` |
| `CasesArePaidOnce` | `RegistrySpec => []PaidOnce` | `ReadsProofs` |
| `RightsAreTheDocuments` | `RegistrySpec => []RightsOfDocument` | `ReadsProofs` |
| `NamesAreGone` | `DailySpec => []NamesGone` | `ReadsProofs` |
| `NoticesAreComplete` | `DailySpec => []NoticesComplete` | `ReadsProofs` |
| `TablesAreKept` | `DailySpec => TablesKept` | `ReadsProofs` |
| `DearerCostsMore` | `ItemSpec => []ScenariosOrdered` | `ReadsProofs` |
| `ScreensAgree` | with `AbsentIsNoAnswer`, `ItemSpec => []AnswersAgree` | `ReadsProofs` |
| `BooksBalance` | `AnalysisSpec => []MoneyConserved` | `RightsProofs` |
| `NoticeTellsTruth` | `AnalysisSpec => []NoticeAgreesWithAnalysis` | `RightsProofs` |
| `ClaimsAreHeard` | `AnalysisSpec => []ClaimDecidesInAnyOrder` | `RightsProofs` |
| `DemandsInTimeCount` | `AnalysisSpec => DemandOnlyInTime` | `RightsProofs` |
| `UnknownTaxesHideBurden` | `AnalysisSpec => UnknownTaxIsLowerBound` | `RightsProofs` |
| `HigherPricesHelp` | with `RaisesCoverRounding`, `AnalysisSpec => HigherPriceHurtsNobody` | `RightsProofs` |
| `MapTellsTruth`, `CardHasMarker` | `MapSpec => []MapShowsWhereItRests`, `[]NoGhostCard` | `ScreenProofs` |
| `RemovalsStay` | `ScreensSpec => []RemovedStaysRemoved` | `ScreenProofs` |
| `PagesShowTheirItem` | `ScreensSpec => []PageShowsItsItem` | `ScreenProofs` |
| `PanelOfOneItem`, `HeartIsTrue` | `PanelSpec => []PanelShowsItsItem`, `[]HeartTellsTruth` | `ScreenProofs` |
| `TicksAreKept` | `ChecklistSpec => []ChecksKept` | `ScreenProofs` |
| `RowsComeInOrder` | `ItemListSpec => []RowsInOrder` | `ScreenProofs` |

`RegistrySpec`, `DailySpec`, `ItemSpec`, `AnalysisSpec`, `MapSpec`, `ScreensSpec`, `PanelSpec`,
`ChecklistSpec` and `ItemListSpec` are the parts of `MCReads` on their own. No
step of another part touches their variables.

### The job

*The argument for `LagSuffices`.* `CommitsAheadOfCursor` is not inductive: a
process may hold an old watermark for any length of time. `LagInv` adds that
every watermark and every checkpoint a process carries is at least `Lag` behind
the clock, and `FeedInv` that rows are not from the future and that an open page
is at most `MaxTxn` old. A process can then write only values older than any page
that is still open, and a page that opens later starts later still. `TypeInv` is
the conjunction of `TypeOK`, `FeedInv` and `LagInv`.

*The argument for `AtMostOnce`.* `PushInv` says: whoever is delivering a pair to
an existing account has its row (`HolderHasRow`); two processes never deliver
the same pair (`HoldersDiffer`); an accepted push to an existing account has its
row (`AckHasRow`); a holder that has not yet had a push accepted faces no
earlier accepted push of the pair (`UnsentNotAcked`), and the devices it has
left never do (`PendingNotAcked`). The unique index makes the claim exclusive,
and `ReleaseUnlessSent` removes a row only when nothing was accepted.
`ImplementsLedger` uses the same invariant to map every step to a step of the
ledger or a stutter. The lemmas on ordered rows (`EarliestExists`, `LatestExists`)
and on numbering (`Numbered`: ids are exactly 1 to the number of rows) carry the
operators that choose a first or last row.

*The argument for `CursorMonotone`.* `CursorInv`: what the only process will
write is never below the cursor, because it read the cursor first and every row
it found lies strictly ahead of it. `ToDateMonotone` carries this over the
truncation. It needs the single process: two of them do move the cursor back.

*The argument for `NothingIsSkipped`.* `SkipInv` follows one owed change from the
row to the device. Where the cursor has passed, nothing is owed but what a kill
left behind (`Passed`). A process that delivers the schedule still has the change
before it: in a job of its list, or beyond whatever the cursor may reach
(`Pending`); inside `deliver` the user is still to come, will be reported as
failed, or has had no push (`Reachable`). The jobs are the fold of the rows up to
the watermark (`JobsFold`), so a push that was accepted settles every change its
job folded (`AckedSettles`), which needs `TablesInv` on rows, pages and receipts.
The hypotheses are the ones the code needs and no more: `MCOverlapLost` loses a
change with two processes, and `MCBatchLimit` loses one when a batch separates
rows observed at once, which is what `BatchesWhole` excludes.
`FittingBacklogSkipsNothing` puts it in terms of the load, for pages of any size
that share one time: while the rows a run has yet to read are no more than one
batch takes (`BacklogFits`; 500 in the code), no batch separates any.

### The sessions

*Families.* `OneLivePerFamily` is not inductive: it does not say why the two tokens
a rotation has in hand are never both valid. `ServerInv` (`RefreshTokensProofs`)
adds how the rows of a family hang together (`RowsInFamilies`), that a transaction
inside holds the lock of its token's row and nobody else does (`Locks`), and that
what is being rotated is live (`RotatesLive`). `SweepSeesSuccessors` is for the
logout: its `UPDATE` works on the rows of its snapshot, and the only live row that
could be missing there is the successor of its own token, whose insertion needs
the lock it holds.

`RefreshTokensProofs` shows that each step of the server keeps `ServerInv`, and
so does any step that is `ClientOnly`. The work of `SessionProofs` and
`WebSessionProofs` is that the composed systems have no other steps (`ServerActs`).
That takes an invariant of the app, `AppInv`: a token that is sent is one
(`TokensInHand`), and a slot whose answer a task waits for holds that task's
request until the task took it (`SlotsHeld`), whatever else is abandoned, killed
or answered late. A logout that leaves the failure count alone was not rolled
back (`FailuresCounted`), so it has committed (`SweepEnds`). `StaysClosed` and
`ActsKeepClosed` carry an ended family through every later step.

*Who waits for whom.* A reuse sweep or a logout holds its own token's row and
waits for the rows of its family, so two of them could wait for each other. They
do not, because the order of the tokens is an order of the locks (`OrderInv`):
tokens are issued in order (`IssuedInOrder`), the one token of a family that is
not revoked is its latest (`LatestStands`), and so a sweep waits for later
tokens than the one it holds (`WaitsForLater`). In a ring without a deletion
every request that is waited for is a sweep, and the one of them that holds the
latest token waits for none of the others (`RingsNeedDeletions`). That
`FamilyRevoked` locks its rows in one step loses nothing: its snapshot has one
at most (`OneLivePerFamily`). An `UPDATE` that took every row of the family,
revoked or not, would deadlock (`WholeFamilySnapshot`, the mutant). The ring the
code does have, a rotation that needs the user's row and a deletion that needs
the rotation's, is the one PostgreSQL breaks by rolling one of them back.

*What a sign-out leaves.* `NothingReturns` strengthens `SignOutIsFinal`: after a
calm sign-out not only are store and screens empty, but every call still under
way is `Dull`, that is, went out without a token and can only be answered 401.
`SignOutUnregisters` needs `PutsArePushs` (only the push client registers),
`OutAsksNobody` and `Unregistering`: while the sign-out lasts, nothing moves but
the removal it sent, and afterwards no registration is on its way.

*Keeping a session.* `KeptSession` holds while the system is `Calm` (nothing lost,
rolled back or signed out). A token in an answer is valid and nobody's yet
(`HandedLive`); one in hand was revoked a moment ago at worst (`HandKept`); the
stored one is valid or its successor is in the answer the app waits for
(`StoreKept`); and a refusal is harmless, because a login has replaced the token
meanwhile or the token expired (`RefusalsHarmless`). `CalmSteps` lists what the
server can do in such a system. `MCRaced` shows what one lost answer does to it.

*The web.* `WebInv` is the server's invariant, the order of successors and
`CookieInv`: a page waits at a server for the refresh of the token it came with,
a logout's request holds the tab's token until its answer says that it ended
(`LogoutsEnd`). `BrowserInv` adds for a calm browser `RefreshInv`: what is on its
way to the browser is valid (`BroughtValid`) and submitted by nobody
(`BroughtOnce`), and a cookie that was rotated away has a page that carries the
successor (`CookieValid`). It is proved with calls from open pages excluded
(`calls = 0`), and `MCSharedCookie` shows that they must be.

### Registry, collector and answers

*The token and the bill.* `LookupInv`: a fetch is at most a margin old at
each exchange, and both the cached token and the one a lookup carries live a
margin longer than they are trusted. `CostInv`: a case is never cached and under
way at once; at rest it has cost no more fetches than failed or were dropped,
otherwise one more; whoever waits for a case waits for its one fetch, and exactly
one of them is billed. `CasesArePaidOnce` assumes that an answer is never
`NoRights` (`AnswersAssumption`), so that a cached answer can be told from none.

*The document.* `DocumentInv`: what is cached is the mapping of a version of the
document between the last invalidation that met no fetch and now. The mapping is
a fold over the rows, and `RightsAreMapped` says by induction over the places what
it makes: the right at place *n* comes from the row that is the *n*-th in scope.
`PurposeHasItsType` settles the keyword table: the first keyword that matches.

*The collector.* `DailyInv` keeps one row per item and document (`OneRow`) and a
batch that is a finite sequence, beside `NamesGone` itself; the lemmas `...Runs`
show that no step but the masking ends a run, so it cannot be skipped. A batch is
saved by a fold over its notices, and `KeptByBatch` shows by induction over it that
a table once read stays, for any batch.

*The notices of a run.* `CompleteInv` follows a row from the search to the table,
stage by stage (`StageOf`). What the pages brought is of the court and of the day
(`FoundToday`): the dates stand still while the notices are asked for. A key that
was there at the beginning of the stage is there for the day still (`HadIsKnown`),
so a row that was skipped has its notice. Within a court (`CourtRuns`) a row that is
wanted is to be asked for, in the batch, or settled (`AskedOrSettled`). `HeldBack`
says of the rest left behind that the answers end in an uninterrupted streak
(`StreakIsLast`) and that no notice of the batch is of a later date, which follows
from the order of asking (`AskedByDay`); that what courts before left behind is not
of this one is `CourtsApart`. A court closes when its batch is stored or lost or the
court is among the failed (`CourtSaved`, `CourtGivenUp`), and the next one begins
(`CourtFollows`). Three folds carry it, each by induction over its sequence: the
rows at a set of places (`RowsTaken`), the rows of one day after those of another
(`NearestFirst`), and the batch, which makes the key of each of its notices known
(`KeysByBatch`). `ListingAssumption` says that an item is listed by one court: the
key of `runner.py` begins with the court.

*The answers.* `ItemInv` knows of every answered cost that it came from one notice
and one row (`AnsweredScenarios`); `ScenariosByBid` and `BurdenRises` order the
burden by the bid, through the three brackets of the tax (`MiddleBracket`,
`TaxRises`), where the rounding of the middle bracket is the delicate step.
`AgreeInv` is for screens that show the same notice: the database's order and the
client's choose the same newest notice (`OrdersAgree`), the client's sum is the
server's (`SameTotal`), the counts of a card add up to the people of the table
(`CountsAddUp`), and an answer says what the notice of its moment said (`BodySays`).
`AbsentIsNoAnswer` says only that the model value for `null` is not itself a record.

### The distribution of a price

*What is assumed of a file.* `FilesAssumption` gives each row its type and says that
ids are apart: one tenant or one right per id, shared with no other kind of row.
The service refuses negative amounts of tenants and taxes (`@Min(0)` in
`tenant.dto.ts` and `tax-claim.dto.ts`); it accepts any number as a right's amount
and does not compare ids. With a negative right, or an id used twice, the sums of
`distribution.ts`, which looks receipts up by id, do not add up, so both are
assumed of whoever calls it. `FilesStayTyped` shows that every change of a file
keeps them.

*The argument for `BooksBalance`.* `AnalysisInv` is the typed file and the fact that
`analysis` is `Analyze(file)`; all the work is in the distribution, which is seven
folds over sequences of any length. `PlaceByPlace` gives for a fold the value after
each place, by induction over the places, and a lemma per fold (`SharesInTurn`,
`ReliefsInTurn`, `TaxesInTurn`, `ClaimsInTurn`, `RankOfClaims`, ...) applies it. A
book balances when what is left and the payments add up to the price less the costs;
`PayBalances` is that for one payment. Then, stage by stage:

1. `SmallStage`: each share is the claim's proportion of a budget of at most half
   the money (`ShareBounds`), so the shares add up to no more than the budget and
   no tenant gets more than the claim, which is at most the deposit.
2. `TaxStage`: relief is capped by what the deposit lacks and by what the tax is
   owed, and the tax by its rest (`PayRelief`, `PayOwnTax`); a deposit that two
   taxes relieve is counted over both.
3. `RankStage`: the claims by rank of one tenant add up to at most what the deposit
   still lacks (`TenantClaimsInTurn`: what was received is taken off the parts once),
   a right claims its amount once, taxes claim nothing of either. Sorting only
   permutes them (`SortingPermutes`, `SumPermuted`), and each is paid at most what it
   claims, so ranks, shares and relief together stay within what is owed
   (`RanksSettle`, `EverybodySettled`).

*The argument for `NoticeTellsTruth` and `ClaimsAreHeard`.* A person of the notice
is the merge of that person's rows, field by field, a field being taken from a row
that is trusted more than where it stands. `ClaimStands` says by induction over the
rows, for any number of them and whatever they say: a field the person's own claim
fills keeps the claim's value, and a field none of the person's rows fills stays
unread. The rest differs.

1. *One row per tenant, fields hidden.* Every person has one row, so the merge is
   that row (`RowByRow`), and `VerdictIsTrue` compares the classification of the page
   with the one of the analysis, verdict by verdict: a verdict that commits itself
   needs the fields that decide it. `TotalIsTrue` adds the people up: the amount the
   page shows is at most the assumed sum, and equal to it unless the page calls it a
   lower bound.
2. *Three sources, any order.* `RowsTogether` keeps the claims among rows that are
   put together, `RowsOfTenant` says what a row may hold, and `ClaimsDecide` then
   gives one and the same table for every such sequence: the one the claims alone
   give. `AbsentIsNoFlag` (`null` is neither true nor false) is what lets a demand
   that was declined count as read.

*The argument for `DemandsInTimeCount`.* Two analyses are compared, before and after
the demand. Who does not join is in no stage: `OnlyDemandsJoin` and `Conserved` say
that such a tenant is paid nothing and, with opposing power, is owed the whole
deposit, so no payment after a demand in time can be less and no rest larger. A
demand after the deadline counts in neither file, and `SameJoin` shows by induction
over the tenants that both have the same participants; from there on the two files
differ in nothing the distribution, the statuses or the burden read (`SameAnalysis`).

*The argument for `UnknownTaxesHideBurden` and `HigherPricesHelp`.* Both compare two
analyses of files with the same rights, tenants and deadline, the second of which
knows no more taxes (`SameClaimants`). Nothing has to be said of the ranks one by
one: if after small deposits and taxes the second file has at least as much left and
every joining tenant at least as much (`StagesBetter`), then by each date of the
sorted claims less is unpaid in it (`ListsLess`), so each rank pays at least as much
(`RanksBetter`, by induction over the ranks), nobody is paid less and nobody's assumed
rest is larger (`DistributionsBetter`, `ReportsBetter`), and the assumed total, which
adds the rests up, is not larger (`TotalsBetter`). What differs is how the earlier
stages are compared.

1. *One tax more known.* The taxes keep their order of due dates when one of them gets
   its amount (`LearnedByDueDate`); going through them, that one leaves less and the
   others take what they can of what is left, which keeps it less (`LearnedInTurn`).
   The date of the property is needed: under the relief of 2023 the amount a tax gives
   up goes to tenants, and more known tax may mean more for them.
2. *A higher price.* The budget of the small deposits is half of the money. All shares
   together are the budget, short of one won for each tenant at most
   (`SharesTogether`), so of a raise above twice the number of tenants at least
   enough reaches the rest to make up for rounding (`BetterSmall`). Of each tax the
   relief never gives less than before, and what it gives is what the tax does not get
   (`BetterRelieve`, `BetterTax`), so after all taxes the dearer file is still better
   (`BetterTaxes`, `HigherStages`). That there are few tenants for the raise is kept
   by all steps (`TenantsAreFew`).

`RaisesCoverRounding` says that `PriceStep`, the model's bound of one raise, exceeds
twice the number of tenants of a file. It is no fact about the code but a limit of
the statement: shares of small deposits are cut to whole won
(`distribution.ts:146-150`), so for two small deposits of 1 won the shares are 0 and 0
of a price that leaves 3 won, 1 and 1 of one that leaves 4, and lower ranks get 2
instead of 3. Prices of sales move by millions, and so does the `PriceStep` of the run.

### The screens

*Map and favorites.* `MapInv`: requests are numbered, only the latest can still
change the map (`Numbering`), and once the camera rests and no timer runs, the
latest is for the view where it rests (`AskedAtRest`). `ShelfInv`: a load that was
served either knows of every removal that was answered, or its number is older
than the list's and its answer is dropped (`RemovalsKnown`).

*Pages and panel.* `PageInv`: each kind of data has one load, of the page's own key
(`OneLoadOfItsKey`) unless a push crossed it. `PanelInv`: reads are for the item
the panel stands for (`ReadsForItem`), one press of the heart is under way at a
time (`OnePress`), and a heart at rest shows what the server has (`SettledHeart`). A
heart kept for the next item asks for its list again and drops the old answer
(`ShowKept`), so a kept heart is settled once the new answer is there.

*Checklist.* `ChecksInv`: ticks stand over what is read later (`TapsStand`); writes
reach the device in order (`WritesGrow`), so the last one holds every tick (`InStep`).

*The list.* `ItemListInv`: the rows shown begin an order (`RowsBegin`), an answer is
a page of an order that holds while nothing is touched (`PagesOfOrders`), one page
for more is under way at a time (`OneMore`), and it continues the rows on the
screen (`MoreContinues`).

**Model-checked only.** The liveness properties (`EveryChangeSettles`,
`EveryReminderArrives`) are outside the prover. Every other property of a passing
run is a theorem. TLC alone finds the six violations.
## 6. Limits of the models

**The job.**

* One clock. The database's `now()` and the process's `Date.now()` are never
  compared with each other in the code, so they are the same `clock` here. The
  scales of milliseconds, hours and days are collapsed by the constants.
* Gaps in the id sequence are closed; only the order of ids matters.
* `registerDevice` is one action although it is two statements.
* The reply "unregistered" and the `DELETE` that follows are one action.
* `Crash` also stands for a failing database call in a `finally` block.
* `acked` is what the job saw accepted. A push that FCM accepted while the
  answer was lost counts as failed, as it does in `fcm.client.ts:130`.
* The third branch of the cursor write (`notification-dispatcher.ts:131`) and
  the first are one expression in `EndSchedule`.
* A reminder job carries no change ids; only its key matters.
* Cascades from `auction_item` are left out: nothing in the code deletes items.

**Sessions.** `Hurried`: the ten seconds of grace do not pass while a request with
that token is under way (the clients wait five seconds). Signatures and hashes
are what they stand for. A deep link is delivered at most once per login. The
social providers are a callback that may or may not come. The cascade of a
deletion takes all token rows in one step; one that meets a family revocation
half-way would be broken by PostgreSQL, which is a counted failure.

**Registry and rights.** No exchange with CODEF takes longer than the token's
safety margin. Amounts are in units of 10,000 won, dates are numbers yyyymmdd
with move-in days that are not the last of a month. The ratio of the small
deposits is the exact floor, where the code rounds a double. Texts and legal
references are left out.

**Screens.** React's commit and the effects after it are one step. The device's
storage serves calls in the order they were made. Answers of one request come
once. `HandleRetry` of the map has a guard that its handler has not, `hovered = {}`:
`cleanupMap` (`MapView.tsx:281-298`) does not close the card, but the overlay of
the error, with the button, covers the whole map, so the pointer has left the
marker before it can reach the button. `BboxAnswered` returns every item of the
view: the 500 rows at which the API stops (`auction-items.controller.ts:13`, the
"+" of the badge) are left out, and beyond them the map shows the 500 rows last updated.

**Collector.** The court changes between runs or before the results are asked
for. A database that an earlier, killed run left is an initial state, so that two
runs meet what otherwise takes three. Limits on notices and backfills, and
photos of several pages, are left out.

**Not modelled.**

* court and notice parsers (`court_parser.py`, `notice_tenant_parser.py`):
  sequential extraction whose correctness lies in documents, not in control;
* backtest reports, the queries that count by region, by bounding box and for
  photos: single reads without state;
* API bootstrap, configuration, health, shared types, design tokens: wiring;
* HTTP to the social providers, signatures, hashing: external;
* layout, wording, the app's map, the web's visit checklist: rendering;
* the collector's commands for single stages: the same functions without the
  rest of `run_daily`; raw snapshots and cases in its repository: written, and
  read by nothing that decides.

## 7. Plan

Modelled, checked and, but for liveness, proved: all components of section 1 but the
last row. What is left: device registration as two statements, at most ten devices
and own tokens only, each with its own invariant.

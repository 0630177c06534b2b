# A TLA+ model of scrolt-backend

scrolt-backend is the HTTP API of a vocabulary feed: it ranks cards a user has
not answered yet, records answers, and carries progress between devices and from
anonymous sessions to accounts. It is a single Node process in front of
PostgreSQL (Neon) and Redis (Upstash, over HTTP). Its hard parts are not in any
one function but between them: every `await` lets other requests run, caches sit
in two tiers with different lifetimes, invalidation is several commands that may
fail one by one, and the SQL statements of one request are separate
transactions.

This directory holds TLA+ modules for those parts, TLC configurations that check
them on small instances, and proofs checked by TLAPS that the main properties
hold for all values of the constants. `PROJECT.json` lists the runs, the mutants
that show each property can fail, the source lines behind each definition, the
hazards and the disagreements found between the code and its documentation.
Paths below are relative to `src/` in the repository.

## The system

| Component | State | Operations | What makes it correct |
|---|---|---|---|
| Per-user caches (`services/cardService.ts`) | Redis: `user:{id}:v`, `seen_cards`, `review_due`, `progress`, `streak`, `batch:{id}:{v}:…`; a LocalCache for each kind | `getBatch`, `getUserProgress`, `getStreak`, `getSeenCardIds`, `getCardsDueForReview`, `invalidateUser` | no answered card is served again; stale values come only from races and failures and do not last |
| In-process TTL cache (`utils/localCache.ts`) | a `Map` in insertion order | `get`, `set`, `delete`, `deleteByPrefix`, eviction | never above its cap, never an expired value, evicts in order |
| Progress table (`cardService.ts`, `routes/auth.ts`) | `user_progress` | `markCardAsAnswered`, `claim-anon` | no answer lost or marked down, retries harmless, what is right stays right |
| Handoff (`services/handoffService.ts`) | Redis: `handoff:{token}` | create, resolve | no use after an answer, available until used |
| Friends (`routes/friends.ts`) | `users.friend_code`, `friends` | `/me`, `/add`, DELETE | friendship symmetric, codes stable, requests end |
| Feed (`services/cardAlgorithm.ts`, `cardService.ts`, `routes/cards.ts`) | the cached pages and views; the client's cursor | `calculateWeights`, `rankCards`, the slice of `getBatch` | no card twice in a walk, none passed over but for answers, the ladder brings harder cards forward |
| Catalog (`cardService.ts`, `scripts/seed.ts`, `seedBatch.ts`) | `cards`, `catalog:metadata:v1`, a LocalCache | fill, warm, replace, append, invalidate (from another process) | copies become current; a batch is stored whole |
| Daily challenge (`routes/daily.ts`, `cardService.ts`) | `daily_results`, `daily:cards:{date}:10` | get, status, complete, leaderboard | one set of cards a date, first completion wins |
| Events (`routes/events.ts`, `analyticsService.ts`) | `analytics_events`, `lastPruneAt` | flush, prune | an event counts once, at its first time, until the retention is over |
| Retries (`db/connection.ts`) | none | `withDbRetry` | bounded, only transient errors |
| Lifecycle (`index.ts`, `routes/health.ts`) | listening, in-flight requests | start, shutdown, ready | probes and shutdowns end |
| Analytics (`analyticsService.ts`, `getStreak`) | none | overview, retention, users, content, streak | the figures of a snapshot agree and count as days pass |
| Admin dashboard (`admin/dashboardHtml.ts`, `routes/admin.ts`, `middleware/admin.ts`) | the page's `state`, `tableUi`, `sessionStorage`, fetches in flight | unlock, lock, load, tabs, tables, pagers | shows what its controls ask for; its pages cut the rows exactly |
| Sessions, rate limits, logging, schema, migrations, deployment | — | — | see "Not modelled" |

How they interact: `POST /cards/answer` writes the progress table and then
invalidates the user's caches; `POST /auth/claim-anon` moves rows and invalidates
both users; `GET /cards/batch` and `/next` go through the version key, the batch
key and, on a miss, the seen and review views and the catalog; `GET /progress`
reads two views; handoff reads the seen view on create and the progress view on
resolve; the seed scripts delete the catalog key from outside the server. The
dashboard loads one summary, whose handler also starts a pruning that
nobody waits for.

Hard behaviour: interleaved requests at every await (caches, handoff, claims),
non-atomic GET/DEL and UPDATE/DELETE pairs, row-level locking of multi-row
inserts, commands that fail after they executed, `Promise.all` that rejects while
its other commands go on, restarts that lose the in-process tier, expiry at any
moment, caps reached, cursors into a list that shrinks, statements without a
time-out, replies that arrive in another order than their requests, windows and
grids counted in days. The list with lines is under "hazards" in `PROJECT.json`.

## Modules

| Module | Models | Proofs |
|---|---|---|
| `KeyValue` | Redis or a `Map` as a function: `Put`, `Drop` | where they are used |
| `UserCache` | the caches of one user and the requests on them | `CacheProofs` |
| `LossyCache` | what an in-process cache promises | — |
| `LocalCache` | `utils/localCache.ts`, which implements `LossyCache` | `CacheProofs` |
| `Handoff` | `handoffService.ts` and its routes | `HandoffProofs` |
| `Progress` | `user_progress`: answers, claims, the queries on it | `ProgressProofs` |
| `Friends` | friend codes and the table `friends` | `FriendsProofs` |
| `Catalog` | the card table, its copies, the daily cards, the scripts | `CatalogProofs` |
| `Ranking` | what a sort returns | `PagingProofs` |
| `Feed` | the ranking, the pages, a client that walks through them | `PagingProofs` |
| `Events` | the event table under retries, pruning, probes, shutdowns | `EventsProofs` |
| `Analytics` | the queries of the dashboard and the streak, over changing tables | `AnalyticsProofs` |
| `Dashboard` | the page of the dashboard and its fetches | `PagingProofs` |

`MC*` modules and the `.cfg` files instantiate them for TLC.

### UserCache

One user; keys of different users never meet. A cached value is abstracted to
the set of answered cards it was computed from, so that "stale" is "some
acknowledged answer is missing". `getSeenCardIds`, `getCardsDueForReview`,
`getUserProgress` and `getStreak` are one algorithm, line for line, over four
keys: a *view*. (`map` cites one of the four copies for each step of it.) A batch
is stored under a version; one key per version stands for the pages and filters
of that version.

Each slot runs one request. `req[s]` says which await it is at (`pc`), the
version it has in hand, where it stands with each view, what the page was
computed from, and which commands of an invalidation are in flight. A Redis
command or a query is one step, the code after its await another:

* `BatchStart`, `VersionGet`, `VersionFound`/`VersionAbsent`,
  `BatchHit`/`BatchMiss`, `FetchViews`, `RankPage`, `BatchSet`, `BatchFill` are
  `getUserCacheVersion` and `getBatch`;
* `ViewHit`/`ViewMiss`, `ViewQuery`, `ViewSet`, `ViewFill` are a view;
* `Write` is the upsert (or the statements of a claim) with the synchronous start
  of `invalidateUser`; `InvalidateIncr` and `InvalidateDel` are its commands in
  any order; `InvalidateDone` cleans the local caches and answers;
  `InvalidateFails` is its `catch`, after which commands already sent may still
  execute (`leftover`);
* `…Fails` actions are commands that throw; `Redis…Expires` and `Local…Expires`
  any expiry or eviction; `Crash` a killed process.

Abstractions: the set of answered cards is that of cards inside their 24 h
window, so it only grows (that it does is `SeenGrows` of `Progress`); the answer
to an empty page makes a second read of the progress view, which is a request of
its own; a retry by `withDbRetry` after a failed query changes no state and is
like a request that arrives later; a claim's invalidation of the anonymous id
concerns another user's keys; the values of a page depend on the seen view
alone; a SET in flight when the process dies counts as executed before or lost.
Expiry at any moment over-approximates the LocalCaches, which is what `LossyCache`
allows and `LocalCache` is shown to keep to.

An observer's mark `clean` says of a value that no invalidation overlapped the
requests that produced it. `ViewsFresh`, `BatchesFresh` and `CleanRepliesFresh`
say precisely what the design achieves: *a clean value reflects every answer
acknowledged whose invalidation went through*. What it does not achieve are the
findings below.

### LocalCache and LossyCache

`MapInit`, `MapNext` and `MapSpec` are the specification of the cache. The `Map` is a function with the relation `before` for its iteration order; the
clock may move to any of `Times`, backwards too. `LossyCache` lets the cache
forget anything at any time but never return a value that was overwritten,
deleted or has expired. `KeepsPromise` is `LossyCache`'s specification with
`held <- entries`, checked by TLC and proved.

### Progress

Rows by `<<user, card>>`, statements as transactions at READ COMMITTED. The
UPDATE of a claim takes its snapshot (`ClaimStart` with `Picked`) and commits
later (`ClaimUpdate`), or violates the primary key (`ClaimClash`); rows other
statements have removed in between are not found any more (`Unpicked`). A
statement may fail before or after it is executed. An answer is one statement
and may be sent again at any time.

`AnswersKept` follows each answer with its mark to one of three ends: it stands with
who gave it; it stands with the account to which a claim moved the row (`moved`); or the
account had a row for the card when a claim began (`skipped`), the claim dropped the
session's as a duplicate, and the account has its own still. In the third case the
mark may be lost, since the code prefers the account's row whatever the two say: an
account that had the card wrong keeps it wrong though the session had it right.

### Handoff

Each Redis command is one step. A token is 32 random bits, and nothing in the code
keeps it unlike another's: two handoffs may draw the same one, and the SETEX of the
second then overwrites the first. A token is known to its client as soon as it may have
been given out. Observer sets hold the handoffs that were answered, those answered
twice, and those on which something failed or that expired; a request carries what was
answered before it arrived. `LaterUseFails` speaks of the data and holds whatever
tokens collide; `Available` speaks of handoffs that are `Alone` on their token.

### Friends

The INSERT of `/add` takes its two rows in order: a committed row is skipped
without a lock, a row of an open transaction is waited for, two transactions
that wait for one another are broken up by the database. `raced` holds the pairs
whose removal overlapped an `/add`. `MeClash` allows both outcomes of a unique
violation, a retry and a 500: the handler looks for the code on the error itself,
where the driver's wrapper may not put it. Deleting an account is done by the
site on the same tables and is external. `hung` holds the requests whose statement the
database does not answer, since the pool sets no time-out (`db/connection.ts:28`): such a
request ends only if the statement fails at last, and a transaction that hangs keeps the
rows it has inserted.

### Catalog

`table` is `cards` as a function from ids to sentences, `shared` the key in Redis,
`local` the server's memory, `deck` the stored cards of the one date. A request is
`getCardMetadata` on a miss, await by await (`FeedStart` … `FillLocal`), for a feed page
or on the way to the daily cards (`DailyStart` … `StoreDeck`). A script is a process:
`seed.ts` replaces the table in one transaction, whose acknowledgement may be lost
and which is then run again, and which a foreign key refuses once a card to be
deleted has been answered; `seedBatch.ts` reads the largest id, inserts with ON
CONFLICT DO NOTHING, and deletes the key. Its `invalidateCatalog` also clears the
script's own memory, which nobody reads: the server's copy lives for its five
minutes, so cards are not "served immediately" as a comment in `seed.ts` says.
Observers: `late` requests hold a catalog read before the last commit, `behind` says
that what is stored came from one or was never deleted, `outdated` appends were
overlapped, `split` says that the date was dealt twice at once.

### Feed and Ranking

`InOrder` of `Ranking` is `Array.sort`: the elements of a set by how many come before
them in an order, which for the cards is `Order`, their scores and then their place in
the catalog, since the sort is stable. Cards are numbered in the order of the catalog;
`hash` is any assignment of numbers, since the real one can order cards in any way.

`GetBatch` serves the page of the client's cursor from `pages` or ranks it anew. What it
ranks by is not the table but two `views` of it, `seen_cards` and `review_due`, which
`getBatch` reads side by side and which are cached apart, with different TTLs
(`Viewed`, `ViewExpires`); the handoff reads the first alone (`ReadSeen`). `ComesDue` ends a
cooldown, of which neither view knows, so they may disagree: a card may be boosted and
still left out as seen, or come back unboosted. `Answer` drops `pages` (the new version
key) and both views; a wrong answer to a card that is due changes nothing else.
`Midnight` changes the hashes but not the key of a page. `UserCache` has the
interleavings inside one request.

A page *continues* the walk (`Continues`) if it was ranked on the date, the rung and with
the boosted cards of those before it, and no card that came due in the meantime is back
in its list. `steady` says that every page of the walk so far did. That excuses what
the code cannot do: a card that comes back in the middle of a walk pushes others past
the cursor, and one that is boosted late moves to the front, and in either case the
next page may show a card again. It excuses no answer, no cached page, and no view that
is only old: a page ranked by a stale view, or served from before, counts like any other.

The code's comments (`cardService.ts:44-46`, `cardAlgorithm.ts:120-122`) hold that the order
is stable, so that "cursor offsets stay meaningful". The order is stable, the list
is not: an answer removes a card before the offset, and the next page passes over
one that was never dealt. `SkipsOnlyForAnswers` is what remains: never more of them
than cards whose place in the seen set has changed since a page was ranked.

### Events

`req` are flushes under `withDbRetry`: `InsertFails` with its answer lost or not,
transient or not, `Backoff`, `Hang` for a statement that is never answered, since the
pool sets no time-out. `Look` is the summary's call of `pruneOldEvents`. The probe's
checks end by an answer or a time-out. `Signal`, `Drained`, `ShutdownTimeout`, `Crash`,
`Start` are the process. The handler's 202 with `accepted: 0` does not mean that the
rows are not stored; `RowsKept` speaks of what was acknowledged. A DELETE that fails
is not tried again for six hours (`analyticsService.ts:709`), which `OldRowsGo`
tolerates.

### Analytics

The tables are sets of `<<user, day>>` with the writes as single steps, since
`Progress` and `Events` have their interleavings, but for the events: `Receive` clamps
the time of an event when it arrives, `Insert` stores it at the first or a later attempt,
and midnight may pass in between. The queries are operators over them,
one for each expression of the SQL. A query reads one snapshot; an overview is two
statements in the code, which may read different ones. Properties compare figures
that come from different queries, and `StreakCounts` and `ClosedDaysStay` a figure with
itself a step later. `ClosedDaysStay` allows a closed day to gain a user by a claim, and by
an event that arrived while the day was open.

The model also shows what the figures mean, which the code does not say: an upsert
that turns an answer right moves it to today, so the day it leaves may lose its
active user and the streak its length; a claim leaves `daily_results` and events under
the session's id, so one browser counts as two users; pruning moves a user's first
day forward.

### Dashboard

`view`, `token`, `saved`, `controls`, `tab`, `data`, `table`, `cohorts`, `dom` are the page's variables,
`sessionStorage` and what is painted; `req` its fetches, answered in any order. One
table stands for all, since `dataTable` is one component. `Loaded` is the handler as it
is: it keeps and renders whatever arrives. Hence the exceptions in `ShownIsAsked`:
of two loads that overlap the later reply wins, whichever was asked for last, the
first one ends the `loading` state of both; one that arrives after the sign-out puts
its summary behind the gate; a late 401 of an earlier session locks the next. After
unlocking, the page painted before the sign-out is shown until the load returns.
`Matches` and `SortOrder` are the filter and the comparison of `paint`, `View` the rows in
that order. The page never asks for more rows than the server's ceiling (500 and 500,
`dashboardHtml.ts:529`, `admin.ts:70`), which `SizesAssumption` states and the footer
relies on. `Above` is the order of numeric columns. (In a text column a missing value compares as
the string "Infinity", before lower-case text when ascending.)

## Runs

One run per question. Passing runs (distinct states):

| Run | Question | Bounds |
|---|---|---|
| `UserCache_views` (4.0 M) | are the views fresh, whatever overlaps or fails | 2 slots, 2 views, 2 answers, no version at first, every failure |
| `UserCache_feed` (473 k) | are batches and replies fresh, and does staleness end | 1 reader, 1 writer, 1 write, version 1, failing commands and restarts, fair |
| `LocalCache` (39 k) | cap, order, promise | 4 keys, cap 3, TTL 1 or 2, clock 0–3 |
| `Handoff` (13 k) | no late use, availability | 2 handoffs, 3 slots, every failure |
| `Progress` (2.8 M) | no answer or mark lost, retries harmless, seen set, mastery | 2 accounts, 1 session, 1 card, 2 claims at once, clock 0–1, window 1 |
| `Catalog` (1.7 M) | are copies current in the end, daily cards one set, batches whole | 2 requests, seed and 2 appends, 2 runs of them, every failure, fair |
| `Feed` (210 k) | what does a walk deal and pass over; does the ladder work | 3 cards, pages of 1, one rung, 2 orders, 1 card that comes due |
| `Events` (332 k) | what is stored and deleted; does everything end | 1 event, 2 flushes at once, 1 retry, 2 failures, 1 stop, clock 0–2, fair |
| `Dashboard` (721 k) | do pages cut the rows; does the page show what was asked | 10 or 2 rows of which 9 are fetched, pages of 1, 4 or all, 2 fetches, 2 tokens |
| `Analytics` (116 k) | do the figures agree; does the streak count | an account, a session, 2 cards, 3 rows, those on the way included, days 0–4, weeks of 2 |
| `Friends` (375 k) | friendships, codes, every request ends | 2 users, 2 codes, 2 slots, statements that fail or hang, deletions, fair |

Why the bounds are enough: a race on a cached value needs one filler and one
invalidation, a race of invalidations two writes. `UserCache_views` has both in
two slots, and slots are used again, so a third request may follow. The
commands a failed invalidation leaves behind keep their slot until they have
executed or are lost, and overlap the request in the other. The versions that can differ for a reader of batches are the one it
holds, the current one and the next. The cap of the LocalCache needs more keys
than the cap, and two live entries beside an expired one. A claim's race needs
one row per side, and every property of `Progress` is about one card at a time;
two accounts that claim one session are the widest overlap there is. The deadlock
of two `/add`s needs two slots; removals take no slot, so the third party of the
other races is free to act. A stale fill needs one request and one script, and
`Catalog` has a second of each for the races among themselves; the feed's second page
needs a card before, in and after it, with nine pages the pager leaves gaps on either
side or on both, and the rows differ from what is fetched by one. A user of
`Analytics` needs a row for each of two days and another user one to be told apart
from, the smallest cohorts and windows that differ take two days, and the streak's
limit of two (365 in the code) is reached. Bounds that cut counters are `MaxAnswers` (writes in
a behaviour), `MaxTime` and `Times` (the clock), `MaxTries` (the retries of `/me`: 5
in the code, 2 here), `Handoffs`, `MaxRuns`, `Answerable`, `MaxDue`, `MaxFails`,
`MaxStops`, `Retries` (2 in the code, 1 here), `MaxRotations`, `Fetches`, `MaxDay`, `MaxRows`. The proofs do without bounds on sets; they show
that nothing depends on these sizes.

Deadlock is checked everywhere. Symmetry is used in safety runs only.

`UserCache_new_user` is a violation run: it shows what the repository's documentation
promises and the code does not keep, a finding in `PROJECT.json` with the quoted line.
The first INCR of a user without a version key yields the version a reader already
used, and an answered card is served again.

The models contain further such behaviours. Each of these definitions is in its
module and fails when it is added to the module's configuration:

* `SingleUse` (`Handoff`): the GET and the DEL of a token are two commands
  (`handoffService.ts:43`), so two overlapping resolutions both succeed, where
  `tests/handoffService.test.ts:38` says "single-use"; `LaterUseFails` is what holds;
* `DropsDuplicatesOnly` (`Progress`): an answer after the snapshot of a claim's UPDATE is
  deleted with the duplicates (`auth.ts:45`), though the account has no row for the card,
  where `auth.ts:44` says "duplicates of the real user's" and `auth.ts:15` "all
  user_progress rows"; `AnswersKept` is what holds;
* `WrongCoolsDown` (`Progress`): a second wrong answer does not renew `answered_at`
  (`cardService.ts:350`), so a card that is due and wrong again does not cool down, where
  lines 361-362 say "a wrong answer earns the card a 24h cooldown";
* `WrongFound` (`Progress`): a wrong answer leaves a row without a mark as it is
  (`cardService.ts:349`), and the review query never finds it, where lines 335-336 say
  "wrong answers update the existing row so the spaced-repetition filter can find them";
* `NoRepeatsOnADay` (`Feed`): a card that came due enters the list when one of the two
  cached views is renewed (`cardService.ts:224`), and the next page of the same day shows
  a card again, where lines 35 and 45-47 say "no repeats", "cursor offsets stay meaningful"
  and "same user + same day = same order";
* `ZerosHappened` (`Analytics`): elapsed weeks are measured from the Monday of the cohort
  (`analyticsService.ts:375-379`), so a cell shows 0 for a week that none of its members has
  reached, where lines 361-362 and `dashboardHtml.ts:1467` say it is blank;
* `Symmetric` (`Friends`): a removal between the two row checks of an `/add`
  (`friends.ts:113`) leaves a friendship in one direction, where `friends.ts:90` and
  `schema.ts:131` say "symmetric";
* `HandedOutCodeWorks` (`Friends`): of two codes given to one user at once
  (`friends.ts:65`), one leads nowhere, which lines 52-54 mean to prevent.

Without a definition: a view computed before an answer and stored after its DEL
(why `ViewsFresh` speaks of clean values); the version in the process set back by a
request that read it earlier (`cardService.ts:165`); a claim that violates the primary
key and answers 500 (`auth.ts:18-20`); an upsert that turns a first wrong answer into
a right one (`schema.ts:68-69` speaks of the first answer).

## Fairness

`UserCache_feed`: `WF(Step(s))`, since every command to Redis or the database
answers or throws and the event loop runs what it resumes; `WF` of each expiry
but the version key's, since every other entry is stored with a TTL. No request
need arrive. The writes are bounded by `MaxAnswers`: the property speaks of the
time after the last one.

`Friends`: `WF(Step(s))` for statements that do not hang, where `Step` leaves out the
failing ones, so that a request may not owe its end to a failure. A request in `hung` is
owed nothing, and `EveryRequestEnds` exempts one that is `HeldUp`: its own statement
hangs, or that of a transaction whose row it waits for. And `SF(Step(s) /\ AddRow(s))`: a row that
an `/add` waits for becomes free and may be taken again by another request, but
PostgreSQL wakes waiting transactions when the row is free, so a transaction is
not passed over for ever.

`Catalog`: `WF` of storing a catalog or failing to and of filling the memory, which
follow a command that answers or throws, and of both expiries. Nothing is assumed
of the scripts, of requests arriving, or of anything that would delete the key.

`Events`: `WF(Flush(s))` (a statement that does not hang is answered, the backoff's
timer fires), of the probe's time-outs and reply, of the shutdown's timer and the
platform's restart, of the pruning's DELETE, and of `Look \/ ThrottleEnds`: the operator
keeps looking at the dashboard, without which nothing is pruned at all. A statement
in `hung` is owed nothing.

## Proofs

TLAPS checks, for all values of the constants that satisfy the named
assumptions:

* **UserCache.** `TypeCorrect`; `ViewFreshness` through `ViewInv`; `BatchFreshness`
  and `ReplyFreshness` through `BatchInv`, for users whose version key exists and
  stays (`InitVersion > 0`, `~VersionExpires`; without that `UserCache_new_user`
  refutes them). `ViewsFresh` alone is not inductive: one must know that a clean
  read has no invalidation beside it (`CleanAlone`), that what it has fetched is
  fresh (`FetchesFresh`), and that between the DEL of a key and the end of the
  invalidation no clean value comes back under it (`DeletedNotClean`); only an
  invalidation has commands in flight (`CommandsOwned`). For batches the same
  argument runs over versions: none above Redis's is in use (`VersionsBounded`), and
  after the INCR no clean batch is under the new version (`OrphanedNotClean`).
* **LocalCache.** `Boundedness`, `OldestExists` (the relation `before` is a total
  order on finite non-empty sets of keys, by a minimal-element argument on
  cardinality), `EvictionOrder`, and `Implementation`: initial states map to initial
  states of `LossyCache`, every step to a step or a stutter.
* **Handoff.** `Invariant`, `ResolutionOnce`: a handoff is stored under the token it drew
  (`OwnTokens`); what was answered is stored no more, and neither is what a request past
  its DEL found. Collisions are not excluded: what a request found was under its client's
  token, whoever it belongs to. `Availability` rests on the same invariant and is inductive
  beside it: what a step removes, it has in hand, or is lost to it.
* **Progress.** `Invariant`, `NothingLost`, `RetriesHarmless`, `Mastered`,
  `SeenOnlyGrows`: a claim in progress has every unraced row of the session in hand, or
  found the account to have the card when it began (`ClaimCovers`), and such an account
  has it still (`SkippedThere`); a row that was moved carries its mark with it, and a right
  one is never marked down.
* **Catalog.** `CatalogFresh`: `SharedFresh` is not inductive without `HeldFresh`, that a
  request about to store holds the table's catalog or is in `late`; `Shape` says of
  requests and scripts that they are records by their names. `DailyAgreement`: until Redis
  fails or a second request deals, one request deals at most, Redis has no set while it
  does, and every set that was replied is the one Redis has (`DailyInv`). `WholeBatches`:
  a script past its SELECT that no commit has overlapped starts after every id of the
  table, so every row is inserted, and each sentence of its batch is there once until its
  DEL (`AppendInv`). It needs that the largest id of
  a finite table exists, and that batches are sequences (`BatchesAssumption`).
* **Friends.** `Invariant`, `Friendship`, `Symmetry`, `SettledCode`: what an `/add` has
  passed is committed, its own, or was removed under its hands (`RowsTaken`); nobody is
  about to set a settled user's code (`SettledAlone`).
* **Events.** `TypeCorrect`, `RowsStay`: the times a flush resolved when it arrived lie
  within the retention before its arrival (from `MaxBackdate <= Retention`), and it
  carries them unchanged through backoffs and repeated INSERTs (`FlushesOK`), so a row
  that is new, however late, is neither after its flush nor past the retention then.
* **Analytics.** The invariant is small, no row of a day to come and finitely many rows;
  the work is in the queries. `DaysClosed`: a claim adds to a day beyond the
  backdating, and an insert of what was received before it closed; what is on its way
  carries the day it was received. `StreakIsCounted`: `StreakAtMidnight`, `StreakPractised`, `StreakGrows`
  say of any set of days how the walk back from the last one changes. `Retained`:
  `WeekBegins` and the lemmas on quotients bound how far from its Monday a cohort may
  have begun and so the width of the grid; the week is any positive number of days.
  `Agreement`: `PartsAddUp` says that counting a finite set part by part gives the
  whole; the sums over days and over users are instances of it.

* **Feed.** What a sort returns is `InOrderPlaces`: place *k* has the element that
  *k* - 1 come before. Two facts say what a cursor meets when elements leave a list:
  who stays falls back no place (`AheadShrinks`), and no more move up to the first *n*
  places than have left (`FirstAdvance`). `DealtOnce` and `SkipsForAnswers` follow from
  `FeedInv`. Neither property is inductive; one must know that a page shows the places of
  its key (`Shape`) and how the views, the cached pages and the pages of the walk stand to
  one another and to the table (`ViewsInv`): what a view leaves out and the table does not
  has come due since, so that a page which continues the walk has lost only cards that
  were answered, and gained none. Then a card that was dealt is behind the cursor in every later ranking
  (`WalkInv`), and behind the cursor of the last one are no more cards that were never
  dealt than dealt ones that the rankings have lost since the first (`SkipInv`). `LadderHolds` compares
  fractions crosswise: a card that gains weight keeps ahead of one that loses
  (`BeforeKept`), and the table of weights says which tiers do (`Ladder`).
* **Dashboard.** `ShownAnswers` through `AskedInv`: without an overlap one load is in
  flight, with what the controls say, and a control is set only by sending a load.
  `PagesHoldRows`: the page that is painted is one that is there (`PaintedInv`), whatever
  is searched, sorted, resized or loaded, since every paint clamps it (`PaintedFits`); the
  rest is about any list: its slices are it, end to end, and none is empty
  (`SlicesWhole`, from `PagesHold` on the quotient), and the pager's numbers are given
  place by place (`ListPlaces`). `RowsInOrder` adds what the list is: every matching row
  once, after all that sort before it, since the comparison leaves no two rows without an
  order (`SortTotal`).

Inductions over finite sets and numbers (the largest of a finite set, sums, the pages
put end to end) go by a counterexample of the least size, since the library's induction
theorems take operators, which the installed provers cannot instantiate. The inductive
invariants were checked by TLC on the instances of the runs before they were proved.

Only model-checked: the liveness properties (`EventuallyFresh`, `EveryRequestEnds`,
`EventuallyCurrent`, `RequestsEnd`, `OldRowsGo`), which are out of the prover's reach.
Every safety property that a passing run checks is a theorem.

## Plan

1. `Feed` with filters and a catalog that changes under a walk.
2. The two reads of the clock in `GET /daily`, and `Catalog` over two dates.

## Not modelled

The session, rate-limit and logging middleware (no state of their own that other
components use); configuration; schema declarations and migrations beyond the keys
and constraints in the models of the tables; deployment. Of the modelled parts: the
text of hashes, the order of a card's options (`shuffleOptions` and
`shuffleCardOptions.ts`) and the category and difficulty filters of the feed; the two
clock reads, score, status and leaderboard of the daily challenge; `getModes`,
`getRecentEvents`, sessions, signups, names and the lists of hardest and easiest
cards of the analytics, read-only projections without arithmetic of their own or with the same as
what is modelled; charts, theme, CSV export and the token in the URL of the
dashboard. Browser-side caching by `Cache-Control` is the client's.

# StackRigs in TLA+

StackRigs is a catalogue of "builds": signed-in builders publish projects with
the technologies they use and a log of updates. A Go server (`src/cmd`,
`src/internal`) keeps everything in one SQLite database, answers a JSON API and
some SVG badges; an Astro/Preact site (`src/frontend`) calls it.

This directory models the server's own logic. The repository has no tests, so
what is stated here is derived from the code and compared with its comments and
with `src/api/openapi.yaml`.

## 1. Inventory

How the parts interact: every HTTP request is a goroutine of `net/http`. It
passes CORS, logging and counting, a rate limiter, the session check, an ETag
buffer and then a handler; the handler calls the stores, which issue SQL
statements on a pool of two SQLite connections (`database/db.go:28`). There are
hardly any transactions: most handlers are sequences of statements that
interleave with those of every other request. What two requests share is the
database and a few maps behind mutexes.

| Part | State | Operations | What is hard | What makes it correct |
|---|---|---|---|---|
| Builds (`handler/build.go`, `store/build.go`) | tables `builds`, `technologies`, `build_technologies`, `build_updates` | create, update, delete, add and delete an update, list | owner checked once, acted on later; link sync without a transaction; a build deleted during an update; foreign keys that are declared and not enforced | only the owner's requests change a build; a delete takes everything of its build along; ids are not reused |
| Search index (`store/search.go`) | FTS5 table `search_index` | upsert, delete, rebuild at startup, query | the index is written after, and apart from, the row it copies | one index row for a build, equal to the row once requests are over |
| Accounts (`handler/builder.go`, `store/builder.go`, `store/auth.go`) | `builders`, `invitation_codes`, `github_connections` | redeem a code, GitHub find-or-create, profile edit, avatar | check, insert and mark are separate statements; a stop between two inserts | unique handles; nobody gets another's builder; an account keeps its builder; a code makes one builder |
| Rate limiter (`middleware/ratelimit.go`) | bucket per address | allow, cleanup every minute | forgetting a bucket hands out a full one; times rounded to seconds | the limit; an honest `Retry-After` |
| Passkey ceremonies (`handler/auth.go`) | maps of running ceremonies, `webauthn_credentials` | begin and finish registration and login (by handle or by challenge), cleanup | two finishes of one challenge; a begin that replaces a running ceremony; expiry left to a sweep; sign counts written out of order | a challenge is used once, for what it was issued for, and not long after its time |
| Sessions (`store/auth.go`, `middleware/auth.go`, `handler/auth.go`) | `sessions` | create, check, delete, clean | lazy and periodic expiry; logout that fails; the request already checked | no session after logout or expiry; none lost early |
| Uploads, profiles (`handler/upload.go`, `handler/builder.go`) | files, `avatar_url`, `cover_image`, `display_name`, `bio` and its like | upload avatar, upload cover, edit profile, serve | file first, row second; equal names in one millisecond; several writers of one row, some with URLs of their own | what an upload was answered with stays; a row that an upload wrote names a whole picture; edits do not undo each other |
| Lists (`handler/build.go`, `handler/technology.go`, their stores, `lib/api.ts`) | a walk by offset | COUNT, SELECT, next page | a list that changes between two statements and two pages; limits clamped in one place and not in another | a walk misses or repeats a build only for a reason |
| Search (`handler/search.go`, `store/search.go`) | the index and the rows | three lookups, each with a LIKE behind it | an index that some writers keep up and others do not; a lookup that the database refuses | what is settled is found; an empty answer is true |
| Infra (`handler/infra.go`) | metrics cache, streams | sample, stream | cache checked and filled under different locks | a cached sample is recent |
| Uptime (`handler/infra.go`, `store/uptime.go`) | `uptime_checks` | check, history, cleanup | a history made of many queries, each with its own now; a ticker that starts with the process | a day is "unknown" only if nothing was recorded |
| Server life cycle (`cmd/server/main.go`) | listener, requests in flight | start, shut down | streams that outlive a shutdown | a shutdown ends |
| Database (`database/db.go`) | two connections | open, migrate | writers that wait for each other and may be refused; pragmas the driver ignores | a refused statement leaves nothing half done that matters |
| Badges, health, ETag, CORS, logging, config | none or a buffer | read | nothing that outlives a request | |
| Front end (`src/frontend`) | component state | search, explore, forms, live infra, sign in | answers out of order; reconnects | the page ends up showing the server that runs |
| Scripts (`src/scripts`) | images, backups | deploy, roll back, back up | a failing step half way | a failed deploy leaves the old version running |

The hazards, each at its line and with the properties that watch it, are in
`PROJECT.json` under `hazards`.

## 2. Plan

In the order of importance:

1. `Builds`: the catalogue itself, with its search index. **Done.**
2. `RateLimiter`, refining the abstract `TokenBucket`. **Done.**
3. `Accounts`: codes and GitHub sign-in. **Done.**
4. `Ceremonies`, refining the abstract `OneTimeChallenges`. **Done.**
5. `Sessions` (sign-in, check, logout, expiry, cleanup). **Done.**
6. `Uploads`, with profile edits and every other writer of the same columns.
   **Done.**
7. `Listing` and `Search`: reading the catalogue while it is written. **Done.**
8. `Metrics`, `Uptime`, `LiveFeed`: the running server, and the page that
   follows it through restarts. **Done.**

What is left would be the islands that show answers out of order
(`SearchIsland.tsx`, `ExploreIsland.tsx`), for which the code states no promise
to check, and the composition of `Search` with the statements of `Builds`:
`Search` takes over from it that a build has one index row, and repeats its
writers with less detail.

## 3. Modules

| Module | Models | Proofs |
|---|---|---|
| `Builds` | builds, links, updates and the index under concurrent requests | `BuildsProofs` |
| `MCBuilds`, `SerialBuilds` | instances of `Builds`; behaviours that are serial and others | `BuildsProofs` |
| `TokenBucket` | what a rate limiter promises (abstract) | `RateLimiterProofs` |
| `RateLimiter` | `middleware/ratelimit.go` | `RateLimiterProofs` |
| `Accounts` | codes, handles, GitHub connections | `AccountsProofs` |
| `MCAccounts` | instances of `Accounts`, with behaviours that are serial and others | `AccountsProofs` |
| `OneTimeChallenges` | what a store of running ceremonies promises (abstract) | `CeremoniesProofs` |
| `Ceremonies` | passkey registration and login, the two maps, the sweep | `CeremoniesProofs` |
| `MCCeremonies` | instances of `Ceremonies`: serial, timed, or neither | `CeremoniesProofs` |
| `Sessions` | sessions and their cookies, check, logout, expiry, cleanup | `SessionsProofs` |
| `Uploads` | avatars, covers, profile edits: files and the rows that name them | `UploadsProofs` |
| `MCUploads` | an instance of `Uploads`, about files or about profiles | `UploadsProofs` |
| `Listing` | paged lists and the walk over them | `CatalogueProofs` |
| `Search` | the lookups of a search and the index they rely on | `CatalogueProofs` |
| `MCCatalogue` | instances of `Listing` and `Search` | |
| `Metrics` | the metrics cache | `ServerProofs` |
| `Uptime` | recorded checks, their cleanup, the daily history | `ServerProofs` |
| `LiveFeed` | the server process and the page that shows its metrics | `ServerProofs` |
| `MCServer` | instances of `RateLimiter`, `Sessions`, `Metrics` and `Uptime` | |
| `MCLive` | instances of `Builds` and `LiveFeed`, for liveness | |

### Builds

A table is a function or a set, a request a record with a `pc` that names the
SQL statement it is about to issue. One statement is one action, because that is
the grain at which SQLite interleaves requests; `BuildStore.Delete` and
`UpsertBuildIndex` are transactions and hence one action too. A request enters
with its first statement (`Begin...`), which is also where it is refused (400,
401, 403, 404): a refused request changes nothing and is not a step. A failing
statement (`StatementFails`, only with `Faults`) ends the request and leaves
what it wrote. `Restart` may happen at any moment: requests are lost and the
index is rebuilt, or not, since `main` only logs that failure.

- `BeginCreate`, `BeginUpdate`, `BeginDelete`, `BeginAddUpdate`,
  `BeginDropUpdate`: the five write handlers up to their first write.
- `WriteRow`, `ClearLinks`, `SkipBlank`, `UpsertTech`, `InsertLink`,
  `LinkRefused`, `Reread`, `NilDeref`, `Reindex`: the statements of create and
  update, `syncTechnologies` as a loop over the body's slugs.
- `RemoveRows`, `RemoveLeaving`, `RemoveNothing`, `Unindex`: delete and its index
  statement. `RemoveLeaving` is the transaction whose first or second DELETE
  failed: those errors are ignored, and the children stay.
- `AddUpdate`, `DropUpdate`: the updates of a build.

Foreign keys are not enforced. The DSN asks for them with `_foreign_keys=ON`
(`database/db.go:20`), the spelling of another driver; the one that is imported
(`modernc.org/sqlite`, `go.mod:9`) takes `_pragma=foreign_keys(1)`. So a link or
an update may be inserted for a build that is gone (`CanLink` asks for the
primary key only), and `ON DELETE CASCADE` does nothing.

Abstractions. `text` stands for a row's data columns. `index` holds, for each
build, the sequence of its rows in the index, so that two rows with one text are
two; builder and technology rows are only written by the rebuild. `GetByID` is
one read, although it is three queries, since only the existence of the row and
its text are used.
`MaxUpdates` behaves like a full table. The cover image is in `Uploads`,
`updated_at` and the order of the lists in `Listing`.

### RateLimiter

Time is counted in ticks. A bucket of `requestsPerMinute` tokens earns exactly a
full bucket in a minute, so a bucket earns one unit a tick, holds `Minute` units
and a token costs `Cost`. `allow` runs under the mutex: `AllowNew`,
`AllowKnown` and `Refuse` are its three exits, together with what the middleware
tells the client (`reset`, and `retry` for `Retry-After`, rounded down to a
`Second` as `time.Duration(x) * time.Second` does). `Sweep` is the body of the
cleanup loop; it may be late but never early. The server has two limiters, 60
and 10 requests a minute; they share nothing, so each is an instance of this
module. Floating-point error is not modelled: amounts are exact.

### Accounts

As in `Builds`, one statement is one action. `BeginRedeem`, `CodeUnused`,
`CodeUsed`, `InsertBuilder`, `MarkUsed` are POST `/builders`; `BeginGitHub`,
`Refresh`, `CountHandle`, `InsertFromGitHub`, `Connect`, `ConnectRefused`,
`CreateSession` are the OAuth callback after GitHub told who is there. A
builder's row keeps its handle and the code or account it was created with (the
columns `invitation_code` and `github_url`); `Lower` and `Suffixed` are the
lower-casing of a name and what a random suffix makes of it. A callback brings
any user name, since an account can be renamed. The request counting the handle
ignores an error and goes on as if the handle were free: that is `CountHandle`
with `Faults`.

### Ceremonies

`regSessions` and `loginSessions` are the two maps, `credentials` the table
`webauthn_credentials`. A map is only touched under its mutex, so a begin is one
action, and a finish starts by taking its entry out (`Finish...`); `Attest` and
`Validate` are the library's check of the answer, `SaveCredential`,
`UpdateCredentialSignCount` and `CreateSession` the statements after it.
`FinishRefused` is a login finish that takes an entry and is refused at once: a
handle given as a challenge key or the reverse, or an answer that does not parse.
`cleanupExpiredSessions` runs every `Period`; `Tick` does not pass a sweep that
is due, so delays of the ticker are not modelled. `Restart` empties the maps.

Cryptography is the library's: an answer is to a challenge, by a passkey, with a
count, and the check compares the three. A request may bring the answer to any
challenge ever issued, as when two tabs are open. `issued`, `accepted` and
`counter` are history: what a challenge was issued for, what was granted, and
how often an authenticator signed. The library's `UpdateCounter` keeps the old
count when the new one does not grow.

### Sessions

`sessions` is the table, `cookies` what the browsers hold. `CreateSession` ends
both kinds of sign-in (what comes before it is in `Accounts` and `Ceremonies`),
`setSessionCookie` is the arrival of its answer; they are two actions because
the row is there before the browser knows its id, and the answer may be lost.
`BeginCheck`, `Look`, `Admit`, `Purge`, `Serve` are `extractBuilder` with
`GetSession` in it and the handler behind it: a request works with the row it
read, and with the builder it found, however long it takes. `BeginLogout`,
`DeleteSession` or `DeleteFails`, `ClearCookie` are the logout, which is not
behind the check. `CleanExpiredSessions` and `CleanFails` are the cleanup, whose
ticker starts anew with the process (`Restart`); `Tick` does not pass one that
is due. A random id of 32 bytes is the next number. A request that is not
admitted (401, or an optional check that finds nobody) is over.

`signedIn`, `loggedOut` and `late` are history: who signed in in which browser,
which sessions were deleted by a logout, and whether a request came after the
deletion. A request that came before it and is still being served is not
stopped; `LoggedOutStaysOut` does not ask for that. Nor does it speak of a logout
whose DELETE failed, which answers ok like any other and leaves the session as
it was (`handler/auth.go:555`).

### Uploads

An upload is a sequence of steps: the name is chosen (`UploadAvatar`,
`UploadCover`, up to the time in the name), the file opened and emptied
(`CreateFile`), the picture copied piece by piece (`CopyPiece`), the row updated
(`UpdateAvatar`, `UpdateCoverImage`), and the request answered (`AnswerUpload`).
The last two are apart because the row of an avatar is read again after its
UPDATE (`store/builder.go:96`): if that fails, or the process stops, the row
names a file that nobody was answered with (`StatementFails`, `Restart`). Nothing
but the time keeps two names apart.

The other writers of the same columns are `WriteProfile` (with the name its
session check read, if the body has none, and with the other columns as the body
has them), `RefreshAvatar` (a GitHub sign-in), `WriteCover` and `DeleteBuild`,
and POST `/builders`, which is why `Init` has any avatar. The `cover_image` of a
body, and the `avatar_url` of a new builder, are whatever the client says, the
URL of a half-written file included. `typed` is history: the rows that got a
file name in this way and not from an upload or its answer. `bios` stands for
bio, website and twitter_url. All pictures have one type, and what refuses a
request before it does anything is not a step. `reused` is history as well: the
names chosen twice in one millisecond, of which nothing is claimed.

### Listing

A walk (`lib/api.ts`) asks for one page after the other; a page is a COUNT
(`Count`) and a SELECT (`SelectPage`), and `has_more` is computed from the limit
that was asked for while the page is cut to the limit the store allows. A build
is a row with two time stamps and a status, and a link to the technology that is
asked about: what decides its place. The writers of builds are here with what
moves a build in a list; `Stamp` reads the clock, and `InsertRow` or `UpdateRow`
lands later. `SelectCut` is a loop over rows that ends at an error. `untouched`
and `events` are history: what the list did to the walk.

Abstractions. Sorting by name is left out: an edit may then move a build to any
place. Equal time stamps are left out (they have nanoseconds). The list of a
builder's builds is a list that nothing enters or leaves but by creation and
deletion, like the whole one. The list of all builders and technologies is not
paged.

### Search

A thing is a builder, a build or a technology, with one text. `text` is the
rows, `index` the index; what the tokenizer finds (`Matching`) and what LIKE
finds (`Containing`) of a text are constants without any relation. The writers
of builds are those of `Builds`, cut down to row, reading and index write;
`WriteUnindexed` is a builder or technology that nobody indexes; `Restart` is
`RebuildIndex`, which may fail. `SearchIndex`, `SearchLike` and their failing
forms go through the three kinds.

The lookup of technologies in the index never gives anything (`InIndex`): it
sorts by `bm25` behind `GROUP BY` (`store/search.go:385`), where FTS5 refuses
that function as soon as a row matches. Technologies are found by LIKE alone,
which is what `SettledIsFound` says of them, although the comment at
`store/search.go:159` speaks of a full-text search. A query of which the sanitizer
leaves nothing is answered with nothing at once, although the same comment speaks
of the LIKE fallback; nothing is claimed of such a query.

### Metrics

A sample is the time it was taken. `LookAtCache` is the reading of the cache
under the read lock, `CollectMetrics` and `Store` what a handler does that found
it expired. `slowest` and `newest` are history, since the process started.

### Uptime

Time is days and hours; the time of a check is its day. `checked_at` is written
with a 'T' and compared, as text, with what `datetime()` writes with a blank, so
a check of the very day of the limit is never older than the limit: days are all
that decides. The history is one query (`SummaryQuery`, or `SummaryCut` when its
rows end early) and one more for each date (`LookUpDate`, `DateFails`). The
cleanup's ticker starts with the process; a server that is restarted every day
never cleans up, although a comment says "daily" (`handler/infra.go:48`). The
statuses "partial" and "down" cannot occur, since only "ok" is ever recorded.

### LiveFeed

`proc` is the server process, `page` the component, with its mode and its count
of failures. A stream has two ends: `client`, and the handler in the process,
which may notice later or never that its client went. `Exit` takes all
connections with it, whether after `Shutdown` returned or by a crash. What the
page shows is told apart by the process it is about, so a late answer to a poll
can show a process that is gone. Left out: the dot that says "connected", which
a failing poll leaves as it was, and times other than their order.

## 4. Runs

| Run | Question | Bounds |
|---|---|---|
| `builds_race` | do two concurrent requests, with failures and restarts, ever write what is not theirs? does a new build adopt what a deleted one left? do index and links follow, and does a delete leave nothing behind, when the requests on one build do not overlap? | 2 requests, 2 builders, 2 builds, 2 texts, 1 update, bodies with one technology (serial: none, one, one behind a blank, two); `MCSpec` |
| `builds_stale` | (violation) does the index follow when requests overlap? | 2 requests, 1 build |
| `builds_vanished` | (violation) is an update answered when its build is deleted meanwhile? | 2 requests, 1 build |
| `builds_orphans` | (violation) does a link or an update outlive its build when requests overlap? | 2 requests, 1 build, no failures |
| `accounts_race` | can concurrent sign-ups with colliding names, failures and restarts mix up builders? does a code, or an account, make one builder when its requests do not overlap? | 2 requests, 1 code, 2 accounts, 2 user names, 5 handles, 3 builders; `MCSpec` |
| `accounts_github` | (violation) can an account get two builders? | 2 requests, 1 account |
| `ceremonies_race` | is a challenge granted once, and for what it was issued for? does the stored sign count keep up when logins of a passkey do not overlap? does no ceremony outlive its time, and none go early? | 2 requests, 2 builders, 2 passkeys, 4 challenges, counts to 3; with a clock: 1 of each, 3 challenges, 7 ticks, a time to live and a period of 2; `MCSpec` |
| `uploads` | does an answered URL keep its picture, does a row that an upload wrote name a whole picture, and what can undo a profile? | 2 requests, 2 pieces, 2 pictures, uploads to 3 names of files or to one again and again, 1 build, 2 milliseconds; for profiles 2 builders and 2 display names; `MCSpec` |
| `uploads_profile` | (violation) does an edit keep what it leaves out? | 1 request, 1 builder |
| `catalogue` | what can a walk miss or list twice, and why? what does a search find for certain? | 3 builds, 2 writers, pages of 1 (limits 1 and 2), 6 time stamps, 2 statuses; a builder and 2 builds, or a technology and a build, 2 texts, 4 queries, a LIMIT of 1, 2 editors; `MCSpec` |
| `server` | is the limit kept, `Retry-After` honest, and forgetting invisible? can a session be lost early, or live on after its logout, its expiry or in the wrong browser? how old is a cached sample? is a history right across midnight? | 2 clients, a minute of 4 ticks, a token of 3, a second of 2, 14 ticks; 2 requests, 2 browsers, 2 builders, 2 sessions, 3 ticks, an age and a period of 1; 2 handlers, a time to live of 2, 6 ticks; days of 2 hours, 2 days shown and kept, 4 midnights; `MCSpec` |
| `live` | does every accepted write request end? does the page find the next server, and does a shutdown end? | 2 requests, 1 build, a body naming a technology twice, failing statements; 2 streams, 2 polls, 2 retries, 3 starts; `MCSpec` |

`MCSpec`, in the MC modules that have one, says once and for all what a
behaviour is about, so that one run asks its question of several kinds of
behaviours without multiplying their states. In `SerialBuilds`, `MCAccounts` and
`MCCeremonies` a behaviour may be serial: the requests of one build, code,
account or passkey follow one another and nothing fails. The properties called
`Serial...` speak of those behaviours, the others of all. In a serial behaviour
of `SerialBuilds` no body names a technology twice either (`NoneTwice`): the
INSERT of the second link is refused, and that is a failure without any overlap,
after which the row has its new text and the index the old one
(`store/build.go:319`). In `MCUploads` a behaviour is about files or about
profiles, and in the second kind the edits of a builder follow one another
(`InTurn`); in `MCCeremonies` it may also be timed: `mode` says which; in
`MCCatalogue` it is about one list or a search, in `MCServer` about one of four
parts that share no state, in `MCLive` about one of two. Some of these behaviours
end where the properties have nothing more to say: with the end of a walk, a
search or a history.

Type invariants are not part of the runs: `TypeCorrect` and its like are proved
for every module that has theorems, so that only what could really go wrong
takes up a run.

Why the bounds are enough. The races here are between two requests: a check of
one, the writes of another, an act of the first; two slots that are used again
and again give every such order, and a third request only repeats one of them.
Two builds (three builders) leave room for a deleted id and a new one (a
collision, its suffixed form and the collision of that). Fourteen ticks hold a
burst, three idle minutes, a sweep and another burst. Four challenges let a
passkey be registered and used while two more ceremonies run; seven ticks hold
three sweeps, before, at and after the end of a time to live. Two pieces are
what it takes for a half-written file. Pages of one build make every step of the
list a step across a page, and three builds leave one in front of the walk, one
behind and one that moves. A LIMIT of 1 hides one build behind another. With two
days shown, midnight falls before, between and after the lookups. Two streams
are the one whose handler is still there and its successor. Two sessions and
three ticks hold one that is replaced by another in the same browser, or found
expired by a reader and by the cleanup at once. The sets of requests and, in
`Accounts`, of codes and accounts, in `Ceremonies` of builders and passkeys, in
`Sessions` of browsers and builders, and so on in the others, are symmetric and
used as such, never in a run with a liveness property.

Violations. The five `violation` runs are disagreements between the code and
what its comments, schema or API document say; they are described under
`findings` in `PROJECT.json`. In short:

- `builds_stale`: overlapping writers of a build can leave stale text in the index.
- `builds_vanished`: an update whose build vanishes panics instead of answering 404.
- `builds_orphans`: a link or an update that is added while its build is deleted
  stays behind, whatever the schema says of cascades.
- `accounts_github`: two first sign-ins of a GitHub account leave a builder nobody
  can sign in to.
- `uploads_profile`: a profile edit empties the bio, website and Twitter URL that
  it leaves out, under the comment "Keep existing values if not provided".

The `Serial...` properties show that in the first four overlap (or failure) is
all it takes: without it index, answers, cascades and accounts are right. A code
can be redeemed twice by overlapping requests for the same reason. The last needs
neither.

Fairness. `live` assumes, of `Builds`, weak fairness of every request's `Step`, which
is the Go scheduler running each goroutine; nothing is assumed about clients,
failures or restarts. Of `LiveFeed` it assumes weak fairness of the page's timers and
callbacks, of the handlers' tickers and their notice that a client went, and of
the return of `Shutdown`, each of which runs once it is due. Of the network it
assumes that a stream that is asked for is answered or breaks, and, as strong
fairness, that a poll which is sent again and again is answered once and that
the event sent in one flush with a stream's header arrives at last. It does not
assume that streams are ever accepted, that they stay open, or that the process
stays up: `LiveAgain` says what follows when it does. Without the assumption
about the first event, a stream that opens and breaks before it would reset the
count of failures each time and be tried for ever (`InfraLive.tsx:78`).

Deadlock is checked wherever the system cannot stop (`Restart` is always
possible). It is switched off for `catalogue`, where a behaviour ends with its walk
or search, and for `server` and `live`, where it ends with the bounds on clocks and
starts.

## 5. Proofs

Proved for every value of the constants that satisfies the named assumptions of
the modules (they say that bounds are numbers, that the model values are
distinct, what the conversions return and, for `Retry-After`, that a token and a
second fit in a bucket). The theorems about serial behaviours speak of the
`SerialNext`, `CountedNext` or `InTurn` of the MC modules, which the proof
modules therefore extend; what those modules add for TLC alone (the bodies of a
request, how much is uploaded) they do not rely on.

`BuildsProofs`
- `TypeCorrect`. `TypeOK` is inductive because `Prepared` ties a request's `pc`
  to what its record holds.
- `OwnershipNeverStale`, `WritesAreOwners`, `CleanBirths`: all from
  `OwnInv == TypeOK /\ IdsGiven /\ OwnershipHeld`. `OwnershipHeld` alone is not
  inductive: a create could give out the id a request in flight still refers to.
  `IdsGiven` says every id in a row or a request was given before, so
  `AUTOINCREMENT`, which only goes up, gives a new one.
- `OneRowPerBuild`: directly, from delete-and-insert in one transaction.
- `SerialIndex`, `SerialLinksRight`, `SerialParents`, `SerialAnswers` from `SerialInv`: a build
  that no request works on is `Synced`, its index rows being those of its row;
  the one request that does works on a build that is still there, carries to the
  index the text of the row, and has linked exactly the technologies in front of
  the slug it is at (`Working`). `OneBuildStep` says once for all actions that a
  step of a request on its build leaves the others' builds as they were. Without
  `NoneTwice` it is false, as above. `SerialAnswers` is the other side of
  `builds_vanished`: the nil dereference takes an overlapping delete.
- `SerialParents`: a request that inserts a link or an update works on a build
  that is there, since no other request works on it; the delete takes all of them.
- `RequestsAdvance`: a rank, `Left`, the statements that a request has still to
  issue at most (two for each slug to come), falls with each of its steps and
  failures, and nobody else's step touches it but a restart, which ends the
  request. This is the safety half of `EveryRequestEnds`, for bodies of any length.

`RateLimiterProofs`
- `LimitHolds` strengthens the limit by what is still in the bucket:
  `Level(c) + granted[c] * Cost <= Minute + now` (`Paid`). The step that needs
  it is the sweep, which leaves every level as it is (`LevelSweep`): whoever was
  idle for three minutes has a full bucket.
- `RetryHolds` from `Filling`: since it was refused a client's bucket is full but
  for the time it still has to wait and less than a second of rounding.
- `Refinement`: the limiter implements `TokenBucket` with
  `level <- Level(c)`; a sweep and a refusal are stutters.
- `WindowHolds`: the limit holds in every window of time and not only since the
  start: from any moment on, what was admitted and what is in the bucket has been
  paid for by a full bucket and the time since (`PaidSince`). No run states it,
  since it quantifies over two moments.
- `BucketPromise`: `TokenBucket` itself keeps the limit, so that refining it is
  worth something.

`AccountsProofs`
- All from `IInv`: a request carries only an id it learned from the row it
  inserted or the connection it read (`Sound`), and tables only grow (`Grows`),
  so what it learned stays true. `NobodyIsTakenOver`, `SessionsAreOwn`,
  `MarksAreHonest`, `ConnectionsStay`, `TypeCorrect` follow.
- `SerialCodesOnce`, `SerialNobodyStrays`, `SerialAccountsOnce` from `SerialInv`:
  who is about to insert for a code or an account is the only one and finds it
  unused (`First`), and every row is marked or connected, or its request is on the
  way there (`Pending`). So a code and an account make one builder (`OneMade`).
  `SerialAccountsOnce` is the property that `accounts_github` refutes when
  sign-ins overlap.

`CeremoniesProofs`
- `TypeCorrect`, `UsedOnce`, `GrantsAsIssued` from `IInv`. A challenge is in one
  place only: a map, the hands of one request, or the grants (`Apart`). That
  taking an entry out of one map leaves its challenge nowhere else needs
  `Linked`, which ties an entry to its key through what the challenge was issued
  for; and `Verified`, that a validated login's passkey is its builder's.
- `NoStale` from `InTime`: the sweep that is due comes in time for every entry.
- `NoEarlyExpiry`: and it takes nothing that may still be finished. A finish
  takes the ceremony it carries on with, a begin leaves one in its place.
- `ImplementsOneTime`: the maps and the requests implement `OneTimeChallenges`,
  with `open` the challenges in a map or in hand; begin issues, a grant uses,
  and everything else drops or stutters. `StorePromise`: `OneTimeChallenges`
  itself uses no challenge twice.
- `CountsInTurn`, and from it `SerialCounts`: a validated login that has not
  stored its count carries one no smaller than the stored count, one that has is
  covered by it (`Covered`), because no other request has that passkey. It holds
  with the clock, the sweep, restarts and INSERTs that fail; what it excludes is
  overlap and the one error the code drops, that of the UPDATE.

`SessionsProofs`
- `TypeCorrect`, `LogoutHolds`, `SessionsAreOwn` from `IInv`: every id in a row,
  a cookie or a request was given before (`Given`), so that a new session is
  nobody's but its request's; a deleted id has no row (`Gone`); whoever holds the
  id of a row signed in as its builder (`Held`).
- `NoSessionEndsEarly` also needs `Copied`: the row a request read is the one the
  table still has under that id, so what was found expired is.
- `NothingLingers` from `Timely`: a row that is left expired after the last
  cleanup, or after what came instead of one.

`UploadsProofs`
- `TypeCorrect`, with the files that a copying request has opened.
- `PublishedStays` from what a request has copied so far being in its file, and
  from two uploads sharing a name only if it is in `reused`: whoever writes into
  a file that someone else was answered with has reused its name.
- `RowsNamePictures` from `RInv`: the file that a row names is settled, which is
  to say that its picture is whole and nobody is writing into it, or else its
  name was chosen twice. That it is whole is not inductive without the second
  part. `AvatarsStay` directly from the writers.
- `NamesInTurn`, and from it `SerialNames`: an edit without a display name holds
  the one its builder still has (`Holds`), because no other edit of that builder
  runs; uploads, failures and restarts may.

`CatalogueProofs`
- `SearchTyped`, `SettledAreFound`, `EmptyMeansNone`: a thing that is neither
  written, lapsed nor tangled has its own text in the index; what changes the
  catalogue under a search only makes fewer things wanted; and looking one kind
  up settles that kind and no other. A technology is `Sound` by its LIKE lookup.
- `ListingTyped`, and `StampsApart`: no two rows, and no write that is still to
  land, have one time stamp. So the places of a list have no gaps (`NoGaps`),
  which is an argument about cardinalities.
- `MovesRepeat`: as long as nothing rose, what a walk has told lies in front of
  what it will ask for next.
- `LossHides`: as long as nothing left, fell, grew or failed, every untouched
  build that was not told lies behind; the last page then leaves nothing.

`ServerProofs`
- `RecentSamples` from the dates of what the cache holds: it was taken no longer
  than `slowest` before it was stored, a time to live before it expires.
- `HonestHistory` from `ChecksKept`, that the cleanup deletes nothing a history
  can still count, and from `ReportEntries`, which says for each date that was
  looked up what its entry is, as long as midnight has not passed.
- `SweptHistory`: the slack of one day opens when midnight passes after a
  cleanup, and closes at the hour of the next.
- `FeedTyped`: the page counts no further than its retries.
- `OneSourceAtATime`: streams and polls never compete for what the page shows.

Only model-checked: liveness (`EveryRequestEnds`, `LiveAgain`, `ShutdownEnds`).
It rests on fairness, hence on ENABLED, which is beyond the prover; of
`EveryRequestEnds` the part that does not is `RequestsAdvance`. Every other
property of a passing run is a theorem.

## 6. Not modelled

- Badges, health, ETag, CORS, logging and configuration: functions of one
  request, of nothing that another one could change.
- The islands but `InfraLive`, and the pages. `SearchIsland` and `ExploreIsland`
  show whatever answer arrives last, and `BuildFormIsland` saves a build and then
  uploads its cover, after a failure of which a second submit creates the build
  again; the code promises nothing about either. The sign-in page answers a
  discoverable login without the `challenge_key` that the handler asks for
  (`signin.astro:103`), so composing it with `Ceremonies` would show nothing but
  a refusal.
- The scripts. The rollback of `deploy.sh` gives the old image a name that the
  compose file does not use (`deploy.sh:112`); what happens then is decided by
  docker.
- The pool of two connections as such. That a statement may be refused when the
  other connection writes for too long (`database/db.go:28`) is a failing
  statement of every module.
- The migrations and `schema.sql`: static, run once at startup. What their
  constraints do is part of the modules that rely on them.
- Search ranking and what the tokenizer makes of a text, the drawing of badges,
  the measurement of metrics, and `src/ee`.

`X-RateLimit-Reset` is modelled, but nothing is claimed of it: it is computed
before the request is paid and so is about a token early, and nothing in the
repository reads it. The OAuth redirect, which only sets a cookie with a random
state, is left to its callback: a callback without that cookie is refused.

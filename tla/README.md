# survey-forms in TLA+

survey-forms is an HTTP server in Go: users publish questionnaires, answer
them, read what was answered, and keep a shopping cart of answers. Its state is
five PostgreSQL tables and one Redis list per user. Nothing is kept in the
process between requests, so what is hard is what concurrent requests, failing
statements and dying processes do to the two stores.

This directory specifies that in TLA+, checks it with TLC and proves parts of it
with TLAPS. The code is the reference: every definition listed under `map` in
`PROJECT.json` names the lines it models.

- [The system](#the-system)
- [The modules](#the-modules)
- [What the runs check](#what-the-runs-check)
- [What is proved](#what-is-proved)
- [Where code and documentation disagree](#where-code-and-documentation-disagree)
- [What is not modelled](#what-is-not-modelled)
- [Plan](#plan)

## The system

| Component | Code | State | Operations |
| --- | --- | --- | --- |
| Survey writes | `handlers.go:40-137, 185-268`, `db.go:143-250, 370-499` | tables `surveys`, `questions`, `choices`, `submissions`, `answers`; open transactions and their row locks | `CreateSurvey`, `CreateSubmission`, `DeleteSurvey` |
| Survey reads and catalog | `handlers.go:139-183, 270-476`, `db.go:252-368, 501-751` | none of its own | `GetSurveys`, `GetSingleSurvey`, `GetSubmissionsBySurvey`, `GetSubmissionsByUser`, `GetPublicSubmissionsBySurvey`, `GetPublicAnswersByQuestion` |
| Shopping cart | `handlers.go:478-610`, `redis_cache.go` | one Redis list per user | `AddToCart`, `GetCart`, `RemoveFromCart`, `ClearCart` |
| Request validation | `validations.go`, `dto.go` | none | decoding, `ValidateSurveyAdding`, `ValidateSubmissionRequest`, uuids, email, password, pagination |
| Accounts and tokens | `auth/`, `handlers.go:612-683`, `db.go:111-148` | table `users`; the JWT settings | `RegisterUser`, `LoginUser`, `CreateToken`, `ValidateToken`, `AuthMiddleware` |
| Startup and schema | `main.go:19-66`, `db.go:18-109` | the schema, an advisory lock, table locks, one connection | open, lock, create tables and indexes, unlock |
| Configuration | `config.go` | read once, after the schema | `LoadConfig`, `ParseDomains` |
| Connection pool | `database/sql`, `db.go:78-94` | idle and used connections | taken for each statement and transaction |
| Test helpers | `testutil/` | none in production | - |

How they interact. `main.go` routes a request through `AuthMiddleware`, which puts
the claims of the token in the context, to one handler method. The handler
validates and calls the repository (`db.go`, SQL over `database/sql`) or the
cache (`redis_cache.go`). Handlers never call each other; everything they share
is in PostgreSQL and Redis.

What is hard, and for which the properties are meant (`PROJECT.json` lists each
hazard at its line):

- *Survey writes.* `CreateSubmission` checks that the survey exists, reads its
  questions, reads their choices one question at a time, and only then opens a
  transaction that inserts a submission and its answers one row at a time. Any of
  it may interleave with `DeleteSurvey`, whose ownership check is outside its
  transaction, too. Only row locks of foreign keys tie the two together. No
  constraint says that an answer belongs to its submission's survey. Statements
  fail, COMMIT may take effect and its reply be lost, the process may die.
- *Reads.* Every response is put together from several statements without a
  transaction, pages from several requests.
- *The cart.* Removing an item is two Redis commands with a marker in between.
  Requests of the same user interleave. The client library repeats commands, so
  that one may run twice, or after its request was answered.
- *Accounts.* Registrations of one address race to a unique index that compares
  spellings, while the domain check does not. The answer to an INSERT may be lost
  and the statement sent again, or run late. Tokens are checked once, at the door.
- *Startup.* The advisory lock belongs to a session, while lock, batch and unlock
  are three statements on a pool: when a session breaks in between, the batch
  runs beside another server's. Every start locks tables that running servers
  write to. A server that ends is started again, at once.
- *Decoding.* Trailing data is looked for one token far.

What makes each correct:

- *Survey writes*: each request takes effect as one atomic step or not at all;
  references hold; a submission answers its survey; a survey is deleted once, by
  its owner or an admin; replies are true; no wait lasts for ever.
- *Reads*: what is shown was there, to the one who may see it; what is missing
  is missing because of a deletion; paging misses nothing that was there.
- *Cart*: as users see it, each request does to the list what it says, and
  markers go away.
- *Accounts*: one account per address, of the one who was told so, who can log in
  from then on; a token admits that account and no other, for as long as it lives.
- *Startup*: nobody serves without the schema; starts neither fail nor wait in a
  cycle because of each other or of writes; whatever broke, servers come up.

## The modules

| Module | Models |
| --- | --- |
| `SurveyStore` | abstract: publish, submit and retract, each one step |
| `SurveyWrites` | the three writing handlers, one step per SQL statement, COMMIT or reply; implements `SurveyStore` |
| `SurveyReads` | the six reading handlers, one step per query, composed with `SurveyStore` for the writers |
| `CartStore` | abstract: one list per user |
| `Cart` | the four cart handlers, one step per Redis command, with lost, late and repeated commands; implements `CartStore` |
| `Accounts` | registration, login and the middleware over the users table and a clock, with broken connections and late statements |
| `Startup` | servers that start, serve, end and start again, against the locks of one database |
| `Decoding` | `DecodeStrict` over a body that is still being sent |
| `MCSurveyWrites`, `MCSurveyReads`, `MCCart`, `MCAccounts`, `MCStartup` | small instances for TLC |
| `SurveyWritesProofs`, `SurveyDeletionProofs`, `SurveyWholeProofs`, `SurveyStoreProofs`, `SurveyReadsProofs`, `CartProofs`, `AccountsProofs`, `StartupProofs` | theorems and proofs |

`SurveyReads` takes the abstract store for its writers because `SurveyWrites` is
proved to implement it: a read sees committed rows only, and those change exactly
as the abstract store does.

### SurveyWrites

A request is received once, does one thing (`req`) and is at one stage (`pc`).

| Variable | Code |
| --- | --- |
| `db` | committed rows. A row is a record with its table and id, its foreign keys, and what validation looks at: type and mandatory of a question, choice and text of an answer |
| `seen` | `SurveyQuestionMeta` as read so far (`db.go:386-454`) |
| `at` | where the nested INSERT loops are (`db.go:169-184`, `484-493`) |
| `inserted`, `deleted` | what the open transaction wrote; also its locks |
| `committed` | history: the COMMITs the database applied |
| `resp` | the status sent |

| Action | Code |
| --- | --- |
| `CreateSurvey` | decoding, `ToSurvey`, `ValidateSurveyAdding` |
| `CreateSubmission`, `DeleteSurvey` | up to the first statement |
| `SurveyExists`, `ReadQuestions`, `ReadChoices`, `ValidateSubmission` | the checks of `CreateSubmission` |
| `CheckOwnership` | the check of `DeleteSurvey`, which an admin skips |
| `Insert` | one INSERT of either transaction, in the order of the loops |
| `DeleteRow`, `Cascade` | the one DELETE: its own row, then the foreign-key triggers |
| `Commit`, `Reply` | COMMIT in the database, then `tx.Commit` returns |
| `StatementFails`, `CommitReplyLost` | errors before and after a statement took effect; the deferred `tx.Rollback` |
| `Crash`, `Reap` | the process dies; the database notices and rolls back |
| `Quiet` | nothing is in flight: the server waits for requests |

PostgreSQL is external and modelled by what the code relies on: READ COMMITTED,
an INSERT takes `FOR KEY SHARE` on the rows its foreign keys name, a DELETE locks
the rows it deletes, each waits for the other, and both until the transaction
ends. uuids are drawn by naming the request that draws them, so they are unique.
What clients may name is what was published, or a uuid that names nothing.

Left out: requests refused before any state is looked at (no valid token, an
undecodable body, a malformed uuid). They answer 400 or 401 and change nothing.

### SurveyReads

One action per query. `AnyOrder` and `NewestFirst` let rows without an ORDER BY, and
rows with equal times, come in any order. `submitted_at` is taken by
`time.Now()` in the handler (`Prepare`) and the row appears later (`Write`): the
order of times is not that of commits. A catalog client asks for page after page
until one is empty. Its responses are kept as the submissions shown. `is_public`
is true in every row the handlers write, so the filter is not modelled. Question
ids, which the response to `GET /survey/{id}` leaves out, are kept to tell questions
apart.

### Cart

`LPush`, `LRange`, `LSet`, `LRem` and `Del` are one Redis command each; Redis
runs one at a time. `Resend` is go-redis repeating a command it had no answer to
(`MaxRetries`, 3 by default), `GiveUp` its returning the error. What was sent
before is in `late` and may run (`Late`) at any later time, or never. `Crash`
kills the server process. `applied` and `swept` are history: how often LPUSH,
LSET or DEL of a request took effect, and whether its LREM ran. The marker is
a value that is not an item and does not decode as one.

Left out: a restart of Redis itself, and `Len`, which no handler calls.

### Accounts

| Variable | Code |
| --- | --- |
| `accounts` | rows of `users`: address, hash, and the request whose INSERT made them |
| `late` | INSERTs whose client gave up or sent them again: each may still run, or never |
| `found`, `time` | what `FindUserForLogin` returned or the claims of a token name; when a token was made or a request admitted |
| `before`, `failed` | history: which registrations had succeeded when a request was sent; of which requests a statement failed |
| `clock` | `time.Now()`, up to `MaxClock` |

| Action | Code |
| --- | --- |
| `Ask` | decoding, `ValidateEmail` and `ValidatePassword`; the header for `AuthMiddleware` |
| `Insert` | `CreateUser`, against the unique index and `VARCHAR(255)`; the status |
| `LoseInsert`, `LateInsert` | the connection breaks: an error, or lib/pq has database/sql send it again; what was sent runs later |
| `Lookup`, `LoseLookup`, `Issue` | `FindUserForLogin` and `CheckPassword`; their errors; `CreateToken` |
| `Admit`, `Handle` | `AuthMiddleware` with `ValidateToken`, then the handler with `GetClaims` |

An address is a mailbox, a domain and the spelling sent; the domain is compared
without case, the row by spelling. A password is its first 72 bytes, which are all
that bcrypt compares, a length and whether it is ASCII; two that differ only after the
first 72 bytes are not shorter than that (`AccountInputsAssumption`). Passwords
with a NUL, of which bcrypt takes a repetition for the same, are left out. Tokens are made by `CreateToken` alone,
with this server's secret, issuer and audience, so that a token is its login.
Left out: roles (every row has the column's default) and who forgets a token.

### Startup

A process is at a statement of `InitSchema` (`pc`), and uses one session (`conn`):
before it serves it runs one statement at a time, so its pool never opens a
second one unless the first broke. A session is a PostgreSQL backend (`run`): it
may hold the advisory lock (`holder`), have created tables it has not committed
(`creator`), and lock tables (`Shares`). A running server writes in one
transaction at a time (`writer`), to `submissions` and then to `answers`, which is
the order of `InsertSubmission` and of the cascade of a deletion.

| Action | Code |
| --- | --- |
| `Start`, `Exec` | `OpenDB`; `db.Exec` on the pool's connection, or a new one |
| `GrantLock`, `Unlock` | the advisory lock; unlocking in a session that does not hold it warns only |
| `CheckSchema`, `CreateTables`, `CreateIndex`, `Commit` | the batch `initSchema`, which PostgreSQL runs as one transaction; each is a step since others come between |
| `BeginWrite`, `WriteAnswers`, `EndWrite` | what a serving process does to the tables |
| `Crash`, `LoseReply`, `Terminate`, `Hangup` | a process, a connection or a backend ends; a backend without a client |

`Return` is what the process does with each result: `InitSchema`'s early returns and
deferred unlock, and `LoadConfig`, which runs after it. The three indexes on
`submissions` are one step, since they lock the same table.

### Decoding

A body is a sequence of lexemes that arrives while `Decode` and `Token` read it. What
each of these library calls does with the next lexeme is all that is modelled.

## What the runs check

The runs of writers have four concurrent requests: enough for one to set the
stage, two to conflict and a third to come between. Those of readers have one
client, which shares nothing with other readers, against all writers.
`PROJECT.json` has a mutant for each property: a plausible bug under which TLC
finds the property violated.

**`survey_writes`** (`SurveyWrites.cfg`, 477,087 states). A survey with a mandatory choice and
an optional text is created (or one of five malformed ones refused); a submission
good or bad in four ways; a deletion by the owner, a stranger, an admin, or of
nothing; and a second submission or deletion. Failures and crashes anywhere.

- `ReferentialIntegrity`: no row refers to one that is gone.
- `LockSafety`: what an open transaction refers to is there and nobody is
  deleting it; a DELETE that ran caught all that depends on what it deletes.
- `SubmissionsAnswerTheirSurvey`: only own questions, each once, own choices,
  all mandatory ones, for as long as the submission is there.
- `AllOrNothing`: all rows of a committed request and none of any other.
- `RepliesTruthful`: 2xx means committed, 4xx not; 404 only if there is no such
  survey; a valid submission gets 400 only if its survey was deleted meanwhile.
- `DeletedOnce`, `OnlyItsOwnerOrAnAdmin`: at most one deletion succeeds, and
  only one that was allowed, however old the check is.
- `CascadeNeverWaits`, `NoDeadlock`: a DELETE that has the survey's row
  finds everything below it unlocked, since an INSERT locks the survey first.
  These and `EveryRequestEnds`, not TLC's deadlock check, say that nobody waits for
  ever: a request that waits can always fail or crash, so TLC sees no dead end.

**`survey_pairs`** (`SurveyPairs.cfg`, 42,802 states). Two surveys, submissions that mix
their questions, deletions of either. Checks `CascadeNeverWaits` where a
cascade of one survey meets a submission to the other,
`EveryRequestEnds` under fairness, and `ImplementsStore`: the statements together
are one atomic publication, submission or retraction at the COMMIT.

Fairness: weak fairness on the next step of a received request (a goroutine
runs and a statement that need not wait returns; one that waits for a lock is not
enabled) and on `Reap` (PostgreSQL notices a closed connection). No fairness
on arrivals, failures or crashes.

**`survey_listings`** (`SurveyListings.cfg`, 561,842 states). One client, any
of the reads that are no pages, while two surveys and three submissions come and go;
three points in time, so that two submissions have equal or different times.

- `SurveyTornOnlyByRetraction`: a 200 shows the survey whole, unless it was
  deleted during the read; even then no question has a part of its choices.
- `ListingsTruthful`: only what the caller may see, newest first, each submission
  with all its answers or, if its survey is gone, with none.

**`survey_pages`** (`SurveyPages.cfg`, 1,405,720 states). One client pages through the
catalog with pages of one, two or the default size. `PagesMissNothing`: what
was there at the start is seen, though submissions arrive in front of and
between what was read. It leaves out submissions with equal times, and fails
without that: nothing orders them, and two queries may order them differently.

**`cart`** (`Cart.cfg`, 428,251 states). Adding, removing at either end or out
of range, reading and clearing by two users, with at most `MaxFaults` = 2
faults (lost answers, repeats, crashes) of which `MaxResends` = 1 repeat for each
command. go-redis repeats up to three times. One repeat already yields a
second execution, and what two more add is bounded by the proofs, which hold for
any number.

- `MarkersOwed`: the markers in a cart never outnumber the LSETs no LREM has
  answered for yet, although LREMs take each other's markers.
- `UnreadableOnlyWhileRemoving`: while Redis answers, `GetCart` fails only
  if a removal is between its commands or was broken off there.
- `MarkersGo` (liveness): a marker goes away, unless a removal of that user's ended or died
  with its LSET done and no LREM to follow, or had its LSET run twice (`BrokenOff`).
  A removal that is only refused for its index excuses none.
- `EveryCartRequestEnds` (liveness).
- `ImplementsCartStore`: without markers, each cart changes by its own user's
  requests, one step each, no more often than they were sent.
- `NothingLost`: an item that was added and is not seen was taken out by a
  removal, or the cart was cleared. Removals may share one item, which is the true part
  of `AcknowledgedRemovalsRemove` below; none ever takes two, nor does an LREM
  take an item.
- `NothingForged`: what is seen was added by its own user, as often as it is seen.
- `RemovalTakesItsItem`: a removal that no other one disturbs takes out the item
  its user sees at the index.

`MCCart` also has TLC evaluate `VisibleIsFiltering`: `Visible`, which counts the places of
items, is the filter that drops markers, on every list up to five long.

Fairness: weak fairness on the command a live request waits for. Late
commands may never run.

**`accounts`** (`Accounts.cfg`, 625,301 states). Two registrations of one mailbox, in
one spelling or two, with two passwords, or six that are refused; a login in
either spelling, with a password too long to be registered; and a second login or
a request with the first one's token. Tokens live for one tick of two, so that
one is used before and after it expires. Any statement may be lost.

- `RegistrationTruthful`: at most one registration of an address is answered 200,
  and the account is its own, with its password, whatever late statement runs;
  a refused one makes none; 500 without a fault means the address is taken.
- `RegisteredCanLogIn`: who was told so can log in with that password, unless the query
  fails, which is answered as a wrong password is.
- `AdmittedAsRegistered`: who is admitted is the account whose address, in the
  registered spelling, and password the login gave, before the token expired.

Both compare passwords as they were sent, not their hashes (`Opens`): the one registered,
or a longer one that begins with all 72 bytes of it, and no other. The instance registers
one of 72 bytes and one of 8, and logs in with the former, with one byte more and with
the latter.

**`startup`** (`Startup.cfg`, 50,412 states). Two servers on a new or a used database,
three sessions, `MaxFaults` = 2: one may break a session between lock and batch,
the other hit the server that then clashes.

- `ServesOnlyWithSchema`, `StartsDontClash`: as above; the second without a fault,
  since a broken session lets two batches run beside each other.
- `EventuallyServes`, `WritersFinish` (liveness): both servers are up in the
  end, and every write ends, although each start locks the tables.

Fairness: weak fairness on `Start`, since `docker-compose.yml:20` restarts the server
whenever it ends, and on `EndWrite`; strong fairness on what waits for a lock,
since PostgreSQL queues first come, first served, so that a lock that becomes free
again and again is granted. No fairness on new writes or faults.

**`startup_example`**, **`trailing_data`**, **`cart_same_index`**, **`cart_reading`**,
**`survey_torn`** show the disagreements below. The startup and cart runs have no
faults (`MaxFaults` = 0) and the survey run no failing query on its counterexample.

## What is proved

For every set of requests, users, inputs, items and bounds, from the
assumptions the modules name: `InputsAssumption`, `IdsAssumption`
(`SurveyWrites`; `NoSurvey`, `NoChoice`, `NoRequest` are no ids or requests),
`CartInputsAssumption`, `CartConstantsAssumption` (`Cart`; the marker is no item),
`AccountInputsAssumption` (`Accounts`; inputs are of three kinds, and passwords with the
same first 72 bytes are equal unless one is longer) and `StartupAssumption` (`Startup`; an environment sets known variables).

*`SurveyWritesProofs`*

| Theorem | States |
| --- | --- |
| `TypeCorrect` | `Spec => []TypeOK` |
| `LockSafetyHolds` | `Spec => []LockSafety` |
| `ReferencesHold` | `Spec => []ReferentialIntegrity` |

`TypeInv` strengthens `TypeOK` by `Stages`: which kind of request may be at which
stage, and that the INSERT loops are within the form. `ReferentialIntegrity` is
not inductive: at a COMMIT one must know that what the inserted rows refer to
is still there and that a deletion leaves no dependent behind. That is
`LockSafety`, so the invariant is `LockInv`, the conjunction. Its main lemmas: an
INSERT adds only rows whose references are there and unlocked; a cascade
contains all dependents (the schema is two levels deep); a COMMIT of one
request does not take away what another one holds a lock on.

*`CartProofs`*

| Theorem | States |
| --- | --- |
| `CartTypeCorrect` | `Spec => []TypeOK` |
| `MarkersOwedHolds` | `Spec => []MarkersOwed` |
| `UnreadableOnlyWhileRemovingHolds` | `Spec => UnreadableOnlyWhileRemoving` |
| `ImplementsCartStoreHolds` | `Spec => ImplementsCartStore` |
| `NothingLostHolds` | `Spec => []NothingLost` |
| `NothingForgedHolds` | `Spec => []NothingForged` |
| `RemovalTakesItsItemHolds` | `Spec => RemovalTakesItsItem` |

`CartInv` adds to `MarkersOwed` that every command under way, late ones included,
is one its request asks for, that an LREM is sent only after an LSET took
effect, and that what is owed is finite. Counting rests on lemmas about the list
operations: LPUSH moves markers (an injection), LSET adds at most one, LREM
takes one out if there is any. Then a step either leaves markers and debts
alone, adds one to both, or removes one debt together with a marker. The third
theorem follows: a page that does not decode has a marker, which is owed.

The refinement needs two things more. *What is seen*: `Visible` puts the k-th item
where the count of items reaches k, and two counts that start alike and grow
alike are alike (`SameSteps`; the first place where they are not would have one
before it, `LeastOf`). So LPUSH puts an item in front of what is seen (`SeenPushed`),
LSET takes one out or, on a marker, none (`SeenMarked`), and LREM none
(`SeenSwept`). *How often*: `Attempts` says that what took effect of a request and
what may still, among the commands nobody waits for, was sent once each, so that
no request takes effect more than `MaxResends + 1` times. Then every step is one of
`CartStore` or changes nothing that is seen (`StoreNext`).

`NothingLost` and `NothingForged` speak of the abstract store alone, and their
proofs go over its three actions through `StoreNext`. `Kept` strengthens them: a
request that asks nothing has no effect, what has effect can be counted, and item
by item a list holds no more than was added (`Has`, `Lacks`). An addition adds
one to both sides; taking out one place leaves no item in more places (`PlacesTakenOut`).

`RemovalTakesItsItem` follows from `MarkersOwed`: a cart that owes nothing has no marker
(`NothingOwed`), and what is seen of it is the list itself (`AllSeen`).

*`SurveyDeletionProofs`*

| Theorem | States |
| --- | --- |
| `DeletedOnceHolds` | `Spec => []DeletedOnce` |
| `OnlyItsOwnerOrAnAdminHolds` | `Spec => OnlyItsOwnerOrAnAdmin` |
| `CascadeNeverWaitsHolds` | `Spec => []CascadeNeverWaits` |
| `NoDeadlockHolds` | `Spec => []NoDeadlock` |

`DeletionInv` says of a survey's row that it is what its creation wrote, once; that
a deletion past its DELETE holds that row alone, and the row is there until it
commits; that after the COMMIT it is gone for good; and that who got past the
ownership check is entitled by what no step changes. Two committed deletions of
one survey would each have found the row, which the first one's COMMIT took.

Every row has a home, the survey it would be deleted with, and `HomeInv` says that
rows refer only within their home (for answers that is what
`ValidateSubmissionRequest` checked), that an open transaction writes to one
home, and that it locked the home's survey row before anything below. With
`LockSafety`, a deletion that holds this row meets no other lock in the home. So
a cascade waits for nobody, an INSERT only for deletions, a DELETE only for who
waits for no DELETE: there is no cycle among any set of requests.

*`SurveyWholeProofs`*

| Theorem | States |
| --- | --- |
| `AllOrNothingHolds` | `Spec => []AllOrNothing` |
| `RepliesTruthfulHolds` | `Spec => []RepliesTruthful` |
| `SubmissionsAnswerHolds` | `Spec => []SubmissionsAnswerTheirSurvey` |

`WholeInv` adds to the locks' invariant `Exact`: the tables hold the rows of the
committed requests whose survey was not deleted, and no others. It is inductive
only with what holds of each request: a loop has inserted exactly the rows before
the one it is at (`Loops`), so at the COMMIT it has inserted all; what was read of
a survey in pieces is what its request asked for, for as long as it stands
(`Reads`); and the status was set by what happened (`Replies`). A COMMIT then moves
the rows of one request, or those of one survey, in or out together.

*`SurveyStoreProofs`*

| Theorem | States |
| --- | --- |
| `ImplementsStoreHolds` | `Spec => ImplementsStore` |

By `Exact`, what the tables say, put together from five of them by the refinement
mapping, is what was asked by the requests that stand. A COMMIT adds one such request or
takes away those of one survey, which is `Publish`, `Submit` or `Retract`; every other
step leaves the committed rows alone.

*`SurveyReadsProofs`*

| Theorem | States |
| --- | --- |
| `ReadsTypeCorrect` | `Spec => []TypeOK` |
| `TornOnlyByRetraction` | `Spec => []SurveyTornOnlyByRetraction` |
| `ListingsAreTruthful` | `Spec => []ListingsTruthful` |
| `PagesAreComplete` | `Spec => []PagesMissNothing` |

The proofs are about any number of readers, surveys and submissions, and any page
size. They assume what `uuid.New` and the schema give: no two surveys and no two questions
share an id, and what clients may ever send is finite (`ReadStoreAssumption`).
`ReadInv` rests on ids being spent once: a submission a read has found is still there, or its
survey is gone for good (`Known`, `Gone`), whatever is written (`Evolves`). To that it
adds, per handler, how the rows shown and to come make up what was found (`Listing`,
`Retrieval`), and for pages that a submission not yet shown has at least `offset` newer
ones (`Paging`): a later arrival only adds to them, and in a page sorted by time a submission
alone at its time is behind exactly those (`Position`), so no page skips it.

*`AccountsProofs`*

| Theorem | States |
| --- | --- |
| `TypeCorrect` | `Spec => []TypeOK` |
| `RegistrationsAreTruthful` | `Spec => []RegistrationTruthful` |
| `RegisteredLogIn` | `Spec => []RegisteredCanLogIn` |
| `AdmissionsFollowRegistration` | `Spec => []AdmittedAsRegistered` |

`IInv` adds that no two rows share an address; that a row's registration succeeded or
had a fault, and one that succeeded has its row; that what is registered has passed
`ValidatePassword`, so that bcrypt took it whole (`Validated`); that the row a login found is
still there; and that a token in use is that of an ended login. Rows are only
added, which makes all of it stable.

*`StartupProofs`*

| Theorem | States |
| --- | --- |
| `TypeCorrect` | `Spec => []TypeOK` |
| `SchemaServed` | `Spec => []ServesOnlyWithSchema` |
| `StartsKeptApart` | `Spec => []StartsDontClash` |

`IInv` adds that a session runs only what its process waits for; that a process whose
batch did not fail knows the schema is there; and that before the first fault who is
between lock and unlock still has the session that holds the lock, so what
it found missing is missing when it creates it.

Only model-checked: liveness (`MarkersGo`, `EveryCartRequestEnds`, `EveryRequestEnds`,
`EventuallyServes`, `WritersFinish`), which rests on fairness and ENABLED, out of the
prover's reach; that `Visible` filters, since `SelectSeq` is recursive; and `Decoding`, whose
one run shows a disagreement. Every other property of a passing run has a theorem.

## Where code and documentation disagree

1. `cart_same_index`: two overlapping removals of the same index are both
   answered 200 and take out one item. Both LSETs mark the same slot; the
   second LREM finds nothing, which is no error (`redis_cache.go:48-57`).
2. `cart_reading`: `GET /cart` answers 500 when it reads between the LSET and the
   LREM of a removal, and for as long as the marker is in the page if the LREM is
   never sent (`handlers.go:553`).
3. `survey_torn`: `GET /survey/{id}` answers 200 with a survey without
   questions, or without choices, if the survey is deleted between its queries
   (`db.go:317`).
4. `startup_example`: with the environment of `.env.example` the server initialises the
   schema and then exits, since `LoadConfig` requires `PORT` (`config.go:40`),
   which the README does not name and nothing uses.
5. `trailing_data`: a body of two values is accepted, and all but the first dropped:
   `DecodeStrict` takes only a token that is malformed for trailing data
   (`validations.go:97`).

Noticed, without a run: a connection error in `CheckOwnership` is answered 403
(`handlers.go:110`); the README calls the catalog anonymous, and `main.go` puts
it behind `AuthMiddleware`; repeating a submission after a 500 may submit twice,
since every attempt draws a new id.

## What is not modelled

- The connection pool beyond startup: `OpenDB` sets no bound, so no statement waits
  for a connection. When PostgreSQL refuses one, the statement fails, which every
  module has at every statement.
- `ValidateUuid`: a library's check of the form of a string. Ids are compared as
  text afterwards, so another spelling of an id names nothing.
- bcrypt and JWT signatures: library code, modelled by what they tell apart.
- Request bodies that do not decode, outside `Decoding`: they change nothing.
- A restart of PostgreSQL is a failed statement for every request; a restart of
  Redis, which may lose lists, is left out.
- Graceful shutdown: the program has none.
- `testutil`: fixtures of tests, one call after another.

## Plan

Done, most important first: `SurveyStore` and `SurveyWrites`, `CartStore` and
`Cart`, `SurveyReads`, `Startup`, `Accounts`, `Decoding`, with the proofs above.
Every safety property of a passing run is proved, both refinements among them.

Left: the measure behind the liveness properties as action properties, that no step of
a request takes it back to an earlier stage, whatever fails.

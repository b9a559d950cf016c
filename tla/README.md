# Verifying Code && Chill

Code && Chill is a Go web server for puzzle events: puzzles unlock on schedule,
users log in with Discord, submit answers part by part, and climb a leaderboard.
Everything is kept in one BoltDB file. This directory holds TLA+ models of the
parts of that program where concurrency, stale reads, partial failure or time
make it hard to be right, TLC runs that check them on small instances, and TLAPS
proofs of the main properties for every value of the constants.

`PROJECT.json` is the index: components, runs, the mutants that show that each
property can fail, the source lines each definition stands for, findings,
hazards and theorems. The repository has no Go tests, so none of the behaviour
below is covered otherwise.

    tlc -workers 2 -config answers_overlap.cfg MCAnswers.tla
    tlapm AnswersProofs.tla

## The system and its parts

One process (`cmd/code-and-chill/main.go`) opens the database, starts the
session store, the user store, the notifier, the cron scheduler and the HTTP
servers, and takes them down in the opposite order. Every request runs in a
goroutine of its own through a fixed chain of middlewares (`server.go:136-147`):
the time stamp (`pageDataMiddleware`), the session, the user and the user's
progress, then the handler. Each of these makes a database transaction of its
own. BoltDB runs write transactions one at a time and gives read transactions a
snapshot, so **a transaction is one atomic step, and everything a request keeps
between two of its transactions may be stale**. That is the granularity of all
the models: one action per transaction or external call.

| Part | State | Operations | Interacts with | What is hard |
|---|---|---|---|---|
| Answer submission (`server/puzzle.go`, `auth/user.go`) | progress per event and user: mistakes, cooldown, solve times, kept wrong answers | POST answer, reset, tester flag | time stamp, session, user and progress are read in four steps before the commit | stale copies, double submits, order of commits against order of arrival |
| Event pages (`server/puzzle.go`, `puzzles/puzzles.go`) | page data of each request | list of puzzles, puzzle, input, latest, page after an answer | user, progress and time as the middlewares left them | a page is made from copies after others have answered, reset or unlocked |
| Session store (`session/*`) | session bucket, expiry index | Init, Update, cleanup job | every request, cron | two buckets that must agree, requests older than the transaction they commit in |
| Login (`server/auth.go`, `auth/discord.go`) | state and user of a session, token of a user | redirect, callback, exchange, mismatch, logout | session store, Discord | several tabs and browsers, partial failure after the token was replaced |
| Accounts (`auth/discord.go` updateDB, `server/api.go`) | Discord id to user, user record, cached avatar | login, admin update | Discord's avatar server | three buckets, a download inside the write transaction |
| Leaderboard, chart, summary (`server/puzzle.go`, `server/summary.go`) | none; several snapshots per page | prepareSolves, ranking | all progress, all users | snapshots taken at different moments, ties, solve times in the past |
| Notifier (`notifier/*`) | list of pending notifications, Discord threads and messages | Schedule, Stop, NotifyTest, Setup | Discord, shutdown | at most once, never early, partial failure of several calls, restart |
| Backups (`db/db.go`) | backup directory | cron job, backup at shutdown, pruning | cron, shutdown | overlapping jobs, partial files, names of one second |
| Database layer (`db/tx.go`, `db/bucket.go`, `db/db.go`) | transactions under way, each with a flag that decides about its commit | Update, View, Put, Delete, DeleteRange, Range, CreateBucket, DeleteBucket, Close | everything that is stored; bbolt below | forgotten flags, bounds of ranges, buckets among values, closing under use |
| Servers and TLS certificate (`server/server.go`, `server/tls.go`, `sched/cron.go`, `main.go`) | goroutines of each server, the pair in the loader | Run, shutdown with a timeout, load, reload job | signals, cron, whoever renews the files | a server that fails alone, requests that outlive the timeout, certificate and key replaced one after the other, overlapping reloads |
| Configuration and puzzle files (`puzzles/*`, `*/config.go`) | immutable after start | Load | | validation only, the assumptions of the models |
| Templates, markdown, static files, slides, logging, admin views, browser scripts, command line tools | none of their own | rendering, printing | | wording and layout |

Properties that make each part correct are listed with its module below; parts
without a module are listed in `PROJECT.json` with the reason.

## Modules

| Order | Module | Models | Composes | State |
|---|---|---|---|---|
| 1 | `Answers` | the answer route from the time stamp to the commit | implements `Scorecard` | done, proved |
| 2 | `Sessions` | session store, expiry index, cleanup job, cookie | | done, proved |
| 3 | `Login` | redirect, callback, exchange, mismatch, logout | implements `SingleLogin`; sits on what `Sessions` promises | done, proved |
| 4 | `Notifier` | schedule, tests and setups against Discord | implements `Announcements` | done, proved |
| 5 | `Backups` | cron backups, shutdown, restarts | | done, proved |
| 6 | `Leaderboard` | pages that rank, over several snapshots | reads what `Answers` stores | done, proved |
| 7 | `Accounts` | Discord id to account, flags, cached avatar | sits under `Login` | done, proved |
| 8 | `Pages` | the pages of an event | extends `Answers`, whose every step it takes | done, proved |
| 9 | `Store` | transactions, buckets and ranges over bbolt | implements `AtomicStore`; what all the others take for granted | done, proved |
| 10 | `Serving` | servers, signals, shutdown, the certificate and its reloads | `Backups` and `Notifier` start where it ends | done, proved |

`Scorecard`, `SingleLogin`, `Announcements` and `AtomicStore` are the abstract
specifications: what a player, a user, a reader of the channel and the rest of the
program may rely on. `MC*` modules hold the small instances, `*Proofs` modules the
theorems of the module they are named after; those of `Pages` stand below those of
`Answers`, in `AnswersProofs`, and those of `Leaderboard` and `Accounts` one after the
other in `PlayersProofs`.

What could still be added: a composition of `Sessions` and `Login`, in which a
session is used by two requests while the cleanup runs; the answer route as what
feeds the ranking; and the lines of the chart.

Names follow the code. A request is a record in a slot with a phase that says
which of its transactions comes next; the fields of that record are exactly what
the Go request carries from one transaction to the next. Variables marked
*history* in the modules do not exist in the program; no guard reads them.

### Answers (`server/puzzle.go`, `auth/user.go`)

`stored`, `incorrect`, `timeout`, `solves` and `wrong` are the fields of
`UserProgress` and `PuzzleProgress`; `tester` is `User.Tester`. A request goes
through `Arrive` (pageDataMiddleware), `Authenticate` and `LoadProgress`
(userMiddleware) and ends in one of the alternatives of `Handle`, one for each
way out of `puzzleAnswerDataFunc`. `DeleteProgress` and `SetTester` are the
administrators' calls. The form is read in the handler, so part and text are
chosen there. `Normal` stands for TrimSpace and the replacer. The branch for a
missing user cannot be reached behind `userMux` and is left out. `Browse` is a
request for any page that only reads; `Pages` says what it shows.

* `GuessRateLimited`: n wrong answers in a row take n cooldowns, counted from the
  first of them (`rowBegan`, history: when the first wrong answer of the row was
  asked for), however requests overlap, although cooldown and clock are read at
  different moments. Time before the row does not count, so nobody saves up
  guesses.
* `WrongAnswersOnRecord`: the counters and the list of wrong answers agree
  (`MistakesAreKept`); the list is about the part the player is on
  (`KeptAnswersBelong`).
* `SolvedAfterUnlock`: no solve time before the unlock, except of testers.
* `SolvesArePermanent`: only a reset takes solves away, and then everything.
* `RepliesTruthful`: the page says what the transaction did.
* `ScorecardSpec`: the route implements the abstract scorecard.
* `Support` is the type invariant with what the proofs rest on.

A solve is stored with the time its request came in (`puzzle.go:322`), so the second
part of a puzzle may carry an earlier time than the first. Nothing here says
otherwise, and `Leaderboard` takes such solves into account.

### Pages (`server/puzzle.go`, `puzzles/puzzles.go`, `server/pagedata.go`)

Every action of `Answers` is here again, with what it does to the page data `pd`:
`Ask` makes it, `Load` is puzzlesMiddleware (`Menu`) after userMiddleware, `Answer`,
`View` and `Visit` are the handlers, of users and of others. What is left in `pd`
when the request is over is the page that was shown: the counts in its menu, the
puzzles it names as open, the puzzle it shows or leads to, and how many parts and
answers of it. `LoadEvent` is what the configuration is checked for at the start.

* `PagesBetween`: however late a page is made, it counts at least what was solved
  when it was asked for, with the part its own answer won, and nothing that is not
  stored; it shows no answer and no part that the user did not get to. Only a reset
  since then makes it wrong, so a request whose user is reset is `upset`.
* `NothingEarly`: no page names a puzzle as open, shows it or its input, or leads
  to it, before its unlock, except to testers.

### Sessions (`session/*`)

`live`, `expire` and `index` are the two buckets, `cookie` what each browser
holds. `Resume` and `Start` are `Store.Init`, `Save` is `Session.Update`, the
cleanup job reads the clock in `CleanupStart` and commits in `CleanupCommit`.
`Lag` bounds how much older a request may be than the transaction that serves
it. `ConfigAssumption` says that expiry times are whole seconds and a session
lives longer than the truncation; the shipped configuration satisfies it,
`NewStore` does not check it. Times are numbers here; that their texts, cut down to
seconds, sort in the same way only holds on whole seconds, and no property is about
what would happen otherwise.

* `IndexMatchesStore`, `CleanupExact`, `OnlyLateSavesFail`: the index lists each
  session once, a cleanup takes the expired ones and no others, and no request
  loses its session earlier than a session lives.
* `ExpiredAreCollected` (liveness).

### Login (`server/auth.go`, `auth/discord.go`)

`token` is `User.Token`, `sess` the data of a session. `Begin` hands a request its
copy of the session, `Identify` and `Forget` are userMiddleware, the other actions
are the handlers, one per transaction. A Discord code is represented by the user who
agreed. Assumed: `rand.Text` never repeats, and an administrator never writes
back a token the program made. Session names are used again once nothing refers
to them, as a bound.

* `OneLoginAtATime`, `LoginsLostToOlderRequests`, and `SingleLoginSpec`, the
  refinement of `SingleLogin`.
* `LoginsAskedFor`: a callback goes through with a state only if its own session was
  given that state, has it still, so not one that another tab has replaced, and gives
  it up for good.

### Notifier (`notifier/*`)

`pending` is the list `Schedule` makes, `sender` its goroutine; `job` are
administrators' requests. A call to Discord is three steps: it is sent (`CallDiscord`,
`RequestCalls`), which a cancelled context prevents; Discord carries it out
(`CarryOut`, `RequestCarriedOut`); and the program learns of it (`Answered`,
`RequestAnswered`). Once it is sent, the program may be told of an error at any time
(`CallFails`, `RequestFails`): the answer is lost, the client gives up, or the context
is cancelled. Discord may carry the call out before that, afterwards, after the program
has ended or started again, or never: `sent` and `asked` hold the calls it has not
carried out. `reach` is history: when a run is first cut off, by the cancellation or a
crash, how far each announcement is, the call under way included. Starting the program
takes some time. discordgo itself sends a call again when Discord answers with 429 or
502; these repetitions are left out, so "never twice" holds as far as Discord carried
out no call that it answered in this way.

* `AnnouncedInTurn` (`TriedOnce`, `NoneOvertaken`, `PostsHaveThreads`), and
  `AnnouncementsSpec`, the refinement of `Announcements`: never early, never twice
  over all starts, with calls that are carried out when nobody waits for them any more.
* `QuietOnceCancelled`: from the moment a run is cut off an announcement gets no
  further than the call that was under way then, neither by the goroutine, which may
  still take the timer instead of the cancelled context, nor by a later start.
* `RepliesHold`: what an administrator is told is true when it is said and stays so,
  with calls that are carried out late.
* `EveryoneGetsATurn`, `StopEnds` (liveness).

A test whose calls fail, or whose browser goes away, leaves its thread or its message
on Discord; `RepliesHold` says only that it is not reported as a success.

### Backups (`db/db.go`, `main.go`, `server.go`, `sched/cron.go`)

`job` are the backup jobs with the system calls they still have to make, `dir` the
directory, `proc` how far the program is between start and exit. `Stamp` maps time
to file names and may repeat itself, as local time does. A file that is unlinked
while it is written is lost. `backupNum` is at least 1 and cron fires at most
once per tick. `Drained` stands for the shutdown of the servers and the call of
`sched.Stop` after it.

* `BackupsStay`: a complete backup stays until `backupNum` newer ones were
  *started*. That is all the code promises: `backupNum` failed backups may push
  the last complete one out.
* `DirectoryBounded`, `LastBackupComplete`, `ShutdownEnds` (liveness). The directory
  is only bounded once the last backup has succeeded: a job that fails does not prune,
  and nothing bounds the files that pile up while jobs keep failing.
* **Refuted**: `ShutdownBacksUp`, when no schedule is configured
  (run `backups_unscheduled`).

### Leaderboard (`server/puzzle.go`, `server/summary.go`, `server/admin.go`)

`solves` and `joined` are what the answer route stores, here with the answers under
way: `Answer` takes the time, `Record` commits it. `First` and `Second` are the
transactions in which a page reads everything; `Replays` is the set of orders in which
they can go through the solves, because the sort leaves solves of one moment in any
order. The code counts points down while it goes; `Award` says what a solve then
gets, `Score` and `Parts` what a player has at the end, `Rank` where that puts it. Pages
only read, so the model lets one be made at a time. `Name` is the place of a name in
the alphabet. Names are taken to differ: players that are equal in everything, name
too, may come in any order, another one on each half of a page.

* `ScoresFollowRules`: points are those of the published rules, with ties
  either way.
* `PrevPositionIsHistory`: the position a summary shows for an hour ago is the one
  it showed an hour ago, whoever joined since. It needs three exceptions, stated
  in it: solves stored late, hidden or reset players, ties. That somebody joins above
  two players who have a rank already takes three of them, which the run does not
  have; this case rests on the theorem.
* `PagesFresh` (`BoardNotBehindChart`, `PagesUpToDate`, `SolversAddUp`): what a page
  says in two places agrees although it reads twice, and it is not older than the
  request for it.
* `ChartTruthful`: `Kept`, `Clump` and `Line` are what buildLeaderboardChart does to
  the solves between their replay and the picture. A player among the first
  `MaxRank` ranks has a label in the row of its position and a dot at its last
  solve; who has no solve has neither. Whoever dropped out keeps a label in the last
  row it had, beside that of its successor: so the code does it, and nothing says
  that it should not.
* **Refuted**: `CurrentIsMostRecent`, for puzzles configured in another order
  than they unlock in (run `leaderboard_current`).

A chart is for the time in its address, any time; that is also what an administrator
asks for with the slider, and what the clamped time of an administrator's page comes
to. `PlotWidth` and `ClumpGap` are in pixels, `Margin` stands for the 48 hours after
the last unlock, and a tick for the second that an empty axis is long.

Left out: the lines between the dots, marks and colours, the extremes, the cut of the
table after fifty rows, caches of the chart, and puzzles that were removed from the
configuration while their solves stayed: those are worth zero points and less
(`puzzle.go:495`), about which the rules say nothing.

### Accounts (`auth/discord.go`, `server/api.go`)

`linked`, `users`, `user` and `cached` are the buckets discord_user, user and
user_avatar. A login goes through `AskGuild` (getGuildMember), for people outside the
guild `AskUser` (getUser), and `UpdateDB` (the one write transaction, with the
download of the picture in it, which works or fails). `Update` is the
administrators' API. What Discord says is chosen anew at each call, so two logins of
one person may carry different profiles. A source of a picture stands for the picture
and for its hash. `Rights` are the flags an administrator may give.

* `OneAccountEach`: however first logins overlap, an account has one person and a
  person one account.
* `PictureMatches`: the record, the kept picture and the link agree, also after
  failed downloads.
* `FlagsHold`: a login that started before an administrator's change and commits
  after it does not undo it.

Left out: names, and the page that serves the pictures (`avatar.go`), which only reads. Its
answer may be kept for a day; a page with a link to one picture may be followed by
the next picture, which a browser then keeps under the old hash. The code promises
nothing about which picture is shown when somebody takes theirs away at Discord and
the download of a random one fails: the next login then takes the old one for random.

### Store (`db/tx.go`, `db/bucket.go`, `db/db.go`)

`data` is what is committed, `tx` the write transactions with their working copy of it,
`view` the readers with the range they go through. `Begin`, one action
for each operation, and `Return`, `ReturnError`, `Panic` are the life of an Update;
DeleteRange goes from key to key by `DeleteNext`, Range by `RangeNext`. The flag
that decides whether Update commits is `modified`; `want` is history: what the
operations were meant to make of the data. bbolt is assumed to lock writers, to make a commit
atomic, to give readers a snapshot, to wait in Close for transactions under way, and
to move a cursor to the next key after a Delete.

* `AtomicSpec`, the refinement of `AtomicStore`: an update that returns without an
  error is stored whole, one that fails, panics or dies not at all, also where an
  operation is refused half way, and closing changes nothing.
* `RangeExact`: a finished range gave the values between its bounds, both
  included, and nothing else.

Left out: NextSequence, which nothing calls, and how values are encoded.

### Serving (`server/server.go`, `server/tls.go`, `sched/cron.go`, `main.go`)

`serving` and `closing` are the two goroutines of each server in runServer,
`cancelled` their context, `failure` the error the group keeps. `files` are the
certificate and the key on disk, which `Renew` replaces one after the other in either
order; a load reads them in two steps (`ReadCert`, `ReadKey`) and stores them in a
third. `served` is the pair in the loader. The model is of one life of a program with
TLS configured.

* `ServedWhole`: whatever moment a load falls on, what is served belongs together
  and was whole on disk.
* `OnlyOverlapsGoBack`: an older certificate comes back only where two reloads
  overlap, because nothing orders what they store.
* `CertificateCatchesUp` (liveness): it does not stay.
* `RunReports`, `RunEnds` (liveness): one server that fails, or a signal, ends all of
  them in spite of requests that never end, and Run says truly what happened: no error
  means that every server was waited for to its last request, a shutdown error that
  one was given up with requests left (`givenUp`), any other that this one occurred.

## Runs and bounds

| Run | Expected | Instance, and why it is enough |
|---|---|---|
| `answers_overlap` | pass | one user, one two-part puzzle, two tabs, four answer texts against two kept wrong ones, four ticks: an overlap of two requests with a reset, a full list of wrong answers and several cooldowns fit; users do not share state |
| `pages_overlap` | pass | one user, two connections, two puzzles of two parts and one, the later one locked at first, two ticks; every answer is right or empty, because wrong ones change no page: an answer, a page, a reset and the unlock fit between any two steps of a page |
| `sessions_overlap` | pass | one browser, two requests, two ids, six ticks: renewal, expiry, a late request and a cleanup between any of their steps |
| `login_overlap` | pass | two users, two sessions, two requests, two tokens: each login can be replaced once |
| `notifier_schedule` | pass | four puzzles, two together, one of them without channels, one out of reach, and one request slot, used again and again for tests and setups; two starts in four ticks, so that the program can be stopped or crash in any step of an announcement or a request, and a call of it be carried out during the next run |
| `backups_overlap` | pass | two cron jobs, two starts, a local time that repeats |
| `backups_unscheduled` | violation | no schedule |
| `leaderboard_pages` | pass | two players, two puzzles of two parts and one, two solves, one change by an administrator; a page alone, or two summaries an hour apart; besides, a chart for every time of each history of three players with up to five solves, two ranks shown, in which times one tick apart may be one step or two |
| `leaderboard_current` | violation | the same with the puzzles configured in the other order |
| `accounts_overlap` | pass | two people, two ids, two logins, one picture of their own and two random ones: two first logins of one person overlap, or of two people for the same ids, and pictures change, fail and come back |
| `store_atomic` | pass | two writers, a reader, two keys of which one may be a bucket, one value: every operation on a key that is absent, a value or a bucket, in every order, with a reader and a crash in between |
| `serving_reload` | pass | two servers, two reloads that overlap, one renewal, one read that fails, one request per server |

Every bound is a constant named in the module (`MaxTime`, `MaxBoots`,
`MaxCommits`, `MaxOpen`, `MaxSolves`, `MaxActs`, `MaxGen`, `MaxFaults`, `MaxKey`, `Lag`,
`Players`, the sizes of `States`, `Tokens`, `Ids`). Runs with `CHECK_DEADLOCK FALSE` are of programs that do stop,
or of models whose clock does. `PROJECT.json` gives for each property a mutant, a
plausible slip in the code, that TLC finds with it.

## Fairness

* Sessions: cron fires again and again and a job it started runs, so
  `CleanupStart` and `CleanupCommit` are weakly fair. Requests are not.
* Notifier: calls end for the program (the client has a timeout), the goroutine and
  the main goroutine run, time goes on. Discord need not carry anything out, and
  administrators' requests need not come.
* Serving: goroutines that can go on do, and so do loads; cron comes back to the reload
  job again and again. Whoever renews the files may stop half way, a listener need
  not break, requests may take for ever and so may the wait for a signal.
* Backups: jobs that run get on and the main goroutine runs. A request may take for
  ever; only the shutdown timeout is relied on.

## Proofs

The `*Proofs` modules prove type correctness, every safety invariant and action
property of all modules, and the four refinements, for every value of the
constants that satisfies the named assumptions. None of these properties is
inductive alone. The inductive invariants are:

* Answers, `Support` = `TypeOK /\ Consistent`: entries that are not stored are
  empty, solves fit the puzzle, and what a request carries was true once. Without
  it a wrong answer on an absent entry could start from an old counter.
  `GuessRateLimited`, `MistakesAreKept`, `KeptAnswersBelong` and
  `SolvedAfterUnlock` are then inductive relative to it. The step of
  `GuessRateLimited` is that a first mistake starts at the time of its request and a
  later one adds a cooldown to the old one (`Paid`).
* Pages: `PagesAreRequests` brings over everything that is proved of Answers. To
  `Support` comes `Copies`: until a reset, the counts in the page data lie between
  those on arrival and those stored. An answer then adds one to the copy exactly
  when `HandleTruthful` (of Answers) says that it stored one.
* Sessions, `Sound` and `Timely`: the index matches, ids in use were given out,
  and the expiry of a session is never more than a lag behind what its requests
  asked for; from this `OnlyLateSavesFail`.
* Login, `Sound`: states and tokens are in at most one place, phases say what was
  looked up, a token names the user it was made for, and a state in a session is
  fresh. `OneLoginAtATime` needs all of it, because a token is in a request
  before it is in a session. That the state of `LoginsAskedFor` is the session's latest
  one comes from the step itself, that it was never spent or another's from `Sound`.
* Notifier, `Sound`: turns come from the list, and the list only holds puzzles that
  unlock no earlier than everything that had a turn (`Turns`, `NoneOvertaken`). What is
  counted of an announcement is what there is together with the call that is sent and
  not carried out (`Threads`, `Messages`), so a late call changes no count: `Posted` ties
  these counts to the phase of the goroutine. `InReach` adds that as long as the context
  lives all that is left of the list may still be announced as a whole; when the run is
  cut off, the counts are the reach, and no step that is left can raise them, because a
  puzzle that had its turn is not listed again. `AllHonest` says of each request, in the
  middle too, what it has made, less the call that is under way.
* Backups, `Sound`: what each writer may still change, who is alone with a file,
  and how far the program is.
* Accounts, `Sound`: the properties together, and that an id nobody has yet has no
  picture, without which a new account could start with someone's.
* Leaderboard: `BoardTypeOK` and `Progress` (what is stored fits the puzzles and is not
  later than now) hold together. Above them stand four invariants, one for each
  property. `TablesRight` and `ChartsRight` are about tables and charts alone, so they
  only have to be shown where a page reads: of any replay of the stored solves, whose
  places have no gap (`Places`), whose awards are the players less the solves of
  the part before it (`AwardFollowsRules`), and in whose chart a player can only be
  overtaken after its last solve (`OnlyOvertaken`). `AllFresh` says what a page owes
  between its transactions, `History` that as long as a summary's past is as it was, it
  and the summary an hour later hold the same solves; the earlier one is asked for
  first, since the hour is not zero. From there `PrevPositionIsHistory` is
  arithmetic: the later table gives each of those solves the same number of points
  more (`MorePlayers`), which players with as many solves gain alike (`PointsShift`).
  Nothing here is a fold: points are counted as a finite set of pairs, and where an
  induction is needed it is the least counterexample among subsets of a finite set
  (`LeastSubset`, `UpTo`), not an operator handed to the library. The code has none of
  these closed forms: it goes through the solves and keeps running totals.
  `LoopCountsRanking` says of any variables that start and move on as those of its loop
  do (`Counting`) that after each solve they hold what `Parts`, `Score` and `LastSolve`
  say, and that what the loop adds for a solve is its `Award`.
* Store, `Support`: between two operations what a transaction has changed is what was
  asked of it, and a range in progress lacks exactly what is ahead of its cursor;
  the one writer's start is what is on disk. A step of `Store` is then a step of
  `AtomicStore` or none, operation by operation.
* Serving, `Sound`: the certificate on disk is at most one renewal ahead of its key;
  a load under way has read a certificate as new as what is served, unless it is
  marked as overtaken; and a server that is done has either told the group of an
  error or closed with no request left.

Type invariants are proved, not run. Assumptions proved from: `ConfigAssumption` and
`LoadedAssumption` of Answers, `PagesAssumption`, `StoreAssumption` and
`ConfigAssumption` of Sessions, `NamesAssumption` and `RandomAssumption` of Login, `PuzzlesAssumption`, `BackupsAssumption`,
`AccountsAssumption`, `StoreAssumption` and `NoTxAssumption` of Store,
`ServingAssumption`, `BoardAssumption` and `StartsAssumption` of Leaderboard. TLC
evaluates each of them in the runs. The last two say that there are finitely many users,
that a name is one user's, that the summary looks back some time (an hour, in the code),
that no solve comes after `Forever` (a page that does not filter by time counts up to
there), and that what is stored at a start has the parts its puzzles have and lies in
the past, which is what `Answers` leaves behind.

Only model-checked: the liveness properties (`ExpiredAreCollected`,
`EveryoneGetsATurn`, `StopEnds`, `ShutdownEnds`, `CertificateCatchesUp`,
`RunEnds`), because fairness and ENABLED are out of the prover's reach. The two refuted statements
have no theorem, of course.

## What is assumed and what is not modelled

* The wall clock does not go back while the program runs; local time may.
* A bbolt write transaction is atomic, and a cursor goes on with the next key after a
  delete; what the layer over bbolt makes of that is `Store`.
* Discord carries a call out at most once; the repetitions inside discordgo are left
  out.
* `db.Close` waits for transactions under way. A transaction of a request that outlived
  the shutdown timeout is taken to come to an end; `ShutdownEnds` and `RunEnds` do not
  speak of that wait.
* A panic in a handler ends only its own request, like an error.
* Configuration and puzzle files are loaded once, and every puzzle has an input for
  every user; templates, markdown, slides, scripts and tools keep no state.

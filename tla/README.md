# Formal verification of the Botball dashboard

TLA+ modules for the parts of the dashboard where the order of requests, tasks,
crashes and commits matters, TLC configurations that check them on small
instances, and TLAPS proofs of their main properties for every instance. All
paths are those of the repository; `service.py` without a directory is
`backend/modules/events/service.py` in the sections on brackets and
`backend/modules/printing/service.py` in the section on printing. Files without
a directory in the sections on the client are those of `frontend/src/lib/`.

    tlc -workers 2 -config Outbox.cfg MCOutbox        # a run
    tlapm Outbox_proofs.tla                           # a proof

`PROJECT.json` lists the components, the runs, for every definition the source
lines it stands for, for every checked property a plausible bug that it
catches, the hazards and the theorems.

## 1. The system

A FastAPI backend (`backend/`) with PostgreSQL, Celery workers with beat (Redis
as broker and as cache), and a React client that works offline
(`frontend/`). One deployment runs several API processes and two worker
containers of two processes each (`docker-compose.yml:245,286`). What all
components share:

- **A request is one transaction.** `get_db` opens a session without autoflush
  at PostgreSQL's default, read committed; it is committed before the response
  is sent (`core/transactions.py`), an error rolls it back. Two requests
  interleave at every `await`, i.e. at every query.
- **What must follow a commit is queued in it or after it**: notifications as
  rows of the outbox, Celery tasks and live messages by after-commit hooks
  (`core/task_queue.py`, `core/live.py`).
- **Celery acknowledges late and kills at 300 s** (`core/celery_app.py:82-84`),
  so a task may be run in part and then again.

| Component | State | Operations | Talks to | What is hard |
|---|---|---|---|---|
| Brackets (`events/brackets.py`) | none, pure | seeding, raw bracket, pruning of byes, links, placements | event service | byes through several rounds, the order of drop-downs, places in odd fields |
| Elimination phase (`events/service.py`) | matches, participants, phase status, DE rows | generate, record and correct a result, replay, edit | brackets, scoring (head-to-head), live hub | corrections after the fact, rows loaded twice, edits by hand, two officials at once |
| Events, drafts, seeding schedules (`events/`) | events, registrations, fields, alliances | create, read, update, delete | all | little; archived events are read-only |
| Notification outbox (`core/domain_events.py`, `dashboard/tasks.py`) | `NotificationEvent` rows | emit, claim, deliver, record, clean up | every component emits; SMTP, Web Push | workers that die, leases, duplicates, dedupe keys |
| Reminders, channels (`dashboard/`) | preferences, subscriptions | choose what to emit; send | outbox | dates only |
| Printing (`printing/service.py`) | jobs, quota rows, spools | submit, decide, queue, print, cancel, retry | poller, printers, teams | hard limit and booking under concurrency |
| Printer poller (`printing/tasks.py`) | printer status | poll all, apply | printers, printing service | answers of a moment ago |
| Ranking cache (`core/cache.py`) | Redis keys and versions | read through, bump | scoring, live hub | computed before and stored after a commit |
| Live hub (`core/live.py`, `lib/liveSocket.ts`, `hooks/useLiveUpdates.ts`) | queues per socket, timers and flags per page | publish after commit, dispatch, reconnect, refetch, poll | every writer, the cache, the pages | full queues, lost connections, refetches that overtake each other |
| Offline queue (`lib/offlineQueue.ts`, `sw.ts`) | IndexedDB entries, the service worker's copies | enqueue, edit, discard, synchronise | idempotent `create_match` | lost answers, two tabs, edits while sending, answers that are copies |
| Scoring (`scoring/`) | runs, revisions, ranking rows | create, confirm, correct, recompute | brackets, cache | concurrent writers of one sum |
| Formulas, sheets, overall results (`scoring/`) | none, pure | parse, evaluate, rank, break ties | scoring | arithmetic |
| Score sheets and scans (`scoring/score_sheets/`) | scans, templates | upload, recognise, review, accept, retry | worker-ocr, scoring | a worker that dies, a retry of what runs |
| Paper review (`paper_review/`) | submissions, reviews, rounds | submit, assign, review, decide, deadlines | outbox | reviewers, deadlines and decisions at once |
| Sessions (`auth/`, `lib/sessionRefresh.ts`) | refresh tokens, deny list | log in, rotate, revoke | every request | a rotation whose answer is lost, several tabs |
| Seasons, teams, awards, bots, users | rows | create, read, update, delete, archive, import | all | little |
| Analytics, exports, service frame, backups | none or a file | queries, formatting, configuration | | little |
| Pages (`frontend/src`) | copies of server state | show, edit | API, live socket | little besides the two libraries above |

**What makes each correct.** *Brackets*: a knockout that never stalls, ends with
a ranking, respects the seeding. *Elimination phase*: teams sit where the
results as they stand now put them; no team is lost or doubled by a
correction; there is always something to play until there is a champion.
*Outbox*: queued once, sent at least once, at most once unless a worker failed,
finished in the end. *Printing*: the hard limit holds and the quota counts what
was printed. *Ranking cache*: who asks because a change was announced is not
served a ranking from before it. *Live hub*: a connected client learns of every
change in the end. *Offline queue*: a score that was entered becomes one run, of
the juror who entered it.
*Scoring*: ranking rows equal the sum of the runs. *Scans*: none stays in
"processing" for ever, none is accepted twice. *Papers*: a decision rests on the
reviews of its round. *Sessions*: a stolen token is worth one use, a user who did
nothing wrong stays signed in, and one who signed out stays signed out.

## 2. What is modelled

| Module | Models | Checked by | Proofs |
|---|---|---|---|
| `BracketTree` | `events/brackets.py`, as operators | `MCBracketPlayout`, `MCBracketPlay` | |
| `Knockout` | what a knockout promises, without a bracket | `ImplementsKnockout` of `BracketPlayout` and `BracketPlay` | `BracketPlayout_proofs`, `BracketPlay_proofs` |
| `BracketPlayout` | a bracket played to its end | `MCBracketPlayout` | `BracketPlayout_proofs` |
| `BracketPlay` | the requests on an elimination phase | `MCBracketPlay`, three runs | `BracketPlay_proofs` |
| `BracketSchedule` | the rows `generate_schedule` stores for a blueprint | `MCBracketPlay` | `BracketSchedule_proofs` |
| `Outbox` | `emit_event`, `deliver_outbox`, `cleanup_outbox` | `MCOutbox`, two runs | `Outbox_proofs` |
| `Printing` | print jobs and the quota row of a team | `MCPrinting`, two runs | `Printing_proofs` |
| `OfflineQueue` | the queue for scores, its tabs, the lists the service worker keeps, and `create_match` | `MCOfflineQueue`, two runs | `OfflineQueue_proofs` |
| `Session` | the session of a browser with several tabs | `MCSession` | `Session_proofs` |
| `LiveUpdates` | publish tasks, ranking cache, live stream, a page | `MCLiveUpdates` | `LiveUpdates_proofs` |

Definitions marked "Faulty variant" are no part of the models: each is a
plausible bug in the definition after it, and `PROJECT.json` pairs it with the
property that finds it.

### 2.1 Brackets: `BracketTree`, `BracketPlayout`, `Knockout`

`elimination_blueprint` builds the full bracket of 2^k slots, removes the
matches a bye decides, and links what is left. A match is named by its key
`<<bracket, round, index>>`; a source (team, bye, winner of, loser of) is
resolved through the matches that are not played (`Outputs`), which gives the
matches, the teams known up front and the links. The code's dictionaries keyed
by match are sets of tuples; the walk in topological order is a recursive
function. `elimination_placements` is the set of `<<team, place>>` of its
result.

`BracketPlayout` chooses a field, builds its blueprint and plays it: `Play`
records a winner and moves both teams along the links, the grand final filling
the reset final only if position 2 wins (`_advance`). There are no corrections
here, so that the structure can be checked for larger fields.

`WellFormed` says, without recursion, what a blueprint is for: its keys (`Keyed`);
every team starts in one slot, a side of a match moves to one slot, every slot has one
source in an earlier wave (`OneSource`); losers of winner rounds drop one level,
everybody else keeps theirs, and who does not move on is out or plays the finals
(`SecondLoss`). `FieldsAreWellFormed` assumes it of the fields played, for the proofs.
TLC evaluates it with every run of `MCBracketPlayout` for the fields of the run, and
for 2 to 64 teams, single and double (`LargerFields`).

`Knockout` is the abstract specification: a loss costs a life, a team without
lives is out, and only teams that lost equally often meet until two are left.
`CorrectedSpec` is the knockout that may be corrected: `Overturn` takes back the
loss of a team and decides its match anew, `Restart` begins again. `BracketPlayout`
implements `Spec`, `BracketPlay` implements `CorrectedSpec`.

### 2.2 Elimination phase: `BracketPlay`

One action per request; a request that the code refuses is no step.

| Action | Code |
|---|---|
| `RecordResult` | `record_match_result`, with `_advance`, `_undo_advancement`, `_place_team`, `_remove_team`, then `_complete_if_decided` and `sync_de_results` (`Sync`) |
| `Replay` | `apply_head_to_head` when nothing breaks the tie |
| `EditMatch` | `update_scheduled_match`, its status |
| `EditPhase` | `update_phase`, its status |
| `Init`, `Regenerate` | `generate_schedule`, without and with `replace_existing` |

`RecordResult` is a disjunction by kind of match (ordinary, grand final, reset
final) and by what is recorded (first result, same winner, other winner).

*Rows loaded twice.* The session does not autoflush, and `_load_match` reads with
`populate_existing`: what a request changed on a match in place is overwritten
when it loads that match again. `Taken` (winner and loser that go to the same
match), `TakenInReset` (the grand final's two teams) and `RecordGrandFinal` (the
reset final's status) model exactly that; with rows that are new, rather than
changed, nothing is lost.

*Constants.* The bracket is a constant, described by its assumptions: `Wiring`,
`HasSource`, `OneSource` and `FinalsAreLast` say where slots get their teams from, and
three more what the bracket is for:

- `SharedTarget`: both teams of a match go on into one match only if they were
  placed up front. That is the bracket of two teams, where winner and loser of the
  only match are the grand final; in larger ones the loser drops to another match.
- `SecondLoss`: winners stay on their level of losses, losers drop one
  ("nobody is out before their second loss", `brackets.py:24`), and in a double
  elimination only the finals have a winner who goes nowhere.
- `FieldIsLarger`: at least two teams (`elimination_blueprint` refuses fewer,
  `brackets.py:222`), and fewer matches before the finals that knock a team out
  than there are teams.

`BracketSchedule` is how `generate_schedule` stores a blueprint: its links become
the forward links of the matches, its teams the first participants, its depths the
waves. `MCBracketPlay` takes the bracket of a run from there. That the seven
assumptions hold of every bracket stored this way is the theorem `ScheduleFits`, from
`WellFormed` alone; TLC evaluates both on the field of each run (`AsGenerated`).

*Override.* `update_scheduled_match` lets officials set any status, "completed" and
"cancelled" included. With `Override = FALSE` they only call matches that are
open; with `TRUE` they may do everything, and the invariants that an official
can break by hand are not claimed. The properties that hold all the same are
those of `bracket_override`.

*Abstractions.* "called" is as "running". Scores, versions, versions' conflicts,
fields and times are left out: an edit with a stale version is a refused
request. The computation of a head-to-head winner from runs is represented by
its two outcomes, a recorded result or a replay. Requests do not overlap
(section 7).

### 2.3 Notification outbox: `Outbox`

`Check`, `Insert`, `Commit`, `Rollback` are the steps of a transaction that calls
`emit_event`: the query by dedupe key, the flush, and its end. Two of them may
overlap; the unique index makes the second flush wait for the first, then fail.
`DeleteEvent` (cascade) and `CleanUp` remove rows.

A worker runs `Begin` (reads its "now"), `Claim` (`claim_batch`: the oldest due
rows, locked with SKIP LOCKED, hence one atomic step), one `Deliver` per row,
and `Finish` (all outcomes in one transaction). `Die` ends a task
anywhere: a crash, a restart, or the kill at the time limit. `Tick` is time; no
task gets older than `TIME_LIMIT`. Because `claim_batch` and the outcomes both
count from the task's "now", the lease and the retry delay shrink by the age of
the task (`Lease`, `Backoff`).

`Finish` may lose the outcomes if a row of the batch was deleted meanwhile: an
UPDATE that matches no row is an error in SQLAlchemy unless the driver does not
report counts, so both outcomes are allowed. `sends`, `lost` and `deaths`
are history variables.

*Abstractions.* Recipients and channels are one delivery that succeeds or fails;
every notification has recipients. Ticks replace minutes.

### 2.4 Print jobs and quotas: `Printing`

Jobs of one team and its quota row. A request is `Begin` (`Submit` for
`create_print_job`, `Update` for `update_print_job`, through which approvals,
rejections, cancellations and the poller's `apply_printer_status` go), then
`Check` (the hard limit, under `SELECT ... FOR UPDATE`) or `ReadQuota` (the
booking reads the row without a lock), then `Write` (flush and commit) or
`Rollback`. Between the steps other requests run: what is written rests on the
job and the count **as they were loaded**. A retry of a failed job is checked
like a submission.

`overlaps` counts the commits that overwrote a status or a count they had not
seen. Properties that such a commit breaks are stated for `overlaps = 0`, and
the run allows one, so that both cases occur.

*Abstractions.* One part per job; grams, spools, robot parts and changed limits are
left out. A request names one job. Which job a printer's answer is about is the
poller's business and not modelled: `Update` offers every transition to every
job.

### 2.5 Offline queue: `OfflineQueue`

One browser with several tabs, the network, and the server's `create_match`. The
queue is in IndexedDB, which the tabs share and of which every `get` and `set`
is a step of its own.

| Action | Code |
|---|---|
| `Save`, `SaveUnanswered` | a form is submitted: the request interceptor of `api.ts` queues it offline, the response interceptor when no answer came |
| `StartSync`, `Take`, `Send`, `WriteBack` | `syncQueuedScores` of a tab: list, mark as syncing, `findConflict` and POST; `updateQueuedScore` reads in one step and writes in another |
| `CheckNow`, `CheckKept`, `CheckFails` | the three ways the GET of `findConflict` ends: the list of now, one the service worker kept, no list |
| `Visit`, `Expire` | the service worker keeps the list the scoring page fetched; it drops one after seven days, or when there are too many |
| `Look`, `Insert`, `Refuse` | `create_match`: the queries for the key and for the round, the insert under the unique key, a refusal or a server error |
| `PostUnanswered`, `Lose` | no answer; the request may never arrive, or be served later |
| `Retry`, `Claim`, `Pressed`, `Discard` | the buttons of `PendingScores`, whose list may be older than the queue |
| `CloseTab`, `SignOut`, `SignIn`, `GoOffline`, `GoOnline` | the environment |
| `ScoredElsewhere` | another device records a run for the same match or round |

An answer is handled in the step that gives it (`Answer`); one that comes late is an
answer to a request that was given up before. The loop goes on with the entry
**as it was listed**, with the `force` of then, also when the entry was changed
or discarded meanwhile; and every request carries the session **of now**.

*History.* `author` is who entered or claimed a score; `crossed` are the scores
under way while somebody signed in or out. `SentAsAuthor` excludes those: the comment at
`offlineQueue.ts:208` says an entry is only sent by its author, but the loop
compares the author once, when it lists, and a request that starts after a
sign-out and sign-in carries the other user's token. `silent` are the scores
recorded over a run that was there when the sync began; `misled` are those sent
although a rival was there, after a kept list without it.

*The service worker's copies.* The list of a team's runs that `findConflict` reads is
one of the paths `offlineCache.ts:17` lets the service worker keep. It answers
from the network first, but from its copy when no connection or no answer for four
seconds (`sw.ts:21-28`), and to the page that is an ordinary answer.
`copies` has such lists, left by the scoring page (`EventScoringPage.tsx:75-79`) or by
an earlier check; signing out drops them, a session that merely ends does not
(`SignOut`). There is one URL per team, and a team may be in several
matches; here a list is about one slot, so the copies of two slots of a team may be of
different age, which is more than the code can do. `/api/auth/me` may come from a
copy too; the module takes the user whose profile is shown for the owner of the token.

*Abstractions.* A score is a model value with a slot, a match or a team's round;
amounts are left out. The list that answers the check and the start of the POST are
one step, since a rival in between is like one recorded while the request is under
way; how old the list is, is part of that step. Order of
entries is arbitrary.

### 2.6 Session of a browser: `Session`

Tabs that share the refresh cookie (`jar`) and localStorage (`pending` logout,
`profile`), send each other messages, and take turns under a Web Lock. `row` are
the refresh tokens on the server. A request takes a step to be served
(`Serve`: `Rotate`, `Reject`, `Revoke`, `Create`) and one to be answered
(`Answered`), which is when its cookie is set; it may fail before or after it was
served (`Fail`), and `Reload` starts a tab again and orphans its requests.
`StartRefresh` ... `GiveUp` are `refreshSession` with its retries, `Acquire` what it
does once it has the lock: flush an offline sign-out, use a token another tab
told of, or post. `Unauthorized` is `endSession` of `api.ts` or the outcome of
`useRestoreSession`.

*History.* `unheard`: a refresh was served and its answer did not arrive; then the
browser holds a rotated token and its next refresh looks like a theft, which
the server answers by ending all sessions. That is the price of rotation and the
exception of `OnlyEndsWhenAsked`. `left`: signed out with nothing under way
that could bring a token. A refresh answered after a sign-out sets user and
cookie again, and a logout that was pending is sent with whatever cookie is
there, which may be that of a sign-in a moment ago; the code guards against
neither and `SignedOutStays` is not stated for them.

*Abstractions.* Access tokens expire at any time; deny list, several accounts or
devices, password changes and the age of refresh tokens are left out.

### 2.7 Live updates: `LiveUpdates`

How a committed score reaches a page. `data` counts the committed scores, a ranking
is the number of scores in it. The task after a commit raises the version and then
publishes (`Bump`, `Publish`; either may fail). `cached_payload` is `ReadVersion`, then
`Load` (hit, or join the flight of that version), `Compute` and `Store`; other
readers are `LoadElsewhere`, with versions they read a while ago. The hub keeps
a bounded queue per socket that loses its oldest message. The page starts a timer at
the first message and refetches when it runs out, which cancels a
fetch under way (`Flush`, `Refetch`), and polls while it is not connected (`Poll`).
`Open`, `Subscribe`, `Break`, `Notice`, `Resubscribe` are the life of its stream: a
public stream counts as connected when its socket opens, before the server has
subscribed it, nothing is refetched on connecting, and signing in or out
clears the timer.

*History.* `raised` are the scores committed when the version was last raised, and
the `floor` of a request is `raised` when it was sent. `missed` are the screens no
message will tell of a change, `degraded` says that raising the version
failed since: the exceptions of `EventuallyFresh`, which last until the next message
or poll.

*Abstractions.* One event, one ranking; the bundling delay and expiry are
steps that may happen at any time. A leader of a flight that fails, the lock
between instances (it saves work and decides nothing), tokens and close codes of
authenticated streams are left out, and so is the first load of a page, which React
Query does not restart. A ranking that the service worker kept (the page asks for it
when the network fails) leaves the page as old as a fetch that failed, which is
`FetchFails`.

## 3. What the runs show

| Run | Instance | States, time | Question |
|---|---|---|---|
| `bracket_playout` | double 2 to 7 teams, single 2 to 8 | 19,417, 75 s | Is the bracket that is built a knockout, and are its placements a final ranking? |
| `bracket_play` | double, 4 teams, no overrides | 19,840, 70 s | Do corrections, replays, edits and regeneration keep the phase consistent? |
| `bracket_override` | double, 2 teams, overrides | 9,666, 10 s | What holds even when officials edit by hand? |
| `bracket_reset` | double, 3 teams, overrides | violation | Is the reset final there when the grand final's winner changes? |
| `outbox` | 2 of 3 notifications, 2 with one key, 2 workers, 1 death | 375,606, 120 s | Exclusive claims, duplicates, attempts, outcomes, queued once, finished in the end |
| `outbox_attempts` | as `outbox` | violation | "maximal 5 Versuche"? |
| `printing` | 3 jobs, limit 1, 2 requests | 887,026, 45 s | Does the hard limit hold, is the quota right? |
| `printing_twice` | 1 job, 2 requests | violation | "never twice"? |
| `offline_queue` | 2 scores, 2 tabs, 2 users, 2 troubles | 421,872, 90 s | Is each score one run, and none lost? |
| `offline_stale` | as `offline_queue` | violation | "did someone else score this team in this match?" |
| `session` | 2 tabs, 3 tokens, 2 troubles | 653,600, 40 s | Do sessions end when they should and only then? |
| `live_updates` | 2 scores, 1 screen, 1 trouble | 226,886, 40 s | Is what is announced visible, and shown in the end? |

**bracket_playout.** `ImplementsKnockout`: every play-out is a behaviour of
`Knockout`. `FinalRanking`: when nothing is left to play there is one champion,
everybody has one place and places are consistent (ties skip places).
`PlacementsAreFinal`, `PlacedTeamsAreOut`: a place is never changed and its team
never plays again. `MatchCount`, `Seeding`, `NoImmediateRematch`: the promises
in the header of `brackets.py`. The last one is the header's claim with its real
scope: it holds before the last major round, where the loser bracket has only
one way to go. *Bounds*: 7 and 8 teams have every kind of bye pattern up to three
winner rounds, and four loser rounds. Of the two orders in which losers drop
(`brackets.py:178`) only the reversed one, after winner round 2, is tested by fields of
at most seven double-elimination teams: after round 3 one team drops. An eighth
double-elimination team has no byes and multiplies the states beyond the time
of a run.

**bracket_play.** `Advanced` and `ResetFollowsGrandFinal`: the seats are the
function of the results that the links define, after any series of
corrections. `OneSeatEach`: no team is lost or doubled. `OutByLosses`: out
exactly with the second loss. `NeverStuck`: a champion or something to play.
`RanksAreCurrent`: the DE rows follow corrections. `ImplementsKnockout`: every
request is a match of two teams that are in, such a match decided anew, a fresh
start, or changes no loss. *Bounds*: four teams are the smallest field with a loser bracket of two rounds, in which a match feeds two matches, is fed by two, and stands two corrections away from the finals.

**bracket_override.** `CompletedIsLocked`: the teams of a completed match never
change under it, whoever edits what. `RecordedMovesOn`: a recorded result always
places its teams. *Bounds*: with two teams winner and loser of the only match
go to the grand final, which is the case of rows loaded twice. The view leaves
out the phase status and the DE rows, which no guard reads, and the constraint
the status "running", which every guard treats as "scheduled".

**outbox.** `ClaimIsExclusive`: no row is in two workers' hands, although a row
becomes due again by time alone. `DuplicatesNeedALoss`, `AttemptsBounded`: each
duplicate send and each attempt beyond the maximum stands for an outcome that
was lost. `OutcomeIsEarned`: delivered rows were sent, failed rows had all
attempts. `QueuedOnce`: overlapping transactions queue a key once. `FinishedStays`:
never reopened or resent. `EventuallyFinished`: under fairness every committed
notification is delivered, given up or deleted, a death included. *Bounds*: the first
notification meets either one with its key, which may be queued by a transaction
that overlaps, or one without, so that a batch of two has one delivery fail and
one succeed, and a row is deleted while the other is recorded. The constraint
`OneOther` says so; it only restricts what is emitted, and whatever fairness is
assumed of stays possible, so it hides no behaviour in which nothing is finished.
A lease of two ticks with a limit of one is the tightest setting the assumption
allows, so the race between a dying task and the next claim happens; one death is
enough for every pair of claims of which one is lost.

**printing.** `LimitHeld`: without an override no more than `max_parts` jobs are
open or printed, in every interleaving of submissions, retries, completions and
polls that overwrites nothing unseen. `PartsAreBooked`: the quota row counts the
completed jobs, again as long as nothing unseen is overwritten; the job that is
booked twice is `NeverTwice`'s (finding 3). *Bounds*: with a limit of one, two jobs compete and a third can
fail and be retried; two requests are two transactions between each other's
steps.

**offline_queue.** `NothingLost`: a score the juror was told is kept is in the queue
or on the server, whatever is lost or closed, and whichever of two tabs writes last.
`RecordedOnce`: once, though both tabs may send it and answers get lost.
`RivalsAreNoticed`: over a run that was there before the sync only if the user chose
so, or if the check was answered with a list the service worker kept from before that
run; never so in a seeding round, where the server looks itself. `SentAsAuthor`: for who
entered it, where the session did not change under way; that exemption is a case that
does happen, against the comment at `offlineQueue.ts:208`. `Settles`: while its author stays signed in and
online, no entry waits for ever, "syncing" entries of closed tabs included.
*Bounds*: one score of a scheduled match, which the client checks, and one of a
seeding round, which the server checks; one of them was left by an earlier session,
of either user or of nobody. No list is kept at first; `Visit` leaves one. Two troubles (a failure, a closed tab, a new
session, a slow network, a rival, a retry) let one open a window and another hit it.

**offline_stale.** `ConflictsAreFound` is `RivalsAreNoticed` without the exception, as the
comment on `findConflict` has it. Two troubles break it: another device scores the
match after the scoring page left a list, and the server is slow (finding 4).

**session.** `OnlyEndsWhenAsked`: two tabs never revoke each other. `SignedOutStays`: after
a sign-out, also one without a connection, no tab and no restart brings the
session back. *Bounds*: three tokens are the first, its successor, and one that
another tab or a sign-in adds; with two tabs every pair of overlapping refreshes,
sign-outs and reloads occurs. The tabs are symmetric.

**live_updates.** `AnnouncedIsVisible`: a request sent after the version was raised gets
everything committed by then, although rankings are computed before a commit
and stored after it, shared between requests, and versions are read before they
are used. `EventuallyFresh`: a page shows the newest ranking in the end, with the
named exceptions. *Bounds*: two commits make two versions, so an old ranking can be
stored while the new version is in use; a queue of one message overflows at
once; one trouble suffices for each exception, and two were checked once (844,598
states).

TLC checks for deadlock except where the system really stops: a bracket that is
played out, print jobs that are all in a final state, a queue with nothing left to send, a
browser nobody is signed in to, and pages that show what there is.

### Findings

1. **The reset final stays cancelled** (`bracket_reset`, `ResetIsPlayed`).
   `_advance` sets `reset.status = "scheduled"` (`service.py:782`) and then calls
   `_place_team`, whose `_load_match` reloads the match and drops the
   assignment. After position 1 won the grand final (reset final cancelled), an
   official sets the grand final back to "scheduled" and position 2 wins it:
   the reset final has both teams and is cancelled, its result cannot be
   recorded, the phase has no champion. A correction without the edit in between
   is fine: the undo is flushed first.
2. **More attempts than documented** (`outbox_attempts`, `AtMostMaxAttempts`).
   `claim_batch` counts an attempt, but the maximum is only looked at when a
   failed delivery is recorded; a notification whose worker dies every time is
   tried without end. `docs/done.md:28` and `tasks.py:268-269` say otherwise.
3. **A completed job can be booked twice** (`printing_twice`, `NeverTwice`).
   Poller and official both load a job as printing and complete it;
   each increments `used_parts`. The docstring of `_account_filament`
   (`service.py:516-518`) says "never twice".
4. **A conflict is missed on a slow connection** (`offline_stale`,
   `ConflictsAreFound`). The juror opens a match on the scoring page, which
   fetches the team's runs; the service worker keeps the list. The score waits in the
   queue, another device records a run for the match, the sync begins. The check asks for
   the list, the server needs more than four seconds, the service worker answers with the
   list it kept (`sw.ts:21-28`): no rival. The POST goes out, and `create_match` refuses
   duplicates in seeding rounds only. `offlineQueue.ts:168-171` describes the check as "did
   someone else score this team in this match while we were offline?", and
   `docs/documentation/user-manual/juror.md:171` promises a "Konflikt" for it.

## 4. Fairness

All fairness is weak, and only three runs need it.

`outbox` (`FairSpec` of `Outbox`):

- `Tick`: time passes. It is disabled only while a task is at its time limit,
  which then must end or die.
- `Begin(w)`: beat queues the task every 10 s (`core/celery_app.py:56-58`), and an
  idle process takes it. Messages that expire are replaced by the next.
- `Claim(w)`, `Deliver(w, _)`, `Finish(w)`: a task that is not killed goes on; the
  channels have timeouts of their own, below the time limit.

No fairness is assumed of the transactions that queue notifications, of
deletions or of deaths. Deaths are bounded (`MaxDeaths`): a worker that dies in
every attempt would keep a notification open for ever, which is finding 2.

`offline_queue`: `StartSync(t)`, the interval of `useOfflineSync` (every minute while
a tab is open); `Loop(t)`, a loop that runs goes on; `ServeFor(t)`, a request of a tab is
answered or given up on, as `axios` has a timeout. Nothing is assumed of users,
connections, or requests nobody waits for.

`live_updates`: the publish task of a commit (`Publishing`), rankings being computed and
stored (`Computing`), requests (`ReadVersion`, `Load`, `Show`), the timer (`Flush`), the
polling interval (`Poll`), messages on an intact stream (`Receive`), and that a
page notices a broken one in the end (`Notice`, the browser's close event; the
client has no heartbeat of its own). Nothing is assumed of commits, of reconnecting or
of other readers.

`Session` states no liveness and no fairness.

## 5. What is proved

The theorems hold for every value of the constants that satisfies the ASSUMEs.
Each invariant is proved by strengthening it to an inductive one, `IInv`: it
holds initially, every action keeps it (one lemma or step per action), and it
implies the property.

**`BracketPlay_proofs`**, first for every bracket with one source per slot and links
that lead to later waves. `TypeCorrect`, `AlwaysAdvanced`, `ResetAlwaysFollows`,
`CompletedStaysLocked`, `AlwaysPlayable`, `AlwaysRanked` (`RanksAreCurrent`),
`RecordedAlwaysMovesOn`.

- `Advanced` is not inductive alone. Recording a match empties or fills the slots
  its links name; to know that no other match's claim on its slots is disturbed
  one needs that slots have one source (`OneSource`), that up-front teams stay
  (`EntryKept`), that an open match has no winner left over
  (`NoWinnerWhileOpen`), and that only the reset final is ever cancelled
  (`OnlyResetCancelled`).
- First results and corrections of ordinary matches turn out to be the same
  step on the rows (`OrdinaryStep`): what was where the links lead is replaced.
  The lemmas `RecordIsOrdinary` and `CorrectIsOrdinary` show that, using
  `Advanced` to know what was there; `OrdinaryKeeps` is proved once.
- `AlwaysPlayable`: if no match both of whose teams are known is open, take an
  open match of least wave; its sources are completed or up-front teams, so by
  `Advanced` both its teams are known, a contradiction. So all matches but the
  reset final are completed, and `ResetFollowsGrandFinal` gives the champion or
  the reset final to be played.
- `CompletedStaysLocked` needs the types only, with overrides or without.
- `AlwaysRanked`: placements are read off the results of completed matches, so a
  request that leaves those alone leaves the placements alone
  (`SamePlacements`), and every other one ends with `Sync`.
- `RecordedAlwaysMovesOn` holds with overrides, where `Advanced` does not. What
  could stop a recorded winner is a row loaded twice, when its slot is taken already
  (`Taken`). `SharedKept` says that where both links lead into one match, the
  slot holds one of the two teams of the match they come from or nobody: a
  correction clears it first, and where a reopened match is decided the other way
  that team would get two rows in the next match, which the unique index refuses
  (`OneRowPerTeam`).

Its second part uses all seven assumptions. `OneSeatAlways` (`OneSeatEach`),
`OutByLossesAlways` (`OutByLosses`). A team sits in the slots of every match it
played, so neither property is inductive. The invariant `LInv` follows its *last*
seat (`Last`), the match it has yet to play or did not move on from: every seated team
has one (`HasLast`, `OneLast`), its losses are those the bracket says of that
slot (`LossesFit`, `LossesAt`), and the teams are those placed up front. A
recorded or corrected result moves the last seats of two teams and touches no other
(`Relocated`, proved for ordinary matches, the grand final and the reset final),
and what it does to the losses is `Scored`: one is new, at most one is taken
back. A last seat is then open or lost without a way on, which gives both theorems.

`PlayIsKnockout`: with `Override = FALSE`, `Spec`
implies `ImplementsKnockout`, by a step per request. A result is `Scored`
(`ScoredLosses`), hence a `Lose` or an `Overturn` (`ScoredIsBeat`), if the two
teams had lost equally often or were the last. For ordinary matches the former
follows from `LossesFit`; for the finals the latter is shown by `AllPlayed` (a
match that is not over keeps the next one empty, and so on to the grand final)
and `OthersAreOut`. With overrides it is false: an official may cancel a match.

**`BracketSchedule_proofs`**, for every field whose blueprint is `WellFormed` (its
hypothesis `Generated`). It joins the two descriptions of a bracket: `BracketPlay`
speaks of any bracket that satisfies its assumptions, `BracketTree` of the blueprints.

- `ScheduleFits`: the rows of such a blueprint satisfy all seven assumptions. Most of
  it reads links as slots (`Links`, `Seats`). `FieldIsLarger` is a count: every slot
  holds a team placed up front or ends one link, every link but those of the finals
  leaves a match (`SlotCount`), so 2 slots per match give n - 1 matches that
  knock out in a single elimination and n - 2 before the finals of a double one
  (`SideCount`). `SharedTarget`: a loser goes where the winner goes only if that is the
  grand final; then there is no loser bracket at all, since its latest match would
  have no way on that is left (`NoLoserBracket`, `Latest`), and the match is between teams
  placed up front.
- `ScheduledPhase`, `ScheduledKnockout`: so what `BracketPlay_proofs` shows holds of the
  phases the program creates, with one hypothesis in place of seven.
- `PlacementsAgree`: the module for playing reads the places off the rows of matches
  (`Placements`), the one for blueprints computes them as `elimination_placements` does
  from outcomes. They are two translations of one function; without overrides they are
  equal in every state, corrections included. The proof needs `Lives`, the invariant of
  the last seats: the two sort the stages alike (`SameStages`), look at the same deciding
  match (`SameDecider`), and every slot of a completed match has a team (`AllSeated`).

**`BracketPlayout_proofs`**, for any fields whose blueprints are `WellFormed`.
`PlacesAreFinal` (`PlacementsAreFinal`), `PlacedAreOut` (`PlacedTeamsAreOut`),
`PlacesRank` (`FinalRanking`), `PlayoutLength` (`MatchCount`), `PlayoutIsKnockout`
(`ImplementsKnockout`). None is inductive.

- Without corrections the seats are a function of the results: teams start where they
  are placed, links are followed, the reset final mirrors a grand final that position 2
  won (`Basic`). A match that is played therefore fills empty slots only.
- Every team has exactly one last slot (`OneLast`, `HasLast`), its losses are those of
  the slot's level, one more if it was beaten there (`LossesFit`), and so are the
  ones that dropped it out of the winner bracket (`DropsFit`). A match moves the
  last slots of its two teams (`LastNext`), adds one loss (`LossNext`) and nothing
  else. This is `IInv`, and `AlwaysIInv` its invariance.
- *It does not stall.* If nothing can be played, an open match of least wave would have
  both its teams, so all are played but a reset final that was not needed
  (`AllPlayed`). *Who is left.* Then there is one deciding match, and the last slots are
  those of its winner, its loser and the losers of the matches that knock out (`End`,
  `Ended`). As teams and last slots correspond one to one, these are the whole field,
  each once (`Everybody`, `OutCount`).
- *Ranking.* `Cumulative` of a match counts the teams knocked out in its stage or an
  earlier one, so a place is one more than the number of teams still in after the stage
  (`Ranked`), and as the stages are ordered (`BeforeOrder`), those are the teams
  placed better (`Order`).
- *Length.* Single: every match knocks out one of the n - 1 teams that do not win
  (`OutCount`). Double: every team but one drops out of the winner bracket exactly once,
  so it has n - 1 matches (`DropsAtEnd`, `WinnerCount`); the loser bracket knocks out
  all but the two of the decider, so it has n - 2; the rest are the finals.
- *Knockout.* Two teams meet on one level but in the finals. As long as some match
  before the finals is open, the grand final is not (`BeforeGrand`); when it is played,
  everybody else is out (`GrandFinalists`).

**`Outbox_proofs`**, for any numbers of notifications, workers and deaths, if
`TIME_LIMIT < CLAIM_LEASE` (300 s and 10 min; the one assumption that matters).
The invariant `Leases` says that a held row is due no earlier than
`CLAIM_LEASE - age` of its worker, which is positive as long as the worker
lives; so nothing held is due, and claims are exclusive. `SendsCounted` locates
the one send that needs no excuse (a delivered row, a worker's hands, or a row
that is gone); `AttemptsCounted` does the same for attempts by status.
`KeysUnique` extends `QueuedOnce` to inserted but uncommitted rows.

**`Printing_proofs`**, for any jobs, requests, limit and number of overlaps.
`StageInv` says that a request that was checked and is about to write holds the
lock; `LockInv`, that nobody else does; `RoomLeft`, that while it is held
without an override there is room for one more job: a completion, which moves a
job from open to printed, has to wait for the lock, and no other step adds to
either. `LimitHeld` and `PartsAreBooked` then follow by counting
(`Cardinality` of the sets before and after a write).

**`LiveUpdates_proofs`**, for any numbers of screens, scores and troubles. `AlwaysVisible`
(`AnnouncedIsVisible`), `TypeCorrect`. The invariant says what may be found under a version
(`AtLeast`: in the cache or in a flight): for the version of now, everything that was
committed when it was raised (`Current`); for the version of a request, its floor
(`Served`); for versions to come, nothing (`NotAhead`), which is why raising the
version keeps `Current`. Versions stay in the domain of the cache because each
publish task raises once (`Counted`), a count of the tasks past that step.
`TypeCorrect` adds that queues are bounded and empty on sockets nobody subscribed
(`Streams`), that a version has one flight and who waits has one to wait for
(`Flown`), and that what is cached, computed or shown was committed (`Real`).

**`OfflineQueue_proofs`**, for any scores, tabs, users and troubles. `TypeCorrect`,
`NeverLost` (`NothingLost`), `RecordedAtMostOnce`, `RivalsAlwaysNoticed`
(`RivalsAreNoticed`), `AlwaysSentAsAuthor` (`SentAsAuthor`). The invariant says that a loop at
work on an entry knows it and will write back an entry (`Ready`), and that a loop
waits exactly while its one request is under way (`Posted`). An entry then leaves the
queue only after the run is stored, or when a user discards it, and a loop of another
tab that writes back what it read can only bring an entry back. That one run is
stored per score rests on the unique idempotency key, the guard of the insert. The
assumption `NoEntryIsNone`: the mark for "not in the queue" is neither an entry nor a
score. The last two theorems need more, the invariant `Traced`:

- `Noticed`: a run that a loop saw when it began is still there (`SeenStays`, runs are
  not deleted), and a request over it is either one for a seeding round that the server
  has not looked at yet, or one whose score is `misled` (`Explained`, `EarlyOnes`): for a
  scheduled match the loop compares before it sends, with the list of now or with one
  that was kept. `SilentStays` is what a step owes: what it records over a rival has that
  excuse, and no excuse is forgotten.
- `Attributed`: a score that is under way, and was not when the session changed,
  has the user of now for its author (`OneSession`), and every request, copy and
  button about it carries that user (`Carried`). An entry of nobody has no run and
  nothing under way (`Owned`), so that claiming it cannot change the author of a run. A
  step within one session (`InSession`) is about nothing it was not about
  before, except entries of the user.

**`Session_proofs`**, for any tabs, tokens and troubles. `TypeCorrect`,
`NeverRevokedByATab` (`OnlyEndsWhenAsked`), `SignedOutForGood` (`SignedOutStays`).
The invariant follows the tokens: one tab is inside the lock, with one request
(`Locked`); the token of an answer under way is in no jar and no request (`Fresh`);
unless an answer was lost, no rotated token is sent again, so the server never sees
reuse (`NoReuse`); and unless a sign-out was asked for, the jar or an answer under
way holds a live token that no revocation still to be served names (`Kept`). So a 401
on refresh needs one of the two. The lock is what makes the rotation safe:
`RotateKeeps` uses that the refresh being served is the only one. `StaysOut` is what
a sign-out leaves behind: no cached profile, no message of a token, no live token in
the jar unless its revocation is noted, and no request of a tab that could bring one;
as no row comes alive again (`RowsDie`), every later request is refused.

**Only model-checked.** Liveness (`EventuallyFinished`, `Settles`, `EventuallyFresh`)
and anything with ENABLED are beyond the prover. So is induction over data, hence
what the recursive functions of `BracketTree` compute for every field size: that
blueprints are `WellFormed` (evaluated for 2 to 64 teams), and the two properties about seed
numbers, `Seeding` and `NoImmediateRematch`, which rest on the arithmetic of the seed
order and of the drop-downs. They are checked for the listed fields. Every other
invariant and action property of the passing runs is a
theorem.

## 6. Not modelled

- *Formulas, score sheet parsing, image recognition, wording, exports, PDF, charts,
  pages*: computations on data or presentation; the unit tests reach them, and no
  interleaving does.
- *Events, seasons, teams, awards, bots, users*: single-row requests behind a
  permission and an archive guard.
- *SMTP, Web Push, printer adapters, dumps*: input and output; what they do to the
  models is that they succeed or fail.
- *Reminders*: which reminder is due is date arithmetic; that it is sent once is the
  dedupe key of `Outbox`.
- *Pages* (most lines of `frontend/src`, next to the generated API types in
  `api/generated.ts`): forms and tables over the server's state. What they keep
  and decide across time is in `OfflineQueue`, `Session` and `LiveUpdates`. Of the
  service worker only the lists of runs are modelled; its other copies (events, teams,
  schedules, profile) let pages open without a connection, and its precache and push
  messages are delivery.
- *Scans, papers, ranking rows, overlapping requests on brackets*: planned, next
  section; what 2.5 to 2.7 leave out is named there.

## 7. Plan

The order is by weight. Done: what decides a tournament (brackets), what nobody sees
failing (outbox), what is contended (printing), and the way of a score from the
juror's browser to the public screen (offline queue, sessions, cache and live
updates). Then:

1. Proofs: done for the modules there are, as far as the prover reaches (section 5).
   All that is proved about brackets rests on `WellFormed`, which describes blueprints
   without recursion. That it holds of the blueprint of every field size is
   induction over the bracket's construction, which needs another prover.
2. `BracketRequests`: two overlapping `record_match_result` at read committed,
   composed with `BracketPlay`'s operators; what the unique indexes catch and
   what they do not.
3. The printer as a component of its own, composed with `Printing`: answers of a
   moment ago, applied to the job the printer has now.
4. `RankingRows`: writers that recompute a team's row from a read of all its runs.
5. `Scans`, `PaperReview`: one module each, as the state machines and hazards of
   `PROJECT.json` describe them.
6. Pure operators against reference definitions: rank numbers with ties, the
   chain of tie-breakers, the seeding schedule.

Runs stay few: one per question, two notifications, jobs, readers or requests
each, since the hazards listed are all between two actors.

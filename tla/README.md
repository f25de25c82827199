# wb2api-intl: a TLA+ verification project

The repository is a gateway in Go: it serves an OpenAI-style chat API from a pool
of upstream accounts of two sites (the Chinese one, `cn`, and the international
one, `intl`), keeps the accounts in good standing (check-in, token refresh,
activity tasks) and has a panel to operate it.  This directory holds TLA+ models
of its core, TLC configurations that check them on small instances, and TLAPS
proofs of what matters most for every value of the constants.

## 1. Inventory

| Part | Files | State it keeps | Operations | Talks to |
|---|---|---|---|---|
| Account pool | `internal/pool` | `byUID`: per account credentials, cool-down, breaker, degrade window, disabled flag, in-flight counter, last use | `Pick*`, `Acquire`/`Release`, `Cooldown*`, `NoteError/Failures/Success`, `Disable`, `Revive`, `ReviveDisabled`, `ReenableIfCredits`, `Add`/`Remove`/`SyncToDir`, `Flush` | everyone calls it; it writes `state.json` and the Redis mirror |
| Session router | `internal/session` | key to account and last activity | `Resolve*`, `Bind`, `Unbind`, `gcOnce`, `LoadFromStore` | asks the pool who is available; mirrors to Redis |
| Chat handler | `internal/server` | per-request locals; one WAF gate per site; the degrade gate | `chatCompletions` | pool, session, upstream client |
| Redis mirror | `internal/redisstore` | bindings, last snapshot | asynchronous `SetBind`/`DelBind`/`SaveState`, synchronous loads | written by session and pool |
| Scheduler | `internal/scheduler` | time table, re-arm channels, once-a-day marks | `Run`, `Run*Now`, `Reconfigure`, balance loop | pool, upstream |
| Credentials | `internal/auth`, `upstream/client.go`, `panel/login.go` | token, generation, refresh lock, file; login states | `LoadDir`, `SaveAtomic`, `RefreshToken`, login start and poll, `accountRemove` | files, pool, upstream |
| Panel | `internal/panel` | account locks, task queue, log ring | task queue, single tasks, complete-all, account operations, configuration | pool, scheduler, upstream, configuration |
| Upstream client | `internal/upstream` | effort table, device tokens; otherwise stateless | chat stream, SSE aggregation, classification of errors, payload rewriting, activity APIs | HTTP |
| Configuration | `cmd/server/config*.go`, `internal/livecfg` | file, start-up baseline, live snapshot | `Load`, `Save`, `Reload` | pool, scheduler, upstream |
| Process control | `cmd/server` | child process, pending restart | supervisor loop, restart request, shutdown | signals, pool flush |
| Tools, scripts | `cmd/login`, `cmd/signin`, `cmd/credit`, `scripts` | none | sequential | upstream |

**How they interact.**  A chat request resolves its session (router, which asks the
pool), chooses an account (under `Pool.mu`), leases it (a lock-free counter
outside the lock), sends, judges the answer, punishes or clears the account
(again under the lock), binds or unbinds the session, gives the lease back and
rotates.  Scheduler and panel act on the same accounts at any moment.  A flusher
saves every 5 s what changed; each save is copied to Redis by a goroutine of its own.

**What is hard.**  Decisions made under one lock and used after it; answers that
arrive after the account's standing has changed; ten ways out of one round of the
rotation, each of which must balance its lease; three orthogonal penalties with
five recoveries that each lift a different part; saves that fail after the dirty flag
is down; a state file that cannot be read and is passed over; mirror writes that arrive in any order, or in another process's lifetime;
credentials replaced under a refresh that is out; a plan for the next wake-up that is
old before the sleep begins; a stop that meets a restart; a stream that breaks off at
any byte; reports that are scored late, or not at all.
The list, with lines, is `hazards` in `PROJECT.json`.

**What makes each part correct**

* Pool: no choice crosses a bar; sentences are bounded and never shortened by a
  further failure; recoveries lift what they should and nothing else; `/healthz`
  promises no more than a request gets.
* Leases: the counter is the number of leases held; it never exceeds the limit
  that was read; every lease comes back.
* Persistence: a clear flag means saved; a restart goes back to nothing older than the file;
  no change is forgotten silently; nothing is served with a placeholder credential.
* Session: an answer was available during the call; racing first requests agree;
  conversations spread.
* Chat: leases balance on every path; attempts are bounded; a failed account is
  not tried again; only an account's own failures bench it; one account's trouble
  does not close a site.
* Task queue: one action per account at a time, over the queue and the buttons;
  every item of a run settled once; every run ends.
* Errands: a reward that was ready is collected by the next who passes; a school run
  leaves no draw it was shown.
* Credentials: one refresh of an account at a time, with the token that is current; the
  file follows the pool; a removed file stays away; sites do not mix.
* Scheduler: no change of the time table or of the interval is lost; each slot that
  strikes on the sleeping loop is served once, but for one slot a change may cost.
* Process control and configuration: a restart happens on purpose, once, and on a
  configuration that loads; what the panel says is still to come by a restart is
  exactly that, but for a balance refresh without a loop; a stop ends the supervisor and its child.
* Exchange with the upstream: what is sent is a body the upstream takes and says what
  the client said; what is handed out is what was received, once, with one end mark;
  only a silent upstream is cut off, and every exchange ends.

## 2. Modules

| Module | Models | Notes |
|---|---|---|
| `Penalty` | arithmetic of sentences (`cooldown.go`, `degrade.go`, parts of `state.go`) | pure operators over records `cool`, `breaker`, `degrade`; no state |
| `Pool` (extends `Penalty`) | every operation of the pool that changes an account's standing, and the choice | one action per method: each runs under `Pool.mu` |
| `LeaseCounter` | what `Acquire`/`Release` promise: an atomic counted lease | abstract specification |
| `Lease` | `Acquire`/`Release` load by load, CAS by CAS, under `SetMaxInFlight`, `RemoveEntry` (`Pool.Remove`), `Add` | implements `LeaseCounter` |
| `Persist` | `persist.go`, start-up and exit of `main.go`, files and Redis snapshot | contents of an account are a version number |
| `Session` | `session.go`; `Resolve` in its three lock regions | history variables `witnessed`, `calm` |
| `Classify` | `Classify` of `client.go`: the first rule that matches status and body decides | a body is the set of the marker lists found in it; no state |
| `Chat` (extends `Pool` and `Classify`) | `chatCompletions` with its rotation loop and error policy, the WAF and degrade gates | composes handler, pool and classification; `bound` stands for the router |
| `TaskQueue` | `taskcenter.go`: start, workers, end of a run; the account locks of `panel.go`; the handlers of `autotask.go` that share them | a second start may pass the check while the first scans; an index past the list ends the process |
| `Errands` | the tasks of one account: the school run of `school.go`, the single task, complete-all and queued pipelines of `autotask.go` and `taskcenter.go`, accept and claim of `tasks.go` | the account lock binds the panel's jobs, not the scheduler's |
| `Credentials` | the `Auth` objects of one account, their refresh and save, logins, removal, restart | tokens are counted per login session |
| `Scheduler` | both loops of `scheduler.go` and the panel's changes to what they run by | the clock stands for the hour last struck |
| `Control` | supervisor, service start and drain, restart reservation, configuration file and transaction | four settings stand for all |
| `Payload` | `tool_pairing.go`, tool choice and effort of `payload.go`, the thinking of deepseek models of `thinking.go`, and what a good body is | no state; passes are folds |
| `Exchange` (extends `Payload`) | one request and its answer: `sse.go`, `idle.go`, `ChatStreamContext` | a frame is its position in the stream |
| `MC...`, one per module that runs | instances for TLC | |
| `ChatProofs` | theorems about `Penalty`, `Pool` and `Chat` | one chain: the handler's rest on the pool's |
| `RoutingProofs` | theorems about `Lease` and `Session` | how a request gets to an account |
| `PayloadProofs` | theorems about `Payload`, and about what `Exchange` sends | laws of folds, shared with the next |
| `ExchangeProofs` (extends `PayloadProofs`) | theorems about `Exchange` | streams, and answers put together |
| `SchedulerProofs` | theorems about `Scheduler` and `Errands` | the loops, and the work they start |
| `ProcessProofs` | theorems about `Control` and `Persist` | the process's life, and what outlives it |
| `CredentialsProofs`, `TaskQueueProofs` | theorems about the module named | |

Correspondence.  Variables have the names of the fields they stand for:
`cool[u]` is `coolKind`, `until`, `softStreak`, `softRateModel` of `entry`;
`breaker[u]` is `fails`, `retryCount`, `breakerUntil`; `degrade[u]` is
`consecutiveFails`, `degradeUntil`.  A deadline of 0 is the zero time.  Actions
have the names of the methods.  In `Lease` and `Session` a request is a process
with a program counter whose steps end where the code drops a lock or completes an
atomic operation; in `TaskQueue` there is one per run and account, whose steps are
the stretches under `q.mu`; in `Chat` the steps are the calls into pool and router.  The
random draw of `pick` is a free choice among the accounts the draw may return.

In `Credentials` an `Auth` is an index into the objects of this process: who holds
one goes on with it after the pool has moved on.  A token is a number that counts the refreshes
of its login session; the generation of `auth.go` is that of the object.  In
`Scheduler` a loop computes its plan (`LoopPlan`), and only then sleeps: what the panel
does in between is the point; `lost` counts the slots that had struck when a token won
the select; channels of capacity one are Booleans; the
list of due tasks is the set of those left, run in `TaskOrder`.  In `Control` the
child is a program counter of its own under the supervisor's; `soft_rate` is a setting taken
up at once, `timeout` and `header` are taken up at a start, and `header` falls back to
`timeout`; `balance`, the interval of the balance refresh, is taken up at once by a service that
has started its loop (`refreshing`) and by no other.  In `Exchange` the upstream writes frames in any order its three styles
allow, the reader and the monitor are goroutines, time passes in ticks up to the
idle limit and one more.  What the code does under a lock and after it are steps of their own: a read
returns (`Read`) before it is noted in `lastRead` (`Note`), and the monitor looks (`MonitorLook`) before
it cancels (`MonitorCut`).  In `Errands` every job is a list of tasks still to do
and the step it is at; a call that fails may have been done or not.
`PROJECT.json` names the lines behind every definition.

Some definitions have a sibling right above them with a telling suffix
(`SoftDurationUncapped`, `SlowBlind`, ...): the same operation with a plausible
mistake.  No specification uses them; each shows that one property would notice.

## 3. Runs

| Run | Question | Bounds |
|---|---|---|
| `pool` | do the penalties, recoveries and choices keep their promises in any order? | one account, two sites, two models, 3 ticks |
| `lease` | is the counter exact, does every lease return, is the atomic lease implemented? | 3 threads, one request each, limits 0, 1, 2, two generations of the entry |
| `persist` | does a restart find what was saved? | a state file that can be read or not, one uid with a file of either site, 2 changes, 2 clock ticks, 2 mirror writes in flight |
| `session` | are resolved accounts available, agreed on and spread? | 2 keys, 2 accounts, 2 requests, one tick of the clock, TTL 0 |
| `chat` | are leases, attempts and blame kept straight? | 2 requests of one conversation, 2 accounts, 2 rounds, one lease per account |
| `queue` | is each account acted on by one, each item settled once, and does every run end? | 2 starts at once or in turn, 2 accounts with one item each, concurrency 1 and 4 |
| `errands` | is every ready reward collected, and every draw taken? | one task of each sort, a scheduler's run beside the panel's button and queue, 2 readings after a report, one midnight; its VIEW takes as one the states that differ only in what no later step or property looks at (what was owed to a job that failed) |
| `cred` | do refreshes, logins, removals and restarts leave the right tokens in pool and file? | 2 refreshers, 2 polls, 2 logins on either site, 2 `Auth` objects, one refresh granted per session, one restart |
| `sched` | are changes taken up and slots served once? | days of 2 hours, into the second, 2 tasks, 3 time tables, intervals 0 and 5, 2 changes |
| `sched_balance` | is a refresh switched on in the panel taken up? (violated) | as `sched`, one hour, one change |
| `control` | are restarts sound, answers true, stops final? | 2 restart requests, 2 signals, 2 spawns, 2 saves, one edit from outside, an environment that sets one value |
| `exchange` | do the right body go out and the right answer come back, is only a silent upstream found idle, and does each exchange end? | every history of up to 4 messages, or every tool choice, or every effort and thinking; answers of up to 3 lines, 2 calls in 2 parts, idle limit 1 |

Why these bounds are enough.  In `Pool` no operation but the choice relates two
accounts, so one account meets every sequence of sentences and recoveries (the
thresholds are 2, so counts start, trip and start again; a day is three ticks, so a
hard cool-down outlasts a soft one; the cap of the soft cool-down lies between its base and
its first doubling); choices among several accounts are in `chat` and in the proofs.  In
`Lease` two racing threads are the conflict and the third is the one that sees it
through; limit 0 is the unlimited path.  In `Persist` two changes make an older
and a newer save, two mirror writes can swap, a tick between saves tells them
apart and no tick makes a tie.  In `Session` two keys and two accounts can spread or
collide, and a binding of TTL 0 expires with the first tick.  In `Chat` two rounds
are enough for a failure and its retry, and two accounts for a WAF gate of
threshold 2.  In `TaskQueue` two accounts compete for one slot or run side by side,
and a second run of one item is shorter than a first of two.  In `Errands` one growth task,
one shared and one viewed task are the three ways to be counted, lit and
claimed, and two readings let a score arrive between them or after both; complete-all
and the single task differ in their lists, not in the tasks.  In `Credentials` a
refresher finds the lock taken, or its token replaced, by the other; two logins make an
`Auth` of another site and one that displaces a living one; two polls race for one
login.  In `Scheduler` a day of two hours has a slot before and after every hour, the
second day repeats a slot, two changes arrive during a plan and after it, and the tables
switch off some and all.  In `Control` two requests race for one reservation, the second
signal is the impatient one, two saves race for one file, and the second child is the one
that meets the new configuration.  In `Exchange` four messages hold a call of two with both
results, or two groups with an orphan, or an interrupted group; three frames hold fragments
of two calls mixed up, with one of them complete, or text and a message that says all again, or what
follows an end mark, or a line before the monitor's look, one between look and note, and one after (longer
answers are left to the proofs, which cover any length); and an idle limit of one tick
separates a pause from a silence.

Every bound is a constant: `MaxTime`, `MaxLease`, `MaxChange`, `MaxClock`, `MaxMirror`,
`MaxItems`, `MaxRequests`, `MaxEntry`, `StreakBound`, `RetryBound`, `Logins`, `MaxAuths`,
`MaxIssue`, `MaxBoots`, `MaxChanges`, `MaxSignals`, `MaxSpawns`, `MaxSaves`, `MaxEdits`,
`MaxFrames`, `Parts`, `Polls`, `MaxDays`.  Symmetry is used where all members of a set
are alike and no liveness is checked (`session`, `chat`, `cred`).  Deadlock is not
checked where the system may stop for good: every request is served (`lease`, `chat`),
nobody has anything left to do (`cred`), the service was told to end (`sched`,
`control`).

Fairness.  `Lease`: each thread keeps running (weak fairness on its steps: the Go
scheduler is preemptive), and a compare-and-swap that loses goes round again.  `Persist`:
the flusher's ticker fires as long as the process lives, and a Redis write ends
within its 5 s timeout.  `TaskQueue`: of a run that is on, some goroutine goes on,
because the locks are only tried, never waited for, and calls to the upstream end by
their timeout of 120 s (the conversation a task may hold, by its idle limit: that the
upstream does not talk forever is assumed, not enforced).  `Scheduler`: both loops and
the panel's handler go on, and a task ends, because its calls do.  `Control`: the supervisor takes each step it
can: its timers run out and a killed child ends; nothing is assumed of the service, which may hang.
`Exchange`: the reader, the monitor's ticker and time go on, and a write to the client returns
in the end; the upstream may stop at any point, in any way, but it
says no more than `MaxFrames` lines: that it does not go on for ever is assumed, because the code sets
no limit to a stream that keeps talking.  Nowhere is fairness assumed of saves
succeeding, of users, of signals or of the hours striking.

### Disagreements between code and documents

Runs.  **A balance refresh switched on in the panel** (`sched_balance`).  README lines
518-519 say that `schedule.*`, the refresh interval included, takes effect at once and without
a restart.  `StartBalanceRefresh` starts no loop when the interval is 0 at the start
(`scheduler.go:411`), so nobody takes a later interval up.  The panel's answer does not say so:
the fields that need a restart (`config_runtime.go:176`) leave the schedule out.  `AnswerIsTrue`
therefore excepts just this field, in just this case (`Unsaid`).

Met while modelling.  The models contain the behaviour; no run is spent on it.

* Pool.  A late 429 shortens a hard cool-down, although README lines 404 and 465 let the
  account wait for 04:00 (`cooldown.go:36` overwrites deadline and kind).  After a
  breaker has expired other models stay barred after a 6004, against README line 694:
  `entry.go:158` asks whether `breakerUntil` was ever set.  `Release` after a removal
  is called a no-op at `pool.go:233`, but finds the entry of a new login (`pool.go:164`).  The
  flush at exit (`main.go:73`) saves nothing if the save before it failed, because the flag is
  down already (`persist.go:75`).
* Chat.  `handler.go:687` says an unclassified error only changes the account; the caller
  then counts it with `NoteFailures`.
* Task centre.  Two runs may be on at once (`taskcenter.go:178`), so the list of items that the comment at
  `taskcenter.go:345` calls fixed is replaced under the workers.  The comment at
  `taskcenter.go:55` says a task that is complete but unclaimed is queued too; the line it
  stands on leaves it out, and `runAutoAll` skips it as well.  `autotask.go:21` says that
  whatever is claimed or complete is skipped; the single task and the queue skip only what is
  claimed.  Whether a task counts before it is accepted is answered in two ways
  (`taskcenter.go:297`, `autotask.go:689`).
* School.  `school.go:155`, `:190` and `:241` announce another try tomorrow for a viewed task
  that did not light up in time; if it lights up later it is skipped ever after, lit but
  unclaimed.  Neither the school run nor any other task of the scheduler takes the account's lock.
* Credentials.  `accountRemove` deletes the file of the pool's `Auth`; with files of both
  names the other one brings the account back at the next start, although the question asked
  (`app.js:234`) calls the removal final.
* Persistence.  A `state.json` that cannot be read or parsed is passed over without a word
  (`persist.go:93-103`): the pool starts without the history that stands in the file, unless the mirror
  has a snapshot of the same tick, and the next save overwrites it.  The comparison with the mirror
  goes by the file's time alone, so a newer file that cannot be read also keeps an older
  snapshot out.  `CleanMeansSaved` and `RestoreKeepsLocal` name the case (`unread`).
* Credentials.  A save that is out when an account is removed writes the file again
  (`auth.go:217`); `FileStaysGone` is about times without such an overlap.
* Tool choice.  A function that is called `none` and chosen by name goes out as the word that forbids
  tools, and the tools with it (`payload.go:218-227`); `Acceptable` excepts it.
* Tasks.  `streak.go:110` takes "yesterday" anew after midnight, in the
  local time zone.
* Configuration.  `header_timeout_seconds` falls back to `timeout_seconds` of the file before the
  environment is applied, so it does not follow `WB2A_TIMEOUT_SECONDS`.
* Scheduler.  `scheduler.go:230` says that a late wake-up misses nothing, because the tasks are
  fixed at planning.  When the loop wakes late and a token lies in the channel as well, the
  select (`scheduler.go:223-229`) may take the token, and the new plan begins after the present
  hour: the slot is lost.  `SlotsServed` names this way out, and `OneLossPerChange` (part of `RearmsBalance`) bounds the
  damage: a change costs one slot at the most, even if it has nothing to do with that slot.  Slots
  are missed as well, without a bound, while tasks run, while the loop oversleeps a whole
  hour after the one it slept for, and when the hour strikes between a token and the new plan:
  `nextFire` looks ahead only.
* Stream.  `sse.go:412` and `:494` promise exactly one `[DONE]`; there is none after an
  error in mid-stream, and after an end within a line it is written behind the fragment.
  `sse.go:114` says that deltas after a whole message are not appended; the delta's path does
  not ask.  The latch covers text only: fragments of calls followed by a whole message
  before any text are repeated (`Repeats` excepts this from `AnswerIsExact`).  `sse.go:62`
  speaks of the index last received; it is the one last opened.
* Tool pairing.  `tool_pairing.go:172` says no input yields half a pair.  It holds of ids
  (`Paired`), not of positions: results before their call, ids used twice, and an orphan or a
  user's message between call and results leave groups apart (`Interrupted` says when not).
  So does a result without an id to a call without one: it ends the group for the repacking,
  and only afterwards the cleanup drops both.  And an id that two calls of one message share
  leaves them with one result.  The proof found these two; `Interrupted` excludes them.
* Idle monitor.  It measures the gaps of the reader, not the silence of the upstream: comment
  lines alone keep a stream alive for ever (beyond `MaxFrames`, so outside `ExchangeEnds`), and a slow client makes an old clock.  `QuietOnly`
  says what remains true.  `idle.go:1` says that an answer that goes on is never cut; but
  the monitor looks at `lastRead` under the lock and cancels without it (`idle.go:67-68`), so what
  is read in between comes too late (`MonitorLook`, `MonitorCut`).  The look itself finds a reader
  that waits idle only if the upstream is quiet.

## 4. Proofs

Every safety invariant and action property that a run checks is proved for every value
of the constants.  Each proof has the same three parts: an
inductive invariant `...Inv`, that the initial states have it (`...InitInv`), and that
every step keeps it (`...StepInv`, from one lemma per action or group of actions,
`Keeps...`); a theorem then says what follows from it.  What follows says for each
component what the invariant adds to the property, and why the property would not be
inductive without it.

**Pool** (`ChatProofs`, first part): all accounts, sites, models and thresholds.
`PoolTypes`, `PenaltiesHold`.  `PoolInv` adds to the types and to `PenaltyInv` that an account's
breaker deadline is no further than its next trip would put it (`BreakerPaced`): without it
nothing excludes a trip that ends earlier than the one still running.  The proof first
reduces every operation to the *shapes* of change it makes to each record (`StepShapes`),
then treats one record at a time (`CoolKept`, `BreakerKept`, `DegradeKept`, `RestKept`).
It begins with the arithmetic of `Penalty`: powers of two grow, a soft cool-down
stays within its cap, the breaker's sentences grow.  Of steps: `SentencesServed` (a breaker's
deadline only moves to a later time or is cleared with its counts; a running degrade window is
never moved, only lifted) and `BlocksBenchForAll` (what is the account's fault benches it for every
model, because the new deadline is ahead and the note of a model is gone).  Of the choice:
`PickIsBarred`, and `ServableProbeSound` for two models or more.

**Chat** (`ChatProofs`, second part): any finite set of requests on top of that.  `HandlerKeepsPool`:
every step of the handler is a step of the pool or leaves the pool alone, so
`PoolInv` and the pool's theorems hold of it.  `ChatInv` adds where a request's locals stand at each
place of the loop: what it has tried, whom it is using, how many rounds are gone.
`LeasesAlwaysMatch` needs that a request uses an account exactly between taking and giving
back, `AttemptsAreBounded` that attempts never outnumber the rounds gone, the one with the
degraded prompt included, `NoRequestTriesTwice` that whom it uses it has not tried before,
`BlameStaysOwn` that what led to a punishment was the account's own answer.  `Effect`
says what a single step may do to request, account and site; each action is shown to
have it, and the invariant is kept because of it alone.

**Lease** (`RoutingProofs`, first part): any number of threads and any limits.  `CountExact`, from `LeaseInv`:
each entry's counter is the number of threads that hold on it, and locals fit their
program counter.  `LeaseImplementsCounter` maps every step to a step of
`LeaseCounter` or to a stutter.

**Payload** (`PayloadProofs`): any messages, calls and results, any efforts.  `PreparedIsAcceptable`
says what `PrepareBody` makes of any body; `BodiesAreAcceptable`, that no other body waits to be sent.
Tool choice, thinking and effort are cases of their own (`ChoiceFits`, `ThinkingFits`, `EffortFits`).
Repacking and cleaning are passes over the messages.  What holds of a pass after the first `n` messages
is proved by one more message at a time, and then of all by the least number of which it does not hold
(`LeastNumber`, `GrowingSeq`).  Two such facts are needed.  `Taken`: out, results and what is between
are together the messages passed, and say the same in the same order.  `Placed`, for a
history that interruptions alone have damaged: what is out before the group under way, cleaned,
stands together; the group has exactly the results of its calls among the messages passed; and nothing
in between makes calls.  From it, a group that is closed is complete (`AllAnswered`, `ClosingPlaced`).
Cleaning is distributed over concatenation (`CleanConcat`), so that the clean of a whole is put
together from the clean of its groups (`GroupContiguous`).

**Exchange, a stream passed on** (`ExchangeProofs`, first part): streams of any length.  `StreamsEndOnce`, from
`StreamFits`: until the handler finishes, the client has exactly the lines read so far, in order and no
end mark among them, a failure has a cause, and a frame that ends within a line is there only
when the upstream has stopped.  The last step then adds one of the four tails (`Marked`), after
taking back a fragment it is glued to.  `OnlyTheQuietAreCut`, from `TimeFits` and `FreshFits`: when all that
was sent has been read and noted, the monitor's clock is no older than the last sending, and what is
not noted yet still lies before the reader, so a reader that waits has noted all it
has read; while the reader is behind, the clock may be older, which is why the property speaks of a reader
that waits.

**Exchange, an answer put together** (`ExchangeProofs`, second part): any calls in any number of parts, any
style of naming them.  `AnswersAreExact`, from the inductive `Telling`: for the frames so far there is a
count of parts for each call (`Tale`) such that the frames have shown just these parts (`Said`), the
aggregate has them merged in order, each call at a place of its own (`Fits`), and the next fragment
will find its call (`Ordered`): by the index it carries, by the id of the call first opened, or because
the call under way is the one last opened.  `Ordered` is what the property itself cannot say: that a
fragment without an id still goes to the right call depends on how the places were
taken (`Dense`: from 0, none left out).  `Marks` ties the flags of the aggregate (text latched, valid,
finish reason, end mark) to the frames.  The invariant says it of every prefix of the frames (`StoriesGoOn`),
because what has been put together lags behind what was sent.

Folds.  The libraries' laws of folds take the operator as a parameter, which no installed prover can
instantiate.  `PayloadProofs` proves them once for an operator `Step` that is told by a value which of
the four passes is meant (`PassedOfNone`, `PassedFurther`); one lemma for each pass says that it is that
fold (`ThoseIsPass`, `RepackIsPass`, `LinesArePass`, `CallsArePass`).

**Scheduler** (`SchedulerProofs`, first part): all tasks, hours, intervals and any number of changes.
`RearmNeverLost`.  `NoRearmLost` is inductive as it stands, because it says for each loop
separately that old settings are excused only by a token in the channel or by the panel's own next
step; the proof splits it in these halves (`Halves`) and shows that each loop keeps its own
half and leaves the other's alone (`LoopKeeps`, `BalanceKeeps`), that the panel
excuses what it changes (`PanelKeeps`), and that clock and signal touch neither (`WorldKeeps`).
`EverySlotIsServed` rests on what a plan is (`PlanIsExact`): it wakes at the first hour at which
anything is due and names everything due then.  That follows from the arithmetic of days and
hours (`NextFireIsNext`) and from the least-number principle (`LeastNumber`, from the
well-foundedness of strict inclusion among finite sets).  `SlotsFit` adds to the property
what the loop knows at each place: nothing is due between the clock and the planned hour, and
of that hour what has run and what is left make up all that was due.  `LossesArePaid` is inductive as it
stands: each change puts one token into the channel at the most (`Owed`), and a slot that is lost takes
one out (`PaidStep`).  `RearmsAreBalanced` joins the two.

**Errands** (`SchedulerProofs`, second part): any tasks, school runs and polls.  `RewardsAreCaughtUp`, from `Pays`:
while all calls of a job have been answered, each reward that was ready when it began has been
collected or is ready and still ahead of it.  It is stable under what everybody else does
(`Forward`: a task that is lit stays lit or is claimed, until midnight, when a daily
reward is no longer owed).  `SchoolDrawsItsOwn`: after the balance has been read, what the
account has in draws is within what was read and what others were granted since.

**Credentials**: any number of refreshers, polls and logins.  `RefreshInv` holds whatever overlaps:
who is at the upstream has the lock and the generation of its Auth, who has its answer has
tokens newer than the Auth's, who waits for the lock has no newer generation than the
Auth.  Hence `RefreshesAreCurrent`; the lock alone would not give it, because the one
that comes second must find the generation moved on.  `FilesAreCurrent` and `RemovedFilesStayGone` hold while the
changes of the account do not overlap, as the properties say; `CalmInv` says for each
place of refresher, poll and removal how far the file may be from the pool.  `SitesAreKept` is of steps,
from the types and `RefreshInv`.

**Task queue**: any accounts and any number of runs.  `OneActorPerAccount`, from `Exclusive`: the lock
is held exactly while somebody acts, which makes a second one impossible.
`EveryItemIsSettled` and `SettledItemsStay` are about a run that overlaps no other; `RunFits`
says which items its goroutines have ahead of them at each place, so that what is not ahead of any is
settled.

**Control** (`ProcessProofs`, first part): any environment, file, number of requests and signals.  `RestartsStaySound`, from `Lives` (what
the service can have going at each place of the supervisor) and `Reserved` (a restart, from
the reservation to the next child).  `AnswersStayTrue`, from `Truthful`: during a
transaction the answer given, the file and the values in effect differ by the step that is still to
come; what is never said (`Unsaid`) depends on the file and on whether the loop was started.

**Persistence** (`ProcessProofs`, second part): any accounts and changes.  `CleanFlagMeansSaved`, from `Synced`: memory and file agree of accounts
that are not held as well, or a removal would break it; over a
file that could not be read, nothing in memory has changed since the start.  `PlaceholdersNeverServe` is inductive with the types.
`RestoresKeepLocal` needs `NoneNewer`: no snapshot, in the mirror or still on its way there, is
newer than the file, so one that wins is of the same tick of the clock.

**Sessions** (`RoutingProofs`, second part): any requests, conversations, TTL and clock.  `ResultsWereAvailable`, from `CallFits`: what a
call has in hand between two lock regions was on offer at some time during the call.
`RacersAgree` and `ConversationsSpread` are about a time in which only calls happen; `Calm` says
that a binding made in it is not changed again.

Assumptions are those of the modules (`PenaltyAssumption`, `BaseWithinCap`, `PoolAssumption`,
`ChatAssumption`, `LeaseAssumption`, `ExchangeAssumption`, `SchedulerAssumption`, `ErrandsAssumption`,
`CredAssumption`, `QueueAssumption`, `ControlAssumption`, `PersistAssumption`,
`SessionAssumption`); TLC evaluates them in every run.  They say what the constants are, and that sets
that are counted or listed are finite; `ExchangeAssumption` says that requests are bodies as
`Payload` describes them, of any size.  Two say more: `BaseWithinCap`, that the configured
bases of the soft cool-down and of the breaker do not exceed their maxima, as in the shipped
configuration (the code does not enforce it), and `ErrandsAssumption`, that there is a school
task, as `school.go` has in its fixed list.

Only model-checked:

* Liveness (`EveryLeaseReturns`, `ChangesReachDisk`, `RunEnds`, `ChangeTakenUp`, `StopEnds`, `ExchangeEnds`): it
  needs fairness and `ENABLED`, which TLAPS does not reach.

## 5. What the models leave out

Of modelled parts: credits, success counts and weights beyond whom the draw may return;
token usage; log lines; the bytes of requests and answers; the second site within `Chat` and
`Session` (keys and gates carry the site, nothing else crosses); the end of WAF windows
and of the degraded prompt within a request; the panel's changes to breaker
thresholds while sentences run; the backfilling of `reasoning_content` (`thinking.go:58-132`), `max_completion_tokens`
and `stream_options` in a body; headers, cache keys, device tokens, sanitising and the
model catalogue around an exchange; merge and defaults of single configuration
fields; the expiry of a login that nobody polls.

Not modelled: travel, streak, blackcat, desktop and report, that is, what the scheduler's
tasks do to each account beyond `Errands` (long sequences of upstream calls with their own
once-a-day marks); the panel's pages, log ring and browser code (presentation); prompt
rewriting (one pass over the messages); the comparison of API keys and the request log;
the command-line tools and scripts (sequential, no shared state).

## 6. Plan

Proofs: that `Session` and `Persist` implement abstract specifications of a binding and of a saved
value.  Then, as models, the once-a-day marks of travel and
streak across midnight.

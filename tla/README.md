# Verification of the Wandergent backend and app

Wandergent turns a trip described in words into a day-by-day itinerary. The
program is a FastAPI service (`src/backend/app`) whose heart is a LangGraph
state machine driving a language model and a few research tools, and an Android
client (`src/android`). This directory holds TLA+ models of it, the TLC
configurations that check them, and proofs about them for TLAPS.

`PROJECT.json` maps every definition to the lines it models (`map`), lists the
runs, one mutation of the code per checked property (`mutants`), the places
where the code is hard to test (`hazards`), the disagreements between code and
docs that the models show (`findings`) and the main theorems (`theorems`).

Contents: [the system](#the-system), [the models](#the-models),
[the runs](#the-runs), [fairness](#fairness), [the proofs](#the-proofs),
[observed deviations](#observed-deviations), [not modelled](#not-modelled),
[plan](#plan).

## The system

| Component | State | Operations | Interacts with |
|---|---|---|---|
| planning run (`agent/orchestrator.py`, `llm.py`, `results.py`, `events.py`) | one `PlanState` per request: message history, budgets, run's tool cache, records, itinerary, report, route facts | the nodes `gather`, `run_tools`, `parse`, `emit`, `weather`, `validate`, `repair`, `finish` and their edges | model (chat completions), tool runtime, itinerary rules, transfers, HTTP layer (event stream) |
| tool runtime (`tools/registry.py`, `cache.py`, `mcp_client.py`) | semaphores of the worker, one TTL cache of the worker, one MCP session per batch | take capacity, call with retry, cache get and put | every run of the worker |
| itinerary rules (`agent/validation.py`, `timing.py`, `opening_hours.py`, `schedule_repair.py`, `pricing.py`, `revision.py`) | none | judge, prune, price, rearrange, restore locked days | planning run |
| transfer confirmation (`agent/transfers.py`) | the run's route facts | bounded fan-out of measurements, verdict per hop | tool runtime, itinerary rules |
| conversation (`agent/constraints.py`, `revision.py`, the head of `stream_plan`, `PlanRequest`) | none in the service: plan, constraints and pending question travel with each request | read a message over what came before, join a reply to the request it answers, refuse, consent | planning run, app |
| accounts (`auth/store.py`, the `/auth` handlers) | accounts, tokens, verification and reset codes in SQLite | register, login, resolve, logout, verify, set e-mail, reset | rate limiter, mail |
| rate limiter (`ratelimit.py`) | hits per key, in memory | blocked, record, clear | HTTP layer |
| feedback (`feedback.py`) | retained runs and reports in SQLite | record and trim, prune, submit, export | HTTP layer |
| community (`community/store.py`) | `shared_plans`, `plan_saves` in SQLite | publish and trim, withdraw, save, page, search | HTTP layer, app |
| preferences (`memory/store.py`) | rows in SQLite | list, forget (nothing writes them any more) | HTTP layer |
| HTTP layer (`main.py`) | none of its own | one handler per endpoint: limiter, store, planning run | all of the above |
| planner screen (`PlanViewModel.kt`, `ChatTurnRepository.kt`, `PlanStreamClient.kt`) | transcript, next id, job, stored rounds | send, retry, cancel, revise a saved plan, start over, restore | HTTP layer, Room |
| community list (`CommunityViewModel.kt`) | `CommunityState`, search text | refresh, load more, search, save, withdraw | HTTP layer, library |
| library (`SavedPlanRepository.kt`, `SavedViewModel.kt`) | rows of `saved_plans`, the deletion on offer | copy a post, delete, take back | community list, Room |
| other view models and storage (`AuthViewModel.kt`, `SessionStore.kt`, ...) | session | sign in and out | HTTP layer, Room |

How they interact: a handler of `main.py` asks the limiter, then the store or
the planning run. Runs of one worker interleave at every `await` and share the
semaphores and the cache; nothing else is shared between runs. Stores run each
SQLite transaction in a thread, so two requests interleave between
transactions, never within one. The app's view models live on the main thread
and interleave with their own suspended calls and with the database's executor.

What makes each component correct:

- **planning run**: budgets are never exceeded and every paid call is recorded;
  every request to the provider is well formed; what ships is the version that
  was judged and measured, for a trip whose weather was looked up; the repair
  loop never loses a candidate; every run ends, and ends inside the graph's
  recursion limit.
- **tool runtime**: permits are conserved under cancellation; the ceilings hold;
  no deadlock between the three lines; a run pays once per key; failures are not
  inherited between runs; nothing stale is served.
- **community**: the per-author cap and what it may delete; pages that neither
  repeat nor skip while rows come and go; a list whose spinner always ends and
  that shows what was searched for.
- **saves and the library**: a heart tells the truth unless the server ran a later
  tap; a post is copied once; a deletion can always be taken back.
- **planner screen**: an answer is shown under its own request; a revision stays
  a revision through retry, fallback and restart; a cancelled run changes
  nothing; what is stored is what was answered.
- **itinerary rules**: the verdict names a closed door exactly when there is one,
  no hop passes unmeasured, locked days come back exactly, observed costs are
  charged once, and what the server rearranges on its own is judged again and
  touches nothing that was booked or asked for.
- **conversation**: facts the traveller does not speak of stay, days to keep are
  kept, what was accepted does not fail later but as a reply, and seasonal weather is assumed only where it was confirmed.
- **accounts**: an account holds one code of a kind, an address counts as proven
  only after a code mailed there was entered, a reset ends every session but those of
  logins that had read the old password, fewer than the requests in progress, and the
  failures that pass the login limit are bounded.
- **rate limiter**: neither ceiling is exceeded in any window; a refused request
  spends neither.
- **feedback**: a report is about a retained run of its own author and outlives
  nothing but what its own account pushed out.

The hard behaviours are the `hazards` of `PROJECT.json`: how the budgets of a
run compose when the weather gate sends it back to an earlier node; which
version of a plan a verdict or a measurement is about; what runs sharing a
worker's permits and cache do to each other; answers that arrive after the state
they were asked for has changed; and the death of a process between two writes.

## The models

### PlanRun: one planning run

`pc` is the node about to run and each action is one whole node, its update and
the edge LangGraph takes from it, except that the `repair` node's inner loop is
one action per model turn (`repair_retry` is the second and later turns; the
recursion limit does not count them). Actions and nodes: `GatherAsks`,
`GatherAsksMalformed`, `GatherCalls`, `GatherAnswers` are `gather`; `RunTools`;
`Parse`; `Emit`; `WeatherLimit`, `EnsureWeather` are `weather`; `Validate`;
`Repair` (with `RepairAsks`, `RepairAccepted`, `FormatRetry`, `GiveUpFormat`);
`Finish`, `FinishRejected`; `ModelFails` is any provider failure, `OutOfSteps`
LangGraph's recursion limit.

The model is an adversary: every turn is any outcome the code distinguishes.
An itinerary is the trip it is for (the weather key: city, first and last day),
a `body` for everything else, and the weather notes the server wrote into it. A
turn's tool calls are a set of weather keys and a number of others. The message
history is reduced to what the provider would reject: declared calls without a
reply (`openCalls`) and an empty assistant message (`emptyHeld`). The verdict of
the itinerary rules is any verdict; their rewrites change `body` only (Review has
the verdict itself).

### ToolRuntime and ToolPool: the tools as runs share them

A job is a run and an item: a normalised tool call (`Keys`), a transfer
(`Hops`), or the weather gate's own lookup (`Gate`). `stage` says how far its
call has come: in the line of `confirm_transfers`' own limiter, of the worker's
total, of its tool's semaphore, upstream under capacity (`calling`) or upstream
without it (`bare`, the gate). `Look` is `run_tools` up to its first await (the
run's cache, then the shared cache), `Start` the batch once its MCP session
stands, `Finish` what it does after the last answer (share the usable answers,
remember all). `Confirm`, `StartChecks`, `Judged` are the measurement of
transfers, `Lookup` and `Judged` the gate. `TakeCheck`, `TakeTotal`, `TakeTool`
hand out permits in FIFO order as `asyncio.Semaphore` does; `Attempt` is one
upstream request with the retry policy. `Cancel`, `Unwind`, `Gone` are a client
that goes away: each call leaves its `async with` on its own. `Tick` is time.

`ToolPool` is what `registry.py` promises: at most `Total` calls at once and at
most `Limit` of each tool. `PoolSpec` states that the calls under
`tool_capacity` implement it.

### PlanScreen: the conversation on the phone

`transcript` is the list of exchanges, `jobs` the coroutine that is running, if
any, `stopping` the cancelled ones that may still be handed an event left in their
channel, `rows`/`writes` the stored rounds and the statements that wait for the
database, `reading`/`restored` a restore in flight. Requests are numbered
(`ask`), and a reply is known by the request it answers, so a reply under the
wrong request is visible. A step is what the view model does between two
suspensions; a statement of the database is a step; `Restart` is the death of
the process, after which only `rows` is left. `LateEvent` is that event, at any time
after the stop: `Active` (`ensureActive`) drops it, and without that check it would
be written into a retried exchange, or into a conversation that has the id again.

### Community: the feed and one reader of it

The table (`stamp`, `inserting`, `posts`), the reader's `CommunityState`
(`state`), the debounced search, and page requests under way (`calls`), each
with its answer once the server has read. `created_at` is taken in the handler
(`Stamp`) and the transaction runs later in a thread (`Insert`, which also
trims), so two publishes of one author may overtake each other. `feed` is the
keyset page with its extra row; `reading` is a history variable that remembers
what the list on screen began with and whether a refresh overtook a page.

`Sorted` and `Only` come from **Lists**, where the list of a set in a given order
and the part of a list that is in a set are written as functions: what the source
does with `ORDER BY` and `filter`, in a form theorems can be proved about.
`CommunityMC` compares `Only` with `SelectSeq`. ToolRuntime's cache, an
`OrderedDict`, is such a list too.

### Library: hearts and the copies they leave

One reader's taps on hearts (`taps`, by their stage), the rows of `plan_saves`
behind them, what the cards show, and the copies in the phone's library with the
deletion on offer. `set_saved` opens its transaction at the write, so a post may go
between `FindPost` and the write. On the phone `copyToLibrary`, `save` (looks for a
copy) and `insert` are three steps, as their suspensions make them; so are a
deletion, its `Offer` and `undoDelete` with `restore`. `Lost` is a request or reply
that never arrives, or a server that carries on unheard. `Restart` ends what the
process knew: the databases and what is on the wire remain. `ran` and `shown` are
history: when the server last ran a tap on a post, and when what its heart shows
was true; `doubled` are the posts a reader was hasty with (a tap before the last
one and its copy were done, a deletion taken back).

### OpeningHours, Timing, Validation, ScheduleRepair, Transfers, Revision: the rules

One module per file of `agent/`, one operator per function, under the function's
name (`windows_for`, `closed_reason`, `check_timing`, `_check_day`,
`hours_candidates`, `confirm_transfers`, `apply_observed_costs`,
`enforce_revision_scope`, `resolve_constraints`, ...). They are pure. Times are
minutes of a day, absolute moments `[utc, offset]`; names, titles and addresses
are values; a violation is its code with what the properties tell apart (day,
hop). Where the code matches patterns in text, the model has the record of what
they find: which half of the day a clock text names, which venues a title
mentions, which days a request names or keeps, what a message says about dates,
party or budget.

Operators that are used several times in one definition are handed over as
parameters of a local one; this has no meaning beyond keeping TLC's evaluation
(and its coverage statistics) small. What the code finds by sorting or by walking a
list is a set here, or the function that solves the walk's equations: `Neighbours` and
`Consecutive` are pairs of places, `Walk` is the push of later visits as the code's
loop goes from visit to visit, `Openings` and `Closings` the hours a day offers. That
is what the code computes and what a proof can look into; sums and totals stay
folds.

### Review: what becomes of a proposed plan

The composition: the node `validate` with the repairs around it, applied to a
`trip`, which holds everything a run knows by then (constraints, hours and
prices by venue, what the request removes, the plan it revises, what the maps
answer, and the plans the model may return). `Propose` is a plan of the model
with everything out of scope restored; `Validate` prunes, prices, judges,
measures, prices again with the routes, and makes the one attempt at an
alternative that moves visits into open hours (`Trials`, `Adopted`). `TripsAssumption`
is what the schemas of the API and of the model's plan require of a trip: fields,
times in order, timestamps with their offsets, measured seconds that are numbers,
hours that are known hours and names with a length. PlanRun has
the graph around it with any verdict; Review has the verdict without the graph.
`SwapsHonest` speaks of what the traveller named as far as the code can: a name
shorter than `MIN_VENUE_MATCH_CHARS` is never found in a text, so such a place is
not known to be named.

### Dialogue: a conversation over several rounds

`plan`, `facts` and `pending` are what the app keeps of the last rounds and sends
along; `Send` is one round that came back: refused by `PlanRequest`, failed, a
question, a plan, or neither. `Behind` is the text of a reply joined behind the
request and the question it answers, as its readers find it; `Understood` is the
head of `stream_plan`: constraints, consent, the plan revised and its scope.
`Raises` is where that head lets a `ValidationError` out, `check_constraints` where
`PlanRequest` does. `consented` is a history variable.

### Accounts: accounts, sessions and codes

A request in progress is a record in `calls`, one per slot of the worker, and
each transaction of `auth/store.py` is an action: `Register` then `InsertAccount`
then the issue of a token; `Login` (limiter and password check), `Open` or
`LoginFails`; `SendVerification`, `Post` (the mail arrives or not);
`ConfirmVerification` then `SetVerified`; `ChangeEmail`, `CheckEmail`,
`SetEmail`; `RequestReset`, `SendReset`, `ConfirmReset` then `SetPassword` with
its revocation. Between two of them the others run, since a password hash or a
mail is awaited there. `Lapse` lets any token or code expire without a sweep.
A worker starts on any database of `Databases`; sessions and codes begin empty.
`proven` and `resets` are history: addresses proved by a mailed code, and how
often each password was reset. `era` is that number at the moment a request reads
the password it will open a session with (`Login`, or `InsertAccount` for the one it
has just written), and its token carries it: the check of the hash compares what was
read then, so a reset applied before the token is inserted goes unseen.

### Service: allowances and retained runs

`Refuse` and `Admit` are `enforce_plan_budget` in front of a run, with the
sliding window of the caller and of everyone; `Record` and `EndUnrecorded` its
end; `Report`, `Submit`, `SubmitFails` a report and its transaction; `Prune`,
`Restart` and `Tick`. A restart forgets the limiter and the runs in progress and
keeps the database. `spent` is the history of admitted runs.

## The runs

| Run | Checks | What it shows |
|---|---|---|
| `planrun_safety` | `ShippedIsJudged`, `ShippedWeatherHonest`, `CallsBalanced`, `LimitSuffices`, `RepairKeepsPlan`, `Termination` | what ships was judged, measured, weather-checked and paid for, whatever the model says, and every run ends |
| `tools_cache` | `RuntimeInv`, `PaidOnce`, `ServedWithinTtl` | the two caches under expiry, eviction, failures and cancellation; `RuntimeInv` is the types and that no run inherits another's failure |
| `tools_capacity` | `PermitsHeld`, `PoolSpec`, `Progress` | permits are conserved, the ceilings hold, and nobody waits for ever |
| `review` | `ClockJudged` (`DoorsJudged`, `HopsJudged`, `JourneysClear`), `LockedDaysExact`, `CostsSettled`, `SwapsHonest` | the composed rules against definitions that do not use them |
| `dialogue` | `ConsentWasGiven`, `UnsaidStays`, `KeptDaysStay`, `FailsOnlyReplying` | facts, days and consent over three rounds of any messages, and that only replies raise after they were accepted |
| `accounts` | `TablesInv`, `AddressesProven`, `FewOutliveReset`, `FailuresNearLimit` | overlapping requests on names, addresses, codes and sessions; what a reset leaves alive |
| `service` | `CeilingsHold`, `RefusedForRuns`, `ReportsOwned`, `ReportsKept` | two ceilings, retention, expiry, trims and restarts |
| `planscreen_safety` | `ScreenInv`, `AnswersOwn`, `RevisionKept`, `KeptTurns`, `NeverRewritten`, `Settles` | the conversation on the phone over every outcome of stream and fallback, restores and one death of the process |
| `community_feed` | `AuthorCap`, `ReadingComplete`, `TrimsOldest`, `LoadingEnds` | paging through a feed that changes underneath |
| `library` | `HeartTrue`, `LibraryInv` (`UndoFits`, `OneCopy` and types) | two taps and a refresh in every order, answers lost and late, copies deleted, saved again and taken back, one death of the process |
| `planrun_empty`, `dialogue_replies` | one statement of a comment or document each, refuted | see [observed deviations](#observed-deviations) |

Bounds, and why they are enough:

- **PlanRun**: three trips: one within the forecast, one with a day past it that
  the traveller confirmed, one with a day nobody confirmed, so that a repair can
  change the trip into one whose weather is known, an assumption, or a question;
  two bodies, so that a verdict can be about another version; three calls, two per
  turn beside weather, so that a turn can be trimmed and a budget used up by a turn
  is then met by the mandatory lookup; two emits (the code's value) and two repairs,
  so that all budgets run out in every order. `Rounds = 0` gives a pass one tool
  turn, as 1 would, because `after_tools` compares after the turn; it makes the
  recursion limit the tightest, and a run recomposed more than once meets it.
  `RepairFormats = 1` is the code's value. `Oversized` lets a question be too long
  to return. No bound on steps is needed: the budgets and `StepLimit` are one. The
  proofs remove these bounds.
- **ToolRuntime**: two runs, two permits of the worker, one of each busy tool.
  `tools_cache`: two keys of two tools with lifetimes 1 and 2, a cache of one
  entry (so eviction happens at once), two batches per run, clock 0 and 1 (so a
  lifetime of 1 ends). `tools_capacity`: a key and the two hops of a
  measurement with one permit of its own limiter, so all three lines form, and a
  retry. `Horizon = 0` there because nothing about permits depends on time. The
  proofs remove the bounds for permits, ceilings and payment.
- **Review**: five families of trips, each with everything else held still: a
  visit at five times, past midnight too, against every pair of lines for today
  and yesterday with and without an observed date; hops with no leg, an allowed or
  a forbidden one, no, a short and a long measured time, tolls and an unknown
  offset; a revision whose second or first day is locked, with candidates that are
  longer or shorter; a flight with and without buffer that is missing, shifted,
  doubled or right; a closed museum behind a lodging with a way out by moving or by
  another restaurant. Two repairs, so that the attempt that is made once meets a
  second verdict.
- **Dialogue**: three rounds (a request, its answer, what follows) over eight
  messages: a date, another date, party and length, a length of no days (which no
  constraint admits), a new trip, a day to keep, a day to change, nothing. One day
  past the forecast, old plans of two days and candidates of one to three, one of
  them with a timing of its own. The refuted statement is given four rounds.
- **Accounts**: two names, two addresses, two requests at a time, four in all,
  and one expiry, on an empty database or one that holds a verified account. From
  the latter, asking for a reset and applying it leave two requests: a login beside
  the reset, and a second confirmation or a login that races with it. One password is enough for the run, since the properties speak
  of tokens, codes and addresses and a failed login needs no second one; longer
  histories are covered by the theorems, all four properties being proved.
- **Service**: two accounts and an anonymous caller, one run per caller and two
  in all per window, windows of one and two instants in three, so that each ceiling
  can be the one that refuses and both can slide; one retained run per account, so
  that every second one trims, three runs, one report under way.
- **PlanScreen**: three requests (a failure or a stop, its retry and a later message), one
  saved plan, two rounds kept (so the third is trimmed), one death of the
  process, at most two statements waiting when a conversation is cleared.
- **Community**: four posts, two of one instant already there, two more by an
  author who then exceeds a cap of two, so a trim must choose; one post per page,
  so that every cursor position occurs; three requests, one search, two instants.
- **Library**: one post (hearts and copies of different posts share nothing but
  the row counter, which a deleted copy of the same post moves as well), three taps
  of which two overlap, two refreshes, two deletions taken back, one death of the
  process. `HeartTrue` and `OneCopy` each name the cases in which the code does not
  promise what they say, kept apart by history variables: a heart with a later tap
  the server ran, a post in `doubled`.

Symmetry is used only where runs, names, addresses, slots or accounts are
interchangeable and no liveness is checked. `CHECK_DEADLOCK` is off where
the traveller or reader may simply stop, or a bound on the requests is used up
(Library included);
PlanRun and ToolRuntime end in explicit terminal steps (`Over`) and are checked
for deadlock, Dialogue can always start a new conversation.

## Fairness

- **PlanRun**: `WF_vars(Next)`. A run is one task; each await is bounded: model
  calls by `llm_timeout_seconds`, tools by `tool_timeout_seconds` and the MCP
  read timeout `max(10, 3 * tool_timeout_seconds)`. Waiting for capacity is
  covered by `Progress` of ToolRuntime.
- **ToolRuntime**: weak fairness for each run's own continuation and each
  job's next step. The event loop runs every ready task, semaphores are FIFO,
  and each upstream request has the timeouts above. No fairness for beginning a
  batch, for a cancellation, or for time.
- **PlanScreen**: weak fairness of `Settle` and `Write`. The stream client has a
  read timeout of 180 s and the plain one of 120 s; Room executes what was
  handed to it. Nothing obliges the traveller to act.
- **Community**: weak fairness of a request's outcome; the client has connect
  and read timeouts.
- The other modules state safety only and assume no fairness.

## The proofs

All hold for every value of the constants that satisfies the modules'
`ASSUME`s: finite sets of trips, runs, items, posts and slots (of slots at least one), budgets,
windows and bounds that are natural numbers, permits, caps and failure limits of at least
one, starting databases whose names are unique and whose verified rows have an address,
placeholders (`None`) that are no value of the kind they stand beside, and saved
plans as the service writes them.

**PlanRun_proofs.** `Invariant == Spec => []IInv`, and from it `TypeSafe`,
`CallsSafe`, `JudgedSafe`, `WeatherSafe`, `StepsSafe`,
`LimitSafe`, `RepairSafe`, `CacheSafe`. `IInv` adds to the checked invariants:

- `BatchInv`: a pending batch exists only between `gather` and `run_tools`, and
  the history's open calls are exactly its size. Without it `EveryCallAnswered`
  is not inductive (nothing says that the replies match the declared calls).
- `StageInv`: what each node may rely on. A node that ships has a candidate
  whose trip was looked up, whose report and measured transfers are its own and
  which is good or out of repairs; `validate` and `repair` have a looked-up
  candidate. Without it `ShippedIsJudged` says nothing before `finish`.
- `StepsAccounted` is a potential: each node pays at least one step for what
  `StepsToGo` can then promise, and a recomposition adds at most five (lemmas
  `Payment`, `StepsPaid`). `LimitSafe` derives that `recursion_limit` is never
  met by a run recomposed at most once, given at least one emit attempt and
  fewer repairs than attempts plus two (the code: 2 and 3).

**Lists_proofs.** What Lists' operators return, used by the next two.
`ListedIs`: the list of a finite set under a strict total order (`TotalOrder`) holds
every member once, in that order; it is built from ranks, so its lemmas are about
cardinalities, not about recursion. `OnlyIs`, `OnlyHolds`, `OnlyOrdered`,
`OnlyInjective`: the part of a list inside a set keeps exactly those elements, in
their order.

**ToolRuntime_proofs.** `PermitsSafe`, `PaidSafe`, `ImplementsPool`, `RuntimeSafe`,
`ServedSafe`. `IInv` is
`Shape` (types), `Placed` (which stages a run's phase allows: an idle run has no
job, only the gate is ever `bare`), `Accounts` (a key is unpaid until its call
begins, its payments are the attempts of the call under way, and afterwards it
is answered or the run is being cancelled) and `PermitsHeld`. `ImplementsPool`
is step simulation: `WithinCeilings` turns conserved permits into the ceilings,
`CallingSteps` shows that no step begins or ends two calls at once. The caches have
an invariant of their own, `RInv`: `Asks` and `Lines` (a batch asks for a key once,
the lines are sequences of jobs), `Honest` (a failure a run remembers is one it paid
for, so none came out of the shared cache) and `Cached` (every entry is usable, keyed
once, within the cap, and expires no later than its birth plus its lifetime, so a
hit that moves it to the recent end renews nothing). `PutKeeps` follows an answer
through the eviction of what expired and of the oldest.

**Community_proofs.** `CapSafe` and `TrimSafe` from `CapInv` (rows are published
posts and within the cap); the work is `KeepableFits`, what the trim of
`publish` may keep. `SpinnerSafe` from `SpinInv`: a refresh flag without its one
request, or a request without its flag, is impossible, and for `loadingMore`
the weaker half that holds. `ReadingSafe`: a reader who scrolls to the end has every
post of the table the list began with that is still there, once and in order. Its
`ReadInv` is `Rowed` (what was inserted and what was taken down), `CallsOK` (a reply
under way is a page of rows settled then, whatever has been withdrawn since),
`ScreenOK`, and `Sound`: while no refresh overtook a page, the cards and the cursor
are a prefix of the table in feed order, and the one page under way continues at that
cursor. Without the last part the step `More` appends a page of nothing in
particular. `OneAfterAnother` is the step from a prefix and its next page to a longer
prefix; `BeforeIsOrder` is what makes the cursor's comparison, instant then id, a
total order in which no post shares a place. For Library, `HeartSafe` and
`LibrarySafe`. `HeartsInv` gives everything that can reach a heart the same meaning
(`Tells`): a page under way and an answer under way are as true as the heart itself, as
of the moment the server spoke; `HeartTrue` alone is lost at the first late answer.
`CopiesInv`: a copy is in one place only (a row, a row being deleted, on offer, on its
way back) under an id given out once, so a restore never meets its own row. `HasteInv`:
a post handled without haste has one awaited tap, and no copy while that tap is about to
make one, which is what `OneCopy` rests on.

**Accounts_proofs.** `TablesSafe`, `AddressesSafe`, `SessionsSafe`,
`FailuresSafe`. `IInv` adds `CallsInv`: what a request in progress still believes
of the tables it read (`CallOK`: what it carries is of its kind, a code it is
about to mail was issued, and a reset is mailed only to an address its account has
proved), since the second transaction acts on what the first one read; and `FailuresBudget`: failures counted plus failures
pending stay below the limit plus the number of slots, which is what bounds the
overshoot of attempts that all passed the check before any was counted. `ResetBudget`
does the same for sessions: those of an account that outlived a reset, and the
requests `Late` with a password that was replaced, are together fewer than the
slots. A reset refills the second number at the cost of the first (it deletes every
token, and holds a slot itself), a late request turns into one session, and nothing
else makes either grow. There is one lemma per transaction.

**Service_proofs.** `OwnedSafe`, `KeptSafe`, `CeilingsSafe`, `RefusedSafe`. `IInv` is `Numbered` (a run's number
is used once, among the runs in progress and the rows) and `ReportsOwned`: without
it a row recorded late could take over another's reports. `KeptSafe` follows per
action from what `Kept` may leave out. The allowances rest on `Metered`: the lists of
the limiter are in order of time (`HitsOK`), what was spent was spent by a caller in
the past (`SpentOK`), and `Agree`: for each key and each instant its window still
reaches, the list holds as many later hits as runs were admitted later. The ceilings
alone are not inductive, since they say nothing of hits about to leave a window;
`Agree` speaks of every shorter window too, so it survives both the clock
(`ClockMeters`) and the popping of old hits (`PopLeftKeeps`), and a restart, which
forgets hits and runs alike. `WindowIs` and `BlockedIs` then give `blocked` its
meaning, and both theorems follow.

**Revision_proofs.** `ConsentSafe`, `UnsaidSafe`, `FailsSafe`, `KeptDaysSafe`, for
any messages, questions and candidates whatever. `IInv` adds that facts have their
twelve fields. The work is in the lemmas about the readers: `ReadKeeps` and
`ResolveKeeps` (no text touches the days whose weather may be assumed), `ReadLeaves`
(a reader leaves alone what its words do not speak of). `FailsSafe` compares two
readings of one message, over the facts of the last round and over the timing of a
saved plan: `TimingHarmless` says that the second raises only when the first does, for
which the plan on screen must have been written by the service (`PlanWritten`: its
timing is that of accepted constraints, whose ids are unique). `KeptDaysSafe` rests on
`ScopeLocks` (a day to keep is locked, whatever else the text names) and
`EnforcedDays` (with a day locked a revision has the old plan's length, so places
still mean the same days). For Review, `SettledSafe` and `LockedSafe`, over any trips,
proposals and repairs. `ReviewInv` says that the plan at every stage is one that can be
priced (a leg by car has a base or a cost, and fields are there), that it has its locked
days as the traveller had them, and that a judged plan is what pricing made of another
one with the same routes. `CostsSettled` then is that pricing twice is pricing once:
`TollsOnce` (tolls are added to the base, which the first pricing wrote down),
`RoutesAlike` (a priced visit is found under the same route) and `DaySettled` are its
steps. For the locked days each transformation of a plan is followed through:
`EnforcedKept` (restoring the scope), `PrunedKept`, `CostedKept`, and, for the
alternatives the server tries, `BackfillKept`, `AcceptedKept`, `ExpandedKept` and
`CandidatesFair`, which show that a move never rewrites a visit of a locked day.

`ClockSafe` compares the report with definitions that do not use the rules, in three
parts. For the hours, `ShutIs` says that the rule closes a visit exactly when a minute
of it is in none of the venue's intervals (of that weekday, or of the one before past
midnight). For hops, `HopAsked` and `VerdictIs` say that each way between two timed
visits is either asked for and measured or named as unverified. For journeys,
`TimingClear` and `Apart` say that a plan without blocking findings has no visit during
a booked journey or its margin. The report is about a plan that was priced
once more after it was measured, and `AlikePlan` says that prices change nothing the
rules read; when the server takes an alternative, its own report is the one compared.

`SwapsSafe` says what such an alternative leaves alone. `Fair` compares one visit
before and after: it is replaced only when its own doors were closed, it is not booked
and the traveller did not name it; it is moved only when it was closed itself and not
booked, or when it is not fixed and a visit of the day at or behind it was closed; a leg
lasts as long. Every option is followed: the retimings
(`FairMoved`, with `PushedEases` and `WalkEases` for the visits pushed along), the
replacements, the filling of freed time (`BackfillFair`), one round of the search
(`ExpandedFair`) and all of it (`CandidatesFair`). `NamedIs` shows that a visit the
code finds in the request is one the definition `Spared` calls named, and
`PrunedSame` and `CostedSame` that the pruning and pricing behind the search
do not disturb the comparison.

**PlanScreen_proofs.** `ScreenSafe`, `AnswersSafe`, `RevisionSafe`,
`HistorySafe`, `TurnsSafe`. `IInv` adds to what the run checks: `Ids` (ids are below the
counter, which needs `Stored`: the rows and every restore in flight are in the
order of their ids, so that the last one's successor is fresh), `Own` (a run and
its exchange have the same request, so what the run brings is shown under it) and
`Revised` (an edit not yet answered has a plan with a smaller id somewhere on
screen, so its retry finds one). `Spinning` carries all of them over a restore: an
empty transcript has no run left that could write into it. `HistorySafe` follows
from six shapes of a step (`StepShapes`; a late event of a stopped run has the last, no change) and `Counted`: an exchange's request has
been made, so a retry gives it another. `TurnsSafe` says what the statements that
still wait for the database add up to: `KeptInv` is that some history replays them one
by one from the rows to a list whose newest rounds are the newest answered
(`Kept_Soon`), and that without any waiting the rows are few enough (`Kept_Few`).
`NewestTwice` and `NewestGrows` (trimming commutes with appending) are why an insert
and the trim behind it may be taken apart by others or by the process's death.

**Only model-checked.** Liveness (`Termination`, `Progress`, `Settles`,
`LoadingEnds`), which the prover cannot do under fairness. Every invariant and every
action property of the passing runs is a theorem. Sums, texts joined in order and the
walk of a search through queued alternatives are inductions over data: where a proof
needed what such an operator computes, the model has a function with the same values
(Lists; `First` in ToolRuntime for the head of a line; the popping of old hits in
Service as the least place that stays; `Walk` and `Neighbours` in the rules). What a
sum adds up to for every plan is not proved.

## Observed deviations

Two places where a document or comment of the repository says more than the
code does have a run that ends in a counterexample.

- `planrun_empty` (`EmptyNeverResent`): `emit` and `repair` append the turn
  without `is_empty`, although `llm.py:160` says an empty one "cannot be sent
  back" and `gather` leaves it out.
- `dialogue_replies` (`RepliesKeepFacts`): a reply is read together with the
  request it answers. A second round of questions reverts what the first reply
  replaced, because the first match in the joined text wins, and a reply to a
  pending "New trip" drops the constraints known so far. `constraints.py:108`:
  "Keep prior request facts unless this request explicitly replaces them".

Others of the kind, seen in the models, with no run of their own:

- `PlanRequest` reads a message alone; `stream_plan` puts a reply behind the texts
  it answers, and their dates together may be out of order. The `ValidationError`
  then leaves `stream_plan`, of which `main.py:414` catches `PlanningError` only;
  `orchestrator.py:1626`: "Failures raise PlanningError subclasses". `Failed` has it,
  and `FailsOnlyReplying` shows that a reply is the only way to it. A
  `ValidationError` can leave the graph as well (malformed clarification arguments,
  an oversized dialogue).
- `SavedPlanRepository.kt:28` says "Copying the same post twice is a no-op, not a
  second row"; `save` looks and inserts in two suspended calls and `restore` does not
  look, so a heart tapped again before its copy is made, or a deletion taken back after the
  post was saved again, leaves two rows of one `sharedPlanId`. `OneCopy` excludes
  exactly these.
- A repair that changes the trip goes through the gate to `gather` and `parse`,
  which overwrite the judged candidate with whatever that turn parses to;
  `orchestrator.py:1410` promises "Never replace a well-formed candidate with
  malformed output", which the repair loop itself keeps (`RepairKeepsPlan`).
- `ensure_weather` calls upstream outside `tool_capacity`; `docs/decisions.md:2126`
  advertises worker-wide ceilings. `PoolSpec` is about the calls under capacity.
- A plan handed over from the library has the fixed id -1, so a retry of a
  revision above it edits the plan below; `docs/decisions.md:433`: "against the
  plan that preceded *it*".
- `refresh()` drops a search that falls due during a load, and nothing asks for it
  afterwards; `CommunityScreen.kt:131`: "The list filters as you type".

- `auth/store.py:531` says of a reset "Every session is revoked", and its mail
  (`main.py:648`) that it "ends every session, including any that is not yours". A login reads the password it checks
  (`auth/store.py:273`), awaits the hash, and inserts its token in a later
  transaction (`auth/store.py:299`): a reset applied in between deletes the
  tokens there are, and the login then opens a session with the password just
  replaced. That session lives until it expires, is logged out, or the next reset.
  `Login`, `ConfirmReset`, `SetPassword`, `Open` is such a behaviour; `FewOutliveReset`
  says what holds instead: fewer such sessions than requests in progress.

Behaviour the models have because the code has it, with no run of its own:

- `emit` runs a third time when a run was recomposed after its attempts were used
  up: the budget is compared after an attempt (`orchestrator.py:1546`), never before
  one. A recomposed run likewise gets a tool round beyond `max_tool_rounds`,
  although its warning says "stopped calling tools after N rounds"
  (`results.py:75`), so `roundsLeft` goes below zero. When `after_tools` ends the
  loop, `parse` reads a `last_turn` of an earlier pass, or none
  (`orchestrator.py:1536`).
- `recursion_limit` "bounds the cycles a routing bug could spin in"
  (`orchestrator.py:1808`), yet a correctly routed run with two mandatory lookups
  can reach it and end in `GraphRecursionError`; `LimitSuffices` therefore speaks of
  at most one.
- A mandatory lookup is not put into the run's tool cache
  (`orchestrator.py:1088`): a model that asks the same key later pays for it again.
- Two runs that miss the same key both pay; single flight is not promised.
- The app: a retried round is appended again, so its place differs after a
  restart; a plan handed over from the library is not stored; a second hand-over
  is ignored while one is on screen; a restore that read before "start over" was
  written can bring the forgotten conversation back, as can a death before that
  write (`PlanViewModel.kt:242`); a fallback reply that does not decode is not
  caught.
- The feed: since `created_at` is taken before the insert, a publish overtaken by
  later ones of its author may trim itself (`store.py:249` says "the post someone
  just made is never the one refused"). A page that answers after a refresh is
  appended to the new list with the old cursor and can leave a gap:
  `ReadingComplete` therefore asks for a `sound` reading and fails without that
  condition. `LaunchedEffect(nextCursor)` does not run again after a failed page.
  Rows of `plan_saves` outlive a trimmed post.
- Hops: a candidate for a measurement is keyed by date, origin and destination, and one
  that `check_timing` already reported as tight is left out by that key
  (`validation.py:402`). Two hops between the same places on one date therefore share a
  verdict: when one is tight, the other, perhaps by another mode, is not measured.
  `HopsJudged` excludes that case by name (`TightElsewhere`), and that more hops than
  may be measured are named only.
- Hearts: two taps may be answered out of order (`CommunityViewModel.kt:178`), and
  the heart then shows the older one until a refresh; a tap the server ran and whose
  answer was lost, or a death before the copy, leaves a saved heart without its copy.
- A late sign-out or a late 401 can clear a newer session.

## Not modelled

- Text and formatting: prompts, briefs, evidence, map pages, rendering. No
  control depends on their wording. The patterns that read travellers' text are
  replaced by the record of what they find.
- Upstream requests and the parsing of their answers (`tools/*.py`): what callers
  tell apart (usable, transient failure, refusal) is modelled at the caller.
- `proximity.py` words an advice; `memory/store.py` is listed and deleted from, and
  nothing the service runs writes it.
- MCP server, observability, configuration, the text of mails, evaluation
  scripts: adapters or programs run by hand.
- Inside modelled components: token usage, streaming hints and bound evidence
  (PlanRun); the weather of a day, which `ensure_weather` also writes on locked days
  (`orchestrator.py:1111`) and `LockedDaysExact` therefore does not speak of (Review); argument normalisation and local tools (ToolRuntime); the choice of a
  departure time for the request to Google (Transfers); the progress reducer and a
  change of account (PlanScreen); `LIKE` escaping (Community); plans saved from the
  planner, rows from before there were accounts and a change of account, and the count
  beside a heart (Library); the limits per network address in front of `/auth` and
  `/feedback`, which only refuse (Accounts, Service).

## Plan

Done, in this order: PlanRun; ToolRuntime over ToolPool; PlanScreen; Community;
the rules and Review; Dialogue; Accounts; Service; Library; and the proofs: every
safety property of the passing runs is a theorem.

Next, most important first:

1. **Review inside PlanRun**: PlanRun's `Rewritten` and any verdict as an
   abstraction that Review is shown to refine, trip by trip.
2. **Sessions on the phone**: a sign-out, a restore and a late 401 over two
   sessions, with the token store.
3. **PlanContract**: what a caller of `stream_plan` may rely on (progress, then
   exactly one end), with PlanRun as its refinement.

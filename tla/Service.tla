-------------------------------- MODULE Service --------------------------------
(***************************************************************************)
(* What main.py keeps around a planning run: the allowances that let it    *)
(* start (ratelimit.py) and the run retained for reports about it          *)
(* (feedback.py).  A handler runs without interruption between its awaits, *)
(* and each transaction of the feedback database in a worker thread, so    *)
(* these are the steps.  A limiter lives in memory and a restart forgets   *)
(* it; the database stays.                                                 *)
(***************************************************************************)
EXTENDS Integers, FiniteSets, SequencesExt

CONSTANTS
    Accounts,
    Address,            \* where anonymous requests come from
    Shapes,             \* the activities a plan may have
    PLAN,               \* allowances: [count, window]
    plan_daily_global,
    RETENTION_SECONDS,
    MAX_RUNS_PER_USER,
    MaxClock,           \* bound: instants
    MaxRuns,            \* bound: runs admitted
    MaxReports,         \* bound: reports under way
    None

ASSUME ServiceAssumption == MAX_RUNS_PER_USER \in Nat
ASSUME LimitAssumption ==
    /\ PLAN \in [count : Nat, window : Nat]
    /\ plan_daily_global \in [count : Nat, window : Nat]
ASSUME NoneAssumption == None \notin Accounts \cup {"caller", "service"}
\* An account is known by a random id and a client by its address.
ASSUME NoneCalledAll == "all" \notin Accounts \cup {Address}

GLOBAL_PLAN_KEY == <<"plan", "all">>
Callers == Accounts \cup {Address}
Plan(caller) == <<"plan", caller>>
Keys == {GLOBAL_PLAN_KEY} \cup {Plan(c) : c \in Callers}

VARIABLES
    clock,
    hits,      \* RateLimiter._hits
    spent,     \* history: runs admitted since the limiter began, [key, at, run]
    started,   \* history: runs admitted
    running,   \* [run, owner], owner None for an anonymous run
    runs,      \* rows [id, owner, created, shape]
    feedback,  \* rows [run, target], with who sent them (history)
    reports    \* reports whose transaction has not run

limiter == <<hits, spent, started>>
database == <<runs, feedback>>
vars == <<clock, limiter, running, database, reports>>

Init == /\ clock = 0
        /\ hits = [k \in Keys |-> <<>>]
        /\ spent = {} /\ started = 0
        /\ running = {}
        /\ runs = {} /\ feedback = {} /\ reports = {}

-----------------------------------------------------------------------------
(* RateLimiter: when a key is asked about, its hits are dropped from the   *)
(* front as far as they have left the window.                              *)

PopLeft(list, cutoff) ==
    LET later == {i \in DOMAIN list : list[i] > cutoff}
    IN  IF later = {} THEN <<>> ELSE SubSeq(list, Min(later), Len(list))
Live_AnHour(key, limit) == PopLeft(hits[key], clock - PLAN.window)
Live(key, limit) == PopLeft(hits[key], clock - limit.window)
blocked(key, limit) == Len(Live(key, limit)) >= limit.count
Recorded(key, limit) == Append(Live(key, limit), clock)

\* enforce_plan_budget: both ceilings are asked before either is spent.
Budget_OneByOne(key) ==
    IF blocked(key, PLAN)
    THEN [by |-> "caller", hits |-> [hits EXCEPT ![key] = Live(key, PLAN)]]
    ELSE IF blocked(GLOBAL_PLAN_KEY, plan_daily_global)
         THEN [by |-> "service", hits |-> [hits EXCEPT ![key] = Recorded(key, PLAN)]]
         ELSE [by |-> None,
               hits |-> [hits EXCEPT ![key] = Recorded(key, PLAN),
                            ![GLOBAL_PLAN_KEY] = Recorded(GLOBAL_PLAN_KEY, plan_daily_global)]]
Budget(key) ==
    LET mine == [hits EXCEPT ![key] = Live(key, PLAN)]
        both == [mine EXCEPT ![GLOBAL_PLAN_KEY] = Live(GLOBAL_PLAN_KEY, plan_daily_global)]
    IN  CASE blocked(key, PLAN) -> [by |-> "caller", hits |-> mine]
          [] ~blocked(key, PLAN) /\ blocked(GLOBAL_PLAN_KEY, plan_daily_global) ->
                [by |-> "service", hits |-> both]
          [] OTHER -> [by |-> None, hits |-> [both EXCEPT ![key] = Append(@, clock),
                                                ![GLOBAL_PLAN_KEY] = Append(@, clock)]]

Owner(caller) == IF caller = Address THEN None ELSE caller

Refuse(caller) ==
    LET budget == Budget(Plan(caller)) IN
    /\ budget.by # None
    /\ hits' = budget.hits
    /\ UNCHANGED <<clock, spent, started, running, database, reports>>

\* A run is paid for whatever becomes of it.
Admit(caller) ==
    LET budget == Budget(Plan(caller)) IN
    /\ budget.by = None /\ started < MaxRuns
    /\ hits' = budget.hits
    /\ started' = started + 1
    /\ spent' = spent \cup {[key |-> Plan(caller), at |-> clock, run |-> started + 1]}
    /\ running' = running \cup {[run |-> started + 1, owner |-> Owner(caller)]}
    /\ UNCHANGED <<clock, database, reports>>

-----------------------------------------------------------------------------
(* FeedbackStore: every transaction begins by deleting what has expired,   *)
(* and a run takes its reports with it.                                    *)

Expired(row) == row.created < clock - RETENTION_SECONDS
Fresh(rows) == {row \in rows : ~Expired(row)}
Cascaded(rows) == {f \in feedback : \E row \in rows : row.id = f.run}

\* What a trim may leave: the newest of the owner, of those of one instant any, beside
\* everyone else's.
Newest(mine) ==
    {some \in SUBSET mine :
        /\ Cardinality(some) = IF Cardinality(mine) < MAX_RUNS_PER_USER
                               THEN Cardinality(mine) ELSE MAX_RUNS_PER_USER
        /\ \A r \in some, q \in mine \ some : r.created >= q.created}
OwnedBy(rows, owner) == {row \in rows : row.owner = owner}
Kept_OfAll(rows, owner) == Newest(OwnedBy(rows, owner))
Kept(rows, owner) ==
    {(rows \ OwnedBy(rows, owner)) \cup newest : newest \in Newest(OwnedBy(rows, owner))}

\* retain_feedback_run records a result before it is answered.
Record(run) ==
    /\ run.owner # None
    /\ \E shape \in Shapes :
          LET row == [id |-> run.run, owner |-> run.owner, created |-> clock, shape |-> shape]
          IN  runs' \in Kept(Fresh(runs) \cup {row}, run.owner)
    /\ feedback' = Cascaded(runs')
    /\ running' = running \ {run}
    /\ UNCHANGED <<clock, limiter, reports>>

\* A run fails, is anonymous, or its snapshot cannot be written: nothing is offered.
EndUnrecorded(run) ==
    /\ running' = running \ {run}
    /\ UNCHANGED <<clock, limiter, database, reports>>

Targets == {"plan"} \cup UNION Shapes

\* An account reports on a run; one about no retained run is turned away.  The allowance
\* for reports, a backstop against a loop, is left out: it only turns some more away.
Report(account, run, target) ==
    /\ Cardinality(reports) < MaxReports
    /\ reports' = reports \cup {[run |-> run, target |-> target, by |-> account]}
    /\ UNCHANGED <<clock, limiter, running, database>>

Found_Anyones(report, row) == row.id = report.run
Found(report, row) == row.id = report.run /\ row.owner = report.by
Accepted(report, rows) ==
    \E row \in rows : Found(report, row) /\ report.target \in {"plan"} \cup row.shape

SameTarget(f, report) == f.run = report.run /\ f.target = report.target
Submit(report) ==
    LET kept == Cascaded(Fresh(runs)) IN
    /\ runs' = Fresh(runs)
    /\ feedback' = IF Accepted(report, Fresh(runs))
                   THEN {f \in kept : ~SameTarget(f, report)} \cup {report}
                   ELSE kept
    /\ reports' = reports \ {report}
    /\ UNCHANGED <<clock, limiter, running>>

SubmitFails(report) ==
    /\ reports' = reports \ {report}
    /\ UNCHANGED <<clock, limiter, running, database>>

\* export() and prune() delete what has expired.
Prune == /\ runs' = Fresh(runs)
         /\ feedback' = Cascaded(Fresh(runs))
         /\ UNCHANGED <<clock, limiter, running, reports>>

\* A new process prunes, if it can, and knows nothing of the old one's hits and runs.
Restart ==
    /\ runs' \in {runs, Fresh(runs)}
    /\ feedback' = Cascaded(runs')
    /\ hits' = [k \in Keys |-> <<>>]
    /\ spent' = {}
    /\ running' = {} /\ reports' = {}
    /\ UNCHANGED <<clock, started>>

Tick == /\ clock < MaxClock
        /\ clock' = clock + 1
        /\ UNCHANGED <<limiter, running, database, reports>>

Next ==
    \/ \E caller \in Callers : Refuse(caller) \/ Admit(caller)
    \/ \E run \in running : Record(run) \/ EndUnrecorded(run)
    \/ \E account \in Accounts, run \in {row.id : row \in runs}, target \in Targets :
          Report(account, run, target)
    \/ \E report \in reports : Submit(report) \/ SubmitFails(report)
    \/ Prune \/ Restart \/ Tick

Spec == Init /\ [][Next]_vars

-----------------------------------------------------------------------------
Spendings(at, limit) == {s \in spent : at - limit.window < s.at /\ s.at <= at}
Mine(spendings, key) == {s \in spendings : s.key = key}

(* "The difference between no one person can run up the bill and the bill  *)
(* has a maximum": in no window of the history were more runs admitted     *)
(* than the allowance of each caller and of everyone together, whoever     *)
(* asked in whichever order, and however often they were refused.          *)
CeilingsHold ==
    \A at \in 0 .. clock :
        /\ Cardinality(Spendings(at, plan_daily_global)) <= plan_daily_global.count
        /\ \A c \in Callers : Cardinality(Mine(Spendings(at, PLAN), Plan(c))) <= PLAN.count

(* A refusal spends nothing: whoever would be refused now is refused for   *)
(* runs that were admitted, its own within its window or everyone's within *)
(* the day, never for requests that one of the two ceilings turned away.   *)
RefusedForRuns ==
    \A c \in Callers :
        CASE Budget(Plan(c)).by = "caller" ->
               Cardinality(Mine(Spendings(clock, PLAN), Plan(c))) >= PLAN.count
          [] Budget(Plan(c)).by = "service" ->
               Cardinality(Spendings(clock, plan_daily_global)) >= plan_daily_global.count
          [] OTHER -> TRUE

(* A stored report is its owner's about a run that is still retained, and  *)
(* about something in it, whatever expired, was trimmed or finished        *)
(* between sending and storing it.                                         *)
ReportsOwned ==
    \A f \in feedback : \E row \in runs :
        row.id = f.run /\ row.owner = f.by /\ f.target \in {"plan"} \cup row.shape

(* A stored report goes only when it is replaced by its author, its run    *)
(* has expired, or its owner has as many retained runs that are no older:  *)
(* other travellers' runs never push it out.                               *)
Outlived(row) ==
    Expired(row) \/ Cardinality({r \in runs' : r.owner = row.owner /\ r.created >= row.created})
                      >= MAX_RUNS_PER_USER
ReportsKept ==
    [][\A f \in feedback \ feedback' :
          \/ \E g \in feedback' : SameTarget(g, f) /\ g.by = f.by
          \/ \A row \in runs : row.id = f.run => Outlived(row)]_vars
=============================================================================

------------------------------ MODULE PlanRun ------------------------------
(***************************************************************************)
(* One planning run: the LangGraph state machine of                        *)
(* backend/app/agent/orchestrator.py (gather, run_tools, parse, emit,      *)
(* weather, validate, repair, finish) and the edges between its nodes.     *)
(*                                                                         *)
(* The language model is an adversary: each of its turns is any outcome    *)
(* the code distinguishes (tool calls, an itinerary, a question, nothing   *)
(* usable, an empty reply, a failure).  An itinerary is abstracted to the  *)
(* trip it is for, i.e. its weather key (city, first and last day), the    *)
(* rest of its contents, and the weather notes the server wrote into it.   *)
(***************************************************************************)
EXTENDS Integers, FiniteSets

CONSTANTS
    Trips,                \* weather keys an itinerary or a lookup can carry
    Bodies,               \* everything else an itinerary says
    Dates,                \* calendar days
    BeyondHorizon,        \* per trip, its days past the forecast horizon
    Confirmed,            \* weather_confirmed_dates
    Oversized,            \* the dialogue may have outgrown a PlanContinuation
    Rounds,               \* max_tool_rounds
    MaxToolCalls,         \* MAX_TOOL_CALLS
    MaxEmitAttempts,      \* MAX_EMIT_ATTEMPTS
    MaxConstraintRepairs, \* MAX_CONSTRAINT_REPAIRS
    RepairFormats,        \* initial repair_formats_left
    MaxBatch              \* bound: other calls one turn asks for beside weather

ASSUME TripsAssumption ==
    /\ IsFiniteSet(Trips)
    /\ BeyondHorizon \in [Trips -> SUBSET Dates]
    /\ Confirmed \subseteq Dates
    /\ Oversized \in BOOLEAN
ASSUME BudgetAssumption ==
    /\ Rounds \in Nat
    /\ MaxToolCalls \in Nat
    /\ MaxEmitAttempts \in Nat
    /\ MaxConstraintRepairs \in Nat
    /\ RepairFormats \in Nat
    /\ MaxBatch \in Nat

VARIABLES
    pc,            \* the node about to run
    steps,         \* nodes completed, what recursion_limit counts
    roundsLeft, callsMade, pending,
    records,       \* how many ToolCallRecords the run holds
    lookups,       \* per trip, the outcome of its latest weather record
    toolCache,     \* per trip, the outcome its run-cache entry replays
    lastTurn,      \* the turn `parse` reads
    itinerary, report,
    routes,        \* the version whose transfers route_facts() was measured on
    emitAttempts, repairsLeft, formatsLeft, hoursTried,
    clarification,
    openCalls,     \* declared tool calls `messages` holds no reply to
    emptyHeld,     \* `messages` holds an assistant message that says nothing
    warnings, result, failure,
    recomposes     \* history: times a weather lookup sent the run back to gather

budgets == <<roundsLeft, callsMade, emitAttempts, repairsLeft, formatsLeft>>
weather == <<lookups, toolCache, records>>
history == <<openCalls, emptyHeld>>
checked == <<report, routes, hoursTried>>
outcome == <<result, failure>>
vars == <<pc, steps, budgets, pending, weather, lastTurn, itinerary, checked,
          clarification, history, warnings, outcome, recomposes>>

-----------------------------------------------------------------------------
Max2(a, b) == IF a >= b THEN a ELSE b
Min2(a, b) == IF a <= b THEN a ELSE b

None == [kind |-> "none"]
Notes == {"unverified", "seasonal"}
Plan == [kind : {"plan"}, trip : Trips, body : Bodies, notes : SUBSET Notes]
Report == [kind : {"report"}, of : Plan, ok : BOOLEAN]

(* What one model turn says once `_parse_clarification` and `parse_turn`   *)
(* have read it.                                                           *)
Reply == [kind : {"plan"}, trip : Trips, body : Bodies, notes : {{}}]
            \cup [kind : {"question", "invalid", "empty"}]

Calls == [other : 0 .. MaxBatch, weather : SUBSET Trips]
NoCalls == [other |-> 0, weather |-> {}]
Size(calls) == calls.other + Cardinality(calls.weather)

Result == [kind : {"plan"}, itinerary : Plan, report : Report, routes : Plan]
            \cup [kind : {"clarification", "no_itinerary"}]

Nodes == {"gather", "run_tools", "parse", "emit", "weather", "validate",
          "repair", "repair_retry", "finish"}
ModelNodes == {"gather", "emit", "repair", "repair_retry"}
Done == {"end", "raised"}

StepLimit_NoMargin == 2 * (Rounds + MaxEmitAttempts + MaxConstraintRepairs)

StepLimit == 2 * (Rounds + MaxEmitAttempts + MaxConstraintRepairs) + 12

(* A node runs only while the graph's recursion limit leaves it a step;    *)
(* the repair node's format retry stays inside the node.                   *)
At(node) == pc = node /\ steps < StepLimit
Goto(node) == pc' = node /\ steps' = steps + 1

(* An exception leaves the graph: no node's update is applied.             *)
Raise(error) ==
    /\ pc' = "raised"
    /\ failure' = error
    /\ UNCHANGED <<steps, budgets, pending, weather, lastTurn, itinerary, checked,
                   clarification, history, warnings, result, recomposes>>
-----------------------------------------------------------------------------
Init ==
    /\ pc = "gather" /\ steps = 0
    /\ roundsLeft = Rounds /\ callsMade = 0 /\ pending = NoCalls
    /\ records = 0
    /\ lookups = [t \in Trips |-> "none"] /\ toolCache = [t \in Trips |-> "none"]
    /\ lastTurn = None /\ itinerary = None
    /\ report = None /\ routes = None /\ hoursTried = FALSE
    /\ emitAttempts = 0 /\ repairsLeft = MaxConstraintRepairs
    /\ formatsLeft = RepairFormats
    /\ clarification = "none"
    /\ openCalls = 0 /\ emptyHeld = FALSE
    /\ warnings = {} /\ result = None /\ failure = "none"
    /\ recomposes = 0

(* stream_turn translates every transport failure, timeout and refusal.    *)
ModelFails == /\ pc \in ModelNodes
              /\ steps < StepLimit
              /\ Raise("PlanningError")

(* `ask_clarification` wins over every other call of its turn; arguments   *)
(* that do not validate raise out of the node.                             *)
GatherAsks ==
    /\ At("gather")
    /\ clarification' = "inputs"
    /\ pending' = NoCalls
    /\ Goto("finish")
    /\ UNCHANGED <<budgets, weather, lastTurn, itinerary, checked, history, warnings, outcome,
                   recomposes>>

GatherAsksMalformed == At("gather") /\ Raise("ValidationError")

Allowed_PerTurn == MaxToolCalls

Allowed == Max2(0, MaxToolCalls - callsMade)

(* What the call budget keeps of a turn: as many calls as it allows, a     *)
(* weather key this run has not cached before anything else.               *)
Kept(asked) ==
    LET fresh == {t \in asked.weather : toolCache[t] = "none"}
    IN  {kept \in Calls :
            /\ kept.other <= asked.other
            /\ kept.weather \subseteq asked.weather
            /\ Size(kept) = Min2(Size(asked), Allowed)
            /\ \/ fresh \subseteq kept.weather
               \/ kept.other = 0 /\ kept.weather \subseteq fresh}

(* The turn enters the history already trimmed.                            *)
Declare_Untrimmed(asked, kept) == openCalls' = openCalls + Size(asked)

Declare(asked, kept) == openCalls' = openCalls + Size(kept)

GatherCalls ==
    /\ At("gather")
    /\ \E asked \in Calls : \E kept \in Kept(asked) :
          /\ kept # NoCalls
          /\ pending' = kept
          /\ callsMade' = callsMade + Size(kept)
          /\ Declare(asked, kept)
          /\ warnings' = IF kept # asked THEN warnings \cup {"dropped"} ELSE warnings
    /\ roundsLeft' = roundsLeft - 1
    /\ Goto("run_tools")
    /\ UNCHANGED <<emitAttempts, repairsLeft, formatsLeft, weather, lastTurn, itinerary,
                   checked, clarification, emptyHeld, outcome, recomposes>>

(* No call left to make: none asked for, or none allowed.  An empty turn   *)
(* is kept out of the history.                                             *)
GatherAnswers ==
    /\ At("gather")
    /\ \E asked \in Calls :
          /\ NoCalls \in Kept(asked)
          /\ warnings' = IF asked # NoCalls THEN warnings \cup {"dropped"} ELSE warnings
    /\ lastTurn' \in Reply
    /\ pending' = NoCalls
    /\ roundsLeft' = roundsLeft - 1
    /\ Goto("parse")
    /\ UNCHANGED <<callsMade, emitAttempts, repairsLeft, formatsLeft, weather, itinerary,
                   checked, clarification, history, outcome, recomposes>>

-----------------------------------------------------------------------------
(* The days some weather record asked about that lie past the horizon.     *)
Uncovered(looked) == UNION {BeyondHorizon[t] : t \in {u \in Trips : looked[u] # "none"}}

(* `_weather_question`: those the traveller has not agreed to assume.      *)
WeatherQuestion(looked) == ~ (Uncovered(looked) \subseteq Confirmed)

(* A repeated key replays the run's cached value, any other is looked up   *)
(* or served from the shared cache.                                        *)
Answers == {found \in [pending.weather -> {"ok", "failed"}] :
               \A t \in pending.weather : toolCache[t] # "none" => found[t] = toolCache[t]}

(* Whether the tool loop is over: `after_tools`.                           *)
BudgetSpent == roundsLeft <= 0 \/ callsMade >= MaxToolCalls

RunTools ==
    /\ At("run_tools")
    /\ \E found \in Answers :
          /\ lookups' = [t \in Trips |-> IF t \in pending.weather THEN found[t] ELSE lookups[t]]
          /\ toolCache' = [t \in Trips |-> IF t \in pending.weather THEN found[t] ELSE toolCache[t]]
    /\ records' = records + Size(pending)
    /\ openCalls' = openCalls - Size(pending)
    /\ pending' = NoCalls
    /\ warnings' = CASE roundsLeft <= 0 -> warnings \cup {"rounds_spent"}
                     [] roundsLeft > 0 /\ callsMade >= MaxToolCalls -> warnings \cup {"calls_spent"}
                     [] OTHER -> warnings
    /\ clarification' = IF WeatherQuestion(lookups') THEN "weather" ELSE clarification
    /\ Goto(CASE clarification' # "none" -> "finish"
              [] clarification' = "none" /\ BudgetSpent -> "parse"
              [] OTHER -> "gather")
    /\ UNCHANGED <<budgets, lastTurn, itinerary, checked, emptyHeld, outcome, recomposes>>

-----------------------------------------------------------------------------
Read(reply) == IF reply.kind = "plan" THEN reply ELSE None

Parse ==
    /\ At("parse")
    /\ \/ /\ lastTurn.kind = "question"
          /\ clarification' = "inputs"
          /\ Goto("finish")
          /\ UNCHANGED itinerary
       \/ /\ lastTurn.kind # "question"
          /\ itinerary' = Read(lastTurn)
          /\ Goto(IF itinerary' # None THEN "weather" ELSE "emit")
          /\ UNCHANGED clarification
    /\ UNCHANGED <<budgets, pending, weather, lastTurn, checked, history, warnings, outcome,
                   recomposes>>

AfterEmit(plan, attempts) ==
    CASE plan # None -> "weather"
      [] plan = None /\ attempts < MaxEmitAttempts -> "emit"
      [] OTHER -> "finish"

Emit ==
    /\ At("emit")
    /\ \E reply \in Reply :
          \/ /\ reply.kind = "question"
             /\ clarification' = "inputs"
             /\ Goto("finish")
             /\ UNCHANGED <<itinerary, emitAttempts, emptyHeld>>
          \/ /\ reply.kind # "question"
             /\ itinerary' = Read(reply)
             /\ emptyHeld' = (emptyHeld \/ reply.kind = "empty")
             /\ emitAttempts' = emitAttempts + 1
             /\ Goto(AfterEmit(itinerary', emitAttempts'))
             /\ UNCHANGED clarification
    /\ UNCHANGED <<roundsLeft, callsMade, repairsLeft, formatsLeft, pending, weather, lastTurn,
                   checked, openCalls, warnings, outcome, recomposes>>

-----------------------------------------------------------------------------
(* The mandatory lookup: made by the server itself, outside the run cache. *)
LookupMade(outcome_) ==
    /\ lookups[itinerary.trip] = "none"
    /\ callsMade < MaxToolCalls
    /\ lookups' = [lookups EXCEPT ![itinerary.trip] = IF outcome_ = "failed" THEN "failed" ELSE "ok"]
    /\ records' = records + 1
    /\ callsMade' = callsMade + 1

LookupKnown ==
    /\ lookups[itinerary.trip] # "none"
    /\ UNCHANGED <<lookups, records, callsMade>>

(* What the server writes into a plan whose weather is not an observation. *)
WeatherNotes(trip, looked) ==
    (IF looked[trip] = "failed" THEN {"unverified"} ELSE {})
        \cup (IF Uncovered(looked) # {} THEN {"seasonal"} ELSE {})

WeatherLimit ==
    /\ At("weather")
    /\ lookups[itinerary.trip] = "none" /\ callsMade >= MaxToolCalls
    /\ clarification' = "limit"
    /\ Goto("finish")
    /\ UNCHANGED <<budgets, pending, weather, lastTurn, itinerary, checked, history, warnings,
                   outcome, recomposes>>

(* A forecast the model has not seen sends the run back to gather.         *)
EnsureWeather ==
    /\ At("weather")
    /\ \E days \in {"days", "no_days", "failed"} :
          /\ LookupMade(days) \/ (days = "no_days" /\ LookupKnown)
          /\ IF WeatherQuestion(lookups')
                THEN /\ clarification' = "weather"
                     /\ Goto("finish")
                     /\ UNCHANGED <<itinerary, recomposes>>
                ELSE /\ itinerary' = [itinerary EXCEPT
                           !.notes = @ \cup WeatherNotes(itinerary.trip, lookups')]
                     /\ Goto(IF days = "days" THEN "gather" ELSE "validate")
                     /\ recomposes' = IF days = "days" THEN recomposes + 1 ELSE recomposes
                     /\ UNCHANGED clarification
    /\ UNCHANGED <<roundsLeft, emitAttempts, repairsLeft, formatsLeft, pending, toolCache,
                   lastTurn, checked, history, warnings, outcome>>

-----------------------------------------------------------------------------
(* Pruning, observed costs and the fallback rewrite a plan's contents,     *)
(* never its trip nor the weather notes.                                   *)
Rewritten(plan) == {[plan EXCEPT !.body = b] : b \in Bodies}

Judge_ReportOnly(plan, ok) ==
    /\ UNCHANGED itinerary
    /\ routes' = plan
    /\ report' = [kind |-> "report", of |-> plan, ok |-> ok]
    /\ Goto(IF ok \/ repairsLeft <= 0 THEN "finish" ELSE "repair")

Judge(plan, ok) ==
    /\ itinerary' = plan
    /\ routes' = plan
    /\ report' = [kind |-> "report", of |-> plan, ok |-> ok]
    /\ Goto(IF ok \/ repairsLeft <= 0 THEN "finish" ELSE "repair")

(* When only opening hours block a plan that was judged before, one        *)
(* rearranged candidate per run may be measured in its place; if it is not *)
(* accepted the measured facts of the plan itself are put back.            *)
Validate ==
    /\ At("validate")
    /\ \E plan \in Rewritten(itinerary) :
          \/ /\ \E ok \in BOOLEAN : Judge(plan, ok)
             /\ UNCHANGED hoursTried
          \/ /\ report # None /\ ~hoursTried
             /\ hoursTried' = TRUE
             /\ Judge(plan, FALSE) \/ \E other \in Rewritten(plan) : Judge(other, TRUE)
    /\ UNCHANGED <<budgets, pending, weather, lastTurn, clarification, history, warnings,
                   outcome, recomposes>>

(* "Always re-validate", and before that the weather of the repaired trip. *)
AfterRepair_Validate == "validate"

AfterRepair == "weather"

RepairAccepted(reply) ==
    /\ reply.kind = "plan"
    /\ itinerary' = reply
    /\ repairsLeft' = repairsLeft - 1
    /\ Goto(AfterRepair)
    /\ UNCHANGED <<formatsLeft, clarification>>

Malformed(reply) == reply.kind \in {"invalid", "empty"}

(* The allowance for malformed replies is shared by every repair of a run; *)
(* once it is spent the candidate is kept and no repair is left.           *)
FormatRetry_Renewed(reply) ==
    /\ Malformed(reply)
    /\ formatsLeft' = IF formatsLeft > 0 THEN formatsLeft - 1 ELSE RepairFormats
    /\ pc' = "repair_retry"
    /\ UNCHANGED <<steps, itinerary, repairsLeft, clarification>>

FormatRetry(reply) ==
    /\ Malformed(reply) /\ formatsLeft > 0
    /\ formatsLeft' = formatsLeft - 1
    /\ pc' = "repair_retry"
    /\ UNCHANGED <<steps, itinerary, repairsLeft, clarification>>

GiveUpFormat_DropPlan(reply) ==
    /\ Malformed(reply) /\ formatsLeft <= 0
    /\ repairsLeft' = 0 /\ formatsLeft' = 0
    /\ itinerary' = None
    /\ Goto("emit")
    /\ UNCHANGED clarification

GiveUpFormat(reply) ==
    /\ Malformed(reply) /\ formatsLeft <= 0
    /\ repairsLeft' = 0 /\ formatsLeft' = 0
    /\ Goto(AfterRepair)
    /\ UNCHANGED <<itinerary, clarification>>

RepairAsks(reply) ==
    /\ reply.kind = "question"
    /\ clarification' = "inputs"
    /\ Goto("finish")
    /\ UNCHANGED <<itinerary, repairsLeft, formatsLeft>>

(* One turn of the repair loop.                                            *)
Repair ==
    /\ pc \in {"repair", "repair_retry"} /\ steps < StepLimit
    /\ \E reply \in Reply :
          /\ emptyHeld' = (emptyHeld \/ reply.kind = "empty")
          /\ RepairAsks(reply) \/ RepairAccepted(reply) \/ FormatRetry(reply) \/ GiveUpFormat(reply)
    /\ UNCHANGED <<roundsLeft, callsMade, emitAttempts, pending, weather, lastTurn, checked,
                   openCalls, warnings, outcome, recomposes>>

-----------------------------------------------------------------------------
Finish ==
    /\ At("finish")
    /\ result' = CASE clarification # "none" -> [kind |-> "clarification"]
                   [] clarification = "none" /\ itinerary = None -> [kind |-> "no_itinerary"]
                   [] OTHER -> [kind |-> "plan", itinerary |-> itinerary,
                                report |-> report, routes |-> routes]
    /\ warnings' = IF clarification = "none" /\ itinerary = None
                      THEN warnings \cup {"no_itinerary"} ELSE warnings
    /\ Goto("end")
    /\ UNCHANGED <<budgets, pending, weather, lastTurn, itinerary, checked, clarification,
                   history, failure, recomposes>>

(* A question is returned with the dialogue to continue from, which is     *)
(* validated against its own size limits only here.                        *)
FinishRejected == /\ At("finish")
                  /\ clarification # "none" /\ Oversized
                  /\ Raise("ValidationError")

(* LangGraph stops a graph that used up its supersteps with an exception.  *)
OutOfSteps == /\ pc \notin Done /\ steps >= StepLimit
              /\ Raise("GraphRecursionError")

Over == pc \in Done /\ UNCHANGED vars

Next == \/ GatherAsks \/ GatherAsksMalformed \/ GatherCalls \/ GatherAnswers \/ RunTools
        \/ Parse \/ Emit
        \/ WeatherLimit \/ EnsureWeather \/ Validate
        \/ Repair \/ Finish \/ FinishRejected
        \/ ModelFails \/ OutOfSteps \/ Over

(* Every await the run makes is bounded by llm_timeout_seconds or          *)
(* tool_timeout_seconds, so a run that can take a step takes it.           *)
Spec == Init /\ [][Next]_vars /\ WF_vars(Next)
-----------------------------------------------------------------------------
(* Type invariant.  Calls are counted against the budget when a turn is    *)
(* kept, so a budget may be overdrawn by no one; rounds may: a recomposed  *)
(* run goes on below zero.                                                 *)
TypeOK ==
    /\ pc \in Nodes \cup Done
    /\ steps \in Nat
    /\ roundsLeft \in Int /\ callsMade \in Nat /\ pending \in Calls
    /\ records \in Nat
    /\ lookups \in [Trips -> {"none", "ok", "failed"}]
    /\ toolCache \in [Trips -> {"none", "ok", "failed"}]
    /\ lastTurn \in Reply \cup {None}
    /\ itinerary \in Plan \cup {None}
    /\ report \in Report \cup {None} /\ routes \in Plan \cup {None}
    /\ emitAttempts \in Nat /\ repairsLeft \in Nat /\ formatsLeft \in Nat
    /\ hoursTried \in BOOLEAN
    /\ clarification \in {"none", "inputs", "weather", "limit"}
    /\ openCalls \in Nat /\ emptyHeld \in BOOLEAN
    /\ warnings \subseteq {"dropped", "rounds_spent", "calls_spent", "no_itinerary"}
    /\ result \in Result \cup {None}
    /\ failure \in {"none", "PlanningError", "ValidationError", "GraphRecursionError"}
    /\ recomposes \in Nat

(* A plan leaves the run only with the verdict and the measured transfers  *)
(* of exactly the version that ships, and with blocking findings only when *)
(* no repair is left ("The result is re-validated, never taken on trust"). *)
ShippedIsJudged ==
    result.kind = "plan" =>
        /\ result.report.of = result.itinerary
        /\ result.routes = result.itinerary
        /\ result.report.ok \/ repairsLeft = 0

(* No plan ships before the weather of its own city and days was looked    *)
(* up; if that failed, or days lie past the horizon, the plan says so, and *)
(* such days were confirmed by the traveller.                              *)
ShippedWeatherHonest ==
    result.kind = "plan" =>
        /\ lookups[result.itinerary.trip] # "none"
        /\ WeatherNotes(result.itinerary.trip, lookups) \subseteq result.itinerary.notes
        /\ ~ WeatherQuestion(lookups)

(* The run never pays for more than MAX_TOOL_CALLS calls, the mandatory    *)
(* weather lookups included, and every call it paid for is in the records  *)
(* the result's tool usage is computed from.                               *)
CallsAccounted ==
    /\ callsMade <= MaxToolCalls
    /\ callsMade = records + Size(pending)

(* "Every declared tool call must come back with a matching reply": no     *)
(* request goes to the model while the history declares an unanswered one. *)
EveryCallAnswered == pc \in ModelNodes => openCalls = 0

(* The declared turn, the pending batch, the replies and the records speak *)
(* of the same calls, within the budget.                                   *)
CallsBalanced == CallsAccounted /\ EveryCallAnswered

(* The nodes a run can still complete unless another weather lookup sends  *)
(* it back to gather.                                                      *)
StepsToGo ==
    LET emits == Max2(0, MaxEmitAttempts - emitAttempts)
        spare == 2 * Max2(0, roundsLeft)
        fixes == 3 * repairsLeft
    IN  CASE pc = "gather" -> 2 * Max2(1, roundsLeft) + Max2(1, emits) + fixes + 4
          [] pc = "run_tools" -> spare + Max2(1, emits) + fixes + 5
          [] pc = "parse" -> spare + Max2(1, emits) + fixes + 4
          [] pc = "emit" -> spare + Max2(1, emits) + fixes + 3
          [] pc = "weather" -> spare + emits + fixes + 3
          [] pc = "validate" -> spare + emits + fixes + 2
          [] pc \in {"repair", "repair_retry"} -> spare + emits + fixes + 1
          [] pc = "finish" -> 1
          [] OTHER -> 0

(* The graph cannot spin: whatever the model answers, the budgets bound    *)
(* the nodes a run completes, and each recomposition adds at most five.    *)
StepsAccounted ==
    /\ steps + StepsToGo <= 2 * Max2(1, Rounds) + Max2(1, MaxEmitAttempts)
                              + 3 * MaxConstraintRepairs + 4 + 5 * recomposes
    /\ recomposes <= records

(* recursion_limit leaves room for every run that was sent back to gather  *)
(* at most once.                                                           *)
LimitSuffices == recomposes <= 1 => failure # "GraphRecursionError"

(* "Never replace a well-formed candidate with malformed output": no turn  *)
(* of the repair loop leaves the run without a plan, and giving up on the  *)
(* format keeps the plan the last verdict is about.                        *)
RepairKeepsPlan ==
    [][(pc \in {"repair", "repair_retry"}) =>
          itinerary' # None /\ (itinerary' # itinerary => repairsLeft' < repairsLeft)]_vars

(* A repeated call replays what the run was told before: once a key is in  *)
(* the run's cache its answer never changes.                               *)
CacheStable ==
    [][\A t \in Trips : toolCache[t] # "none" => toolCache'[t] = toolCache[t]]_vars

(* Every run ends, with a result or with an exception, also when every     *)
(* reply of the repair loop is malformed (that loop is inside one node, so *)
(* recursion_limit does not bound it).                                     *)
Termination == <>(pc \in Done)

(* What parse_turn says of an empty assistant message, that it "cannot be  *)
(* sent back": no request to the model carries one.                        *)
EmptyNeverResent == pc \in ModelNodes => ~emptyHeld
=============================================================================

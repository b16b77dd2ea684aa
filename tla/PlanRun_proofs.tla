--------------------------- MODULE PlanRun_proofs ---------------------------
(***************************************************************************)
(* What every planning run guarantees, for every trip, horizon and budget. *)
(* The argument is one inductive invariant, IInv: the types, what the      *)
(* pending batch and the history owe each other, what is known of the      *)
(* candidate at each node, and the node count that is left.                *)
(***************************************************************************)
EXTENDS PlanRun, FiniteSetTheorems, TLAPS

(* A plan whose trip was looked up and that says what is not an observation. *)
Honest(plan) ==
    /\ lookups[plan.trip] # "none"
    /\ WeatherNotes(plan.trip, lookups) \subseteq plan.notes
    /\ ~ WeatherQuestion(lookups)

BatchInv ==
    /\ pc \notin {"run_tools", "raised"} => pending = NoCalls /\ openCalls = 0
    /\ pc = "run_tools" => openCalls = Size(pending)

StageInv ==
    /\ pc \notin {"finish", "end", "raised"} => clarification = "none"
    /\ pc = "weather" => itinerary # None
    /\ pc \in {"validate", "repair", "repair_retry"} => itinerary # None /\ Honest(itinerary)
    /\ pc \in {"repair", "repair_retry"} => repairsLeft > 0
    /\ pc = "finish" /\ clarification = "none" /\ itinerary # None =>
          /\ Honest(itinerary)
          /\ report # None /\ report.of = itinerary /\ routes = itinerary
          /\ report.ok \/ repairsLeft = 0
    /\ result # None => pc = "end"

IInv == /\ TypeOK /\ BatchInv /\ StageInv /\ CallsAccounted /\ StepsAccounted
        /\ ShippedIsJudged /\ ShippedWeatherHonest

-----------------------------------------------------------------------------
(* No call is no call. *)
LEMMA SizeNoCalls == Size(NoCalls) = 0
BY FS_EmptySet DEF Size, NoCalls

(* Sizes are natural numbers. *)
LEMMA SizeType == ASSUME NEW c \in Calls PROVE Size(c) \in Nat
<1>1. c.other \in Nat /\ c.weather \subseteq Trips
  BY BudgetAssumption DEF Calls
<1>2. IsFiniteSet(c.weather)
  BY <1>1, TripsAssumption, FS_Subset
<1> QED BY <1>1, <1>2, FS_CardinalityType DEF Size

(* The empty batch is a batch. *)
LEMMA NoCallsType == NoCalls \in Calls
BY BudgetAssumption DEF NoCalls, Calls

(* The trim keeps the run inside its call budget. *)
LEMMA KeptFits ==
    ASSUME TypeOK, NEW asked \in Calls, NEW kept \in Kept(asked), callsMade <= MaxToolCalls
    PROVE  kept \in Calls /\ callsMade + Size(kept) <= MaxToolCalls
<1>1. kept \in Calls /\ Size(kept) = Min2(Size(asked), Allowed)
  BY DEF Kept
<1>2. Size(asked) \in Nat /\ callsMade \in Nat /\ MaxToolCalls \in Nat
  BY SizeType, BudgetAssumption DEF TypeOK
<1>3. Allowed = MaxToolCalls - callsMade
  BY <1>2 DEF Allowed, Max2
<1> QED BY <1>1, <1>2, <1>3 DEF Min2

(* What a reply says as a candidate. *)
LEMMA ReadType ==
    ASSUME NEW r \in Reply \cup {None}
    PROVE  /\ Read(r) \in Plan \cup {None}
           /\ r.kind = "plan" => r \in Plan /\ r # None
BY DEF Read, Reply, Plan, None, Notes

(* "Nothing yet" is no plan, no verdict and no result. *)
LEMMA NoneNotPlan == None \notin Plan /\ None \notin Report /\ None \notin Result
BY DEF None, Plan, Report, Result
-----------------------------------------------------------------------------
(* A run starts with every variable in its type. *)
LEMMA TypeInit == Init => TypeOK
<1> SUFFICES ASSUME Init PROVE TypeOK
  OBVIOUS
<1>1. pc \in Nodes \cup Done
  BY DEF Init, Nodes
<1>2. /\ roundsLeft \in Int /\ callsMade \in Nat /\ steps \in Nat /\ records \in Nat
      /\ emitAttempts \in Nat /\ repairsLeft \in Nat /\ formatsLeft \in Nat
      /\ openCalls \in Nat /\ recomposes \in Nat
  BY BudgetAssumption DEF Init
<1>3. /\ lookups \in [Trips -> {"none", "ok", "failed"}]
      /\ toolCache \in [Trips -> {"none", "ok", "failed"}]
  BY DEF Init
<1>4. pending \in Calls
  BY NoCallsType DEF Init
<1>5. /\ hoursTried \in BOOLEAN /\ emptyHeld \in BOOLEAN
      /\ warnings \subseteq {"dropped", "rounds_spent", "calls_spent", "no_itinerary"}
  BY DEF Init
<1> QED
  BY <1>1, <1>2, <1>3, <1>4, <1>5 DEF Init, TypeOK

(* Every step of the run keeps every variable in its type. *)
LEMMA TypeStep == TypeOK /\ BatchInv /\ StageInv /\ CallsAccounted /\ [Next]_vars => TypeOK'
<1> SUFFICES ASSUME TypeOK, BatchInv, StageInv, CallsAccounted, [Next]_vars PROVE TypeOK'
  OBVIOUS
<1> USE NoCallsType, BudgetAssumption
<1>r. ASSUME NEW e \in {"PlanningError", "ValidationError", "GraphRecursionError"}, Raise(e)
      PROVE  TypeOK'
  BY <1>r DEF Raise, TypeOK, Done, budgets, weather, history, checked
<1>1. CASE GatherAsks
  BY <1>1 DEF GatherAsks, At, Goto, TypeOK, Nodes, budgets, weather, checked, history, outcome
<1>1r. CASE GatherAsksMalformed
  BY <1>1r, <1>r DEF GatherAsksMalformed
<1>2. CASE GatherCalls
  <2> PICK asked \in Calls : \E kept \in Kept(asked) :
          /\ pending' = kept
          /\ callsMade' = callsMade + Size(kept)
          /\ openCalls' = openCalls + Size(kept)
          /\ warnings' = IF kept # asked THEN warnings \cup {"dropped"} ELSE warnings
    BY <1>2 DEF GatherCalls, Declare
  <2> PICK kept \in Kept(asked) :
          /\ pending' = kept
          /\ callsMade' = callsMade + Size(kept)
          /\ openCalls' = openCalls + Size(kept)
          /\ warnings' = IF kept # asked THEN warnings \cup {"dropped"} ELSE warnings
    OBVIOUS
  <2>1. kept \in Calls /\ Size(kept) \in Nat
    BY SizeType DEF Kept
  <2> QED
    BY <1>2, <2>1 DEF GatherCalls, At, Goto, TypeOK, Nodes, weather, checked, outcome
<1>3. CASE GatherAnswers
  BY <1>3 DEF GatherAnswers, At, Goto, TypeOK, Nodes, weather, checked, history, outcome
<1>4. CASE RunTools
  <2>1. Size(pending) \in Nat /\ openCalls = Size(pending)
    BY <1>4, SizeType DEF RunTools, At, TypeOK, BatchInv
  <2>2. records' \in Nat /\ openCalls' \in Nat
    BY <1>4, <2>1 DEF RunTools, TypeOK
  <2>3. lookups' \in [Trips -> {"none", "ok", "failed"}] /\ toolCache' \in [Trips -> {"none", "ok", "failed"}]
    <3> PICK found \in [pending.weather -> {"ok", "failed"}] :
          /\ lookups' = [t \in Trips |-> IF t \in pending.weather THEN found[t] ELSE lookups[t]]
          /\ toolCache' = [t \in Trips |-> IF t \in pending.weather THEN found[t] ELSE toolCache[t]]
      BY <1>4 DEF RunTools, Answers
    <3> QED BY DEF TypeOK
  <2>4. warnings' \subseteq {"dropped", "rounds_spent", "calls_spent", "no_itinerary"}
    BY <1>4 DEF RunTools, TypeOK
  <2>5. pc' \in Nodes /\ steps' \in Nat /\ clarification' \in {"none", "inputs", "weather", "limit"}
    BY <1>4 DEF RunTools, Goto, TypeOK, Nodes
  <2>6. /\ pending' = NoCalls
        /\ UNCHANGED <<budgets, lastTurn, itinerary, checked, emptyHeld, outcome, recomposes>>
    BY <1>4 DEF RunTools
  <2> QED
    BY <2>2, <2>3, <2>4, <2>5, <2>6 DEF TypeOK, budgets, checked, outcome
<1>5. CASE Parse
  <2>1. itinerary' \in Plan \cup {None}
    BY <1>5, ReadType DEF Parse, TypeOK
  <2> QED
    BY <1>5, <2>1 DEF Parse, At, Goto, TypeOK, Nodes, budgets, weather, checked, history, outcome
<1>7. CASE Emit
  <2> PICK reply \in Reply :
          \/ /\ reply.kind = "question"
             /\ clarification' = "inputs"
             /\ Goto("finish")
             /\ UNCHANGED <<itinerary, emitAttempts, emptyHeld>>
          \/ /\ reply.kind # "question"
             /\ itinerary' = Read(reply)
             /\ emptyHeld' = (emptyHeld \/ reply.kind = "empty")
             /\ emitAttempts' = emitAttempts + 1
             /\ Goto(AfterEmit(itinerary', emitAttempts'))
             /\ UNCHANGED clarification
    BY <1>7 DEF Emit
  <2>1. itinerary' \in Plan \cup {None}
    BY ReadType DEF TypeOK
  <2>2. emptyHeld' \in BOOLEAN
    BY DEF TypeOK
  <2>3. pc' \in Nodes /\ steps' \in Nat
    BY DEF Goto, AfterEmit, Nodes, TypeOK
  <2>4. emitAttempts' \in Nat /\ clarification' \in {"none", "inputs", "weather", "limit"}
    BY DEF TypeOK
  <2> QED
    BY <1>7, <2>1, <2>2, <2>3, <2>4 DEF Emit, TypeOK, weather, checked, outcome
<1>9. CASE WeatherLimit
  BY <1>9 DEF WeatherLimit, At, Goto, TypeOK, Nodes, budgets, weather, checked, history, outcome
<1>10. CASE EnsureWeather
  <2>0. itinerary \in Plan
    BY <1>10 DEF EnsureWeather, At, StageInv, TypeOK
  <2>1. /\ lookups' \in [Trips -> {"none", "ok", "failed"}]
        /\ records' \in Nat /\ callsMade' \in Nat
    BY <1>10 DEF EnsureWeather, LookupMade, LookupKnown, TypeOK
  <2>2. itinerary' \in Plan
    <3>1. CASE UNCHANGED itinerary BY <3>1, <2>0
    <3>2. CASE itinerary' = [itinerary EXCEPT !.notes = @ \cup WeatherNotes(itinerary.trip, lookups')]
      <4>1. WeatherNotes(itinerary.trip, lookups') \subseteq Notes
        BY DEF WeatherNotes, Notes
      <4> QED BY <3>2, <4>1, <2>0 DEF Plan
    <3> QED BY <1>10, <3>1, <3>2 DEF EnsureWeather
  <2>3. /\ pc' \in Nodes /\ steps' \in Nat /\ recomposes' \in Nat
        /\ clarification' \in {"none", "inputs", "weather", "limit"}
    BY <1>10 DEF EnsureWeather, Goto, Nodes, TypeOK
  <2> QED
    BY <1>10, <2>1, <2>2, <2>3 DEF EnsureWeather, TypeOK, checked, history, outcome
<1>11. CASE Validate
  <2>0. itinerary \in Plan
    BY <1>11 DEF Validate, At, StageInv, TypeOK
  <2>1. \E plan \in Plan, ok \in BOOLEAN : Judge(plan, ok)
    <3>1. \A plan \in Plan : Rewritten(plan) \subseteq Plan
      BY DEF Rewritten, Plan
    <3> QED BY <1>11, <2>0, <3>1 DEF Validate
  <2>2. /\ itinerary' \in Plan /\ routes' \in Plan /\ report' \in Report
        /\ pc' \in Nodes /\ steps' \in Nat
    BY <2>1 DEF Judge, Goto, Report, Nodes, TypeOK
  <2>3. hoursTried' \in BOOLEAN
    BY <1>11 DEF Validate, TypeOK
  <2> QED
    BY <1>11, <2>2, <2>3 DEF Validate, TypeOK, budgets, weather, history, outcome
<1>12. CASE Repair
  <2>0. itinerary \in Plan /\ repairsLeft > 0
    BY <1>12 DEF Repair, StageInv, TypeOK
  <2> PICK reply \in Reply :
          /\ emptyHeld' = (emptyHeld \/ reply.kind = "empty")
          /\ RepairAsks(reply) \/ RepairAccepted(reply) \/ FormatRetry(reply) \/ GiveUpFormat(reply)
    BY <1>12 DEF Repair
  <2>1. /\ itinerary' \in Plan /\ repairsLeft' \in Nat /\ formatsLeft' \in Nat
        /\ pc' \in Nodes /\ steps' \in Nat
        /\ clarification' \in {"none", "inputs", "weather", "limit"}
    <3>1. CASE RepairAsks(reply) BY <3>1, <2>0 DEF RepairAsks, Goto, Nodes, TypeOK
    <3>2. CASE RepairAccepted(reply)
      BY <3>2, <2>0, ReadType DEF RepairAccepted, AfterRepair, Goto, Nodes, TypeOK
    <3>3. CASE FormatRetry(reply) BY <3>3, <2>0 DEF FormatRetry, Nodes, TypeOK
    <3>4. CASE GiveUpFormat(reply)
      BY <3>4, <2>0 DEF GiveUpFormat, AfterRepair, Goto, Nodes, TypeOK
    <3> QED BY <3>1, <3>2, <3>3, <3>4
  <2>2. emptyHeld' \in BOOLEAN
    BY DEF TypeOK
  <2> QED
    BY <1>12, <2>1, <2>2 DEF Repair, TypeOK, weather, checked, outcome
<1>14. CASE Finish
  <2>1. result' \in Result
    BY <1>14 DEF Finish, At, StageInv, TypeOK, Result
  <2>2. warnings' \subseteq {"dropped", "rounds_spent", "calls_spent", "no_itinerary"}
    BY <1>14 DEF Finish, TypeOK
  <2> QED
    BY <1>14, <2>1, <2>2 DEF Finish, Goto, TypeOK, Done, budgets, weather, checked, history
<1>15. CASE FinishRejected
  BY <1>15, <1>r DEF FinishRejected
<1>16. CASE ModelFails
  BY <1>16, <1>r DEF ModelFails
<1>17. CASE OutOfSteps
  BY <1>17, <1>r DEF OutOfSteps
<1>18. CASE UNCHANGED vars
  BY <1>18 DEF vars, TypeOK, budgets, weather, checked, history, outcome
<1> QED
  BY <1>1, <1>1r, <1>2, <1>3, <1>4, <1>5, <1>7, <1>9, <1>10, <1>11, <1>12,
     <1>14, <1>15, <1>16, <1>17, <1>18 DEF Next, Over
-----------------------------------------------------------------------------
Errors == {"PlanningError", "ValidationError", "GraphRecursionError"}

(* A step that raises: it ends a run that was not over, and leaves the rest alone. *)
Raising == pc \notin Done /\ \E e \in Errors : Raise(e)

(* Every way out by an exception is such a step. *)
LEMMA RaiseShape ==
    ASSUME GatherAsksMalformed \/ FinishRejected \/ ModelFails \/ OutOfSteps
    PROVE  Raising
BY DEF GatherAsksMalformed, FinishRejected, ModelFails, OutOfSteps, At, ModelNodes, Done,
       Errors, Raising

(* The nodes, with the raising steps put together. *)
LEMMA NextCases ==
    ASSUME [Next]_vars
    PROVE  \/ GatherAsks \/ GatherCalls \/ GatherAnswers \/ RunTools \/ Parse \/ Emit
           \/ WeatherLimit \/ EnsureWeather \/ Validate \/ Repair \/ Finish
           \/ Raising
           \/ UNCHANGED vars
BY RaiseShape DEF Next, Over

(* The pending batch is what the history still owes replies to. *)
LEMMA BatchStep == TypeOK /\ BatchInv /\ [Next]_vars => BatchInv'
<1> SUFFICES ASSUME TypeOK, BatchInv, [Next]_vars PROVE BatchInv'
  OBVIOUS
<1>1. CASE GatherCalls
  <2>1. openCalls = 0
    BY <1>1 DEF GatherCalls, At, BatchInv
  <2>2. openCalls' = openCalls + Size(pending') /\ Size(pending') \in Nat
    BY <1>1, SizeType DEF GatherCalls, Declare, Kept
  <2> QED BY <1>1, <2>1, <2>2 DEF GatherCalls, Goto, BatchInv
<1>2. CASE RunTools
  <2>1. openCalls' = 0
    BY <1>2, SizeType DEF RunTools, At, BatchInv, TypeOK
  <2>2. pc' \in {"finish", "parse", "gather"} /\ pending' = NoCalls
    BY <1>2 DEF RunTools, Goto
  <2> QED BY <2>1, <2>2 DEF BatchInv
<1>3. CASE GatherAsks \/ GatherAnswers
  BY <1>3 DEF GatherAsks, GatherAnswers, At, Goto, BatchInv, history
<1>4. CASE Parse
  BY <1>4 DEF Parse, At, Goto, BatchInv, history
<1>5. CASE Emit
  BY <1>5 DEF Emit, AfterEmit, At, Goto, BatchInv
<1>6. CASE WeatherLimit \/ EnsureWeather
  BY <1>6 DEF WeatherLimit, EnsureWeather, At, Goto, BatchInv, history
<1>7. CASE Validate
  BY <1>7 DEF Validate, Judge, At, Goto, BatchInv, history
<1>8. CASE Repair
  BY <1>8 DEF Repair, RepairAsks, RepairAccepted, FormatRetry, GiveUpFormat, AfterRepair, Goto, BatchInv
<1>9. CASE Finish
  BY <1>9 DEF Finish, At, Goto, BatchInv, history
<1>10. CASE Raising
  BY <1>10 DEF Raising, Raise, BatchInv
<1>11. CASE UNCHANGED vars
  BY <1>11 DEF vars, BatchInv, history
<1> QED BY NextCases, <1>1, <1>2, <1>3, <1>4, <1>5, <1>6, <1>7, <1>8, <1>9, <1>10, <1>11

(* Every call of a kept batch and every mandatory lookup is paid for once. *)
LEMMA CallsStep == TypeOK /\ BatchInv /\ CallsAccounted /\ [Next]_vars => CallsAccounted'
<1> SUFFICES ASSUME TypeOK, BatchInv, CallsAccounted, [Next]_vars PROVE CallsAccounted'
  OBVIOUS
<1> USE SizeNoCalls, BudgetAssumption
<1>1. CASE GatherCalls
  <2>1. pending = NoCalls
    BY <1>1 DEF GatherCalls, At, BatchInv
  <2>2. records = callsMade
    BY <2>1 DEF CallsAccounted, TypeOK
  <2>3. callsMade' = callsMade + Size(pending') /\ callsMade' <= MaxToolCalls
    BY <1>1, KeptFits DEF GatherCalls, CallsAccounted
  <2> QED BY <1>1, <2>2, <2>3 DEF GatherCalls, CallsAccounted, weather
<1>2. CASE RunTools
  BY <1>2, SizeType DEF RunTools, CallsAccounted, TypeOK, budgets
<1>3. CASE GatherAsks \/ GatherAnswers
  BY <1>3 DEF GatherAsks, GatherAnswers, At, BatchInv, CallsAccounted, budgets, weather
<1>4. CASE EnsureWeather
  BY <1>4 DEF EnsureWeather, LookupMade, LookupKnown, At, BatchInv, CallsAccounted, TypeOK
<1>5. CASE Parse \/ Emit \/ WeatherLimit \/ Validate \/ Repair \/ Finish
  BY <1>5 DEF Parse, Emit, WeatherLimit, Validate, Repair, Finish, CallsAccounted, budgets, weather
<1>6. CASE Raising
  BY <1>6 DEF Raising, Raise, CallsAccounted, budgets, weather
<1>7. CASE UNCHANGED vars
  BY <1>7 DEF vars, CallsAccounted, budgets, weather
<1> QED BY NextCases, <1>1, <1>2, <1>3, <1>4, <1>5, <1>6, <1>7
-----------------------------------------------------------------------------
(* What each node may take for granted about the candidate it works on. *)
LEMMA StageStep == TypeOK /\ TypeOK' /\ StageInv /\ [Next]_vars => StageInv'
<1> SUFFICES ASSUME TypeOK, TypeOK', StageInv, [Next]_vars PROVE StageInv'
  OBVIOUS
<1> USE NoneNotPlan
<1>1. CASE GatherAsks \/ GatherCalls \/ GatherAnswers
  BY <1>1 DEF GatherAsks, GatherCalls, GatherAnswers, At, Goto, StageInv, outcome
<1>2. CASE RunTools
  <2>1. pc' \in {"finish", "parse", "gather"} /\ (pc' # "finish" => clarification' = "none")
    BY <1>2 DEF RunTools, Goto
  <2>2. pc' = "finish" => clarification' # "none"
    BY <1>2 DEF RunTools, Goto
  <2> QED BY <1>2, <2>1, <2>2 DEF RunTools, At, StageInv, outcome
<1>3. CASE Parse
  BY <1>3 DEF Parse, At, Goto, StageInv, outcome
<1>4. CASE Emit
  BY <1>4 DEF Emit, AfterEmit, At, Goto, StageInv, outcome
<1>5. CASE WeatherLimit
  BY <1>5 DEF WeatherLimit, At, Goto, StageInv, outcome
<1>6. CASE EnsureWeather
  <2>0. itinerary \in Plan /\ clarification = "none" /\ result = None /\ pc = "weather"
    BY <1>6 DEF EnsureWeather, At, StageInv, TypeOK
  <2>1. lookups'[itinerary.trip] # "none"
    BY <1>6, <2>0 DEF EnsureWeather, LookupMade, LookupKnown, TypeOK, Plan
  <2>2. CASE WeatherQuestion(lookups')
    BY <1>6, <2>0, <2>2 DEF EnsureWeather, Goto, StageInv, outcome
  <2>3. CASE ~ WeatherQuestion(lookups')
    <3>1. /\ itinerary' = [itinerary EXCEPT !.notes = @ \cup WeatherNotes(itinerary.trip, lookups')]
          /\ pc' \in {"gather", "validate"} /\ clarification' = "none"
      BY <1>6, <2>0, <2>3 DEF EnsureWeather, Goto
    <3>2. /\ itinerary'.trip = itinerary.trip /\ itinerary' # None
          /\ WeatherNotes(itinerary'.trip, lookups') \subseteq itinerary'.notes
      BY <3>1, <2>0 DEF Plan, None
    <3>3. Honest(itinerary)'
      BY <2>1, <2>3, <3>2 DEF Honest, WeatherNotes, WeatherQuestion, Uncovered
    <3> QED BY <1>6, <2>0, <3>1, <3>2, <3>3 DEF EnsureWeather, StageInv, outcome
  <2> QED BY <2>2, <2>3
<1>7. CASE Validate
  <2>0. /\ itinerary \in Plan /\ Honest(itinerary) /\ clarification = "none" /\ result = None
        /\ lookups' = lookups /\ clarification' = clarification /\ result' = result
        /\ repairsLeft' = repairsLeft
    BY <1>7 DEF Validate, At, StageInv, TypeOK, weather, outcome, budgets
  <2>1. \E plan \in Plan, ok \in BOOLEAN :
           /\ plan.trip = itinerary.trip /\ plan.notes = itinerary.notes
           /\ Judge(plan, ok)
    <3>1. \A plan \in Plan : \A q \in Rewritten(plan) :
             q \in Plan /\ q.trip = plan.trip /\ q.notes = plan.notes
      BY DEF Rewritten, Plan
    <3> QED BY <1>7, <2>0, <3>1 DEF Validate
  <2> PICK plan \in Plan, ok \in BOOLEAN :
           /\ plan.trip = itinerary.trip /\ plan.notes = itinerary.notes
           /\ Judge(plan, ok)
    BY <2>1
  <2>2. Honest(itinerary)'
    BY <2>0 DEF Judge, Honest, WeatherNotes, WeatherQuestion, Uncovered
  <2>3. /\ itinerary' = plan /\ routes' = plan /\ report'.of = plan /\ report'.ok = ok
        /\ report' # None /\ itinerary' # None
        /\ pc' = (IF ok \/ repairsLeft <= 0 THEN "finish" ELSE "repair")
    BY DEF Judge, Goto, None
  <2> QED BY <2>0, <2>2, <2>3 DEF StageInv, TypeOK
<1>8. CASE Repair
  <2>0. /\ itinerary \in Plan /\ Honest(itinerary) /\ clarification = "none" /\ result = None
        /\ repairsLeft > 0 /\ lookups' = lookups /\ result' = result
    BY <1>8 DEF Repair, StageInv, TypeOK, weather, outcome
  <2> PICK reply \in Reply :
          RepairAsks(reply) \/ RepairAccepted(reply) \/ FormatRetry(reply) \/ GiveUpFormat(reply)
    BY <1>8 DEF Repair
  <2>1. CASE RepairAsks(reply)
    BY <2>0, <2>1 DEF RepairAsks, Goto, StageInv
  <2>2. CASE RepairAccepted(reply)
    BY <2>0, <2>2, ReadType DEF RepairAccepted, AfterRepair, Goto, StageInv
  <2>3. CASE FormatRetry(reply)
    <3>1. Honest(itinerary)'
      BY <2>0, <2>3 DEF FormatRetry, Honest, WeatherNotes, WeatherQuestion, Uncovered
    <3> QED BY <2>0, <2>3, <3>1 DEF FormatRetry, StageInv
  <2>4. CASE GiveUpFormat(reply)
    BY <2>0, <2>4 DEF GiveUpFormat, AfterRepair, Goto, StageInv
  <2> QED BY <2>1, <2>2, <2>3, <2>4
<1>9. CASE Finish
  BY <1>9 DEF Finish, Goto, StageInv
<1>10. CASE Raising
  BY <1>10 DEF Raising, Raise, Done, StageInv
<1>11. CASE UNCHANGED vars
  BY <1>11 DEF vars, StageInv, Honest, WeatherNotes, WeatherQuestion, Uncovered, weather, budgets, checked, outcome
<1> QED BY NextCases, <1>1, <1>2, <1>3, <1>4, <1>5, <1>6, <1>7, <1>8, <1>9, <1>10, <1>11
-----------------------------------------------------------------------------
(* Only finish makes a result, and it makes a plan from a judged, honest one. *)
LEMMA ShipStep ==
    /\ TypeOK /\ StageInv /\ ShippedIsJudged /\ ShippedWeatherHonest /\ [Next]_vars
    => (ShippedIsJudged /\ ShippedWeatherHonest)'
<1> SUFFICES ASSUME TypeOK, StageInv, ShippedIsJudged, ShippedWeatherHonest, [Next]_vars
             PROVE  ShippedIsJudged' /\ ShippedWeatherHonest'
  OBVIOUS
<1>0. ASSUME result' = None PROVE ShippedIsJudged' /\ ShippedWeatherHonest'
  BY <1>0 DEF None, ShippedIsJudged, ShippedWeatherHonest
<1>1. CASE Finish
  <2>1. CASE result'.kind = "plan"
    <3>1. clarification = "none" /\ itinerary # None /\ pc = "finish"
      BY <1>1, <2>1 DEF Finish, At
    <3>2. result' = [kind |-> "plan", itinerary |-> itinerary, report |-> report, routes |-> routes]
      BY <1>1, <3>1 DEF Finish
    <3>3. UNCHANGED <<lookups, repairsLeft>>
      BY <1>1 DEF Finish, budgets, weather
    <3>4. /\ Honest(itinerary) /\ report.of = itinerary /\ routes = itinerary
          /\ report.ok \/ repairsLeft = 0
      BY <3>1 DEF StageInv
    <3> QED
      BY <3>2, <3>3, <3>4 DEF ShippedIsJudged, ShippedWeatherHonest, Honest, WeatherNotes,
                              WeatherQuestion, Uncovered
  <2> QED BY <2>1 DEF ShippedIsJudged, ShippedWeatherHonest
<1>2. CASE UNCHANGED vars
  BY <1>2 DEF vars, weather, budgets, outcome, ShippedIsJudged, ShippedWeatherHonest,
              WeatherNotes, WeatherQuestion, Uncovered
<1>3. CASE \/ GatherAsks \/ GatherCalls \/ GatherAnswers \/ RunTools \/ Parse \/ Emit
           \/ WeatherLimit \/ EnsureWeather \/ Validate \/ Repair \/ Raising
  <2>1. pc # "end" /\ result' = result
    BY <1>3 DEF GatherAsks, GatherCalls, GatherAnswers, RunTools, Parse, Emit, WeatherLimit,
                EnsureWeather, Validate, Repair, Raising, Raise, At, Done, outcome
  <2> QED BY <2>1, <1>0 DEF StageInv
<1> QED BY NextCases, <1>1, <1>2, <1>3
-----------------------------------------------------------------------------
Emits == Max2(0, MaxEmitAttempts - emitAttempts)
Ahead == 2 * Max2(0, roundsLeft) + 3 * repairsLeft

(* What is left to do, node by node. *)
NodeCosts ==
    /\ pc = "gather" =>
          StepsToGo = 2 * Max2(1, roundsLeft) + Max2(1, Emits) + 3 * repairsLeft + 4
    /\ pc = "run_tools" => StepsToGo = Ahead + Max2(1, Emits) + 5
    /\ pc = "parse" => StepsToGo = Ahead + Max2(1, Emits) + 4
    /\ pc = "emit" => StepsToGo = Ahead + Max2(1, Emits) + 3
    /\ pc = "weather" => StepsToGo = Ahead + Emits + 3
    /\ pc = "validate" => StepsToGo = Ahead + Emits + 2
    /\ pc \in {"repair", "repair_retry"} => StepsToGo = Ahead + Emits + 1
    /\ pc = "finish" => StepsToGo = 1
    /\ pc \in Done => StepsToGo = 0

(* StepsToGo is that table. *)
LEMMA ToGo == TypeOK => NodeCosts
<1> SUFFICES ASSUME TypeOK PROVE NodeCosts
  OBVIOUS
<1>1. /\ Emits \in Int /\ Ahead \in Int /\ Max2(1, Emits) \in Int
      /\ Max2(1, roundsLeft) \in Int /\ repairsLeft \in Int
  BY BudgetAssumption DEF TypeOK, Emits, Ahead, Max2
<1>2. StepsToGo =
        CASE pc = "gather" -> 2 * Max2(1, roundsLeft) + Max2(1, Emits) + 3 * repairsLeft + 4
          [] pc = "run_tools" -> 2 * Max2(0, roundsLeft) + Max2(1, Emits) + 3 * repairsLeft + 5
          [] pc = "parse" -> 2 * Max2(0, roundsLeft) + Max2(1, Emits) + 3 * repairsLeft + 4
          [] pc = "emit" -> 2 * Max2(0, roundsLeft) + Max2(1, Emits) + 3 * repairsLeft + 3
          [] pc = "weather" -> 2 * Max2(0, roundsLeft) + Emits + 3 * repairsLeft + 3
          [] pc = "validate" -> 2 * Max2(0, roundsLeft) + Emits + 3 * repairsLeft + 2
          [] pc \in {"repair", "repair_retry"} ->
                2 * Max2(0, roundsLeft) + Emits + 3 * repairsLeft + 1
          [] pc = "finish" -> 1
          [] OTHER -> 0
  BY DEF StepsToGo, Emits
<1> QED BY <1>1, <1>2 DEF NodeCosts, Ahead, Max2, Done, TypeOK

ToGoInt == StepsToGo \in Int

(* The work left is a number. *)
LEMMA ToGoType == TypeOK => ToGoInt
<1> SUFFICES ASSUME TypeOK PROVE StepsToGo \in Int
  BY DEF ToGoInt
<1>1. /\ Emits \in Int /\ Ahead \in Int /\ Max2(1, Emits) \in Int
      /\ 2 * Max2(1, roundsLeft) + Max2(1, Emits) + 3 * repairsLeft + 4 \in Int
  BY BudgetAssumption DEF TypeOK, Emits, Ahead, Max2
<1>2. pc \in Nodes \cup Done
  BY DEF TypeOK
<1>3. NodeCosts
  BY ToGo
<1> QED BY <1>1, <1>2, <1>3 DEF NodeCosts, Nodes, Done

(* Taking one off the work left pays for one node. *)
LEMMA Payment ==
    \A s, left, left2 \in Int :
        /\ left2 + 1 <= left => s + 1 + left2 <= s + left
        /\ left2 <= left => s + left2 <= s + left
        /\ left2 <= left + 4 => s + 1 + left2 <= s + left + 5
OBVIOUS

(* A node that looks nothing new up, and a lookup that recomposes the plan. *)
Paid == /\ recomposes' = recomposes /\ records <= records'
        /\ steps' + StepsToGo' <= steps + StepsToGo
Recomposed == /\ recomposes' = recomposes + 1 /\ records' = records + 1
              /\ steps' + StepsToGo' <= steps + StepsToGo + 5

(* A node is paid for by what it takes off the work left; the only one     *)
(* that adds work is a recomposition, which adds at most five nodes.       *)
LEMMA StepsPaid ==
    ASSUME TypeOK, TypeOK', StageInv, [Next]_vars
    PROVE  Paid \/ Recomposed
<1>n. NodeCosts /\ NodeCosts'
  BY ToGo, PTL
<1> USE BudgetAssumption
<1>t. /\ steps \in Nat /\ roundsLeft \in Int /\ emitAttempts \in Nat /\ repairsLeft \in Nat
      /\ records \in Nat /\ steps' \in Nat /\ roundsLeft' \in Int
      /\ emitAttempts' \in Nat /\ repairsLeft' \in Nat /\ records' \in Nat
  BY DEF TypeOK
<1>k. StepsToGo \in Int /\ StepsToGo' \in Int
  <2>1. ToGoInt /\ ToGoInt'
    BY ToGoType, PTL
  <2> QED BY <2>1 DEF ToGoInt
<1>s. steps \in Int
  BY <1>t
<1>p. ASSUME steps' = steps + 1, StepsToGo' + 1 <= StepsToGo
      PROVE  steps' + StepsToGo' <= steps + StepsToGo
  <2>1. steps + 1 + StepsToGo' <= steps + StepsToGo
    BY <1>k, <1>s, <1>p, Payment
  <2> QED BY <2>1, <1>p
<1>q. ASSUME steps' = steps, StepsToGo' <= StepsToGo
      PROVE  steps' + StepsToGo' <= steps + StepsToGo
  <2>1. steps + StepsToGo' <= steps + StepsToGo
    BY <1>k, <1>s, <1>q, Payment
  <2> QED BY <2>1, <1>q
<1>r. ASSUME steps' = steps + 1, StepsToGo' <= StepsToGo + 4
      PROVE  steps' + StepsToGo' <= steps + StepsToGo + 5
  <2>1. steps + 1 + StepsToGo' <= steps + StepsToGo + 5
    BY <1>k, <1>s, <1>r, Payment
  <2> QED BY <2>1, <1>r
<1>1. CASE GatherAsks \/ GatherCalls \/ GatherAnswers
  <2>1. /\ pc = "gather" /\ steps' = steps + 1 /\ recomposes' = recomposes /\ records' = records
        /\ emitAttempts' = emitAttempts /\ repairsLeft' = repairsLeft
        /\ \/ pc' = "finish" /\ roundsLeft' = roundsLeft
           \/ pc' \in {"run_tools", "parse"} /\ roundsLeft' = roundsLeft - 1
    BY <1>1 DEF GatherAsks, GatherCalls, GatherAnswers, At, Goto, budgets, weather
  <2>2. StepsToGo' + 1 <= StepsToGo
    BY <1>t, <1>n, <2>1 DEF NodeCosts, Emits, Ahead, Max2
  <2> QED BY <1>t, <1>p, <2>1, <2>2 DEF Paid
<1>2. CASE RunTools
  <2>1. /\ pc = "run_tools" /\ steps' = steps + 1 /\ recomposes' = recomposes
        /\ emitAttempts' = emitAttempts /\ repairsLeft' = repairsLeft
        /\ roundsLeft' = roundsLeft
        /\ pc' \in {"finish", "parse"} \/ (pc' = "gather" /\ roundsLeft > 0)
    BY <1>2, <1>t DEF RunTools, At, Goto, budgets, BudgetSpent
  <2>2. records' = records + Size(pending) /\ Size(pending) \in Nat
    BY <1>2, SizeType DEF RunTools, TypeOK
  <2>3. StepsToGo' + 1 <= StepsToGo
    BY <1>t, <1>n, <2>1 DEF NodeCosts, Emits, Ahead, Max2
  <2> QED BY <1>t, <1>p, <2>1, <2>2, <2>3 DEF Paid
<1>3. CASE Parse
  <2>1. /\ pc = "parse" /\ steps' = steps + 1 /\ recomposes' = recomposes /\ records' = records
        /\ emitAttempts' = emitAttempts /\ repairsLeft' = repairsLeft
        /\ roundsLeft' = roundsLeft /\ pc' \in {"finish", "weather", "emit"}
    BY <1>3 DEF Parse, At, Goto, budgets, weather
  <2>2. StepsToGo' + 1 <= StepsToGo
    BY <1>t, <1>n, <2>1 DEF NodeCosts, Emits, Ahead, Max2
  <2> QED BY <1>t, <1>p, <2>1, <2>2 DEF Paid
<1>4. CASE Emit
  <2>1. /\ pc = "emit" /\ steps' = steps + 1 /\ recomposes' = recomposes /\ records' = records
        /\ repairsLeft' = repairsLeft /\ roundsLeft' = roundsLeft
    BY <1>4 DEF Emit, At, Goto, weather
  <2>2. \/ pc' = "finish"
        \/ emitAttempts' = emitAttempts + 1 /\ pc' = "weather"
        \/ emitAttempts' = emitAttempts + 1 /\ pc' = "emit" /\ emitAttempts' < MaxEmitAttempts
    BY <1>4, <1>t DEF Emit, At, Goto, AfterEmit
  <2>3. StepsToGo = Ahead + Max2(1, Emits) + 3 /\ Ahead' = Ahead /\ Ahead \in Nat
    BY <1>t, <1>n, <2>1 DEF NodeCosts, Ahead, Max2
  <2>4. CASE pc' = "finish"
    <3>1. StepsToGo' + 1 <= StepsToGo
      BY <1>t, <1>n, <2>3, <2>4 DEF NodeCosts, Max2, Emits
    <3> QED BY <1>t, <1>p, <2>1, <3>1 DEF Paid
  <2>5. CASE emitAttempts' = emitAttempts + 1 /\ pc' = "weather"
    <3>1. StepsToGo' + 1 <= StepsToGo
      BY <1>t, <1>n, <2>3, <2>5 DEF NodeCosts, Max2, Emits
    <3> QED BY <1>t, <1>p, <2>1, <3>1 DEF Paid
  <2>6. CASE emitAttempts' = emitAttempts + 1 /\ pc' = "emit" /\ emitAttempts' < MaxEmitAttempts
    <3>1. StepsToGo' + 1 <= StepsToGo
      BY <1>t, <1>n, <2>3, <2>6 DEF NodeCosts, Max2, Emits
    <3> QED BY <1>t, <1>p, <2>1, <3>1 DEF Paid
  <2> QED BY <2>2, <2>4, <2>5, <2>6
<1>5. CASE WeatherLimit
  <2>1. /\ pc = "weather" /\ steps' = steps + 1 /\ recomposes' = recomposes /\ records' = records
        /\ pc' = "finish"
    BY <1>5 DEF WeatherLimit, At, Goto, weather
  <2>2. StepsToGo' + 1 <= StepsToGo
    BY <1>t, <1>n, <2>1 DEF NodeCosts, Emits, Ahead, Max2
  <2> QED BY <1>t, <1>p, <2>1, <2>2 DEF Paid
<1>6. CASE EnsureWeather
  <2>1. /\ pc = "weather" /\ steps' = steps + 1
        /\ emitAttempts' = emitAttempts /\ repairsLeft' = repairsLeft
        /\ roundsLeft' = roundsLeft
        /\ \/ pc' \in {"finish", "validate"} /\ recomposes' = recomposes
           \/ pc' = "gather" /\ recomposes' = recomposes + 1 /\ records' = records + 1
        /\ records' = records + 1 \/ records' = records
    BY <1>6 DEF EnsureWeather, LookupMade, LookupKnown, At, Goto
  <2>2. CASE pc' \in {"finish", "validate"} /\ recomposes' = recomposes
    <3>1. StepsToGo' + 1 <= StepsToGo
      BY <1>t, <1>n, <2>1, <2>2 DEF NodeCosts, Emits, Ahead, Max2
    <3> QED BY <1>t, <1>p, <2>1, <2>2, <3>1 DEF Paid
  <2>3. CASE pc' = "gather" /\ recomposes' = recomposes + 1 /\ records' = records + 1
    <3>1. StepsToGo' <= StepsToGo + 4
      BY <1>t, <1>n, <2>1, <2>3 DEF NodeCosts, Emits, Ahead, Max2
    <3> QED BY <1>r, <2>1, <2>3, <3>1 DEF Recomposed
  <2> QED BY <2>1, <2>2, <2>3
<1>7. CASE Validate
  <2>1. /\ pc = "validate" /\ steps' = steps + 1 /\ recomposes' = recomposes /\ records' = records
        /\ emitAttempts' = emitAttempts /\ repairsLeft' = repairsLeft
        /\ roundsLeft' = roundsLeft /\ pc' \in {"finish", "repair"}
    BY <1>7 DEF Validate, Judge, At, Goto, budgets, weather
  <2>2. StepsToGo' + 1 <= StepsToGo
    BY <1>t, <1>n, <2>1 DEF NodeCosts, Emits, Ahead, Max2
  <2> QED BY <1>t, <1>p, <2>1, <2>2 DEF Paid
<1>8. CASE Repair
  <2>1. /\ pc \in {"repair", "repair_retry"} /\ recomposes' = recomposes /\ records' = records
        /\ emitAttempts' = emitAttempts /\ roundsLeft' = roundsLeft /\ repairsLeft > 0
    BY <1>8 DEF Repair, StageInv, weather
  <2>2. \/ pc' = "finish" /\ steps' = steps + 1
        \/ pc' = "repair_retry" /\ steps' = steps /\ repairsLeft' = repairsLeft
        \/ pc' = "weather" /\ steps' = steps + 1 /\ repairsLeft' <= repairsLeft - 1
    BY <1>8, <2>1, <1>t DEF Repair, RepairAsks, RepairAccepted, FormatRetry, GiveUpFormat,
                            AfterRepair, Goto
  <2>3. CASE pc' = "finish" /\ steps' = steps + 1
    <3>1. StepsToGo' + 1 <= StepsToGo
      BY <1>t, <1>n, <2>1, <2>3 DEF NodeCosts, Emits, Ahead, Max2
    <3> QED BY <1>t, <1>p, <2>1, <2>3, <3>1 DEF Paid
  <2>4. CASE pc' = "repair_retry" /\ steps' = steps /\ repairsLeft' = repairsLeft
    <3>1. StepsToGo' <= StepsToGo
      BY <1>t, <1>n, <2>1, <2>4 DEF NodeCosts, Emits, Ahead, Max2
    <3> QED BY <1>t, <1>q, <2>1, <2>4, <3>1 DEF Paid
  <2>5. CASE pc' = "weather" /\ steps' = steps + 1 /\ repairsLeft' <= repairsLeft - 1
    <3>1. StepsToGo' + 1 <= StepsToGo
      BY <1>t, <1>n, <2>1, <2>5 DEF NodeCosts, Emits, Ahead, Max2
    <3> QED BY <1>t, <1>p, <2>1, <2>5, <3>1 DEF Paid
  <2> QED BY <2>2, <2>3, <2>4, <2>5
<1>9. CASE Finish
  <2>1. /\ pc = "finish" /\ steps' = steps + 1 /\ recomposes' = recomposes /\ records' = records
        /\ pc' \in Done
    BY <1>9 DEF Finish, At, Goto, weather, Done
  <2>2. StepsToGo' = 0 /\ StepsToGo = 1
    BY <1>n, <2>1 DEF NodeCosts
  <2> QED BY <1>t, <2>1, <2>2 DEF Paid
<1>10. CASE Raising
  <2>1. /\ pc' \in Done /\ steps' = steps /\ recomposes' = recomposes /\ records' = records
        /\ pc \in Nodes
    BY <1>10 DEF Raising, Raise, weather, Done, TypeOK
  <2>2. 0 <= StepsToGo
    BY <1>t, <1>n, <2>1 DEF NodeCosts, Emits, Ahead, Max2, Nodes
  <2>3. StepsToGo' = 0
    BY <1>n, <2>1 DEF NodeCosts
  <2> QED BY <1>t, <1>q, <2>1, <2>2, <2>3 DEF Paid
<1>11. CASE UNCHANGED vars
  <2>1. /\ pc' = pc /\ steps' = steps /\ recomposes' = recomposes /\ records' = records
        /\ emitAttempts' = emitAttempts /\ repairsLeft' = repairsLeft
        /\ roundsLeft' = roundsLeft
    BY <1>11 DEF vars, budgets, weather
  <2>2. StepsToGo' = StepsToGo
    BY <2>1 DEF StepsToGo
  <2>3. StepsToGo' <= StepsToGo
    BY <1>k, <2>2
  <2> QED BY <1>t, <1>q, <2>1, <2>3 DEF Paid
<1> QED BY NextCases, <1>1, <1>2, <1>3, <1>4, <1>5, <1>6, <1>7, <1>8, <1>9, <1>10, <1>11

(* Both kinds of step stay inside the bound. *)
LEMMA Slack ==
    \A now, next, budget, r \in Int :
        now <= budget + 5 * r =>
            /\ next <= now => next <= budget + 5 * r
            /\ next <= now + 5 => next <= budget + 5 * (r + 1)
OBVIOUS

(* The node count never outgrows the budgets and the recompositions. *)
LEMMA StepsStep == TypeOK /\ TypeOK' /\ StageInv /\ StepsAccounted /\ [Next]_vars => StepsAccounted'
<1> SUFFICES ASSUME TypeOK, TypeOK', StageInv, StepsAccounted, [Next]_vars PROVE StepsAccounted'
  OBVIOUS
<1> DEFINE Budget == 2 * Max2(1, Rounds) + Max2(1, MaxEmitAttempts) + 3 * MaxConstraintRepairs + 4
<1> DEFINE Now == steps + StepsToGo
<1> DEFINE Then == steps' + StepsToGo'
<1>1. Now <= Budget + 5 * recomposes /\ recomposes <= records
  BY DEF StepsAccounted
<1>2. Now \in Int /\ Then \in Int
  <2>1. ToGoInt /\ ToGoInt'
    BY ToGoType, PTL
  <2> QED BY <2>1 DEF TypeOK, ToGoInt
<1>3. Budget \in Int /\ recomposes \in Nat /\ records \in Nat /\ records' \in Nat
  BY BudgetAssumption DEF Max2, TypeOK
<1>4. Then <= Budget + 5 * recomposes' /\ recomposes' <= records'
  <2>1. CASE Paid
    <3>1. Then <= Now /\ recomposes' = recomposes /\ records <= records'
      BY <2>1 DEF Paid
    <3> HIDE DEF Budget, Now, Then
    <3>2. Then <= Budget + 5 * recomposes
      BY <1>1, <1>2, <1>3, <3>1, Slack
    <3>3. recomposes <= records'
      BY <1>1, <1>3, <3>1
    <3> QED BY <3>1, <3>2, <3>3
  <2>2. CASE Recomposed
    <3>1. Then <= Now + 5 /\ recomposes' = recomposes + 1 /\ records' = records + 1
      BY <2>2 DEF Recomposed
    <3> HIDE DEF Budget, Now, Then
    <3>2. Then <= Budget + 5 * (recomposes + 1)
      BY <1>1, <1>2, <1>3, <3>1, Slack
    <3>3. recomposes + 1 <= records + 1
      BY <1>1, <1>3
    <3> QED BY <3>1, <3>2, <3>3
  <2> QED BY StepsPaid, <2>1, <2>2
<1> QED BY <1>4 DEF StepsAccounted
-----------------------------------------------------------------------------
(* A run starts with nothing asked, nothing known and nothing shipped. *)
LEMMA InvInit == Init => IInv
<1> SUFFICES ASSUME Init PROVE IInv
  OBVIOUS
<1>1. BatchInv /\ CallsAccounted
  BY SizeNoCalls, BudgetAssumption DEF Init, BatchInv, CallsAccounted
<1>2. StageInv /\ ShippedIsJudged /\ ShippedWeatherHonest
  BY DEF Init, StageInv, ShippedIsJudged, ShippedWeatherHonest, None
<1>3. StepsAccounted
  <2>1. StepsToGo = 2 * Max2(1, Rounds) + Max2(1, Max2(0, MaxEmitAttempts))
                      + 3 * MaxConstraintRepairs + 4
    BY BudgetAssumption, TypeInit, ToGo DEF Init, NodeCosts, Emits
  <2> QED BY <2>1, BudgetAssumption DEF Init, StepsAccounted, Max2
<1> QED BY TypeInit, <1>1, <1>2, <1>3 DEF IInv

(* The inductive invariant of a planning run. *)
THEOREM Invariant == Spec => []IInv
<1>1. IInv /\ [Next]_vars => IInv'
  BY TypeStep, BatchStep, CallsStep, StageStep, ShipStep, StepsStep DEF IInv
<1> QED BY InvInit, <1>1, PTL DEF Spec

(* No node ever puts a variable outside its type. *)
THEOREM TypeSafe == Spec => []TypeOK
<1>1. IInv => TypeOK
  BY DEF IInv
<1> QED BY Invariant, <1>1, PTL

(* No run exceeds its call budget, every paid call is recorded, and the    *)
(* model is never shown a history with an unanswered call.                 *)
THEOREM CallsSafe == Spec => []CallsBalanced
<1>1. IInv => CallsAccounted BY DEF IInv
<1>2. IInv => EveryCallAnswered BY DEF IInv, BatchInv, EveryCallAnswered, ModelNodes
<1>3. IInv => CallsBalanced BY <1>1, <1>2 DEF CallsBalanced
<1> QED BY Invariant, <1>3, PTL

(* What ships is what was judged and measured. *)
THEOREM JudgedSafe == Spec => []ShippedIsJudged
<1>1. IInv => ShippedIsJudged
  BY DEF IInv
<1> QED BY Invariant, <1>1, PTL

(* What ships had its own weather looked up, and owns up to its gaps. *)
THEOREM WeatherSafe == Spec => []ShippedWeatherHonest
<1>1. IInv => ShippedWeatherHonest
  BY DEF IInv
<1> QED BY Invariant, <1>1, PTL

(* The budgets bound the nodes a run completes. *)
THEOREM StepsSafe == Spec => []StepsAccounted
<1>1. IInv => StepsAccounted
  BY DEF IInv
<1> QED BY Invariant, <1>1, PTL

(* With the repository's budgets (two attempts, three repairs, any rounds)   *)
(* the graph's step limit is only met by a run recomposed more than once.  *)
THEOREM LimitSafe ==
    ASSUME MaxEmitAttempts > 0, MaxConstraintRepairs < MaxEmitAttempts + 2
    PROVE  Spec => []LimitSuffices
<1>1. Init => LimitSuffices
  BY DEF Init, LimitSuffices
<1>2. IInv /\ IInv' /\ LimitSuffices /\ [Next]_vars => LimitSuffices'
  <2> SUFFICES ASSUME IInv, IInv', LimitSuffices, [Next]_vars, recomposes' <= 1,
                      failure' = "GraphRecursionError"
               PROVE  FALSE
    BY DEF LimitSuffices
  <2>1. recomposes \in Nat /\ recomposes' \in Nat
    BY DEF IInv, TypeOK
  <2>2. recomposes <= 1
    <3>1. recomposes' = recomposes \/ recomposes' = recomposes + 1
      BY StepsPaid DEF IInv, Paid, Recomposed
    <3> QED BY <2>1, <3>1
  <2>3. failure # "GraphRecursionError"
    BY <2>2 DEF LimitSuffices
  <2>4. OutOfSteps
    BY <2>3 DEF Next, vars, outcome, Over, GatherAsks, GatherAsksMalformed, GatherCalls, GatherAnswers,
                RunTools, Parse, Emit, WeatherLimit, EnsureWeather, Validate, Repair, Finish,
                FinishRejected, ModelFails, Raise
  <2>5. pc \in Nodes /\ steps >= StepLimit
    BY <2>4 DEF OutOfSteps, IInv, TypeOK
  <2>6. StepsToGo >= 1
    <3>1. NodeCosts
      BY ToGo DEF IInv
    <3> QED BY <2>5, <3>1, BudgetAssumption
            DEF NodeCosts, Nodes, Emits, Ahead, Max2, IInv, TypeOK
  <2>7. steps + StepsToGo <= 2 * Max2(1, Rounds) + Max2(1, MaxEmitAttempts)
                              + 3 * MaxConstraintRepairs + 4 + 5 * recomposes
    BY DEF IInv, StepsAccounted
  <2>8. StepsToGo \in Int /\ steps \in Int
    BY ToGoType DEF ToGoInt, IInv, TypeOK
  <2>9. 2 * (Rounds + MaxEmitAttempts + MaxConstraintRepairs) + 12 + 1
            <= 2 * Max2(1, Rounds) + Max2(1, MaxEmitAttempts) + 3 * MaxConstraintRepairs + 4 + 5
    BY <2>1, <2>2, <2>5, <2>6, <2>7, <2>8, BudgetAssumption DEF StepLimit, Max2
  <2> QED BY <2>9, BudgetAssumption DEF Max2
<1> QED BY Invariant, <1>1, <1>2, PTL DEF Spec

(* No turn of the repair loop loses the plan it repairs. *)
THEOREM RepairSafe == Spec => RepairKeepsPlan
<1>1. IInv /\ [Next]_vars =>
         [(pc \in {"repair", "repair_retry"}) =>
             itinerary' # None /\ (itinerary' # itinerary => repairsLeft' < repairsLeft)]_vars
  <2> SUFFICES ASSUME IInv, [Next]_vars, pc \in {"repair", "repair_retry"}
               PROVE  \/ itinerary' # None /\ (itinerary' # itinerary => repairsLeft' < repairsLeft)
                      \/ UNCHANGED vars
    OBVIOUS
  <2>1. itinerary # None /\ repairsLeft \in Nat
    BY DEF IInv, StageInv, TypeOK
  <2>2. CASE Repair
    <3> PICK reply \in Reply :
          RepairAsks(reply) \/ RepairAccepted(reply) \/ FormatRetry(reply) \/ GiveUpFormat(reply)
      BY <2>2 DEF Repair
    <3>1. CASE RepairAccepted(reply)
      BY <2>1, <3>1, ReadType DEF RepairAccepted
    <3>2. CASE RepairAsks(reply) \/ FormatRetry(reply) \/ GiveUpFormat(reply)
      BY <2>1, <3>2 DEF RepairAsks, FormatRetry, GiveUpFormat
    <3> QED BY <3>1, <3>2
  <2>3. CASE Raising
    BY <2>1, <2>3 DEF Raising, Raise
  <2> QED
    BY <2>2, <2>3, NextCases DEF GatherAsks, GatherCalls, GatherAnswers, RunTools, Parse, Emit,
                                 WeatherLimit, EnsureWeather, Validate, Finish, At
<1> QED BY Invariant, <1>1, PTL DEF Spec, RepairKeepsPlan

(* A key of the run's cache keeps its answer to the end of the run. *)
THEOREM CacheSafe == Spec => CacheStable
<1>1. IInv /\ [Next]_vars =>
         [\A t \in Trips : toolCache[t] # "none" => toolCache'[t] = toolCache[t]]_vars
  <2> SUFFICES ASSUME IInv, [Next]_vars, NEW t \in Trips, toolCache[t] # "none"
               PROVE  toolCache'[t] = toolCache[t]
    OBVIOUS
  <2>1. CASE RunTools
    <3> PICK found \in Answers :
          toolCache' = [u \in Trips |-> IF u \in pending.weather THEN found[u] ELSE toolCache[u]]
      BY <2>1 DEF RunTools
    <3> QED BY DEF Answers
  <2>2. CASE \/ GatherAsks \/ GatherCalls \/ GatherAnswers \/ Parse \/ Emit
             \/ WeatherLimit \/ EnsureWeather \/ Validate \/ Repair \/ Finish \/ Raising
    BY <2>2 DEF GatherAsks, GatherCalls, GatherAnswers, Parse, Emit, WeatherLimit, EnsureWeather,
                Validate, Repair, Finish, Raising, Raise, weather
  <2>3. CASE UNCHANGED vars
    BY <2>3 DEF vars, weather
  <2> QED BY <2>1, <2>2, <2>3, NextCases
<1> QED BY Invariant, <1>1, PTL DEF Spec, CacheStable
=============================================================================

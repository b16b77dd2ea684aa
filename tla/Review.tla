-------------------------------- MODULE Review --------------------------------
(***************************************************************************)
(* What becomes of a proposed plan: the node `validate` of the agent graph *)
(* (agent/orchestrator.py) with the rules it applies, over the proposals   *)
(* and repairs of one run.  PlanRun has the graph around it and any        *)
(* verdict; here the verdict is computed.                                  *)
(*                                                                         *)
(* A trip is what a run knows when it validates: constraints, hours and    *)
(* prices by venue, removals and meals of the request, the plan it revises *)
(* and its scope (or None), what the maps answer (seconds, quotes and      *)
(* offsets), the facts hours_candidates reads (words), and the plans the   *)
(* model may return.                                                       *)
(***************************************************************************)
EXTENDS ScheduleRepair, Transfers, Revision

CONSTANTS
    Trips,
    MaxRepairs  \* MAX_CONSTRAINT_REPAIRS

\* A plan has what its schema requires, of which the theorems use this.
ActivityFields ==
    {"from", "to", "category", "title", "location", "mentions", "highlights", "booked", "way",
     "mode", "cost", "base", "start_at", "end_at", "journey", "stay", "action"}
Timestamp(m) == {"utc", "offset"} \subseteq DOMAIN m /\ m.utc \in Int /\ m.offset \in Int
CompleteActivity(a) ==
    /\ ActivityFields \subseteq DOMAIN a
    /\ a.cost # None /\ a.from \in Int /\ a.to \in Int
    /\ IF a.start_at = None THEN a.end_at = None /\ a.from < a.to
       ELSE /\ a.end_at # None /\ Timestamp(a.start_at) /\ Timestamp(a.end_at)
            /\ a.start_at.utc < a.end_at.utc
List(s) == Len(s) \in Nat /\ DOMAIN s = 1 .. Len(s)
Complete(p) ==
    /\ {"days", "travelers", "currency", "start", "end"} \subseteq DOMAIN p
    /\ List(p.days)
    /\ \A day \in {p.days[d] : d \in DOMAIN p.days} :
          /\ {"date", "activities"} \subseteq DOMAIN day
          /\ day.date \in Int /\ List(day.activities)
          /\ \A i \in DOMAIN day.activities : CompleteActivity(day.activities[i])

\* The texts of a listing, as _TIME and _24H match them; hours that are known are not None.
ClockText(c) == /\ {"hour", "minute", "half"} \subseteq DOMAIN c
                /\ c.hour \in Nat /\ c.minute \in Nat /\ c.half \in {"AM", "PM", ""}
Listing(l) ==
    /\ \A k \in DOMAIN l :
        /\ l[k].says \in {"nothing", "closed", "24 hours", "ranges"}
        /\ \A range \in l[k].ranges : ClockText(range.opens) /\ ClockText(range.closes)
    /\ \A windows \in {parse(l)[k] : k \in DOMAIN parse(l)} :
       \A before \in {None} \cup {parse(l)[k] : k \in DOMAIN parse(l)} :
          _daily_windows(windows, before) # None

\* A scope is that of a plan, which has the days it locks.
TripsAssumption ==
    /\ None \notin Int
    /\ \A t \in Trips :
        /\ t.constraints # None
        /\ {"hours", "prices", "locked", "restaurants", "venues"} \subseteq DOMAIN t.words
        /\ t.words.restaurants \in Seq(ToSet(t.words.restaurants))
        /\ \A n \in DOMAIN t.hours : Listing(t.hours[n]) /\ NameLength[n] \in Nat
        /\ \A x \in DOMAIN t.seconds : t.seconds[x] \in Nat \cup {None}
        /\ None \notin [minutes : Nat, mode : {x[3] : x \in DOMAIN t.seconds}]
        /\ \A j \in Journeys(t.constraints) :
              /\ Timestamp(j.departure) /\ Timestamp(j.arrival)
              /\ j.before \in Nat /\ j.after \in Nat
        /\ \A candidate \in t.proposals : candidate # None /\ Complete(candidate)
        /\ t.scope # None =>
              /\ t.previous # None /\ Complete(t.previous)
              /\ t.scope.locked_days \subseteq DOMAIN t.previous.days
ASSUME TripsAssumption

VARIABLES
    trip,
    stage,     \* "propose", "validate" or "judged"
    itinerary, \* the plan so far
    report,    \* the last report, None before the first
    routes,    \* route_facts() of the last validation
    attempted, \* hours_fallback_attempted
    swapped,   \* the last validation replaced the plan by an hours alternative
    repairs    \* repairs made

reviewVars == <<trip, stage, itinerary, report, routes, attempted, swapped, repairs>>

ReviewInit ==
    /\ trip \in Trips
    /\ stage = "propose"
    /\ itinerary = None /\ report = None /\ routes = <<>>
    /\ attempted = FALSE /\ swapped = FALSE /\ repairs = 0

-----------------------------------------------------------------------------
Locked == IF trip.scope = None THEN {} ELSE trip.scope.locked_days

\* The model's plan with everything out of scope restored, at first and for each repair.
Propose ==
    /\ \/ stage = "propose" /\ UNCHANGED repairs
       \/ /\ stage = "judged" /\ blocking(report) # {} /\ repairs < MaxRepairs
          /\ repairs' = repairs + 1
    /\ \E candidate \in trip.proposals :
            itinerary' = enforce_revision_scope(candidate, trip.previous, trip.scope)
    /\ stage' = "validate"
    /\ UNCHANGED <<trip, report, routes, attempted, swapped>>

check(p) == validate_itinerary(p, trip.hours, trip.prices, trip.constraints, trip.meals,
                               trip.removals)

\* A route fact for each hop that was measured, with what it costs.
Fact(v) ==
    LET mode == IF v.mode = None THEN "WALK" ELSE v.mode
        quote == trip.quotes[<<v.origin, v.destination, mode>>]
    IN  [day |-> v.day, origin |-> v.origin, destination |-> v.destination, mode |-> mode,
         departure |-> v.depart, seconds |-> trip.seconds[<<v.origin, v.destination, mode>>],
         fare |-> quote.fare, tolls |-> quote.tolls, currency |-> quote.currency]
Facts(checked) ==
    LET allowed == trip.constraints.allowed_modes
        made == {v \in checked : _measure(v, allowed, trip.offsets, trip.seconds) # None}
    IN  SetToSeq({Fact(v) : v \in made})

costed(p, found) == apply_observed_costs(p, trip.prices, found, Locked)

CostCodes == {"over_budget", "understated_cost"}
Recosted(r, p) ==
    {v \in r : v.code \notin CostCodes} \cup {v \in check(p) : v.code \in CostCodes}

\* Measured, a plan with its report and facts; which of too many hops are is left open.
Measured(p, r) ==
    {LET found == Facts(checked)
         settled == costed(p, found)
         confirmed == confirm_transfers(transfer_candidates(p, r), checked,
                         trip.constraints.allowed_modes, trip.offsets, trip.seconds)
     IN  [plan |-> settled, report |-> Recosted(confirmed, settled), routes |-> found] :
        checked \in Checkable(transfer_candidates(p, r))}

-----------------------------------------------------------------------------
(* The one attempt to move a visit with closed doors instead of asking the model. *)

Unverified(r) ==
    {[v EXCEPT !.instant = None, !.deadline = None] :
        v \in {w \in r : w.code = "transfer_unverified"}}
Advisories(r) == {<<v.code, v.day>> : v \in r \ blocking(r)}

Context == [trip.words EXCEPT !.hours = trip.hours, !.prices = trip.prices, !.locked = Locked]

\* The first alternative without a violation or a new advice is measured, and adopted if
\* nothing but what was unverified before is left; the others are not looked at.
Trials(judged) ==
    LET clean(r) == blocking(r) = {} /\ Advisories(r) \subseteq Advisories(judged.report)
        first(found, fitting) ==
            {found[k] : k \in {n \in fitting : \A m \in fitting : n <= m}}
        fits(found) == first(found, {k \in DOMAIN found : clean(check(costed(found[k], <<>>)))})
    IN  fits(hours_candidates(judged.plan, Context))

Adopted(judged, trial) ==
    /\ blocking(trial.report) = {}
    /\ Unverified(trial.report) \subseteq Unverified(judged.report)

Fallback(judged) ==
    LET measured(first) == Measured(first, check(first))
        tried(trials) ==
            IF trials = {} THEN {[result |-> judged, swapped |-> FALSE]}
            ELSE {IF Adopted(judged, trial) THEN [result |-> trial, swapped |-> TRUE]
                  ELSE [result |-> judged, swapped |-> FALSE] :
                     trial \in UNION {measured(costed(found, <<>>)) : found \in trials}}
    IN  tried(Trials(judged))

OnlyClosedDoors(r) ==
    blocking(r) # {} /\ \A v \in blocking(r) : v.code = "outside_opening_hours"

Validate ==
    /\ stage = "validate"
    /\ LET pruned == prune_removed_recommendations(itinerary, trip.removals, Locked)
           first == costed(pruned, <<>>)
       IN  \E judged \in Measured(first, check(first)) :
             LET tries == OnlyClosedDoors(judged.report) /\ report # None /\ ~attempted
             IN  \E end \in IF tries THEN Fallback(judged)
                            ELSE {[result |-> judged, swapped |-> FALSE]} :
                   /\ itinerary' = end.result.plan
                   /\ report' = end.result.report
                   /\ routes' = end.result.routes
                   /\ swapped' = end.swapped
                   /\ attempted' = (attempted \/ tries)
    /\ stage' = "judged"
    /\ UNCHANGED <<trip, repairs>>

ReviewNext == Propose \/ Validate

ReviewSpec == ReviewInit /\ [][ReviewNext]_reviewVars

-----------------------------------------------------------------------------
(* What the properties compare the rules with. *)

\* A venue is open in a minute of a day: by the hours of the day, or by those of the day
\* before that reach over midnight, unless the day itself was observed.
Line(listing, key) == Lookup(parse(listing), key)
Known(listing, d) == Or(Line(listing, <<"date", d>>), Line(listing, Weekday(d)))
OpenAt(listing, d, m) ==
    /\ m \in 0 .. MinutesInDay - 1
    /\ \/ \E w \in Known(listing, d) : w[1] <= m /\ m < w[2]
       \/ /\ Line(listing, <<"date", d>>) = None
          /\ Known(listing, d - 1) # None
          /\ \E w \in Known(listing, d - 1) :
                w[1] <= m + MinutesInDay /\ m + MinutesInDay < w[2]
ShutAt(listing, d, m) == Known(listing, d) # None /\ ~OpenAt(listing, d, m)

\* The minutes of a visit, each with its date, on the clock of its start.
MinutesAt(day, a) ==
    LET at(utc) == [utc |-> utc, offset |-> a.start_at.offset]
    IN  IF a.start_at = None THEN {<<day.date, m>> : m \in a.from .. a.to - 1}
        ELSE {<<DateOf(at(utc)), ClockOf(at(utc))>> : utc \in a.start_at.utc .. a.end_at.utc - 1}

(* The report names a date exactly when some visit of that date that is    *)
(* not a leg or a hotel's has a minute in which its venue is known to be   *)
(* shut, over weekday hours, observed dates, and hours and visits that run *)
(* past midnight.                                                          *)
CaughtOut(day, a) ==
    LET listing == _match_known(a, trip.hours) IN
    /\ ~_is_transport(a) /\ a.stay = None /\ listing # None
    /\ \E x \in MinutesAt(day, a) : ShutAt(listing, x[1], x[2])
DoorsJudged(plan, r) ==
    \A date \in {plan.days[d].date : d \in Days(plan)} :
        (\E v \in r : v.code = "outside_opening_hours" /\ v.day = date)
        <=> \E d \in Days(plan) :
              /\ plan.days[d].date = date
              /\ \E a \in Activities(plan.days[d]) : CaughtOut(plan.days[d], a)

(* No hop passes on hope: of two stops in a row at different places, with  *)
(* no booked journey between them, either the mode of the leg (walking     *)
(* without one) was measured and fits with its margin, or the report names *)
(* the hop, and blocks the plan when it was measured and does not fit.     *)
(* Two things get by: a hop is not looked at when another pair between the *)
(* same places is tight on that date, whatever the mode of either, and of  *)
(* more hops than may be measured some are only named.                     *)
Hops(day) ==
    LET legs(p) == {day.activities[n] : n \in LegsBetween(day, Keys(day), p)}
    IN  {[at |-> p, a |-> day.activities[p[1]], b |-> day.activities[p[2]], legs |-> legs(p)] :
            p \in Consecutive(day, Keys(day))}
MinutesOf(hop) ==
    LET mode == IF DeclaredMode(hop.legs) = None THEN "WALK" ELSE DeclaredMode(hop.legs)
        seconds == Lookup(trip.seconds, <<hop.a.location, hop.b.location, mode>>)
        allowed == trip.constraints.allowed_modes
        offset(place) == Lookup(trip.offsets, place)
        unsure(m, place) == m # None /\ (offset(place) = None \/ m.offset # offset(place))
    IN  IF \/ seconds = None
           \/ offset(hop.a.location) = None
           \/ unsure(hop.a.end_at, hop.a.location) \/ unsure(hop.b.start_at, hop.b.location)
           \/ allowed # None /\ mode \notin allowed
        THEN None
        ELSE seconds \div 60 + (IF seconds % 60 = 0 THEN 0 ELSE 1)
TightElsewhere(plan, d, hop) ==
    \E e \in {x \in Days(plan) : plan.days[x].date = plan.days[d].date} :
        LET day == plan.days[e] IN
        \E p \in Neighbours(DOMAIN day.activities, Keys(day)) :
            /\ TooTight(day.activities[p[1]], day.activities[p[2]])
            /\ day.activities[p[1]].location = hop.a.location
            /\ day.activities[p[2]].location = hop.b.location
            /\ <<e, p>> # <<d, hop.at>>
ToMeasure(plan) == {v \in transfer_candidates(plan, check(plan)) : _needs_confirming(v)}
Passes(plan, d, hop, named) ==
    LET left == Gap(hop.a, hop.b) IN
    \/ hop.a.location = hop.b.location \/ left < 0
    \/ \E leg \in hop.legs : leg.journey # None
    \/ TightElsewhere(plan, d, hop)
    \/ MinutesOf(hop) = None /\ named # {}
    \/ MinutesOf(hop) # None /\ MinutesOf(hop) + 5 <= left
    \/ MinutesOf(hop) # None /\ blocking(named) # {}
    \/ named # {} /\ Cardinality(ToMeasure(plan)) > MAX_TRANSFER_CHECKS
HopsJudged(plan, r) ==
    \A d \in Days(plan) : \A hop \in Hops(plan.days[d]) :
        Passes(plan, d, hop, {v \in r : /\ v.day = plan.days[d].date
                                         /\ v.origin = hop.a.location
                                         /\ v.destination = hop.b.location})

(* A locked day is what the traveller had, to the last cost and            *)
(* recommendation (its weather is not modelled), after any number of       *)
(* proposals, restorations, prunings, pricings and moves.                  *)
LockedDaysExact ==
    stage = "judged" =>
        \A d \in Locked : d \in Days(itinerary) /\ itinerary.days[d] = trip.previous.days[d]

(* Observed prices are charged once: pricing a judged plan again, with the *)
(* routes measured for it, changes nothing, although the model saw and     *)
(* returned costs that already had them.                                   *)
CostsSettled == stage = "judged" => costed(itinerary, routes) = itinerary

(* An alternative the server adopts on its own has no violation left, and  *)
(* differs only as far as it may: nothing booked, no lodging and nothing   *)
(* the traveller named and the run knows, by a name long enough to match,  *)
(* is moved to make room or replaced by another place, legs take as long   *)
(* as before, and what followed the moved visits is untouched.             *)
Spared(p, x, b) ==
    LET a == At(p, x)
        named == /\ a.location \in trip.words.venues \cap DOMAIN trip.hours
                 /\ NameLength[a.location] >= MIN_VENUE_MATCH_CHARS
    IN
    /\ \/ a.booked
       \/ /\ a.category = "accommodation" \/ named
          /\ ~ClosedAt(p, x, Context)
       => <<a.from, a.to>> = <<b.from, b.to>>
    /\ a.booked \/ named => a.location = b.location
    /\ a.category = "transport" => b.to - b.from = a.to - a.from
    /\ b.from < a.from \/ b.to < a.to =>
          \E y \in Places(p) : y[1] = x[1] /\ y[2] >= x[2] /\ ClosedAt(p, y, Context)
SwapsHonest ==
    [][stage = "validate" /\ swapped' =>
          /\ blocking(report') = {}
          /\ Places(itinerary') = Places(itinerary)
          /\ \A x \in Places(itinerary) : Spared(itinerary, x, At(itinerary', x))]_reviewVars

(* A plan without blocking findings keeps to the clock of its journeys:    *)
(* each one that departs during the trip is in it once as booked, nothing  *)
(* else falls into it or its buffers, and no two absolute visits overlap.  *)
JourneysClear(plan, r) ==
    blocking(r) = {} =>
        /\ \A j \in Journeys(trip.constraints) :
             LET held == {p \in Places(plan) : At(plan, p).journey = j.id} IN
             /\ During(plan, j.departure) => Cardinality(held) = 1
             /\ \A p \in held : <<At(plan, p).start_at, At(plan, p).end_at>>
                                    = <<j.departure, j.arrival>>
             /\ \A p \in Places(plan) \ held :
                   \/ At(plan, p).end_at.utc <= j.departure.utc - j.before
                   \/ At(plan, p).start_at.utc >= j.arrival.utc + j.after
        /\ \A p, q \in {x \in Places(plan) : At(plan, x).start_at # None} :
             \/ p = q
             \/ At(plan, p).end_at.utc <= At(plan, q).start_at.utc
             \/ At(plan, q).end_at.utc <= At(plan, p).start_at.utc

(* The verdict is right about the clock, in all three of its measures:     *)
(* the hours of a place, the way between two, and booked journeys.         *)
ClockJudged ==
    stage = "judged" =>
        /\ DoorsJudged(itinerary, report)
        /\ HopsJudged(itinerary, report)
        /\ JourneysClear(itinerary, report)
=============================================================================

------------------------------ MODULE Transfers ------------------------------
(***************************************************************************)
(* agent/transfers.py and agent/pricing.py: what measured travel times do  *)
(* to a report and what observed prices do to a plan.                      *)
(*                                                                         *)
(* offsets gives the UTC offset of a place at a moment, or None when the   *)
(* lookup failed; seconds the time Google measured for a pair of places    *)
(* in a mode, or None.                                                     *)
(***************************************************************************)
EXTENDS Validation

TRANSFER_MARGIN_MINUTES == 5
MAX_TRANSFER_CHECKS == 16

_needs_confirming(v) ==
    /\ v.code \in {"insufficient_transfer", "transfer_unverified"}
    /\ v.origin # None /\ v.destination # None /\ v.gap # None

\* Only the mode of the leg, walking when it declares none, and only if it is allowed.
ModesOf(v, allowed) ==
    LET mode == IF v.mode = None THEN "WALK" ELSE v.mode
    IN  IF allowed = None \/ mode \in allowed THEN {mode} ELSE {}

\* A stamp with an offset has to agree with the clock of the place it is about.
ClockAgrees(m, place, offsets) == m # None => m.offset = Lookup(offsets, place)

\* The answers count when both offsets are known and agree; the fastest one is taken,
\* rounded up to the minute.
Fastest(v, allowed, seconds) ==
    LET answers == {<<Lookup(seconds, <<v.origin, v.destination, m>>), m>> : m \in ModesOf(v, allowed)}
        usable == {a \in answers : a[1] # None}
    IN  IF usable = {} THEN None
        ELSE LET best == CHOOSE a \in usable : \A b \in usable : a[1] <= b[1]
             IN  [minutes |-> (best[1] + 59) \div 60, mode |-> best[2]]

_measure(v, allowed, offsets, seconds) ==
    IF /\ Lookup(offsets, v.origin) # None
       /\ ClockAgrees(v.instant, v.origin, offsets)
       /\ v.deadline # None => Lookup(offsets, v.destination) # None
       /\ ClockAgrees(v.deadline, v.destination, offsets)
    THEN Fastest(v, allowed, seconds)
    ELSE None

\* What is left of a candidate: nothing when the time fits, the candidate as it was when it
\* could not be measured, a defect with the time it needs otherwise.
Judged_Forgiving(v, verdict) ==
    IF verdict = None THEN {}
    ELSE IF verdict.minutes + TRANSFER_MARGIN_MINUTES <= v.gap THEN {}
    ELSE {[v EXCEPT !.code = "insufficient_transfer", !.mode = verdict.mode,
                    !.needed = verdict.minutes + TRANSFER_MARGIN_MINUTES]}
Judged(v, verdict) ==
    IF verdict = None THEN {v}
    ELSE IF verdict.minutes + TRANSFER_MARGIN_MINUTES <= v.gap THEN {}
    ELSE {[v EXCEPT !.code = "insufficient_transfer", !.mode = verdict.mode,
                    !.needed = verdict.minutes + TRANSFER_MARGIN_MINUTES]}

\* Of more candidates than may be measured the first ones are, in the order of the report;
\* checked is that choice.
Checkable(report) ==
    LET candidates == {v \in report : _needs_confirming(v)}
    IN  IF Cardinality(candidates) > MAX_TRANSFER_CHECKS
        THEN kSubset(MAX_TRANSFER_CHECKS, candidates)
        ELSE {candidates}

confirm_transfers(report, checked, allowed, offsets, seconds) ==
    (report \ checked)
    \cup UNION {Judged(v, _measure(v, allowed, offsets, seconds)) : v \in checked}

-----------------------------------------------------------------------------
(* apply_observed_costs: meals at the observed midpoint, legs at the measured fare or     *)
(* with the tolls of the route measured for them.  It runs after every model turn.        *)

Priced(plan, a, prices) ==
    LET observed == _match_known(a, prices)
        average == range_average(observed)
    IN  IF a.category = "food" /\ average # None /\ observed.currency = plan.currency
        THEN [a EXCEPT !.cost = average * plan.travelers]
        ELSE a

\* The route measured last for this leg: same day, stops, mode and departure.
RouteFor(day, left, right, leg, routes) ==
    LET matching == {k \in DOMAIN routes : /\ routes[k].day = day.date
                                           /\ routes[k].origin = left.location
                                           /\ routes[k].destination = right.location
                                           /\ routes[k].mode = transport_mode(leg)
                                           /\ routes[k].departure = left.to
                                           /\ routes[k].seconds # None}
    IN  IF matching = {} THEN None ELSE routes[Max(matching)]

Sum(amounts) == FoldLeft(LAMBDA total, x : total + x, 0, amounts)

WithTolls_Twice(leg, tolls) == [leg EXCEPT !.cost = @ + Sum(tolls)]
\* The cost without tolls is kept aside, so that they are added once.
WithTolls(leg, tolls) ==
    LET base == IF leg.base = None THEN leg.cost ELSE leg.base
    IN  [leg EXCEPT !.base = base, !.cost = base + Sum(tolls)]

Charged(plan, leg, route) ==
    IF route = None THEN leg
    ELSE CASE transport_mode(leg) = "TRANSIT" /\ route.fare # None
                /\ route.currency = plan.currency ->
                [leg EXCEPT !.cost = route.fare * plan.travelers]
           [] transport_mode(leg) = "DRIVE" /\ route.tolls # None
                /\ (route.tolls = <<>> \/ route.currency = plan.currency) ->
                WithTolls(leg, route.tolls)
           [] OTHER -> leg

\* The hop that has this leg and no other between its stops, by their clock labels: a total
\* is never split among several.
Labels(day) == [i \in DOMAIN day.activities |-> day.activities[i].from]
Around(day, n) ==
    {p \in Consecutive(day, Labels(day)) : LegsBetween(day, Labels(day), p) = {n}}
RouteOf(day, n, routes) ==
    LET hop == CHOOSE p \in Around(day, n) : TRUE
    IN  IF Around(day, n) = {} THEN None
        ELSE RouteFor(day, day.activities[hop[1]], day.activities[hop[2]],
                      day.activities[n], routes)

DayCharged(plan, day, routes) ==
    [day EXCEPT !.activities = [n \in DOMAIN @ |-> Charged(plan, @[n], RouteOf(day, n, routes))]]

MealsPriced(plan, day, prices) ==
    [day EXCEPT !.activities = [n \in DOMAIN @ |-> Priced(plan, @[n], prices)]]

apply_observed_costs_Everywhere(plan, prices, routes, locked) ==
    [plan EXCEPT !.days =
        [d \in DOMAIN @ |-> DayCharged(plan, MealsPriced(plan, @[d], prices), routes)]]

apply_observed_costs(plan, prices, routes, locked) ==
    [plan EXCEPT !.days =
        [d \in DOMAIN @ |-> IF d \in locked THEN @[d]
                            ELSE DayCharged(plan, MealsPriced(plan, @[d], prices), routes)]]
=============================================================================

----------------------------- MODULE Validation -----------------------------
(***************************************************************************)
(* agent/validation.py: the hard constraints a finished itinerary is       *)
(* checked against, and the hops of a day whose travel time is to be       *)
(* measured.                                                               *)
(*                                                                         *)
(* Of the texts of an activity the checks read a few facts, which are its  *)
(* fields here: location and title name a venue or nothing (None),         *)
(* mentions are the venues whose names occur in either, highlights those   *)
(* of its recommendations, serves the specialties read there, meal the     *)
(* meal its title declares, way the means of travel it names, hedge and    *)
(* booked whether it declines to choose or says it is booked.  Costs are   *)
(* in cents.  A report is a set of violations; equal ones are one.         *)
(***************************************************************************)
EXTENDS Timing

CONSTANTS
    Near,      \* sets of two locations whose names read as one place
    NameLength \* characters of a venue's name

MIN_TRANSFER_MINUTES == 15
EARLIEST_START_MINUTE == 6 * 60
LATEST_END_MINUTE == 23 * 60 + 59
MIN_VENUE_MATCH_CHARS == 6
MAX_DAILY_ACTIVE_HOURS == 16
BUDGET_TOLERANCE == 1

ADVISORY_CODES ==
    {"overlong_day", "unsociable_hours", "transfer_unverified", "journey_time_estimated"}

Violation(code, date) ==
    [code |-> code, day |-> date, origin |-> None, destination |-> None, gap |-> None,
     depart |-> None, mode |-> None, instant |-> None, deadline |-> None, needed |-> None]

blocking(report) == {v \in report : v.code \notin ADVISORY_CODES}

_is_transport(a) == a.category = "transport"

transport_mode(a) == IF a.mode # None THEN a.mode ELSE a.way

\* Names that do not differ, contain one another or share a root need no travel time.
_same_place(a, b) ==
    \/ a.location = None
    \/ b.location = None
    \/ a.location = b.location
    \/ {a.location, b.location} \in Near

-----------------------------------------------------------------------------
(* What the run looked up about the venue of an activity. *)

Rank(a, name) == IF a.location = name THEN 3 ELSE IF a.title = name THEN 2 ELSE 1
Longest(a, names) ==
    LET best == Max({Rank(a, n) : n \in names}) IN
    LET top == {n \in names : Rank(a, n) = best} IN
    {n \in top : NameLength[n] = Max({NameLength[m] : m \in top})}

\* The most specific name found in the activity; two as good as each other are unknown.
_match_known(a, known) ==
    LET names == {n \in DOMAIN known : NameLength[n] >= MIN_VENUE_MATCH_CHARS
                                       /\ n \in a.mentions \cup {a.location, a.title}}
        best == IF names = {} THEN {} ELSE Longest(a, names)
    IN  IF Cardinality(best) = 1 THEN known[CHOOSE n \in best : TRUE] ELSE None

\* range_average of tools/money.py: the midpoint of a complete range in one currency.
range_average(range) ==
    IF range = None \/ range.low = None \/ range.high = None THEN None
    ELSE IF range.high < range.low THEN None
    ELSE (range.low + range.high) \div 2

-----------------------------------------------------------------------------
(* The activities of a day. *)

StartKey(day, a) ==
    IF a.start_at # None THEN a.start_at.utc ELSE Midnight(day.date, 0) + a.from

Keys(day) == [i \in DOMAIN day.activities |-> StartKey(day, day.activities[i])]

\* Sorted by a key, ties in the order of the list: those of some that follow one another.
Comes(key, i, j) == key[i] < key[j] \/ (key[i] = key[j] /\ i < j)
Neighbours(some, key) ==
    {p \in some \X some : /\ Comes(key, p[1], p[2])
                          /\ ~\E n \in some : Comes(key, p[1], n) /\ Comes(key, n, p[2])}

\* Minutes between two activities, on the clock both are given in.
Gap(a, b) ==
    IF a.end_at # None /\ b.start_at # None
    THEN b.start_at.utc - a.end_at.utc
    ELSE b.from - a.to

Hop(code, day, a, b) ==
    [Violation(code, day.date) EXCEPT
        !.origin = a.location, !.destination = b.location, !.gap = Gap(a, b),
        !.depart = a.to, !.instant = a.end_at, !.deadline = b.start_at]

\* A pair with one clock of each kind is not compared; an overlap on absolute clocks is
\* check_timing's.
Comparable(a, b) == \/ a.end_at # None /\ b.start_at # None
                    \/ a.start_at = None /\ b.start_at = None
Overlapping(a, b) == a.end_at = None /\ b.start_at = None /\ Gap(a, b) < 0
TooTight(a, b) ==
    /\ Comparable(a, b)
    /\ Gap(a, b) \in 0 .. MIN_TRANSFER_MINUTES - 1
    /\ ~_same_place(a, b)
    /\ ~_is_transport(a) /\ ~_is_transport(b)

Unsociable(a) ==
    a.journey = None /\ (a.from < EARLIEST_START_MINUTE \/ a.to > LATEST_END_MINUTE)

\* From the start of the first activity to the end of the last.
Overlong(day) ==
    \E first, last \in DOMAIN day.activities :
        /\ ~\E n \in DOMAIN day.activities : Comes(Keys(day), n, first) \/ Comes(Keys(day), last, n)
        /\ day.activities[last].to - day.activities[first].from > MAX_DAILY_ACTIVE_HOURS * 60

_check_day(day) ==
    LET pairs == {<<day.activities[p[1]], day.activities[p[2]]>> :
                     p \in Neighbours(DOMAIN day.activities, Keys(day))}
        all == {day.activities[i] : i \in DOMAIN day.activities}
    IN  IF all = {} THEN {Violation("empty_day", day.date)}
        ELSE {Violation("vague_venue", day.date) : a \in {b \in all : b.hedge}}
             \cup {Violation("unsociable_hours", day.date) : a \in {b \in all : Unsociable(b)}}
             \cup {Violation("time_conflict", day.date) :
                     p \in {q \in pairs : Overlapping(q[1], q[2])}}
             \cup {Hop("insufficient_transfer", day, p[1], p[2]) :
                     p \in {q \in pairs : TooTight(q[1], q[2])}}
             \cup (IF Overlong(day) THEN {Violation("overlong_day", day.date)} ELSE {})

\* The part of a visit that falls on each date, on the clock of its start.
Segments(day, a) ==
    IF a.start_at = None THEN {<<day.date, a.from, a.to>>}
    ELSE LET last == [a.end_at EXCEPT !.offset = a.start_at.offset]
             tail == IF ClockOf(last) = 0 THEN {} ELSE {<<DateOf(last), 0, ClockOf(last)>>}
         IN  IF DateOf(last) = DateOf(a.start_at)
             THEN {<<DateOf(last), ClockOf(a.start_at), ClockOf(last)>>}
             ELSE {<<DateOf(a.start_at), ClockOf(a.start_at), MinutesInDay>>} \cup tail
                  \cup {<<d, 0, MinutesInDay>> : d \in DateOf(a.start_at) + 1 .. DateOf(last) - 1}

Shut(day, a, known_hours) ==
    LET listing == _match_known(a, known_hours) IN
    /\ ~_is_transport(a)
    /\ a.stay = None
    /\ listing # None
    /\ \E s \in Segments(day, a) : closed_reason(listing, s[1], s[2], s[3])

\* A meal is not to cost less than the midpoint of the prices observed.
Understated(plan, a, known_prices) ==
    LET observed == _match_known(a, known_prices)
        average == range_average(observed)
    IN  /\ a.category = "food"
        /\ average # None
        /\ observed.currency = plan.currency
        /\ a.cost < average * plan.travelers

-----------------------------------------------------------------------------
(* The whole plan. *)

DayCost(day) == FoldLeft(LAMBDA sum, a : sum + a.cost, 0, day.activities)
TotalCost(plan) == FoldLeft(LAMBDA sum, day : sum + DayCost(day), 0, plan.days)

_check_budget(plan, ceiling) ==
    IF ceiling # None /\ TotalCost(plan) - ceiling > BUDGET_TOLERANCE
    THEN {Violation("over_budget", None)} ELSE {}

_check_days(plan) ==
    LET date(d) == plan.days[d].date IN
    {Violation("day_out_of_range", date(d)) :
        d \in {e \in Days(plan) : date(e) < plan.start \/ date(e) > plan.end}}
    \cup {Violation("duplicate_day", date(d)) :
        d \in {e \in Days(plan) : \E f \in 1 .. e - 1 : date(f) = date(e)}}

\* Every night is spent somewhere: in a stay or a journey of the request, else in any
\* accommodation, else the traveller said it is arranged (or, without a request, a note).
Housed(plan, constraints) ==
    LET timing == IF constraints # None THEN constraints ELSE plan.timing IN
    \/ plan.end <= plan.start
    \/ IF Given(timing, "stays") THEN missing_nights(plan, timing) = {}
       ELSE \/ Journeys(timing) # {} /\ missing_nights(plan, timing) = {}
            \/ \E p \in Places(plan) : At(plan, p).category = "accommodation"
            \/ constraints # None /\ constraints.lodging_arranged = TRUE
            \/ constraints = None /\ plan.lodging_noted

_check_accommodation(plan, constraints) ==
    IF Housed(plan, constraints) THEN {} ELSE {Violation("missing_accommodation", None)}

_check_request_constraints(plan, c) ==
    LET fixed == {"budget", "currency", "start", "end", "travelers"}
        wrong == {f \in fixed : c[f] # None /\ plan[f] # c[f]}
        legs == {p \in Places(plan) : _is_transport(At(plan, p))}
    IN  {Violation("constraint_mismatch", None) : f \in wrong}
        \cup {Violation("constraint_mismatch", None) :
                n \in {Len(plan.days)} \ {IF c.days = None THEN Len(plan.days) ELSE c.days}}
        \cup {Violation("disallowed_transport", plan.days[p[1]].date) :
                p \in {q \in legs : /\ c.allowed_modes # None
                                    /\ transport_mode(At(plan, q)) # None
                                    /\ transport_mode(At(plan, q)) \notin c.allowed_modes}}

\* A requested specialty is in a food stop of that meal on that day; a removed venue is in
\* no title, location or recommendation of the days it was removed from.
Band(meal) == CASE meal \in {"breakfast", "brunch"} -> 360 .. 719
                [] meal = "lunch" -> 660 .. 959
                [] meal = "dinner" -> 1020 .. 1439
Serves(a, wanted) ==
    /\ a.category = "food"
    /\ IF a.meal # None THEN a.meal = wanted.meal ELSE a.from \in Band(wanted.meal)
    /\ wanted.specialty \in a.serves
Names(a, venue) == venue \in a.mentions \cup {a.location, a.title} \cup a.highlights
Activities(day) == {day.activities[i] : i \in DOMAIN day.activities}

_check_edits(plan, meals, removals) ==
    {Violation("constraint_mismatch", None) :
        w \in {x \in meals \cup removals : x.day # None /\ x.day \notin Days(plan)}}
    \cup {Violation("constraint_mismatch", plan.days[w.day].date) :
        w \in {x \in meals : /\ x.day \in Days(plan)
                             /\ ~\E a \in Activities(plan.days[x.day]) : Serves(a, x)}}
    \cup {Violation("constraint_mismatch", plan.days[d].date) :
        d \in {e \in Days(plan) : \E r \in removals : /\ r.day \in {None, e}
                  /\ \E a \in Activities(plan.days[e]) : Names(a, r.venue)}}

validate_itinerary(plan, known_hours, known_prices, constraints, meals, removals) ==
    LET ceiling == IF Given(constraints, "budget") THEN constraints.budget ELSE plan.budget
        timing == IF constraints # None THEN constraints ELSE plan.timing
        dated(p) == IF p = None THEN None ELSE plan.days[p[1]].date
    IN  (IF constraints = None THEN {} ELSE _check_request_constraints(plan, constraints))
        \cup _check_budget(plan, ceiling)
        \cup _check_days(plan)
        \cup _check_accommodation(plan, constraints)
        \cup {Violation(i.code, dated(i.at)) : i \in check_timing(plan, timing)}
        \cup _check_edits(plan, meals, removals)
        \cup (UNION {_check_day(plan.days[d]) : d \in Days(plan)})
        \cup {Violation("outside_opening_hours", plan.days[p[1]].date) : p \in
                {q \in Places(plan) : Shut(plan.days[q[1]], At(plan, q), known_hours)}}
        \cup {Violation("understated_cost", plan.days[p[1]].date) : p \in
                {q \in Places(plan) : Understated(plan, At(plan, q), known_prices)}}

-----------------------------------------------------------------------------
(* The hops to measure: consecutive real stops of a day, with the legs between them. *)

Stops(day) ==
    {i \in DOMAIN day.activities : /\ ~_is_transport(day.activities[i])
                                   /\ day.activities[i].location # None}
Consecutive(day, key) == Neighbours(Stops(day), key)

\* Legs between two stops, in the order of that key.
LegsBetween(day, key, p) ==
    {n \in DOMAIN day.activities :
        _is_transport(day.activities[n]) /\ Comes(key, p[1], n) /\ Comes(key, n, p[2])}

DeclaredMode(legs) ==
    LET modes == {transport_mode(a) : a \in legs} \ {None}
    IN  IF Cardinality(modes) = 1 THEN CHOOSE m \in modes : TRUE ELSE None

\* A hop of a booked journey, one already in question or one that overlaps is not added.
DayCandidates(day, known) ==
    LET a(p) == day.activities[p[1]]
        b(p) == day.activities[p[2]]
        legs(p) == {day.activities[n] : n \in LegsBetween(day, Keys(day), p)}
    IN  {[Hop("transfer_unverified", day, a(p), b(p)) EXCEPT !.mode = DeclaredMode(legs(p))] :
           p \in {q \in Consecutive(day, Keys(day)) :
                    /\ a(q).location # b(q).location
                    /\ \A leg \in legs(q) : leg.journey = None
                    /\ <<day.date, a(q).location, b(q).location>> \notin known
                    /\ Gap(a(q), b(q)) >= 0}}

transfer_candidates(plan, report) ==
    LET known == {<<v.day, v.origin, v.destination>> :
                     v \in {w \in report : w.code = "insufficient_transfer"}}
    IN  report \cup UNION {DayCandidates(plan.days[d], known) : d \in Days(plan)}
=============================================================================

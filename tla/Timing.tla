------------------------------- MODULE Timing -------------------------------
(***************************************************************************)
(* agent/timing.py: absolute times of a plan against the arrival, the      *)
(* hotel stays and the journeys the request owns.                          *)
(*                                                                         *)
(* A moment is [utc, offset]: minutes since an epoch and the offset of its *)
(* clock.  A plan has start, end and days, a sequence of [date,            *)
(* activities]; an activity is a record, of which this module reads from   *)
(* and to (local clock labels), start_at and end_at (moments or None),     *)
(* category, location, mode, journey, stay and action (None or an id).     *)
(* constraints is None or has arrival, stays and journeys.  An issue is    *)
(* what a Violation tells apart here: its code and the activity it names.  *)
(***************************************************************************)
EXTENDS OpeningHours

\* Local date and clock of a moment.
DateOf(m) == (m.utc + m.offset) \div MinutesInDay
ClockOf(m) == (m.utc + m.offset) % MinutesInDay
Midnight(d, offset) == d * MinutesInDay - offset

Days(plan) == DOMAIN plan.days
\* An activity is named by its day and its place there.
Places(plan) == UNION {{<<d, i>> : i \in DOMAIN plan.days[d].activities} : d \in Days(plan)}
At(plan, p) == plan.days[p[1]].activities[p[2]]
Ordered(p, q) == p[1] < q[1] \/ (p[1] = q[1] /\ p[2] < q[2])

Given(constraints, field) == constraints # None /\ constraints[field] # None
Stays(constraints) == IF Given(constraints, "stays") THEN constraints.stays ELSE {}
Journeys(constraints) == IF Given(constraints, "journeys") THEN constraints.journeys ELSE {}
Arrival(constraints) == IF constraints = None THEN None ELSE constraints.arrival

LongDistance == {"FLIGHT", "TRAIN"}

\* A plan is checked against absolute time once anything in it or the request has one.
Timed(plan, constraints) ==
    \/ Arrival(constraints) # None
    \/ Stays(constraints) # {}
    \/ Journeys(constraints) # {}
    \/ \E p \in Places(plan) : At(plan, p).start_at # None \/ At(plan, p).mode \in LongDistance

\* Timestamps that are missing, out of order or not what the clock labels say.
Untimed(a) == a.start_at = None \/ a.end_at = None
Mislabelled(a) ==
    \/ a.end_at.utc <= a.start_at.utc
    \/ a.from # ClockOf(a.start_at)
    \/ a.to # ClockOf(a.end_at)

Scheduled(plan) == {p \in Places(plan) : ~Untimed(At(plan, p)) /\ ~Mislabelled(At(plan, p))}
Legs(plan, leg) == {p \in Scheduled(plan) : At(plan, p).journey = leg.id}

\* Anything but a journey starts only after the arrival and its buffer.
TooEarly(a, arrival) ==
    arrival # None /\ a.journey = None /\ a.start_at.utc < arrival.at.utc + arrival.buffer

\* A journey is scheduled as it was booked.
Altered(a, leg) ==
    a.start_at # leg.departure \/ a.end_at # leg.arrival \/ a.mode # leg.mode
    \/ a.location # leg.origin

\* A visit to a room lies in its stay, in its zone and hotel, and takes its time.
MinimumOf(action, stay) == IF action = "check_in" THEN stay.check_in_minutes
                           ELSE stay.check_out_minutes
OutsideStay(a, stay) ==
    LET offsets == {stay.check_in.offset, stay.check_out.offset} IN
    \/ a.start_at.utc < stay.check_in.utc
    \/ a.end_at.utc > stay.check_out.utc
    \/ a.start_at.offset \notin offsets
    \/ a.end_at.offset \notin offsets
    \/ a.location # stay.hotel
    \/ /\ a.action \in {"check_in", "check_out"}
       /\ a.end_at.utc - a.start_at.utc < MinimumOf(a.action, stay)

Actions(plan, stay, action) ==
    {p \in Scheduled(plan) : At(plan, p).stay = stay.id /\ At(plan, p).action = action}

Issue(code, p) == [code |-> code, at |-> p]

\* What is wrong with each activity on its own.
ActivityIssues(plan, constraints, p) ==
    LET a == At(plan, p)
        leg == {j \in Journeys(constraints) : j.id = a.journey}
        stay == {s \in Stays(constraints) : s.id = a.stay}
        timed == Timed(plan, constraints)
        earlier(ps) == \E q \in ps : Ordered(q, p)
        issues ==
          { <<"temporal_unverified", timed /\ a.stay = None /\ a.category = "accommodation">>,
            <<"constraint_mismatch", DateOf(a.start_at) # plan.days[p[1]].date>>,
            <<"constraint_mismatch", a.journey # None /\ leg = {}>>,
            <<"constraint_mismatch", a.stay # None /\ stay = {}>>,
            <<"arrival_conflict", TooEarly(a, Arrival(constraints))>>,
            <<"journey_conflict", \E j \in leg : Altered(a, j) \/ earlier(Legs(plan, j))>>,
            <<"hotel_window_conflict",
              \E s \in stay : \/ OutsideStay(a, s)
                              \/ a.action # "stay" /\ earlier(Actions(plan, s, a.action))>> }
        unowned == IF a.mode \in LongDistance /\ a.journey = None
                   THEN {"temporal_unverified"} ELSE {}
    IN  {Issue(code, p) : code \in unowned \cup
            CASE Untimed(a) -> IF timed THEN {"temporal_unverified"} ELSE {}
              [] ~Untimed(a) /\ Mislabelled(a) -> {"constraint_mismatch"}
              [] OTHER -> {i[1] : i \in {j \in issues : j[2]}}}

\* The overlaps: each activity with those that follow it, in order of their starts, before
\* one starts when it has ended.
Overlaps(plan) ==
    LET follows(q, p) == \/ At(plan, p).start_at.utc < At(plan, q).start_at.utc
                         \/ /\ At(plan, p).start_at.utc = At(plan, q).start_at.utc
                            /\ Ordered(p, q)
    IN  {pair \in Scheduled(plan) \X Scheduled(plan) :
            /\ follows(pair[2], pair[1])
            /\ At(plan, pair[2]).start_at.utc < At(plan, pair[1]).end_at.utc}

\* A journey keeps its buffers free, and one that departs during the trip is scheduled.
Reserved_Unbuffered(leg) == <<leg.departure.utc, leg.arrival.utc>>
Reserved(leg) == <<leg.departure.utc - leg.before, leg.arrival.utc + leg.after>>
Intrudes(a, leg) ==
    /\ a.journey # leg.id
    /\ a.start_at.utc < Reserved(leg)[2]
    /\ a.end_at.utc > Reserved(leg)[1]

During(plan, m) == plan.start <= DateOf(m) /\ DateOf(m) <= plan.end

When(condition, code) == IF condition THEN {Issue(code, None)} ELSE {}

JourneyIssues(plan, constraints) ==
    UNION {
        {Issue("journey_conflict", p) : p \in {q \in Scheduled(plan) : Intrudes(At(plan, q), leg)}}
        \cup When(During(plan, leg.departure) /\ Legs(plan, leg) = {}, "journey_conflict")
        \cup When(~leg.confirmed, "journey_time_estimated") : leg \in Journeys(constraints)}

\* Each end of a stay that falls in the trip is scheduled.
Ends(stay) == {<<"check_in", stay.check_in>>, <<"check_out", stay.check_out>>}
StayIssues(plan, constraints) ==
    LET missed(s) == {end \in Ends(s) : During(plan, end[2]) /\ Actions(plan, s, end[1]) = {}}
    IN  UNION {When(missed(s) # {}, "hotel_window_conflict") : s \in Stays(constraints)}

\* Journeys that follow one another leave the buffers of both.
ByDeparture(j, k) == j.departure.utc < k.departure.utc
                     \/ (j.departure.utc = k.departure.utc /\ j.id <= k.id)
ConnectionIssues(constraints) ==
    LET legs == SetToSortSeq(Journeys(constraints), ByDeparture)
    IN  UNION {When(Reserved(legs[i])[2] > Reserved(legs[i + 1])[1], "journey_conflict") :
                 i \in 1 .. Len(legs) - 1}

check_timing(plan, constraints) ==
    (UNION {ActivityIssues(plan, constraints, p) : p \in Places(plan)})
    \cup {Issue("time_conflict", pair[2]) : pair \in Overlaps(plan)}
    \cup JourneyIssues(plan, constraints)
    \cup StayIssues(plan, constraints)
    \cup ConnectionIssues(constraints)

\* A night is spent where its midnight falls in a stay or a journey, in their own zones.
Covers(from, until, night, offset) ==
    from.utc <= Midnight(night + 1, offset) /\ Midnight(night + 1, offset) < until.utc
missing_nights(plan, constraints) ==
    {night \in plan.start .. plan.end - 1 :
        /\ ~\E s \in Stays(constraints) : Covers(s.check_in, s.check_out, night, s.check_in.offset)
        /\ ~\E j \in Journeys(constraints) : \E m \in {j.departure, j.arrival} :
                Covers(j.departure, j.arrival, night, m.offset)}
=============================================================================

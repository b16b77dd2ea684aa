------------------------------- MODULE ReviewMC -------------------------------
(* Instance of Review for TLC: trips about closed doors and their repair,   *)
(* hops and their costs, locked days, and journeys, each with the plans a   *)
(* model may propose.  Times are whole or half hours.                       *)
EXTENDS Review

Venues == {"museum", "tavern", "bistro", "hostel", "airport"}
MCNear == {}
MCNameLength == [n \in Venues |-> 6]

Modes == {"WALK", "DRIVE", "TRANSIT", "FLIGHT"}
Stop ==
    [from |-> 0, to |-> 0, category |-> "other", title |-> None, location |-> None,
     mentions |-> {}, highlights |-> {}, serves |-> {}, meal |-> None, way |-> None,
     mode |-> None, hedge |-> FALSE, booked |-> FALSE, diet |-> FALSE, cost |-> 0,
     base |-> None, start_at |-> None, end_at |-> None, journey |-> None, stay |-> None,
     action |-> None]
Visit(where, from, to) == [Stop EXCEPT !.location = where, !.from = from, !.to = to]
Meal(where, from, to) == [Visit(where, from, to) EXCEPT !.category = "food"]
Night(where, from, to) == [Visit(where, from, to) EXCEPT !.category = "accommodation"]
Leg(mode, from, to) ==
    [Stop EXCEPT !.category = "transport", !.mode = mode, !.from = from, !.to = to]

Moment(utc) == [utc |-> utc, offset |-> 0]
Timed2(a, from, to) ==
    [a EXCEPT !.from = from % 1440, !.to = to % 1440,
              !.start_at = Moment(from), !.end_at = Moment(to)]

Plan(days) ==
    [destination |-> "x", start |-> 1, end |-> Len(days), travelers |-> 2, currency |-> "y",
     budget |-> None, timing |-> None, lodging_noted |-> FALSE,
     days |-> [d \in 1 .. Len(days) |-> [date |-> d, activities |-> days[d]]]]

Facts0 == [TripConstraints EXCEPT !.lodging_arranged = TRUE]
Words ==
    [clocked |-> FALSE, lengths |-> FALSE, booked |-> FALSE, diet |-> FALSE, meal |-> FALSE,
     venues |-> {}, restaurants |-> <<>>, hours |-> <<>>, prices |-> <<>>, locked |-> {}]
Free == [fare |-> None, tolls |-> None, currency |-> "y"]
Base ==
    [constraints |-> Facts0, hours |-> <<>>, prices |-> <<>>, removals |-> {}, meals |-> {},
     previous |-> None, scope |-> None, words |-> Words, proposals |-> {},
     seconds |-> [x \in Venues \X Venues \X Modes |-> 600],
     quotes |-> [x \in Venues \X Venues \X Modes |-> Free],
     offsets |-> [n \in Venues |-> 0]]

Clock(h, half) == [hour |-> h, minute |-> 0, half |-> half]
Span(a, b) == [opens |-> a, closes |-> b]
Says(what) == [says |-> what, ranges |-> {}]
Hours(a, b) == [says |-> "ranges", ranges |-> {Span(a, b)}]
Lines == {Says("nothing"), Says("closed"), Hours(Clock(9, "AM"), Clock(5, "PM")),
          Hours(Clock(6, ""), Clock(2, "AM"))}
Always(line) == [k \in {<<"week", n>> : n \in 0 .. 6} |-> line]

-----------------------------------------------------------------------------
\* Closed doors: what a listing says of a day, of the day before and of a date, and visits,
\* one of them over midnight.
Doors ==
    {[Base EXCEPT
        !.hours = [n \in {"museum"} |->
            [k \in {<<"week", 1>>, <<"week", 0>>} \cup {<<"date", 1>> : x \in dated} |->
                CASE k = <<"week", 1>> -> today [] k = <<"week", 0>> -> yesterday
                  [] OTHER -> CHOOSE x \in dated : TRUE]],
        !.proposals = {Plan(<<<<Visit("museum", from, to)>>>>) : <<from, to>> \in
            {<<30, 90>>, <<120, 180>>, <<540, 600>>, <<960, 1080>>, <<1080, 1320>>}}
            \cup {Plan(<<<<Timed2(Visit("museum", 0, 0), 1440 + 1380, 2880 + 60)>>>>)}] :
        today \in Lines, yesterday \in Lines, dated \in {{}} \cup {{l} : l \in Lines}}

\* Repairs: a museum to move, behind a lodging or a leg, and a tavern to swap for a bistro.
Opens(from, to) == Hours(Clock(from, "AM"), Clock(to, "PM"))
Cheap(low) == [low |-> low, high |-> low, currency |-> "y"]
Repairs_Of(words) ==
    [Base EXCEPT
        !.hours = [n \in {"museum", "tavern", "hostel"} |->
            CASE n = "museum" -> Always(Opens(9, 3)) [] n = "tavern" -> Always(Says("closed"))
              [] OTHER -> Always(Says("24 hours"))],
        !.prices = [n \in {"tavern"} |-> Cheap(1000)],
        !.words = [words EXCEPT !.restaurants =
            <<[name |-> "bistro", address |-> "a", hours |-> Always(Says("24 hours")),
               price |-> Cheap(900)]>>],
        !.proposals =
            {Plan(<<<<Visit("museum", 480, 510), Visit("hostel", 480, 600)>>>>)}
            \cup {Plan(<<<<first, Leg("WALK", 780, 840), Visit("museum", 900, 960)>>>>) :
                    first \in {Visit("hostel", 720, 780), Night("hostel", 720, 780),
                               [Visit("hostel", 720, 780) EXCEPT !.booked = TRUE]}}
            \cup {Plan(<<<<first, Visit("museum", 840, 960), Visit("airport", 990, 1050)>>>>) :
                    first \in {Visit("hostel", 660, 810), Night("hostel", 660, 810)}}
            \cup {Plan(<<<<Visit("hostel", 540, 600), Meal("tavern", 720, 780)>>>>)}]
Repairs ==
    {Repairs_Of([Words EXCEPT !.clocked = clocked, !.venues = venues]) :
        clocked \in BOOLEAN, venues \in {{}, {"hostel", "tavern"}}}

\* Hops: a time the maps give or not, a leg between the stops or none, and its tolls; and
\* a hop by car after a tight one on foot between the same places.
Hop2(leg, gap) ==
    Plan(<<<<Visit("museum", 540, 600)>> \o leg \o <<Meal("tavern", 600 + gap, 690 + gap)>>>>)
Tolled(legs) == [n \in DOMAIN legs |-> [legs[n] EXCEPT !.base = 500, !.cost = 800]]
Travel ==
    {[Base EXCEPT
        !.constraints.allowed_modes = modes,
        !.seconds = [x \in Venues \X Venues \X Modes |-> seconds],
        !.quotes = [x \in Venues \X Venues \X Modes |->
            [fare |-> 200, tolls |-> tolls, currency |-> "y"]],
        !.offsets = [n \in Venues |-> offset],
        !.prices = [n \in {"tavern"} |-> Cheap(1000)],
        !.proposals = {Hop2(leg, gap) : gap \in {0, 30}, leg \in
            {<<>>, <<Leg("DRIVE", 600, 630)>>, Tolled(<<Leg("DRIVE", 600, 630)>>),
             <<Leg("TRANSIT", 600, 630)>>}}
            \cup {Plan(<<<<Visit("museum", 540, 600), Visit("tavern", 605, 660),
                          Visit("museum", 700, 760), Leg("DRIVE", 760, 770),
                          Visit("tavern", 770, 800)>>>>)}] :
        modes \in {None, {"WALK", "TRANSIT"}}, seconds \in {None, 600, 1501},
        tolls \in {None, <<>>, <<100, 200>>}, offset \in {None, 0}}

\* Edits: the second day is kept, and the model rewrote both or returned one.
Old == Plan(<<<<Meal("tavern", 720, 780)>>,
              <<[Meal("tavern", 720, 780) EXCEPT !.highlights = {"museum"}, !.cost = 7]>>>>)
Edits ==
    {[Base EXCEPT
        !.previous = Old,
        !.scope = [editable_days |-> {1}, locked_days |-> locked, editable_frame |-> {}],
        !.removals = {[venue |-> "museum", day |-> None]},
        !.prices = [n \in {"tavern"} |-> Cheap(low)],
        !.proposals = {Plan(<<<<Meal("tavern", 720, 780)>>>>),
            Plan(<<<<Visit("bistro", 540, 600)>>, <<Visit("museum", 540, 600)>>>>)}] :
        locked \in {{2}, {1}}, low \in {1000, 2000}}

\* Journeys: a flight with its buffers, scheduled or not, and visits around it.
Flight(from, to) ==
    [Timed2(Leg("FLIGHT", 0, 0), from, to) EXCEPT !.journey = "f", !.location = "airport"]
Noon == 1440 + 720
Journeying ==
    {[Base EXCEPT
        !.constraints.journeys =
            {[id |-> "f", mode |-> "FLIGHT", origin |-> "airport", destination |-> "hostel",
              departure |-> Moment(Noon), arrival |-> Moment(Noon + 120),
              before |-> before, after |-> 30, confirmed |-> TRUE]},
        !.proposals =
            {Plan(<<<<Timed2(Visit("museum", 0, 0), start, start + 60)>> \o flight>>) :
                start \in {Noon - 120, Noon - 90, Noon - 60, Noon + 120, Noon + 150},
                flight \in {<<>>, <<Flight(Noon, Noon + 120)>>, <<Flight(Noon, Noon + 60)>>,
                            <<Flight(Noon, Noon + 120), Flight(Noon, Noon + 120)>>}}] :
        before \in {0, 60}}

MCTrips == Doors \cup Repairs \cup Travel \cup Edits \cup Journeying
=============================================================================

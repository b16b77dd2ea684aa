------------------------------- MODULE Revision -------------------------------
(***************************************************************************)
(* agent/revision.py and agent/constraints.py: what the words of a request *)
(* say about the plan it revises and about the trip, and how little of     *)
(* either a model may change.                                              *)
(*                                                                         *)
(* The two text readers are their result, a record called words:           *)
(*   new                starts_new_trip                                    *)
(*   days_named, days_kept      "day N", "keep day N unchanged"            *)
(*   frame, frame_kept          parts of the frame named, named to be kept *)
(*   removals                   venues, each with its day or None          *)
(*   budget, unit, days, travelers, modes, lodging, arrival, stays,        *)
(*   journeys                   what was read, None without a match        *)
(*   dates                      the sequence of calendar dates in the text *)
(* Days of a plan are 1-based here and dates are numbers.                  *)
(***************************************************************************)
EXTENDS Timing

\* The fields of the frame under the names a request gives them; both dates are one.
Frame == [destination |-> {"destination"}, dates |-> {"start", "end"},
          travelers |-> {"travelers"}, currency |-> {"currency"}, budget |-> {"budget"}]

\* Explicit clauses only: a day that is named may change, and then no other may.
resolve_revision_scope(words, day_count) ==
    LET valid == 1 .. day_count
        kept == words.days_kept \cap valid
        editable == (words.days_named \ kept) \cap valid
    IN  [editable_days |-> editable,
         locked_days |-> IF editable = {} THEN kept ELSE valid \ editable,
         editable_frame |-> UNION {Frame[name] : name \in words.frame \ words.frame_kept}]

\* What the model is shown of the old plan: locked days keep their place and date only.
revision_payload(previous, scope) ==
    [previous EXCEPT !.days =
        [d \in DOMAIN @ |-> IF d \in scope.locked_days
                            THEN [@[d] EXCEPT !.activities = <<>>] ELSE @[d]]]

\* Recommendations that name a removed venue are dropped, a visit to it never.
prune_removed_recommendations(plan, removals, locked) ==
    LET names(d) == {r.venue : r \in {x \in removals : x.day \in {None, d}}}
        visit(d, a) == [a EXCEPT !.highlights = @ \ names(d)]
        pruned(d, day) == [day EXCEPT !.activities = [i \in DOMAIN @ |-> visit(d, @[i])]]
    IN  [plan EXCEPT !.days = [d \in DOMAIN @ |->
            IF d \in locked THEN @[d] ELSE pruned(d, @[d])]]

\* Everything the request did not authorise is the old plan's again.  Days are matched by
\* their place, so with a locked day the plan keeps its length.  The dates go together, so
\* the result is a plan again.
Merged_ByCandidate(candidate, previous, locked) ==
    [d \in DOMAIN candidate.days |->
        IF d \in locked THEN previous.days[d] ELSE candidate.days[d]]
Merged(candidate, previous, locked) ==
    [d \in DOMAIN previous.days |->
        IF d \in locked \/ d > Len(candidate.days) THEN previous.days[d] ELSE candidate.days[d]]

enforce_revision_scope(candidate, previous, scope) ==
    IF candidate = None \/ previous = None \/ scope = None THEN candidate
    ELSE LET restored == (UNION {Frame[name] : name \in DOMAIN Frame}) \ scope.editable_frame
             framed == [f \in DOMAIN candidate |->
                          IF f \in restored THEN previous[f] ELSE candidate[f]]
         IN  IF scope.locked_days = {} THEN framed
             ELSE [framed EXCEPT !.days = Merged(candidate, previous, scope.locked_days)]

-----------------------------------------------------------------------------
(* The facts of a trip that the request owns. *)

TripConstraints ==
    [f \in {"budget", "currency", "start", "end", "days", "travelers", "allowed_modes",
            "lodging_arranged", "weather_fallback", "arrival", "stays", "journeys"} |-> None]

UniqueIds(items) == items # None => \A i, j \in items : i.id = j.id => i = j
consistent_dates(v) ==
    /\ UniqueIds(v.stays) /\ UniqueIds(v.journeys)
    /\ v.start # None /\ v.end # None =>
            v.start <= v.end /\ (v.days # None => v.days = v.end - v.start + 1)
    /\ v.days # None => v.days \in 1 .. 60
    /\ v.travelers # None => v.travelers \in 1 .. 100

Or(said, kept) == IF said # None THEN said ELSE kept

\* A length moves the end of a trip whose dates are both known.
WithDuration(v, days) ==
    IF days = None THEN v
    ELSE [v EXCEPT !.days = days,
                   !.end = IF v.start # None /\ v.end # None THEN v.start + days - 1 ELSE @]

\* One date is a start, two are the trip; more say nothing.
WithDates(v, dates) ==
    CASE Len(dates) = 1 ->
            [v EXCEPT !.start = dates[1],
                      !.end = IF v.days # None /\ v.days # 0 THEN dates[1] + v.days - 1 ELSE @]
      [] Len(dates) = 2 ->
            [v EXCEPT !.start = dates[1], !.end = dates[2], !.days = dates[2] - dates[1] + 1]
      [] OTHER -> v

\* What the text says, over what was known before; a new trip starts from nothing.
Heard_Afresh(words, previous) == TripConstraints
Heard(words, previous) == IF previous = None \/ words.new THEN TripConstraints ELSE previous

Read(words, previous, currency) ==
    LET kept == Heard(words, previous)
        dated == WithDates(WithDuration(kept, words.days), words.dates)
    IN  [dated EXCEPT
            !.budget = Or(words.budget, @),
            !.currency = Or(Or(words.unit, @), currency),
            !.travelers = Or(words.travelers, @),
            !.allowed_modes = Or(words.modes, @),
            !.lodging_arranged = Or(words.lodging, @),
            !.arrival = Or(words.arrival, @),
            !.stays = Or(words.stays, @),
            !.journeys = Or(words.journeys, @)]

\* Structured input, a function on the fields that were set, has the last word.  What
\* is not consistent is a pydantic ValidationError instead.
resolve_constraints(words, previous, confirmed, currency) ==
    LET read == Read(words, previous, currency)
    IN  [f \in DOMAIN read |-> IF f \in DOMAIN confirmed THEN confirmed[f] ELSE read[f]]
=============================================================================

--------------------------- MODULE ScheduleRepair ---------------------------
(***************************************************************************)
(* agent/schedule_repair.py: plans that differ from one with closed doors  *)
(* by a few moves, proposed from the hours and prices the run observed.    *)
(*                                                                         *)
(* A context ctx holds what hours_candidates is given beside the plan: the *)
(* hours and prices by venue, the restaurants seen (name, address, hours   *)
(* and price), the locked days, and the facts the code reads from the      *)
(* request's text: clocked (it names a clock time), lengths (it names      *)
(* a duration), booked, diet, meal (a meal at, to, with or for something)  *)
(* and venues, those it names.                                             *)
(***************************************************************************)
EXTENDS Validation, Lists

MAX_CANDIDATES == 4
MAX_CHANGED_ACTIVITIES == 3
MAX_REFLOWED_ACTIVITIES == 6

\* The meal a title declares, as the band it belongs in.
_meal(a) ==
    CASE a.meal \in {"breakfast", "brunch"} -> <<6 * 60, 12 * 60>>
      [] a.meal = "lunch" -> <<11 * 60, 16 * 60>>
      [] a.meal = "dinner" -> <<17 * 60, 24 * 60>>
      [] OTHER -> <<0, 24 * 60>>

\* The name the lookup matches, not what is known of it.
NameIn(a, hours) == _match_known(a, [name \in DOMAIN hours |-> name])

Reserved_By(a, ctx) == ctx.booked \/ a.booked

\* An alternative to a visit is when it is instead, and the place it is replaced by or None.
Moved(a, alternative) ==
    LET timed == [a EXCEPT !.from = alternative.from, !.to = alternative.to]
    IN  IF alternative.place = None THEN timed
        ELSE [timed EXCEPT !.location = alternative.place, !.mentions = {alternative.place},
                           !.title = None, !.highlights = {}, !.booked = FALSE]

\* The same visit moved as little as possible into one of the windows of its day, None when
\* it does not fit or need not move.
RetimedInto(a, w) ==
    LET length == a.to - a.from
        lower == Max({w[1], 6 * 60, _meal(a)[1]})
        upper == Min({w[2], 23 * 60 + 59, _meal(a)[2]}) - length
        start == Max({lower, Min({a.from, upper})})
    IN  IF lower > upper \/ start = a.from THEN None
        ELSE [from |-> start, to |-> start + length, place |-> None]

WindowsOf(a, d, hours) ==
    LET known(windows) == IF windows = None THEN {} ELSE windows
        of(listing) == IF listing = None THEN {} ELSE known(windows_for(listing, d))
    IN  of(_match_known(a, hours))

Earlier(v, w) == v[1] < w[1] \/ (v[1] = w[1] /\ v[2] < w[2])
RetimedIntoEach(a, windows) ==
    LET list == Listed(windows, [w \in windows |-> {v \in windows : Earlier(v, w)}])
    IN  [k \in DOMAIN list |-> RetimedInto(a, list[k])]
Retimings(a, d, ctx) ==
    IF ctx.clocked THEN <<>>
    ELSE RetimedIntoEach(a, {w \in WindowsOf(a, d, ctx.hours) : RetimedInto(a, w) # None})

\* Another restaurant, open for that visit and no dearer, where nothing ties the meal to one.
Replaceable(a, ctx) ==
    LET old == NameIn(a, ctx.hours) IN
    /\ a.category = "food"
    /\ old # None
    /\ old \notin ctx.venues
    /\ ~ctx.meal /\ ~ctx.diet /\ ~a.diet

NoDearer(a, place, ctx) ==
    LET old == _match_known(a, ctx.prices)
    IN  /\ range_average(old) # None
        /\ range_average(place.price) # None
        /\ place.price.currency = old.currency
        /\ range_average(place.price) <= range_average(old)

OpenFor(a, d, place) ==
    LET fits(windows) == windows # None /\ \E w \in windows : w[1] <= a.from /\ a.to <= w[2]
    IN  fits(windows_for(place.hours, d))

\* A name seen at two addresses says nothing about either.
_observed_restaurants(seen) ==
    {place \in ToSet(seen) : \A other \in ToSet(seen) :
                                other.name = place.name => other.address = place.address}

Replacements(a, d, ctx) ==
    LET listed(places) ==
            [k \in DOMAIN places |-> [from |-> a.from, to |-> a.to, place |-> places[k].name]]
        fit == {place \in _observed_restaurants(ctx.restaurants) :
                  /\ place.name # NameIn(a, ctx.hours)
                  /\ NoDearer(a, place, ctx)
                  /\ OpenFor(a, d, place)}
    IN  IF Replaceable(a, ctx) THEN listed(Only(ctx.restaurants, fit)) ELSE <<>>

FirstOf(seq, n) == SubSeq(seq, 1, Min({n, Len(seq)}))

_options(a, d, ctx) ==
    IF a.start_at # None \/ Reserved_By(a, ctx) THEN <<>>
    ELSE FirstOf(Retimings(a, d, ctx) \o Replacements(a, d, ctx), MAX_CANDIDATES)

-----------------------------------------------------------------------------
(* Making room: the stops before a visit that moved earlier move earlier too. *)

Least(a) ==
    LET length == a.to - a.from IN
    CASE a.category = "transport" -> length
      [] a.category = "rest" -> Min({length, 15})
      [] OTHER -> Min({length, 30})

ClosedFor(listing, d, start, end) == listing # None /\ closed_reason(listing, d, start, end)

\* A stop that may not be moved, or not to where it would have to go.
Fixed_NotLodging(a, ctx) == Reserved_By(a, ctx) \/ NameIn(a, ctx.hours) \in ctx.venues
Fixed(a, ctx) ==
    \/ a.category = "accommodation"
    \/ Reserved_By(a, ctx)
    \/ NameIn(a, ctx.hours) \in ctx.venues
Misplaced(a, d, ctx, start, end) ==
    \/ start < 6 * 60
    \/ start < _meal(a)[1]
    \/ end > _meal(a)[2]
    \/ ClosedFor(_match_known(a, ctx.hours), d, start, end)

\* One step of the walk from the moved visit to the start of the day; walk has the times
\* so far, None once the proposal is given up, and done once a stop has room already.
Pushed(walk, day, before, i, ctx) ==
    LET a == day.activities[i]
        gap == Max({0, before[i + 1].from - before[i].to})
        end == walk.times[i + 1].from - gap
        start == Min({a.from, end - Least(a)})
    IN  CASE walk.done \/ walk.times = None -> walk
          [] walk.times # None /\ ~walk.done /\ a.to <= end -> [walk EXCEPT !.done = TRUE]
          [] OTHER -> IF Fixed(a, ctx) \/ Misplaced(a, day.date, ctx, start, end)
                      THEN [walk EXCEPT !.times = None]
                      ELSE [walk EXCEPT !.times = [@ EXCEPT ![i] = [from |-> start, to |-> end]]]

\* The walk from the visit n down to each stop before it.
Walk(day, before, n, ctx) ==
    LET times == [i \in DOMAIN day.activities |->
                    [from |-> day.activities[i].from, to |-> day.activities[i].to]]
        walk[i \in 1 .. n] == IF i = n THEN [times |-> times, done |-> FALSE]
                              ELSE Pushed(walk[i + 1], day, before, i, ctx)
    IN  walk

Reflowed(plan, original) ==
    {p \in Places(plan) : \/ At(plan, p).from # At(original, p).from
                          \/ At(plan, p).to # At(original, p).to}

_backfill_prefix(changed, original, p, ctx) ==
    LET room(times) == [changed EXCEPT !.days[p[1]].activities = [i \in DOMAIN @ |->
                           [@[i] EXCEPT !.from = times[i].from, !.to = times[i].to]]]
        few(plan) == IF Cardinality(Reflowed(plan, original)) > MAX_REFLOWED_ACTIVITIES
                     THEN None ELSE plan
        made(times) == IF ctx.clocked \/ ctx.lengths \/ times = None THEN None
                       ELSE few(room(times))
    IN  made(Walk(changed.days[p[1]], original.days[p[1]].activities, p[2], ctx)[1].times)

-----------------------------------------------------------------------------
(* The search: every closed visit in turn, at most four plans at a time. *)

ClosedAt(plan, p, ctx) ==
    LET a == At(plan, p) IN
    /\ ~_is_transport(a)
    /\ ClosedFor(_match_known(a, ctx.hours), plan.days[p[1]].date, a.from, a.to)

Targets(plan, ctx) ==
    LET listed(closed) == Listed(closed, [p \in closed |-> {q \in closed : Ordered(q, p)}])
    IN  listed({p \in Places(plan) : ClosedAt(plan, p, ctx)})

Conflicted(plan) ==
    \E d \in Days(plan) : \E v \in _check_day(plan.days[d]) : v.code = "time_conflict"
\* Absolute activities overlap in check_timing, with the timing the plan carries.
Conflicts(plan) == Conflicted(plan) \/ Overlaps(plan) # {}

\* A move that overlaps an unrelated stop is kept only if it moved the visit earlier and
\* the stops before it could make room.
Accepted(plan, original, p, alternative, ctx) ==
    LET changed == [plan EXCEPT !.days[p[1]].activities[p[2]] = Moved(@, alternative)]
        clear(room) == IF room = None \/ Conflicts(room) THEN None ELSE room
    IN  IF ~Conflicts(changed) THEN changed
        ELSE IF alternative.from >= At(plan, p).from THEN None
        ELSE clear(_backfill_prefix(changed, original, p, ctx))

\* Every plan with every alternative to the visit, the plans one after another, up to four
\* that are kept.
Expanded(plans, original, p, ctx) ==
    LET kept(plan, options, j) ==
            IF j \in DOMAIN options THEN Accepted(plan, original, p, options[j], ctx) ELSE None
        tried(plan, j) == kept(plan, _options(At(plan, p), plan.days[p[1]].date, ctx), j)
        first(found) == FirstOf(Only(found, ToSet(found) \ {None}), MAX_CANDIDATES)
    IN  first([n \in 1 .. Len(plans) * MAX_CANDIDATES |->
                tried(plans[1 + ((n - 1) \div MAX_CANDIDATES)], 1 + ((n - 1) % MAX_CANDIDATES))])

\* There are no more than three visits to move.
hours_candidates(plan, ctx) ==
    LET after(plans, targets, k) ==
            IF k \in DOMAIN targets THEN Expanded(plans, plan, targets[k], ctx) ELSE plans
        all(targets) ==
            IF \/ targets = <<>>
               \/ Len(targets) > MAX_CHANGED_ACTIVITIES
               \/ \E k \in DOMAIN targets : targets[k][1] \in ctx.locked
            THEN <<>>
            ELSE after(after(after(<<plan>>, targets, 1), targets, 2), targets, 3)
    IN  all(Targets(plan, ctx))
=============================================================================

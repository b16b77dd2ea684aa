---------------------------- MODULE OpeningHours ----------------------------
(***************************************************************************)
(* agent/opening_hours.py: reading the opening hours Google shows and      *)
(* deciding whether a visit falls inside them.                             *)
(*                                                                         *)
(* A day is a number, its weekday that number modulo seven, a time of day  *)
(* minutes since midnight.  A listing maps the keys it has a line for to   *)
(* what the line says: <<"week", 0..6>> for a weekday, <<"date", d>> for a *)
(* date Google observed.  A line says "closed", "24 hours", "nothing" or   *)
(* "ranges", a set of [opens, closes] of clock texts.  A set of windows    *)
(* stands for the code's list, as only its sorted merge is ever read.      *)
(***************************************************************************)
EXTENDS Integers, FiniteSets, Sequences, SequencesExt

CONSTANT None    \* a text that could not be read, a day without hours, nothing known

MinutesInDay == 1440

\* A clock text: [hour, minute, half], half being "AM", "PM" or "" for none.
HourOf12(c) == IF c.half = "PM" THEN (c.hour % 12) + 12 ELSE c.hour % 12

_minutes(c) ==
    IF c.half # ""
    THEN IF c.hour \in 1..12 /\ c.minute <= 59 THEN HourOf12(c) * 60 + c.minute ELSE None
    ELSE IF c.hour <= 24 /\ c.minute <= 59 /\ (c.hour = 24 => c.minute = 0)
         THEN c.hour * 60 + c.minute
         ELSE None

\* An opening time without AM or PM takes the latest reading still before closing.
Borrowed(opens, closes) ==
    {m \in {_minutes([opens EXCEPT !.half = half]) : half \in {"AM", "PM"}} \ {None} :
        m < closes}

StartOf(range) ==
    LET latest(candidates) ==
            IF _minutes(range.closes) # None /\ range.opens.half = "" /\ range.closes.half # ""
               /\ candidates # {}
            THEN Max(candidates)
            ELSE _minutes(range.opens)
    IN  latest(Borrowed(range.opens, _minutes(range.closes)))

\* A window that ends before it starts runs into the next day.
WindowOf(range) ==
    LET window(start, end) ==
            IF start = None \/ end = None \/ start = end
            THEN None
            ELSE <<start, IF end < start THEN end + MinutesInDay ELSE end>>
    IN  window(StartOf(range), _minutes(range.closes))

\* One range that cannot be read makes the whole line unread.
_windows(line) ==
    CASE line.says = "nothing" -> None
      [] line.says = "closed" -> {}
      [] line.says = "24 hours" -> {<<0, MinutesInDay>>}
      [] line.says = "ranges" ->
            LET read(windows) == IF None \in windows \/ windows = {} THEN None ELSE windows
            IN  read({WindowOf(range) : range \in line.ranges})

\* Lines that cannot be read are skipped, never taken for closures.
parse(listing) ==
    [key \in {k \in DOMAIN listing : _windows(listing[k]) # None} |-> _windows(listing[key])]

Lookup(hours, key) == IF key \in DOMAIN hours THEN hours[key] ELSE None
Weekday(d) == <<"week", d % 7>>

\* Windows that touch or overlap become one: from an opening that none reaches to the first
\* closing that none passes.
Openings(windows) ==
    {w[1] : w \in {v \in windows : ~\E u \in windows : u[1] < v[1] /\ v[1] <= u[2]}}
Closings(windows) ==
    {w[2] : w \in {v \in windows : ~\E u \in windows : u[1] <= v[2] /\ v[2] < u[2]}}
_merge_windows(windows) ==
    {w \in Openings(windows) \X Closings(windows) :
        w[1] <= w[2] /\ ~\E end \in Closings(windows) : w[1] <= end /\ end < w[2]}

\* What is left of today's windows before midnight, and what yesterday's left for today.
Spill_Dropped(previous) == {}
Spill(previous) ==
    IF previous = None
    THEN {}
    ELSE {<<0, w[2] - MinutesInDay>> : w \in {v \in previous : v[2] > MinutesInDay}}

_daily_windows(current, previous) ==
    IF current = None
    THEN None
    ELSE _merge_windows({<<w[1], Min({w[2], MinutesInDay})>> : w \in current} \cup Spill(previous))

\* A date Google observed overrides the weekday on that date, and is all that counts there.
windows_for(listing, d) ==
    LET on(hours) ==
            LET observed == Lookup(hours, <<"date", d>>)
                yesterday == Lookup(hours, <<"date", d - 1>>)
            IN  IF observed # None
                THEN _daily_windows(observed, None)
                ELSE _daily_windows(Lookup(hours, Weekday(d)),
                                    IF yesterday # None THEN yesterday
                                    ELSE Lookup(hours, Weekday(d - 1)))
    IN  on(parse(listing))

Shifted(windows) == {<<w[1] + MinutesInDay, w[2] + MinutesInDay>> : w \in windows}

\* TRUE when there are hours and the visit does not fit them.  A visit that ends before it
\* starts runs into the next day, whose windows are appended.
closed_reason(listing, d, start, end) ==
    LET late == end < start
        until == IF late THEN end + MinutesInDay ELSE end
        unfit(today, tomorrow) ==
            /\ today # None
            /\ late => tomorrow # None
            /\ ~\E w \in IF late THEN _merge_windows(today \cup Shifted(tomorrow)) ELSE today :
                    w[1] <= start /\ until <= w[2]
    IN  unfit(windows_for(listing, d), windows_for(listing, d + 1))
=============================================================================

------------------------------ MODULE DialogueMC ------------------------------
(* Instance of Dialogue for TLC: messages with a date, a party, a day to    *)
(* change or keep, a frame field or a new trip in them.                     *)
EXTENDS Dialogue

CONSTANTS old, new

MCSilence ==
    [new |-> FALSE, days_named |-> {}, days_kept |-> {}, frame |-> {}, frame_kept |-> {},
     removals |-> {}, budget |-> None, unit |-> None, days |-> None, travelers |-> None,
     modes |-> None, lodging |-> None, arrival |-> None, stays |-> None, journeys |-> None,
     dates |-> <<>>]

MCMessages ==
    {MCSilence,
     [MCSilence EXCEPT !.dates = <<3>>],
     [MCSilence EXCEPT !.dates = <<5>>],
     [MCSilence EXCEPT !.travelers = 2, !.days = 2],
     [MCSilence EXCEPT !.travelers = 3, !.days = 0],
     [MCSilence EXCEPT !.new = TRUE, !.travelers = 3],
     [MCSilence EXCEPT !.days_kept = {2}, !.frame = {"dates"}],
     [MCSilence EXCEPT !.days_named = {1}]}
MCQuestions == {MCSilence, [MCSilence EXCEPT !.days_named = {2}]}

Trip(start, end, days) ==
    [destination |-> "x", start |-> start, end |-> end, travelers |-> 1, currency |-> "y",
     budget |-> None, timing |-> None, days |-> days]
MCCandidates ==
    {Trip(3, 4, <<old, old>>), Trip(5, 7, <<new, new, new>>),
     [Trip(1, 1, <<new>>) EXCEPT !.timing = [arrival |-> None, stays |-> {[id |-> 1]}, journeys |-> None]]}
=============================================================================

------------------------------- MODULE Dialogue -------------------------------
(***************************************************************************)
(* The conversation between a traveller and the planner, turn by turn.     *)
(*                                                                         *)
(* The service remembers nothing: the app sends back the plan, the         *)
(* constraints and the pending question of its last rounds                 *)
(* (PlanViewModel.kt), PlanRequest refuses what contradicts itself         *)
(* (main.py), and stream_plan puts a reply behind the request it answers   *)
(* before it reads either (agent/orchestrator.py).  A turn is one round    *)
(* that came back; rounds lost on the way change nothing here.             *)
(***************************************************************************)
EXTENDS Revision

CONSTANTS
    Messages,    \* the words records of the messages a traveller may send
    Questions,   \* the words records of the questions a model may ask
    WeatherDays, \* days past the forecast that a question may be about
    Candidates,  \* plans a model may propose
    Silence,     \* the words record of a text the readers find nothing in
    MaxRounds    \* bound on the rounds of a conversation

DialogueAssumption == /\ Silence \in Messages /\ Silence \in Questions
                      /\ MaxRounds \in Nat
ASSUME DialogueAssumption

\* A plan carries the timing of constraints that were accepted, so no id in it twice.
UniqueTiming(p) ==
    p # None /\ p.timing # None => UniqueIds(p.timing.stays) /\ UniqueIds(p.timing.journeys)

CandidatesAssumption ==
    \A candidate \in Candidates :
        /\ candidate # None /\ {"days", "timing"} \subseteq DOMAIN candidate
        /\ Len(candidate.days) \in Nat
        /\ DOMAIN candidate.days = 1 .. Len(candidate.days)
        /\ UniqueTiming(candidate)
ASSUME CandidatesAssumption

FrameAssumption ==
    /\ \A w \in Messages \cup Questions : w.frame \subseteq DOMAIN Frame
    /\ None \notin [editable_days : SUBSET Nat, locked_days : SUBSET Nat,
                    editable_frame : SUBSET UNION {Frame[name] : name \in DOMAIN Frame}]
ASSUME FrameAssumption

VARIABLES
    plan,      \* latestItinerary: the plan a follow-up edits
    facts,     \* constraintsBefore: the constraints of the last round
    pending,   \* continuationBefore: [text, asked, dates] of an open question
    consented, \* days whose seasonal weather was confirmed in this trip (history)
    last,      \* how the last round ended: [outcome, words, text]
    rounds

vars == <<plan, facts, pending, consented, last, rounds>>

NoRound == [outcome |-> "none", words |-> Silence, text |-> Silence]

Init == /\ plan = None /\ facts = None /\ pending = None
        /\ consented = {} /\ last = NoRound /\ rounds = 0

-----------------------------------------------------------------------------
\* The words of one text behind another: most readers stop at the first match, the
\* clauses about lodging are read to the end.
Behind(a, b) ==
    [new |-> a.new,
     days_named |-> a.days_named \cup b.days_named,
     days_kept |-> a.days_kept \cup b.days_kept,
     frame |-> a.frame \cup b.frame,
     frame_kept |-> a.frame_kept \cup b.frame_kept,
     removals |-> a.removals \cup b.removals,
     budget |-> Or(a.budget, b.budget), unit |-> IF a.budget # None THEN a.unit ELSE b.unit,
     days |-> Or(a.days, b.days), travelers |-> Or(a.travelers, b.travelers),
     modes |-> IF {"WALK"} \in {a.modes, b.modes} THEN {"WALK"} ELSE Or(a.modes, b.modes),
     lodging |-> Or(b.lodging, a.lodging), arrival |-> Or(a.arrival, b.arrival),
     stays |-> Or(a.stays, b.stays), journeys |-> Or(a.journeys, b.journeys),
     dates |-> a.dates \o b.dates]

\* A saved plan from before constraints were kept brings those it was scheduled by.
PlanTiming ==
    IF plan = None \/ plan.timing = None THEN None
    ELSE [TripConstraints EXCEPT !.arrival = plan.timing.arrival,
                                 !.stays = plan.timing.stays,
                                 !.journeys = plan.timing.journeys]

Answering_Always(w) == pending # None
Answering(w) == pending # None /\ ~w.new

\* The facts before this message, those of the request it answers read again.
Before(w) ==
    LET known == Or(facts, PlanTiming)
    IN  IF Answering(w) THEN resolve_constraints(pending.text, known, <<>>, None) ELSE known

Text(w) ==
    IF Answering(w) THEN Behind(Behind(pending.text, pending.asked), w) ELSE w

Approved_Answered(w, consent) == IF Answering(w) THEN pending.dates ELSE {}
Approved(w, consent) == IF Answering(w) /\ consent THEN pending.dates ELSE {}

\* What the run takes from the message, over what was known.
Heeded(w) == resolve_constraints(w, IF Text(w).new THEN None ELSE Before(w), <<>>, None)

Raises(w) == \/ Answering(w) /\ ~consistent_dates(Before(w))
             \/ ~consistent_dates(Heeded(w))

\* The constraints of the run, the plan it revises and what it may change there.
Understood(w, consent) ==
    LET fresh == Text(w).new
        read == Heeded(w)
        dates == Approved(w, consent) \cup Or(read.weather_fallback, {})
    IN  [constraints |-> IF dates = {} THEN read
                         ELSE [read EXCEPT !.weather_fallback = dates],
         previous |-> IF fresh THEN None ELSE plan,
         scope |-> IF fresh \/ plan = None THEN None
                   ELSE resolve_revision_scope(Text(w), Len(plan.days))]

\* PlanRequest reads the message alone, over the constraints that came with it.
check_constraints(w) == consistent_dates(resolve_constraints(w, facts, <<>>, None))

\* The app confirms the weather when the whole message is a yes.
ConfirmsWeather(w) ==
    IF w = Silence /\ pending # None /\ pending.dates # {} THEN BOOLEAN ELSE {FALSE}

-----------------------------------------------------------------------------
Closes(outcome, w) == /\ last' = [outcome |-> outcome, words |-> w, text |-> Text(w)]
                      /\ rounds' = rounds + 1

Consents(w, consent) ==
    consented' = (IF Text(w).new THEN {} ELSE consented)
                 \cup (IF consent THEN pending.dates ELSE {})

Refused(w) == /\ ~check_constraints(w)
              /\ Closes("refused", w)
              /\ UNCHANGED <<plan, facts, pending, consented>>

\* A ValidationError inside the run is no PlanningError: the round ends without a result
\* and without an error event.
Failed(w) ==
    /\ Raises(w)
    /\ Closes("failed", w)
    /\ UNCHANGED <<plan, facts, pending, consented>>

Asks(w, consent) ==
    /\ ~Raises(w)
    /\ facts' = Understood(w, consent).constraints
    /\ \E asked \in Questions, dates \in SUBSET WeatherDays :
            pending' = [text |-> Text(w), asked |-> asked, dates |-> dates]
    /\ Consents(w, consent)
    /\ Closes("question", w)
    /\ UNCHANGED plan

WithTiming(itinerary, c) ==
    LET given == c.arrival # None \/ c.stays # None \/ c.journeys # None
    IN  [itinerary EXCEPT !.timing =
            IF given THEN [arrival |-> c.arrival, stays |-> c.stays, journeys |-> c.journeys]
            ELSE None]

Plans(w, consent) ==
    LET run == Understood(w, consent) IN
    /\ ~Raises(w)
    /\ \E candidate \in Candidates :
          plan' = WithTiming(enforce_revision_scope(candidate, run.previous, run.scope),
                           run.constraints)
    /\ facts' = run.constraints
    /\ pending' = None
    /\ Consents(w, consent)
    /\ Closes("plan", w)

\* A round without plan or question: the app keeps its constraints, not its question.
NoItinerary(w) ==
    /\ ~Raises(w)
    /\ pending' = None
    /\ Closes("no_itinerary", w)
    /\ UNCHANGED <<plan, facts, consented>>

Send == /\ rounds < MaxRounds
        /\ \E w \in Messages :
             \/ Refused(w)
             \/ /\ check_constraints(w)
                /\ \/ Failed(w)
                   \/ \E consent \in ConfirmsWeather(w) :
                         Asks(w, consent) \/ Plans(w, consent) \/ NoItinerary(w)

\* A plan from the library, whose round may be from before constraints were kept.
ReviseSaved ==
    /\ last = NoRound /\ plan = None
    /\ \E saved \in Candidates : plan' = saved
    /\ UNCHANGED <<facts, pending, consented, last, rounds>>

StartNewConversation ==
    /\ plan' = None /\ facts' = None /\ pending' = None
    /\ consented' = {} /\ last' = NoRound
    /\ UNCHANGED rounds

Next == Send \/ ReviseSaved \/ StartNewConversation

Spec == Init /\ [][Next]_vars

-----------------------------------------------------------------------------
\* Facts that a message does not speak of are what they were.
Keeps(w, before, after) ==
    /\ w.budget = None => after.budget = before.budget
    /\ w.travelers = None => after.travelers = before.travelers
    /\ w.modes = None => after.allowed_modes = before.allowed_modes
    /\ w.dates = <<>> => after.start = before.start
    /\ w.dates = <<>> /\ w.days = None => after.end = before.end /\ after.days = before.days

Told == last'.outcome \in {"plan", "question"} /\ rounds' > rounds

(* A follow-up without an open question changes only the facts it speaks   *)
(* of, over any number of turns: "Keep prior request facts unless this     *)
(* request explicitly replaces them" (resolve_constraints).                *)
UnsaidStays ==
    [][Told /\ pending = None /\ facts # None /\ ~last'.words.new =>
          Keeps(last'.words, facts, facts')]_vars

(* The same of a reply to a question.                                      *)
RepliesKeepFacts ==
    [][Told /\ pending # None /\ ~last'.words.new => Keeps(last'.words, facts, facts')]_vars

(* A day the traveller asks to keep is the old one whatever the model      *)
(* proposed, also when its plan is shorter or longer, and what the         *)
(* question before or its answer named as well.                            *)
KeptDaysStay ==
    [][last'.outcome = "plan" /\ rounds' > rounds /\ plan # None /\ ~last'.text.new =>
          \A d \in last'.words.days_kept \cap DOMAIN plan.days :
             /\ Len(plan'.days) = Len(plan.days)
             /\ plan'.days[d] = plan.days[d]]_vars

(* "Consent covers only the dates in that continuation": seasonal weather  *)
(* is assumed for no day the traveller was not asked about and confirmed   *)
(* in this trip, through any further questions, revisions and new trips.   *)
ConsentWasGiven == facts # None => Or(facts.weather_fallback, {}) \subseteq consented

(* A message the service accepted raises inside the run only as a reply to *)
(* a question: what PlanRequest checks and what stream_plan reads are the   *)
(* same, but for the text of the request a reply is put behind.             *)
FailsOnlyReplying ==
    [][last'.outcome = "failed" /\ rounds' > rounds =>
          pending # None /\ ~last'.words.new]_vars
=============================================================================

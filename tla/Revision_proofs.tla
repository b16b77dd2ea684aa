---------------------------- MODULE Revision_proofs ----------------------------
(***************************************************************************)
(* Proofs about what is kept while a conversation goes on.                 *)
(*                                                                         *)
(* Dialogue, for any messages, questions and plans: seasonal weather is    *)
(* assumed only for days the traveller confirmed; a follow-up changes only *)
(* what it speaks of; what was accepted raises only as a reply; a day to   *)
(* keep stays.                                                             *)
(*                                                                         *)
(* Review, for any trips: whatever is proposed, priced, pruned and moved,  *)
(* locked days stay exact, costs, once observed, are settled, the verdict  *)
(* is right about opening hours, ways and journeys, and an alternative the *)
(* server takes changes only what closed doors explain.  The verdict is    *)
(* proved by its three measures: the hours of a place (a visit is caught   *)
(* exactly when a minute of it is shut), booked journeys and hops;         *)
(* measuring prices a plan, and what is priced is judged alike.  The last  *)
(* one follows a visit through every option the search may try.            *)
(***************************************************************************)
EXTENDS Dialogue, Review, Lists_proofs, WellFoundedInduction, TLAPS

Fields == {"budget", "currency", "start", "end", "days", "travelers", "allowed_modes",
           "lodging_arranged", "weather_fallback", "arrival", "stays", "journeys"}

(* Constraints, or none yet.                                                *)
Constrained(v) == v = None \/ DOMAIN v = Fields

IInv == (facts # None => DOMAIN facts = Fields) /\ ConsentWasGiven

-----------------------------------------------------------------------------
(* The text readers never touch the days whose weather may be assumed.      *)

LEMMA DatedKeeps ==
    ASSUME NEW v, DOMAIN v = Fields, NEW days, NEW dates
    PROVE  LET dated == WithDates(WithDuration(v, days), dates)
           IN  DOMAIN dated = Fields /\ dated.weather_fallback = v.weather_fallback
<1>1. PICK timed : timed = WithDuration(v, days) OBVIOUS
<1>2. DOMAIN timed = Fields /\ timed.weather_fallback = v.weather_fallback
  BY <1>1 DEF WithDuration, Fields
<1>3. PICK dated : dated = WithDates(timed, dates) OBVIOUS
<1>4. DOMAIN dated = Fields /\ dated.weather_fallback = timed.weather_fallback
  <2>1. CASE Len(dates) = 1 BY <1>2, <1>3, <2>1 DEF WithDates, Fields
  <2>2. CASE Len(dates) = 2 BY <1>2, <1>3, <2>2 DEF WithDates, Fields
  <2>3. CASE Len(dates) # 1 /\ Len(dates) # 2 BY <1>2, <1>3, <2>3 DEF WithDates
  <2> QED BY <2>1, <2>2, <2>3
<1> QED BY <1>1, <1>2, <1>3, <1>4

LEMMA ReadKeeps ==
    ASSUME NEW words, NEW previous, Constrained(previous), NEW currency
    PROVE  LET read == Read(words, previous, currency)
           IN  /\ DOMAIN read = Fields
               /\ \/ read.weather_fallback = None
                  \/ previous # None /\ read.weather_fallback = previous.weather_fallback
<1>1. PICK kept : kept = Heard(words, previous) OBVIOUS
<1>2. DOMAIN kept = Fields /\ (\/ kept.weather_fallback = None
                               \/ previous # None /\ kept = previous)
  BY <1>1 DEF Heard, TripConstraints, Constrained, Fields
<1>3. PICK dated : dated = WithDates(WithDuration(kept, words.days), words.dates) OBVIOUS
<1>4. DOMAIN dated = Fields /\ dated.weather_fallback = kept.weather_fallback
  BY <1>2, <1>3, DatedKeeps
<1>5. PICK read : read = Read(words, previous, currency) OBVIOUS
<1>6. DOMAIN read = Fields /\ read.weather_fallback = dated.weather_fallback
  BY <1>1, <1>3, <1>4, <1>5 DEF Read, Fields
<1> QED BY <1>2, <1>4, <1>5, <1>6

LEMMA ResolveKeeps ==
    ASSUME NEW words, NEW previous, Constrained(previous), NEW read,
           read = resolve_constraints(words, previous, <<>>, None)
    PROVE  /\ DOMAIN read = Fields
           /\ \/ read.weather_fallback = None
              \/ previous # None /\ read.weather_fallback = previous.weather_fallback
<1>1. PICK heard : heard = Read(words, previous, None) OBVIOUS
<1>2. DOMAIN heard = Fields /\ (\/ heard.weather_fallback = None
                                \/ previous # None
                                   /\ heard.weather_fallback = previous.weather_fallback)
  BY <1>1, ReadKeeps
<1>3. DOMAIN <<>> = {} OBVIOUS
<1>4. read = [f \in DOMAIN heard |-> heard[f]]
  BY <1>1, <1>3 DEF resolve_constraints
<1> QED BY <1>2, <1>4 DEF Fields

(* What a message starts from assumes no more than the last round did.      *)
LEMMA BeforeKeeps ==
    ASSUME IInv, NEW w, NEW before, before = Before(w)
    PROVE  Constrained(before) /\ (before # None => Or(before.weather_fallback, {}) \subseteq consented)
<1>1. PICK known : known = Or(facts, PlanTiming) OBVIOUS
<1>2. Constrained(known) /\ (known # None => Or(known.weather_fallback, {}) \subseteq consented)
  <2>1. CASE facts # None BY <1>1, <2>1 DEF Or, IInv, ConsentWasGiven, Constrained
  <2>2. CASE facts = None
    <3>1. known = PlanTiming BY <1>1, <2>2 DEF Or
    <3>2. Constrained(known) /\ (known # None => known.weather_fallback = None)
      BY <3>1 DEF PlanTiming, TripConstraints, Constrained, Fields
    <3> QED BY <3>2 DEF Or
  <2> QED BY <2>1, <2>2
<1>3. CASE ~Answering(w) BY <1>1, <1>2, <1>3 DEF Before
<1>4. CASE Answering(w)
  <2>1. before = resolve_constraints(pending.text, known, <<>>, None) BY <1>1, <1>4 DEF Before
  <2>2. DOMAIN before = Fields
        /\ (\/ before.weather_fallback = None
            \/ known # None /\ before.weather_fallback = known.weather_fallback)
    BY <1>2, <2>1, ResolveKeeps
  <2> QED BY <1>2, <2>2 DEF Constrained, Or
<1> QED BY <1>3, <1>4

(* A round that went through assumes what was confirmed, now or before.     *)
LEMMA RoundConsented ==
    ASSUME IInv, NEW w, NEW consent \in BOOLEAN,
           Consents(w, consent), facts' = Understood(w, consent).constraints
    PROVE  IInv'
<1>1. PICK fresh, before, read, dates :
        /\ fresh = Text(w).new /\ before = Before(w)
        /\ read = resolve_constraints(w, IF fresh THEN None ELSE before, <<>>, None)
        /\ dates = Approved(w, consent) \cup Or(read.weather_fallback, {})
  OBVIOUS
<1>3. facts' = IF dates = {} THEN read ELSE [read EXCEPT !.weather_fallback = dates]
  BY <1>1 DEF Understood, Heeded
<1>4. Constrained(before) /\ (before # None => Or(before.weather_fallback, {}) \subseteq consented)
  BY <1>1, BeforeKeeps
<1>5. PICK base : base = IF fresh THEN None ELSE before OBVIOUS
<1>6. Constrained(base) BY <1>4, <1>5 DEF Constrained
<1>7. DOMAIN read = Fields
      /\ (\/ read.weather_fallback = None
          \/ base # None /\ read.weather_fallback = base.weather_fallback)
  BY <1>1, <1>5, <1>6, ResolveKeeps
<1>8. consented' = (IF fresh THEN {} ELSE consented) \cup (IF consent THEN pending.dates ELSE {})
  BY <1>1 DEF Consents
<1>9. Or(read.weather_fallback, {}) \subseteq consented'
  BY <1>4, <1>5, <1>7, <1>8 DEF Or
<1>10. Approved(w, consent) \subseteq consented' BY <1>8 DEF Approved
<1>11. dates \subseteq consented' BY <1>1, <1>9, <1>10
<1>12. CASE dates = {} BY <1>3, <1>7, <1>9, <1>12 DEF IInv, ConsentWasGiven
<1>13. CASE dates # {}
  <2>1. DOMAIN facts' = Fields /\ facts'.weather_fallback = dates
    BY <1>3, <1>7, <1>13 DEF Fields
  <2> QED BY <1>11, <2>1 DEF IInv, ConsentWasGiven, Or
<1> QED BY <1>12, <1>13

LEMMA InvStep == IInv /\ [Next]_vars => IInv'
<1> SUFFICES ASSUME IInv, [Next]_vars PROVE IInv'
  OBVIOUS
<1>1. CASE UNCHANGED <<facts, consented>> BY <1>1 DEF IInv, ConsentWasGiven
<1>2. CASE facts' = None BY <1>2 DEF IInv, ConsentWasGiven
<1>3. ASSUME NEW w \in Messages, NEW consent \in ConfirmsWeather(w),
             Asks(w, consent) \/ Plans(w, consent)
      PROVE  IInv'
  <2>1. consent \in BOOLEAN BY DEF ConfirmsWeather
  <2>2. /\ Consents(w, consent)
        /\ facts' = Understood(w, consent).constraints
    BY <1>3 DEF Asks, Plans
  <2> QED BY <2>1, <2>2, RoundConsented
<1>4. CASE Send
  <2>1. PICK w \in Messages :
          \/ Refused(w) \/ Failed(w)
          \/ \E consent \in ConfirmsWeather(w) :
                Asks(w, consent) \/ Plans(w, consent) \/ NoItinerary(w)
    BY <1>4 DEF Send
  <2> QED BY <1>1, <1>3, <2>1 DEF Refused, Failed, NoItinerary
<1>5. CASE ReviseSaved BY <1>1, <1>5 DEF ReviseSaved
<1>6. CASE StartNewConversation BY <1>2, <1>6 DEF StartNewConversation
<1>7. CASE UNCHANGED vars BY <1>1, <1>7 DEF vars
<1> QED BY <1>4, <1>5, <1>6, <1>7 DEF Next

(* Seasonal weather is assumed for no day the traveller did not confirm in  *)
(* this trip.                                                               *)
THEOREM ConsentSafe == Spec => []ConsentWasGiven
<1>1. Init => IInv BY DEF Init, IInv, ConsentWasGiven
<1>2. IInv => ConsentWasGiven BY DEF IInv
<1> QED BY <1>1, <1>2, InvStep, PTL DEF Spec

-----------------------------------------------------------------------------
(* What a follow-up leaves alone.                                           *)

LEMMA DatedLeaves ==
    ASSUME NEW v, DOMAIN v = Fields, NEW days, NEW dates, dates = <<>>
    PROVE  LET dated == WithDates(WithDuration(v, days), dates)
           IN  /\ DOMAIN dated = Fields /\ dated.start = v.start
               /\ days = None => dated = v
<1>1. PICK timed : timed = WithDuration(v, days) OBVIOUS
<1>2. DOMAIN timed = Fields /\ timed.start = v.start /\ (days = None => timed = v)
  BY <1>1 DEF WithDuration, Fields
<1>3. Len(dates) = 0 OBVIOUS
<1>4. WithDates(timed, dates) = timed BY <1>3 DEF WithDates
<1> QED BY <1>1, <1>2, <1>4

LEMMA DatedOthers ==
    ASSUME NEW v, DOMAIN v = Fields, NEW days, NEW dates
    PROVE  LET dated == WithDates(WithDuration(v, days), dates)
           IN  /\ DOMAIN dated = Fields
               /\ \A f \in Fields \ {"start", "end", "days"} : dated[f] = v[f]
<1>1. PICK timed : timed = WithDuration(v, days) OBVIOUS
<1>2. DOMAIN timed = Fields /\ \A f \in Fields \ {"start", "end", "days"} : timed[f] = v[f]
  BY <1>1 DEF WithDuration, Fields
<1>3. PICK dated : dated = WithDates(timed, dates) OBVIOUS
<1>4. DOMAIN dated = Fields /\ \A f \in Fields \ {"start", "end", "days"} : dated[f] = timed[f]
  <2>1. CASE Len(dates) = 1 BY <1>2, <1>3, <2>1 DEF WithDates, Fields
  <2>2. CASE Len(dates) = 2 BY <1>2, <1>3, <2>2 DEF WithDates, Fields
  <2>3. CASE Len(dates) # 1 /\ Len(dates) # 2 BY <1>2, <1>3, <2>3 DEF WithDates
  <2> QED BY <2>1, <2>2, <2>3
<1> QED BY <1>1, <1>2, <1>3, <1>4

LEMMA ReadLeaves ==
    ASSUME NEW w, NEW known, DOMAIN known = Fields, known # None, ~w.new, NEW currency
    PROVE  Keeps(w, known, Read(w, known, currency)) /\ DOMAIN Read(w, known, currency) = Fields
<1>1. Heard(w, known) = known BY DEF Heard
<1>2. PICK dated : dated = WithDates(WithDuration(known, w.days), w.dates) OBVIOUS
<1>3. /\ DOMAIN dated = Fields
      /\ \A f \in Fields \ {"start", "end", "days"} : dated[f] = known[f]
  BY <1>2, DatedOthers
<1>4. w.dates = <<>> => dated.start = known.start /\ (w.days = None => dated = known)
  BY <1>2, DatedLeaves
<1>5. PICK read : read = Read(w, known, currency) OBVIOUS
<1>6. /\ DOMAIN read = Fields
      /\ read.budget = Or(w.budget, dated.budget)
      /\ read.travelers = Or(w.travelers, dated.travelers)
      /\ read.allowed_modes = Or(w.modes, dated.allowed_modes)
      /\ read.start = dated.start /\ read.end = dated.end /\ read.days = dated.days
  BY <1>1, <1>2, <1>3, <1>5 DEF Read, Fields
<1>7. /\ dated.budget = known.budget /\ dated.travelers = known.travelers
      /\ dated.allowed_modes = known.allowed_modes
  BY <1>3 DEF Fields
<1> QED BY <1>4, <1>5, <1>6, <1>7 DEF Keeps, Or

LEMMA UnsaidStep ==
    IInv /\ [Next]_vars =>
        [Told /\ pending = None /\ facts # None /\ ~last'.words.new =>
            Keeps(last'.words, facts, facts')]_vars
<1> SUFFICES ASSUME IInv, Next, Told, pending = None, facts # None, ~last'.words.new
             PROVE  Keeps(last'.words, facts, facts')
  OBVIOUS
<1>1. PICK w \in Messages, consent \in BOOLEAN :
        /\ last'.words = w
        /\ facts' = Understood(w, consent).constraints
  <2>1. CASE Send
    <3>1. PICK w \in Messages :
            \/ Refused(w) \/ Failed(w)
            \/ \E consent \in ConfirmsWeather(w) :
                  Asks(w, consent) \/ Plans(w, consent) \/ NoItinerary(w)
      BY <2>1 DEF Send
    <3>2. ConfirmsWeather(w) \subseteq BOOLEAN BY DEF ConfirmsWeather
    <3> QED BY <3>1, <3>2 DEF Refused, Failed, NoItinerary, Asks, Plans, Closes, Told
  <2>2. CASE ReviseSaved BY <2>2 DEF ReviseSaved, Told, NoRound
  <2>3. CASE StartNewConversation BY <2>3 DEF StartNewConversation, Told, NoRound
  <2> QED BY <2>1, <2>2, <2>3 DEF Next
<1>2. ~w.new BY <1>1
<1>3. Text(w) = w /\ Before(w) = facts /\ DOMAIN facts = Fields
  BY DEF Text, Before, Answering, Or, IInv
<1>4. PICK read, dates :
        /\ read = resolve_constraints(w, facts, <<>>, None)
        /\ dates = Approved(w, consent) \cup Or(read.weather_fallback, {})
  OBVIOUS
<1>5. facts' = IF dates = {} THEN read ELSE [read EXCEPT !.weather_fallback = dates]
  BY <1>1, <1>2, <1>3, <1>4 DEF Understood, Heeded
<1>6. PICK heard : heard = Read(w, facts, None) OBVIOUS
<1>7. Keeps(w, facts, heard) /\ DOMAIN heard = Fields BY <1>2, <1>3, <1>6, ReadLeaves
<1>8. DOMAIN <<>> = {} OBVIOUS
<1>9. read = [f \in DOMAIN heard |-> heard[f]]
  BY <1>4, <1>5, <1>6, <1>8 DEF resolve_constraints
<1>10. Keeps(w, facts, facts') BY <1>5, <1>7, <1>9 DEF Keeps, Fields
<1> QED BY <1>1, <1>10

(* A follow-up without an open question changes only what it speaks of.     *)
THEOREM UnsaidSafe == Spec => UnsaidStays
<1>1. Init => IInv BY DEF Init, IInv, ConsentWasGiven
<1> QED BY <1>1, InvStep, UnsaidStep, PTL DEF Spec, UnsaidStays

-----------------------------------------------------------------------------
(* What a message raises.                                                   *)

LEMMA DatedAlike ==
    ASSUME NEW u, NEW v, DOMAIN u = Fields, DOMAIN v = Fields, NEW days, NEW dates,
           u.start = v.start, u.end = v.end, u.days = v.days
    PROVE  LET a == WithDates(WithDuration(u, days), dates)
               b == WithDates(WithDuration(v, days), dates)
           IN  a.start = b.start /\ a.end = b.end /\ a.days = b.days
<1>1. PICK x, y : x = WithDuration(u, days) /\ y = WithDuration(v, days) OBVIOUS
<1>2. /\ DOMAIN x = Fields /\ DOMAIN y = Fields
      /\ x.start = y.start /\ x.end = y.end /\ x.days = y.days
  BY <1>1 DEF WithDuration, Fields
<1>3. PICK a, b : a = WithDates(x, dates) /\ b = WithDates(y, dates) OBVIOUS
<1>4. a.start = b.start /\ a.end = b.end /\ a.days = b.days
  <2>1. CASE Len(dates) = 1
    <3>1. a = [x EXCEPT !.start = dates[1],
                        !.end = IF x.days # None /\ x.days # 0 THEN dates[1] + x.days - 1 ELSE @]
      BY <1>3, <2>1 DEF WithDates
    <3>2. b = [y EXCEPT !.start = dates[1],
                        !.end = IF y.days # None /\ y.days # 0 THEN dates[1] + y.days - 1 ELSE @]
      BY <1>3, <2>1 DEF WithDates
    <3> QED BY <1>2, <3>1, <3>2 DEF Fields
  <2>2. CASE Len(dates) = 2
    <3>1. a = [x EXCEPT !.start = dates[1], !.end = dates[2], !.days = dates[2] - dates[1] + 1]
      BY <1>3, <2>2 DEF WithDates
    <3>2. b = [y EXCEPT !.start = dates[1], !.end = dates[2], !.days = dates[2] - dates[1] + 1]
      BY <1>3, <2>2 DEF WithDates
    <3> QED BY <1>2, <3>1, <3>2 DEF Fields
  <2>3. CASE Len(dates) # 1 /\ Len(dates) # 2 BY <1>2, <1>3, <2>3 DEF WithDates
  <2> QED BY <2>1, <2>2, <2>3
<1> QED BY <1>1, <1>3, <1>4

(* Reading the fields that consistent_dates looks at.                       *)
LEMMA ReadFields ==
    ASSUME NEW w, NEW previous, DOMAIN Heard(w, previous) = Fields
    PROVE  LET kept == Heard(w, previous)
               dated == WithDates(WithDuration(kept, w.days), w.dates)
               read == resolve_constraints(w, previous, <<>>, None)
           IN  /\ read.start = dated.start /\ read.end = dated.end /\ read.days = dated.days
               /\ read.travelers = Or(w.travelers, kept.travelers)
               /\ read.stays = Or(w.stays, kept.stays)
               /\ read.journeys = Or(w.journeys, kept.journeys)
<1>1. PICK kept : kept = Heard(w, previous) OBVIOUS
<1>2. PICK dated : dated = WithDates(WithDuration(kept, w.days), w.dates) OBVIOUS
<1>3. /\ DOMAIN dated = Fields
      /\ \A f \in Fields \ {"start", "end", "days"} : dated[f] = kept[f]
  BY <1>1, <1>2, DatedOthers
<1>4. PICK heard : heard = Read(w, previous, None) OBVIOUS
<1>5. /\ DOMAIN heard = Fields
      /\ heard.start = dated.start /\ heard.end = dated.end /\ heard.days = dated.days
      /\ heard.travelers = Or(w.travelers, dated.travelers)
      /\ heard.stays = Or(w.stays, dated.stays)
      /\ heard.journeys = Or(w.journeys, dated.journeys)
  BY <1>1, <1>2, <1>3, <1>4 DEF Read, Fields
<1>6. PICK read : read = resolve_constraints(w, previous, <<>>, None) OBVIOUS
<1>7. read = [f \in DOMAIN heard |-> heard[f]]
  <2>1. DOMAIN <<>> = {} OBVIOUS
  <2> QED BY <1>4, <1>6, <2>1 DEF resolve_constraints
<1>8. /\ dated.travelers = kept.travelers /\ dated.stays = kept.stays
      /\ dated.journeys = kept.journeys
  BY <1>3 DEF Fields
<1>9. /\ read.start = dated.start /\ read.end = dated.end /\ read.days = dated.days
      /\ read.travelers = Or(w.travelers, kept.travelers)
      /\ read.stays = Or(w.stays, kept.stays)
      /\ read.journeys = Or(w.journeys, kept.journeys)
  BY <1>5, <1>7, <1>8 DEF Fields
<1> QED BY <1>1, <1>2, <1>6, <1>9

(* The timing of a plan raises nothing that the message alone does not.     *)
LEMMA TimingHarmless ==
    ASSUME NEW w, ~w.new, UniqueTiming(plan),
           consistent_dates(resolve_constraints(w, None, <<>>, None))
    PROVE  consistent_dates(resolve_constraints(w, PlanTiming, <<>>, None))
<1>1. PICK timing : timing = PlanTiming OBVIOUS
<1>2. CASE Heard(w, timing) = TripConstraints
  <2>1. Heard(w, None) = TripConstraints BY DEF Heard
  <2>2. resolve_constraints(w, timing, <<>>, None) = resolve_constraints(w, None, <<>>, None)
    BY <1>2, <2>1 DEF resolve_constraints, Read
  <2> QED BY <1>1, <2>2
<1>3. CASE Heard(w, timing) # TripConstraints
  <2>1. Heard(w, timing) = timing /\ timing # None BY <1>3 DEF Heard
  <2>2. /\ plan # None /\ plan.timing # None
        /\ timing = [TripConstraints EXCEPT !.arrival = plan.timing.arrival,
                                            !.stays = plan.timing.stays,
                                            !.journeys = plan.timing.journeys]
    BY <1>1, <2>1 DEF PlanTiming
  <2>3. PICK none : none = TripConstraints OBVIOUS
  <2>4. /\ DOMAIN none = Fields /\ DOMAIN timing = Fields
        /\ timing.start = none.start /\ timing.end = none.end /\ timing.days = none.days
        /\ timing.travelers = none.travelers
        /\ none.stays = None /\ none.journeys = None
        /\ timing.stays = plan.timing.stays /\ timing.journeys = plan.timing.journeys
    BY <2>2, <2>3 DEF TripConstraints, Fields
  <2>5. Heard(w, None) = none BY <2>3 DEF Heard
  <2>6. PICK a, b : /\ a = WithDates(WithDuration(timing, w.days), w.dates)
                    /\ b = WithDates(WithDuration(none, w.days), w.dates)
    OBVIOUS
  <2>7. a.start = b.start /\ a.end = b.end /\ a.days = b.days
    BY <2>4, <2>6, DatedAlike
  <2>8. PICK late, alone : /\ late = resolve_constraints(w, timing, <<>>, None)
                           /\ alone = resolve_constraints(w, None, <<>>, None)
    OBVIOUS
  <2>9. /\ late.start = a.start /\ late.end = a.end /\ late.days = a.days
        /\ late.travelers = Or(w.travelers, timing.travelers)
        /\ late.stays = Or(w.stays, timing.stays)
        /\ late.journeys = Or(w.journeys, timing.journeys)
    BY <2>1, <2>4, <2>6, <2>8, ReadFields
  <2>10. /\ alone.start = b.start /\ alone.end = b.end /\ alone.days = b.days
         /\ alone.travelers = Or(w.travelers, none.travelers)
         /\ alone.stays = Or(w.stays, none.stays)
         /\ alone.journeys = Or(w.journeys, none.journeys)
    BY <2>4, <2>5, <2>6, <2>8, ReadFields
  <2>11. consistent_dates(alone) BY <2>8
  <2>12. UniqueIds(plan.timing.stays) /\ UniqueIds(plan.timing.journeys)
    BY <2>2 DEF UniqueTiming
  <2>13. UniqueIds(late.stays) /\ UniqueIds(late.journeys)
    BY <2>4, <2>9, <2>10, <2>11, <2>12 DEF Or, consistent_dates
  <2>14. /\ late.start = alone.start /\ late.end = alone.end /\ late.days = alone.days
         /\ late.travelers = alone.travelers
    BY <2>4, <2>7, <2>9, <2>10
  <2>15. consistent_dates(late) BY <2>11, <2>13, <2>14 DEF consistent_dates
  <2> QED BY <1>1, <2>8, <2>15
<1> QED BY <1>2, <1>3

(* A plan the service writes carries the timing it was scheduled by.        *)
LEMMA PlanWritten ==
    ASSUME IInv, NEW w, NEW consent \in BOOLEAN, Plans(w, consent)
    PROVE  UniqueTiming(plan')
<1>1. PICK run, read, before :
        /\ run = Understood(w, consent) /\ read = Heeded(w) /\ before = Before(w)
  OBVIOUS
<1>2. PICK base : base = IF Text(w).new THEN None ELSE before OBVIOUS
<1>3. Constrained(base) BY <1>1, <1>2, BeforeKeeps DEF Constrained
<1>4. read = resolve_constraints(w, base, <<>>, None) BY <1>1, <1>2 DEF Heeded
<1>5. DOMAIN read = Fields BY <1>3, <1>4, ResolveKeeps
<1>6. UniqueIds(read.stays) /\ UniqueIds(read.journeys)
  BY <1>1 DEF Plans, Raises, consistent_dates
<1>7. PICK c : c = run.constraints OBVIOUS
<1>8. c.stays = read.stays /\ c.journeys = read.journeys
  BY <1>1, <1>5, <1>7 DEF Understood, Fields
<1>9. PICK candidate \in Candidates :
        plan' = WithTiming(enforce_revision_scope(candidate, run.previous, run.scope), c)
  BY <1>1, <1>7 DEF Plans
<1>10. PICK enforced : enforced = enforce_revision_scope(candidate, run.previous, run.scope)
  OBVIOUS
<1>11. "timing" \in DOMAIN enforced
  <2>1. "timing" \in DOMAIN candidate BY CandidatesAssumption DEF CandidatesAssumption
  <2> QED BY <1>10, <2>1 DEF enforce_revision_scope
<1>12. PICK given : given = (c.arrival # None \/ c.stays # None \/ c.journeys # None) OBVIOUS
<1>13. plan'.timing = IF given THEN [arrival |-> c.arrival, stays |-> c.stays, journeys |-> c.journeys]
                      ELSE None
  BY <1>9, <1>10, <1>11, <1>12 DEF WithTiming
<1>14. CASE given
  <2>1. plan'.timing.stays = c.stays /\ plan'.timing.journeys = c.journeys BY <1>13, <1>14
  <2> QED BY <1>6, <1>8, <2>1 DEF UniqueTiming
<1>15. CASE ~given BY <1>13, <1>15 DEF UniqueTiming
<1> QED BY <1>14, <1>15

LEMMA PlanInvStep == IInv /\ UniqueTiming(plan) /\ [Next]_vars => UniqueTiming(plan')
<1> SUFFICES ASSUME IInv, UniqueTiming(plan), [Next]_vars PROVE UniqueTiming(plan')
  OBVIOUS
<1>1. CASE plan' = plan BY <1>1
<1>2. CASE plan' = None BY <1>2 DEF UniqueTiming
<1>3. CASE Send
  <2>1. PICK w \in Messages :
          \/ Refused(w) \/ Failed(w)
          \/ \E consent \in ConfirmsWeather(w) :
                Asks(w, consent) \/ Plans(w, consent) \/ NoItinerary(w)
    BY <1>3 DEF Send
  <2>2. ConfirmsWeather(w) \subseteq BOOLEAN BY DEF ConfirmsWeather
  <2>3. ASSUME NEW consent \in BOOLEAN, Plans(w, consent) PROVE UniqueTiming(plan')
    BY <2>3, PlanWritten
  <2> QED BY <1>1, <2>1, <2>2, <2>3 DEF Refused, Failed, Asks, NoItinerary
<1>4. CASE ReviseSaved BY <1>4, CandidatesAssumption DEF ReviseSaved, CandidatesAssumption
<1>5. CASE StartNewConversation BY <1>2, <1>5 DEF StartNewConversation
<1>6. CASE UNCHANGED vars BY <1>1, <1>6 DEF vars
<1> QED BY <1>3, <1>4, <1>5, <1>6 DEF Next

LEMMA FailsStep ==
    UniqueTiming(plan) /\ [Next]_vars =>
        [last'.outcome = "failed" /\ rounds' > rounds => pending # None /\ ~last'.words.new]_vars
<1> SUFFICES ASSUME UniqueTiming(plan), Next, last'.outcome = "failed", rounds' > rounds
             PROVE  pending # None /\ ~last'.words.new
  OBVIOUS
<1>1. PICK w \in Messages : check_constraints(w) /\ Failed(w)
  <2>1. CASE Send
    BY <2>1 DEF Send, Refused, Asks, Plans, NoItinerary, Closes
  <2>2. CASE ReviseSaved BY <2>2 DEF ReviseSaved, NoRound
  <2>3. CASE StartNewConversation BY <2>3 DEF StartNewConversation, NoRound
  <2> QED BY <2>1, <2>2, <2>3 DEF Next
<1>2. last'.words = w BY <1>1 DEF Failed, Closes
<1>3. SUFFICES ASSUME ~Answering(w) PROVE FALSE BY <1>2 DEF Answering
<1>4. Text(w) = w /\ Before(w) = Or(facts, PlanTiming) BY <1>3 DEF Text, Before
<1>5. consistent_dates(resolve_constraints(w, facts, <<>>, None)) BY <1>1 DEF check_constraints
<1>6. PICK base : base = IF w.new THEN None ELSE Or(facts, PlanTiming) OBVIOUS
<1>7. ~consistent_dates(resolve_constraints(w, base, <<>>, None))
  BY <1>1, <1>3, <1>4, <1>6 DEF Failed, Raises, Heeded
<1>8. CASE w.new
  <2>1. Heard(w, base) = Heard(w, facts) BY <1>8 DEF Heard
  <2>2. resolve_constraints(w, base, <<>>, None) = resolve_constraints(w, facts, <<>>, None)
    BY <2>1 DEF resolve_constraints, Read
  <2> QED BY <1>5, <1>7, <2>2
<1>9. CASE ~w.new /\ facts # None
  <2>1. base = facts BY <1>6, <1>9 DEF Or
  <2> QED BY <1>5, <1>7, <2>1
<1>10. CASE ~w.new /\ facts = None
  <2>1. base = PlanTiming BY <1>6, <1>10 DEF Or
  <2> QED BY <1>5, <1>7, <1>10, <2>1, TimingHarmless
<1> QED BY <1>8, <1>9, <1>10

(* What PlanRequest accepts raises inside the run only as a reply to a      *)
(* question, for any messages, questions and plans.                         *)
THEOREM FailsSafe == Spec => FailsOnlyReplying
<1>1. Init => IInv /\ UniqueTiming(plan) BY DEF Init, IInv, ConsentWasGiven, UniqueTiming
<1>2. UniqueTiming(plan)' <=> UniqueTiming(plan') BY DEF UniqueTiming
<1> QED BY <1>1, <1>2, InvStep, PlanInvStep, FailsStep, PTL DEF Spec, FailsOnlyReplying

-----------------------------------------------------------------------------
(* Days to keep.                                                            *)

(* A plan is a record with its days in a sequence; what an open question is *)
(* about names parts of the frame only.                                     *)
DaysInv ==
    /\ plan # None =>
          /\ Len(plan.days) \in Nat
          /\ DOMAIN plan.days = 1 .. Len(plan.days)
    /\ pending # None => pending.text.frame \cup pending.asked.frame \subseteq DOMAIN Frame

LEMMA TextFrame ==
    ASSUME DaysInv, NEW w \in Messages
    PROVE  /\ Text(w).frame \subseteq DOMAIN Frame
           /\ w.days_kept \subseteq Text(w).days_kept
<1>1. w.frame \subseteq DOMAIN Frame BY FrameAssumption DEF FrameAssumption
<1>2. CASE Answering(w)
  <2>1. pending.text.frame \cup pending.asked.frame \subseteq DOMAIN Frame
    BY <1>2 DEF Answering, DaysInv
  <2>2. /\ Text(w).frame = (pending.text.frame \cup pending.asked.frame) \cup w.frame
        /\ Text(w).days_kept = (pending.text.days_kept \cup pending.asked.days_kept) \cup w.days_kept
    BY <1>2 DEF Text, Behind
  <2> QED BY <1>1, <2>1, <2>2
<1>3. CASE ~Answering(w) BY <1>1, <1>3 DEF Text
<1> QED BY <1>2, <1>3

(* The scope of a request is a scope, and locks every day that is kept.     *)
LEMMA ScopeLocks ==
    ASSUME NEW words, words.frame \subseteq DOMAIN Frame, NEW n \in Nat,
           NEW scope, scope = resolve_revision_scope(words, n)
    PROVE  /\ scope # None
           /\ words.days_kept \cap (1 .. n) \subseteq scope.locked_days
           /\ scope.locked_days \subseteq 1 .. n
<1>1. PICK kept, editable : /\ kept = words.days_kept \cap (1 .. n)
                           /\ editable = (words.days_named \ kept) \cap (1 .. n)
  OBVIOUS
<1>2. PICK frame : frame = UNION {Frame[name] : name \in words.frame \ words.frame_kept} OBVIOUS
<1>3. scope = [editable_days |-> editable,
               locked_days |-> IF editable = {} THEN kept ELSE (1 .. n) \ editable,
               editable_frame |-> frame]
  BY <1>1, <1>2 DEF resolve_revision_scope
<1>4. frame \subseteq UNION {Frame[name] : name \in DOMAIN Frame} BY <1>2
<1>5. scope.locked_days = IF editable = {} THEN kept ELSE (1 .. n) \ editable BY <1>3
<1>6. kept \subseteq 1 .. n /\ kept \cap editable = {} BY <1>1
<1>7. scope.locked_days \subseteq 1 .. n /\ kept \subseteq scope.locked_days BY <1>5, <1>6
<1>8. editable \in SUBSET Nat /\ scope.locked_days \in SUBSET Nat BY <1>1, <1>7
<1>9. scope \in [editable_days : SUBSET Nat, locked_days : SUBSET Nat,
                 editable_frame : SUBSET UNION {Frame[name] : name \in DOMAIN Frame}]
  BY <1>3, <1>4, <1>8
<1> QED BY <1>1, <1>7, <1>9, FrameAssumption DEF FrameAssumption

(* With a day locked a revision is as long as the plan it revises, and that *)
(* day is the old one.                                                      *)
LEMMA MergedKeeps ==
    ASSUME NEW candidate, NEW previous, NEW locked,
           Len(previous.days) \in Nat, DOMAIN previous.days = 1 .. Len(previous.days)
    PROVE  LET merged == Merged(candidate, previous, locked)
           IN  /\ DOMAIN merged = 1 .. Len(previous.days)
               /\ Len(merged) = Len(previous.days)
               /\ \A d \in locked \cap (1 .. Len(previous.days)) : merged[d] = previous.days[d]
BY DEF Merged

(* What a round proposes after it has been put into its scope.              *)
LEMMA EnforcedDays ==
    ASSUME NEW candidate \in Candidates, NEW previous, NEW scope, NEW c,
           previous # None => /\ Len(previous.days) \in Nat
                              /\ DOMAIN previous.days = 1 .. Len(previous.days)
    PROVE  LET result == WithTiming(enforce_revision_scope(candidate, previous, scope), c)
           IN  /\ Len(result.days) \in Nat /\ DOMAIN result.days = 1 .. Len(result.days)
               /\ previous # None /\ scope # None /\ scope.locked_days # {} =>
                     result.days = Merged(candidate, previous, scope.locked_days)
<1>1. /\ candidate # None /\ {"days", "timing"} \subseteq DOMAIN candidate
      /\ Len(candidate.days) \in Nat /\ DOMAIN candidate.days = 1 .. Len(candidate.days)
  BY CandidatesAssumption DEF CandidatesAssumption
<1>2. PICK enforced : enforced = enforce_revision_scope(candidate, previous, scope) OBVIOUS
<1>3. PICK result : result = WithTiming(enforced, c) OBVIOUS
<1>4. CASE previous = None \/ scope = None
  <2>1. enforced = candidate BY <1>2, <1>4 DEF enforce_revision_scope
  <2>2. result.days = candidate.days BY <1>1, <1>3, <2>1 DEF WithTiming
  <2> QED BY <1>1, <1>2, <1>3, <1>4, <2>2
<1>5. CASE previous # None /\ scope # None
  <2>1. PICK restored : restored = (UNION {Frame[name] : name \in DOMAIN Frame}) \ scope.editable_frame
    OBVIOUS
  <2>2. PICK framed : framed = [f \in DOMAIN candidate |->
                                  IF f \in restored THEN previous[f] ELSE candidate[f]]
    OBVIOUS
  <2>3. enforced = IF scope.locked_days = {} THEN framed
                    ELSE [framed EXCEPT !.days = Merged(candidate, previous, scope.locked_days)]
    BY <1>1, <1>2, <1>5, <2>1, <2>2 DEF enforce_revision_scope
  <2>4. "days" \notin restored BY <2>1 DEF Frame
  <2>5. DOMAIN framed = DOMAIN candidate /\ framed.days = candidate.days BY <1>1, <2>2, <2>4
  <2>6. CASE scope.locked_days = {}
    <3>1. result.days = candidate.days BY <1>1, <1>3, <2>3, <2>5, <2>6 DEF WithTiming
    <3> QED BY <1>1, <1>2, <1>3, <2>6, <3>1
  <2>7. CASE scope.locked_days # {}
    <3>1. PICK merged : merged = Merged(candidate, previous, scope.locked_days) OBVIOUS
    <3>2. enforced = [framed EXCEPT !.days = merged] BY <2>3, <2>7, <3>1
    <3>3. DOMAIN enforced = DOMAIN candidate /\ enforced.days = merged BY <1>1, <2>5, <3>2
    <3>4. result.days = merged BY <1>1, <1>3, <3>3 DEF WithTiming
    <3>5. Len(merged) = Len(previous.days) /\ DOMAIN merged = 1 .. Len(merged)
      BY <1>5, <3>1, MergedKeeps
    <3> QED BY <1>2, <1>3, <1>5, <3>1, <3>4, <3>5
  <2> QED BY <2>6, <2>7
<1> QED BY <1>4, <1>5

LEMMA DaysInvStep == DaysInv /\ [Next]_vars => DaysInv'
<1> SUFFICES ASSUME DaysInv, [Next]_vars PROVE DaysInv'
  OBVIOUS
<1>1. CASE UNCHANGED <<plan, pending>> BY <1>1 DEF DaysInv
<1>2. ASSUME NEW w \in Messages, NEW consent, Asks(w, consent) PROVE DaysInv'
  <2>1. PICK asked \in Questions, dates \in SUBSET WeatherDays :
          pending' = [text |-> Text(w), asked |-> asked, dates |-> dates]
    BY <1>2 DEF Asks
  <2>2. Text(w).frame \subseteq DOMAIN Frame /\ asked.frame \subseteq DOMAIN Frame
    BY TextFrame, FrameAssumption DEF FrameAssumption
  <2>3. pending'.text = Text(w) /\ pending'.asked = asked BY <2>1
  <2> QED BY <1>2, <2>2, <2>3 DEF Asks, DaysInv
<1>3. ASSUME NEW w \in Messages, NEW consent, Plans(w, consent) PROVE DaysInv'
  <2>1. PICK run : run = Understood(w, consent) OBVIOUS
  <2>2. PICK candidate \in Candidates :
          plan' = WithTiming(enforce_revision_scope(candidate, run.previous, run.scope),
                             run.constraints)
    BY <1>3, <2>1 DEF Plans
  <2>3. run.previous = None \/ run.previous = plan BY <2>1 DEF Understood
  <2>4. Len(plan'.days) \in Nat /\ DOMAIN plan'.days = 1 .. Len(plan'.days)
    BY <2>2, <2>3, EnforcedDays DEF DaysInv
  <2> QED BY <1>3, <2>4 DEF Plans, DaysInv
<1>4. CASE Send
  <2>1. PICK w \in Messages :
          \/ Refused(w) \/ Failed(w)
          \/ \E consent \in ConfirmsWeather(w) :
                Asks(w, consent) \/ Plans(w, consent) \/ NoItinerary(w)
    BY <1>4 DEF Send
  <2>2. CASE NoItinerary(w) BY <2>2 DEF NoItinerary, DaysInv
  <2> QED BY <1>1, <1>2, <1>3, <2>1, <2>2 DEF Refused, Failed
<1>5. CASE ReviseSaved
  BY <1>5, CandidatesAssumption DEF ReviseSaved, CandidatesAssumption, DaysInv
<1>6. CASE StartNewConversation BY <1>6 DEF StartNewConversation, DaysInv
<1>7. CASE UNCHANGED vars BY <1>1, <1>7 DEF vars
<1> QED BY <1>4, <1>5, <1>6, <1>7 DEF Next

LEMMA KeptDaysStep ==
    DaysInv /\ [Next]_vars =>
        [last'.outcome = "plan" /\ rounds' > rounds /\ plan # None /\ ~last'.text.new =>
            \A d \in last'.words.days_kept \cap DOMAIN plan.days :
               /\ Len(plan'.days) = Len(plan.days)
               /\ plan'.days[d] = plan.days[d]]_vars
<1> SUFFICES ASSUME DaysInv, Next, last'.outcome = "plan", plan # None, ~last'.text.new,
                    NEW d \in last'.words.days_kept \cap DOMAIN plan.days
             PROVE  Len(plan'.days) = Len(plan.days) /\ plan'.days[d] = plan.days[d]
  OBVIOUS
<1>1. PICK w \in Messages, consent \in BOOLEAN : Plans(w, consent)
  <2>1. CASE Send
    <3>1. PICK w \in Messages :
            \/ Refused(w) \/ Failed(w)
            \/ \E consent \in ConfirmsWeather(w) :
                  Asks(w, consent) \/ Plans(w, consent) \/ NoItinerary(w)
      BY <2>1 DEF Send
    <3>2. ConfirmsWeather(w) \subseteq BOOLEAN BY DEF ConfirmsWeather
    <3>3. ASSUME NEW outcome, Closes(outcome, w) PROVE outcome = "plan" BY <3>3 DEF Closes
    <3>4. ~Refused(w) /\ ~Failed(w) /\ ~NoItinerary(w)
      BY <3>3 DEF Refused, Failed, NoItinerary
    <3>5. ASSUME NEW consent, Asks(w, consent) PROVE FALSE BY <3>3, <3>5 DEF Asks
    <3> QED BY <3>1, <3>2, <3>4, <3>5
  <2>2. CASE ReviseSaved BY <2>2 DEF ReviseSaved, NoRound
  <2>3. CASE StartNewConversation BY <2>3 DEF StartNewConversation, NoRound
  <2> QED BY <2>1, <2>2, <2>3 DEF Next
<1>2. last'.words = w /\ last'.text = Text(w) BY <1>1 DEF Plans, Closes
<1>3. PICK n : n = Len(plan.days) OBVIOUS
<1>4. n \in Nat /\ DOMAIN plan.days = 1 .. n BY <1>3 DEF DaysInv
<1>5. PICK run : run = Understood(w, consent) OBVIOUS
<1>6. run.previous = plan /\ run.scope = resolve_revision_scope(Text(w), n)
  BY <1>2, <1>3, <1>5 DEF Understood
<1>7. d \in Text(w).days_kept \cap (1 .. n) BY <1>2, <1>4, TextFrame
<1>8. Text(w).frame \subseteq DOMAIN Frame BY TextFrame
<1>9. run.scope # None /\ d \in run.scope.locked_days
  BY <1>4, <1>6, <1>7, <1>8, ScopeLocks
<1>10. PICK candidate \in Candidates :
         plan' = WithTiming(enforce_revision_scope(candidate, run.previous, run.scope),
                            run.constraints)
  BY <1>1, <1>5 DEF Plans
<1>11. plan'.days = Merged(candidate, plan, run.scope.locked_days)
  BY <1>3, <1>4, <1>6, <1>9, <1>10, EnforcedDays
<1> QED BY <1>3, <1>4, <1>7, <1>9, <1>11, MergedKeeps

(* A day the traveller asks to keep stays, in any conversation and whatever *)
(* the model proposes.                                                      *)
THEOREM KeptDaysSafe == Spec => KeptDaysStay
<1>1. Init => DaysInv BY DEF Init, DaysInv
<1> QED BY <1>1, DaysInvStep, KeptDaysStep, PTL DEF Spec, KeptDaysStay

-----------------------------------------------------------------------------
(* Extremes of bounded sets of integers.                                    *)

LEMMA LeastNatural ==
    ASSUME NEW S, S \subseteq Nat, S # {}
    PROVE  \E x \in S : \A y \in S : x <= y
<1>1. PICK x \in S : \A y \in S : ~(<<y, x>> \in OpToRel(<, Nat))
  BY NatLessThanWellFounded, WFMin
<1>2. \A y \in S : ~(y < x)
  <2> TAKE y \in S
  <2>1. x \in Nat /\ y \in Nat OBVIOUS
  <2> QED BY <1>1, <2>1 DEF OpToRel
<1> QED BY <1>2

LEMMA LeastOf ==
    ASSUME NEW low \in Int, NEW S, \A x \in S : x \in Int /\ low <= x, S # {}
    PROVE  \E x \in S : \A y \in S : x <= y
<1> DEFINE T == {x - low : x \in S}
<1>1. T \subseteq Nat /\ T # {} OBVIOUS
<1>2. PICK t \in T : \A u \in T : t <= u BY <1>1, LeastNatural
<1>3. PICK x \in S : t = x - low OBVIOUS
<1>4. \A y \in S : x <= y
  <2> TAKE y \in S
  <2>1. y - low \in T OBVIOUS
  <2>2. x - low <= y - low BY <1>2, <1>3, <2>1
  <2> QED BY <2>2
<1> QED BY <1>4

LEMMA GreatestOf ==
    ASSUME NEW high \in Int, NEW S, \A x \in S : x \in Int /\ x <= high, S # {}
    PROVE  \E x \in S : \A y \in S : y <= x
<1> DEFINE T == {high - x : x \in S}
<1>1. T \subseteq Nat /\ T # {} OBVIOUS
<1>2. PICK t \in T : \A u \in T : t <= u BY <1>1, LeastNatural
<1>3. PICK x \in S : t = high - x OBVIOUS
<1>4. \A y \in S : y <= x
  <2> TAKE y \in S
  <2>1. high - y \in T OBVIOUS
  <2>2. high - x <= high - y BY <1>2, <1>3, <2>1
  <2> QED BY <2>2
<1> QED BY <1>4

LEMMA MaxOf ==
    ASSUME NEW high \in Int, NEW S, \A x \in S : x \in Int /\ x <= high, S # {}
    PROVE  Max(S) \in S /\ \A y \in S : y <= Max(S)
<1>1. \E x \in S : \A y \in S : y <= x BY GreatestOf
<1>2. \E x \in S : \A y \in S : x >= y BY <1>1
<1> QED BY <1>2 DEF Max

LEMMA MinOf ==
    ASSUME NEW low \in Int, NEW S, \A x \in S : x \in Int /\ low <= x, S # {}
    PROVE  Min(S) \in S /\ \A y \in S : Min(S) <= y
BY LeastOf DEF Min

(* The lesser of two.                                                       *)
LEMMA MinOfTwo ==
    ASSUME NEW x \in Int, NEW y \in Int
    PROVE  Min({x, y}) = IF x <= y THEN x ELSE y
<1>1. \E z \in {x, y} : \A u \in {x, y} : z <= u OBVIOUS
<1>2. Min({x, y}) \in {x, y} /\ \A u \in {x, y} : Min({x, y}) <= u BY <1>1 DEF Min
<1> QED BY <1>2

-----------------------------------------------------------------------------
(* Opening hours, read.                                                     *)

Limit == 2 * MinutesInDay
(* Windows as intervals of minutes that may be empty; as a line has them    *)
(* they open on their day and may close on the next.                        *)
Windows(windows, top) ==
    \A w \in windows : \E x, y \in 0 .. top : x <= y /\ w = <<x, y>>
Spans(windows) ==
    \A w \in windows : \E x \in 0 .. MinutesInDay, y \in 0 .. Limit : x <= y /\ w = <<x, y>>
(* A minute is in one of them.                                              *)
Covered(windows, m) == \E w \in windows : w[1] <= m /\ m < w[2]

LEMMA ClockIs ==
    ASSUME NEW c, c.hour \in Nat, c.minute \in Nat
    PROVE  _minutes(c) = None \/ _minutes(c) \in 0 .. MinutesInDay
<1>1. PICK h \in Nat, m \in Nat : h = c.hour /\ m = c.minute OBVIOUS
<1>2. h % 12 \in 0 .. 11 OBVIOUS
<1>3. CASE c.half # ""
  <2>1. PICK x \in 0 .. 23 : x = HourOf12(c)
    <3>1. HourOf12(c) = IF c.half = "PM" THEN (h % 12) + 12 ELSE h % 12 BY <1>1 DEF HourOf12
    <3> QED BY <1>2, <3>1
  <2>2. _minutes(c) = IF h \in 1 .. 12 /\ m <= 59 THEN x * 60 + m ELSE None
    BY <1>1, <1>3, <2>1 DEF _minutes
  <2> QED BY <2>2 DEF MinutesInDay
<1>4. CASE c.half = ""
  <2>1. _minutes(c) = IF h <= 24 /\ m <= 59 /\ (h = 24 => m = 0) THEN h * 60 + m ELSE None
    BY <1>1, <1>4 DEF _minutes
  <2> QED BY <2>1 DEF MinutesInDay
<1> QED BY <1>3, <1>4

LEMMA StartIs ==
    ASSUME NEW range, ClockText(range.opens)
    PROVE  StartOf(range) = None \/ StartOf(range) \in 0 .. MinutesInDay
<1>1. PICK some : some = Borrowed(range.opens, _minutes(range.closes)) OBVIOUS
<1>2. \A m \in some : m \in 0 .. MinutesInDay
  <2> SUFFICES ASSUME NEW m \in some PROVE m \in 0 .. MinutesInDay
    OBVIOUS
  <2>1. PICK half \in {"AM", "PM"} : m = _minutes([range.opens EXCEPT !.half = half]) /\ m # None
    BY <1>1 DEF Borrowed
  <2>2. PICK c : c = [range.opens EXCEPT !.half = half] OBVIOUS
  <2>3. c.hour \in Nat /\ c.minute \in Nat BY <2>2 DEF ClockText
  <2> QED BY <2>1, <2>2, <2>3, ClockIs
<1>3. some # {} => Max(some) \in some
  <2>1. MinutesInDay \in Int /\ \A m \in some : m \in Int /\ m <= MinutesInDay
    BY <1>2 DEF MinutesInDay
  <2> QED BY <2>1, MaxOf
<1>4. StartOf(range) \in {Max(some), _minutes(range.opens)}
      /\ (some = {} => StartOf(range) = _minutes(range.opens))
  BY <1>1 DEF StartOf
<1>5. _minutes(range.opens) = None \/ _minutes(range.opens) \in 0 .. MinutesInDay
  BY ClockIs DEF ClockText
<1> QED BY <1>2, <1>3, <1>4, <1>5

LEMMA WindowIs ==
    ASSUME NEW range, ClockText(range.opens), ClockText(range.closes), None \notin Int
    PROVE  WindowOf(range) = None \/ Spans({WindowOf(range)})
<1>1. PICK start, end : start = StartOf(range) /\ end = _minutes(range.closes) OBVIOUS
<1>2. start = None \/ start \in 0 .. MinutesInDay BY <1>1, StartIs
<1>3. end = None \/ end \in 0 .. MinutesInDay BY <1>1, ClockIs DEF ClockText
<1>4. WindowOf(range) = IF start = None \/ end = None \/ start = end THEN None
                        ELSE <<start, IF end < start THEN end + MinutesInDay ELSE end>>
  BY <1>1 DEF WindowOf
<1>5. CASE start \in 0 .. MinutesInDay /\ end \in 0 .. MinutesInDay /\ start # end
  <2>1. PICK until : until = IF end < start THEN end + MinutesInDay ELSE end OBVIOUS
  <2>2. until \in 0 .. Limit /\ start \in 0 .. MinutesInDay /\ start <= until
    BY <1>5, <2>1 DEF Limit, MinutesInDay
  <2>3. WindowOf(range) = <<start, until>> BY <1>4, <1>5, <2>1 DEF MinutesInDay
  <2> QED BY <2>2, <2>3 DEF Spans
<1> QED BY <1>2, <1>3, <1>4, <1>5

LEMMA LineWindows ==
    ASSUME None \notin Int, NEW listing, Listing(listing), NEW key \in DOMAIN listing
    PROVE  _windows(listing[key]) = None \/ Spans(_windows(listing[key]))
<1>1. PICK line : line = listing[key] OBVIOUS
<1>2. /\ line.says \in {"nothing", "closed", "24 hours", "ranges"}
      /\ \A range \in line.ranges : ClockText(range.opens) /\ ClockText(range.closes)
  BY <1>1 DEF Listing
<1>3. CASE line.says = "nothing" BY <1>1, <1>3 DEF _windows
<1>4. CASE line.says = "closed"
  <2>1. _windows(line) = {} BY <1>4 DEF _windows
  <2> QED BY <1>1, <2>1 DEF Spans
<1>5. CASE line.says = "24 hours"
  <2>1. _windows(line) = {<<0, MinutesInDay>>} BY <1>5 DEF _windows
  <2> QED BY <1>1, <2>1 DEF Spans, Limit, MinutesInDay
<1>6. CASE line.says = "ranges"
  <2>1. PICK all : all = {WindowOf(range) : range \in line.ranges} OBVIOUS
  <2>2. _windows(line) = IF None \in all \/ all = {} THEN None ELSE all
    BY <1>6, <2>1 DEF _windows
  <2>3. \A w \in all : w = None \/ Spans({w}) BY <1>2, <2>1, WindowIs
  <2> QED BY <1>1, <2>2, <2>3 DEF Spans
<1> QED BY <1>2, <1>3, <1>4, <1>5, <1>6

LEMMA LineIs ==
    ASSUME None \notin Int, NEW listing, Listing(listing), NEW key
    PROVE  Line(listing, key) = None \/ Spans(Line(listing, key))
<1>1. CASE key \in DOMAIN parse(listing)
  <2>1. key \in DOMAIN listing /\ _windows(listing[key]) # None BY <1>1 DEF parse
  <2>2. Line(listing, key) = _windows(listing[key]) BY <1>1, <2>1 DEF Line, Lookup, parse
  <2> QED BY <2>1, <2>2, LineWindows
<1>2. CASE key \notin DOMAIN parse(listing) BY <1>2 DEF Line, Lookup
<1> QED BY <1>1, <1>2

LEMMA KnownIs ==
    ASSUME None \notin Int, NEW listing, Listing(listing), NEW d
    PROVE  Known(listing, d) = None \/ Spans(Known(listing, d))
BY LineIs DEF Known, Or

-----------------------------------------------------------------------------
(* The merged windows are the longest runs of covered minutes.              *)

(* No window reaches past a merged one: between where it opens and closes   *)
(* every minute is in a window.                                             *)
LEMMA MergedCovers ==
    ASSUME NEW windows, NEW top \in Nat, Windows(windows, top),
           NEW w \in _merge_windows(windows), NEW m \in Int, w[1] <= m, m < w[2]
    PROVE  Covered(windows, m)
<1>1. PICK opens \in Openings(windows), closes \in Closings(windows) :
        /\ w = <<opens, closes>>
        /\ ~\E end \in Closings(windows) : opens <= end /\ end < closes
  BY DEF _merge_windows
<1>2. opens <= m /\ m < closes BY <1>1
<1>3. PICK v \in windows : opens = v[1] BY DEF Openings
<1>4. \A u \in windows : u[1] \in 0 .. top /\ u[2] \in 0 .. top /\ u[1] <= u[2]
  BY DEF Windows
<1> SUFFICES ASSUME ~Covered(windows, m) PROVE FALSE
  OBVIOUS
<1>5. \A u \in windows : u[1] <= m => u[2] <= m BY <1>4 DEF Covered
<1>6. PICK ends : ends = {u[2] : u \in {x \in windows : x[1] <= m}} OBVIOUS
<1>7. v[2] \in ends BY <1>2, <1>3, <1>6
<1>8. \A x \in ends : x \in Int /\ x <= m BY <1>4, <1>5, <1>6
<1>9. PICK final \in ends : \A x \in ends : x <= final BY <1>7, <1>8, GreatestOf
<1>10. PICK u \in windows : u[1] <= m /\ final = u[2] BY <1>6
<1>11. ~\E x \in windows : x[1] <= u[2] /\ u[2] < x[2]
  <2> SUFFICES ASSUME NEW x \in windows, x[1] <= u[2], u[2] < x[2] PROVE FALSE
    OBVIOUS
  <2>1. x[1] <= m BY <1>4, <1>8, <1>10
  <2>2. x[2] \in ends BY <1>6, <2>1
  <2> QED BY <1>4, <1>9, <1>10, <2>2
<1>12. final \in Closings(windows) BY <1>10, <1>11 DEF Closings
<1>13. opens <= final
  <2>1. v[2] <= final BY <1>7, <1>9
  <2> QED BY <1>3, <1>4, <1>8, <2>1
<1>14. final < closes
  <2>1. final <= m BY <1>8
  <2>2. closes \in Int BY <1>4 DEF Closings
  <2> QED BY <1>2, <1>8, <2>1, <2>2
<1> QED BY <1>1, <1>12, <1>13, <1>14

(* A run of covered minutes lies in one merged window.                      *)
LEMMA CoveredMerges ==
    ASSUME NEW windows, NEW top \in Nat, Windows(windows, top),
           NEW start \in Int, NEW end \in Int, start < end,
           \A m \in start .. end - 1 : Covered(windows, m)
    PROVE  \E w \in _merge_windows(windows) : w[1] <= start /\ end <= w[2]
<1>1. \A u \in windows : u[1] \in 0 .. top /\ u[2] \in 0 .. top /\ u[1] <= u[2]
  BY DEF Windows
<1>2. PICK first \in windows : first[1] <= start /\ start < first[2] BY DEF Covered
<1>3. PICK lows : lows = {u[1] : u \in windows} OBVIOUS
<1>4. PICK highs : highs = {u[2] : u \in windows} OBVIOUS
<1>5. PICK low \in lows : \A x \in lows : low <= x
  <2>1. 0 \in Int /\ \A x \in lows : x \in Int /\ 0 <= x BY <1>1, <1>3
  <2>2. lows # {} BY <1>2, <1>3
  <2> QED BY <2>1, <2>2, LeastOf
<1>6. PICK high \in highs : \A x \in highs : x <= high
  <2>1. top \in Int /\ \A x \in highs : x \in Int /\ x <= top BY <1>1, <1>4
  <2>2. highs # {} BY <1>2, <1>4
  <2> QED BY <2>1, <2>2, GreatestOf
<1>7. low \in Openings(windows)
  <2>1. PICK u \in windows : low = u[1] BY <1>3
  <2>2. ASSUME NEW x \in windows PROVE ~(x[1] < u[1])
    <3>1. x[1] \in lows BY <1>3
    <3>2. u[1] <= x[1] BY <1>5, <2>1, <3>1
    <3> QED BY <1>1, <3>2
  <2> QED BY <2>1, <2>2 DEF Openings
<1>8. high \in Closings(windows)
  <2>1. PICK u \in windows : high = u[2] BY <1>4
  <2>2. ASSUME NEW x \in windows PROVE ~(u[2] < x[2])
    <3>1. x[2] \in highs BY <1>4
    <3>2. x[2] <= u[2] BY <1>6, <2>1, <3>1
    <3> QED BY <1>1, <3>2
  <2> QED BY <2>1, <2>2 DEF Closings
<1>9. PICK before : before = {o \in Openings(windows) : o <= start} OBVIOUS
<1>10. PICK opens \in before : \A o \in before : o <= opens
  <2>1. \A o \in before : o \in Int /\ o <= start BY <1>1, <1>9 DEF Openings
  <2>2. low <= start
    <3>1. low <= first[1] BY <1>3, <1>5
    <3> QED BY <1>1, <1>2, <1>3, <3>1
  <2>3. before # {} BY <1>7, <1>9, <2>2
  <2> QED BY <2>1, <2>3, GreatestOf
<1>11. opens \in Openings(windows) /\ opens <= start /\ opens \in Int
  BY <1>1, <1>9, <1>10 DEF Openings
<1>12. PICK after : after = {c \in Closings(windows) : opens <= c} OBVIOUS
<1>13. PICK closes \in after : \A c \in after : closes <= c
  <2>1. \A c \in after : c \in Int /\ opens <= c BY <1>1, <1>12 DEF Closings
  <2>2. opens <= high
    <3>1. PICK v \in windows : opens = v[1] BY <1>11 DEF Openings
    <3>2. v[2] <= high BY <1>4, <1>6
    <3> QED BY <1>1, <1>4, <3>1, <3>2
  <2>3. after # {} BY <1>8, <1>12, <2>2
  <2> QED BY <1>11, <2>1, <2>3, LeastOf
<1>14. closes \in Closings(windows) /\ opens <= closes /\ closes \in Int
  BY <1>1, <1>12, <1>13 DEF Closings
<1>15. \A x \in windows : x[1] <= closes => x[2] <= closes
  BY <1>1, <1>14 DEF Closings
<1>16. ~\E c \in Closings(windows) : opens <= c /\ c < closes
  <2> SUFFICES ASSUME NEW c \in Closings(windows), opens <= c, c < closes PROVE FALSE
    OBVIOUS
  <2>1. c \in after BY <1>12
  <2>2. closes <= c /\ c \in Int BY <1>1, <1>13, <2>1 DEF Closings
  <2> QED BY <1>14, <2>2
<1>17. <<opens, closes>> \in _merge_windows(windows)
  BY <1>11, <1>14, <1>16 DEF _merge_windows
<1>18. end <= closes
  <2> SUFFICES ASSUME closes < end PROVE FALSE
    BY <1>14
  <2>1. CASE start <= closes
    <3>1. Covered(windows, closes) BY <1>14, <2>1
    <3> QED BY <1>1, <1>14, <1>15, <3>1 DEF Covered
  <2>2. CASE closes < start
    <3>1. PICK later : later = {u[1] : u \in {x \in windows : closes < x[1]}} OBVIOUS
    <3>2. closes < first[1]
      <4>1. ~(first[1] <= closes) BY <1>1, <1>2, <1>14, <1>15, <2>2
      <4> QED BY <1>1, <1>14, <4>1
    <3>3. PICK next \in later : \A x \in later : next <= x
      <4>1. \A x \in later : x \in Int /\ closes <= x BY <1>1, <1>14, <3>1
      <4>2. later # {} BY <3>1, <3>2
      <4> QED BY <1>14, <4>1, <4>2, LeastOf
    <3>4. PICK u \in windows : next = u[1] /\ closes < u[1] BY <3>1, <3>3
    <3>5. ~\E x \in windows : x[1] < u[1] /\ u[1] <= x[2]
      <4> SUFFICES ASSUME NEW x \in windows, x[1] < u[1], u[1] <= x[2] PROVE FALSE
        OBVIOUS
      <4>1. CASE x[1] <= closes BY <1>1, <1>14, <1>15, <3>4, <4>1
      <4>2. CASE closes < x[1]
        <5>1. x[1] \in later BY <3>1, <4>2
        <5> QED BY <1>1, <3>3, <3>4, <5>1
      <4> QED BY <1>1, <1>14, <4>1, <4>2
    <3>6. next \in Openings(windows) BY <3>4, <3>5 DEF Openings
    <3>7. next <= start
      <4>1. first[1] \in later BY <3>1, <3>2
      <4>2. next <= first[1] BY <3>3, <4>1
      <4> QED BY <1>1, <1>2, <3>4, <4>2
    <3>8. next \in before BY <1>9, <3>6, <3>7
    <3>9. next <= opens BY <1>10, <3>8
    <3> QED BY <1>1, <1>11, <1>14, <3>4, <3>9
  <2> QED BY <1>14, <2>1, <2>2
<1>19. <<opens, closes>>[1] <= start /\ end <= <<opens, closes>>[2] BY <1>11, <1>18
<1> QED BY <1>17, <1>19

(* The windows of a date are the merged ones of its own hours, cut at       *)
(* midnight, and of what the day before leaves over.                        *)
Cut(windows) == {<<w[1], Min({w[2], MinutesInDay})>> : w \in windows}
Eve(listing, d) ==
    IF Line(listing, <<"date", d>>) # None THEN None ELSE Known(listing, d - 1)

(* Hours that are known are never None, on any day.                         *)
LEMMA KnownWindows ==
    ASSUME NEW listing, Listing(listing), NEW d, Known(listing, d) # None
    PROVE  _daily_windows(Known(listing, d), Eve(listing, d)) # None
<1>1. PICK lines : lines = {parse(listing)[k] : k \in DOMAIN parse(listing)} OBVIOUS
<1>2. \A key : Line(listing, key) \in {None} \cup lines BY <1>1 DEF Line, Lookup
<1>3. \A e : Known(listing, e) \in {None} \cup lines BY <1>2 DEF Known, Or
<1>4. Eve(listing, d) \in {None} \cup lines BY <1>3 DEF Eve
<1> QED BY <1>1, <1>3, <1>4 DEF Listing

LEMMA WindowsForIs ==
    ASSUME NEW listing, NEW d
    PROVE  windows_for(listing, d) =
             IF Known(listing, d) = None THEN None
             ELSE _merge_windows(Cut(Known(listing, d)) \cup Spill(Eve(listing, d)))
<1>1. PICK hours : hours = parse(listing) OBVIOUS
<1>2. \A key : Line(listing, key) = Lookup(hours, key) BY <1>1 DEF Line
<1>3. PICK today, yesterday : today = Line(listing, <<"date", d>>)
                              /\ yesterday = Line(listing, <<"date", d - 1>>)
  OBVIOUS
<1>4. windows_for(listing, d) =
        IF today # None THEN _daily_windows(today, None)
        ELSE _daily_windows(Line(listing, Weekday(d)),
                            IF yesterday # None THEN yesterday
                            ELSE Line(listing, Weekday(d - 1)))
  BY <1>1, <1>2, <1>3 DEF windows_for
<1>5. Known(listing, d) = IF today # None THEN today ELSE Line(listing, Weekday(d))
  BY <1>3 DEF Known, Or
<1>6. Known(listing, d - 1) = IF yesterday # None THEN yesterday ELSE Line(listing, Weekday(d - 1))
  BY <1>3 DEF Known, Or
<1>7. windows_for(listing, d) = _daily_windows(Known(listing, d), Eve(listing, d))
  BY <1>3, <1>4, <1>5, <1>6 DEF Eve
<1> QED BY <1>7 DEF _daily_windows, Cut

LEMMA WindowsForKnown ==
    ASSUME NEW listing, Listing(listing), NEW d, Known(listing, d) # None
    PROVE  windows_for(listing, d) # None
<1>1. PICK known, before : known = Known(listing, d) /\ before = Eve(listing, d) OBVIOUS
<1>2. windows_for(listing, d) = _merge_windows(Cut(known) \cup Spill(before))
  BY <1>1, WindowsForIs
<1>3. _daily_windows(known, before) = _merge_windows(Cut(known) \cup Spill(before))
  BY <1>1 DEF _daily_windows, Cut
<1> QED BY <1>1, <1>2, <1>3, KnownWindows

LEMMA CutIs ==
    ASSUME NEW windows, Spans(windows)
    PROVE  /\ Windows(Cut(windows), MinutesInDay)
           /\ \A m \in 0 .. MinutesInDay - 1 : Covered(Cut(windows), m) <=> Covered(windows, m)
<1>1. PICK cut : cut = Cut(windows) OBVIOUS
<1>2. ASSUME NEW w \in windows
      PROVE  \E x \in 0 .. MinutesInDay, y \in 0 .. Limit, z \in 0 .. MinutesInDay :
                /\ w = <<x, y>> /\ x <= z /\ (z = IF y <= MinutesInDay THEN y ELSE MinutesInDay)
                /\ <<w[1], Min({w[2], MinutesInDay})>> = <<x, z>>
  <2>1. PICK x \in 0 .. MinutesInDay, y \in 0 .. Limit : x <= y /\ w = <<x, y>> BY DEF Spans
  <2>2. PICK z : z = IF y <= MinutesInDay THEN y ELSE MinutesInDay OBVIOUS
  <2>3. z \in 0 .. MinutesInDay /\ x <= z BY <2>1, <2>2 DEF MinutesInDay, Limit
  <2>4. MinutesInDay \in Int /\ y \in Int BY DEF MinutesInDay, Limit
  <2>5. Min({y, MinutesInDay}) = z BY <2>2, <2>4, MinOfTwo
  <2>6. w[1] = x /\ w[2] = y BY <2>1
  <2> QED BY <2>1, <2>2, <2>3, <2>5, <2>6
<1>3. ASSUME NEW u \in cut PROVE \E x, y \in 0 .. MinutesInDay : x <= y /\ u = <<x, y>>
  <2>1. PICK w \in windows : u = <<w[1], Min({w[2], MinutesInDay})>> BY <1>1 DEF Cut
  <2> QED BY <1>2, <2>1
<1>4. ASSUME NEW m \in 0 .. MinutesInDay - 1, Covered(windows, m) PROVE Covered(cut, m)
  <2>1. PICK w \in windows : w[1] <= m /\ m < w[2] BY <1>4 DEF Covered
  <2>2. PICK x \in 0 .. MinutesInDay, y \in 0 .. Limit, z \in 0 .. MinutesInDay :
           /\ w = <<x, y>> /\ z = IF y <= MinutesInDay THEN y ELSE MinutesInDay
           /\ <<w[1], Min({w[2], MinutesInDay})>> = <<x, z>>
    BY <1>2
  <2>3. w[1] = x /\ w[2] = y BY <2>2
  <2>4. x <= m /\ m < z
    <3>1. x <= m /\ m < y BY <2>1, <2>3
    <3>2. m < MinutesInDay BY DEF MinutesInDay
    <3>3. z = y \/ z = MinutesInDay BY <2>2
    <3> QED BY <3>1, <3>2, <3>3
  <2>5. <<x, z>> \in cut BY <1>1, <2>2 DEF Cut
  <2>6. <<x, z>>[1] <= m /\ m < <<x, z>>[2] BY <2>4
  <2> QED BY <2>5, <2>6 DEF Covered
<1>5. ASSUME NEW m \in 0 .. MinutesInDay - 1, Covered(cut, m) PROVE Covered(windows, m)
  <2>1. PICK u \in cut : u[1] <= m /\ m < u[2] BY <1>5 DEF Covered
  <2>2. PICK w \in windows : u = <<w[1], Min({w[2], MinutesInDay})>> BY <1>1 DEF Cut
  <2>3. PICK x \in 0 .. MinutesInDay, y \in 0 .. Limit, z \in 0 .. MinutesInDay :
           /\ w = <<x, y>> /\ z = IF y <= MinutesInDay THEN y ELSE MinutesInDay
           /\ u = <<x, z>>
    BY <1>2, <2>2
  <2>4. w[1] = x /\ w[2] = y /\ u[1] = x /\ u[2] = z BY <2>3
  <2>5. w[1] <= m /\ m < w[2] BY <2>1, <2>3, <2>4 DEF MinutesInDay, Limit
  <2> QED BY <2>5 DEF Covered
<1> QED BY <1>1, <1>3, <1>4, <1>5 DEF Windows

LEMMA SpillIs ==
    ASSUME NEW windows, windows = None \/ Spans(windows)
    PROVE  /\ Windows(Spill(windows), MinutesInDay)
           /\ \A m \in 0 .. MinutesInDay - 1 :
                 Covered(Spill(windows), m) <=>
                    windows # None /\ \E w \in windows : /\ w[1] <= m + MinutesInDay
                                                         /\ m + MinutesInDay < w[2]
<1>1. CASE windows = None BY <1>1 DEF Spill, Windows, Covered
<1>2. CASE windows # None
  <2>1. PICK spill : spill = Spill(windows) OBVIOUS
  <2>2. spill = {<<0, w[2] - MinutesInDay>> : w \in {v \in windows : v[2] > MinutesInDay}}
    BY <1>2, <2>1 DEF Spill
  <2>3. ASSUME NEW w \in windows
        PROVE  \E x \in 0 .. MinutesInDay, y \in 0 .. Limit : w = <<x, y>>
    BY <1>2 DEF Spans
  <2>4. ASSUME NEW u \in spill PROVE \E x, y \in 0 .. MinutesInDay : x <= y /\ u = <<x, y>>
    <3>1. PICK w \in windows : w[2] > MinutesInDay /\ u = <<0, w[2] - MinutesInDay>> BY <2>2
    <3>2. PICK x \in 0 .. MinutesInDay, y \in 0 .. Limit : w = <<x, y>> BY <2>3
    <3>3. w[2] = y BY <3>2
    <3>4. PICK z : z = y - MinutesInDay OBVIOUS
    <3>5. z \in Int /\ 0 <= z /\ z <= 1440 BY <3>1, <3>3, <3>4 DEF MinutesInDay, Limit
    <3>6. 0 \in 0 .. MinutesInDay /\ z \in 0 .. MinutesInDay BY <3>5 DEF MinutesInDay
    <3> QED BY <3>1, <3>3, <3>4, <3>5, <3>6
  <2>5. ASSUME NEW m \in 0 .. MinutesInDay - 1, NEW w \in windows,
               w[1] <= m + MinutesInDay, m + MinutesInDay < w[2]
        PROVE  Covered(spill, m)
    <3>1. PICK x \in 0 .. MinutesInDay, y \in 0 .. Limit : w = <<x, y>> BY <2>3
    <3>2. w[2] = y BY <3>1
    <3>3. y > MinutesInDay /\ m < y - MinutesInDay
      <4>1. y \in Int /\ m \in Int /\ 0 <= m BY <3>1 DEF MinutesInDay, Limit
      <4>2. m + MinutesInDay < y BY <2>5, <3>2
      <4> QED BY <4>1, <4>2 DEF MinutesInDay
    <3>4. <<0, y - MinutesInDay>> \in spill BY <2>2, <3>2, <3>3
    <3>5. <<0, y - MinutesInDay>>[1] <= m /\ m < <<0, y - MinutesInDay>>[2] BY <3>3
    <3> QED BY <3>4, <3>5 DEF Covered
  <2>6. ASSUME NEW m \in 0 .. MinutesInDay - 1, Covered(spill, m)
        PROVE  \E w \in windows : w[1] <= m + MinutesInDay /\ m + MinutesInDay < w[2]
    <3>1. PICK u \in spill : u[1] <= m /\ m < u[2] BY <2>6 DEF Covered
    <3>2. PICK w \in windows : u = <<0, w[2] - MinutesInDay>> BY <2>2
    <3>3. PICK x \in 0 .. MinutesInDay, y \in 0 .. Limit : w = <<x, y>> BY <2>3
    <3>4. w[1] = x /\ w[2] = y /\ u[2] = y - MinutesInDay BY <3>2, <3>3
    <3>5. w[1] <= m + MinutesInDay /\ m + MinutesInDay < w[2]
      BY <3>1, <3>4 DEF MinutesInDay, Limit
    <3> QED BY <3>5
  <2> QED BY <1>2, <2>1, <2>4, <2>5, <2>6 DEF Windows
<1> QED BY <1>1, <1>2

LEMMA WindowsAreInts ==
    ASSUME NEW windows, Windows(windows, MinutesInDay)
    PROVE  \A u \in windows : u[1] \in Int /\ u[2] \in Int
<1> SUFFICES ASSUME NEW u \in windows PROVE u[1] \in Int /\ u[2] \in Int
  OBVIOUS
<1>1. PICK x \in 0 .. MinutesInDay, y \in 0 .. MinutesInDay : u = <<x, y>> BY DEF Windows
<1>2. u[1] = x /\ u[2] = y BY <1>1
<1> QED BY <1>2 DEF MinutesInDay

(* A visit does not fit the hours exactly when one of its minutes is known  *)
(* to be out of them.                                                       *)
LEMMA ClosedMinute ==
    ASSUME None \notin Int, NEW listing, Listing(listing), NEW d,
           NEW start \in Int, NEW end \in Int, start < end
    PROVE  closed_reason(listing, d, start, end) <=>
             \E m \in start .. end - 1 : ShutAt(listing, d, m)
<1>1. PICK known, before : known = Known(listing, d) /\ before = Eve(listing, d) OBVIOUS
<1>2. known = None \/ Spans(known) BY <1>1, KnownIs
<1>3. before = None \/ Spans(before) BY <1>1, KnownIs DEF Eve
<1>4. PICK today : today = windows_for(listing, d) OBVIOUS
<1>5. closed_reason(listing, d, start, end) <=>
        today # None /\ ~\E w \in today : w[1] <= start /\ end <= w[2]
  BY <1>4 DEF closed_reason
<1>6. CASE known = None
  <2>1. today = None BY <1>1, <1>4, <1>6, WindowsForIs
  <2> QED BY <1>1, <1>5, <1>6, <2>1 DEF ShutAt
<1>7. CASE known # None
  <2>1. PICK windows : windows = Cut(known) \cup Spill(before) OBVIOUS
  <2>2. today = _merge_windows(windows) BY <1>1, <1>4, <1>7, <2>1, WindowsForIs
  <2>3. Spans(known) BY <1>2, <1>7
  <2>4. Windows(windows, MinutesInDay)
    <3>1. Windows(Cut(known), MinutesInDay) BY <2>3, CutIs
    <3>2. Windows(Spill(before), MinutesInDay) BY <1>3, SpillIs
    <3> QED BY <2>1, <3>1, <3>2 DEF Windows
  <2>5. MinutesInDay \in Nat BY DEF MinutesInDay
  <2>6. ASSUME NEW m \in Int PROVE Covered(windows, m) <=> OpenAt(listing, d, m)
    <3>1. CASE m \in 0 .. MinutesInDay - 1
      <4>1. Covered(windows, m) <=> Covered(Cut(known), m) \/ Covered(Spill(before), m)
        BY <2>1 DEF Covered
      <4>2. Covered(Cut(known), m) <=> Covered(known, m) BY <2>3, <3>1, CutIs
      <4>3. Covered(Spill(before), m) <=>
              before # None /\ \E w \in before : /\ w[1] <= m + MinutesInDay
                                                 /\ m + MinutesInDay < w[2]
        BY <1>3, <3>1, SpillIs
      <4>4. PICK yesterday, line : yesterday = Known(listing, d - 1)
                                   /\ line = Line(listing, <<"date", d>>)
        OBVIOUS
      <4>5. OpenAt(listing, d, m) <=>
              \/ Covered(known, m)
              \/ /\ line = None /\ yesterday # None
                 /\ \E w \in yesterday : w[1] <= m + MinutesInDay /\ m + MinutesInDay < w[2]
        BY <1>1, <3>1, <4>4 DEF OpenAt, Covered
      <4>6. before = IF line # None THEN None ELSE yesterday BY <1>1, <4>4 DEF Eve
      <4> QED BY <4>1, <4>2, <4>3, <4>5, <4>6
    <3>2. CASE m \notin 0 .. MinutesInDay - 1
      <4>1. ~OpenAt(listing, d, m) BY <3>2 DEF OpenAt
      <4>2. ASSUME NEW w \in windows, w[1] <= m, m < w[2] PROVE FALSE
        <5>1. PICK x \in 0 .. MinutesInDay, y \in 0 .. MinutesInDay : w = <<x, y>>
          BY <2>4 DEF Windows
        <5>2. w[1] = x /\ w[2] = y BY <5>1
        <5>3. x <= m /\ m < y BY <4>2, <5>2
        <5>4. x \in Int /\ y \in Int /\ 0 <= x /\ y <= 1440 BY <5>1 DEF MinutesInDay
        <5>5. m \in 0 .. 1439 BY <5>3, <5>4
        <5> QED BY <3>2, <5>5 DEF MinutesInDay
      <4> QED BY <4>1, <4>2 DEF Covered
    <3> QED BY <3>1, <3>2
  <2>7. ASSUME NEW w \in today, w[1] <= start, end <= w[2], NEW m \in start .. end - 1
        PROVE  Covered(windows, m)
    <3>1. w[1] \in Int /\ w[2] \in Int
      <4>1. \A u \in windows : u[1] \in Int /\ u[2] \in Int BY <2>4, WindowsAreInts
      <4>2. w \in Openings(windows) \X Closings(windows) BY <2>2, <2>7 DEF _merge_windows
      <4> QED BY <4>1, <4>2 DEF Openings, Closings
    <3>2. m \in Int /\ w[1] <= m /\ m < w[2] BY <2>7, <3>1
    <3> QED BY <2>2, <2>4, <2>5, <3>2, MergedCovers
  <2>8. ASSUME \A m \in start .. end - 1 : Covered(windows, m)
        PROVE  \E w \in today : w[1] <= start /\ end <= w[2]
    BY <2>2, <2>4, <2>5, <2>8, CoveredMerges
  <2>9. (\E w \in today : w[1] <= start /\ end <= w[2])
          <=> \A m \in start .. end - 1 : Covered(windows, m)
    BY <2>7, <2>8
  <2>10. today # None BY <1>1, <1>4, <1>7, WindowsForKnown
  <2> QED BY <1>1, <1>5, <1>7, <2>6, <2>9, <2>10 DEF ShutAt
<1> QED BY <1>6, <1>7

-----------------------------------------------------------------------------
(* The parts of a visit on each date are its minutes.                       *)

(* An activity on one clock, of integers, that takes time.                  *)
Clocked(a) ==
    /\ a.from \in Int /\ a.to \in Int
    /\ IF a.start_at = None THEN a.end_at = None /\ a.from < a.to
       ELSE /\ a.end_at # None /\ Timestamp(a.start_at) /\ Timestamp(a.end_at)
            /\ a.start_at.utc < a.end_at.utc

LEMMA DayOf ==
    ASSUME NEW z \in Int
    PROVE  /\ z \div MinutesInDay \in Int /\ z % MinutesInDay \in 0 .. MinutesInDay - 1
           /\ z = (MinutesInDay * (z \div MinutesInDay)) + (z % MinutesInDay)
BY DEF MinutesInDay

LEMMA DayIs ==
    ASSUME NEW q \in Int, NEW r \in 0 .. MinutesInDay - 1, NEW z \in Int, z = MinutesInDay * q + r
    PROVE  z \div MinutesInDay = q /\ z % MinutesInDay = r
BY DEF MinutesInDay

LEMMA DayLater ==
    ASSUME NEW q \in Int, NEW r \in Int, q < r,
           NEW u \in 0 .. MinutesInDay - 1, NEW v \in Nat
    PROVE  MinutesInDay * q + u < MinutesInDay * r + v
BY DEF MinutesInDay

(* Between two moments, minute by minute and date by date.                  *)
Parts(first, from, final, to) ==
    IF first = final THEN {<<first, from, to>>}
    ELSE {<<first, from, MinutesInDay>>}
         \cup (IF to = 0 THEN {} ELSE {<<final, 0, to>>})
         \cup {<<d, 0, MinutesInDay>> : d \in first + 1 .. final - 1}

LEMMA Spread ==
    ASSUME NEW x \in Int, NEW y \in Int, x < y, NEW parts,
           parts = Parts(x \div MinutesInDay, x % MinutesInDay,
                         y \div MinutesInDay, y % MinutesInDay)
    PROVE  /\ \A p \in parts : p[1] \in Int /\ p[2] \in Int /\ p[3] \in Int /\ p[2] < p[3]
           /\ \A p \in parts : \A m \in p[2] .. p[3] - 1 : \E z \in x .. y - 1 :
                 p[1] = z \div MinutesInDay /\ m = z % MinutesInDay
           /\ \A z \in x .. y - 1 : \E p \in parts :
                 p[1] = z \div MinutesInDay /\ z % MinutesInDay \in p[2] .. p[3] - 1
<1> DEFINE first == x \div MinutesInDay
           from == x % MinutesInDay
           final == y \div MinutesInDay
           to == y % MinutesInDay
<1>0. parts = Parts(first, from, final, to) OBVIOUS
<1>1. /\ first \in Int /\ from \in 0 .. MinutesInDay - 1 /\ x = MinutesInDay * first + from
      /\ final \in Int /\ to \in 0 .. MinutesInDay - 1 /\ y = MinutesInDay * final + to
  <2>1. /\ x \div MinutesInDay \in Int /\ x % MinutesInDay \in 0 .. MinutesInDay - 1
        /\ x = (MinutesInDay * (x \div MinutesInDay)) + (x % MinutesInDay)
    BY DayOf
  <2>2. /\ y \div MinutesInDay \in Int /\ y % MinutesInDay \in 0 .. MinutesInDay - 1
        /\ y = (MinutesInDay * (y \div MinutesInDay)) + (y % MinutesInDay)
    BY DayOf
  <2> QED BY <2>1, <2>2
<1> HIDE DEF first, from, final, to
<1>2. ASSUME NEW d \in Int, NEW m \in 0 .. MinutesInDay - 1,
             x <= MinutesInDay * d + m, MinutesInDay * d + m < y
      PROVE  \E z \in x .. y - 1 : d = z \div MinutesInDay /\ m = z % MinutesInDay
  <2>1. PICK z \in Int : z = MinutesInDay * d + m BY DEF MinutesInDay
  <2>2. z \in x .. y - 1 BY <1>2, <2>1
  <2> QED BY <2>1, <2>2, DayIs
<1>3. ASSUME NEW z \in x .. y - 1
      PROVE  \E d \in Int, m \in 0 .. MinutesInDay - 1 :
                /\ d = z \div MinutesInDay /\ m = z % MinutesInDay
                /\ x <= MinutesInDay * d + m /\ MinutesInDay * d + m < y
  <2>1. PICK d \in Int, m \in 0 .. MinutesInDay - 1 :
          d = z \div MinutesInDay /\ m = z % MinutesInDay /\ z = MinutesInDay * d + m
    BY DayOf
  <2>2. x <= z /\ z < y OBVIOUS
  <2>3. x <= MinutesInDay * d + m /\ MinutesInDay * d + m < y BY <2>1, <2>2
  <2> QED BY <2>1, <2>3
<1>4. CASE first = final
  <2>1. parts = {<<first, from, to>>} BY <1>0, <1>4 DEF Parts
  <2>2. from < to BY <1>1, <1>4 DEF MinutesInDay
  <2>3. \A m \in from .. to - 1 : /\ m \in 0 .. MinutesInDay - 1
                                  /\ x <= MinutesInDay * first + m /\ MinutesInDay * first + m < y
    BY <1>1, <1>4 DEF MinutesInDay
  <2>4. \A d \in Int, m \in 0 .. MinutesInDay - 1 :
           x <= MinutesInDay * d + m /\ MinutesInDay * d + m < y => d = first /\ m \in from .. to - 1
    BY <1>1, <1>4 DEF MinutesInDay
  <2>5. PICK p : p = <<first, from, to>> OBVIOUS
  <2>6. p[1] = first /\ p[2] = from /\ p[3] = to /\ parts = {p} BY <2>1, <2>5
  <2>7. \A z \in x .. y - 1 : p[1] = z \div MinutesInDay /\ z % MinutesInDay \in p[2] .. p[3] - 1
    BY <1>3, <2>4, <2>6
  <2>8. ASSUME NEW m \in from .. to - 1
        PROVE  \E z \in x .. y - 1 : first = z \div MinutesInDay /\ m = z % MinutesInDay
    BY <1>1, <1>2, <2>3
  <2>9. \A m \in p[2] .. p[3] - 1 : \E z \in x .. y - 1 :
           p[1] = z \div MinutesInDay /\ m = z % MinutesInDay
    BY <2>6, <2>8
  <2>10. p[1] \in Int /\ p[2] \in Int /\ p[3] \in Int /\ p[2] < p[3]
    <3>1. from \in Int /\ to \in Int BY <1>1
    <3> QED BY <1>1, <2>2, <2>6, <3>1
  <2> QED BY <2>6, <2>7, <2>9, <2>10
<1>5. CASE first # final
  <2>1. first < final BY <1>1, <1>5 DEF MinutesInDay
  <2>2. PICK head : head = <<first, from, MinutesInDay>> OBVIOUS
  <2>3. PICK tail : tail = <<final, 0, to>> OBVIOUS
  <2>4. parts = {head} \cup (IF to = 0 THEN {} ELSE {tail})
                \cup {<<d, 0, MinutesInDay>> : d \in first + 1 .. final - 1}
    BY <1>0, <1>5, <2>2, <2>3 DEF Parts
  <2>5. ASSUME NEW p \in parts
        PROVE  /\ p[1] \in Int /\ p[2] \in Int /\ p[3] \in Int /\ p[2] < p[3]
               /\ \A m \in p[2] .. p[3] - 1 :
                     /\ m \in 0 .. MinutesInDay - 1
                     /\ x <= MinutesInDay * p[1] + m /\ MinutesInDay * p[1] + m < y
    <3>1. CASE p = head
      <4>1. p[1] = first /\ p[2] = from /\ p[3] = MinutesInDay BY <2>2, <3>1
      <4>2. from < MinutesInDay BY <1>1 DEF MinutesInDay
      <4>3. ASSUME NEW m \in from .. MinutesInDay - 1
            PROVE  /\ m \in 0 .. MinutesInDay - 1
                   /\ x <= MinutesInDay * first + m /\ MinutesInDay * first + m < y
        <5>1. m \in 0 .. MinutesInDay - 1 /\ from <= m BY <1>1 DEF MinutesInDay
        <5>2. to \in Nat BY <1>1 DEF MinutesInDay
        <5>3. MinutesInDay * first + m < y BY <1>1, <2>1, <5>1, <5>2, DayLater
        <5>4. x <= MinutesInDay * first + m BY <1>1, <5>1 DEF MinutesInDay
        <5> QED BY <5>1, <5>3, <5>4
      <4>4. first \in Int /\ from \in Int /\ MinutesInDay \in Int BY <1>1 DEF MinutesInDay
      <4> QED BY <4>1, <4>2, <4>3, <4>4
    <3>2. CASE p = tail /\ to # 0
      <4>1. p[1] = final /\ p[2] = 0 /\ p[3] = to BY <2>3, <3>2
      <4>2. final \in Int /\ to \in Int /\ 0 < to BY <1>1, <3>2 DEF MinutesInDay
      <4>3. ASSUME NEW m \in 0 .. to - 1
            PROVE  /\ m \in 0 .. MinutesInDay - 1
                   /\ x <= MinutesInDay * final + m /\ MinutesInDay * final + m < y
        <5>1. m \in 0 .. MinutesInDay - 1 /\ m < to /\ m \in Nat BY <1>1 DEF MinutesInDay
        <5>2. x < MinutesInDay * final + m BY <1>1, <2>1, <5>1, DayLater
        <5>3. MinutesInDay * final + m < y BY <1>1, <5>1 DEF MinutesInDay
        <5>4. x \in Int /\ MinutesInDay * final + m \in Int BY <1>1, <5>1 DEF MinutesInDay
        <5> QED BY <5>1, <5>2, <5>3, <5>4
      <4> QED BY <4>1, <4>2, <4>3
    <3>3. CASE \E d \in first + 1 .. final - 1 : p = <<d, 0, MinutesInDay>>
      <4>1. PICK d \in first + 1 .. final - 1 : p = <<d, 0, MinutesInDay>> BY <3>3
      <4>2. p[1] = d /\ p[2] = 0 /\ p[3] = MinutesInDay /\ d \in Int BY <1>1, <4>1
      <4>3. ASSUME NEW m \in 0 .. MinutesInDay - 1
            PROVE  x <= MinutesInDay * d + m /\ MinutesInDay * d + m < y
        <5>1. first < d /\ d < final /\ d \in Int BY <1>1, <4>1
        <5>6. from \in 0 .. MinutesInDay - 1 BY <1>1
        <5>7. to \in Nat BY <1>1 DEF MinutesInDay
        <5>8. m \in Nat BY DEF MinutesInDay
        <5>2. from \in 0 .. MinutesInDay - 1 /\ to \in Nat /\ m \in Nat
          BY <5>6, <5>7, <5>8
        <5>3. x < MinutesInDay * d + m BY <1>1, <5>1, <5>2, DayLater
        <5>4. MinutesInDay * d + m < y BY <1>1, <5>1, <5>2, DayLater
        <5>5. x \in Int /\ MinutesInDay * d + m \in Int BY <5>1 DEF MinutesInDay
        <5> QED BY <5>3, <5>4, <5>5
      <4>4. MinutesInDay \in Int /\ 0 < MinutesInDay BY DEF MinutesInDay
      <4> QED BY <4>2, <4>3, <4>4
    <3> QED BY <2>4, <3>1, <3>2, <3>3
  <2>6. ASSUME NEW d \in Int, NEW m \in 0 .. MinutesInDay - 1,
               x <= MinutesInDay * d + m, MinutesInDay * d + m < y
        PROVE  \E p \in parts : p[1] = d /\ m \in p[2] .. p[3] - 1
    <3>1. first <= d /\ d <= final
      <4>5. from \in Nat BY <1>1 DEF MinutesInDay
      <4>6. to \in 0 .. MinutesInDay - 1 BY <1>1
      <4>7. m \in Nat BY DEF MinutesInDay
      <4>1. from \in Nat /\ to \in 0 .. MinutesInDay - 1 /\ m \in Nat
        BY <4>5, <4>6, <4>7
      <4>2. MinutesInDay * d + m \in Int BY DEF MinutesInDay
      <4>3. ~(d < first)
        <5> SUFFICES ASSUME d < first PROVE FALSE
          OBVIOUS
        <5>1. MinutesInDay * d + m < x BY <1>1, <4>1, DayLater
        <5> QED BY <2>6, <4>2, <5>1
      <4>4. ~(final < d)
        <5> SUFFICES ASSUME final < d PROVE FALSE
          OBVIOUS
        <5>1. y < MinutesInDay * d + m BY <1>1, <4>1, DayLater
        <5> QED BY <2>6, <4>2, <5>1
      <4> QED BY <1>1, <4>3, <4>4
    <3>2. CASE d = first
      <4>1. head[1] = d /\ head[2] = from /\ head[3] = MinutesInDay /\ head \in parts
        BY <2>2, <2>4, <3>2
      <4>2. m \in from .. MinutesInDay - 1 BY <1>1, <2>6, <3>2 DEF MinutesInDay
      <4>3. m \in head[2] .. head[3] - 1 BY <4>1, <4>2
      <4> QED BY <4>1, <4>3
    <3>3. CASE d = final
      <4>1. m < to BY <1>1, <2>6, <3>3 DEF MinutesInDay
      <4>2. m \in 0 .. to - 1 /\ to # 0 BY <1>1, <4>1 DEF MinutesInDay
      <4>3. tail[1] = d /\ tail[2] = 0 /\ tail[3] = to /\ tail \in parts
        BY <2>3, <2>4, <3>3, <4>2
      <4> QED BY <4>2, <4>3
    <3>4. CASE d # first /\ d # final
      <4>1. d \in first + 1 .. final - 1 BY <1>1, <3>1, <3>4
      <4>2. PICK p : p = <<d, 0, MinutesInDay>> OBVIOUS
      <4>3. p \in parts /\ p[1] = d /\ p[2] = 0 /\ p[3] = MinutesInDay BY <2>4, <4>1, <4>2
      <4> QED BY <4>3
    <3> QED BY <3>2, <3>3, <3>4
  <2>7. \A p \in parts : \A m \in p[2] .. p[3] - 1 : \E z \in x .. y - 1 :
           p[1] = z \div MinutesInDay /\ m = z % MinutesInDay
    BY <1>2, <2>5
  <2>8. \A z \in x .. y - 1 : \E p \in parts :
           p[1] = z \div MinutesInDay /\ z % MinutesInDay \in p[2] .. p[3] - 1
    BY <1>3, <2>6
  <2> QED BY <2>5, <2>7, <2>8
<1> QED BY <1>4, <1>5

LEMMA SegmentMinutes ==
    ASSUME NEW day, day.date \in Int, NEW a, Clocked(a)
    PROVE  /\ \A s \in Segments(day, a) : s[2] \in Int /\ s[3] \in Int /\ s[2] < s[3]
           /\ \A s \in Segments(day, a) : \A m \in s[2] .. s[3] - 1 : <<s[1], m>> \in MinutesAt(day, a)
           /\ \A x \in MinutesAt(day, a) : \E s \in Segments(day, a) :
                 s[1] = x[1] /\ x[2] \in s[2] .. s[3] - 1
<1>1. CASE a.start_at = None
  <2>1. PICK s : s = <<day.date, a.from, a.to>> OBVIOUS
  <2>2. Segments(day, a) = {s} BY <1>1, <2>1 DEF Segments
  <2>3. MinutesAt(day, a) = {<<day.date, m>> : m \in a.from .. a.to - 1} BY <1>1 DEF MinutesAt
  <2>4. a.from \in Int /\ a.to \in Int /\ a.from < a.to BY <1>1 DEF Clocked
  <2>5. s[1] = day.date /\ s[2] = a.from /\ s[3] = a.to BY <2>1
  <2>6. ASSUME NEW x \in MinutesAt(day, a) PROVE s[1] = x[1] /\ x[2] \in s[2] .. s[3] - 1
    <3>1. PICK m \in a.from .. a.to - 1 : x = <<day.date, m>> BY <2>3
    <3> QED BY <2>5, <3>1
  <2> QED BY <2>2, <2>3, <2>4, <2>5, <2>6
<1>2. CASE a.start_at # None
  <2>1. /\ {"utc", "offset"} \subseteq DOMAIN a.start_at /\ {"utc", "offset"} \subseteq DOMAIN a.end_at
        /\ a.start_at.utc \in Int /\ a.start_at.offset \in Int
        /\ a.end_at.utc \in Int /\ a.end_at.offset \in Int
        /\ a.start_at.utc < a.end_at.utc
    BY <1>2 DEF Clocked, Timestamp
  <2>2. PICK off \in Int, from \in Int, to \in Int :
          off = a.start_at.offset /\ from = a.start_at.utc /\ to = a.end_at.utc
    BY <2>1
  <2>3. PICK x \in Int, y \in Int : x = from + off /\ y = to + off /\ x < y BY <2>1, <2>2
  <2>4. PICK final : final = [a.end_at EXCEPT !.offset = a.start_at.offset] OBVIOUS
  <2>5. final.utc = to /\ final.offset = off BY <2>1, <2>2, <2>4
  <2>6. /\ DateOf(final) = y \div MinutesInDay /\ ClockOf(final) = y % MinutesInDay
        /\ DateOf(a.start_at) = x \div MinutesInDay /\ ClockOf(a.start_at) = x % MinutesInDay
    BY <2>2, <2>3, <2>5 DEF DateOf, ClockOf
  <2>7. PICK d, c, e, f : d = DateOf(a.start_at) /\ c = ClockOf(a.start_at)
                          /\ e = DateOf(final) /\ f = ClockOf(final)
    OBVIOUS
  <2>8. PICK parts : parts = Parts(d, c, e, f) OBVIOUS
  <2>9. Segments(day, a) = parts
    <3>1. Segments(day, a) =
            IF e = d THEN {<<e, c, f>>}
            ELSE {<<d, c, MinutesInDay>>} \cup (IF f = 0 THEN {} ELSE {<<e, 0, f>>})
                 \cup {<<n, 0, MinutesInDay>> : n \in d + 1 .. e - 1}
      BY <1>2, <2>4, <2>7 DEF Segments
    <3> QED BY <2>8, <3>1 DEF Parts
  <2>10. /\ \A p \in parts : p[1] \in Int /\ p[2] \in Int /\ p[3] \in Int /\ p[2] < p[3]
         /\ \A p \in parts : \A m \in p[2] .. p[3] - 1 : \E z \in x .. y - 1 :
               p[1] = z \div MinutesInDay /\ m = z % MinutesInDay
         /\ \A z \in x .. y - 1 : \E p \in parts :
               p[1] = z \div MinutesInDay /\ z % MinutesInDay \in p[2] .. p[3] - 1
    <3>1. parts = Parts(x \div MinutesInDay, x % MinutesInDay,
                        y \div MinutesInDay, y % MinutesInDay)
      BY <2>6, <2>7, <2>8
    <3>2. x \in Int /\ y \in Int /\ x < y BY <2>3
    <3> QED BY <3>1, <3>2, Spread
  <2>11. MinutesAt(day, a) = {<<(utc + off) \div MinutesInDay, (utc + off) % MinutesInDay>> :
                                utc \in from .. to - 1}
    BY <1>2, <2>2 DEF MinutesAt, DateOf, ClockOf
  <2>12. \A z \in x .. y - 1 : <<z \div MinutesInDay, z % MinutesInDay>> \in MinutesAt(day, a)
    <3> TAKE z \in x .. y - 1
    <3>1. PICK utc \in Int : utc = z - off BY <2>2, <2>3
    <3>2. utc \in from .. to - 1 /\ utc + off = z BY <2>2, <2>3, <3>1
    <3> QED BY <2>11, <3>2
  <2>13. ASSUME NEW u \in MinutesAt(day, a)
         PROVE  \E s \in parts : s[1] = u[1] /\ u[2] \in s[2] .. s[3] - 1
    <3>1. PICK utc \in from .. to - 1 :
            u = <<(utc + off) \div MinutesInDay, (utc + off) % MinutesInDay>>
      BY <2>11
    <3>2. PICK z \in x .. y - 1 : z = utc + off BY <2>2, <2>3, <3>1
    <3>3. u[1] = z \div MinutesInDay /\ u[2] = z % MinutesInDay BY <3>1, <3>2
    <3> QED BY <2>10, <3>3
  <2>14. ASSUME NEW s \in parts, NEW m \in s[2] .. s[3] - 1
         PROVE  <<s[1], m>> \in MinutesAt(day, a)
    <3>1. PICK z \in x .. y - 1 : s[1] = z \div MinutesInDay /\ m = z % MinutesInDay
      BY <2>10
    <3> QED BY <2>12, <3>1
  <2> QED BY <2>9, <2>10, <2>13, <2>14
<1> QED BY <1>1, <1>2

(* The rule about opening hours is right about every visit.                 *)
LEMMA ShutIs ==
    ASSUME None \notin Int, trip \in Trips,
           \A n \in DOMAIN trip.hours : Listing(trip.hours[n]),
           NEW day, day.date \in Int, NEW a, Clocked(a)
    PROVE  Shut(day, a, trip.hours) <=> CaughtOut(day, a)
<1>1. PICK listing : listing = _match_known(a, trip.hours) OBVIOUS
<1>2. listing = None \/ Listing(listing)
  <2>1. PICK names : names = {n \in DOMAIN trip.hours :
                                /\ NameLength[n] >= MIN_VENUE_MATCH_CHARS
                                /\ n \in a.mentions \cup {a.location, a.title}}
    OBVIOUS
  <2>2. PICK best : best = IF names = {} THEN {} ELSE Longest(a, names) OBVIOUS
  <2>3. listing = IF Cardinality(best) = 1 THEN trip.hours[CHOOSE n \in best : TRUE] ELSE None
    BY <1>1, <2>1, <2>2 DEF _match_known
  <2>4. best \subseteq DOMAIN trip.hours BY <2>1, <2>2 DEF Longest
  <2>5. CASE Cardinality(best) = 1
    <3>1. best # {} BY <2>5, FS_EmptySet
    <3>2. (CHOOSE n \in best : TRUE) \in DOMAIN trip.hours BY <2>4, <3>1
    <3> QED BY <2>3, <2>5, <3>2
  <2>6. CASE Cardinality(best) # 1 BY <2>3, <2>6
  <2> QED BY <2>5, <2>6
<1>3. ASSUME listing # None
      PROVE  (\E s \in Segments(day, a) : closed_reason(listing, s[1], s[2], s[3]))
               <=> \E x \in MinutesAt(day, a) : ShutAt(listing, x[1], x[2])
  <2>1. Listing(listing) BY <1>2, <1>3
  <2>2. ASSUME NEW s \in Segments(day, a)
        PROVE  closed_reason(listing, s[1], s[2], s[3]) <=>
                 \E m \in s[2] .. s[3] - 1 : ShutAt(listing, s[1], m)
    <3>1. PICK d, start, end : d = s[1] /\ start = s[2] /\ end = s[3] OBVIOUS
    <3>2. start \in Int /\ end \in Int /\ start < end BY <3>1, SegmentMinutes
    <3> QED BY <2>1, <3>1, <3>2, ClosedMinute
  <2>3. ASSUME NEW s \in Segments(day, a), closed_reason(listing, s[1], s[2], s[3])
        PROVE  \E x \in MinutesAt(day, a) : ShutAt(listing, x[1], x[2])
    <3>1. PICK m \in s[2] .. s[3] - 1 : ShutAt(listing, s[1], m) BY <2>2, <2>3
    <3>2. <<s[1], m>> \in MinutesAt(day, a) BY <3>1, SegmentMinutes
    <3>3. <<s[1], m>>[1] = s[1] /\ <<s[1], m>>[2] = m OBVIOUS
    <3> QED BY <3>1, <3>2, <3>3
  <2>4. ASSUME NEW x \in MinutesAt(day, a), ShutAt(listing, x[1], x[2])
        PROVE  \E s \in Segments(day, a) : closed_reason(listing, s[1], s[2], s[3])
    <3>1. PICK s \in Segments(day, a) : s[1] = x[1] /\ x[2] \in s[2] .. s[3] - 1
      BY SegmentMinutes
    <3> QED BY <2>2, <2>4, <3>1
  <2> QED BY <2>3, <2>4
<1> QED BY <1>1, <1>3 DEF Shut, CaughtOut

-----------------------------------------------------------------------------
(* Two activities, days or plans that differ in what they cost.             *)
CostFields == {"cost", "base"}
AlikeVisit(a, b) ==
    /\ DOMAIN b = DOMAIN a /\ ActivityFields \subseteq DOMAIN a
    /\ \A f \in DOMAIN a \ CostFields : b[f] = a[f]
AlikeDay(x, y) ==
    /\ DOMAIN y = DOMAIN x /\ {"date", "activities"} \subseteq DOMAIN x
    /\ \A f \in DOMAIN x \ {"activities"} : y[f] = x[f]
    /\ DOMAIN y.activities = DOMAIN x.activities
    /\ \A n \in DOMAIN x.activities : AlikeVisit(x.activities[n], y.activities[n])

AlikePlan(p, q) ==
    /\ DOMAIN q.days = DOMAIN p.days /\ q.start = p.start /\ q.end = p.end
    /\ \A d \in DOMAIN p.days : AlikeDay(p.days[d], q.days[d])

(* A leg by car has a cost that tolls can be added to.                      *)
Tollable(a) ==
    _is_transport(a) /\ transport_mode(a) = "DRIVE" => a.base # None \/ a.cost # None
Sound(a) == ActivityFields \subseteq DOMAIN a /\ Tollable(a) /\ Clocked(a)
Counted(s) == \E n \in Nat : DOMAIN s = 1 .. n
SoundDay(day) ==
    /\ {"date", "activities"} \subseteq DOMAIN day
    /\ day.date \in Int /\ Counted(day.activities)
    /\ \A n \in DOMAIN day.activities : Sound(day.activities[n])
PlanFields == {"days", "travelers", "currency", "start", "end"}
SoundPlan(p) ==
    /\ PlanFields \subseteq DOMAIN p /\ Counted(p.days)
    /\ \A d \in DOMAIN p.days : SoundDay(p.days[d])

(* Nothing that is read of a place, a leg or a hop is its cost.             *)
LEMMA AlikeFields ==
    ASSUME NEW a, NEW b, AlikeVisit(a, b)
    PROVE  /\ b.location = a.location /\ b.title = a.title /\ b.mentions = a.mentions
           /\ b.category = a.category /\ b.from = a.from /\ b.to = a.to
           /\ b.mode = a.mode /\ b.way = a.way
           /\ b.start_at = a.start_at /\ b.end_at = a.end_at
           /\ b.journey = a.journey /\ b.stay = a.stay
           /\ transport_mode(b) = transport_mode(a)
           /\ _is_transport(b) <=> _is_transport(a)
<1>1. \A f \in ActivityFields \ CostFields : b[f] = a[f] BY DEF AlikeVisit
<1>2. /\ b.location = a.location /\ b.title = a.title /\ b.mentions = a.mentions
      /\ b.category = a.category /\ b.from = a.from /\ b.to = a.to
      /\ b.mode = a.mode /\ b.way = a.way
      /\ b.start_at = a.start_at /\ b.end_at = a.end_at
      /\ b.journey = a.journey /\ b.stay = a.stay
  BY <1>1 DEF ActivityFields, CostFields
<1> QED BY <1>2 DEF transport_mode, _is_transport

LEMMA ClockedAlike ==
    ASSUME NEW a, NEW b, AlikeVisit(a, b), Clocked(a)
    PROVE  Clocked(b)
BY AlikeFields DEF Clocked

LEMMA AlikeSame == ASSUME NEW day, SoundDay(day) PROVE AlikeDay(day, day)
BY DEF SoundDay, Sound, AlikeDay, AlikeVisit

LEMMA AlikeTwice ==
    ASSUME NEW x, NEW y, NEW z, AlikeDay(x, y), AlikeDay(y, z)
    PROVE  AlikeDay(x, z)
<1>1. DOMAIN z.activities = DOMAIN x.activities
      /\ \A n \in DOMAIN x.activities :
            AlikeVisit(x.activities[n], y.activities[n]) /\ AlikeVisit(y.activities[n], z.activities[n])
  BY DEF AlikeDay
<1>2. \A a, b, c : AlikeVisit(a, b) /\ AlikeVisit(b, c) => AlikeVisit(a, c) BY DEF AlikeVisit
<1> QED BY <1>1, <1>2 DEF AlikeDay

LEMMA MatchSame ==
    ASSUME NEW a, NEW b, b.location = a.location, b.title = a.title, b.mentions = a.mentions,
           NEW known
    PROVE  _match_known(b, known) = _match_known(a, known)
<1>1. \A n : Rank(b, n) = Rank(a, n) BY DEF Rank
<1>2. ASSUME NEW names PROVE Longest(b, names) = Longest(a, names)
  <2>1. {Rank(b, n) : n \in names} = {Rank(a, n) : n \in names} BY <1>1
  <2>2. PICK best : best = Max({Rank(a, n) : n \in names}) OBVIOUS
  <2>3. PICK top : top = {n \in names : Rank(a, n) = best} OBVIOUS
  <2>4. best = Max({Rank(b, n) : n \in names}) BY <2>1, <2>2
  <2>5. top = {n \in names : Rank(b, n) = best} BY <1>1, <2>3
  <2>6. Longest(a, names) = {n \in top : NameLength[n] = Max({NameLength[m] : m \in top})}
    BY <2>2, <2>3 DEF Longest
  <2>7. Longest(b, names) = {n \in top : NameLength[n] = Max({NameLength[m] : m \in top})}
    BY <2>4, <2>5 DEF Longest
  <2> QED BY <2>6, <2>7
<1>3. PICK names : names = {n \in DOMAIN known : /\ NameLength[n] >= MIN_VENUE_MATCH_CHARS
                                                 /\ n \in a.mentions \cup {a.location, a.title}}
  OBVIOUS
<1>4. PICK best : best = IF names = {} THEN {} ELSE Longest(a, names) OBVIOUS
<1>5. _match_known(a, known) =
        IF Cardinality(best) = 1 THEN known[CHOOSE n \in best : TRUE] ELSE None
  BY <1>3, <1>4 DEF _match_known
<1>6. names = {n \in DOMAIN known : /\ NameLength[n] >= MIN_VENUE_MATCH_CHARS
                                    /\ n \in b.mentions \cup {b.location, b.title}}
  BY <1>3
<1>7. best = IF names = {} THEN {} ELSE Longest(b, names) BY <1>2, <1>4
<1>8. _match_known(b, known) =
        IF Cardinality(best) = 1 THEN known[CHOOSE n \in best : TRUE] ELSE None
  BY <1>6, <1>7 DEF _match_known
<1> QED BY <1>5, <1>8

LEMMA MatchAlike ==
    ASSUME NEW a, NEW b, AlikeVisit(a, b), NEW known
    PROVE  _match_known(b, known) = _match_known(a, known)
BY AlikeFields, MatchSame

-----------------------------------------------------------------------------
(* Observed prices are set, not added.                                      *)

LEMMA PricedAlike ==
    ASSUME NEW frame, NEW a, Sound(a), NEW prices
    PROVE  LET b == Priced(frame, a, prices)
           IN  AlikeVisit(a, b) /\ Sound(b) /\ Priced(frame, b, prices) = b
<1>1. PICK b : b = Priced(frame, a, prices) OBVIOUS
<1>2. ActivityFields \subseteq DOMAIN a BY DEF Sound
<1>3. PICK observed, average :
        observed = _match_known(a, prices) /\ average = range_average(observed)
  OBVIOUS
<1>4. CASE a.category = "food" /\ average # None /\ observed.currency = frame.currency
  <2>1. b = [a EXCEPT !.cost = average * frame.travelers] BY <1>1, <1>3, <1>4 DEF Priced
  <2>2. AlikeVisit(a, b) BY <1>2, <2>1 DEF AlikeVisit, CostFields
  <2>3. _match_known(b, prices) = observed /\ b.category = "food"
    BY <1>3, <1>4, <2>2, MatchAlike, AlikeFields
  <2>4. Priced(frame, b, prices) = [b EXCEPT !.cost = average * frame.travelers]
    BY <1>3, <1>4, <2>3 DEF Priced
  <2>5. [b EXCEPT !.cost = average * frame.travelers] = b BY <2>1
  <2>6. Sound(b)
    BY <1>2, <2>2, <2>3, ClockedAlike DEF Sound, Tollable, _is_transport, AlikeVisit
  <2> QED BY <1>1, <2>2, <2>4, <2>5, <2>6
<1>5. CASE ~(a.category = "food" /\ average # None /\ observed.currency = frame.currency)
  <2>1. b = a BY <1>1, <1>3, <1>5 DEF Priced
  <2> QED BY <1>1, <1>2, <2>1 DEF AlikeVisit
<1> QED BY <1>4, <1>5

LEMMA TollsOnce ==
    ASSUME NEW leg, ActivityFields \subseteq DOMAIN leg, leg.base # None \/ leg.cost # None,
           NEW tolls
    PROVE  LET paid == WithTolls(leg, tolls)
           IN  /\ AlikeVisit(leg, paid) /\ paid.base # None
               /\ WithTolls(paid, tolls) = paid
<1>1. PICK base, paid : base = (IF leg.base = None THEN leg.cost ELSE leg.base)
                        /\ paid = WithTolls(leg, tolls)
  OBVIOUS
<1>2. paid = [leg EXCEPT !.base = base, !.cost = base + Sum(tolls)] BY <1>1 DEF WithTolls
<1>3. {"cost", "base"} \subseteq DOMAIN leg BY DEF ActivityFields
<1>4. base # None BY <1>1
<1>5. paid.base = base /\ paid.cost = base + Sum(tolls) /\ DOMAIN paid = DOMAIN leg
  BY <1>2, <1>3
<1>6. AlikeVisit(leg, paid) BY <1>2, <1>3 DEF AlikeVisit, CostFields
<1>7. WithTolls(paid, tolls) = [paid EXCEPT !.base = base, !.cost = base + Sum(tolls)]
  BY <1>4, <1>5 DEF WithTolls
<1>8. [paid EXCEPT !.base = base, !.cost = base + Sum(tolls)] = paid BY <1>2, <1>5
<1> QED BY <1>1, <1>4, <1>5, <1>6, <1>7, <1>8

(* A route charges its leg once.                                            *)
LEMMA ChargedAlike ==
    ASSUME NEW frame, NEW leg, Sound(leg), NEW route,
           route # None => _is_transport(leg)
    PROVE  LET paid == Charged(frame, leg, route)
           IN  AlikeVisit(leg, paid) /\ Sound(paid) /\ Charged(frame, paid, route) = paid
<1>1. PICK paid : paid = Charged(frame, leg, route) OBVIOUS
<1>2. ActivityFields \subseteq DOMAIN leg BY DEF Sound
<1>3. AlikeVisit(leg, leg) BY <1>2 DEF AlikeVisit
<1>4. ASSUME paid = leg PROVE AlikeVisit(leg, paid) /\ Sound(paid) /\ Charged(frame, paid, route) = paid
  BY <1>1, <1>3, <1>4
<1>5. CASE route = None BY <1>1, <1>4, <1>5 DEF Charged
<1>6. CASE route # None
  <2>1. CASE transport_mode(leg) = "TRANSIT" /\ route.fare # None
             /\ route.currency = frame.currency
    <3>1. paid = [leg EXCEPT !.cost = route.fare * frame.travelers]
      BY <1>1, <1>6, <2>1 DEF Charged
    <3>2. AlikeVisit(leg, paid) BY <1>2, <3>1 DEF AlikeVisit, CostFields
    <3>3. transport_mode(paid) = "TRANSIT" BY <2>1, <3>2, AlikeFields
    <3>4. Charged(frame, paid, route) = [paid EXCEPT !.cost = route.fare * frame.travelers]
      BY <1>6, <2>1, <3>3 DEF Charged
    <3>5. [paid EXCEPT !.cost = route.fare * frame.travelers] = paid BY <3>1
    <3>6. Sound(paid) BY <1>2, <3>2, <3>3, ClockedAlike DEF Sound, Tollable, AlikeVisit
    <3> QED BY <1>1, <3>2, <3>4, <3>5, <3>6
  <2>2. CASE transport_mode(leg) = "DRIVE" /\ route.tolls # None
             /\ (route.tolls = <<>> \/ route.currency = frame.currency)
    <3>1. paid = WithTolls(leg, route.tolls) BY <1>1, <1>6, <2>2 DEF Charged
    <3>2. leg.base # None \/ leg.cost # None BY <1>6, <2>2 DEF Sound, Tollable
    <3>3. AlikeVisit(leg, paid) /\ paid.base # None /\ WithTolls(paid, route.tolls) = paid
      BY <1>2, <3>1, <3>2, TollsOnce
    <3>4. transport_mode(paid) = "DRIVE" BY <2>2, <3>3, AlikeFields
    <3>5. Charged(frame, paid, route) = WithTolls(paid, route.tolls)
      BY <1>6, <2>2, <3>4 DEF Charged
    <3>6. Sound(paid) BY <1>2, <3>3, ClockedAlike DEF Sound, Tollable, AlikeVisit
    <3> QED BY <1>1, <3>3, <3>5, <3>6
  <2>3. CASE /\ ~(transport_mode(leg) = "TRANSIT" /\ route.fare # None
                  /\ route.currency = frame.currency)
             /\ ~(transport_mode(leg) = "DRIVE" /\ route.tolls # None
                  /\ (route.tolls = <<>> \/ route.currency = frame.currency))
    <3>1. paid = leg BY <1>1, <1>6, <2>3 DEF Charged
    <3> QED BY <1>1, <1>4, <3>1
  <2> QED BY <2>1, <2>2, <2>3
<1> QED BY <1>5, <1>6

-----------------------------------------------------------------------------
(* The hops of a day and the routes of its legs.                            *)
LEMMA RoutesAlike ==
    ASSUME NEW x, NEW y, AlikeDay(x, y), NEW n \in DOMAIN x.activities, NEW found
    PROVE  /\ Around(y, n) = Around(x, n)
           /\ RouteOf(y, n, found) = RouteOf(x, n, found)
<1>1. /\ DOMAIN y.activities = DOMAIN x.activities /\ y.date = x.date
      /\ \A i \in DOMAIN x.activities : AlikeVisit(x.activities[i], y.activities[i])
  BY DEF AlikeDay
<1>2. PICK visits : visits = DOMAIN x.activities OBVIOUS
<1>3. PICK leg : leg = [i \in visits |-> _is_transport(x.activities[i])] OBVIOUS
<1>4. \A i \in visits : /\ y.activities[i].location = x.activities[i].location
                        /\ y.activities[i].from = x.activities[i].from
                        /\ y.activities[i].to = x.activities[i].to
                        /\ transport_mode(y.activities[i]) = transport_mode(x.activities[i])
                        /\ _is_transport(y.activities[i]) <=> _is_transport(x.activities[i])
  BY <1>1, <1>2, AlikeFields
<1>5. Labels(y) = Labels(x) BY <1>1, <1>2, <1>4 DEF Labels
<1>6. Stops(y) = Stops(x) BY <1>1, <1>2, <1>4 DEF Stops
<1>7. PICK key : key = Labels(x) OBVIOUS
<1>8. Consecutive(y, key) = Consecutive(x, key) BY <1>6 DEF Consecutive
<1>9. \A p : LegsBetween(y, key, p) = LegsBetween(x, key, p)
  BY <1>1, <1>2, <1>4 DEF LegsBetween
<1>10. Around(y, n) = Around(x, n) BY <1>5, <1>7, <1>8, <1>9 DEF Around
<1>11. CASE Around(x, n) = {} BY <1>10, <1>11 DEF RouteOf
<1>12. CASE Around(x, n) # {}
  <2>1. PICK hop : hop = CHOOSE p \in Around(x, n) : TRUE OBVIOUS
  <2>2. hop \in Around(x, n) BY <1>12, <2>1
  <2>3. hop[1] \in visits /\ hop[2] \in visits
    BY <1>2, <2>2 DEF Around, Consecutive, Neighbours, Stops
  <2>4. ASSUME NEW l, NEW r, NEW l2, NEW r2, l2.location = l.location, l2.to = l.to,
               r2.location = r.location
        PROVE  RouteFor(y, l2, r2, y.activities[n], found)
                  = RouteFor(x, l, r, x.activities[n], found)
    <3>1. transport_mode(y.activities[n]) = transport_mode(x.activities[n]) BY <1>2, <1>4
    <3> QED BY <1>1, <2>4, <3>1 DEF RouteFor
  <2>5. RouteFor(y, y.activities[hop[1]], y.activities[hop[2]], y.activities[n], found)
          = RouteFor(x, x.activities[hop[1]], x.activities[hop[2]], x.activities[n], found)
    BY <1>4, <2>3, <2>4
  <2>6. RouteOf(x, n, found)
          = RouteFor(x, x.activities[hop[1]], x.activities[hop[2]], x.activities[n], found)
    BY <1>12, <2>1 DEF RouteOf
  <2>7. RouteOf(y, n, found)
          = RouteFor(y, y.activities[hop[1]], y.activities[hop[2]], y.activities[n], found)
    BY <1>10, <1>12, <2>1 DEF RouteOf
  <2> QED BY <1>10, <2>5, <2>6, <2>7
<1> QED BY <1>11, <1>12

(* Only a leg has a route.                                                  *)
LEMMA RouteOfLeg ==
    ASSUME NEW day, NEW n, NEW found, RouteOf(day, n, found) # None
    PROVE  _is_transport(day.activities[n])
<1>1. Around(day, n) # {} BY DEF RouteOf
<1>2. PICK p : LegsBetween(day, Labels(day), p) = {n} BY <1>1 DEF Around
<1> QED BY <1>2 DEF LegsBetween

LEMMA DayPricedAlike ==
    ASSUME NEW frame, NEW day, SoundDay(day), NEW prices
    PROVE  LET priced == MealsPriced(frame, day, prices)
           IN  /\ AlikeDay(day, priced) /\ SoundDay(priced)
               /\ \A n \in DOMAIN day.activities :
                     /\ priced.activities[n] = Priced(frame, day.activities[n], prices)
                     /\ Priced(frame, priced.activities[n], prices) = priced.activities[n]
<1>1. PICK priced : priced = MealsPriced(frame, day, prices) OBVIOUS
<1>2. /\ {"date", "activities"} \subseteq DOMAIN day
      /\ day.date \in Int /\ Counted(day.activities)
      /\ \A n \in DOMAIN day.activities : Sound(day.activities[n])
  BY DEF SoundDay
<1>3. PICK as : as = [n \in DOMAIN day.activities |-> Priced(frame, day.activities[n], prices)]
  OBVIOUS
<1>4. priced = [day EXCEPT !.activities = as] BY <1>1, <1>3 DEF MealsPriced
<1>5. /\ DOMAIN priced = DOMAIN day /\ priced.activities = as
      /\ \A f \in DOMAIN day \ {"activities"} : priced[f] = day[f]
  BY <1>2, <1>4
<1>6. \A n \in DOMAIN day.activities :
        /\ as[n] = Priced(frame, day.activities[n], prices)
        /\ AlikeVisit(day.activities[n], as[n]) /\ Sound(as[n])
        /\ Priced(frame, as[n], prices) = as[n]
  BY <1>2, <1>3, PricedAlike
<1>7. DOMAIN as = DOMAIN day.activities BY <1>3
<1>8. AlikeDay(day, priced) BY <1>2, <1>5, <1>6, <1>7 DEF AlikeDay
<1>9. SoundDay(priced) BY <1>2, <1>5, <1>6, <1>7 DEF SoundDay, Counted
<1> QED BY <1>1, <1>5, <1>6, <1>8, <1>9

LEMMA DayChargedAlike ==
    ASSUME NEW frame, NEW day, SoundDay(day), NEW found
    PROVE  LET paid == DayCharged(frame, day, found)
           IN  /\ AlikeDay(day, paid) /\ SoundDay(paid)
               /\ \A n \in DOMAIN day.activities :
                     /\ paid.activities[n]
                          = Charged(frame, day.activities[n], RouteOf(day, n, found))
                     /\ Charged(frame, paid.activities[n], RouteOf(day, n, found))
                          = paid.activities[n]
<1>1. PICK paid : paid = DayCharged(frame, day, found) OBVIOUS
<1>2. /\ {"date", "activities"} \subseteq DOMAIN day
      /\ day.date \in Int /\ Counted(day.activities)
      /\ \A n \in DOMAIN day.activities : Sound(day.activities[n])
  BY DEF SoundDay
<1>3. PICK as : as = [n \in DOMAIN day.activities |->
                        Charged(frame, day.activities[n], RouteOf(day, n, found))]
  OBVIOUS
<1>4. paid = [day EXCEPT !.activities = as] BY <1>1, <1>3 DEF DayCharged
<1>5. /\ DOMAIN paid = DOMAIN day /\ paid.activities = as
      /\ \A f \in DOMAIN day \ {"activities"} : paid[f] = day[f]
  BY <1>2, <1>4
<1>6. \A n \in DOMAIN day.activities :
        /\ as[n] = Charged(frame, day.activities[n], RouteOf(day, n, found))
        /\ AlikeVisit(day.activities[n], as[n]) /\ Sound(as[n])
        /\ Charged(frame, as[n], RouteOf(day, n, found)) = as[n]
  BY <1>2, <1>3, ChargedAlike, RouteOfLeg
<1>7. DOMAIN as = DOMAIN day.activities BY <1>3
<1>8. AlikeDay(day, paid) BY <1>2, <1>5, <1>6, <1>7 DEF AlikeDay
<1>9. SoundDay(paid) BY <1>2, <1>5, <1>6, <1>7 DEF SoundDay, Counted
<1> QED BY <1>1, <1>5, <1>6, <1>8, <1>9

(* A day priced and charged once is what a second time would make of it.    *)
LEMMA DaySettled ==
    ASSUME NEW frame, NEW again,
           again.currency = frame.currency, again.travelers = frame.travelers,
           NEW day, SoundDay(day), NEW prices, NEW found
    PROVE  LET paid == DayCharged(frame, MealsPriced(frame, day, prices), found)
           IN  DayCharged(again, MealsPriced(again, paid, prices), found) = paid
<1>1. PICK meals : meals = MealsPriced(frame, day, prices) OBVIOUS
<1>2. PICK paid : paid = DayCharged(frame, meals, found) OBVIOUS
<1>3. \A a : Priced(again, a, prices) = Priced(frame, a, prices) BY DEF Priced
<1>4. \A a, route : Charged(again, a, route) = Charged(frame, a, route) BY DEF Charged
<1>5. AlikeDay(day, meals) /\ SoundDay(meals)
      /\ \A n \in DOMAIN meals.activities :
            Priced(frame, meals.activities[n], prices) = meals.activities[n]
  <2>1. /\ AlikeDay(day, meals) /\ SoundDay(meals)
        /\ \A n \in DOMAIN day.activities :
              Priced(frame, meals.activities[n], prices) = meals.activities[n]
    BY <1>1, DayPricedAlike
  <2> QED BY <2>1 DEF AlikeDay
<1>6. PICK as : as = [n \in DOMAIN meals.activities |->
                        Charged(frame, meals.activities[n], RouteOf(meals, n, found))]
  OBVIOUS
<1>7. paid = [meals EXCEPT !.activities = as] BY <1>2, <1>6 DEF DayCharged
<1>8. paid.activities = as BY <1>5, <1>7 DEF SoundDay
<1>9. /\ AlikeDay(meals, paid)
      /\ \A n \in DOMAIN meals.activities :
            /\ as[n] = Charged(frame, meals.activities[n], RouteOf(meals, n, found))
            /\ Charged(frame, as[n], RouteOf(meals, n, found)) = as[n]
  <2>1. \A n \in DOMAIN meals.activities :
           /\ paid.activities[n] = Charged(frame, meals.activities[n], RouteOf(meals, n, found))
           /\ Charged(frame, paid.activities[n], RouteOf(meals, n, found)) = paid.activities[n]
    BY <1>2, <1>5, DayChargedAlike
  <2>2. AlikeDay(meals, paid) BY <1>2, <1>5, DayChargedAlike
  <2> QED BY <1>8, <2>1, <2>2
<1>10. \A n \in DOMAIN meals.activities : Priced(again, as[n], prices) = as[n]
  <2> SUFFICES ASSUME NEW n \in DOMAIN meals.activities PROVE Priced(frame, as[n], prices) = as[n]
    BY <1>3
  <2>1. CASE RouteOf(meals, n, found) = None
    <3>1. as[n] = meals.activities[n] BY <1>9, <2>1 DEF Charged
    <3> QED BY <1>5, <3>1
  <2>2. CASE RouteOf(meals, n, found) # None
    <3>1. meals.activities[n].category = "transport"
      BY <2>2, RouteOfLeg DEF _is_transport
    <3>2. AlikeVisit(meals.activities[n], as[n])
      <4>1. AlikeVisit(meals.activities[n], paid.activities[n]) BY <1>9 DEF AlikeDay
      <4> QED BY <1>8, <4>1
    <3>3. as[n].category = meals.activities[n].category
      <4>1. PICK x, y : x = meals.activities[n] /\ y = as[n] OBVIOUS
      <4>2. AlikeVisit(x, y) BY <3>2, <4>1
      <4>3. y.category = x.category BY <4>2, AlikeFields
      <4> QED BY <4>1, <4>3
    <3>4. as[n].category = "transport" BY <3>1, <3>3
    <3> QED BY <3>4 DEF Priced
  <2> QED BY <2>1, <2>2
<1>11. MealsPriced(again, paid, prices) = paid
  <2>1. [n \in DOMAIN as |-> Priced(again, as[n], prices)] = as BY <1>6, <1>10
  <2>2. MealsPriced(again, paid, prices) = [paid EXCEPT !.activities = as]
    BY <1>8, <2>1 DEF MealsPriced
  <2> QED BY <1>7, <2>2
<1>12. \A n \in DOMAIN meals.activities : RouteOf(paid, n, found) = RouteOf(meals, n, found)
  BY <1>9, RoutesAlike
<1>13. DayCharged(again, paid, found) = paid
  <2>1. [n \in DOMAIN as |-> Charged(again, as[n], RouteOf(paid, n, found))] = as
    BY <1>4, <1>6, <1>9, <1>12
  <2>2. DayCharged(again, paid, found) = [paid EXCEPT !.activities = as]
    BY <1>8, <2>1 DEF DayCharged
  <2> QED BY <1>7, <2>2
<1> QED BY <1>1, <1>2, <1>11, <1>13

(* The same of the whole plan; and the days that are locked stay.           *)
LEMMA PlanSettled ==
    ASSUME NEW p, SoundPlan(p), NEW prices, NEW found, NEW locked
    PROVE  LET paid == apply_observed_costs(p, prices, found, locked)
           IN  /\ SoundPlan(paid) /\ AlikePlan(p, paid)
               /\ DOMAIN paid.days = DOMAIN p.days
               /\ \A d \in DOMAIN p.days \cap locked : paid.days[d] = p.days[d]
               /\ apply_observed_costs(paid, prices, found, locked) = paid
<1>1. PICK paid : paid = apply_observed_costs(p, prices, found, locked) OBVIOUS
<1>2. PICK ds : ds = [d \in DOMAIN p.days |->
                        IF d \in locked THEN p.days[d]
                        ELSE DayCharged(p, MealsPriced(p, p.days[d], prices), found)]
  OBVIOUS
<1>3. paid = [p EXCEPT !.days = ds] BY <1>1, <1>2 DEF apply_observed_costs
<1>4. /\ PlanFields \subseteq DOMAIN p /\ Counted(p.days)
      /\ \A d \in DOMAIN p.days : SoundDay(p.days[d])
  BY DEF SoundPlan
<1>5. /\ DOMAIN paid = DOMAIN p /\ paid.days = ds
      /\ paid.currency = p.currency /\ paid.travelers = p.travelers
      /\ paid.start = p.start /\ paid.end = p.end
  BY <1>3, <1>4 DEF PlanFields
<1>6. \A d \in DOMAIN p.days : SoundDay(ds[d]) /\ AlikeDay(p.days[d], ds[d])
  <2> SUFFICES ASSUME NEW d \in DOMAIN p.days PROVE SoundDay(ds[d]) /\ AlikeDay(p.days[d], ds[d])
    OBVIOUS
  <2>1. CASE d \in locked
    <3>1. ds[d] = p.days[d] /\ SoundDay(p.days[d]) BY <1>2, <1>4, <2>1
    <3> QED BY <3>1, AlikeSame
  <2>2. CASE d \notin locked
    <3>1. PICK meals : meals = MealsPriced(p, p.days[d], prices) OBVIOUS
    <3>2. SoundDay(meals) /\ AlikeDay(p.days[d], meals) BY <1>4, <3>1, DayPricedAlike
    <3>3. ds[d] = DayCharged(p, meals, found) BY <1>2, <2>2, <3>1
    <3>4. SoundDay(ds[d]) /\ AlikeDay(meals, ds[d]) BY <3>2, <3>3, DayChargedAlike
    <3> QED BY <3>2, <3>4, AlikeTwice
  <2> QED BY <2>1, <2>2
<1>7. SoundPlan(paid) /\ AlikePlan(p, paid)
  <2>1. DOMAIN ds = DOMAIN p.days BY <1>2
  <2>2. Counted(ds) BY <1>4, <2>1 DEF Counted
  <2> QED BY <1>4, <1>5, <1>6, <2>1, <2>2 DEF SoundPlan, AlikePlan
<1>8. \A d \in DOMAIN p.days : d \notin locked =>
        DayCharged(paid, MealsPriced(paid, ds[d], prices), found) = ds[d]
  <2> SUFFICES ASSUME NEW d \in DOMAIN p.days, d \notin locked
               PROVE  DayCharged(paid, MealsPriced(paid, ds[d], prices), found) = ds[d]
    OBVIOUS
  <2>1. ds[d] = DayCharged(p, MealsPriced(p, p.days[d], prices), found) BY <1>2
  <2> QED BY <1>4, <1>5, <2>1, DaySettled
<1>9. apply_observed_costs(paid, prices, found, locked) = paid
  <2>1. [d \in DOMAIN ds |-> IF d \in locked THEN ds[d]
            ELSE DayCharged(paid, MealsPriced(paid, ds[d], prices), found)] = ds
    BY <1>2, <1>8
  <2>2. apply_observed_costs(paid, prices, found, locked) = [paid EXCEPT !.days = ds]
    BY <1>5, <2>1 DEF apply_observed_costs
  <2> QED BY <1>3, <2>2
<1> QED BY <1>1, <1>2, <1>5, <1>7, <1>9

-----------------------------------------------------------------------------
(* The search for open doors.                                               *)

(* A plan that can be priced and has the same locked days as another.       *)
Kept(p, original, locked) ==
    /\ SoundPlan(p)
    /\ \A d \in locked \cap DOMAIN original.days :
          d \in DOMAIN p.days /\ p.days[d] = original.days[d]
(* It has a visit wherever the other has one.                               *)
Shaped(p, original) ==
    /\ DOMAIN p.days = DOMAIN original.days
    /\ \A d \in DOMAIN p.days : DOMAIN p.days[d].activities = DOMAIN original.days[d].activities
AllKept(ps, original, locked) ==
    /\ Len(ps) \in Nat /\ DOMAIN ps = 1 .. Len(ps)
    /\ \A k \in DOMAIN ps : Kept(ps[k], original, locked) /\ Shaped(ps[k], original)

(* Times an activity can be given.                                          *)
Timely(a, from, to) == from \in Int /\ to \in Int /\ (a.start_at = None => from < to)

LEMMA RetimedSound ==
    ASSUME NEW a, Sound(a), NEW from, NEW to, Timely(a, from, to)
    PROVE  Sound([a EXCEPT !.from = from, !.to = to])
<1>1. PICK b : b = [a EXCEPT !.from = from, !.to = to] OBVIOUS
<1>2. ActivityFields \subseteq DOMAIN a /\ Tollable(a) /\ Clocked(a) BY DEF Sound
<1>3. /\ DOMAIN b = DOMAIN a /\ b.from = from /\ b.to = to
      /\ b.start_at = a.start_at /\ b.end_at = a.end_at
      /\ b.category = a.category /\ b.mode = a.mode /\ b.way = a.way
      /\ b.base = a.base /\ b.cost = a.cost
  BY <1>1, <1>2 DEF ActivityFields
<1>4. Tollable(b) BY <1>2, <1>3 DEF Tollable, _is_transport, transport_mode
<1>5. Clocked(b) BY <1>2, <1>3 DEF Clocked, Timely
<1> QED BY <1>1, <1>2, <1>3, <1>4, <1>5 DEF Sound

LEMMA MovedSound ==
    ASSUME NEW a, Sound(a), NEW alternative, Timely(a, alternative.from, alternative.to)
    PROVE  Sound(Moved(a, alternative))
<1>1. PICK timed : timed = [a EXCEPT !.from = alternative.from, !.to = alternative.to]
  OBVIOUS
<1>2. Sound(timed) BY <1>1, RetimedSound
<1>3. CASE alternative.place = None BY <1>1, <1>2, <1>3 DEF Moved
<1>4. CASE alternative.place # None
  <2>1. PICK moved :
          moved = [timed EXCEPT !.location = alternative.place, !.mentions = {alternative.place},
                                !.title = None, !.highlights = {}, !.booked = FALSE]
    OBVIOUS
  <2>2. Moved(a, alternative) = moved BY <1>1, <1>4, <2>1 DEF Moved
  <2>3. ActivityFields \subseteq DOMAIN timed /\ Tollable(timed) /\ Clocked(timed)
    BY <1>2 DEF Sound
  <2>4. /\ DOMAIN moved = DOMAIN timed /\ moved.from = timed.from /\ moved.to = timed.to
        /\ moved.start_at = timed.start_at /\ moved.end_at = timed.end_at
        /\ moved.category = timed.category /\ moved.mode = timed.mode /\ moved.way = timed.way
        /\ moved.base = timed.base /\ moved.cost = timed.cost
    BY <2>1, <2>3 DEF ActivityFields
  <2>5. Tollable(moved) BY <2>3, <2>4 DEF Tollable, _is_transport, transport_mode
  <2>6. Clocked(moved) BY <2>3, <2>4 DEF Clocked
  <2> QED BY <2>2, <2>3, <2>4, <2>5, <2>6 DEF Sound
<1> QED BY <1>3, <1>4

(* A plan with the visits of one day that is not locked changed.            *)
LEMMA DayRewritten ==
    ASSUME NEW p, NEW original, NEW locked, Kept(p, original, locked),
           NEW d, d \notin locked, NEW as,
           d \in DOMAIN p.days => /\ DOMAIN as = DOMAIN p.days[d].activities
                                 /\ \A n \in DOMAIN as : Sound(as[n])
    PROVE  /\ Kept([p EXCEPT !.days[d].activities = as], original, locked)
           /\ Shaped([p EXCEPT !.days[d].activities = as], p)
<1>1. PICK day : day = [p.days[d] EXCEPT !.activities = as] OBVIOUS
<1>2. PICK days : days = [p.days EXCEPT ![d] = day] OBVIOUS
<1>3. PICK q : q = [p EXCEPT !.days = days] OBVIOUS
<1>4. q = [p EXCEPT !.days[d].activities = as] BY <1>1, <1>2, <1>3
<1>5. /\ PlanFields \subseteq DOMAIN p /\ Counted(p.days)
      /\ \A e \in DOMAIN p.days : SoundDay(p.days[e])
  BY DEF Kept, SoundPlan
<1>6. DOMAIN q = DOMAIN p /\ q.days = days BY <1>3, <1>5 DEF PlanFields
<1>7. DOMAIN days = DOMAIN p.days /\ \A e \in DOMAIN p.days : e # d => days[e] = p.days[e]
  BY <1>2
<1>8. d \in DOMAIN p.days =>
        SoundDay(days[d]) /\ DOMAIN days[d].activities = DOMAIN p.days[d].activities
  <2> SUFFICES ASSUME d \in DOMAIN p.days
               PROVE  SoundDay(days[d]) /\ DOMAIN days[d].activities = DOMAIN p.days[d].activities
    OBVIOUS
  <2>1. days[d] = day BY <1>2
  <2>2. /\ {"date", "activities"} \subseteq DOMAIN p.days[d]
        /\ p.days[d].date \in Int /\ Counted(p.days[d].activities)
    BY <1>5 DEF SoundDay
  <2>3. DOMAIN day = DOMAIN p.days[d] /\ day.activities = as /\ day.date = p.days[d].date
    BY <1>1, <2>2
  <2> QED BY <2>1, <2>2, <2>3 DEF SoundDay, Counted
<1>9. \A e \in DOMAIN days : SoundDay(days[e]) BY <1>5, <1>7, <1>8
<1>10. SoundPlan(q) BY <1>5, <1>6, <1>7, <1>9 DEF SoundPlan, Counted
<1>12. Shaped(q, p) BY <1>6, <1>7, <1>8 DEF Shaped
<1>11. \A e \in locked \cap DOMAIN original.days :
          e \in DOMAIN q.days /\ q.days[e] = original.days[e]
  BY <1>6, <1>7 DEF Kept
<1> QED BY <1>4, <1>10, <1>11, <1>12 DEF Kept

-----------------------------------------------------------------------------
(* Making room before a visit.                                              *)

LEMMA MaxOfTwo ==
    ASSUME NEW x \in Int, NEW y \in Int
    PROVE  Max({x, y}) = IF x <= y THEN y ELSE x
<1>1. \E z \in {x, y} : \A u \in {x, y} : z >= u OBVIOUS
<1>2. Max({x, y}) \in {x, y} /\ \A u \in {x, y} : Max({x, y}) >= u BY <1>1 DEF Max
<1> QED BY <1>2

(* What a stop takes at least is less than it takes, and still something.   *)
LEMMA LeastIs ==
    ASSUME NEW a, Clocked(a)
    PROVE  Least(a) \in Int /\ (a.start_at = None => 0 < Least(a))
<1>1. PICK length \in Int : length = a.to - a.from /\ (a.start_at = None => 0 < length)
  BY DEF Clocked
<1>2. Min({length, 15}) = IF length <= 15 THEN length ELSE 15 BY MinOfTwo
<1>3. Min({length, 30}) = IF length <= 30 THEN length ELSE 30 BY MinOfTwo
<1>4. Least(a) = CASE a.category = "transport" -> length
                   [] a.category = "rest" -> Min({length, 15})
                   [] OTHER -> Min({length, 30})
  BY <1>1 DEF Least
<1> QED BY <1>1, <1>2, <1>3, <1>4

(* Times for every visit of a day, and how far the walk has come with them. *)
TimesFor(day, times) ==
    /\ DOMAIN times = DOMAIN day.activities
    /\ \A i \in DOMAIN times : Timely(day.activities[i], times[i].from, times[i].to)
Walking(day, walk) ==
    /\ DOMAIN walk = {"times", "done"}
    /\ walk.times = None \/ TimesFor(day, walk.times)

LEMMA PushedWalks ==
    ASSUME NEW day, SoundDay(day), NEW before, NEW walk, Walking(day, walk),
           NEW i \in DOMAIN day.activities, i \in Int, i + 1 \in DOMAIN day.activities,
           before[i].to \in Int, before[i + 1].from \in Int, NEW ctx
    PROVE  Walking(day, Pushed(walk, day, before, i, ctx))
<1>1. PICK a : a = day.activities[i] OBVIOUS
<1>2. Clocked(a) BY <1>1 DEF SoundDay, Sound
<1>3. PICK gap, end, start :
        /\ gap = Max({0, before[i + 1].from - before[i].to})
        /\ end = walk.times[i + 1].from - gap
        /\ start = Min({a.from, end - Least(a)})
  OBVIOUS
<1>4. PICK next : next = [walk EXCEPT !.times = [@ EXCEPT ![i] = [from |-> start, to |-> end]]]
  OBVIOUS
<1>5. \/ Pushed(walk, day, before, i, ctx) = walk
      \/ Pushed(walk, day, before, i, ctx) = [walk EXCEPT !.done = TRUE]
      \/ Pushed(walk, day, before, i, ctx) = [walk EXCEPT !.times = None]
      \/ /\ walk.times # None
         /\ Pushed(walk, day, before, i, ctx) = next
  <2>1. Pushed(walk, day, before, i, ctx) =
          CASE walk.done \/ walk.times = None -> walk
            [] walk.times # None /\ ~walk.done /\ a.to <= end -> [walk EXCEPT !.done = TRUE]
            [] OTHER -> IF Fixed(a, ctx) \/ Misplaced(a, day.date, ctx, start, end)
                        THEN [walk EXCEPT !.times = None]
                        ELSE next
    BY <1>1, <1>3, <1>4 DEF Pushed
  <2>2. CASE walk.done \/ walk.times = None BY <2>1, <2>2
  <2>3. CASE ~(walk.done \/ walk.times = None) BY <2>1, <2>3
  <2> QED BY <2>2, <2>3
<1>6. ASSUME walk.times # None PROVE Walking(day, next)
  <2>1. PICK times : times = walk.times OBVIOUS
  <2>2. TimesFor(day, times) BY <1>6, <2>1 DEF Walking
  <2>3. PICK new : new = [times EXCEPT ![i] = [from |-> start, to |-> end]] OBVIOUS
  <2>4. next = [walk EXCEPT !.times = new] BY <1>4, <2>1, <2>3
  <2>5. gap \in Int
    <3>1. PICK x \in Int : x = before[i + 1].from - before[i].to OBVIOUS
    <3>2. gap = Max({0, x}) BY <1>3, <3>1
    <3> QED BY <3>2, MaxOfTwo
  <2>6. end \in Int
    <3>1. times[i + 1].from \in Int BY <2>2 DEF TimesFor, Timely
    <3> QED BY <1>3, <2>1, <2>5, <3>1
  <2>7. start \in Int /\ (a.start_at = None => start < end)
    <3>1. PICK least \in Int, from \in Int : least = Least(a) /\ from = a.from
      BY <1>2, LeastIs DEF Clocked
    <3>2. PICK y \in Int : y = end - least BY <2>6
    <3>3. start = Min({from, y}) BY <1>3, <3>1, <3>2
    <3>4. start \in Int /\ start <= y
      <4>1. Min({from, y}) = IF from <= y THEN from ELSE y BY <3>1, <3>2, MinOfTwo
      <4> QED BY <3>1, <3>2, <3>3, <4>1
    <3>5. a.start_at = None => 0 < least BY <1>2, <3>1, LeastIs
    <3> QED BY <2>6, <3>2, <3>4, <3>5
  <2>8. TimesFor(day, new)
    <3>1. DOMAIN new = DOMAIN times BY <2>3
    <3>2. ASSUME NEW n \in DOMAIN new
          PROVE  Timely(day.activities[n], new[n].from, new[n].to)
      <4>1. CASE n = i
        <5>1. new[n].from = start /\ new[n].to = end BY <2>3, <3>1, <3>2, <4>1
        <5> QED BY <1>1, <2>6, <2>7, <4>1, <5>1 DEF Timely
      <4>2. CASE n # i
        <5>1. new[n] = times[n] BY <2>3, <3>1, <3>2, <4>2
        <5> QED BY <2>2, <3>1, <5>1 DEF TimesFor
      <4> QED BY <4>1, <4>2
    <3> QED BY <2>2, <3>1, <3>2 DEF TimesFor
  <2>9. DOMAIN next = {"times", "done"} /\ next.times = new BY <2>4 DEF Walking
  <2> QED BY <2>8, <2>9 DEF Walking
<1>7. Walking(day, [walk EXCEPT !.done = TRUE])
  BY DEF Walking
<1>8. Walking(day, [walk EXCEPT !.times = None])
  BY DEF Walking
<1> QED BY <1>5, <1>6, <1>7, <1>8

Unpushed(day) ==
    [times |-> [i \in DOMAIN day.activities |->
                  [from |-> day.activities[i].from, to |-> day.activities[i].to]],
     done |-> FALSE]

(* There is a walk: one from each stop on, else there is a final stop from   *)
(* which there is none.                                                     *)
LEMMA WalkIs ==
    ASSUME NEW day, NEW before, NEW n \in Nat, 0 < n, NEW ctx
    PROVE  LET walk == Walk(day, before, n, ctx)
           IN  walk = [i \in 1 .. n |-> IF i = n THEN Unpushed(day)
                                        ELSE Pushed(walk[i + 1], day, before, i, ctx)]
<1> DEFINE Walks(f, k) == f = [i \in k .. n |-> IF i = n THEN Unpushed(day)
                                  ELSE Pushed(f[i + 1], day, before, i, ctx)]
           Walked(k) == \E f : Walks(f, k)
           none == {m \in 0 .. n - 1 : ~Walked(n - m)}
<1>1. Walk(day, before, n, ctx) = CHOOSE f : Walks(f, 1) BY DEF Walk, Unpushed
<1> HIDE DEF Walked
<1>2. \A m \in 0 .. n - 1 : Walked(n - m)
  <2> SUFFICES ASSUME none # {} PROVE FALSE
    OBVIOUS
  <2>1. PICK m \in none : \A x \in none : m <= x
    <3>1. none \subseteq Nat OBVIOUS
    <3> HIDE DEF none
    <3> QED BY <3>1, LeastNatural
  <2>2. m \in 0 .. n - 1 /\ ~Walked(n - m) OBVIOUS
  <2>a. \A x \in 0 .. n - 1 : x < m => Walked(n - x)
    <3>1. \A x \in none : ~(x < m) BY <2>1, <2>2
    <3> QED BY <3>1
  <2> HIDE DEF none
  <2>3. CASE m = 0
    <3>1. PICK f : f = [i \in n .. n |-> Unpushed(day)] OBVIOUS
    <3>2. f = [i \in n .. n |-> IF i = n THEN Unpushed(day) ELSE Pushed(f[i + 1], day, before, i, ctx)]
      BY <3>1
    <3>3. Walked(n) BY <3>2 DEF Walked
    <3> QED BY <2>2, <2>3, <3>3
  <2>4. CASE m # 0
    <3>1. Walked(n - (m - 1))
      <4>1. m - 1 \in 0 .. n - 1 /\ m - 1 < m BY <2>2, <2>4
      <4> QED BY <2>a, <4>1
    <3>2. PICK f : Walks(f, n - (m - 1)) BY <3>1 DEF Walked
    <3>3. PICK k \in 1 .. n : k = n - m BY <2>2
    <3>4. k + 1 = n - (m - 1) /\ k < n BY <2>2, <2>4, <3>3
    <3>5. /\ DOMAIN f = k + 1 .. n
          /\ \A i \in k + 1 .. n : f[i] = IF i = n THEN Unpushed(day)
                                          ELSE Pushed(f[i + 1], day, before, i, ctx)
      BY <3>2, <3>4
    <3>6. PICK g : g = [i \in k .. n |-> IF i = k THEN Pushed(f[k + 1], day, before, k, ctx)
                                         ELSE f[i]]
      OBVIOUS
    <3>7. \A i \in k + 1 .. n : g[i] = f[i] BY <3>6
    <3>8. ASSUME NEW i \in k .. n
          PROVE  g[i] = IF i = n THEN Unpushed(day) ELSE Pushed(g[i + 1], day, before, i, ctx)
      <4>1. CASE i = k
        <5>1. g[i] = Pushed(f[k + 1], day, before, k, ctx) BY <3>6, <4>1
        <5>2. g[k + 1] = f[k + 1] BY <3>4, <3>7
        <5> QED BY <3>4, <4>1, <5>1, <5>2
      <4>2. CASE i # k
        <5>1. i \in k + 1 .. n BY <3>8, <4>2
        <5>2. g[i] = f[i] BY <3>7, <5>1
        <5>3. i # n => g[i + 1] = f[i + 1] BY <3>7, <5>1
        <5> QED BY <3>5, <5>1, <5>2, <5>3
      <4> QED BY <4>1, <4>2
    <3>9. g = [i \in k .. n |-> IF i = n THEN Unpushed(day) ELSE Pushed(g[i + 1], day, before, i, ctx)]
      BY <3>6, <3>8
    <3>10. Walked(k) BY <3>9 DEF Walked
    <3> QED BY <2>2, <3>3, <3>10
  <2> QED BY <2>3, <2>4
<1>3. \E f : Walks(f, 1)
  <2>1. n - 1 \in 0 .. n - 1 /\ n - (n - 1) = 1 OBVIOUS
  <2>2. Walked(n - (n - 1)) BY <1>2, <2>1
  <2>3. Walked(1) BY <2>1, <2>2
  <2> QED BY <2>3 DEF Walked
<1>4. PICK walk : walk = Walk(day, before, n, ctx) OBVIOUS
<1>5. Walks(walk, 1) BY <1>1, <1>3, <1>4
<1> QED BY <1>4, <1>5

LEMMA UnpushedWalks ==
    ASSUME NEW day, SoundDay(day)
    PROVE  Walking(day, Unpushed(day))
<1>1. PICK times : times = [i \in DOMAIN day.activities |->
                              [from |-> day.activities[i].from, to |-> day.activities[i].to]]
  OBVIOUS
<1>2. ASSUME NEW i \in DOMAIN times
      PROVE  Timely(day.activities[i], times[i].from, times[i].to)
  <2>1. Clocked(day.activities[i]) BY <1>1 DEF SoundDay, Sound
  <2>2. times[i].from = day.activities[i].from /\ times[i].to = day.activities[i].to BY <1>1
  <2> QED BY <2>1, <2>2 DEF Clocked, Timely
<1>3. TimesFor(day, times) BY <1>1, <1>2 DEF TimesFor
<1> QED BY <1>1, <1>3 DEF Walking, Unpushed

(* A stop that keeps its time.                                              *)
SameTime(a, b) == b.from = a.from /\ b.to = a.to

(* The walk to the start of the day moves stops that are not fixed, and     *)
(* leaves legs as long as they were.                                        *)
Eased(day, times, n, ctx) ==
    \A i \in DOMAIN day.activities :
        \/ SameTime(day.activities[i], times[i])
        \/ /\ i < n /\ ~Fixed(day.activities[i], ctx)
           /\ day.activities[i].category = "transport" =>
                 times[i].to - times[i].from = day.activities[i].to - day.activities[i].from

LEMMA PushedEases ==
    ASSUME NEW day, SoundDay(day), NEW before, NEW walk, Walking(day, walk),
           NEW n, NEW i \in DOMAIN day.activities, i \in Int, i < n,
           i + 1 \in DOMAIN day.activities,
           before[i].to \in Int, before[i + 1].from \in Int, NEW ctx,
           walk.times = None \/ Eased(day, walk.times, n, ctx)
    PROVE  LET next == Pushed(walk, day, before, i, ctx)
           IN  next.times = None \/ Eased(day, next.times, n, ctx)
<1>1. PICK a : a = day.activities[i] OBVIOUS
<1>2. Clocked(a) BY <1>1 DEF SoundDay, Sound
<1>3. PICK gap, end, start, next :
        /\ gap = Max({0, before[i + 1].from - before[i].to})
        /\ end = walk.times[i + 1].from - gap
        /\ start = Min({a.from, end - Least(a)})
        /\ next = Pushed(walk, day, before, i, ctx)
  OBVIOUS
<1>4. PICK new : new = [walk.times EXCEPT ![i] = [from |-> start, to |-> end]] OBVIOUS
<1>5. DOMAIN walk = {"times", "done"} BY DEF Walking
<1>6. \/ next.times = walk.times
      \/ next.times = None
      \/ /\ walk.times # None /\ ~(a.to <= end) /\ ~Fixed(a, ctx)
         /\ next.times = new
  <2>1. next =
          CASE walk.done \/ walk.times = None -> walk
            [] walk.times # None /\ ~walk.done /\ a.to <= end -> [walk EXCEPT !.done = TRUE]
            [] OTHER -> IF Fixed(a, ctx) \/ Misplaced(a, day.date, ctx, start, end)
                        THEN [walk EXCEPT !.times = None]
                        ELSE [walk EXCEPT !.times = new]
    BY <1>1, <1>3, <1>4 DEF Pushed
  <2>2. CASE walk.done \/ walk.times = None BY <2>1, <2>2
  <2>3. CASE ~(walk.done \/ walk.times = None)
    <3>1. CASE a.to <= end
      <4>1. next = [walk EXCEPT !.done = TRUE] BY <2>1, <2>3, <3>1
      <4> QED BY <1>5, <4>1
    <3>2. CASE ~(a.to <= end) /\ (Fixed(a, ctx) \/ Misplaced(a, day.date, ctx, start, end))
      <4>1. next = [walk EXCEPT !.times = None] BY <2>1, <2>3, <3>2
      <4> QED BY <1>5, <4>1
    <3>3. CASE ~(a.to <= end) /\ ~(Fixed(a, ctx) \/ Misplaced(a, day.date, ctx, start, end))
      <4>1. next = [walk EXCEPT !.times = new] BY <2>1, <2>3, <3>3
      <4> QED BY <1>5, <2>3, <3>3, <4>1
    <3> QED BY <3>1, <3>2, <3>3
  <2> QED BY <2>2, <2>3
<1>7. ASSUME walk.times # None, ~(a.to <= end), ~Fixed(a, ctx)
      PROVE  Eased(day, new, n, ctx)
  <2>1. PICK times : times = walk.times OBVIOUS
  <2>2. TimesFor(day, times) /\ Eased(day, times, n, ctx) BY <1>7, <2>1 DEF Walking
  <2>3. DOMAIN times = DOMAIN day.activities BY <2>2 DEF TimesFor
  <2>4. end \in Int
    <3>1. PICK x \in Int : x = before[i + 1].from - before[i].to OBVIOUS
    <3>2. gap \in Int BY <1>3, <3>1, MaxOfTwo
    <3>3. times[i + 1].from \in Int BY <2>2, <2>3 DEF TimesFor, Timely
    <3> QED BY <1>3, <2>1, <3>2, <3>3
  <2>5. new[i].from = start /\ new[i].to = end BY <1>4, <2>1, <2>3
  <2>6. a.category = "transport" => end - start = a.to - a.from
    <3> SUFFICES ASSUME a.category = "transport" PROVE end - start = a.to - a.from
      OBVIOUS
    <3>1. PICK from \in Int, to \in Int : from = a.from /\ to = a.to BY <1>2 DEF Clocked
    <3>2. Least(a) = to - from BY <3>1 DEF Least
    <3>3. PICK y \in Int : y = end - (to - from) BY <2>4, <3>1
    <3>4. y < from BY <1>7, <2>4, <3>1, <3>3
    <3>5. Min({from, y}) = IF from <= y THEN from ELSE y BY <3>1, <3>3, MinOfTwo
    <3>6. start = y BY <1>3, <3>1, <3>2, <3>3, <3>4, <3>5
    <3> QED BY <2>4, <3>1, <3>3, <3>6
  <2>7. \A k \in DOMAIN day.activities : k # i => new[k] = times[k] BY <1>4, <2>1, <2>3
  <2> QED BY <1>1, <1>7, <2>2, <2>5, <2>6, <2>7 DEF Eased
<1>8. next.times = None \/ Eased(day, next.times, n, ctx)
  BY <1>6, <1>7
<1> QED BY <1>3, <1>8

LEMMA WalkEases ==
    ASSUME NEW day, SoundDay(day), NEW before, DOMAIN before = DOMAIN day.activities,
           \A i \in DOMAIN before : before[i].from \in Int /\ before[i].to \in Int,
           NEW n \in DOMAIN day.activities, NEW ctx
    PROVE  LET times == Walk(day, before, n, ctx)[1].times
           IN  times = None \/ (TimesFor(day, times) /\ Eased(day, times, n, ctx))
<1> DEFINE Eases(w) == Walking(day, w) /\ (w.times = None \/ Eased(day, w.times, n, ctx))
<1>1. PICK size \in Nat : DOMAIN day.activities = 1 .. size BY DEF SoundDay, Counted
<1>2. n \in 1 .. size /\ n \in Nat /\ 0 < n BY <1>1
<1>3. PICK walk : walk = Walk(day, before, n, ctx) OBVIOUS
<1>4. walk = [i \in 1 .. n |-> IF i = n THEN Unpushed(day)
                               ELSE Pushed(walk[i + 1], day, before, i, ctx)]
  BY <1>2, <1>3, WalkIs
<1>5. Eases(Unpushed(day))
  <2>1. Walking(day, Unpushed(day)) BY UnpushedWalks
  <2>2. PICK times : times = [i \in DOMAIN day.activities |->
                                [from |-> day.activities[i].from, to |-> day.activities[i].to]]
    OBVIOUS
  <2>3. Unpushed(day).times = times BY <2>2 DEF Unpushed
  <2>4. \A i \in DOMAIN day.activities : SameTime(day.activities[i], times[i])
    BY <2>2 DEF SameTime
  <2> QED BY <2>1, <2>3, <2>4 DEF Eased
<1>6. ASSUME NEW i \in 1 .. n, i # n, Eases(walk[i + 1])
      PROVE  Eases(walk[i])
  <2>1. PICK next, old : next = walk[i] /\ old = walk[i + 1] OBVIOUS
  <2>2. next = Pushed(old, day, before, i, ctx) BY <1>4, <1>6, <2>1
  <2>3. i \in DOMAIN day.activities /\ i + 1 \in DOMAIN day.activities /\ i \in Int /\ i < n
    BY <1>1, <1>2, <1>6
  <2>4. before[i].to \in Int /\ before[i + 1].from \in Int BY <2>3
  <2>5. Walking(day, old) /\ (old.times = None \/ Eased(day, old.times, n, ctx)) BY <1>6, <2>1
  <2>6. Walking(day, next) BY <2>2, <2>3, <2>4, <2>5, PushedWalks
  <2>7. next.times = None \/ Eased(day, next.times, n, ctx)
    BY <2>2, <2>3, <2>4, <2>5, PushedEases
  <2> QED BY <2>1, <2>6, <2>7
<1> HIDE DEF Eases
<1> DEFINE lost == {m \in 0 .. n - 1 : ~Eases(walk[n - m])}
<1>7. lost = {}
  <2> SUFFICES ASSUME lost # {} PROVE FALSE
    OBVIOUS
  <2>1. PICK m \in lost : \A x \in lost : m <= x
    <3>1. lost \subseteq Nat BY <1>2
    <3> HIDE DEF lost
    <3> QED BY <3>1, LeastNatural
  <2>2. m \in 0 .. n - 1 /\ ~Eases(walk[n - m]) OBVIOUS
  <2>3. CASE m = 0
    <3>1. walk[n] = Unpushed(day) BY <1>2, <1>4
    <3>2. n - m = n BY <1>2, <2>3
    <3> QED BY <1>5, <2>2, <3>1, <3>2
  <2>4. CASE m # 0
    <3>1. m - 1 \in 0 .. n - 1 BY <1>2, <2>2, <2>4
    <3>2. m - 1 \notin lost BY <1>2, <2>1, <2>2, <3>1
    <3>3. PICK i \in 1 .. n - 1 : i = n - m BY <1>2, <2>2, <2>4
    <3>4. i + 1 = n - (m - 1) /\ i \in 1 .. n /\ i # n BY <1>2, <2>2, <3>3
    <3>5. Eases(walk[i + 1]) BY <3>1, <3>2, <3>4
    <3> QED BY <1>6, <2>2, <3>3, <3>4, <3>5
  <2> QED BY <2>3, <2>4
<1>8. Eases(walk[1])
  <2>1. n - 1 \in 0 .. n - 1 /\ n - (n - 1) = 1 BY <1>2
  <2> QED BY <1>7, <2>1
<1> QED BY <1>3, <1>8 DEF Eases, Walking

-----------------------------------------------------------------------------
(* Where and when a closed visit can go.                                    *)

LEMMA FiniteRange ==
    ASSUME NEW S, IsFiniteSet(S), NEW f, DOMAIN f = S
    PROVE  IsFiniteSet({f[x] : x \in S})
<1>1. PICK T : T = {f[x] : x \in S} OBVIOUS
<1>2. PICK g : g = [x \in S |-> f[x]] OBVIOUS
<1>3. g \in Surjection(S, T) BY <1>1, <1>2 DEF Surjection
<1> QED BY <1>1, <1>3, FS_Surjection

LEMMA PlaceIs ==
    ASSUME NEW p, NEW x
    PROVE  x \in Places(p)
           <=> \E d \in DOMAIN p.days : \E i \in DOMAIN p.days[d].activities : x = <<d, i>>
BY DEF Places, Days

LEMMA PlaceOf ==
    ASSUME NEW p, NEW x \in Places(p)
    PROVE  x[1] \in DOMAIN p.days /\ x[2] \in DOMAIN p.days[x[1]].activities
<1>1. PICK d \in DOMAIN p.days : \E i \in DOMAIN p.days[d].activities : x = <<d, i>> BY PlaceIs
<1>2. PICK i \in DOMAIN p.days[d].activities : x = <<d, i>> BY <1>1
<1>3. x[1] = d /\ x[2] = i BY <1>2
<1> QED BY <1>1, <1>2, <1>3

LEMMA FinitePlaces ==
    ASSUME NEW p, SoundPlan(p)
    PROVE  /\ IsFiniteSet(Places(p))
           /\ \A x \in Places(p) : x[1] \in Int /\ x[2] \in Int /\ x = <<x[1], x[2]>>
<1>1. PICK n \in Nat : DOMAIN p.days = 1 .. n BY DEF SoundPlan, Counted
<1>2. PICK at : at = [d \in 1 .. n |-> {<<d, i>> : i \in DOMAIN p.days[d].activities}] OBVIOUS
<1>3. ASSUME NEW d \in 1 .. n
      PROVE  IsFiniteSet(at[d]) /\ \A i \in DOMAIN p.days[d].activities : i \in Int
  <2>1. PICK m \in Nat : DOMAIN p.days[d].activities = 1 .. m
    BY <1>1 DEF SoundPlan, SoundDay, Counted
  <2>2. PICK f : f = [i \in 1 .. m |-> <<d, i>>] OBVIOUS
  <2>3. at[d] = {f[i] : i \in 1 .. m} BY <1>2, <2>1, <2>2
  <2>4. IsFiniteSet(1 .. m) BY UpTo
  <2>6. DOMAIN f = 1 .. m BY <2>2
  <2>5. IsFiniteSet({f[i] : i \in 1 .. m}) BY <2>4, <2>6, FiniteRange
  <2> QED BY <2>1, <2>3, <2>5
<1>4. IsFiniteSet({at[d] : d \in 1 .. n})
  <2>1. IsFiniteSet(1 .. n) /\ DOMAIN at = 1 .. n BY <1>2, UpTo
  <2> QED BY <2>1, FiniteRange
<1>5. IsFiniteSet(UNION {at[d] : d \in 1 .. n})
  <2>1. \A T \in {at[d] : d \in 1 .. n} : IsFiniteSet(T) BY <1>3
  <2> QED BY <1>4, <2>1, FS_UNION
<1>6. Places(p) = UNION {at[d] : d \in 1 .. n} BY <1>1, <1>2 DEF Places, Days
<1>7. ASSUME NEW x \in Places(p) PROVE x[1] \in Int /\ x[2] \in Int /\ x = <<x[1], x[2]>>
  <2>1. PICK d \in DOMAIN p.days : \E i \in DOMAIN p.days[d].activities : x = <<d, i>>
    BY PlaceIs
  <2>2. PICK i \in DOMAIN p.days[d].activities : x = <<d, i>> BY <2>1
  <2>3. d \in Int /\ i \in Int BY <1>1, <1>3, <2>1, <2>2
  <2> QED BY <2>2, <2>3
<1> QED BY <1>5, <1>6, <1>7

LEMMA OrderIsTotal ==
    ASSUME NEW S, \A x \in S : x[1] \in Int /\ x[2] \in Int /\ x = <<x[1], x[2]>>
    PROVE  /\ TotalOrder(S, [p \in S |-> {q \in S : Ordered(q, p)}])
           /\ TotalOrder(S, [p \in S |-> {q \in S : Earlier(q, p)}])
<1>1. \A x, y \in S : Earlier(x, y) <=> Ordered(x, y) BY DEF Earlier, Ordered
<1>2. PICK before : before = [p \in S |-> {q \in S : Ordered(q, p)}] OBVIOUS
<1>3. before = [p \in S |-> {q \in S : Earlier(q, p)}] BY <1>1, <1>2
<1>4. \A x, y \in S : x \in before[y] <=> Ordered(x, y) BY <1>2
<1>5. \A x \in S : ~Ordered(x, x) BY DEF Ordered
<1>6. \A x, y \in S : x # y => Ordered(x, y) \/ Ordered(y, x)
  <2> SUFFICES ASSUME NEW x \in S, NEW y \in S, x # y PROVE Ordered(x, y) \/ Ordered(y, x)
    OBVIOUS
  <2>1. x[1] # y[1] \/ x[2] # y[2] OBVIOUS
  <2> QED BY <2>1 DEF Ordered
<1>7. \A x, y, z \in S : Ordered(x, y) /\ Ordered(y, z) => Ordered(x, z) BY DEF Ordered
<1>8. \A x, y \in S : x \in before[y] => before[x] \subseteq before[y]
  <2> SUFFICES ASSUME NEW x \in S, NEW y \in S, x \in before[y], NEW z \in before[x]
               PROVE  z \in before[y]
    OBVIOUS
  <2>1. z \in S BY <1>2
  <2> QED BY <1>4, <1>7, <2>1
<1>9. TotalOrder(S, before)
  <2>1. before \in [S -> SUBSET S] BY <1>2
  <2>2. \A x \in S : x \notin before[x] BY <1>4, <1>5
  <2>3. \A x, y \in S : x # y => x \in before[y] \/ y \in before[x] BY <1>4, <1>6
  <2> QED BY <1>8, <2>1, <2>2, <2>3 DEF TotalOrder
<1> QED BY <1>2, <1>3, <1>9

LEMMA TargetsAre ==
    ASSUME NEW draft, SoundPlan(draft), NEW ctx, NEW k \in DOMAIN Targets(draft, ctx)
    PROVE  Targets(draft, ctx)[k] \in Places(draft) /\ ClosedAt(draft, Targets(draft, ctx)[k], ctx)
<1>1. PICK closed : closed = {p \in Places(draft) : ClosedAt(draft, p, ctx)} OBVIOUS
<1>2. PICK before : before = [p \in closed |-> {q \in closed : Ordered(q, p)}] OBVIOUS
<1>3. Targets(draft, ctx) = Listed(closed, before) BY <1>1, <1>2 DEF Targets
<1>4. closed \subseteq Places(draft) BY <1>1
<1>5. IsFiniteSet(closed) BY <1>4, FinitePlaces, FS_Subset
<1>6. TotalOrder(closed, before) BY <1>2, <1>4, FinitePlaces, OrderIsTotal
<1>7. Listed(closed, before) \in Seq(closed) BY <1>5, <1>6, ListedIs
<1>8. Targets(draft, ctx)[k] \in closed BY <1>3, <1>7, ElementOfSeq, LenProperties
<1> QED BY <1>1, <1>8

LEMMA MatchIs ==
    ASSUME NEW a, NEW known, _match_known(a, known) # None
    PROVE  \E n \in DOMAIN known : _match_known(a, known) = known[n]
<1>1. PICK names : names = {n \in DOMAIN known :
                              /\ NameLength[n] >= MIN_VENUE_MATCH_CHARS
                              /\ n \in a.mentions \cup {a.location, a.title}}
  OBVIOUS
<1>2. PICK best : best = IF names = {} THEN {} ELSE Longest(a, names) OBVIOUS
<1>3. _match_known(a, known) =
        IF Cardinality(best) = 1 THEN known[CHOOSE n \in best : TRUE] ELSE None
  BY <1>1, <1>2 DEF _match_known
<1>4. best \subseteq DOMAIN known BY <1>1, <1>2 DEF Longest
<1>5. Cardinality(best) = 1 /\ _match_known(a, known) = known[CHOOSE n \in best : TRUE]
  BY <1>3
<1>6. best # {} BY <1>5, FS_EmptySet
<1>7. (CHOOSE n \in best : TRUE) \in DOMAIN known BY <1>4, <1>6
<1> QED BY <1>5, <1>7

Minutes == 0 .. MinutesInDay
LEMMA WindowsForAre ==
    ASSUME None \notin Int, NEW listing, Listing(listing), NEW d
    PROVE  windows_for(listing, d) = None \/ windows_for(listing, d) \subseteq Minutes \X Minutes
<1>1. PICK known, before : known = Known(listing, d) /\ before = Eve(listing, d) OBVIOUS
<1>2. known = None \/ Spans(known) BY <1>1, KnownIs
<1>3. before = None \/ Spans(before) BY <1>1, KnownIs DEF Eve
<1>4. CASE known = None BY <1>1, <1>4, WindowsForIs
<1>5. CASE known # None
  <2>1. PICK windows : windows = Cut(known) \cup Spill(before) OBVIOUS
  <2>2. windows_for(listing, d) = _merge_windows(windows) BY <1>1, <1>5, <2>1, WindowsForIs
  <2>3. Windows(windows, MinutesInDay)
    <3>1. Windows(Cut(known), MinutesInDay) BY <1>2, <1>5, CutIs
    <3>2. Windows(Spill(before), MinutesInDay) BY <1>3, SpillIs
    <3> QED BY <2>1, <3>1, <3>2 DEF Windows
  <2>4. ASSUME NEW w \in windows PROVE w[1] \in Minutes /\ w[2] \in Minutes
    <3>1. PICK x \in Minutes, y \in Minutes : w = <<x, y>> BY <2>3 DEF Windows, Minutes
    <3>2. w[1] = x /\ w[2] = y BY <3>1
    <3> QED BY <3>2
  <2>5. Openings(windows) \subseteq Minutes /\ Closings(windows) \subseteq Minutes
    BY <2>4 DEF Openings, Closings
  <2>6. _merge_windows(windows) \subseteq Openings(windows) \X Closings(windows)
    BY DEF _merge_windows
  <2> QED BY <2>2, <2>5, <2>6
<1> QED BY <1>4, <1>5

LEMMA MinutesAre ==
    /\ IsFiniteSet(Minutes \X Minutes)
    /\ \A w \in Minutes \X Minutes : w[1] \in Int /\ w[2] \in Int /\ w = <<w[1], w[2]>>
<1>1. 0 \in Int /\ MinutesInDay \in Int BY DEF MinutesInDay
<1>2. IsFiniteSet(Minutes) BY <1>1, FS_Interval DEF Minutes
<1>3. \A w \in Minutes \X Minutes : w[1] \in Minutes /\ w[2] \in Minutes /\ w = <<w[1], w[2]>>
  OBVIOUS
<1>4. Minutes \subseteq Int BY <1>1 DEF Minutes
<1> QED BY <1>2, <1>3, <1>4, FS_Product

LEMMA WindowsOfAre ==
    ASSUME None \notin Int, NEW a, NEW d, NEW hours, \A n \in DOMAIN hours : Listing(hours[n])
    PROVE  WindowsOf(a, d, hours) \subseteq Minutes \X Minutes
<1>1. PICK listing : listing = _match_known(a, hours) OBVIOUS
<1>2. PICK windows : windows = windows_for(listing, d) OBVIOUS
<1>3. WindowsOf(a, d, hours) = IF listing = None \/ windows = None THEN {} ELSE windows
  BY <1>1, <1>2 DEF WindowsOf
<1>4. CASE listing = None BY <1>3, <1>4
<1>5. CASE listing # None
  <2>1. Listing(listing) BY <1>1, <1>5, MatchIs
  <2> QED BY <1>2, <1>3, <2>1, WindowsForAre
<1> QED BY <1>4, <1>5

LEMMA MaxOfThree ==
    ASSUME NEW x \in Int, NEW y \in Int, NEW z \in Int
    PROVE  Max({x, y, z}) \in Int /\ Min({x, y, z}) \in Int
<1>1. \E u \in {x, y, z} : \A v \in {x, y, z} : u >= v OBVIOUS
<1>2. \E u \in {x, y, z} : \A v \in {x, y, z} : u <= v OBVIOUS
<1>3. Max({x, y, z}) \in {x, y, z} BY <1>1 DEF Max
<1>4. Min({x, y, z}) \in {x, y, z} BY <1>2 DEF Min
<1> QED BY <1>3, <1>4

(* A visit keeps its length where it is moved; a place named is not replaced. *)
Lasting(r) == r.from \in Int /\ r.to \in Int /\ r.from < r.to
Alternative(a, r, ctx) ==
    Lasting(r) /\ (r.place = None \/ NameIn(a, ctx.hours) \notin ctx.venues)

LEMMA RetimedIntoIs ==
    ASSUME NEW a, Clocked(a), a.start_at = None, NEW w \in Minutes \X Minutes,
           RetimedInto(a, w) # None
    PROVE  Lasting(RetimedInto(a, w)) /\ RetimedInto(a, w).place = None
<1>1. PICK opens \in Int, closes \in Int : w = <<opens, closes>> BY MinutesAre
<1>2. PICK length \in Int, from \in Int : length = a.to - a.from /\ from = a.from /\ 0 < length
  BY DEF Clocked
<1>3. PICK first \in Int, final \in Int : first = _meal(a)[1] /\ final = _meal(a)[2]
  <2>1. _meal(a) = <<6 * 60, 12 * 60>> \/ _meal(a) = <<11 * 60, 16 * 60>>
        \/ _meal(a) = <<17 * 60, 24 * 60>> \/ _meal(a) = <<0, 24 * 60>>
    BY DEF _meal
  <2> QED BY <2>1
<1>4. w[1] = opens /\ w[2] = closes BY <1>1
<1>5. PICK lower \in Int : lower = Max({opens, 6 * 60, first})
  <2>1. 6 * 60 \in Int OBVIOUS
  <2> QED BY <2>1, MaxOfThree
<1>6. PICK upper \in Int : upper = Min({closes, 23 * 60 + 59, final}) - length
  <2>1. 23 * 60 + 59 \in Int OBVIOUS
  <2>2. Min({closes, 23 * 60 + 59, final}) \in Int BY <2>1, MaxOfThree
  <2> QED BY <2>2
<1>7. PICK least \in Int : least = Min({from, upper}) BY MinOfTwo
<1>8. PICK start \in Int : start = Max({lower, least}) BY MaxOfTwo
<1>9. RetimedInto(a, w) = IF lower > upper \/ start = from THEN None
                          ELSE [from |-> start, to |-> start + length, place |-> None]
  BY <1>2, <1>3, <1>4, <1>5, <1>6, <1>7, <1>8 DEF RetimedInto
<1>10. RetimedInto(a, w) = [from |-> start, to |-> start + length, place |-> None] BY <1>9
<1> QED BY <1>2, <1>10 DEF Lasting

LEMMA RetimingsAre ==
    ASSUME None \notin Int, NEW a, Clocked(a), a.start_at = None, NEW d, NEW ctx,
           \A n \in DOMAIN ctx.hours : Listing(ctx.hours[n])
    PROVE  \E T : Retimings(a, d, ctx) \in Seq(T) /\ \A r \in T : Alternative(a, r, ctx)
<1>1. PICK windows : windows = {w \in WindowsOf(a, d, ctx.hours) : RetimedInto(a, w) # None}
  OBVIOUS
<1>2. windows \subseteq Minutes \X Minutes BY <1>1, WindowsOfAre
<1>3. PICK before : before = [w \in windows |-> {v \in windows : Earlier(v, w)}] OBVIOUS
<1>4. PICK list : list = Listed(windows, before) OBVIOUS
<1>5. list \in Seq(windows)
  <2>1. IsFiniteSet(windows)
    BY <1>2, MinutesAre, FS_Subset
  <2>2. \A w \in windows : w[1] \in Int /\ w[2] \in Int /\ w = <<w[1], w[2]>>
    BY <1>2, MinutesAre
  <2>3. TotalOrder(windows, before) BY <1>3, <2>2, OrderIsTotal
  <2> QED BY <1>4, <2>1, <2>3, ListedIs
<1>6. PICK T : T = {RetimedInto(a, w) : w \in windows} OBVIOUS
<1>7. \A r \in T : Alternative(a, r, ctx) BY <1>1, <1>2, <1>6, RetimedIntoIs DEF Alternative
<1>8. PICK moved : moved = [k \in DOMAIN list |-> RetimedInto(a, list[k])] OBVIOUS
<1>9. moved \in Seq(T)
  <2>1. PICK n \in Nat : n = Len(list) /\ DOMAIN list = 1 .. n BY <1>5, LenProperties
  <2>2. \A k \in 1 .. n : list[k] \in windows BY <1>5, <2>1, ElementOfSeq
  <2>3. moved \in [1 .. n -> T] BY <1>6, <1>8, <2>1, <2>2
  <2> QED BY <2>3, SeqDef
<1>10. Retimings(a, d, ctx) = IF ctx.clocked THEN <<>> ELSE moved
  BY <1>1, <1>3, <1>4, <1>8 DEF Retimings, RetimedIntoEach
<1>11. <<>> \in Seq(T) BY EmptySeq
<1> QED BY <1>7, <1>9, <1>10, <1>11

LEMMA ReplacementsAre ==
    ASSUME NEW a, Clocked(a), a.start_at = None, NEW d, NEW ctx,
           ctx.restaurants \in Seq(ToSet(ctx.restaurants))
    PROVE  \E T : Replacements(a, d, ctx) \in Seq(T) /\ \A r \in T : Alternative(a, r, ctx)
<1>1. PICK T : T = {[from |-> a.from, to |-> a.to, place |-> x.name] :
                       x \in ToSet(ctx.restaurants)}
  OBVIOUS
<1>2. Replaceable(a, ctx) => \A r \in T : Alternative(a, r, ctx)
  BY <1>1 DEF Alternative, Lasting, Clocked, Replaceable
<1>3. PICK fit : fit = {place \in _observed_restaurants(ctx.restaurants) :
                          /\ place.name # NameIn(a, ctx.hours)
                          /\ NoDearer(a, place, ctx)
                          /\ OpenFor(a, d, place)}
  OBVIOUS
<1>4. PICK places : places = Only(ctx.restaurants, fit) OBVIOUS
<1>5. places \in Seq(ToSet(ctx.restaurants)) BY <1>4, OnlyHolds
<1>6. PICK listed : listed = [k \in DOMAIN places |-> [from |-> a.from, to |-> a.to,
                                                       place |-> places[k].name]]
  OBVIOUS
<1>7. listed \in Seq(T)
  <2>1. PICK n \in Nat : n = Len(places) /\ DOMAIN places = 1 .. n BY <1>5, LenProperties
  <2>2. \A k \in 1 .. n : places[k] \in ToSet(ctx.restaurants) BY <1>5, <2>1, ElementOfSeq
  <2>3. listed \in [1 .. n -> T] BY <1>1, <1>6, <2>1, <2>2
  <2> QED BY <2>3, SeqDef
<1>8. Replacements(a, d, ctx) = IF Replaceable(a, ctx) THEN listed ELSE <<>>
  BY <1>3, <1>4, <1>6 DEF Replacements
<1>9. <<>> \in Seq({}) BY EmptySeq
<1>10. CASE Replaceable(a, ctx) BY <1>2, <1>7, <1>8, <1>10
<1>11. CASE ~Replaceable(a, ctx) BY <1>8, <1>9, <1>11
<1> QED BY <1>10, <1>11

LEMMA FirstOfIs ==
    ASSUME NEW T, NEW list \in Seq(T), NEW n \in Nat
    PROVE  FirstOf(list, n) \in Seq(T)
<1>1. Len(list) \in Nat /\ DOMAIN list = 1 .. Len(list) /\ \A i \in DOMAIN list : list[i] \in T
  BY LenProperties, ElementOfSeq
<1>2. PICK m : m = Min({n, Len(list)}) OBVIOUS
<1>3. m \in {n, Len(list)} /\ \A y \in {n, Len(list)} : m <= y
  <2>1. \E x \in {n, Len(list)} : \A y \in {n, Len(list)} : x <= y BY <1>1
  <2> QED BY <1>2, <2>1 DEF Min
<1>4. m \in Int /\ m <= Len(list)
  <2>1. m = n \/ m = Len(list) BY <1>3
  <2>2. m <= Len(list) BY <1>3
  <2> QED BY <1>1, <2>1, <2>2
<1>5. \A i \in 1 .. m : list[i] \in T BY <1>1, <1>4
<1>6. SubSeq(list, 1, m) \in Seq(T) BY <1>4, <1>5, SubSeqProperties
<1> QED BY <1>2, <1>6 DEF FirstOf

LEMMA SeqInside ==
    ASSUME NEW S, NEW T, S \subseteq T, NEW list \in Seq(S)
    PROVE  list \in Seq(T)
<1>1. PICK n \in Nat : n = Len(list) /\ DOMAIN list = 1 .. n BY LenProperties
<1>2. \A k \in 1 .. n : list[k] \in T BY <1>1, ElementOfSeq
<1>3. list = [k \in 1 .. n |-> list[k]]
  <2>1. list \in [1 .. n -> S] BY <1>1, LenProperties
  <2> QED BY <2>1
<1>4. list \in [1 .. n -> T] BY <1>2, <1>3
<1> QED BY <1>4, SeqDef

(* Every alternative takes some time, and what is reserved has none.        *)
LEMMA OptionsAre ==
    ASSUME None \notin Int, NEW a, Clocked(a), NEW d, NEW ctx,
           \A n \in DOMAIN ctx.hours : Listing(ctx.hours[n]),
           ctx.restaurants \in Seq(ToSet(ctx.restaurants)),
           NEW j \in DOMAIN _options(a, d, ctx)
    PROVE  ~Reserved_By(a, ctx) /\ Alternative(a, _options(a, d, ctx)[j], ctx)
<1>1. PICK options : options = _options(a, d, ctx) OBVIOUS
<1>2. options # <<>> BY <1>1
<1>3. a.start_at = None /\ ~Reserved_By(a, ctx)
      /\ options = FirstOf(Retimings(a, d, ctx) \o Replacements(a, d, ctx), MAX_CANDIDATES)
  BY <1>1, <1>2 DEF _options
<1>4. PICK R : Retimings(a, d, ctx) \in Seq(R) /\ \A r \in R : Alternative(a, r, ctx)
  BY <1>3, RetimingsAre
<1>5. PICK P : Replacements(a, d, ctx) \in Seq(P) /\ \A r \in P : Alternative(a, r, ctx)
  BY <1>3, ReplacementsAre
<1>6. PICK T : T = {r \in R \cup P : Alternative(a, r, ctx)} OBVIOUS
<1>7. R \subseteq T /\ P \subseteq T BY <1>4, <1>5, <1>6
<1>8. PICK s, t : s = Retimings(a, d, ctx) /\ t = Replacements(a, d, ctx) OBVIOUS
<1>9. s \in Seq(T) /\ t \in Seq(T)
  <2>1. s \in Seq(R) /\ t \in Seq(P) BY <1>4, <1>5, <1>8
  <2>2. s \in Seq(T) BY <1>7, <2>1, SeqInside
  <2>3. t \in Seq(T) BY <1>7, <2>1, SeqInside
  <2> QED BY <2>2, <2>3
<1>10. s \o t \in Seq(T) BY <1>9, ConcatProperties
<1>11. MAX_CANDIDATES \in Nat BY DEF MAX_CANDIDATES
<1>12. options \in Seq(T) BY <1>3, <1>8, <1>10, <1>11, FirstOfIs
<1>13. options[j] \in T BY <1>1, <1>12, LenProperties, ElementOfSeq
<1> QED BY <1>1, <1>3, <1>6, <1>13

LEMMA BackfillKept ==
    ASSUME NEW changed, NEW original, NEW locked, Kept(changed, original, locked),
           SoundPlan(original), Shaped(changed, original),
           NEW p \in Places(changed), p[1] \notin locked, NEW ctx, NEW room,
           room = _backfill_prefix(changed, original, p, ctx), room # None
    PROVE  Kept(room, original, locked) /\ Shaped(room, original)
<1>1. PICK times : times = Walk(changed.days[p[1]], original.days[p[1]].activities, p[2], ctx)[1].times
  OBVIOUS
<1>2. times # None /\
      room = [changed EXCEPT !.days[p[1]].activities = [i \in DOMAIN @ |->
                 [@[i] EXCEPT !.from = times[i].from, !.to = times[i].to]]]
  BY <1>1 DEF _backfill_prefix
<1>3. PICK before, as :
         /\ before = changed.days[p[1]].activities
         /\ as = [i \in DOMAIN before |->
                    [before[i] EXCEPT !.from = times[i].from, !.to = times[i].to]]
  OBVIOUS
<1>4. room = [changed EXCEPT !.days[p[1]].activities = as] BY <1>2, <1>3
<1>5. p[1] \in DOMAIN changed.days /\ p[2] \in DOMAIN before BY <1>3, PlaceOf
<1>6. SoundDay(changed.days[p[1]]) BY <1>5 DEF Kept, SoundPlan
<1>7. TimesFor(changed.days[p[1]], times)
  <2>1. PICK day, old : day = changed.days[p[1]] /\ old = original.days[p[1]].activities OBVIOUS
  <2>2. DOMAIN old = DOMAIN day.activities BY <1>5, <2>1 DEF Shaped
  <2>3. \A i \in DOMAIN old : old[i].from \in Int /\ old[i].to \in Int
    <3>1. SoundDay(original.days[p[1]]) BY <1>5 DEF Shaped, SoundPlan
    <3>2. \A i \in DOMAIN old : Sound(old[i]) BY <2>1, <3>1 DEF SoundDay
    <3> QED BY <3>2 DEF Sound, Clocked
  <2>4. SoundDay(day) /\ p[2] \in DOMAIN day.activities BY <1>3, <1>5, <1>6, <2>1
  <2>5. times = Walk(day, old, p[2], ctx)[1].times BY <1>1, <2>1
  <2> QED BY <1>2, <2>1, <2>2, <2>3, <2>4, <2>5, WalkEases
<1>8. ASSUME NEW i \in DOMAIN as PROVE Sound(as[i])
  <2>1. i \in DOMAIN before BY <1>3
  <2>2. PICK a, from, to : a = before[i] /\ from = times[i].from /\ to = times[i].to OBVIOUS
  <2>3. Sound(a) BY <1>3, <1>6, <2>1, <2>2 DEF SoundDay
  <2>4. Timely(a, from, to) BY <1>3, <1>7, <2>1, <2>2 DEF TimesFor
  <2>5. as[i] = [a EXCEPT !.from = from, !.to = to] BY <1>3, <2>1, <2>2
  <2>6. Sound([a EXCEPT !.from = from, !.to = to]) BY <2>3, <2>4, RetimedSound
  <2> QED BY <2>5, <2>6
<1>9. DOMAIN as = DOMAIN changed.days[p[1]].activities BY <1>3
<1>10. PICK new : new = [changed EXCEPT !.days[p[1]].activities = as] OBVIOUS
<1>11. Kept(new, original, locked) /\ Shaped(new, changed)
  BY <1>8, <1>9, <1>10, DayRewritten
<1> QED BY <1>4, <1>10, <1>11 DEF Shaped

LEMMA VisitMoved ==
    ASSUME NEW frame, NEW original, NEW locked, Kept(frame, original, locked),
           SoundPlan(original), Shaped(frame, original),
           NEW p \in Places(original), p[1] \notin locked, NEW alternative,
           Timely(At(frame, p), alternative.from, alternative.to), NEW changed,
           changed = [frame EXCEPT !.days[p[1]].activities[p[2]] = Moved(@, alternative)]
    PROVE  Kept(changed, original, locked) /\ Shaped(changed, original)
<1>a. p[1] \in DOMAIN frame.days /\ p[2] \in DOMAIN frame.days[p[1]].activities
  BY PlaceOf DEF Shaped
<1>1. PICK before, as :
         /\ before = frame.days[p[1]].activities
         /\ as = [before EXCEPT ![p[2]] = Moved(@, alternative)]
  OBVIOUS
<1>2. changed = [frame EXCEPT !.days[p[1]].activities = as]
  <2>1. as = [before EXCEPT ![p[2]] = Moved(before[p[2]], alternative)] BY <1>1
  <2>2. changed = [frame EXCEPT !.days = [frame.days EXCEPT ![p[1]] = [frame.days[p[1]] EXCEPT
                      !.activities = [before EXCEPT ![p[2]] = Moved(before[p[2]], alternative)]]]]
    BY <1>1
  <2> QED BY <2>1, <2>2
<1>3. \A i \in DOMAIN before : Sound(before[i])
  <2>1. SoundDay(frame.days[p[1]]) BY <1>a DEF Kept, SoundPlan
  <2> QED BY <1>1, <2>1 DEF SoundDay
<1>4. ASSUME NEW i \in DOMAIN as PROVE Sound(as[i])
  <2>1. i \in DOMAIN before /\ as[i] = IF i = p[2] THEN Moved(before[i], alternative) ELSE before[i]
    BY <1>1
  <2>2. CASE i = p[2]
    <3>1. PICK a : a = before[i] OBVIOUS
    <3>2. Timely(a, alternative.from, alternative.to) BY <1>1, <2>2, <3>1 DEF At
    <3>3. Sound(Moved(a, alternative)) BY <1>3, <2>1, <3>1, <3>2, MovedSound
    <3> QED BY <2>1, <2>2, <3>1, <3>3
  <2>3. CASE i # p[2] BY <1>3, <2>1, <2>3
  <2> QED BY <2>2, <2>3
<1>5. DOMAIN as = DOMAIN frame.days[p[1]].activities BY <1>1
<1>6. PICK new : new = [frame EXCEPT !.days[p[1]].activities = as] OBVIOUS
<1>7. Kept(new, original, locked) /\ Shaped(new, frame) BY <1>4, <1>5, <1>6, DayRewritten
<1> QED BY <1>2, <1>6, <1>7 DEF Shaped

LEMMA AcceptedKept ==
    ASSUME NEW frame, NEW original, NEW locked, Kept(frame, original, locked),
           SoundPlan(original), Shaped(frame, original),
           NEW p \in Places(original), p[1] \notin locked, NEW alternative,
           Timely(At(frame, p), alternative.from, alternative.to), NEW ctx, NEW result,
           result = Accepted(frame, original, p, alternative, ctx), result # None
    PROVE  Kept(result, original, locked) /\ Shaped(result, original)
<1>1. PICK changed :
        changed = [frame EXCEPT !.days[p[1]].activities[p[2]] = Moved(@, alternative)]
  OBVIOUS
<1>2. Kept(changed, original, locked) /\ Shaped(changed, original) BY <1>1, VisitMoved
<1>3. PICK room : room = _backfill_prefix(changed, original, p, ctx) OBVIOUS
<1>4. result = changed \/ (result = room /\ room # None)
  BY <1>1, <1>3 DEF Accepted
<1>5. p \in Places(changed)
  <2>1. p[1] \in DOMAIN changed.days /\ p[2] \in DOMAIN changed.days[p[1]].activities
    BY <1>2, PlaceOf DEF Shaped
  <2>2. p = <<p[1], p[2]>> BY FinitePlaces
  <2> QED BY <2>1, <2>2, PlaceIs
<1> QED BY <1>2, <1>3, <1>4, <1>5, BackfillKept

(* A plan the search keeps is one it had, with an alternative it accepted.  *)
OptionsFor(q, p, ctx) == _options(At(q, p), q.days[p[1]].date, ctx)
Chosen(r, ps, original, p, ctx) ==
    /\ r # None
    /\ \E m \in DOMAIN ps : \E j \in DOMAIN OptionsFor(ps[m], p, ctx) :
          r = Accepted(ps[m], original, p, OptionsFor(ps[m], p, ctx)[j], ctx)

LEMMA ExpandedFrom ==
    ASSUME NEW ps, Len(ps) \in Nat, DOMAIN ps = 1 .. Len(ps), NEW original, NEW p, NEW ctx
    PROVE  LET found == Expanded(ps, original, p, ctx)
           IN  /\ Len(found) \in Nat /\ DOMAIN found = 1 .. Len(found)
               /\ \A k \in DOMAIN found : Chosen(found[k], ps, original, p, ctx)
<1> DEFINE options(q) == OptionsFor(q, p, ctx)
           kept(q, j) == IF j \in DOMAIN options(q)
                         THEN Accepted(q, original, p, options(q)[j], ctx) ELSE None
           tried == [n \in 1 .. Len(ps) * MAX_CANDIDATES |->
                       kept(ps[1 + ((n - 1) \div MAX_CANDIDATES)],
                            1 + ((n - 1) % MAX_CANDIDATES))]
           some == ToSet(tried) \ {None}
           From(r) == Chosen(r, ps, original, p, ctx)
<1>1. Expanded(ps, original, p, ctx) = FirstOf(Only(tried, some), MAX_CANDIDATES)
  BY DEF Expanded, OptionsFor
<1>2. \A n \in 1 .. Len(ps) * MAX_CANDIDATES : 1 + ((n - 1) \div MAX_CANDIDATES) \in DOMAIN ps
  BY DEF MAX_CANDIDATES
<1>3. ASSUME NEW m \in DOMAIN ps, NEW j, kept(ps[m], j) # None
      PROVE  From(kept(ps[m], j))
  <2>1. j \in DOMAIN options(ps[m]) BY <1>3
  <2>2. kept(ps[m], j) = Accepted(ps[m], original, p, options(ps[m])[j], ctx) BY <2>1
  <2> HIDE DEF kept
  <2> QED BY <1>3, <2>1, <2>2 DEF Chosen
<1> HIDE DEF From
<1>4. \A n \in DOMAIN tried : tried[n] # None => From(tried[n])
  <2> HIDE DEF kept
  <2> SUFFICES ASSUME NEW n \in 1 .. Len(ps) * MAX_CANDIDATES, tried[n] # None
               PROVE  From(tried[n])
    OBVIOUS
  <2>1. PICK m, j : m = 1 + ((n - 1) \div MAX_CANDIDATES) /\ j = 1 + ((n - 1) % MAX_CANDIDATES)
    OBVIOUS
  <2>2. tried[n] = kept(ps[m], j) /\ m \in DOMAIN ps BY <1>2, <2>1
  <2> QED BY <1>3, <2>2
<1>5. Len(ps) * MAX_CANDIDATES \in Nat BY DEF MAX_CANDIDATES
<1>6. DOMAIN tried = 1 .. Len(ps) * MAX_CANDIDATES OBVIOUS
<1> HIDE DEF tried
<1>7. tried \in Seq(ToSet(tried))
  <2>1. \A n \in DOMAIN tried : tried[n] \in ToSet(tried) BY DEF ToSet
  <2>2. tried \in [1 .. Len(ps) * MAX_CANDIDATES -> ToSet(tried)] BY <1>6, <2>1 DEF tried
  <2> QED BY <1>5, <2>2, SeqDef
<1>8. \A r \in ToSet(tried) \cap some : From(r) BY <1>4 DEF ToSet
<1>9. PICK found : found = FirstOf(Only(tried, some), MAX_CANDIDATES) OBVIOUS
<1>10. found \in Seq(ToSet(tried) \cap some)
  <2>1. Only(tried, some) \in Seq(ToSet(tried) \cap some) BY <1>7, OnlyIs
  <2>2. MAX_CANDIDATES \in Nat BY DEF MAX_CANDIDATES
  <2> QED BY <1>9, <2>1, <2>2, FirstOfIs
<1>11. Len(found) \in Nat /\ DOMAIN found = 1 .. Len(found)
       /\ \A k \in DOMAIN found : From(found[k])
  BY <1>8, <1>10, LenProperties, ElementOfSeq
<1>12. found = Expanded(ps, original, p, ctx) BY <1>1, <1>9
<1> QED BY <1>11, <1>12 DEF From

(* Whatever the alternatives, the plans kept differ on the day that moves.  *)
LEMMA ExpandedKept ==
    ASSUME None \notin Int, NEW ps, NEW original, NEW locked, AllKept(ps, original, locked),
           SoundPlan(original), NEW p \in Places(original), p[1] \notin locked,
           NEW ctx, \A n \in DOMAIN ctx.hours : Listing(ctx.hours[n]),
           ctx.restaurants \in Seq(ToSet(ctx.restaurants))
    PROVE  AllKept(Expanded(ps, original, p, ctx), original, locked)
<1>1. PICK found : found = Expanded(ps, original, p, ctx) OBVIOUS
<1>2. /\ Len(found) \in Nat /\ DOMAIN found = 1 .. Len(found)
      /\ \A k \in DOMAIN found : Chosen(found[k], ps, original, p, ctx)
  BY <1>1, ExpandedFrom DEF AllKept
<1>3. ASSUME NEW k \in DOMAIN found
      PROVE  Kept(found[k], original, locked) /\ Shaped(found[k], original)
  <2>1. PICK m \in DOMAIN ps : \E j \in DOMAIN OptionsFor(ps[m], p, ctx) :
            found[k] = Accepted(ps[m], original, p, OptionsFor(ps[m], p, ctx)[j], ctx)
    BY <1>2 DEF Chosen
  <2>2. PICK q : q = ps[m] /\ Kept(q, original, locked) /\ Shaped(q, original) BY DEF AllKept
  <2>3. PICK a : a = At(q, p) OBVIOUS
  <2>4. PICK j \in DOMAIN OptionsFor(q, p, ctx) :
            found[k] = Accepted(q, original, p, OptionsFor(q, p, ctx)[j], ctx)
    BY <2>1, <2>2
  <2>5. PICK alternative : alternative = OptionsFor(q, p, ctx)[j] OBVIOUS
  <2>6. Clocked(a)
    <3>1. p[1] \in DOMAIN q.days /\ p[2] \in DOMAIN q.days[p[1]].activities
      BY <2>2, PlaceOf DEF Shaped
    <3>2. SoundDay(q.days[p[1]]) BY <2>2, <3>1 DEF Kept, SoundPlan
    <3> QED BY <2>3, <3>1, <3>2 DEF SoundDay, Sound, At
  <2>7. Lasting(alternative) BY <2>3, <2>4, <2>5, <2>6, OptionsAre DEF Alternative, OptionsFor
  <2>8. Timely(a, alternative.from, alternative.to) BY <2>7 DEF Lasting, Timely
  <2>9. PICK result : result = found[k] OBVIOUS
  <2>10. result = Accepted(q, original, p, alternative, ctx) /\ result # None
    BY <1>2, <2>4, <2>5, <2>9 DEF Chosen
  <2>11. Kept(result, original, locked) /\ Shaped(result, original)
    BY <2>2, <2>3, <2>8, <2>10, AcceptedKept
  <2> QED BY <2>9, <2>11
<1> QED BY <1>1, <1>2, <1>3 DEF AllKept

-----------------------------------------------------------------------------
(* What a search through alternatives leaves alone.                         *)

(* The same visit.                                                          *)
SameName(a, b) ==
    /\ b.category = a.category /\ b.location = a.location /\ b.title = a.title
    /\ b.mentions = a.mentions /\ b.booked = a.booked

(* Doors are closed here or at a later visit of the day.                     *)
Ahead(original, x, ctx) ==
    \E y \in Places(original) : y[1] = x[1] /\ y[2] >= x[2] /\ ClosedAt(original, y, ctx)

(* What may have become of a visit: replaced only when its doors are closed *)
(* and nothing ties it to its place; moved only when they are, or to make   *)
(* room for one of the day that comes after it.                             *)
Fair(original, x, b, ctx) ==
    /\ b.category = At(original, x).category
    /\ \/ SameName(At(original, x), b)
       \/ /\ ClosedAt(original, x, ctx) /\ ~At(original, x).booked
          /\ NameIn(At(original, x), ctx.hours) \notin ctx.venues
    /\ \/ SameTime(At(original, x), b)
       \/ ClosedAt(original, x, ctx) /\ ~At(original, x).booked
       \/ ~Fixed(At(original, x), ctx) /\ Ahead(original, x, ctx)
    /\ b.category = "transport" => b.to - b.from = At(original, x).to - At(original, x).from
FairPlan(original, q, ctx) == \A x \in Places(original) : Fair(original, x, At(q, x), ctx)

LEMMA FixedSame ==
    ASSUME NEW a, NEW b, SameName(a, b), NEW ctx
    PROVE  /\ NameIn(b, ctx.hours) = NameIn(a, ctx.hours)
           /\ Reserved_By(b, ctx) <=> Reserved_By(a, ctx)
           /\ Fixed(b, ctx) <=> Fixed(a, ctx)
<1>1. NameIn(b, ctx.hours) = NameIn(a, ctx.hours) BY MatchSame DEF SameName, NameIn
<1>2. Reserved_By(b, ctx) <=> Reserved_By(a, ctx) BY DEF SameName, Reserved_By
<1> QED BY <1>1, <1>2 DEF Fixed, SameName

LEMMA FairKept ==
    ASSUME NEW original, NEW x, NEW ctx, NEW b, Fair(original, x, b, ctx),
           NEW c, SameName(b, c), SameTime(b, c)
    PROVE  Fair(original, x, c, ctx)
BY DEF Fair, SameName, SameTime

(* A visit with closed doors takes one of its alternatives.                 *)
LEMMA FairMoved ==
    ASSUME NEW original, NEW x, NEW ctx, ClosedAt(original, x, ctx),
           NEW b, ActivityFields \subseteq DOMAIN b, Fair(original, x, b, ctx),
           ~Reserved_By(b, ctx), NEW alternative,
           alternative.place = None \/ NameIn(b, ctx.hours) \notin ctx.venues
    PROVE  Fair(original, x, Moved(b, alternative), ctx)
<1>1. PICK a, c : a = At(original, x) /\ c = Moved(b, alternative) OBVIOUS
<1>2. a.category # "transport" BY <1>1 DEF ClosedAt, _is_transport
<1>3. /\ b.category = a.category
      /\ SameName(a, b) \/ (~a.booked /\ NameIn(a, ctx.hours) \notin ctx.venues)
  BY <1>1 DEF Fair
<1>4. ~a.booked BY <1>3 DEF Reserved_By, SameName
<1>5. PICK timed : timed = [b EXCEPT !.from = alternative.from, !.to = alternative.to] OBVIOUS
<1>6. SameName(b, timed) /\ DOMAIN timed = DOMAIN b
  BY <1>5 DEF SameName, ActivityFields
<1>7. c.category = a.category /\ (SameName(b, c) \/ NameIn(b, ctx.hours) \notin ctx.venues)
  <2>1. CASE alternative.place = None
    <3>1. c = timed BY <1>1, <1>5, <2>1 DEF Moved
    <3> QED BY <1>3, <1>6, <3>1 DEF SameName
  <2>2. CASE alternative.place # None
    <3>1. c = [timed EXCEPT !.location = alternative.place, !.mentions = {alternative.place},
                            !.title = None, !.highlights = {}, !.booked = FALSE]
      BY <1>1, <1>5, <2>2 DEF Moved
    <3>2. c.category = timed.category BY <1>6, <3>1 DEF ActivityFields
    <3> QED BY <1>3, <1>6, <2>2, <3>2 DEF SameName
  <2> QED BY <2>1, <2>2
<1>8. SameName(a, c) \/ NameIn(a, ctx.hours) \notin ctx.venues
  <2>1. CASE SameName(a, b)
    <3>1. NameIn(b, ctx.hours) = NameIn(a, ctx.hours) BY <2>1, FixedSame
    <3> QED BY <1>7, <2>1, <3>1 DEF SameName
  <2>2. CASE ~SameName(a, b) BY <1>3, <2>2
  <2> QED BY <2>1, <2>2
<1> QED BY <1>1, <1>2, <1>4, <1>7, <1>8 DEF Fair

(* A stop that is not fixed makes room for a visit behind it.               *)
LEMMA FairPushed ==
    ASSUME NEW original, NEW x, NEW ctx, Ahead(original, x, ctx),
           NEW b, Fair(original, x, b, ctx), ~Fixed(b, ctx),
           NEW c, SameName(b, c), b.category = "transport" => c.to - c.from = b.to - b.from
    PROVE  Fair(original, x, c, ctx)
<1>1. PICK a : a = At(original, x) OBVIOUS
<1>2. SameName(a, b) => ~Fixed(a, ctx) BY FixedSame
<1>3. \/ ~Fixed(a, ctx)
      \/ ClosedAt(original, x, ctx) /\ ~a.booked
  BY <1>1, <1>2 DEF Fair
<1>4. c.category = a.category /\ (SameName(a, b) => SameName(a, c))
  BY <1>1 DEF Fair, SameName
<1>5. c.category = "transport" => c.to - c.from = a.to - a.from
  BY <1>1 DEF Fair, SameName
<1> QED BY <1>1, <1>3, <1>4, <1>5 DEF Fair

LEMMA BackfillFair ==
    ASSUME NEW changed, NEW original, NEW locked, Kept(changed, original, locked),
           SoundPlan(original), Shaped(changed, original), NEW ctx,
           FairPlan(original, changed, ctx),
           NEW p \in Places(original), ClosedAt(original, p, ctx), NEW room,
           room = _backfill_prefix(changed, original, p, ctx), room # None
    PROVE  FairPlan(original, room, ctx)
<1>1. PICK times : times = Walk(changed.days[p[1]], original.days[p[1]].activities, p[2], ctx)[1].times
  OBVIOUS
<1>2. times # None /\
      room = [changed EXCEPT !.days[p[1]].activities = [i \in DOMAIN @ |->
                 [@[i] EXCEPT !.from = times[i].from, !.to = times[i].to]]]
  BY <1>1 DEF _backfill_prefix
<1>3. PICK day, before, as :
         /\ day = changed.days[p[1]]
         /\ before = day.activities
         /\ as = [i \in DOMAIN before |->
                    [before[i] EXCEPT !.from = times[i].from, !.to = times[i].to]]
  OBVIOUS
<1>4. p[1] \in DOMAIN changed.days /\ p[2] \in DOMAIN before /\ "days" \in DOMAIN changed
  BY <1>3, PlaceOf DEF Shaped, Kept, SoundPlan, PlanFields
<1>5. SoundDay(day) BY <1>3, <1>4 DEF Kept, SoundPlan
<1>6. room.days = [changed.days EXCEPT ![p[1]] = [day EXCEPT !.activities = as]]
  BY <1>2, <1>3, <1>4
<1>7. Eased(day, times, p[2], ctx)
  <2>1. PICK old : old = original.days[p[1]].activities OBVIOUS
  <2>2. DOMAIN old = DOMAIN before BY <1>3, <1>4, <2>1 DEF Shaped
  <2>3. \A i \in DOMAIN old : old[i].from \in Int /\ old[i].to \in Int
    <3>1. SoundDay(original.days[p[1]]) BY <1>4 DEF Shaped, SoundPlan
    <3>2. \A i \in DOMAIN old : Sound(old[i]) BY <2>1, <3>1 DEF SoundDay
    <3> QED BY <3>2 DEF Sound, Clocked
  <2>4. times = Walk(day, old, p[2], ctx)[1].times BY <1>1, <1>3, <2>1
  <2> QED BY <1>2, <1>3, <1>4, <1>5, <2>2, <2>3, <2>4, WalkEases
<1>8. ASSUME NEW x \in Places(original) PROVE Fair(original, x, At(room, x), ctx)
  <2>1. x[1] \in DOMAIN changed.days /\ x[2] \in DOMAIN changed.days[x[1]].activities
    BY PlaceOf DEF Shaped
  <2>2. PICK b : b = At(changed, x) /\ Fair(original, x, b, ctx) BY DEF FairPlan
  <2>3. CASE x[1] # p[1]
    <3>1. room.days[x[1]] = changed.days[x[1]] BY <1>6, <2>1, <2>3
    <3> QED BY <2>2, <3>1 DEF At
  <2>4. CASE x[1] = p[1]
    <3>1. PICK i \in DOMAIN before : i = x[2] BY <1>3, <2>1, <2>4
    <3>2. b = before[i] BY <1>3, <2>2, <2>4, <3>1 DEF At
    <3>3. PICK c : c = [b EXCEPT !.from = times[i].from, !.to = times[i].to] OBVIOUS
    <3>4. At(room, x) = c
      <4>1. "activities" \in DOMAIN day BY <1>5 DEF SoundDay
      <4>2. room.days[x[1]].activities = as BY <1>4, <1>6, <2>4, <4>1
      <4> QED BY <1>3, <3>1, <3>2, <3>3, <4>2 DEF At
    <3>5. ActivityFields \subseteq DOMAIN b BY <1>3, <1>5, <3>1, <3>2 DEF SoundDay, Sound
    <3>6. SameName(b, c) /\ c.from = times[i].from /\ c.to = times[i].to
      BY <3>3, <3>5 DEF SameName, ActivityFields
    <3>7. CASE SameTime(b, times[i])
      <4>1. SameTime(b, c) BY <3>6, <3>7 DEF SameTime
      <4>2. Fair(original, x, c, ctx) BY <2>2, <3>6, <4>1, FairKept
      <4> QED BY <3>4, <4>2
    <3>8. CASE /\ i < p[2] /\ ~Fixed(b, ctx)
               /\ b.category = "transport" => times[i].to - times[i].from = b.to - b.from
      <4>1. Ahead(original, x, ctx)
        <5>1. p[2] \in Int /\ i \in Int BY <3>1, FinitePlaces
        <5> QED BY <2>4, <3>1, <3>8, <5>1 DEF Ahead
      <4>2. Fair(original, x, c, ctx) BY <2>2, <3>6, <3>8, <4>1, FairPushed
      <4> QED BY <3>4, <4>2
    <3> QED BY <1>3, <1>7, <3>2, <3>7, <3>8 DEF Eased
  <2> QED BY <2>3, <2>4
<1> QED BY <1>8 DEF FairPlan

LEMMA AcceptedFair ==
    ASSUME NEW q, NEW original, NEW locked, Kept(q, original, locked),
           SoundPlan(original), Shaped(q, original), NEW ctx, FairPlan(original, q, ctx),
           NEW p \in Places(original), p[1] \notin locked, ClosedAt(original, p, ctx),
           NEW alternative, Alternative(At(q, p), alternative, ctx), ~Reserved_By(At(q, p), ctx),
           NEW result, result = Accepted(q, original, p, alternative, ctx), result # None
    PROVE  FairPlan(original, result, ctx)
<1>1. PICK changed :
        changed = [q EXCEPT !.days[p[1]].activities[p[2]] = Moved(@, alternative)]
  OBVIOUS
<1>2. p[1] \in DOMAIN q.days /\ p[2] \in DOMAIN q.days[p[1]].activities
  BY PlaceOf DEF Shaped
<1>3. PICK a : a = At(q, p) OBVIOUS
<1>4. Timely(a, alternative.from, alternative.to) BY <1>3 DEF Alternative, Lasting, Timely
<1>5. Kept(changed, original, locked) /\ Shaped(changed, original)
  BY <1>1, <1>3, <1>4, VisitMoved
<1>6. ASSUME NEW x \in Places(original) PROVE Fair(original, x, At(changed, x), ctx)
  <2>1. x[1] \in DOMAIN q.days /\ x[2] \in DOMAIN q.days[x[1]].activities
    BY PlaceOf DEF Shaped
  <2>2. PICK b : b = At(q, x) /\ Fair(original, x, b, ctx) BY DEF FairPlan
  <2>3. PICK day, as : /\ day = q.days[p[1]]
                       /\ as = [day.activities EXCEPT ![p[2]] = Moved(a, alternative)]
    OBVIOUS
  <2>4. SoundDay(day) /\ "days" \in DOMAIN q
    BY <1>2, <2>3 DEF Kept, SoundPlan, PlanFields
  <2>5. changed.days = [q.days EXCEPT ![p[1]] = [day EXCEPT !.activities = as]]
    BY <1>1, <1>3, <2>3, <2>4 DEF At
  <2>6. "activities" \in DOMAIN day BY <2>4 DEF SoundDay
  <2>7. CASE x[1] # p[1]
    <3>1. changed.days[x[1]] = q.days[x[1]] BY <2>1, <2>5, <2>7
    <3> QED BY <2>2, <3>1 DEF At
  <2>8. CASE x[1] = p[1] /\ x[2] # p[2]
    <3>1. changed.days[x[1]].activities = as BY <1>2, <2>5, <2>6, <2>8
    <3>2. as[x[2]] = day.activities[x[2]] BY <2>1, <2>3, <2>8
    <3> QED BY <2>2, <2>3, <2>8, <3>1, <3>2 DEF At
  <2>9. CASE x[1] = p[1] /\ x[2] = p[2]
    <3>1. x = p BY <2>9, FinitePlaces
    <3>2. changed.days[x[1]].activities = as BY <1>2, <2>5, <2>6, <2>9
    <3>3. At(changed, x) = Moved(a, alternative) BY <1>2, <2>3, <2>9, <3>2 DEF At
    <3>4. ActivityFields \subseteq DOMAIN a
      BY <1>2, <1>3, <2>3, <2>4 DEF SoundDay, Sound, At
    <3>5. Fair(original, x, Moved(a, alternative), ctx)
      BY <1>3, <2>2, <3>1, <3>4, FairMoved DEF Alternative
    <3> QED BY <3>3, <3>5
  <2> QED BY <2>7, <2>8, <2>9
<1>7. FairPlan(original, changed, ctx) BY <1>6 DEF FairPlan
<1>8. PICK room : room = _backfill_prefix(changed, original, p, ctx) OBVIOUS
<1>9. result = changed \/ (result = room /\ room # None)
  BY <1>1, <1>8 DEF Accepted
<1> QED BY <1>5, <1>7, <1>8, <1>9, BackfillFair

AllFair(ps, original, locked, ctx) ==
    /\ AllKept(ps, original, locked)
    /\ \A k \in DOMAIN ps : FairPlan(original, ps[k], ctx)

LEMMA ExpandedFair ==
    ASSUME None \notin Int, NEW ps, NEW original, NEW locked, NEW ctx,
           AllFair(ps, original, locked, ctx), SoundPlan(original),
           NEW p \in Places(original), p[1] \notin locked, ClosedAt(original, p, ctx),
           \A n \in DOMAIN ctx.hours : Listing(ctx.hours[n]),
           ctx.restaurants \in Seq(ToSet(ctx.restaurants))
    PROVE  AllFair(Expanded(ps, original, p, ctx), original, locked, ctx)
<1>1. PICK found : found = Expanded(ps, original, p, ctx) OBVIOUS
<1>2. AllKept(ps, original, locked) /\ AllKept(found, original, locked)
  BY <1>1, ExpandedKept DEF AllFair
<1>3. \A k \in DOMAIN found : Chosen(found[k], ps, original, p, ctx)
  BY <1>1, <1>2, ExpandedFrom DEF AllKept
<1>4. ASSUME NEW k \in DOMAIN found PROVE FairPlan(original, found[k], ctx)
  <2>1. PICK m \in DOMAIN ps : \E j \in DOMAIN OptionsFor(ps[m], p, ctx) :
            found[k] = Accepted(ps[m], original, p, OptionsFor(ps[m], p, ctx)[j], ctx)
    BY <1>3 DEF Chosen
  <2>2. PICK q : q = ps[m] /\ Kept(q, original, locked) /\ Shaped(q, original)
                 /\ FairPlan(original, q, ctx)
    BY <1>2 DEF AllKept, AllFair
  <2>3. PICK a : a = At(q, p) OBVIOUS
  <2>4. PICK j \in DOMAIN OptionsFor(q, p, ctx) :
            found[k] = Accepted(q, original, p, OptionsFor(q, p, ctx)[j], ctx)
    BY <2>1, <2>2
  <2>5. PICK alternative : alternative = OptionsFor(q, p, ctx)[j] OBVIOUS
  <2>6. Clocked(a)
    <3>1. p[1] \in DOMAIN q.days /\ p[2] \in DOMAIN q.days[p[1]].activities
      BY <2>2, PlaceOf DEF Shaped
    <3>2. SoundDay(q.days[p[1]]) BY <2>2, <3>1 DEF Kept, SoundPlan
    <3> QED BY <2>3, <3>1, <3>2 DEF SoundDay, Sound, At
  <2>7. Alternative(a, alternative, ctx) /\ ~Reserved_By(a, ctx)
    BY <2>3, <2>4, <2>5, <2>6, OptionsAre DEF OptionsFor
  <2>8. PICK result : result = found[k] OBVIOUS
  <2>9. result = Accepted(q, original, p, alternative, ctx) /\ result # None
    BY <1>3, <2>4, <2>5, <2>8 DEF Chosen
  <2>10. FairPlan(original, result, ctx)
    BY <2>2, <2>3, <2>7, <2>9, AcceptedFair
  <2> QED BY <2>8, <2>10
<1> QED BY <1>1, <1>2, <1>4 DEF AllFair

LEMMA CandidatesFair ==
    ASSUME None \notin Int, NEW frame, NEW ctx, SoundPlan(frame),
           \A n \in DOMAIN ctx.hours : Listing(ctx.hours[n]),
           ctx.restaurants \in Seq(ToSet(ctx.restaurants)),
           NEW k \in DOMAIN hours_candidates(frame, ctx)
    PROVE  /\ Kept(hours_candidates(frame, ctx)[k], frame, ctx.locked)
           /\ Shaped(hours_candidates(frame, ctx)[k], frame)
           /\ FairPlan(frame, hours_candidates(frame, ctx)[k], ctx)
<1> DEFINE targets == Targets(frame, ctx)
           after(ps, n) == IF n \in DOMAIN targets
                           THEN Expanded(ps, frame, targets[n], ctx) ELSE ps
           Fine(ps) == AllFair(ps, frame, ctx.locked, ctx)
<1>1. hours_candidates(frame, ctx) # <<>>
  <2>1. DOMAIN <<>> = {} OBVIOUS
  <2> QED BY <2>1
<1>2. /\ \A n \in DOMAIN targets : targets[n][1] \notin ctx.locked
      /\ hours_candidates(frame, ctx) = after(after(after(<<frame>>, 1), 2), 3)
  BY <1>1 DEF hours_candidates
<1>3. ASSUME NEW ps, NEW n, Fine(ps) PROVE Fine(after(ps, n))
  <2>1. CASE n \in DOMAIN targets
    <3>1. PICK p \in Places(frame) : p = targets[n] /\ ClosedAt(frame, p, ctx)
      BY <2>1, TargetsAre
    <3>2. p[1] \notin ctx.locked BY <1>2, <2>1, <3>1
    <3>3. Fine(Expanded(ps, frame, p, ctx)) BY <1>3, <3>1, <3>2, ExpandedFair
    <3> QED BY <2>1, <3>1, <3>3
  <2>2. CASE n \notin DOMAIN targets BY <1>3, <2>2
  <2> QED BY <2>1, <2>2
<1>4. Fine(<<frame>>)
  <2>1. Len(<<frame>>) = 1 /\ DOMAIN <<frame>> = 1 .. 1 /\ <<frame>>[1] = frame OBVIOUS
  <2>2. Kept(frame, frame, ctx.locked) /\ Shaped(frame, frame) BY DEF Kept, Shaped
  <2>3. FairPlan(frame, frame, ctx) BY DEF FairPlan, Fair, SameName, SameTime
  <2> QED BY <2>1, <2>2, <2>3 DEF AllFair, AllKept
<1> HIDE DEF after, Fine
<1>5. Fine(after(after(after(<<frame>>, 1), 2), 3)) BY <1>3, <1>4
<1> QED BY <1>2, <1>5 DEF AllFair, AllKept, Fine

-----------------------------------------------------------------------------
(* From the proposal to the judged plan.                                    *)

LEMMA CompleteSound ==
    ASSUME NEW p, Complete(p), NEW d \in DOMAIN p.days
    PROVE  SoundDay(p.days[d])
<1>1. PICK day : day = p.days[d] OBVIOUS
<1>2. /\ {"date", "activities"} \subseteq DOMAIN day
      /\ day.date \in Int /\ List(day.activities)
      /\ \A i \in DOMAIN day.activities : CompleteActivity(day.activities[i])
  BY <1>1 DEF Complete
<1>3. \A i \in DOMAIN day.activities : Sound(day.activities[i])
  BY <1>2 DEF CompleteActivity, Sound, Tollable, Clocked
<1> QED BY <1>1, <1>2, <1>3 DEF SoundDay, Counted, List

LEMMA EnforcedKept ==
    ASSUME trip \in Trips, NEW candidate \in trip.proposals
    PROVE  Kept(enforce_revision_scope(candidate, trip.previous, trip.scope), trip.previous, Locked)
<1>1. candidate # None /\ Complete(candidate)
  BY TripsAssumption DEF TripsAssumption
<1>2. trip.scope # None => trip.previous # None /\ Complete(trip.previous)
  BY TripsAssumption DEF TripsAssumption
<1>3. SoundPlan(candidate)
  BY <1>1, CompleteSound DEF Complete, SoundPlan, PlanFields, Counted, List
<1>4. PICK p : p = enforce_revision_scope(candidate, trip.previous, trip.scope) OBVIOUS
<1>5. CASE trip.scope = None
  <2>1. p = candidate /\ Locked = {} BY <1>4, <1>5 DEF enforce_revision_scope, Locked
  <2> QED BY <1>3, <1>4, <2>1 DEF Kept
<1>6. CASE trip.scope # None
  <2>1. PICK restored : restored = (UNION {Frame[name] : name \in DOMAIN Frame})
                                     \ trip.scope.editable_frame
    OBVIOUS
  <2>2. PICK framed : framed = [f \in DOMAIN candidate |->
                         IF f \in restored THEN trip.previous[f] ELSE candidate[f]]
    OBVIOUS
  <2>3. "days" \notin restored BY <2>1 DEF Frame
  <2>4. PlanFields \subseteq DOMAIN candidate BY <1>1 DEF Complete, PlanFields
  <2>5. DOMAIN framed = DOMAIN candidate /\ framed.days = candidate.days
    BY <2>2, <2>3, <2>4 DEF PlanFields
  <2>6. p = IF trip.scope.locked_days = {} THEN framed
            ELSE [framed EXCEPT !.days = Merged(candidate, trip.previous, trip.scope.locked_days)]
    BY <1>1, <1>2, <1>4, <1>6, <2>1, <2>2 DEF enforce_revision_scope
  <2>7. Locked = trip.scope.locked_days BY <1>6 DEF Locked
  <2>8. CASE trip.scope.locked_days = {}
    <3>1. p = framed BY <2>6, <2>8
    <3>2. SoundPlan(p) BY <1>3, <2>5, <3>1 DEF SoundPlan
    <3> QED BY <1>4, <2>7, <2>8, <3>2 DEF Kept
  <2>9. CASE trip.scope.locked_days # {}
    <3>1. PICK merged : merged = Merged(candidate, trip.previous, trip.scope.locked_days)
      OBVIOUS
    <3>2. p = [framed EXCEPT !.days = merged] BY <2>6, <2>9, <3>1
    <3>3. DOMAIN p = DOMAIN candidate /\ p.days = merged BY <2>4, <2>5, <3>2
    <3>4. /\ DOMAIN merged = DOMAIN trip.previous.days
          /\ \A d \in DOMAIN merged :
                merged[d] = IF d \in Locked \/ d > Len(candidate.days)
                            THEN trip.previous.days[d] ELSE candidate.days[d]
      BY <2>7, <3>1 DEF Merged
    <3>5. ASSUME NEW d \in DOMAIN merged PROVE SoundDay(merged[d])
      <4>1. CASE d \in Locked \/ d > Len(candidate.days)
        BY <1>2, <1>6, <3>4, <4>1, CompleteSound
      <4>2. CASE ~(d \in Locked \/ d > Len(candidate.days))
        <5>1. d \in DOMAIN candidate.days BY <1>1, <1>2, <1>6, <3>4, <4>2 DEF Complete, List
        <5> QED BY <1>1, <3>4, <4>2, <5>1, CompleteSound
      <4> QED BY <4>1, <4>2
    <3>6. Counted(p.days)
      <4>1. DOMAIN p.days = DOMAIN trip.previous.days BY <3>3, <3>4
      <4> QED BY <1>2, <1>6, <4>1 DEF Complete, List, Counted
    <3>7. SoundPlan(p) BY <2>4, <3>3, <3>5, <3>6 DEF SoundPlan
    <3> QED BY <1>4, <3>3, <3>4, <3>7 DEF Kept
  <2> QED BY <2>8, <2>9
<1> QED BY <1>5, <1>6

LEMMA PrunedKept ==
    ASSUME NEW p, NEW original, NEW locked, Kept(p, original, locked), NEW removals
    PROVE  Kept(prune_removed_recommendations(p, removals, locked), original, locked)
<1> DEFINE names(d) == {r.venue : r \in {x \in removals : x.day \in {None, d}}}
           visit(d, a) == [a EXCEPT !.highlights = @ \ names(d)]
           pruned(d, day) == [day EXCEPT !.activities = [i \in DOMAIN @ |-> visit(d, @[i])]]
<1>1. PICK days : days = [d \in DOMAIN p.days |->
                            IF d \in locked THEN p.days[d] ELSE pruned(d, p.days[d])]
  OBVIOUS
<1>2. prune_removed_recommendations(p, removals, locked) = [p EXCEPT !.days = days]
  BY <1>1 DEF prune_removed_recommendations
<1>3. PICK q : q = [p EXCEPT !.days = days] OBVIOUS
<1>4. PlanFields \subseteq DOMAIN p
      /\ \A d \in DOMAIN p.days : SoundDay(p.days[d])
  BY DEF Kept, SoundPlan
<1>5. DOMAIN q = DOMAIN p /\ q.days = days BY <1>3, <1>4
<1>6. ASSUME NEW d, NEW a, Sound(a) PROVE Sound(visit(d, a))
  BY <1>6 DEF Sound, Tollable, Clocked, ActivityFields, _is_transport, transport_mode
<1> HIDE DEF visit
<1>7. ASSUME NEW d \in DOMAIN p.days PROVE SoundDay(pruned(d, p.days[d]))
  <2>1. PICK before : before = p.days[d].activities OBVIOUS
  <2>2. PICK as : as = [i \in DOMAIN before |-> visit(d, before[i])] OBVIOUS
  <2>3. \A i \in DOMAIN as : Sound(as[i]) BY <1>4, <1>6, <2>1, <2>2 DEF SoundDay
  <2>4. pruned(d, p.days[d]) = [p.days[d] EXCEPT !.activities = as] BY <2>1, <2>2
  <2>5. DOMAIN as = DOMAIN before BY <2>2
  <2>6. PICK day : day = p.days[d] OBVIOUS
  <2>7. SoundDay(day) /\ before = day.activities /\ pruned(d, day) = [day EXCEPT !.activities = as]
    BY <1>4, <2>1, <2>4, <2>6
  <2>8. SoundDay([day EXCEPT !.activities = as]) BY <2>3, <2>5, <2>7 DEF SoundDay, Counted
  <2> QED BY <2>6, <2>7, <2>8
<1> HIDE DEF pruned
<1>8. \A d \in DOMAIN days : SoundDay(days[d]) BY <1>1, <1>4, <1>7
<1>9. SoundPlan(q)
  <2>1. Counted(days) BY <1>1 DEF Kept, SoundPlan, Counted
  <2> QED BY <1>4, <1>5, <1>8, <2>1 DEF SoundPlan
<1>10. \A d \in locked \cap DOMAIN original.days :
          d \in DOMAIN q.days /\ q.days[d] = original.days[d]
  BY <1>1, <1>5 DEF Kept
<1> QED BY <1>2, <1>3, <1>9, <1>10 DEF Kept

LEMMA CostedKept ==
    ASSUME NEW p, NEW original, Kept(p, original, Locked), NEW found
    PROVE  LET paid == costed(p, found)
           IN  Kept(paid, original, Locked) /\ costed(paid, found) = paid
<1>1. PICK paid : paid = costed(p, found) OBVIOUS
<1>2. SoundPlan(p) BY DEF Kept
<1>3. paid = apply_observed_costs(p, trip.prices, found, Locked) BY <1>1 DEF costed
<1>4. /\ SoundPlan(paid) /\ DOMAIN paid.days = DOMAIN p.days
      /\ \A d \in DOMAIN p.days \cap Locked : paid.days[d] = p.days[d]
      /\ apply_observed_costs(paid, trip.prices, found, Locked) = paid
  BY <1>2, <1>3, PlanSettled
<1>5. Kept(paid, original, Locked) BY <1>4 DEF Kept
<1> QED BY <1>1, <1>4, <1>5 DEF costed

(* A plan on its way out of a validation.                                   *)
Settled(m) == /\ Kept(m.plan, trip.previous, Locked)
              /\ costed(m.plan, m.routes) = m.plan

LEMMA MeasuredSettled ==
    ASSUME NEW p, Kept(p, trip.previous, Locked), NEW r, NEW m \in Measured(p, r)
    PROVE  Settled(m)
<1>1. \E found : m.plan = costed(p, found) /\ m.routes = found BY DEF Measured
<1> QED BY <1>1, CostedKept DEF Settled

LEMMA ContextIs ==
    ASSUME trip \in Trips
    PROVE  /\ Context.locked = Locked /\ Context.hours = trip.hours
           /\ Context.restaurants = trip.words.restaurants
BY TripsAssumption DEF TripsAssumption, Context

(* An alternative of a plan keeps what the plan kept.                       *)
LEMMA TrialKept ==
    ASSUME trip \in Trips, NEW judged, Settled(judged), NEW found \in Trials(judged)
    PROVE  Kept(found, trip.previous, Locked)
<1>1. PICK k \in DOMAIN hours_candidates(judged.plan, Context) :
             found = hours_candidates(judged.plan, Context)[k]
  BY DEF Trials
<1>2. Kept(found, judged.plan, Context.locked)
  <2>1. SoundPlan(judged.plan) BY DEF Settled, Kept
  <2>2. \A n \in DOMAIN Context.hours : Listing(Context.hours[n])
    BY ContextIs, TripsAssumption DEF TripsAssumption
  <2>3. Context.restaurants \in Seq(ToSet(Context.restaurants))
    BY ContextIs, TripsAssumption DEF TripsAssumption
  <2> QED BY <1>1, <2>1, <2>2, <2>3, TripsAssumption, CandidatesFair DEF TripsAssumption
<1>3. Context.locked = Locked BY ContextIs
<1> QED BY <1>2, <1>3 DEF Settled, Kept

LEMMA FallbackSettled ==
    ASSUME trip \in Trips, NEW judged, Settled(judged), NEW end \in Fallback(judged)
    PROVE  Settled(end.result)
<1>1. \/ end.result = judged
      \/ \E found \in Trials(judged) :
            \E trial \in Measured(costed(found, <<>>), check(costed(found, <<>>))) :
               end.result = trial
  BY DEF Fallback
<1>2. CASE end.result = judged BY <1>2
<1>3. ASSUME NEW found \in Trials(judged),
             end.result \in Measured(costed(found, <<>>), check(costed(found, <<>>)))
      PROVE  Settled(end.result)
  <2>1. Kept(found, trip.previous, Locked) BY <1>3, TrialKept
  <2> QED BY <1>3, <2>1, CostedKept, MeasuredSettled
<1> QED BY <1>1, <1>2, <1>3

(* Whatever was proposed and judged, locked days are the old ones and the   *)
(* costs are settled.                                                       *)
ReviewInv ==
    /\ trip \in Trips
    /\ stage # "propose" => Kept(itinerary, trip.previous, Locked)
    /\ CostsSettled

LEMMA ReviewStep == ReviewInv /\ [ReviewNext]_reviewVars => ReviewInv'
<1> SUFFICES ASSUME ReviewInv, [ReviewNext]_reviewVars PROVE ReviewInv'
  OBVIOUS
<1>1. CASE Propose
  <2>1. trip' = trip /\ stage' = "validate" /\ Locked' = Locked
    BY <1>1 DEF Propose, Locked
  <2>2. PICK candidate \in trip.proposals :
           itinerary' = enforce_revision_scope(candidate, trip.previous, trip.scope)
    BY <1>1 DEF Propose
  <2>3. Kept(itinerary', trip.previous, Locked) BY <2>2, EnforcedKept DEF ReviewInv
  <2> QED BY <2>1, <2>3 DEF ReviewInv, CostsSettled
<1>2. CASE Validate
  <2>1. trip' = trip /\ stage' = "judged" /\ Locked' = Locked
    BY <1>2 DEF Validate, Locked
  <2>2. PICK pruned, first :
          /\ pruned = prune_removed_recommendations(itinerary, trip.removals, Locked)
          /\ first = costed(pruned, <<>>)
    OBVIOUS
  <2>3. Kept(itinerary, trip.previous, Locked) BY <1>2 DEF Validate, ReviewInv
  <2>4. Kept(first, trip.previous, Locked) BY <2>2, <2>3, PrunedKept, CostedKept
  <2>5. \E judged \in Measured(first, check(first)) :
           \E end \in Fallback(judged) \cup {[result |-> judged, swapped |-> FALSE]} :
              itinerary' = end.result.plan /\ routes' = end.result.routes
    BY <1>2, <2>2 DEF Validate
  <2>6. PICK judged \in Measured(first, check(first)) :
           \E end \in Fallback(judged) \cup {[result |-> judged, swapped |-> FALSE]} :
              itinerary' = end.result.plan /\ routes' = end.result.routes
    BY <2>5
  <2>7. Settled(judged) BY <2>4, MeasuredSettled
  <2>8. PICK end \in Fallback(judged) \cup {[result |-> judged, swapped |-> FALSE]} :
           itinerary' = end.result.plan /\ routes' = end.result.routes
    BY <2>6
  <2>9. trip \in Trips BY DEF ReviewInv
  <2>10. Settled(end.result)
    <3>1. CASE end \in Fallback(judged) BY <2>7, <2>9, <3>1, FallbackSettled
    <3>2. CASE end = [result |-> judged, swapped |-> FALSE] BY <2>7, <3>2
    <3> QED BY <3>1, <3>2
  <2>11. Kept(itinerary', trip.previous, Locked) /\ costed(itinerary', routes') = itinerary'
    BY <2>8, <2>10 DEF Settled
  <2> QED BY <2>1, <2>9, <2>11 DEF ReviewInv, CostsSettled, costed
<1>3. CASE UNCHANGED reviewVars
  BY <1>3 DEF reviewVars, ReviewInv, CostsSettled, costed, Locked
<1> QED BY <1>1, <1>2, <1>3 DEF ReviewNext

(* Pricing a judged plan again, with the routes measured for it, changes    *)
(* nothing: meals are set to what was observed and tolls are added to a     *)
(* cost kept aside, so that turns of the model never pile them up           *)
(* (apply_observed_costs).                                                  *)
THEOREM SettledSafe == ReviewSpec => []CostsSettled
<1>1. ReviewInit => ReviewInv BY DEF ReviewInit, ReviewInv, CostsSettled
<1>2. ReviewInv => CostsSettled BY DEF ReviewInv
<1> QED BY <1>1, <1>2, ReviewStep, PTL DEF ReviewSpec

(* A locked day of a judged plan is the one of the plan it revises, to the  *)
(* final cost and recommendation, after any number of proposals, prunings,   *)
(* pricings and swaps (the node validate and the locked days it passes on). *)
THEOREM LockedSafe == ReviewSpec => []LockedDaysExact
<1>1. ReviewInit => ReviewInv BY DEF ReviewInit, ReviewInv, CostsSettled
<1>2. ReviewInv => LockedDaysExact
  <2> SUFFICES ASSUME ReviewInv, stage = "judged", NEW d \in Locked
               PROVE  d \in Days(itinerary) /\ itinerary.days[d] = trip.previous.days[d]
    BY DEF LockedDaysExact
  <2>1. d \in DOMAIN trip.previous.days
    BY TripsAssumption DEF TripsAssumption, ReviewInv, Locked
  <2> QED BY <2>1 DEF ReviewInv, Kept, Days
<1> QED BY <1>1, <1>2, ReviewStep, PTL DEF ReviewSpec

-----------------------------------------------------------------------------
(* What a report can say.                                                   *)

HopCodes == {"insufficient_transfer", "transfer_unverified"}
DayCodes == {"empty_day", "vague_venue", "unsociable_hours", "time_conflict", "overlong_day",
             "insufficient_transfer"}
TimingCodes == {"temporal_unverified", "constraint_mismatch", "arrival_conflict",
                "journey_conflict", "hotel_window_conflict", "time_conflict",
                "journey_time_estimated"}
PlanCodes == {"constraint_mismatch", "disallowed_transport", "over_budget", "day_out_of_range",
              "duplicate_day", "missing_accommodation", "understated_cost"}

LEMMA ViolationIs ==
    \A code, date : Violation(code, date).code = code /\ Violation(code, date).day = date
BY DEF Violation

LEMMA HopIs ==
    ASSUME NEW code, NEW day, NEW a, NEW b
    PROVE  /\ Hop(code, day, a, b).code = code /\ Hop(code, day, a, b).day = day.date
           /\ Hop(code, day, a, b).origin = a.location
           /\ Hop(code, day, a, b).destination = b.location
           /\ Hop(code, day, a, b).gap = Gap(a, b)
           /\ Hop(code, day, a, b).instant = a.end_at
           /\ Hop(code, day, a, b).deadline = b.start_at
           /\ Hop(code, day, a, b).mode = None
           /\ DOMAIN Hop(code, day, a, b) = {"code", "day", "origin", "destination", "gap",
                                             "depart", "mode", "instant", "deadline", "needed"}
BY DEF Hop, Violation

LEMMA TimingCoded ==
    ASSUME NEW draft, NEW c, NEW issue \in check_timing(draft, c)
    PROVE  issue.code \in TimingCodes
<1>1. \A code, p : Issue(code, p).code = code BY DEF Issue
<1>2. ASSUME NEW p, NEW i \in ActivityIssues(draft, c, p) PROVE i.code \in TimingCodes
  <2>1. \E codes : \E unowned, issues :
          /\ ActivityIssues(draft, c, p) = {Issue(code, p) : code \in unowned \cup codes}
          /\ unowned \subseteq {"temporal_unverified"}
          /\ \/ codes \subseteq {"temporal_unverified"}
             \/ codes = {"constraint_mismatch"}
             \/ codes = {x[1] : x \in {j \in issues : j[2]}}
          /\ \A x \in issues : x[1] \in TimingCodes
    <3>1. PICK issues : issues =
          LET a == At(draft, p)
              leg == {j \in Journeys(c) : j.id = a.journey}
              stay == {s \in Stays(c) : s.id = a.stay}
              timed == Timed(draft, c)
              earlier(ps) == \E q \in ps : Ordered(q, p)
          IN
          { <<"temporal_unverified", timed /\ a.stay = None /\ a.category = "accommodation">>,
            <<"constraint_mismatch", DateOf(a.start_at) # draft.days[p[1]].date>>,
            <<"constraint_mismatch", a.journey # None /\ leg = {}>>,
            <<"constraint_mismatch", a.stay # None /\ stay = {}>>,
            <<"arrival_conflict", TooEarly(a, Arrival(c))>>,
            <<"journey_conflict", \E j \in leg : Altered(a, j) \/ earlier(Legs(draft, j))>>,
            <<"hotel_window_conflict",
              \E s \in stay : \/ OutsideStay(a, s)
                              \/ a.action # "stay" /\ earlier(Actions(draft, s, a.action))>> }
      OBVIOUS
    <3>2. PICK unowned : unowned = IF At(draft, p).mode \in LongDistance /\ At(draft, p).journey = None
                                   THEN {"temporal_unverified"} ELSE {}
      OBVIOUS
    <3>3. PICK codes : codes = CASE Untimed(At(draft, p))
                                      -> IF Timed(draft, c) THEN {"temporal_unverified"} ELSE {}
              [] ~Untimed(At(draft, p)) /\ Mislabelled(At(draft, p)) -> {"constraint_mismatch"}
              [] OTHER -> {i_[1] : i_ \in {j \in issues : j[2]}}
      OBVIOUS
    <3>4. ActivityIssues(draft, c, p) = {Issue(code, p) : code \in unowned \cup codes}
      BY <3>1, <3>2, <3>3 DEF ActivityIssues
    <3>5. \A x \in issues : x[1] \in TimingCodes
      <4> SUFFICES ASSUME NEW x \in issues PROVE x[1] \in TimingCodes
        OBVIOUS
      <4> DEFINE a == At(draft, p)
                 leg == {j \in Journeys(c) : j.id = a.journey}
                 stay == {s \in Stays(c) : s.id = a.stay}
                 b1 == Timed(draft, c) /\ a.stay = None /\ a.category = "accommodation"
                 b2 == DateOf(a.start_at) # draft.days[p[1]].date
                 b3 == a.journey # None /\ leg = {}
                 b4 == a.stay # None /\ stay = {}
                 b5 == TooEarly(a, Arrival(c))
                 b6 == \E j \in leg : Altered(a, j) \/ \E q \in Legs(draft, j) : Ordered(q, p)
                 b7 == \E s \in stay : \/ OutsideStay(a, s)
                                       \/ /\ a.action # "stay"
                                          /\ \E q \in Actions(draft, s, a.action) : Ordered(q, p)
      <4>1. issues = {<<"temporal_unverified", b1>>, <<"constraint_mismatch", b2>>,
                      <<"constraint_mismatch", b3>>, <<"constraint_mismatch", b4>>,
                      <<"arrival_conflict", b5>>, <<"journey_conflict", b6>>,
                      <<"hotel_window_conflict", b7>>}
        BY <3>1
      <4> HIDE DEF b1, b2, b3, b4, b5, b6, b7
      <4>2. \/ x = <<"temporal_unverified", b1>> \/ x = <<"constraint_mismatch", b2>>
            \/ x = <<"constraint_mismatch", b3>> \/ x = <<"constraint_mismatch", b4>>
            \/ x = <<"arrival_conflict", b5>> \/ x = <<"journey_conflict", b6>>
            \/ x = <<"hotel_window_conflict", b7>>
        BY <4>1
      <4> QED BY <4>2 DEF TimingCodes
    <3>6. \/ codes \subseteq {"temporal_unverified"}
          \/ codes = {"constraint_mismatch"}
          \/ codes = {x[1] : x \in {j \in issues : j[2]}}
      BY <3>3
    <3>7. unowned \subseteq {"temporal_unverified"} BY <3>2
    <3> QED BY <3>4, <3>5, <3>6, <3>7
  <2>2. PICK codes, unowned, issues :
          /\ ActivityIssues(draft, c, p) = {Issue(code, p) : code \in unowned \cup codes}
          /\ unowned \subseteq {"temporal_unverified"}
          /\ \/ codes \subseteq {"temporal_unverified"}
             \/ codes = {"constraint_mismatch"}
             \/ codes = {x[1] : x \in {j \in issues : j[2]}}
          /\ \A x \in issues : x[1] \in TimingCodes
    BY <2>1
  <2>3. codes \subseteq TimingCodes /\ unowned \subseteq TimingCodes BY <2>2 DEF TimingCodes
  <2> QED BY <1>1, <1>2, <2>2, <2>3
<1>3. \A i \in JourneyIssues(draft, c) : i.code \in TimingCodes
  BY <1>1 DEF JourneyIssues, When, TimingCodes
<1>4. \A i \in StayIssues(draft, c) : i.code \in TimingCodes
  BY <1>1 DEF StayIssues, When, TimingCodes
<1>5. \A i \in ConnectionIssues(c) : i.code \in TimingCodes
  BY <1>1 DEF ConnectionIssues, When, TimingCodes
<1>6. \A pair \in Overlaps(draft) : Issue("time_conflict", pair[2]).code \in TimingCodes
  BY <1>1 DEF TimingCodes
<1>7. PICK A, O, J, S, C :
        /\ A = UNION {ActivityIssues(draft, c, p) : p \in Places(draft)}
        /\ O = {Issue("time_conflict", pair[2]) : pair \in Overlaps(draft)}
        /\ J = JourneyIssues(draft, c) /\ S = StayIssues(draft, c) /\ C = ConnectionIssues(c)
  OBVIOUS
<1>8. issue \in A \cup O \cup J \cup S \cup C BY <1>7 DEF check_timing
<1>9. CASE issue \in A BY <1>2, <1>7, <1>9
<1>10. CASE issue \in O BY <1>6, <1>7, <1>10
<1> QED BY <1>3, <1>4, <1>5, <1>7, <1>8, <1>9, <1>10

LEMMA DayCoded ==
    ASSUME NEW day, NEW v \in _check_day(day)
    PROVE  v.code \in DayCodes
<1>1. PICK pairs : pairs = {<<day.activities[p[1]], day.activities[p[2]]>> :
                              p \in Neighbours(DOMAIN day.activities, Keys(day))}
  OBVIOUS
<1>2. PICK V, U, T, I, L :
        /\ V = {Violation("vague_venue", day.date) :
                   a \in {b \in {day.activities[i] : i \in DOMAIN day.activities} : b.hedge}}
        /\ U = {Violation("unsociable_hours", day.date) :
                   a \in {b \in {day.activities[i] : i \in DOMAIN day.activities} : Unsociable(b)}}
        /\ T = {Violation("time_conflict", day.date) :
                   p \in {q \in pairs : Overlapping(q[1], q[2])}}
        /\ I = {Hop("insufficient_transfer", day, p[1], p[2]) :
                   p \in {q \in pairs : TooTight(q[1], q[2])}}
        /\ L = IF Overlong(day) THEN {Violation("overlong_day", day.date)} ELSE {}
  OBVIOUS
<1>3. \/ v = Violation("empty_day", day.date)
      \/ v \in V \/ v \in U \/ v \in T \/ v \in I \/ v \in L
  BY <1>1, <1>2 DEF _check_day
<1>4. /\ v \in V => v.code = "vague_venue"
      /\ v \in U => v.code = "unsociable_hours"
      /\ v \in T => v.code = "time_conflict"
  <2>1. v \in V => v.code = "vague_venue" BY <1>2, ViolationIs
  <2>2. v \in U => v.code = "unsociable_hours" BY <1>2, ViolationIs
  <2>3. v \in T => v.code = "time_conflict" BY <1>2, ViolationIs
  <2> QED BY <2>1, <2>2, <2>3
<1>5. v \in I => v.code = "insufficient_transfer" BY <1>2, HopIs
<1>6. v \in L => v.code = "overlong_day" BY <1>2, ViolationIs
<1> QED BY <1>3, <1>4, <1>5, <1>6, ViolationIs DEF DayCodes

(* What is found, by where it is found.                                     *)
TimingOf(draft) == IF trip.constraints # None THEN trip.constraints ELSE draft.timing
TimingFound(draft) ==
    {Violation(i.code, IF i.at = None THEN None ELSE draft.days[i.at[1]].date) :
       i \in check_timing(draft, TimingOf(draft))}
DaysFound(draft) == UNION {_check_day(draft.days[d]) : d \in Days(draft)}
ShutFound(draft) ==
    {Violation("outside_opening_hours", draft.days[p[1]].date) : p \in
       {q \in Places(draft) : Shut(draft.days[q[1]], At(draft, q), trip.hours)}}
CostFound(draft) ==
    {Violation("understated_cost", draft.days[p[1]].date) : p \in
       {q \in Places(draft) : Understated(draft, At(draft, q), trip.prices)}}
RequestFound(draft) ==
    IF trip.constraints = None THEN {} ELSE _check_request_constraints(draft, trip.constraints)

LEMMA CheckIs ==
    ASSUME NEW draft
    PROVE  \E rest : /\ \A v \in rest : v.code \in PlanCodes
                     /\ check(draft) = rest \cup TimingFound(draft) \cup DaysFound(draft)
                                           \cup ShutFound(draft)
<1>1. PICK ceiling :
        ceiling = IF Given(trip.constraints, "budget") THEN trip.constraints.budget ELSE draft.budget
  OBVIOUS
<1>2. check(draft) =
        RequestFound(draft) \cup _check_budget(draft, ceiling) \cup _check_days(draft)
        \cup _check_accommodation(draft, trip.constraints) \cup TimingFound(draft)
        \cup _check_edits(draft, trip.meals, trip.removals) \cup DaysFound(draft)
        \cup ShutFound(draft) \cup CostFound(draft)
  <2>1. check(draft) = validate_itinerary(draft, trip.hours, trip.prices, trip.constraints,
                                         trip.meals, trip.removals)
    BY DEF check
  <2> DEFINE dated(p) == IF p = None THEN None ELSE draft.days[p[1]].date
  <2>2. check(draft) =
          RequestFound(draft) \cup _check_budget(draft, ceiling) \cup _check_days(draft)
          \cup _check_accommodation(draft, trip.constraints)
          \cup {Violation(i.code, dated(i.at)) : i \in check_timing(draft, TimingOf(draft))}
          \cup _check_edits(draft, trip.meals, trip.removals) \cup DaysFound(draft)
          \cup ShutFound(draft) \cup CostFound(draft)
    BY <1>1, <2>1 DEF validate_itinerary, RequestFound, TimingOf, DaysFound, ShutFound, CostFound
  <2>3. {Violation(i.code, dated(i.at)) : i \in check_timing(draft, TimingOf(draft))}
          = TimingFound(draft)
    BY DEF TimingFound
  <2> QED BY <2>2, <2>3
<1>3. PICK rest :
        rest = RequestFound(draft) \cup _check_budget(draft, ceiling) \cup _check_days(draft)
               \cup _check_accommodation(draft, trip.constraints)
               \cup _check_edits(draft, trip.meals, trip.removals) \cup CostFound(draft)
  OBVIOUS
<1>4. check(draft) = rest \cup TimingFound(draft) \cup DaysFound(draft) \cup ShutFound(draft)
  BY <1>2, <1>3
<1>5. \A v \in rest : v.code \in PlanCodes
  <2>1. \A w \in RequestFound(draft) : w.code \in PlanCodes
    BY ViolationIs DEF RequestFound, _check_request_constraints, PlanCodes
  <2>2. \A w \in _check_budget(draft, ceiling) : w.code \in PlanCodes
    BY ViolationIs DEF _check_budget, PlanCodes
  <2>3. \A w \in _check_days(draft) : w.code \in PlanCodes
    BY ViolationIs DEF _check_days, PlanCodes
  <2>4. \A w \in _check_accommodation(draft, trip.constraints) : w.code \in PlanCodes
    BY ViolationIs DEF _check_accommodation, PlanCodes
  <2>5. \A w \in _check_edits(draft, trip.meals, trip.removals) : w.code \in PlanCodes
    BY ViolationIs DEF _check_edits, PlanCodes
  <2>6. \A w \in CostFound(draft) : w.code \in PlanCodes
    BY ViolationIs DEF CostFound, PlanCodes
  <2> QED BY <1>3, <2>1, <2>2, <2>3, <2>4, <2>5, <2>6
<1> QED BY <1>4, <1>5

(* Each kind by the one place that can find it.                             *)
LEMMA FoundIs ==
    ASSUME NEW draft, NEW v
    PROVE  /\ v.code = "outside_opening_hours" => (v \in check(draft) <=> v \in ShutFound(draft))
           /\ v.code \in HopCodes => (v \in check(draft) <=> v \in DaysFound(draft))
           /\ TimingFound(draft) \subseteq check(draft)
<1>1. PICK rest : /\ \A w \in rest : w.code \in PlanCodes
                  /\ check(draft) = rest \cup TimingFound(draft) \cup DaysFound(draft)
                                        \cup ShutFound(draft)
  BY CheckIs
<1>2. \A w \in TimingFound(draft) : w.code \in TimingCodes
  BY TimingCoded, ViolationIs DEF TimingFound
<1>3. \A w \in DaysFound(draft) : w.code \in DayCodes BY DayCoded DEF DaysFound
<1>4. \A w \in ShutFound(draft) : w.code = "outside_opening_hours" BY ViolationIs DEF ShutFound
<1>5. TimingFound(draft) \subseteq check(draft) BY <1>1
<1>6. v.code = "outside_opening_hours" => v.code \notin PlanCodes \cup TimingCodes \cup DayCodes
  BY DEF PlanCodes, TimingCodes, DayCodes
<1>7. v.code \in HopCodes => v.code \notin PlanCodes \cup TimingCodes \cup {"outside_opening_hours"}
  BY DEF PlanCodes, TimingCodes, HopCodes
<1> QED BY <1>1, <1>2, <1>3, <1>4, <1>5, <1>6, <1>7

-----------------------------------------------------------------------------
(* What of a check is in the report that the confirmation leaves.           *)

ViolationFields == {"code", "day", "origin", "destination", "gap", "depart", "mode", "instant",
                    "deadline", "needed"}

(* The pair of a day's activities that a finding calls too tight.           *)
LEMMA TightIs ==
    ASSUME NEW draft, NEW v
    PROVE  v \in DaysFound(draft) /\ v.code \in HopCodes <=>
             \E d \in Days(draft) :
                \E p \in Neighbours(DOMAIN draft.days[d].activities, Keys(draft.days[d])) :
                   LET a == draft.days[d].activities[p[1]]
                       b == draft.days[d].activities[p[2]]
                   IN  TooTight(a, b) /\ v = Hop("insufficient_transfer", draft.days[d], a, b)
<1>1. ASSUME NEW d \in Days(draft)
      PROVE  v \in _check_day(draft.days[d]) /\ v.code \in HopCodes <=>
               \E p \in Neighbours(DOMAIN draft.days[d].activities, Keys(draft.days[d])) :
                  LET a == draft.days[d].activities[p[1]]
                      b == draft.days[d].activities[p[2]]
                  IN  TooTight(a, b) /\ v = Hop("insufficient_transfer", draft.days[d], a, b)
  <2>1. PICK day, next, pairs, all :
          /\ day = draft.days[d] /\ next = Neighbours(DOMAIN day.activities, Keys(day))
          /\ pairs = {<<day.activities[p[1]], day.activities[p[2]]>> : p \in next}
          /\ all = {day.activities[i] : i \in DOMAIN day.activities}
    OBVIOUS
  <2>2. PICK V, U, T, I, L :
        /\ V = {Violation("vague_venue", day.date) : a \in {b \in all : b.hedge}}
        /\ U = {Violation("unsociable_hours", day.date) : a \in {b \in all : Unsociable(b)}}
        /\ T = {Violation("time_conflict", day.date) :
                   p \in {q \in pairs : Overlapping(q[1], q[2])}}
        /\ I = {Hop("insufficient_transfer", day, p[1], p[2]) :
                   p \in {q \in pairs : TooTight(q[1], q[2])}}
        /\ L = IF Overlong(day) THEN {Violation("overlong_day", day.date)} ELSE {}
    OBVIOUS
  <2>3. _check_day(day) = IF all = {} THEN {Violation("empty_day", day.date)}
                          ELSE V \cup U \cup T \cup I \cup L
    BY <2>1, <2>2 DEF _check_day
  <2>4. /\ v \in V => v.code = "vague_venue"
        /\ v \in U => v.code = "unsociable_hours"
        /\ v \in T => v.code = "time_conflict"
    <3>1. v \in V => v.code = "vague_venue" BY <2>2, ViolationIs
    <3>2. v \in U => v.code = "unsociable_hours" BY <2>2, ViolationIs
    <3>3. v \in T => v.code = "time_conflict" BY <2>2, ViolationIs
    <3> QED BY <3>1, <3>2, <3>3
  <2>5. v \in I => v.code = "insufficient_transfer" BY <2>2, HopIs
  <2>6. v \in L => v.code = "overlong_day" BY <2>2, ViolationIs
  <2>7. v = Violation("empty_day", day.date) => v.code = "empty_day" BY ViolationIs
  <2>8. I # {} => all # {}
    <3>1. I # {} => next # {} BY <2>1, <2>2
    <3>2. \A p \in next : p[1] \in DOMAIN day.activities BY <2>1 DEF Neighbours
    <3> QED BY <2>1, <3>1, <3>2
  <2>9. v \in _check_day(day) /\ v.code \in HopCodes <=> v \in I
    BY <2>3, <2>4, <2>5, <2>6, <2>7, <2>8 DEF HopCodes
  <2>10. v \in I <=> \E p \in next :
                        /\ TooTight(day.activities[p[1]], day.activities[p[2]])
                        /\ v = Hop("insufficient_transfer", day, day.activities[p[1]],
                                   day.activities[p[2]])
    <3>1. v \in I <=> \E q \in pairs : TooTight(q[1], q[2])
                                       /\ v = Hop("insufficient_transfer", day, q[1], q[2])
      BY <2>2
    <3>2. ASSUME NEW q \in pairs
          PROVE  \E p \in next : q[1] = day.activities[p[1]] /\ q[2] = day.activities[p[2]]
      BY <2>1
    <3>3. ASSUME NEW p \in next
          PROVE  \E q \in pairs : q[1] = day.activities[p[1]] /\ q[2] = day.activities[p[2]]
      <4>1. <<day.activities[p[1]], day.activities[p[2]]>> \in pairs BY <2>1
      <4> QED BY <4>1
    <3> QED BY <3>1, <3>2, <3>3
  <2> QED BY <2>1, <2>9, <2>10
<1> QED BY <1>1 DEF DaysFound

(* A candidate has the shape of a violation, and asks about two places.     *)
LEMMA AddedIs ==
    ASSUME NEW day, NEW known, NEW v \in DayCandidates(day, known)
    PROVE  v.code = "transfer_unverified" /\ DOMAIN v = ViolationFields
<1>1. PICK p, mode : v = [Hop("transfer_unverified", day, day.activities[p[1]],
                              day.activities[p[2]]) EXCEPT !.mode = mode]
  BY DEF DayCandidates
<1>2. PICK h : h = Hop("transfer_unverified", day, day.activities[p[1]], day.activities[p[2]])
  OBVIOUS
<1>3. h.code = "transfer_unverified" /\ DOMAIN h = ViolationFields
  BY <1>2, HopIs DEF ViolationFields
<1> QED BY <1>1, <1>2, <1>3

KnownHops(r) ==
    {<<v.day, v.origin, v.destination>> : v \in {w \in r : w.code = "insufficient_transfer"}}

LEMMA CandidateIs ==
    ASSUME NEW draft, NEW r, NEW v
    PROVE  v \in transfer_candidates(draft, r) <=>
             v \in r \/ \E d \in Days(draft) : v \in DayCandidates(draft.days[d], KnownHops(r))
BY DEF transfer_candidates, KnownHops

LEMMA QuestionIs ==
    ASSUME NEW draft, NEW v \in transfer_candidates(draft, check(draft)), v.code \in HopCodes
    PROVE  DOMAIN v = ViolationFields
<1>1. CASE v \in check(draft)
  <2>1. v \in DaysFound(draft) BY <1>1, FoundIs
  <2>2. \E day, a, b : v = Hop("insufficient_transfer", day, a, b) BY <2>1, TightIs
  <2> QED BY <2>2, HopIs DEF ViolationFields
<1>2. CASE \E d \in Days(draft) : v \in DayCandidates(draft.days[d], KnownHops(check(draft)))
  BY <1>2, AddedIs
<1> QED BY <1>1, <1>2, CandidateIs

LEMMA CheckedIs ==
    ASSUME NEW r, NEW checked \in Checkable(r)
    PROVE  /\ checked \subseteq {v \in r : _needs_confirming(v)}
           /\ \/ checked = {v \in r : _needs_confirming(v)}
              \/ Cardinality({v \in r : _needs_confirming(v)}) > MAX_TRANSFER_CHECKS
<1>1. PICK candidates : candidates = {v \in r : _needs_confirming(v)} OBVIOUS
<1>2. checked \in IF Cardinality(candidates) > MAX_TRANSFER_CHECKS
                  THEN kSubset(MAX_TRANSFER_CHECKS, candidates) ELSE {candidates}
  BY <1>1 DEF Checkable
<1>3. checked \subseteq candidates BY <1>2 DEF kSubset
<1> QED BY <1>1, <1>2, <1>3

(* A measured plan, and its report.                                         *)
Verdict(v) == _measure(v, trip.constraints.allowed_modes, trip.offsets, trip.seconds)
Confirmed(r, checked) == (r \ checked) \cup (UNION {Judged(v, Verdict(v)) : v \in checked})

LEMMA MeasuredIs ==
    ASSUME NEW p, NEW m \in Measured(p, check(p))
    PROVE  \E checked \in Checkable(transfer_candidates(p, check(p))) :
             /\ m.plan = costed(p, Facts(checked))
             /\ m.report = Recosted(Confirmed(transfer_candidates(p, check(p)), checked), m.plan)
<1>1. \A r, checked :
        confirm_transfers(r, checked, trip.constraints.allowed_modes, trip.offsets, trip.seconds)
          = Confirmed(r, checked)
  BY DEF confirm_transfers, Confirmed, Verdict
<1>2. PICK checked \in Checkable(transfer_candidates(p, check(p))) :
        m = [plan |-> costed(p, Facts(checked)),
             report |-> Recosted(confirm_transfers(transfer_candidates(p, check(p)), checked,
                                    trip.constraints.allowed_modes, trip.offsets, trip.seconds),
                                 costed(p, Facts(checked))),
             routes |-> Facts(checked)]
  BY DEF Measured
<1> QED BY <1>1, <1>2

(* What a measured candidate becomes is about the same hop.                 *)
LEMMA JudgedIs ==
    ASSUME NEW draft, NEW v \in transfer_candidates(draft, check(draft)), _needs_confirming(v),
           NEW verdict, NEW w \in Judged(v, verdict)
    PROVE  /\ w.code \in HopCodes /\ w.day = v.day /\ w.origin = v.origin
           /\ w.destination = v.destination
           /\ verdict # None => w.code = "insufficient_transfer"
<1>1. v.code \in HopCodes BY DEF _needs_confirming, HopCodes
<1>2. DOMAIN v = ViolationFields BY <1>1, QuestionIs
<1>3. CASE verdict = None BY <1>1, <1>3 DEF Judged
<1>4. CASE verdict # None
  <2>1. w = [v EXCEPT !.code = "insufficient_transfer", !.mode = verdict.mode,
                      !.needed = verdict.minutes + TRANSFER_MARGIN_MINUTES]
    BY <1>4 DEF Judged
  <2> QED BY <1>2, <2>1 DEF ViolationFields, HopCodes
<1> QED BY <1>3, <1>4

(* Nothing but hops is settled by measuring, and nothing but costs anew.    *)
LEMMA ReportIs ==
    ASSUME NEW p, NEW m \in Measured(p, check(p)), NEW v, v.code \notin CostCodes \cup HopCodes
    PROVE  v \in m.report <=> v \in check(p)
<1>1. PICK r : r = transfer_candidates(p, check(p)) OBVIOUS
<1>2. PICK checked \in Checkable(r) : m.report = Recosted(Confirmed(r, checked), m.plan)
  BY <1>1, MeasuredIs
<1>3. v \in m.report <=> v \in Confirmed(r, checked) BY <1>2 DEF Recosted
<1>4. v \notin checked BY <1>2, CheckedIs DEF _needs_confirming, HopCodes
<1>5. ASSUME NEW u \in checked PROVE v \notin Judged(u, Verdict(u))
  <2>1. u \in r /\ _needs_confirming(u) BY <1>2, CheckedIs
  <2> QED BY <1>1, <2>1, JudgedIs
<1>6. v \in Confirmed(r, checked) <=> v \in r BY <1>4, <1>5 DEF Confirmed
<1>7. v \in r <=> v \in check(p)
  BY <1>1, CandidateIs, AddedIs DEF HopCodes
<1> QED BY <1>3, <1>6, <1>7

-----------------------------------------------------------------------------
(* The hours of a place.                                                    *)

LEMMA CaughtAlike ==
    ASSUME NEW x, NEW y, AlikeDay(x, y), NEW n \in DOMAIN x.activities
    PROVE  CaughtOut(y, y.activities[n]) <=> CaughtOut(x, x.activities[n])
<1>1. PICK a, b : a = x.activities[n] /\ b = y.activities[n] OBVIOUS
<1>2. AlikeVisit(a, b) /\ y.date = x.date BY <1>1 DEF AlikeDay
<1>3. MinutesAt(y, b) = MinutesAt(x, a)
  <2>1. /\ b.from = a.from /\ b.to = a.to /\ b.start_at = a.start_at /\ b.end_at = a.end_at
    BY <1>2, AlikeFields
  <2>2. PICK from, to, start, end : from = a.from /\ to = a.to /\ start = a.start_at /\ end = a.end_at
    OBVIOUS
  <2> DEFINE minutes(date) ==
               IF start = None THEN {<<date, m>> : m \in from .. to - 1}
               ELSE {<<DateOf([utc |-> utc, offset |-> start.offset]),
                       ClockOf([utc |-> utc, offset |-> start.offset])>> :
                       utc \in start.utc .. end.utc - 1}
  <2>3. MinutesAt(x, a) = minutes(x.date) BY <2>2 DEF MinutesAt
  <2>4. MinutesAt(y, b) = minutes(y.date) BY <2>1, <2>2 DEF MinutesAt
  <2> QED BY <1>2, <2>3, <2>4
<1>4. _match_known(b, trip.hours) = _match_known(a, trip.hours) BY <1>2, MatchAlike
<1>5. (_is_transport(b) <=> _is_transport(a)) /\ b.stay = a.stay BY <1>2, AlikeFields
<1> QED BY <1>1, <1>3, <1>4, <1>5 DEF CaughtOut

LEMMA MeasuredDoors ==
    ASSUME trip \in Trips, NEW p, SoundPlan(p), NEW m \in Measured(p, check(p))
    PROVE  DoorsJudged(m.plan, m.report)
<1>1. AlikePlan(p, m.plan)
  BY MeasuredIs, PlanSettled DEF costed
<1>2. None \notin Int /\ \A n \in DOMAIN trip.hours : Listing(trip.hours[n])
  BY TripsAssumption DEF TripsAssumption
<1>3. ASSUME NEW v, v.code = "outside_opening_hours"
      PROVE  v \in m.report <=> v \in ShutFound(p)
  <2>1. v.code \notin CostCodes \cup HopCodes BY <1>3 DEF CostCodes, HopCodes
  <2> QED BY <1>3, <2>1, ReportIs, FoundIs
<1>4. \A d \in Days(p) : \A n \in DOMAIN p.days[d].activities :
         Shut(p.days[d], p.days[d].activities[n], trip.hours)
           <=> CaughtOut(p.days[d], p.days[d].activities[n])
  <2> TAKE d \in Days(p)
  <2> TAKE n \in DOMAIN p.days[d].activities
  <2>1. p.days[d].date \in Int /\ Clocked(p.days[d].activities[n])
    BY DEF SoundPlan, SoundDay, Sound, Days
  <2> QED BY <1>2, <2>1, ShutIs
<1>5. Days(m.plan) = Days(p) /\ \A d \in Days(p) : AlikeDay(p.days[d], m.plan.days[d])
  BY <1>1 DEF AlikePlan, Days
<1>6. ASSUME NEW d \in Days(p)
      PROVE  /\ m.plan.days[d].date = p.days[d].date
             /\ (\E a \in Activities(m.plan.days[d]) : CaughtOut(m.plan.days[d], a))
                  <=> \E n \in DOMAIN p.days[d].activities :
                        Shut(p.days[d], p.days[d].activities[n], trip.hours)
  <2>1. PICK x, y : x = p.days[d] /\ y = m.plan.days[d] OBVIOUS
  <2>2. AlikeDay(x, y) BY <1>5, <2>1
  <2>3. y.date = x.date /\ DOMAIN y.activities = DOMAIN x.activities BY <2>2 DEF AlikeDay
  <2>4. (\E a \in Activities(y) : CaughtOut(y, a))
          <=> \E n \in DOMAIN x.activities : CaughtOut(y, y.activities[n])
    BY <2>3 DEF Activities
  <2> QED BY <1>4, <2>1, <2>2, <2>3, <2>4, CaughtAlike
<1>7. ASSUME NEW date
      PROVE  (\E v \in m.report : v.code = "outside_opening_hours" /\ v.day = date)
               <=> \E d \in Days(p) :
                     /\ p.days[d].date = date
                     /\ \E n \in DOMAIN p.days[d].activities :
                           Shut(p.days[d], p.days[d].activities[n], trip.hours)
  <2>1. (\E v \in m.report : v.code = "outside_opening_hours" /\ v.day = date)
          <=> Violation("outside_opening_hours", date) \in ShutFound(p)
    <3>1. Violation("outside_opening_hours", date).code = "outside_opening_hours"
          /\ Violation("outside_opening_hours", date).day = date
      BY ViolationIs
    <3>2. ASSUME NEW v \in ShutFound(p), v.day = date
          PROVE  v = Violation("outside_opening_hours", date)
      BY <3>2, ViolationIs DEF ShutFound
    <3> QED BY <1>3, <3>1, <3>2
  <2>2. Violation("outside_opening_hours", date) \in ShutFound(p) <=>
          \E x \in Places(p) : /\ Shut(p.days[x[1]], At(p, x), trip.hours)
                               /\ p.days[x[1]].date = date
    BY ViolationIs DEF ShutFound
  <2>3. (\E x \in Places(p) : /\ Shut(p.days[x[1]], At(p, x), trip.hours)
                              /\ p.days[x[1]].date = date)
        <=> \E d \in Days(p) :
              /\ p.days[d].date = date
              /\ \E n \in DOMAIN p.days[d].activities :
                    Shut(p.days[d], p.days[d].activities[n], trip.hours)
    <3>1. \A d, n : <<d, n>>[1] = d /\ <<d, n>>[2] = n OBVIOUS
    <3>2. ASSUME NEW x \in Places(p), Shut(p.days[x[1]], At(p, x), trip.hours)
          PROVE  \E d \in Days(p) : \E n \in DOMAIN p.days[d].activities :
                    d = x[1] /\ Shut(p.days[d], p.days[d].activities[n], trip.hours)
      BY <3>2, PlaceOf DEF Days, At
    <3>3. ASSUME NEW d \in Days(p), NEW n \in DOMAIN p.days[d].activities,
                 Shut(p.days[d], p.days[d].activities[n], trip.hours)
          PROVE  \E x \in Places(p) : x[1] = d /\ Shut(p.days[x[1]], At(p, x), trip.hours)
      <4>1. <<d, n>> \in Places(p) BY PlaceIs DEF Days
      <4>2. At(p, <<d, n>>) = p.days[d].activities[n] BY DEF At
      <4> QED BY <3>1, <3>3, <4>1, <4>2
    <3> QED BY <3>2, <3>3
  <2> QED BY <2>1, <2>2, <2>3
<1>8. ASSUME NEW date
      PROVE  (\E v \in m.report : v.code = "outside_opening_hours" /\ v.day = date)
               <=> \E d \in Days(m.plan) :
                     /\ m.plan.days[d].date = date
                     /\ \E a \in Activities(m.plan.days[d]) : CaughtOut(m.plan.days[d], a)
  <2>1. Days(m.plan) = Days(p) BY <1>5
  <2>2. (\E d \in Days(p) : /\ p.days[d].date = date
                             /\ \E n \in DOMAIN p.days[d].activities :
                                   Shut(p.days[d], p.days[d].activities[n], trip.hours))
        <=> \E d \in Days(p) :
              /\ m.plan.days[d].date = date
              /\ \E a \in Activities(m.plan.days[d]) : CaughtOut(m.plan.days[d], a)
    BY <1>6
  <2> QED BY <1>7, <2>1, <2>2
<1> QED BY <1>8 DEF DoorsJudged

-----------------------------------------------------------------------------
(* Booked journeys.                                                         *)

BlockingTiming == {"temporal_unverified", "constraint_mismatch", "journey_conflict", "time_conflict"}

(* What the issues of a visit are, one at a time.                           *)
LEMMA UntimedFound ==
    ASSUME NEW draft, NEW c, NEW p, Timed(draft, c), Untimed(At(draft, p))
    PROVE  Issue("temporal_unverified", p) \in ActivityIssues(draft, c, p)
BY DEF ActivityIssues

LEMMA MislabelledFound ==
    ASSUME NEW draft, NEW c, NEW p, ~Untimed(At(draft, p)), Mislabelled(At(draft, p))
    PROVE  Issue("constraint_mismatch", p) \in ActivityIssues(draft, c, p)
BY DEF ActivityIssues

LEMMA JourneyFound ==
    ASSUME NEW draft, NEW c, NEW p, ~Untimed(At(draft, p)), ~Mislabelled(At(draft, p)),
           NEW j \in Journeys(c), At(draft, p).journey = j.id,
           Altered(At(draft, p), j) \/ \E q \in Legs(draft, j) : Ordered(q, p)
    PROVE  Issue("journey_conflict", p) \in ActivityIssues(draft, c, p)
<1> DEFINE a == At(draft, p)
           leg == {k \in Journeys(c) : k.id = a.journey}
           stay == {s \in Stays(c) : s.id = a.stay}
           b1 == Timed(draft, c) /\ a.stay = None /\ a.category = "accommodation"
           b2 == DateOf(a.start_at) # draft.days[p[1]].date
           b3 == a.journey # None /\ leg = {}
           b4 == a.stay # None /\ stay = {}
           b5 == TooEarly(a, Arrival(c))
           b6 == \E k \in leg : Altered(a, k) \/ \E q \in Legs(draft, k) : Ordered(q, p)
           b7 == \E s \in stay : \/ OutsideStay(a, s)
                                 \/ /\ a.action # "stay"
                                    /\ \E q \in Actions(draft, s, a.action) : Ordered(q, p)
           issues == {<<"temporal_unverified", b1>>, <<"constraint_mismatch", b2>>,
                      <<"constraint_mismatch", b3>>, <<"constraint_mismatch", b4>>,
                      <<"arrival_conflict", b5>>, <<"journey_conflict", b6>>,
                      <<"hotel_window_conflict", b7>>}
           unowned == IF a.mode \in LongDistance /\ a.journey = None
                      THEN {"temporal_unverified"} ELSE {}
<1>1. ActivityIssues(draft, c, p) =
        {Issue(code, p) : code \in unowned \cup
            CASE Untimed(a) -> IF Timed(draft, c) THEN {"temporal_unverified"} ELSE {}
              [] ~Untimed(a) /\ Mislabelled(a) -> {"constraint_mismatch"}
              [] OTHER -> {i[1] : i \in {k \in issues : k[2]}}}
  BY DEF ActivityIssues
<1>2. b6 OBVIOUS
<1>3. "journey_conflict" \in {i[1] : i \in {k \in issues : k[2]}}
  <2>1. PICK x : x = <<"journey_conflict", b6>> OBVIOUS
  <2>2. x \in issues /\ x[1] = "journey_conflict" /\ x[2] BY <1>2, <2>1
  <2> HIDE DEF issues
  <2> QED BY <2>2
<1> HIDE DEF issues, unowned
<1> QED BY <1>1, <1>3

LEMMA TimingClear ==
    ASSUME NEW draft, NEW c, Timed(draft, c),
           \A i \in check_timing(draft, c) : i.code \notin BlockingTiming
    PROVE  /\ Scheduled(draft) = Places(draft)
           /\ \A j \in Journeys(c) :
                 /\ During(draft, j.departure) => Legs(draft, j) # {}
                 /\ \A p \in Places(draft) :
                       /\ ~Intrudes(At(draft, p), j)
                       /\ At(draft, p).journey = j.id =>
                            /\ ~Altered(At(draft, p), j)
                            /\ ~\E q \in Legs(draft, j) : Ordered(q, p)
           /\ Overlaps(draft) = {}
<1>1. \A code, p : Issue(code, p).code = code BY DEF Issue
<1>2. PICK A, O, J, S, C :
        /\ A = UNION {ActivityIssues(draft, c, p) : p \in Places(draft)}
        /\ O = {Issue("time_conflict", pair[2]) : pair \in Overlaps(draft)}
        /\ J = JourneyIssues(draft, c) /\ S = StayIssues(draft, c) /\ C = ConnectionIssues(c)
  OBVIOUS
<1>3. check_timing(draft, c) = A \cup O \cup J \cup S \cup C BY <1>2 DEF check_timing
<1>4. \A p \in Places(draft) : ~Untimed(At(draft, p)) /\ ~Mislabelled(At(draft, p))
  <2> TAKE p \in Places(draft)
  <2>1. ActivityIssues(draft, c, p) \subseteq check_timing(draft, c) BY <1>2, <1>3
  <2> QED BY <1>1, <2>1, UntimedFound, MislabelledFound DEF BlockingTiming
<1>5. Scheduled(draft) = Places(draft) BY <1>4 DEF Scheduled
<1>6. ASSUME NEW j \in Journeys(c), NEW p \in Places(draft), At(draft, p).journey = j.id
      PROVE  ~Altered(At(draft, p), j) /\ ~\E q \in Legs(draft, j) : Ordered(q, p)
  <2>1. ActivityIssues(draft, c, p) \subseteq check_timing(draft, c) BY <1>2, <1>3
  <2>2. Issue("journey_conflict", p) \notin ActivityIssues(draft, c, p)
    BY <1>1, <2>1 DEF BlockingTiming
  <2> QED BY <1>4, <1>6, <2>2, JourneyFound
<1>7. ASSUME NEW j \in Journeys(c)
      PROVE  /\ During(draft, j.departure) => Legs(draft, j) # {}
             /\ \A p \in Places(draft) : ~Intrudes(At(draft, p), j)
  <2>1. PICK I, M, E :
          /\ I = {Issue("journey_conflict", p) : p \in {q \in Scheduled(draft) : Intrudes(At(draft, q), j)}}
          /\ M = When(During(draft, j.departure) /\ Legs(draft, j) = {}, "journey_conflict")
          /\ E = When(~j.confirmed, "journey_time_estimated")
    OBVIOUS
  <2>2. I \cup M \cup E \subseteq JourneyIssues(draft, c) BY <2>1 DEF JourneyIssues
  <2>3. \A i \in I \cup M : i.code # "journey_conflict"
    BY <1>2, <1>3, <2>2 DEF BlockingTiming
  <2>4. I = {} BY <1>1, <2>1, <2>3
  <2>5. ~(During(draft, j.departure) /\ Legs(draft, j) = {}) BY <1>1, <2>1, <2>3 DEF When
  <2> QED BY <1>5, <2>1, <2>4, <2>5
<1>8. Overlaps(draft) = {}
  <2>1. \A i \in O : i.code # "time_conflict" BY <1>3 DEF BlockingTiming
  <2> QED BY <1>1, <1>2, <2>1
<1> QED BY <1>5, <1>6, <1>7, <1>8

(* Without overlaps one of two visits is over before the other starts.      *)
LEMMA Apart ==
    ASSUME NEW draft, SoundPlan(draft), Overlaps(draft) = {}, Scheduled(draft) = Places(draft),
           NEW p \in Places(draft), NEW q \in Places(draft), p # q
    PROVE  \/ At(draft, p).end_at.utc <= At(draft, q).start_at.utc
           \/ At(draft, q).end_at.utc <= At(draft, p).start_at.utc
<1>1. \A x \in Places(draft) : /\ At(draft, x).start_at.utc \in Int
                              /\ At(draft, x).end_at.utc \in Int
  <2> TAKE x \in Places(draft)
  <2>1. Clocked(At(draft, x)) BY PlaceOf DEF SoundPlan, SoundDay, Sound, At
  <2>2. At(draft, x).start_at # None BY DEF Scheduled, Untimed
  <2> QED BY <2>1, <2>2 DEF Clocked, Timestamp
<1>2. Ordered(p, q) \/ Ordered(q, p)
  <2>1. p[1] \in Int /\ p[2] \in Int /\ q[1] \in Int /\ q[2] \in Int
        /\ p = <<p[1], p[2]>> /\ q = <<q[1], q[2]>>
    BY FinitePlaces
  <2> QED BY <2>1 DEF Ordered
<1>3. ASSUME NEW x \in Places(draft), NEW y \in Places(draft),
             \/ At(draft, x).start_at.utc < At(draft, y).start_at.utc
             \/ /\ At(draft, x).start_at.utc = At(draft, y).start_at.utc
                /\ Ordered(x, y)
      PROVE  At(draft, x).end_at.utc <= At(draft, y).start_at.utc
  <2>1. <<x, y>> \notin Overlaps(draft) OBVIOUS
  <2>2. <<x, y>>[1] = x /\ <<x, y>>[2] = y /\ <<x, y>> \in Scheduled(draft) \X Scheduled(draft)
    OBVIOUS
  <2>3. ~(At(draft, y).start_at.utc < At(draft, x).end_at.utc)
    BY <1>3, <2>1, <2>2 DEF Overlaps
  <2> QED BY <1>1, <2>3
<1> QED BY <1>1, <1>2, <1>3

(* What a blocking finding about time would be in the report.               *)
LEMMA TimingReported ==
    ASSUME trip \in Trips, NEW p, NEW m \in Measured(p, check(p)), blocking(m.report) = {},
           NEW i \in check_timing(p, trip.constraints)
    PROVE  i.code \notin BlockingTiming
<1>1. PICK v : v = Violation(i.code, IF i.at = None THEN None ELSE p.days[i.at[1]].date) OBVIOUS
<1>2. v.code = i.code BY <1>1, ViolationIs
<1>3. TimingOf(p) = trip.constraints BY TripsAssumption DEF TripsAssumption, TimingOf
<1>4. v \in check(p) BY <1>1, <1>3, FoundIs DEF TimingFound
<1>5. ASSUME i.code \in BlockingTiming PROVE FALSE
  <2>1. v.code \notin CostCodes \cup HopCodes /\ v.code \notin ADVISORY_CODES
    BY <1>2, <1>5 DEF BlockingTiming, CostCodes, HopCodes, ADVISORY_CODES
  <2>2. v \in m.report BY <1>4, <2>1, ReportIs
  <2> QED BY <2>1, <2>2 DEF blocking
<1> QED BY <1>5

(* Plans that differ in their costs have their visits at the same places.   *)
LEMMA PlacesAlike ==
    ASSUME NEW p, NEW q, AlikePlan(p, q)
    PROVE  Places(q) = Places(p) /\ \A x \in Places(p) : AlikeVisit(At(p, x), At(q, x))
<1>1. \A d \in DOMAIN p.days : AlikeDay(p.days[d], q.days[d]) BY DEF AlikePlan
<1>2. \A d \in DOMAIN p.days : DOMAIN q.days[d].activities = DOMAIN p.days[d].activities
  BY <1>1 DEF AlikeDay
<1>3. \A x : x \in Places(q) <=> x \in Places(p)
  BY <1>2, PlaceIs DEF AlikePlan
<1>4. ASSUME NEW x \in Places(p) PROVE AlikeVisit(At(p, x), At(q, x))
  <2>1. x[1] \in DOMAIN p.days /\ x[2] \in DOMAIN p.days[x[1]].activities BY PlaceOf
  <2> QED BY <1>1, <2>1 DEF AlikeDay, At
<1> QED BY <1>3, <1>4

LEMMA MeasuredJourneys ==
    ASSUME trip \in Trips, NEW p, SoundPlan(p), NEW m \in Measured(p, check(p))
    PROVE  JourneysClear(m.plan, m.report)
<1> SUFFICES ASSUME blocking(m.report) = {} PROVE JourneysClear(m.plan, m.report)
  BY DEF JourneysClear
<1> DEFINE c == trip.constraints
<1>1. PICK q : q = m.plan OBVIOUS
<1>2. AlikePlan(p, q) BY <1>1, MeasuredIs, PlanSettled DEF costed
<1>3. Places(q) = Places(p) /\ q.start = p.start /\ q.end = p.end BY <1>2, PlacesAlike DEF AlikePlan
<1>4. \A x \in Places(p) : /\ At(q, x).journey = At(p, x).journey
                           /\ At(q, x).start_at = At(p, x).start_at
                           /\ At(q, x).end_at = At(p, x).end_at
  BY <1>2, PlacesAlike, AlikeFields
<1>5. \A i \in check_timing(p, c) : i.code \notin BlockingTiming BY TimingReported
<1>6. ASSUME NEW j \in Journeys(c)
      PROVE  LET held == {x \in Places(q) : At(q, x).journey = j.id} IN
             /\ During(q, j.departure) => Cardinality(held) = 1
             /\ \A x \in held : <<At(q, x).start_at, At(q, x).end_at>>
                                    = <<j.departure, j.arrival>>
             /\ \A x \in Places(q) \ held :
                   \/ At(q, x).end_at.utc <= j.departure.utc - j.before
                   \/ At(q, x).start_at.utc >= j.arrival.utc + j.after
  <2>1. Timed(p, c) BY <1>6 DEF Timed
  <2>2. Scheduled(p) = Places(p) BY <1>5, <2>1, TimingClear
  <2>3. PICK held : held = {x \in Places(q) : At(q, x).journey = j.id} OBVIOUS
  <2>4. held = Legs(p, j) BY <1>3, <1>4, <2>2, <2>3 DEF Legs
  <2>5. ASSUME During(q, j.departure) PROVE Cardinality(held) = 1
    <3>1. held # {} BY <1>3, <1>5, <2>1, <2>4, <2>5, TimingClear DEF During
    <3>2. PICK x : x \in held BY <3>1
    <3>3. ASSUME NEW y \in held PROVE y = x
      <4>1. x \in Places(p) /\ y \in Places(p) /\ At(p, x).journey = j.id /\ At(p, y).journey = j.id
        BY <2>2, <2>4, <3>2 DEF Legs
      <4>2. ~Ordered(x, y) /\ ~Ordered(y, x) BY <1>5, <2>1, <2>4, <3>2, <4>1, TimingClear
      <4>3. x[1] \in Int /\ x[2] \in Int /\ y[1] \in Int /\ y[2] \in Int
            /\ x = <<x[1], x[2]>> /\ y = <<y[1], y[2]>>
        BY <4>1, FinitePlaces
      <4>4. x[1] = y[1] /\ x[2] = y[2] BY <4>2, <4>3 DEF Ordered
      <4> QED BY <4>3, <4>4
    <3>4. held = {x} BY <3>2, <3>3
    <3> QED BY <3>4, FS_Singleton
  <2>6. ASSUME NEW x \in held
        PROVE  <<At(q, x).start_at, At(q, x).end_at>> = <<j.departure, j.arrival>>
    <3>1. x \in Places(p) /\ At(p, x).journey = j.id BY <2>2, <2>4 DEF Legs
    <3>2. ~Altered(At(p, x), j) BY <1>5, <2>1, <3>1, TimingClear
    <3> QED BY <1>4, <3>1, <3>2 DEF Altered
  <2>7. ASSUME NEW x \in Places(q) \ held
        PROVE  \/ At(q, x).end_at.utc <= j.departure.utc - j.before
               \/ At(q, x).start_at.utc >= j.arrival.utc + j.after
    <3>1. x \in Places(p) /\ At(p, x).journey # j.id BY <1>3, <1>4, <2>3
    <3>2. ~Intrudes(At(p, x), j) BY <1>5, <2>1, <3>1, TimingClear
    <3>3. Clocked(At(p, x)) BY <3>1, PlaceOf DEF SoundPlan, SoundDay, Sound, At
    <3>4. At(p, x).start_at # None BY <2>2, <3>1 DEF Scheduled, Untimed
    <3>5. PICK start, end : start = At(p, x).start_at /\ end = At(p, x).end_at OBVIOUS
    <3>6. start.utc \in Int /\ end.utc \in Int BY <3>3, <3>4, <3>5 DEF Clocked, Timestamp
    <3>7. /\ j.departure.utc \in Int /\ j.arrival.utc \in Int
          /\ j.before \in Nat /\ j.after \in Nat
      BY <1>6, TripsAssumption DEF TripsAssumption, Timestamp
    <3>8. PICK from, until : from = j.departure.utc - j.before /\ until = j.arrival.utc + j.after
                             /\ from \in Int /\ until \in Int
      BY <3>7
    <3>9. Reserved(j)[1] = from /\ Reserved(j)[2] = until BY <3>8 DEF Reserved
    <3>10. ~(start.utc < until /\ end.utc > from) BY <3>1, <3>2, <3>5, <3>9 DEF Intrudes
    <3>11. end.utc <= from \/ start.utc >= until BY <3>6, <3>8, <3>10
    <3> QED BY <1>4, <3>1, <3>5, <3>8, <3>11
  <2> QED BY <2>3, <2>5, <2>6, <2>7
<1>7. ASSUME NEW x \in Places(q), NEW y \in Places(q),
             At(q, x).start_at # None, At(q, y).start_at # None, x # y
      PROVE  \/ At(q, x).end_at.utc <= At(q, y).start_at.utc
             \/ At(q, y).end_at.utc <= At(q, x).start_at.utc
  <2>1. Timed(p, c) BY <1>3, <1>4, <1>7 DEF Timed
  <2>2. Scheduled(p) = Places(p) /\ Overlaps(p) = {} BY <1>5, <2>1, TimingClear
  <2> QED BY <1>3, <1>4, <1>7, <2>2, Apart
<1> QED BY <1>1, <1>6, <1>7 DEF JourneysClear

-----------------------------------------------------------------------------
(* The way between two stops.  None of what is asked of a hop is a cost.    *)

Legs3(day, p) == {day.activities[n] : n \in LegsBetween(day, Keys(day), p)}

LEMMA KeysAlike ==
    ASSUME NEW x, NEW y, AlikeDay(x, y)
    PROVE  /\ Keys(y) = Keys(x) /\ Stops(y) = Stops(x)
           /\ Consecutive(y, Keys(y)) = Consecutive(x, Keys(x))
           /\ \A p : LegsBetween(y, Keys(y), p) = LegsBetween(x, Keys(x), p)
           /\ y.date = x.date /\ DOMAIN y.activities = DOMAIN x.activities
<1>1. y.date = x.date /\ DOMAIN y.activities = DOMAIN x.activities BY DEF AlikeDay
<1>2. \A n \in DOMAIN x.activities :
         /\ y.activities[n].location = x.activities[n].location
         /\ _is_transport(y.activities[n]) <=> _is_transport(x.activities[n])
         /\ StartKey(y, y.activities[n]) = StartKey(x, x.activities[n])
  <2> TAKE n \in DOMAIN x.activities
  <2>1. AlikeVisit(x.activities[n], y.activities[n]) BY DEF AlikeDay
  <2> QED BY <1>1, <2>1, AlikeFields DEF StartKey
<1>3. Keys(y) = Keys(x) BY <1>1, <1>2 DEF Keys
<1>4. Stops(y) = Stops(x) BY <1>1, <1>2 DEF Stops
<1>5. Consecutive(y, Keys(y)) = Consecutive(x, Keys(x)) BY <1>3, <1>4 DEF Consecutive
<1>6. \A p : LegsBetween(y, Keys(y), p) = LegsBetween(x, Keys(x), p)
  BY <1>1, <1>2, <1>3 DEF LegsBetween
<1> QED BY <1>1, <1>3, <1>4, <1>5, <1>6

LEMMA HopAlike ==
    ASSUME NEW x, NEW y, AlikeDay(x, y), NEW n \in DOMAIN x.activities,
           NEW k \in DOMAIN x.activities
    PROVE  LET a == x.activities[n]
               b == x.activities[k]
               c == y.activities[n]
               d == y.activities[k]
           IN  /\ Gap(c, d) = Gap(a, b) /\ (TooTight(c, d) <=> TooTight(a, b))
               /\ \A code : Hop(code, y, c, d) = Hop(code, x, a, b)
<1>1. PICK a, b, c, d : /\ a = x.activities[n] /\ b = x.activities[k]
                        /\ c = y.activities[n] /\ d = y.activities[k]
  OBVIOUS
<1>2. AlikeVisit(a, c) /\ AlikeVisit(b, d) /\ y.date = x.date BY <1>1 DEF AlikeDay
<1>3. /\ c.location = a.location /\ c.from = a.from /\ c.to = a.to
      /\ c.start_at = a.start_at /\ c.end_at = a.end_at
      /\ _is_transport(c) <=> _is_transport(a)
  BY <1>2, AlikeFields
<1>4. /\ d.location = b.location /\ d.from = b.from /\ d.to = b.to
      /\ d.start_at = b.start_at /\ d.end_at = b.end_at
      /\ _is_transport(d) <=> _is_transport(b)
  BY <1>2, AlikeFields
<1>5. Gap(c, d) = Gap(a, b) BY <1>3, <1>4 DEF Gap
<1>6. TooTight(c, d) <=> TooTight(a, b)
  <2>1. Comparable(c, d) <=> Comparable(a, b) BY <1>3, <1>4 DEF Comparable
  <2>2. _same_place(c, d) <=> _same_place(a, b) BY <1>3, <1>4 DEF _same_place
  <2> QED BY <1>3, <1>4, <1>5, <2>1, <2>2 DEF TooTight
<1>7. \A code : Hop(code, y, c, d) = Hop(code, x, a, b)
  BY <1>2, <1>3, <1>4, <1>5 DEF Hop
<1> QED BY <1>1, <1>5, <1>6, <1>7

(* The legs of a hop declare the same mode, and are booked or not.          *)
LEMMA LegsAlike ==
    ASSUME NEW x, NEW y, AlikeDay(x, y), NEW p
    PROVE  /\ DeclaredMode(Legs3(y, p)) = DeclaredMode(Legs3(x, p))
           /\ (\A leg \in Legs3(y, p) : leg.journey = None)
                <=> \A leg \in Legs3(x, p) : leg.journey = None
<1>1. PICK L : L = LegsBetween(x, Keys(x), p) OBVIOUS
<1>2. Legs3(x, p) = {x.activities[n] : n \in L} /\ Legs3(y, p) = {y.activities[n] : n \in L}
  BY <1>1, KeysAlike DEF Legs3
<1>3. \A n \in L : /\ transport_mode(y.activities[n]) = transport_mode(x.activities[n])
                   /\ y.activities[n].journey = x.activities[n].journey
  <2> TAKE n \in L
  <2>1. AlikeVisit(x.activities[n], y.activities[n]) BY <1>1 DEF AlikeDay, LegsBetween
  <2> QED BY <2>1, AlikeFields
<1>4. {transport_mode(a) : a \in Legs3(y, p)} = {transport_mode(a) : a \in Legs3(x, p)}
  <2>1. {transport_mode(a) : a \in Legs3(y, p)} = {transport_mode(y.activities[n]) : n \in L} BY <1>2
  <2>2. {transport_mode(a) : a \in Legs3(x, p)} = {transport_mode(x.activities[n]) : n \in L} BY <1>2
  <2> QED BY <1>3, <2>1, <2>2
<1>5. DeclaredMode(Legs3(y, p)) = DeclaredMode(Legs3(x, p))
  <2>1. PICK modes : modes = {transport_mode(a) : a \in Legs3(x, p)} \ {None} OBVIOUS
  <2>2. modes = {transport_mode(a) : a \in Legs3(y, p)} \ {None} BY <1>4, <2>1
  <2>3. DeclaredMode(Legs3(x, p)) = IF Cardinality(modes) = 1 THEN CHOOSE m \in modes : TRUE ELSE None
    BY <2>1 DEF DeclaredMode
  <2>4. DeclaredMode(Legs3(y, p)) = IF Cardinality(modes) = 1 THEN CHOOSE m \in modes : TRUE ELSE None
    BY <2>2 DEF DeclaredMode
  <2> QED BY <2>3, <2>4
<1> QED BY <1>2, <1>3, <1>5

(* What a day adds, by the pair it adds.                                    *)
Asked(day, p) ==
    [Hop("transfer_unverified", day, day.activities[p[1]], day.activities[p[2]])
        EXCEPT !.mode = DeclaredMode(Legs3(day, p))]
Asking(day, p, known) ==
    /\ p \in Consecutive(day, Keys(day))
    /\ day.activities[p[1]].location # day.activities[p[2]].location
    /\ \A leg \in Legs3(day, p) : leg.journey = None
    /\ <<day.date, day.activities[p[1]].location, day.activities[p[2]].location>> \notin known
    /\ Gap(day.activities[p[1]], day.activities[p[2]]) >= 0

LEMMA AddedFor ==
    ASSUME NEW day, NEW known, NEW v
    PROVE  v \in DayCandidates(day, known) <=> \E p : Asking(day, p, known) /\ v = Asked(day, p)
BY DEF DayCandidates, Asking, Asked, Legs3

LEMMA AskedAlike ==
    ASSUME NEW x, NEW y, AlikeDay(x, y), NEW known
    PROVE  DayCandidates(y, known) = DayCandidates(x, known)
<1>1. ASSUME NEW p \in Consecutive(x, Keys(x))
      PROVE  (Asking(y, p, known) <=> Asking(x, p, known)) /\ Asked(y, p) = Asked(x, p)
  <2>1. PICK n, k : n = p[1] /\ k = p[2] OBVIOUS
  <2>2. n \in DOMAIN x.activities /\ k \in DOMAIN x.activities
    BY <2>1 DEF Consecutive, Neighbours, Stops
  <2>3. /\ y.activities[n].location = x.activities[n].location
        /\ y.activities[k].location = x.activities[k].location
    <3>1. AlikeVisit(x.activities[n], y.activities[n]) /\ AlikeVisit(x.activities[k], y.activities[k])
      BY <2>2 DEF AlikeDay
    <3> QED BY <3>1, AlikeFields
  <2>4. /\ Gap(y.activities[n], y.activities[k]) = Gap(x.activities[n], x.activities[k])
        /\ Hop("transfer_unverified", y, y.activities[n], y.activities[k])
             = Hop("transfer_unverified", x, x.activities[n], x.activities[k])
    BY <2>2, HopAlike
  <2>5. Asked(y, p) = Asked(x, p) BY <2>1, <2>4, LegsAlike DEF Asked
  <2>6. Asking(y, p, known) <=> Asking(x, p, known)
    BY <2>1, <2>3, <2>4, LegsAlike, KeysAlike DEF Asking
  <2> QED BY <2>5, <2>6
<1>2. \A p : /\ Asking(x, p, known) => p \in Consecutive(x, Keys(x))
             /\ Asking(y, p, known) => p \in Consecutive(x, Keys(x))
  BY KeysAlike DEF Asking
<1>3. \A v : v \in DayCandidates(y, known) <=> v \in DayCandidates(x, known)
  BY <1>1, <1>2, AddedFor
<1> QED BY <1>3

-----------------------------------------------------------------------------
(* Plans that differ in their costs have the same hops to measure.          *)

LEMMA TightAlike ==
    ASSUME NEW p, NEW q, AlikePlan(p, q), NEW v, v.code \in HopCodes
    PROVE  v \in DaysFound(q) <=> v \in DaysFound(p)
<1>1. Days(q) = Days(p) /\ \A d \in Days(p) : AlikeDay(p.days[d], q.days[d])
  BY DEF AlikePlan, Days
<1>2. ASSUME NEW d \in Days(p), NEW w \in Neighbours(DOMAIN p.days[d].activities, Keys(p.days[d]))
      PROVE  /\ TooTight(q.days[d].activities[w[1]], q.days[d].activities[w[2]])
                  <=> TooTight(p.days[d].activities[w[1]], p.days[d].activities[w[2]])
             /\ Hop("insufficient_transfer", q.days[d], q.days[d].activities[w[1]],
                    q.days[d].activities[w[2]])
                  = Hop("insufficient_transfer", p.days[d], p.days[d].activities[w[1]],
                        p.days[d].activities[w[2]])
  <2>1. PICK n, k : n = w[1] /\ k = w[2] OBVIOUS
  <2>2. n \in DOMAIN p.days[d].activities /\ k \in DOMAIN p.days[d].activities
    BY <2>1 DEF Neighbours
  <2> QED BY <1>1, <2>1, <2>2, HopAlike
<1>3. ASSUME NEW d \in Days(p)
      PROVE  Neighbours(DOMAIN q.days[d].activities, Keys(q.days[d]))
               = Neighbours(DOMAIN p.days[d].activities, Keys(p.days[d]))
  BY <1>1, KeysAlike
<1> DEFINE tight(draft, d, w) ==
      /\ TooTight(draft.days[d].activities[w[1]], draft.days[d].activities[w[2]])
      /\ v = Hop("insufficient_transfer", draft.days[d], draft.days[d].activities[w[1]],
                 draft.days[d].activities[w[2]])
<1>4. \A draft : v \in DaysFound(draft) <=>
        \E d \in Days(draft) :
           \E w \in Neighbours(DOMAIN draft.days[d].activities, Keys(draft.days[d])) :
              tight(draft, d, w)
  BY TightIs
<1>5. \A d \in Days(p) :
        \A w \in Neighbours(DOMAIN p.days[d].activities, Keys(p.days[d])) :
           tight(q, d, w) <=> tight(p, d, w)
  BY <1>2
<1> HIDE DEF tight
<1> QED BY <1>1, <1>3, <1>4, <1>5

LEMMA KnownAlike ==
    ASSUME NEW p, NEW q, AlikePlan(p, q)
    PROVE  KnownHops(check(q)) = KnownHops(check(p))
<1>1. \A v : v.code = "insufficient_transfer" => (v \in check(q) <=> v \in check(p))
  BY FoundIs, TightAlike DEF HopCodes
<1>2. {w \in check(q) : w.code = "insufficient_transfer"}
        = {w \in check(p) : w.code = "insufficient_transfer"}
  BY <1>1
<1> QED BY <1>2 DEF KnownHops

LEMMA MeasureAlike ==
    ASSUME NEW p, NEW q, AlikePlan(p, q)
    PROVE  ToMeasure(q) = ToMeasure(p)
<1>1. Days(q) = Days(p) /\ \A d \in Days(p) : AlikeDay(p.days[d], q.days[d])
  BY DEF AlikePlan, Days
<1>2. PICK known : known = KnownHops(check(p)) /\ known = KnownHops(check(q)) BY KnownAlike
<1>3. \A v : v \in transfer_candidates(q, check(q)) <=>
               v \in check(q) \/ \E d \in Days(p) : v \in DayCandidates(q.days[d], known)
  BY <1>1, <1>2, CandidateIs
<1>4. \A v : v \in transfer_candidates(p, check(p)) <=>
               v \in check(p) \/ \E d \in Days(p) : v \in DayCandidates(p.days[d], known)
  BY <1>2, CandidateIs
<1>5. \A d \in Days(p) : DayCandidates(q.days[d], known) = DayCandidates(p.days[d], known)
  BY <1>1, AskedAlike
<1>6. \A v : _needs_confirming(v) => (v \in check(q) <=> v \in check(p))
  BY FoundIs, TightAlike DEF _needs_confirming, HopCodes
<1>7. \A v : v \in ToMeasure(q) <=> v \in ToMeasure(p)
  BY <1>3, <1>4, <1>5, <1>6 DEF ToMeasure
<1> QED BY <1>7

-----------------------------------------------------------------------------
(* What is measured of a hop.                                               *)

LEMMA Rounded ==
    ASSUME NEW s \in Nat
    PROVE  (s + 59) \div 60 = (s \div 60) + (IF s % 60 = 0 THEN 0 ELSE 1)
<1>0. ASSUME NEW k \in Int, NEW r \in 0 .. 59, NEW z \in Int, z = (60 * k) + r
      PROVE  z \div 60 = k
  BY <1>0
<1>1. PICK k \in Nat, r \in 0 .. 59 : k = s \div 60 /\ r = s % 60 /\ s = (60 * k) + r OBVIOUS
<1>2. CASE r = 0
  <2>1. s + 59 = (60 * k) + 59 BY <1>1, <1>2
  <2>2. (s + 59) \div 60 = k BY <1>0, <1>1, <2>1
  <2> QED BY <1>1, <1>2, <2>2
<1>3. CASE r # 0
  <2>1. s + 59 = (60 * (k + 1)) + (r - 1) /\ r - 1 \in 0 .. 58 BY <1>1, <1>3
  <2>2. (s + 59) \div 60 = k + 1 BY <1>0, <1>1, <2>1
  <2> QED BY <1>1, <1>3, <2>2
<1> QED BY <1>2, <1>3

LEMMA FastestIs ==
    ASSUME trip \in Trips, NEW v, NEW allowed, NEW mode,
           mode = IF v.mode = None THEN "WALK" ELSE v.mode,
           NEW s, s = Lookup(trip.seconds, <<v.origin, v.destination, mode>>),
           NEW fastest, fastest = Fastest(v, allowed, trip.seconds)
    PROVE  IF s = None \/ (allowed # None /\ mode \notin allowed) THEN fastest = None
           ELSE fastest # None /\ fastest.minutes = (s + 59) \div 60
<1>1. PICK answers, usable :
        /\ answers = {<<Lookup(trip.seconds, <<v.origin, v.destination, m>>), m>> :
                         m \in ModesOf(v, allowed)}
        /\ usable = {a \in answers : a[1] # None}
  OBVIOUS
<1>2. fastest = IF usable = {} THEN None
                ELSE LET best == CHOOSE a \in usable : \A b \in usable : a[1] <= b[1]
                     IN  [minutes |-> (best[1] + 59) \div 60, mode |-> best[2]]
  BY <1>1 DEF Fastest
<1>3. CASE allowed # None /\ mode \notin allowed
  <2>1. usable = {} BY <1>1, <1>3 DEF ModesOf
  <2> QED BY <1>2, <1>3, <2>1
<1>4. CASE allowed = None \/ mode \in allowed
  <2>1. ModesOf(v, allowed) = {mode} BY <1>4 DEF ModesOf
  <2>2. answers = {<<s, mode>>} BY <1>1, <2>1
  <2>3. CASE s = None
    <3>1. \A a \in answers : a[1] = None BY <2>2, <2>3
    <3>2. usable = {} BY <1>1, <3>1
    <3> QED BY <1>2, <2>3, <3>2
  <2>4. CASE s # None
    <3>1. PICK answer : answer = <<s, mode>> OBVIOUS
    <3>2. answer[1] = s /\ answer[2] = mode BY <3>1
    <3>3. usable = {answer} BY <1>1, <2>2, <2>4, <3>1, <3>2
    <3>4. <<v.origin, v.destination, mode>> \in DOMAIN trip.seconds
          /\ s = trip.seconds[<<v.origin, v.destination, mode>>]
      BY <2>4 DEF Lookup
    <3>5. s \in Nat BY <2>4, <3>4, TripsAssumption DEF TripsAssumption
    <3>6. (CHOOSE a \in usable : \A b \in usable : a[1] <= b[1]) = answer
      BY <3>2, <3>3, <3>5
    <3>7. fastest = [minutes |-> (s + 59) \div 60, mode |-> mode]
      BY <1>2, <3>2, <3>3, <3>6
    <3>8. mode \in {x[3] : x \in DOMAIN trip.seconds}
      <4>1. PICK x \in DOMAIN trip.seconds : x = <<v.origin, v.destination, mode>> BY <3>4
      <4>2. x[3] = mode BY <4>1
      <4> QED BY <4>2
    <3>9. fastest \in [minutes : Nat, mode : {x[3] : x \in DOMAIN trip.seconds}]
      BY <3>5, <3>7, <3>8
    <3>10. fastest # None BY <3>9, TripsAssumption DEF TripsAssumption
    <3> QED BY <1>4, <2>4, <3>7, <3>10
  <2> QED BY <2>3, <2>4
<1> QED BY <1>3, <1>4

LEMMA VerdictIs ==
    ASSUME trip \in Trips, NEW hop, NEW v,
           v.origin = hop.a.location, v.destination = hop.b.location,
           v.mode = DeclaredMode(hop.legs), v.instant = hop.a.end_at, v.deadline = hop.b.start_at
    PROVE  /\ Verdict(v) = None <=> MinutesOf(hop) = None
           /\ Verdict(v) # None => Verdict(v).minutes = MinutesOf(hop) /\ MinutesOf(hop) \in Nat
<1>1. PICK mode, s, allowed, fastest :
        /\ mode = IF v.mode = None THEN "WALK" ELSE v.mode
        /\ s = Lookup(trip.seconds, <<v.origin, v.destination, mode>>)
        /\ allowed = trip.constraints.allowed_modes
        /\ fastest = Fastest(v, allowed, trip.seconds)
  OBVIOUS
<1>2. PICK here, there : here = Lookup(trip.offsets, v.origin)
                         /\ there = Lookup(trip.offsets, v.destination)
  OBVIOUS
<1>3. PICK unsure : unsure = \/ here = None
                             \/ v.instant # None /\ (here = None \/ v.instant.offset # here)
                             \/ v.deadline # None /\ (there = None \/ v.deadline.offset # there)
  OBVIOUS
<1>4. Verdict(v) = IF unsure THEN None ELSE fastest
  BY <1>1, <1>2, <1>3 DEF Verdict, _measure, ClockAgrees
<1>5. MinutesOf(hop) = IF s = None \/ unsure \/ (allowed # None /\ mode \notin allowed) THEN None
                       ELSE (s \div 60) + (IF s % 60 = 0 THEN 0 ELSE 1)
  BY <1>1, <1>2, <1>3 DEF MinutesOf
<1>6. IF s = None \/ (allowed # None /\ mode \notin allowed) THEN fastest = None
      ELSE fastest # None /\ fastest.minutes = (s + 59) \div 60
  BY <1>1, FastestIs
<1>7. s = None \/ s \in Nat
  <2>1. s # None => \E x \in DOMAIN trip.seconds : s = trip.seconds[x] BY <1>1 DEF Lookup
  <2> QED BY <2>1, TripsAssumption DEF TripsAssumption
<1>8. CASE s = None \/ unsure \/ (allowed # None /\ mode \notin allowed)
  BY <1>4, <1>5, <1>6, <1>8
<1>9. CASE ~(s = None \/ unsure \/ (allowed # None /\ mode \notin allowed))
  <2>1. s \in Nat BY <1>7, <1>9
  <2>2. PICK minutes : minutes = (s \div 60) + (IF s % 60 = 0 THEN 0 ELSE 1) OBVIOUS
  <2>3. minutes \in Nat BY <2>1, <2>2
  <2>4. MinutesOf(hop) = minutes BY <1>5, <1>9, <2>2
  <2>5. fastest # None /\ fastest.minutes = minutes BY <1>6, <1>9, <2>1, <2>2, Rounded
  <2>6. Verdict(v) = fastest BY <1>4, <1>9
  <2>7. None \notin Int BY TripsAssumption DEF TripsAssumption
  <2>8. MinutesOf(hop) # None BY <2>3, <2>4, <2>7
  <2> QED BY <2>3, <2>4, <2>5, <2>6, <2>8
<1> QED BY <1>8, <1>9

-----------------------------------------------------------------------------
(* Another pair of the same places on that date; a question about this one. *)
TightInstead(p, d, w, a, b) ==
    \E e \in {x \in Days(p) : p.days[x].date = p.days[d].date} :
       \E u \in Neighbours(DOMAIN p.days[e].activities, Keys(p.days[e])) :
          /\ TooTight(p.days[e].activities[u[1]], p.days[e].activities[u[2]])
          /\ p.days[e].activities[u[1]].location = a.location
          /\ p.days[e].activities[u[2]].location = b.location
          /\ <<e, u>> # <<d, w>>
Questioned(p, d, w, a, b) ==
    \E v \in ToMeasure(p) :
       /\ v.day = p.days[d].date /\ v.origin = a.location /\ v.destination = b.location
       /\ v.gap = Gap(a, b) /\ v.mode = DeclaredMode(Legs3(p.days[d], w))
       /\ v.instant = a.end_at /\ v.deadline = b.start_at

(* Where a hop that a day has to bridge is asked about: by the pair that is *)
(* too tight, unless that pair is another one, or as a candidate of its own.*)
LEMMA HopAsked ==
    ASSUME None \notin Int, NEW p, SoundPlan(p), NEW d \in Days(p),
           NEW w \in Consecutive(p.days[d], Keys(p.days[d])),
           NEW a, a = p.days[d].activities[w[1]], NEW b, b = p.days[d].activities[w[2]],
           a.location # b.location, Gap(a, b) >= 0,
           \A leg \in Legs3(p.days[d], w) : leg.journey = None
    PROVE  TightInstead(p, d, w, a, b) \/ Questioned(p, d, w, a, b)
<1>1. PICK day : day = p.days[d] OBVIOUS
<1>2. /\ w[1] \in Stops(day) /\ w[2] \in Stops(day)
      /\ w[1] \in DOMAIN day.activities /\ w[2] \in DOMAIN day.activities
  BY <1>1 DEF Consecutive, Neighbours, Stops
<1>3. a.location # None /\ b.location # None BY <1>1, <1>2 DEF Stops
<1>4. Gap(a, b) # None
  <2>1. Clocked(a) /\ Clocked(b) BY <1>1, <1>2 DEF SoundPlan, SoundDay, Sound, Days
  <2>2. Gap(a, b) \in Int
    <3>1. CASE a.end_at # None /\ b.start_at # None
      <4>1. Timestamp(a.end_at) /\ Timestamp(b.start_at) BY <2>1, <3>1 DEF Clocked
      <4>2. PICK m, n : m = a.end_at /\ n = b.start_at OBVIOUS
      <4> QED BY <3>1, <4>1, <4>2 DEF Gap, Timestamp
    <3>2. CASE ~(a.end_at # None /\ b.start_at # None)
      <4>1. Gap(a, b) = b.from - a.to BY <3>2 DEF Gap
      <4>2. b.from \in Int /\ a.to \in Int BY <2>1 DEF Clocked
      <4> QED BY <4>1, <4>2
    <3> QED BY <3>1, <3>2
  <2> QED BY <2>2
<1>5. PICK key : key = <<day.date, a.location, b.location>> OBVIOUS
<1>6. CASE key \in KnownHops(check(p))
  <2>1. PICK v \in check(p) : v.code = "insufficient_transfer" /\ key = <<v.day, v.origin, v.destination>>
    BY <1>6 DEF KnownHops
  <2>2. v \in DaysFound(p) /\ v.code \in HopCodes BY <2>1, FoundIs DEF HopCodes
  <2>3. PICK e \in Days(p) :
          \E u \in Neighbours(DOMAIN p.days[e].activities, Keys(p.days[e])) :
             /\ TooTight(p.days[e].activities[u[1]], p.days[e].activities[u[2]])
             /\ v = Hop("insufficient_transfer", p.days[e], p.days[e].activities[u[1]],
                        p.days[e].activities[u[2]])
    BY <2>2, TightIs
  <2>4. PICK u \in Neighbours(DOMAIN p.days[e].activities, Keys(p.days[e])) :
             /\ TooTight(p.days[e].activities[u[1]], p.days[e].activities[u[2]])
             /\ v = Hop("insufficient_transfer", p.days[e], p.days[e].activities[u[1]],
                        p.days[e].activities[u[2]])
    BY <2>3
  <2>5. PICK f, g : f = p.days[e].activities[u[1]] /\ g = p.days[e].activities[u[2]] OBVIOUS
  <2>6. /\ v.day = p.days[e].date /\ v.origin = f.location /\ v.destination = g.location
        /\ v.gap = Gap(f, g) /\ v.mode = None
        /\ v.instant = f.end_at /\ v.deadline = g.start_at
    <3>1. PICK dated, code : dated = p.days[e] /\ code = "insufficient_transfer" OBVIOUS
    <3>2. v = Hop(code, dated, f, g) BY <2>4, <2>5, <3>1
    <3>3. /\ v.day = dated.date /\ v.origin = f.location /\ v.destination = g.location
          /\ v.gap = Gap(f, g) /\ v.mode = None
          /\ v.instant = f.end_at /\ v.deadline = g.start_at
      BY <3>2, HopIs
    <3> QED BY <3>1, <3>3
  <2>7. /\ p.days[e].date = p.days[d].date
        /\ f.location = a.location /\ g.location = b.location
    BY <1>1, <1>5, <2>1, <2>6
  <2>8. CASE <<e, u>> # <<d, w>> BY <2>3, <2>4, <2>5, <2>7, <2>8 DEF TightInstead
  <2>9. CASE <<e, u>> = <<d, w>>
    <3>1. e = d /\ u = w BY <2>9
    <3>2. f = a /\ g = b BY <2>5, <3>1
    <3>3. LegsBetween(day, Keys(day), w) = {}
      BY <1>1, <2>4, <3>1 DEF Neighbours, LegsBetween
    <3>4. Legs3(day, w) = {} BY <3>3 DEF Legs3
    <3>5. DeclaredMode(Legs3(day, w)) = None
      <4>1. {transport_mode(x) : x \in Legs3(day, w)} \ {None} = {} BY <3>4
      <4>2. Cardinality({}) = 0 BY FS_EmptySet
      <4> QED BY <4>1, <4>2 DEF DeclaredMode
    <3>6. v \in transfer_candidates(p, check(p)) BY <2>1, CandidateIs
    <3>7. _needs_confirming(v) BY <1>3, <1>4, <2>1, <2>6, <3>2 DEF _needs_confirming
    <3>8. v \in ToMeasure(p) BY <3>6, <3>7 DEF ToMeasure
    <3> QED BY <1>1, <2>6, <2>7, <3>2, <3>5, <3>8 DEF Questioned
  <2> QED BY <2>8, <2>9
<1>7. CASE key \notin KnownHops(check(p))
  <2>1. PICK v : v = Asked(day, w) OBVIOUS
  <2>2. Asking(day, w, KnownHops(check(p))) BY <1>1, <1>5, <1>7 DEF Asking
  <2>3. v \in DayCandidates(day, KnownHops(check(p))) BY <2>1, <2>2, AddedFor
  <2>4. v \in transfer_candidates(p, check(p)) BY <1>1, <2>3, CandidateIs
  <2>5. PICK h : h = Hop("transfer_unverified", day, a, b) OBVIOUS
  <2>6. /\ h.code = "transfer_unverified" /\ h.day = day.date
        /\ h.origin = a.location /\ h.destination = b.location
        /\ h.gap = Gap(a, b) /\ h.instant = a.end_at /\ h.deadline = b.start_at
        /\ DOMAIN h = ViolationFields
    <3>1. PICK code : code = "transfer_unverified" OBVIOUS
    <3>2. h = Hop(code, day, a, b) BY <2>5, <3>1
    <3>3. h.code = code /\ h.day = day.date BY <3>2, HopIs
    <3>4. h.origin = a.location /\ h.destination = b.location BY <3>2, HopIs
    <3>5. h.gap = Gap(a, b) /\ h.instant = a.end_at /\ h.deadline = b.start_at BY <3>2, HopIs
    <3>6. DOMAIN h = ViolationFields BY <3>2, HopIs DEF ViolationFields
    <3> QED BY <3>1, <3>3, <3>4, <3>5, <3>6
  <2>7. v = [h EXCEPT !.mode = DeclaredMode(Legs3(day, w))] BY <1>1, <2>1, <2>5 DEF Asked
  <2>8. /\ v.code = "transfer_unverified" /\ v.day = day.date
        /\ v.origin = a.location /\ v.destination = b.location
        /\ v.gap = Gap(a, b) /\ v.instant = a.end_at /\ v.deadline = b.start_at
        /\ v.mode = DeclaredMode(Legs3(day, w))
    BY <2>6, <2>7 DEF ViolationFields
  <2>9. v \in ToMeasure(p) BY <1>3, <1>4, <2>4, <2>8 DEF ToMeasure, _needs_confirming
  <2> QED BY <1>1, <2>8, <2>9 DEF Questioned
<1> QED BY <1>6, <1>7

LEMMA MeasuredHops ==
    ASSUME trip \in Trips, NEW p, SoundPlan(p), NEW m \in Measured(p, check(p))
    PROVE  HopsJudged(m.plan, m.report)
<1>1. PICK q, r : q = m.plan /\ r = m.report OBVIOUS
<1>2. AlikePlan(p, q) BY <1>1, MeasuredIs, PlanSettled DEF costed
<1>3. Days(q) = Days(p) /\ \A d \in Days(p) : AlikeDay(p.days[d], q.days[d])
  BY <1>2 DEF AlikePlan, Days
<1>4. None \notin Int BY TripsAssumption DEF TripsAssumption
<1>5. PICK candidates : candidates = transfer_candidates(p, check(p)) OBVIOUS
<1>6. PICK checked \in Checkable(candidates) : r = Recosted(Confirmed(candidates, checked), q)
  BY <1>1, <1>5, MeasuredIs
<1>7. \A v \in Confirmed(candidates, checked) : v.code \in HopCodes => v \in r
  BY <1>6 DEF Recosted, CostCodes, HopCodes
<1>8. /\ checked \subseteq ToMeasure(p)
      /\ checked = ToMeasure(p) \/ Cardinality(ToMeasure(p)) > MAX_TRANSFER_CHECKS
  BY <1>5, CheckedIs DEF ToMeasure
<1>9. ASSUME NEW d \in Days(q), NEW hop \in Hops(q.days[d])
      PROVE  Passes(q, d, hop, {v \in r : /\ v.day = q.days[d].date
                                           /\ v.origin = hop.a.location
                                           /\ v.destination = hop.b.location})
  <2>1. PICK x, y : x = p.days[d] /\ y = q.days[d] OBVIOUS
  <2>2. AlikeDay(x, y) BY <1>3, <2>1
  <2>3. PICK w \in Consecutive(y, Keys(y)) :
          hop = [at |-> w, a |-> y.activities[w[1]], b |-> y.activities[w[2]],
                 legs |-> {y.activities[n] : n \in LegsBetween(y, Keys(y), w)}]
    BY <2>1 DEF Hops
  <2>4. /\ hop.at = w /\ hop.a = y.activities[w[1]] /\ hop.b = y.activities[w[2]]
        /\ hop.legs = Legs3(y, w)
    BY <2>3 DEF Legs3
  <2>5. PICK named : named = {v \in r : /\ v.day = q.days[d].date
                                        /\ v.origin = hop.a.location
                                        /\ v.destination = hop.b.location}
    OBVIOUS
  <2>6. PICK a, b : a = x.activities[w[1]] /\ b = x.activities[w[2]] OBVIOUS
  <2>7. w \in Consecutive(x, Keys(x)) BY <2>2, <2>3, KeysAlike
  <2>8. w[1] \in DOMAIN x.activities /\ w[2] \in DOMAIN x.activities
    BY <2>7 DEF Consecutive, Neighbours, Stops
  <2>9. /\ hop.a.location = a.location /\ hop.b.location = b.location
        /\ hop.a.end_at = a.end_at /\ hop.b.start_at = b.start_at
    <3>1. AlikeVisit(x.activities[w[1]], y.activities[w[1]])
          /\ AlikeVisit(x.activities[w[2]], y.activities[w[2]])
      BY <2>2, <2>8 DEF AlikeDay
    <3> QED BY <2>4, <2>6, <3>1, AlikeFields
  <2>10. Gap(hop.a, hop.b) = Gap(a, b) BY <2>2, <2>4, <2>6, <2>8, HopAlike
  <2>11. DeclaredMode(hop.legs) = DeclaredMode(Legs3(x, w)) BY <2>2, <2>4, LegsAlike
  <2>12. (\A leg \in hop.legs : leg.journey = None)
           <=> \A leg \in Legs3(x, w) : leg.journey = None
    BY <2>2, <2>4, LegsAlike
  <2>13. y.date = x.date BY <2>2 DEF AlikeDay
  <2>14. CASE a.location = b.location \/ ~(Gap(a, b) >= 0) \/ \E leg \in hop.legs : leg.journey # None
    <3>1. Gap(a, b) \in Int
      <4>1. Clocked(a) /\ Clocked(b)
        BY <1>3, <2>1, <2>6, <2>8 DEF SoundPlan, SoundDay, Sound, Days
      <4>2. CASE a.end_at # None /\ b.start_at # None
        <5>1. Timestamp(a.end_at) /\ Timestamp(b.start_at) BY <4>1, <4>2 DEF Clocked
        <5>2. PICK s, t : s = a.end_at /\ t = b.start_at OBVIOUS
        <5> QED BY <4>2, <5>1, <5>2 DEF Gap, Timestamp
      <4>3. CASE ~(a.end_at # None /\ b.start_at # None)
        BY <4>1, <4>3 DEF Gap, Clocked
      <4> QED BY <4>2, <4>3
    <3>2. ~(Gap(a, b) >= 0) => Gap(a, b) < 0 BY <3>1
    <3> QED BY <2>5, <2>9, <2>10, <2>14, <3>2 DEF Passes
  <2>15. CASE /\ a.location # b.location /\ Gap(a, b) >= 0
              /\ \A leg \in hop.legs : leg.journey = None
    <3>1. TightInstead(p, d, w, a, b) \/ Questioned(p, d, w, a, b)
      <4>1. \A leg \in Legs3(p.days[d], w) : leg.journey = None BY <2>1, <2>12, <2>15
      <4>2. d \in Days(p) /\ w \in Consecutive(p.days[d], Keys(p.days[d])) BY <1>3, <2>1, <2>7
      <4>3. a = p.days[d].activities[w[1]] /\ b = p.days[d].activities[w[2]] BY <2>1, <2>6
      <4> QED BY <1>4, <2>15, <4>1, <4>2, <4>3, HopAsked
    <3>2. ASSUME NEW e \in Days(p), p.days[e].date = x.date,
                 NEW u \in Neighbours(DOMAIN p.days[e].activities, Keys(p.days[e])),
                 TooTight(p.days[e].activities[u[1]], p.days[e].activities[u[2]]),
                 p.days[e].activities[u[1]].location = a.location,
                 p.days[e].activities[u[2]].location = b.location,
                 <<e, u>> # <<d, w>>
          PROVE  TightElsewhere(q, d, hop)
      <4>1. PICK f, g, n, k : f = p.days[e] /\ g = q.days[e] /\ n = u[1] /\ k = u[2] OBVIOUS
      <4>2. AlikeDay(f, g) BY <1>3, <4>1
      <4>3. n \in DOMAIN f.activities /\ k \in DOMAIN f.activities
        BY <3>2, <4>1 DEF Neighbours
      <4>4. /\ g.activities[n].location = f.activities[n].location
            /\ g.activities[k].location = f.activities[k].location
        <5>1. AlikeVisit(f.activities[n], g.activities[n]) /\ AlikeVisit(f.activities[k], g.activities[k])
          BY <4>2, <4>3 DEF AlikeDay
        <5> QED BY <5>1, AlikeFields
      <4>5. TooTight(g.activities[n], g.activities[k]) BY <3>2, <4>1, <4>2, <4>3, HopAlike
      <4>6. u \in Neighbours(DOMAIN g.activities, Keys(g)) BY <3>2, <4>1, <4>2, KeysAlike
      <4>7. g.date = f.date BY <4>2, KeysAlike
      <4>8. e \in {z \in Days(q) : q.days[z].date = q.days[d].date}
        BY <1>3, <2>1, <2>13, <3>2, <4>1, <4>7
      <4>9. <<e, u>> # <<d, hop.at>> BY <2>4, <3>2
      <4> QED BY <2>9, <3>2, <4>1, <4>4, <4>5, <4>6, <4>8, <4>9 DEF TightElsewhere
    <3>3. ASSUME NEW v \in ToMeasure(p),
                 v.day = x.date, v.origin = a.location, v.destination = b.location,
                 v.gap = Gap(a, b), v.mode = DeclaredMode(Legs3(x, w)),
                 v.instant = a.end_at, v.deadline = b.start_at
          PROVE  Passes(q, d, hop, named)
      <4>1. v \in candidates /\ _needs_confirming(v) BY <1>5 DEF ToMeasure
      <4>2. v.code \in HopCodes BY <4>1 DEF _needs_confirming, HopCodes
      <4>3. /\ Verdict(v) = None <=> MinutesOf(hop) = None
            /\ Verdict(v) # None => Verdict(v).minutes = MinutesOf(hop) /\ MinutesOf(hop) \in Nat
        BY <2>9, <2>11, <3>3, VerdictIs
      <4>4. ASSUME NEW z \in r, z.day = v.day, z.origin = v.origin, z.destination = v.destination
            PROVE  z \in named
        BY <2>1, <2>5, <2>9, <2>13, <3>3, <4>4
      <4>5. CASE v \notin checked
        <5>1. v \in r BY <1>7, <4>1, <4>2, <4>5 DEF Confirmed
        <5>2. named # {} BY <4>4, <5>1
        <5>3. Cardinality(ToMeasure(q)) > MAX_TRANSFER_CHECKS
          BY <1>2, <1>8, <4>5, MeasureAlike
        <5> QED BY <5>2, <5>3 DEF Passes
      <4>6. CASE v \in checked
        <5>1. Judged(v, Verdict(v)) \subseteq r
          <6>1. Judged(v, Verdict(v)) \subseteq Confirmed(candidates, checked)
            BY <4>6 DEF Confirmed
          <6>2. \A z \in Judged(v, Verdict(v)) : z.code \in HopCodes
            BY <1>5, <4>1, JudgedIs
          <6> QED BY <1>7, <6>1, <6>2
        <5>2. CASE Verdict(v) = None
          <6>1. v \in r BY <5>1, <5>2 DEF Judged
          <6> QED BY <4>3, <4>4, <5>2, <6>1 DEF Passes
        <5>3. CASE Verdict(v) # None /\ Verdict(v).minutes + TRANSFER_MARGIN_MINUTES <= v.gap
          BY <2>10, <3>3, <4>3, <5>3 DEF Passes, TRANSFER_MARGIN_MINUTES
        <5>4. CASE Verdict(v) # None /\ ~(Verdict(v).minutes + TRANSFER_MARGIN_MINUTES <= v.gap)
          <6>1. PICK z : z \in Judged(v, Verdict(v)) BY <5>4 DEF Judged
          <6>2. /\ z.day = v.day /\ z.origin = v.origin /\ z.destination = v.destination
                /\ z.code = "insufficient_transfer"
            BY <1>5, <4>1, <5>4, <6>1, JudgedIs
          <6>3. z \in named BY <4>4, <5>1, <6>1, <6>2
          <6>4. z \in blocking(named) BY <6>2, <6>3 DEF blocking, ADVISORY_CODES
          <6> QED BY <4>3, <5>4, <6>4 DEF Passes
        <5> QED BY <5>2, <5>3, <5>4
      <4> QED BY <4>5, <4>6
    <3>4. CASE TightElsewhere(q, d, hop) BY <2>5, <3>4 DEF Passes
    <3>5. CASE TightInstead(p, d, w, a, b)
      BY <2>1, <3>2, <3>4, <3>5 DEF TightInstead
    <3>6. CASE Questioned(p, d, w, a, b)
      BY <2>1, <2>5, <3>3, <3>6 DEF Questioned
    <3> QED BY <2>5, <3>1, <3>5, <3>6
  <2> QED BY <2>12, <2>14, <2>15
<1> QED BY <1>1, <1>9 DEF HopsJudged

-----------------------------------------------------------------------------
(* The verdict of a validation, and what becomes of it.                     *)

Clear(m) == /\ DoorsJudged(m.plan, m.report)
            /\ HopsJudged(m.plan, m.report)
            /\ JourneysClear(m.plan, m.report)

LEMMA MeasuredClear ==
    ASSUME trip \in Trips, NEW p, SoundPlan(p), NEW m \in Measured(p, check(p))
    PROVE  Clear(m)
BY MeasuredDoors, MeasuredHops, MeasuredJourneys DEF Clear

LEMMA FallbackClear ==
    ASSUME trip \in Trips, NEW judged, Settled(judged), Clear(judged), NEW end \in Fallback(judged)
    PROVE  Clear(end.result)
<1>1. \/ end.result = judged
      \/ \E found \in Trials(judged) :
            \E trial \in Measured(costed(found, <<>>), check(costed(found, <<>>))) :
               end.result = trial
  BY DEF Fallback
<1>2. ASSUME NEW found \in Trials(judged),
             end.result \in Measured(costed(found, <<>>), check(costed(found, <<>>)))
      PROVE  Clear(end.result)
  <2>1. Kept(found, trip.previous, Locked) BY TrialKept
  <2>2. Kept(costed(found, <<>>), trip.previous, Locked) BY <2>1, CostedKept
  <2> QED BY <1>2, <2>2, MeasuredClear DEF Kept
<1> QED BY <1>1, <1>2

(* What is judged by the same trip is judged the same in the next state.    *)
LEMMA SameTrip ==
    ASSUME trip' = trip
    PROVE  /\ \A day, a : CaughtOut(day, a)' <=> CaughtOut(day, a)
           /\ \A draft, d, hop, named : Passes(draft, d, hop, named)' <=> Passes(draft, d, hop, named)
<1>1. \A day, a : CaughtOut(day, a)' <=> CaughtOut(day, a) BY DEF CaughtOut
<1>2. \A hop : MinutesOf(hop)' = MinutesOf(hop) BY DEF MinutesOf
<1>3. \A draft : check(draft)' = check(draft) BY DEF check
<1>4. \A draft : ToMeasure(draft)' = ToMeasure(draft) BY <1>3 DEF ToMeasure
<1>5. \A draft, d, hop, named : Passes(draft, d, hop, named)' <=> Passes(draft, d, hop, named)
  BY <1>2, <1>4 DEF Passes
<1> QED BY <1>1, <1>5

LEMMA ClearNext ==
    ASSUME trip' = trip, NEW m, itinerary' = m.plan, report' = m.report, Clear(m)
    PROVE  ClockJudged'
<1>1. PICK draft, r : draft = m.plan /\ r = m.report OBVIOUS
<1>2. itinerary' = draft /\ report' = r BY <1>1
<1>3. DoorsJudged(draft, r) /\ HopsJudged(draft, r) /\ JourneysClear(draft, r) BY <1>1 DEF Clear
<1>4. DoorsJudged(itinerary, report)'
  <2>1. \A date \in {draft.days[d].date : d \in Days(draft)} :
           (\E v \in r : v.code = "outside_opening_hours" /\ v.day = date)
             <=> \E d \in Days(draft) :
                   /\ draft.days[d].date = date
                   /\ \E a \in Activities(draft.days[d]) : CaughtOut(draft.days[d], a)
    BY <1>3 DEF DoorsJudged
  <2>2. ASSUME NEW d
        PROVE  (\E a \in Activities(draft.days[d]) : CaughtOut(draft.days[d], a)')
                 <=> \E a \in Activities(draft.days[d]) : CaughtOut(draft.days[d], a)
    <3>1. PICK day : day = draft.days[d] OBVIOUS
    <3>2. \A a : CaughtOut(day, a)' <=> CaughtOut(day, a) BY SameTrip
    <3>3. (\E a \in Activities(day) : CaughtOut(day, a)')
            <=> \E a \in Activities(day) : CaughtOut(day, a)
      BY <3>2
    <3> QED BY <3>1, <3>3
  <2>3. \A date \in {draft.days[d].date : d \in Days(draft)} :
           (\E v \in r : v.code = "outside_opening_hours" /\ v.day = date)
             <=> \E d \in Days(draft) :
                   /\ draft.days[d].date = date
                   /\ \E a \in Activities(draft.days[d]) : CaughtOut(draft.days[d], a)'
    BY <2>1, <2>2
  <2> QED BY <1>2, <2>3 DEF DoorsJudged
<1>5. HopsJudged(itinerary, report)'
  <2> DEFINE named(q, s, d, hop) == {v \in s : /\ v.day = q.days[d].date
                                               /\ v.origin = hop.a.location
                                               /\ v.destination = hop.b.location}
  <2>1. \A d \in Days(draft) : \A hop \in Hops(draft.days[d]) :
           Passes(draft, d, hop, named(draft, r, d, hop))
    BY <1>3 DEF HopsJudged
  <2>2. \A d \in Days(draft) : \A hop \in Hops(draft.days[d]) :
           Passes(draft, d, hop, named(draft, r, d, hop))'
    <3> TAKE d \in Days(draft)
    <3> TAKE hop \in Hops(draft.days[d])
    <3>1. PICK some : some = named(draft, r, d, hop) OBVIOUS
    <3>2. Passes(draft, d, hop, some) BY <2>1, <3>1
    <3>3. Passes(draft, d, hop, some)' BY <3>2, SameTrip
    <3> QED BY <3>1, <3>3
  <2> QED BY <1>2, <2>2 DEF HopsJudged
<1>6. JourneysClear(itinerary, report)' BY <1>2, <1>3 DEF JourneysClear
<1> QED BY <1>4, <1>5, <1>6 DEF ClockJudged

(* After any validation the report is right about the plan it leaves.       *)
LEMMA ClockStep == ReviewInv /\ ClockJudged /\ [ReviewNext]_reviewVars => ClockJudged'
<1> SUFFICES ASSUME ReviewInv, ClockJudged, [ReviewNext]_reviewVars PROVE ClockJudged'
  OBVIOUS
<1>1. CASE Propose
  <2>1. stage' = "validate" BY <1>1 DEF Propose
  <2> QED BY <2>1 DEF ClockJudged
<1>2. CASE Validate
  <2>1. trip' = trip /\ trip \in Trips BY <1>2 DEF Validate, ReviewInv
  <2>2. PICK pruned, first :
          /\ pruned = prune_removed_recommendations(itinerary, trip.removals, Locked)
          /\ first = costed(pruned, <<>>)
    OBVIOUS
  <2>3. Kept(itinerary, trip.previous, Locked) BY <1>2 DEF Validate, ReviewInv
  <2>4. Kept(first, trip.previous, Locked) BY <2>2, <2>3, PrunedKept, CostedKept
  <2>5. \E judged \in Measured(first, check(first)) :
           \E end \in Fallback(judged) \cup {[result |-> judged, swapped |-> FALSE]} :
              itinerary' = end.result.plan /\ report' = end.result.report
    BY <1>2, <2>2 DEF Validate
  <2>6. PICK judged \in Measured(first, check(first)) :
           \E end \in Fallback(judged) \cup {[result |-> judged, swapped |-> FALSE]} :
              itinerary' = end.result.plan /\ report' = end.result.report
    BY <2>5
  <2>7. PICK end \in Fallback(judged) \cup {[result |-> judged, swapped |-> FALSE]} :
              itinerary' = end.result.plan /\ report' = end.result.report
    BY <2>6
  <2>8. Settled(judged) BY <2>4, <2>6, MeasuredSettled
  <2>9. Clear(judged) BY <2>1, <2>4, <2>6, MeasuredClear DEF Kept
  <2>10. Clear(end.result)
    <3>1. CASE end \in Fallback(judged) BY <2>1, <2>8, <2>9, <3>1, FallbackClear
    <3>2. CASE end = [result |-> judged, swapped |-> FALSE] BY <2>9, <3>2
    <3> QED BY <2>7, <3>1, <3>2
  <2> QED BY <2>1, <2>7, <2>10, ClearNext
<1>3. CASE UNCHANGED reviewVars
  <2>1. trip' = trip /\ stage' = stage /\ itinerary' = itinerary /\ report' = report
    BY <1>3 DEF reviewVars
  <2>2. CASE stage = "judged"
    <3>1. PICK m : m = [plan |-> itinerary, report |-> report] OBVIOUS
    <3>2. m.plan = itinerary /\ m.report = report BY <3>1
    <3>3. Clear(m) BY <2>2, <3>2 DEF Clear, ClockJudged
    <3> QED BY <2>1, <3>2, <3>3, ClearNext
  <2>3. CASE stage # "judged" BY <2>1, <2>3 DEF ClockJudged
  <2> QED BY <2>2, <2>3
<1> QED BY <1>1, <1>2, <1>3 DEF ReviewNext

(* The verdict of a validation is right about the clock, for any trips, any *)
(* plans and any number of repairs and swaps: the report names the dates on *)
(* which a door is shut and no others; no hop passes on hope; and a plan    *)
(* without blocking findings keeps to its booked journeys                   *)
(* (validate_itinerary, confirm_transfers and the node validate).           *)
THEOREM ClockSafe == ReviewSpec => []ClockJudged
<1>1. ReviewInit => ReviewInv /\ ClockJudged
  BY DEF ReviewInit, ReviewInv, ClockJudged, CostsSettled
<1>2. ReviewInv /\ ClockJudged /\ [ReviewNext]_reviewVars => (ReviewInv /\ ClockJudged)'
  BY ReviewStep, ClockStep
<1> QED BY <1>1, <1>2, PTL DEF ReviewSpec

-----------------------------------------------------------------------------
(* Neither prices nor recommendations are where or when a visit is.         *)
SamePlan(p, q) ==
    /\ Shaped(q, p)
    /\ \A d \in DOMAIN p.days : q.days[d].date = p.days[d].date
    /\ \A x \in Places(p) : SameName(At(p, x), At(q, x)) /\ SameTime(At(p, x), At(q, x))

LEMMA SamePlaces ==
    ASSUME NEW p, NEW q, Shaped(q, p)
    PROVE  Places(q) = Places(p)
<1>1. \A x : x \in Places(q) <=> x \in Places(p) BY PlaceIs DEF Shaped
<1> QED BY <1>1

LEMMA SameTwice ==
    ASSUME NEW p, NEW q, NEW r, SamePlan(p, q), SamePlan(q, r)
    PROVE  SamePlan(p, r)
<1>1. Places(q) = Places(p) BY SamePlaces DEF SamePlan
<1>2. Shaped(r, p) BY DEF SamePlan, Shaped
<1>3. \A d \in DOMAIN p.days : r.days[d].date = p.days[d].date BY DEF SamePlan, Shaped
<1>4. \A x \in Places(p) : SameName(At(p, x), At(r, x)) /\ SameTime(At(p, x), At(r, x))
  BY <1>1 DEF SamePlan, SameName, SameTime
<1> QED BY <1>2, <1>3, <1>4 DEF SamePlan

LEMMA CostedSame ==
    ASSUME NEW p, SoundPlan(p), NEW found
    PROVE  SoundPlan(costed(p, found)) /\ SamePlan(p, costed(p, found))
<1>1. PICK q : q = costed(p, found) OBVIOUS
<1>2. SoundPlan(q) /\ AlikePlan(p, q) BY <1>1, PlanSettled DEF costed
<1>3. Shaped(q, p) /\ \A d \in DOMAIN p.days : q.days[d].date = p.days[d].date
  BY <1>2 DEF AlikePlan, AlikeDay, Shaped
<1>4. ASSUME NEW x \in Places(p)
      PROVE  SameName(At(p, x), At(q, x)) /\ SameTime(At(p, x), At(q, x))
  <2>1. PICK a, b : a = At(p, x) /\ b = At(q, x) OBVIOUS
  <2>2. AlikeVisit(a, b) BY <1>2, <2>1, PlacesAlike
  <2>3. b.booked = a.booked BY <2>2 DEF AlikeVisit, ActivityFields, CostFields
  <2>4. SameName(a, b) /\ SameTime(a, b) BY <2>2, <2>3, AlikeFields DEF SameName, SameTime
  <2> QED BY <2>1, <2>4
<1> QED BY <1>1, <1>2, <1>3, <1>4 DEF SamePlan

LEMMA PrunedSame ==
    ASSUME NEW p, SoundPlan(p), NEW removals, NEW locked
    PROVE  SamePlan(p, prune_removed_recommendations(p, removals, locked))
<1> DEFINE names(d) == {r.venue : r \in {x \in removals : x.day \in {None, d}}}
           visit(d, a) == [a EXCEPT !.highlights = @ \ names(d)]
           pruned(d, day) == [day EXCEPT !.activities = [i \in DOMAIN @ |-> visit(d, @[i])]]
<1>1. PICK days : days = [d \in DOMAIN p.days |->
                            IF d \in locked THEN p.days[d] ELSE pruned(d, p.days[d])]
  OBVIOUS
<1>2. PICK q : q = prune_removed_recommendations(p, removals, locked) OBVIOUS
<1>3. q = [p EXCEPT !.days = days] BY <1>1, <1>2 DEF prune_removed_recommendations
<1>4. q.days = days BY <1>3 DEF SoundPlan, PlanFields
<1>5. ASSUME NEW d, NEW a, Sound(a) PROVE SameName(a, visit(d, a)) /\ SameTime(a, visit(d, a))
  BY <1>5 DEF Sound, ActivityFields, SameName, SameTime
<1> HIDE DEF visit
<1>6. ASSUME NEW d \in DOMAIN p.days
      PROVE  /\ days[d].date = p.days[d].date
             /\ DOMAIN days[d].activities = DOMAIN p.days[d].activities
             /\ \A i \in DOMAIN p.days[d].activities :
                   /\ SameName(p.days[d].activities[i], days[d].activities[i])
                   /\ SameTime(p.days[d].activities[i], days[d].activities[i])
  <2>1. PICK day : day = p.days[d] /\ SoundDay(day) BY DEF SoundPlan
  <2>2. {"date", "activities"} \subseteq DOMAIN day
        /\ \A i \in DOMAIN day.activities : Sound(day.activities[i])
    BY <2>1 DEF SoundDay
  <2>3. CASE d \in locked
    <3>1. days[d] = day BY <1>1, <2>1, <2>3
    <3> QED BY <2>1, <3>1 DEF SameName, SameTime
  <2>4. CASE d \notin locked
    <3>1. PICK as : as = [i \in DOMAIN day.activities |-> visit(d, day.activities[i])] OBVIOUS
    <3>2. days[d] = [day EXCEPT !.activities = as] BY <1>1, <2>1, <2>4, <3>1
    <3>3. days[d].date = day.date /\ days[d].activities = as BY <2>2, <3>2
    <3>4. \A i \in DOMAIN day.activities : as[i] = visit(d, day.activities[i]) BY <3>1
    <3> QED BY <1>5, <2>1, <2>2, <3>1, <3>3, <3>4
  <2> QED BY <2>3, <2>4
<1>7. Shaped(q, p)
  <2>1. DOMAIN days = DOMAIN p.days BY <1>1
  <2> QED BY <1>4, <1>6, <2>1 DEF Shaped
<1>8. ASSUME NEW x \in Places(p)
      PROVE  SameName(At(p, x), At(q, x)) /\ SameTime(At(p, x), At(q, x))
  <2>1. x[1] \in DOMAIN p.days /\ x[2] \in DOMAIN p.days[x[1]].activities BY PlaceOf
  <2> QED BY <1>4, <1>6, <2>1 DEF At
<1> QED BY <1>2, <1>4, <1>6, <1>7, <1>8 DEF SamePlan

LEMMA ClosedSame ==
    ASSUME NEW p, NEW q, SamePlan(p, q), NEW x \in Places(p), NEW ctx
    PROVE  ClosedAt(q, x, ctx) <=> ClosedAt(p, x, ctx)
<1>1. PICK a, b : a = At(p, x) /\ b = At(q, x) OBVIOUS
<1>2. SameName(a, b) /\ SameTime(a, b) BY <1>1 DEF SamePlan
<1>3. _match_known(b, ctx.hours) = _match_known(a, ctx.hours) BY <1>2, MatchSame DEF SameName
<1>4. q.days[x[1]].date = p.days[x[1]].date BY PlaceOf DEF SamePlan
<1> QED BY <1>1, <1>2, <1>3, <1>4 DEF ClosedAt, SameName, SameTime, _is_transport

(* The place of a visit is the name that is matched first.                  *)
LEMMA NamedIs ==
    ASSUME NEW a, NEW hours, a.location \in DOMAIN hours,
           NameLength[a.location] \in Nat, NameLength[a.location] >= MIN_VENUE_MATCH_CHARS
    PROVE  NameIn(a, hours) = a.location
<1>1. PICK place, known : place = a.location /\ known = [name \in DOMAIN hours |-> name] OBVIOUS
<1>2. PICK names : names = {n \in DOMAIN known : /\ NameLength[n] >= MIN_VENUE_MATCH_CHARS
                                                 /\ n \in a.mentions \cup {a.location, a.title}}
  OBVIOUS
<1>3. place \in names BY <1>1, <1>2
<1>4. Longest(a, names) = {place}
  <2>1. PICK ranks : ranks = {Rank(a, n) : n \in names} OBVIOUS
  <2>2. 3 \in ranks /\ \A r \in ranks : r \in 1 .. 3 BY <1>1, <1>3, <2>1 DEF Rank
  <2>3. Max(ranks) = 3
    <3>1. \E x \in ranks : \A y \in ranks : x >= y BY <2>2
    <3>2. Max(ranks) \in ranks /\ \A y \in ranks : Max(ranks) >= y BY <3>1 DEF Max
    <3>3. Max(ranks) \in 1 .. 3 /\ Max(ranks) >= 3 BY <2>2, <3>2
    <3> QED BY <3>3
  <2>4. PICK top : top = {n \in names : Rank(a, n) = 3} OBVIOUS
  <2>5. top = {place} BY <1>1, <1>3, <2>4 DEF Rank
  <2>6. Longest(a, names) = {n \in top : NameLength[n] = Max({NameLength[m] : m \in top})}
    BY <2>1, <2>3, <2>4 DEF Longest
  <2>7. Max({NameLength[m] : m \in top}) = NameLength[place]
    <3>1. PICK length \in Nat : length = NameLength[place] BY <1>1
    <3>2. {NameLength[m] : m \in top} = {length, length} BY <2>5, <3>1
    <3>3. Max({length, length}) = length BY <3>1, MaxOfTwo
    <3> QED BY <3>1, <3>2, <3>3
  <2> QED BY <2>5, <2>6, <2>7
<1>5. NameIn(a, hours) = IF Cardinality({place}) = 1 THEN known[CHOOSE n \in {place} : TRUE] ELSE None
  BY <1>1, <1>2, <1>3, <1>4 DEF NameIn, _match_known
<1>6. Cardinality({place}) = 1 BY FS_Singleton
<1> QED BY <1>1, <1>5, <1>6

LEMMA FairIsSpared ==
    ASSUME trip \in Trips, NEW p, SoundPlan(p), NEW x \in Places(p), NEW b,
           Fair(p, x, b, Context)
    PROVE  Spared(p, x, b)
<1>1. PICK a : a = At(p, x) OBVIOUS
<1>2. Context.hours = trip.hours /\ Context.venues = trip.words.venues
  BY TripsAssumption DEF TripsAssumption, Context
<1>3. PICK from \in Int, to \in Int : from = a.from /\ to = a.to
  <2>1. x[1] \in DOMAIN p.days /\ x[2] \in DOMAIN p.days[x[1]].activities BY PlaceOf
  <2>2. Clocked(a) BY <1>1, <2>1 DEF SoundPlan, SoundDay, Sound, At
  <2> QED BY <2>2 DEF Clocked
<1>4. ASSUME a.location \in trip.words.venues \cap DOMAIN trip.hours,
             NameLength[a.location] >= MIN_VENUE_MATCH_CHARS
      PROVE  NameIn(a, Context.hours) \in Context.venues
  <2>1. NameLength[a.location] \in Nat BY <1>4, TripsAssumption DEF TripsAssumption
  <2>2. NameIn(a, trip.hours) = a.location BY <1>4, <2>1, NamedIs
  <2> QED BY <1>2, <1>4, <2>2
<1>5. /\ b.category = a.category
      /\ \/ SameName(a, b)
         \/ /\ ClosedAt(p, x, Context) /\ ~a.booked
            /\ NameIn(a, Context.hours) \notin Context.venues
      /\ \/ SameTime(a, b)
         \/ ClosedAt(p, x, Context) /\ ~a.booked
         \/ ~Fixed(a, Context) /\ Ahead(p, x, Context)
      /\ b.category = "transport" => b.to - b.from = a.to - a.from
  BY <1>1 DEF Fair
<1>6. a.booked \/ (a.category = "accommodation" \/ NameIn(a, Context.hours) \in Context.venues)
        => Fixed(a, Context)
  BY DEF Fixed, Reserved_By
<1>7. SameTime(a, b) => ~(b.from < a.from \/ b.to < a.to) BY <1>3 DEF SameTime
<1>8. ClosedAt(p, x, Context) => Ahead(p, x, Context)
  BY FinitePlaces DEF Ahead
<1>9. a.booked \/ (/\ a.category = "accommodation" \/ NameIn(a, Context.hours) \in Context.venues
                   /\ ~ClosedAt(p, x, Context))
        => <<a.from, a.to>> = <<b.from, b.to>>
  BY <1>5, <1>6 DEF SameTime
<1>10. a.booked \/ NameIn(a, Context.hours) \in Context.venues => a.location = b.location
  BY <1>5 DEF SameName
<1>11. b.from < a.from \/ b.to < a.to => Ahead(p, x, Context) BY <1>5, <1>7, <1>8
<1> QED BY <1>1, <1>4, <1>5, <1>9, <1>10, <1>11 DEF Spared, Ahead

(* The plan before a validation, the one it measured, an alternative of it, *)
(* and the one it left.                                                     *)
LEMMA SwapIsFair ==
    ASSUME trip \in Trips, NEW p, SoundPlan(p), NEW judged, SamePlan(p, judged),
           NEW found, Shaped(found, judged), FairPlan(judged, found, Context),
           NEW q, SamePlan(found, q)
    PROVE  Places(q) = Places(p) /\ \A x \in Places(p) : Spared(p, x, At(q, x))
<1>1. Places(judged) = Places(p) /\ Places(found) = Places(p) /\ Places(q) = Places(p)
  BY SamePlaces DEF SamePlan
<1>2. ASSUME NEW x \in Places(p) PROVE Fair(p, x, At(q, x), Context)
  <2>1. PICK a, b, c, d : /\ a = At(p, x) /\ b = At(judged, x)
                          /\ c = At(found, x) /\ d = At(q, x)
    OBVIOUS
  <2>2. SameName(a, b) /\ SameTime(a, b) BY <2>1 DEF SamePlan
  <2>3. SameName(c, d) /\ SameTime(c, d) BY <1>1, <2>1 DEF SamePlan
  <2>4. Fair(judged, x, c, Context) BY <1>1, <2>1 DEF FairPlan
  <2>5. Fair(judged, x, d, Context) BY <2>3, <2>4, FairKept
  <2>6. \A y \in Places(p) : ClosedAt(judged, y, Context) <=> ClosedAt(p, y, Context)
    BY ClosedSame
  <2>7. Ahead(judged, x, Context) <=> Ahead(p, x, Context) BY <1>1, <2>6 DEF Ahead
  <2>8. NameIn(b, Context.hours) = NameIn(a, Context.hours) /\ (Fixed(b, Context) <=> Fixed(a, Context))
    BY <2>2, FixedSame
  <2>9. Fair(p, x, d, Context)
    BY <2>1, <2>2, <2>5, <2>6, <2>7, <2>8 DEF Fair, SameName, SameTime
  <2> QED BY <2>1, <2>9
<1> QED BY <1>1, <1>2, FairIsSpared

LEMMA FallbackFair ==
    ASSUME trip \in Trips, NEW judged, Settled(judged), NEW end \in Fallback(judged), end.swapped
    PROVE  /\ blocking(end.result.report) = {}
           /\ \E found : /\ Shaped(found, judged.plan)
                         /\ FairPlan(judged.plan, found, Context)
                         /\ SamePlan(found, end.result.plan)
<1>1. \E found \in Trials(judged) :
         \E trial \in Measured(costed(found, <<>>), check(costed(found, <<>>))) :
            end.result = trial /\ Adopted(judged, trial)
  BY DEF Fallback
<1>2. PICK found \in Trials(judged) :
         /\ end.result \in Measured(costed(found, <<>>), check(costed(found, <<>>)))
         /\ Adopted(judged, end.result)
  BY <1>1
<1>3. PICK k \in DOMAIN hours_candidates(judged.plan, Context) :
             found = hours_candidates(judged.plan, Context)[k]
  BY DEF Trials
<1>4. /\ Kept(found, judged.plan, Context.locked) /\ Shaped(found, judged.plan)
      /\ FairPlan(judged.plan, found, Context)
  <2>1. SoundPlan(judged.plan) BY DEF Settled, Kept
  <2>2. \A n \in DOMAIN Context.hours : Listing(Context.hours[n])
    BY ContextIs, TripsAssumption DEF TripsAssumption
  <2>3. Context.restaurants \in Seq(ToSet(Context.restaurants))
    BY ContextIs, TripsAssumption DEF TripsAssumption
  <2> QED BY <1>3, <2>1, <2>2, <2>3, TripsAssumption, CandidatesFair DEF TripsAssumption
<1>5. \E facts_ : end.result.plan = costed(costed(found, <<>>), facts_)
  BY <1>2 DEF Measured
<1>6. SamePlan(found, end.result.plan)
  <2>1. SoundPlan(found) BY <1>4 DEF Kept
  <2>2. SoundPlan(costed(found, <<>>)) /\ SamePlan(found, costed(found, <<>>))
    BY <2>1, CostedSame
  <2> QED BY <1>5, <2>2, CostedSame, SameTwice
<1> QED BY <1>2, <1>4, <1>6 DEF Adopted

LEMMA SwapStep ==
    ASSUME ReviewInv, Validate, swapped'
    PROVE  /\ blocking(report') = {}
           /\ Places(itinerary') = Places(itinerary)
           /\ \A x \in Places(itinerary) : Spared(itinerary, x, At(itinerary', x))
<1>1. PICK before, after, verdict : before = itinerary /\ after = itinerary' /\ verdict = report'
  OBVIOUS
<1>2. trip \in Trips /\ Kept(before, trip.previous, Locked)
  BY <1>1 DEF Validate, ReviewInv
<1>3. PICK pruned, first :
        /\ pruned = prune_removed_recommendations(before, trip.removals, Locked)
        /\ first = costed(pruned, <<>>)
  OBVIOUS
<1>4. \E judged \in Measured(first, check(first)) :
        \E end \in Fallback(judged) \cup {[result |-> judged, swapped |-> FALSE]} :
           itinerary' = end.result.plan /\ report' = end.result.report /\ swapped' = end.swapped
  BY <1>1, <1>3 DEF Validate
<1>5. PICK judged \in Measured(first, check(first)) :
        \E end \in Fallback(judged) \cup {[result |-> judged, swapped |-> FALSE]} :
           itinerary' = end.result.plan /\ report' = end.result.report /\ swapped' = end.swapped
  BY <1>4
<1>6. PICK end \in Fallback(judged) \cup {[result |-> judged, swapped |-> FALSE]} :
        itinerary' = end.result.plan /\ report' = end.result.report /\ swapped' = end.swapped
  BY <1>5
<1>7. end.swapped BY <1>6
<1>8. end \in Fallback(judged)
  <2>1. CASE end = [result |-> judged, swapped |-> FALSE]
    <3>1. end.swapped = FALSE BY <2>1
    <3> QED BY <1>7, <3>1
  <2> QED BY <2>1
<1>9. SoundPlan(before) /\ SoundPlan(pruned) /\ Kept(first, trip.previous, Locked)
  <2>1. Kept(pruned, trip.previous, Locked) BY <1>2, <1>3, PrunedKept
  <2>2. Kept(first, trip.previous, Locked) BY <1>3, <2>1, CostedKept
  <2> QED BY <1>2, <2>1, <2>2 DEF Kept
<1>10. Settled(judged) BY <1>5, <1>9, MeasuredSettled
<1>11. SamePlan(before, judged.plan)
  <2>1. SamePlan(before, pruned) BY <1>3, <1>9, PrunedSame
  <2>2. SoundPlan(first) /\ SamePlan(pruned, first) BY <1>3, <1>9, CostedSame
  <2>3. \E found : judged.plan = costed(first, found) BY <1>5 DEF Measured
  <2>4. SamePlan(first, judged.plan) BY <2>2, <2>3, CostedSame
  <2> QED BY <2>1, <2>2, <2>4, SameTwice
<1>12. blocking(verdict) = {}
       /\ \E found : /\ Shaped(found, judged.plan)
                     /\ FairPlan(judged.plan, found, Context)
                     /\ SamePlan(found, after)
  BY <1>1, <1>2, <1>6, <1>7, <1>8, <1>10, FallbackFair
<1>13. PICK found : /\ Shaped(found, judged.plan)
                    /\ FairPlan(judged.plan, found, Context)
                    /\ SamePlan(found, after)
  BY <1>12
<1>14. Places(after) = Places(before) /\ \A x \in Places(before) : Spared(before, x, At(after, x))
  BY <1>2, <1>9, <1>11, <1>13, SwapIsFair
<1> QED BY <1>1, <1>12, <1>14

(* An alternative the server adopts on its own has no violation left, and   *)
(* for any trips: what is booked is where and when it was; lodging, and     *)
(* what the traveller named, is not moved to make room nor replaced; legs   *)
(* take as long; and nothing becomes earlier that has no closed door ahead  *)
(* (hours_candidates and the node validate).                                *)
THEOREM SwapsSafe == ReviewSpec => SwapsHonest
<1>1. ReviewInit => ReviewInv BY DEF ReviewInit, ReviewInv, CostsSettled
<1>2. ReviewInv /\ [ReviewNext]_reviewVars =>
        [stage = "validate" /\ swapped' =>
            /\ blocking(report') = {}
            /\ Places(itinerary') = Places(itinerary)
            /\ \A x \in Places(itinerary) : Spared(itinerary, x, At(itinerary', x))]_reviewVars
  <2> SUFFICES ASSUME ReviewInv, ReviewNext, stage = "validate", swapped'
               PROVE  /\ blocking(report') = {}
                      /\ Places(itinerary') = Places(itinerary)
                      /\ \A x \in Places(itinerary) : Spared(itinerary, x, At(itinerary', x))
    OBVIOUS
  <2>1. Validate BY DEF ReviewNext, Propose
  <2> QED BY <2>1, SwapStep
<1> QED BY <1>1, <1>2, ReviewStep, PTL DEF ReviewSpec, SwapsHonest
=============================================================================

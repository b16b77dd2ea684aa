----------------------------- MODULE PlanScreen -----------------------------
(***************************************************************************)
(* The planner as a conversation on the phone: PlanViewModel.kt with the   *)
(* stored rounds of ChatTurnRepository.kt.  A message sent while a plan is *)
(* on screen revises that plan; finished rounds survive a restart.         *)
(*                                                                         *)
(* Every request made to the server has a number of its own (`ask`), and a *)
(* reply is known by the request it answers or by the saved plan it came   *)
(* from.  The view model lives on the main thread: a step is what it does  *)
(* between two suspensions.  Database writes happen in order, a read may   *)
(* overtake them.                                                          *)
(***************************************************************************)
EXTENDS Integers, FiniteSets, SequencesExt

CONSTANTS
    Library,     \* plans that can be handed over from the library
    Keep,        \* ChatTurnEntity.KEEP
    MaxAsks,     \* bound: requests the traveller makes
    MaxRestarts, \* bound: times the process dies
    MaxWaiting,  \* bound: statements waiting when a conversation is cleared
    None         \* no plan, no reply

ASSUME NoneAssumption == None \notin (1 .. MaxAsks) \cup Library
ASSUME KeepAssumption == Keep \in Nat \ {0}
ASSUME BoundsAssumption == {MaxAsks, MaxRestarts, MaxWaiting} \subseteq Nat

VARIABLES
    transcript,
    nextId,
    jobs,        \* the runs that are under way
    stopping,    \* runs that were stopped and may find an event in their channel
    rows,        \* chat_turns of this account, by row id
    lastRow,     \* the newest row id ever given
    writes,      \* statements waiting for the database
    reading,     \* a restore that has not read yet
    restored,    \* what finished reads found, not yet adopted
    asks,        \* history: requests made
    answered,    \* history: replies remembered since the last clear
    restarts     \* history: times the process died

screen == <<transcript, nextId>>
database == <<rows, lastRow, writes, answered>>
restore == <<reading, restored>>
vars == <<screen, jobs, stopping, database, restore, asks, restarts>>

SAVED_SEED_ID == -1
Asks == 1 .. MaxAsks
States == {"running", "loaded", "error", "cancelled"}
Kinds == {"plan", "question", "nothing"}
Reply == [kind : Kinds, of : Asks \cup Library]
Exchange == [id : Int, ask : Asks \cup Library, state : States,
             reply : Reply \cup {None}, revision : BOOLEAN]
Kept == [kind : {"plan", "question"}, of : Asks]
Row == [id : Nat, reply : Kept, revision : BOOLEAN]
Job == [id : Nat, ask : Asks, previous : Asks \cup Library \cup {None},
        seen : BOOLEAN, mode : {"stream", "fallback"}]
-----------------------------------------------------------------------------
Init ==
    /\ transcript = <<>> /\ nextId = 1 /\ jobs = {} /\ stopping = {}
    /\ rows = <<>> /\ lastRow = 0 /\ writes = <<>>
    /\ reading = FALSE /\ restored = {}
    /\ asks = 0 /\ answered = <<>> /\ restarts = 0

anyRunning == \E i \in DOMAIN transcript : transcript[i].state = "running"
IsLoaded(e) == e.state = "loaded"
HasPlan(e) == IsLoaded(e) /\ e.reply.kind = "plan"

(* The plan of the last of some exchanges.                                 *)
LastOf(indices) == IF indices = {} THEN None ELSE transcript[Max(indices)].reply.of

(* The newest plan on screen, or the newest with a smaller id.             *)
Plans == {i \in DOMAIN transcript : HasPlan(transcript[i])}
latestItinerary == LastOf(Plans)
latestItineraryBefore(id) == LastOf({i \in Plans : transcript[i].id < id})
Shown(id) == \E e \in Range(transcript) : e.id = id
OfId(id) == CHOOSE e \in Range(transcript) : e.id = id
Update(id, transformed) ==
    [i \in DOMAIN transcript |->
        IF transcript[i].id = id THEN transformed[i] ELSE transcript[i]]
SetState(id, state) ==
    Update(id, [i \in DOMAIN transcript |-> [transcript[i] EXCEPT !.state = state]])

Request(id, previous) ==
    [id |-> id, ask |-> asks + 1, previous |-> previous,
     seen |-> FALSE, mode |-> "stream"]

-----------------------------------------------------------------------------
(* The traveller.                                                          *)
MayStart_Always == TRUE

MayStart == ~anyRunning

Send ==
    /\ MayStart /\ asks < MaxAsks
    /\ transcript' = Append(transcript,
          [id |-> nextId, ask |-> asks + 1, state |-> "running", reply |-> None,
           revision |-> latestItinerary # None])
    /\ jobs' = jobs \cup {Request(nextId, latestItinerary)}
    /\ nextId' = nextId + 1
    /\ asks' = asks + 1
    /\ UNCHANGED <<stopping, database, restore, restarts>>

Retry(i) ==
    /\ i \in DOMAIN transcript
    /\ ~anyRunning /\ asks < MaxAsks
    /\ LET e == transcript[i]
           previous == IF e.revision THEN latestItineraryBefore(e.id) ELSE None
       IN  /\ e.state \in {"error", "cancelled"}
           /\ transcript' = [transcript EXCEPT ![i].state = "running", ![i].ask = asks + 1]
           /\ jobs' = jobs \cup {Request(e.id, previous)}
    /\ asks' = asks + 1
    /\ UNCHANGED <<nextId, stopping, database, restore, restarts>>

Stopped(j) == jobs \ {j}

Cancel ==
    \E j \in jobs :
        /\ \E e \in Range(transcript) : e.id = j.id /\ e.state = "running"
        /\ jobs' = Stopped(j)
        /\ stopping' = stopping \cup {j}
        /\ transcript' = SetState(j.id, "cancelled")
        /\ UNCHANGED <<nextId, database, restore, asks, restarts>>

ReviseSaved(plan) ==
    /\ \A i \in DOMAIN transcript : transcript[i].id # SAVED_SEED_ID
    /\ transcript' = Append(transcript,
          [id |-> SAVED_SEED_ID, ask |-> plan, state |-> "loaded",
           reply |-> [kind |-> "plan", of |-> plan], revision |-> FALSE])
    /\ UNCHANGED <<nextId, jobs, stopping, database, restore, asks, restarts>>

(* The button is there once something has loaded.                          *)
StartNewConversation ==
    /\ MayStart /\ \E e \in Range(transcript) : IsLoaded(e)
    /\ Len(writes) < MaxWaiting
    /\ transcript' = <<>> /\ nextId' = 1
    /\ writes' = Append(writes, [op |-> "clear"]) /\ answered' = <<>>
    /\ UNCHANGED <<jobs, stopping, rows, lastRow, restore, asks, restarts>>

-----------------------------------------------------------------------------
(* A run.                                                                  *)

(* Show a reply, and remember it when a later message can build on it.     *)
Memorable(kind) == kind # "nothing"

Load(j, kind) ==
    LET reply == [kind |-> kind, of |-> j.ask]
    IN  /\ transcript' = Update(j.id, [i \in DOMAIN transcript |->
              [transcript[i] EXCEPT !.state = "loaded", !.reply = reply]])
        /\ IF Memorable(kind) /\ Shown(j.id)
              THEN /\ writes' = Append(writes, [op |-> "insert", reply |-> reply,
                                                revision |-> OfId(j.id).revision])
                   /\ answered' = Append(answered, j.ask)
              ELSE UNCHANGED <<writes, answered>>
        /\ jobs' = jobs \ {j}
        /\ UNCHANGED <<nextId, rows, lastRow, restore, asks, restarts>>

Fail(j) ==
    /\ transcript' = SetState(j.id, "error")
    /\ jobs' = jobs \ {j}
    /\ UNCHANGED <<nextId, database, restore, asks, restarts>>

Progress(j) ==
    /\ j.mode = "stream" /\ ~j.seen
    /\ jobs' = (jobs \ {j}) \cup {[j EXCEPT !.seen = TRUE]}
    /\ UNCHANGED <<screen, stopping, database, restore, asks, restarts>>

Result(j) == /\ \E kind \in Kinds : Load(j, kind)
             /\ UNCHANGED stopping

(* An error event, a result event without a result, or a failed fallback.  *)
Refused(j) == Fail(j) /\ UNCHANGED stopping

(* ensureActive: a run that was stopped drops the event it is handed.      *)
Active_Always(j) == TRUE

Active(j) == j \in jobs

LateEvent(j) ==
    /\ stopping' = stopping \ {j}
    /\ IF Active(j)
          THEN Fail(j) \/ \E kind \in Kinds : Load(j, kind)
          ELSE UNCHANGED <<screen, jobs, database, restore, asks, restarts>>

Again_FromScratch(j) == [j EXCEPT !.mode = "fallback", !.previous = None]

Again(j) == [j EXCEPT !.mode = "fallback"]

Abandon_Spinning(j) ==
    /\ jobs' = jobs \ {j}
    /\ UNCHANGED <<screen, database, restore, asks, restarts>>

Abandon(j) == Fail(j)

(* The stream closes without a verdict or breaks: when nothing arrived and *)
(* the server did not refuse, the plain endpoint is asked once.            *)
Broken(j, refused) ==
    /\ j.mode = "stream"
    /\ UNCHANGED stopping
    /\ IF ~j.seen /\ ~refused
          THEN /\ jobs' = (jobs \ {j}) \cup {Again(j)}
               /\ UNCHANGED <<screen, database, restore, asks, restarts>>
          ELSE Abandon(j)

-----------------------------------------------------------------------------
(* The stored conversation, one restore at a time.                         *)
SetUser ==
    /\ transcript = <<>> /\ ~reading /\ restored = {}
    /\ reading' = TRUE
    /\ UNCHANGED <<screen, jobs, stopping, database, restored, asks, restarts>>

ReadTurns ==
    /\ reading
    /\ reading' = FALSE
    /\ restored' = restored \cup {rows}
    /\ UNCHANGED <<screen, jobs, stopping, database, asks, restarts>>

Restorable_Always == TRUE

Restorable == transcript = <<>>

NextAfter_Unset(turns) == nextId

NextAfter(turns) == IF turns = <<>> THEN 1 ELSE Last(turns).id + 1

Adopt(turns) ==
    /\ restored' = restored \ {turns}
    /\ IF Restorable
          THEN /\ transcript' = [i \in DOMAIN turns |->
                      [id |-> turns[i].id, ask |-> turns[i].reply.of, state |-> "loaded",
                       reply |-> turns[i].reply, revision |-> turns[i].revision]]
               /\ nextId' = NextAfter(turns)
          ELSE UNCHANGED screen
    /\ UNCHANGED <<jobs, stopping, database, reading, asks, restarts>>

(* Drop everything but the newest rounds.                                  *)
Trimmed_Oldest(turns) == SubSeq(turns, 1, IF Len(turns) > Keep THEN Keep ELSE Len(turns))

Trimmed(turns) ==
    SubSeq(turns, IF Len(turns) > Keep THEN Len(turns) - Keep + 1 ELSE 1, Len(turns))

Write ==
    /\ writes # <<>>
    /\ \/ /\ Head(writes).op = "clear" /\ rows' = <<>>
          /\ writes' = Tail(writes) /\ UNCHANGED lastRow
       \/ /\ Head(writes).op = "trim" /\ rows' = Trimmed(rows)
          /\ writes' = Tail(writes) /\ UNCHANGED lastRow
       \/ /\ Head(writes).op = "insert"
          /\ rows' = Append(rows, [id |-> lastRow + 1, reply |-> Head(writes).reply,
                                   revision |-> Head(writes).revision])
          /\ lastRow' = lastRow + 1
          /\ writes' = Append(Tail(writes), [op |-> "trim"])
    /\ UNCHANGED <<screen, jobs, stopping, restore, asks, answered, restarts>>

(* The process dies: only what was written is left.                        *)
Restart ==
    /\ restarts < MaxRestarts
    /\ restarts' = restarts + 1
    /\ transcript' = <<>> /\ nextId' = 1 /\ jobs' = {} /\ stopping' = {}
    /\ writes' = <<>> /\ reading' = FALSE /\ restored' = {}
    /\ answered' = [i \in DOMAIN rows |-> rows[i].reply.of]
    /\ UNCHANGED <<rows, lastRow, asks>>

Next ==
    \/ Send \/ Cancel \/ StartNewConversation
    \/ \E i \in DOMAIN transcript : Retry(i)
    \/ \E plan \in Library : ReviseSaved(plan)
    \/ \E j \in jobs : \/ Progress(j) \/ Result(j) \/ Refused(j)
                       \/ \E refused \in BOOLEAN : Broken(j, refused)
    \/ \E j \in stopping : LateEvent(j)
    \/ SetUser \/ ReadTurns \/ Write \/ Restart
    \/ \E turns \in restored : Adopt(turns)

(* The server's stream ends and OkHttp's read timeout ends one that fell   *)
(* silent, so a run comes to its end; the database executes its writes.    *)
Settle == \E j \in jobs : Result(j) \/ Refused(j) \/ \E refused \in BOOLEAN : Broken(j, refused)

Spec == Init /\ [][Next]_vars /\ WF_vars(Settle) /\ WF_vars(Write)
-----------------------------------------------------------------------------
(* The transcript hangs together: the types; rounds are told apart by      *)
(* their ids, whatever mix of restored rounds, handed-over plans and new   *)
(* messages it is; "one run at a time", and exactly the exchange that      *)
(* shows progress has it, so there is no spinner nothing will resolve.     *)
TypeOK ==
    /\ transcript \in Seq(Exchange) /\ nextId \in Nat
    /\ jobs \subseteq Job /\ stopping \subseteq Job
    /\ rows \in Seq(Row) /\ lastRow \in Nat
    /\ writes \in Seq([op : {"clear", "trim"}]
                        \cup [op : {"insert"}, reply : Kept, revision : BOOLEAN])
    /\ reading \in BOOLEAN /\ \A turns \in restored : turns \in Seq(Row)
    /\ asks \in 0 .. MaxAsks /\ answered \in Seq(Asks) /\ restarts \in Nat
UniqueIds ==
    \A i, k \in DOMAIN transcript : transcript[i].id = transcript[k].id => i = k
SpinnerHasRun ==
    /\ Cardinality(jobs) <= 1
    /\ {e.id : e \in {x \in Range(transcript) : x.state = "running"}} = {j.id : j \in jobs}
ScreenInv == TypeOK /\ UniqueIds /\ SpinnerHasRun

(* A reply is shown under the request it answers, also after the           *)
(* conversation was started over and its ids were given out again.         *)
AnswersOwn ==
    \A i \in DOMAIN transcript :
        IsLoaded(transcript[i]) => transcript[i].reply.of = transcript[i].ask

(* An edit never silently becomes a new plan, nor a new plan an edit: over *)
(* retries, the fallback and restarts a request carries a plan exactly     *)
(* when its exchange is labelled a revision.                               *)
RevisionKept ==
    \A j \in jobs, e \in Range(transcript) :
        e.id = j.id => (e.revision <=> j.previous # None)

(* Once the database has caught up, the newest rounds answered since the   *)
(* conversation began are the newest ones stored, and old ones are gone.   *)
(* (A death between insert and trim leaves more, until the next round.)    *)
Newest(s) == SubSeq(s, IF Len(s) > Keep THEN Len(s) - Keep + 1 ELSE 1, Len(s))
KeptTurns ==
    writes = <<>> =>
        /\ Newest([i \in DOMAIN rows |-> rows[i].reply.of]) = Newest(answered)
        /\ Len(rows) <= Keep \/ (restarts > 0 /\ Len(answered) = Len(rows))

(* What the transcript says stays.  A run the traveller stopped changes    *)
(* nothing any more: only a retry takes its exchange out of Cancelled.     *)
(* And "a user who typed straight away must not have their run replaced by *)
(* history": short of starting over, rounds are only ever added below.     *)
Stays(i) == \/ transcript'[i].state = "cancelled"
            \/ transcript'[i].ask # transcript[i].ask
NeverRewritten ==
    [][transcript' # <<>> =>
          /\ IsPrefix([i \in DOMAIN transcript |-> transcript[i].id],
                      [i \in DOMAIN transcript' |-> transcript'[i].id])
          /\ \A i \in DOMAIN transcript :
                transcript[i].state = "cancelled" => Stays(i)]_vars

(* No run is shown as running for ever.                                    *)
Settles == anyRunning ~> ~anyRunning
=============================================================================

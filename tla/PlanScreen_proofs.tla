--------------------------- MODULE PlanScreen_proofs ---------------------------
(***************************************************************************)
(* Proofs about PlanScreen, for any number of requests, restarts and plans *)
(* in the library.  The inductive invariant says which exchange each run   *)
(* belongs to, why ids stay fresh across restarts, and why the plan an     *)
(* edit was made on is still there when it is retried.  A second one       *)
(* replays the statements the database has yet to run.                     *)
(***************************************************************************)
EXTENDS PlanScreen, SequenceTheorems, FiniteSetTheorems, WellFoundedInduction, TLAPS

(* One run at a time, and exactly the exchange that shows progress has it.  *)
Spinning ==
    /\ \A j, k \in jobs : j = k
    /\ \A j \in jobs : \E i \in DOMAIN transcript :
          transcript[i].id = j.id /\ transcript[i].state = "running"
    /\ \A i \in DOMAIN transcript :
          transcript[i].state = "running" => \E j \in jobs : j.id = transcript[i].id

(* Ids are fresh; only a plan from the library has one below zero.          *)
Ids ==
    /\ nextId > 0
    /\ UniqueIds
    /\ \A i \in DOMAIN transcript :
          /\ transcript[i].id < nextId
          /\ transcript[i].state # "loaded" => transcript[i].id \in Nat

(* Replies and runs stand by the request they were made for.                *)
Own ==
    /\ \A i \in DOMAIN transcript :
          transcript[i].state = "loaded" => /\ transcript[i].reply \in Reply
                                            /\ transcript[i].reply.of = transcript[i].ask
    /\ \A j \in jobs, i \in DOMAIN transcript :
          transcript[i].id = j.id => transcript[i].ask = j.ask

(* An edit that may be retried still has a plan before it.                  *)
Revised ==
    /\ \A j \in jobs, i \in DOMAIN transcript :
          transcript[i].id = j.id => (transcript[i].revision <=> j.previous # None)
    /\ \A i \in DOMAIN transcript :
          transcript[i].revision /\ transcript[i].state # "loaded" =>
              \E k \in Plans : transcript[k].id < transcript[i].id

(* Stored rounds are in the order of their ids, wherever they are read.     *)
Ordered(turns) == \A a, b \in DOMAIN turns : a < b => turns[a].id < turns[b].id
Stored ==
    /\ Ordered(rows)
    /\ \A a \in DOMAIN rows : rows[a].id <= lastRow
    /\ \A turns \in restored : Ordered(turns)

IInv == TypeOK /\ Spinning /\ Ids /\ Own /\ Revised /\ Stored

-----------------------------------------------------------------------------
(* The newest of some exchanges is one of them.                             *)

LEMMA MaxIsMember ==
    ASSUME NEW n \in Nat, NEW S, S \subseteq 1 .. n, S # {}
    PROVE  Max(S) \in S
<1> DEFINE T == {n - i : i \in S}
<1>0. \A i \in S : i \in Int /\ i <= n OBVIOUS
<1>1. T \subseteq Nat /\ T # {}
  <2>1. \A i \in S : n - i \in Nat BY <1>0
  <2>2. PICK i \in S : TRUE OBVIOUS
  <2> QED BY <2>1, <2>2
<1>2. PICK x \in T : \A y \in T : ~(<<y, x>> \in OpToRel(<, Nat))
  BY <1>1, NatLessThanWellFounded, WFMin
<1>3. \A y \in T : ~(y < x) BY <1>1, <1>2 DEF OpToRel
<1>4. PICK m \in S : x = n - m BY <1>2
<1>5. \A i \in S : m >= i
  <2>1. TAKE i \in S
  <2>2. ~(n - i < n - m) BY <1>3, <1>4
  <2>3. i \in Int /\ m \in Int /\ n \in Int BY <1>0
  <2> HIDE DEF T
  <2> QED BY <2>2, <2>3
<1> QED BY <1>5 DEF Max

LEMMA TranscriptIs ==
    ASSUME TypeOK
    PROVE  /\ transcript \in Seq(Exchange)
           /\ Len(transcript) \in Nat
           /\ DOMAIN transcript = 1 .. Len(transcript)
           /\ \A i \in DOMAIN transcript : transcript[i] \in Exchange
<1>1. transcript \in Seq(Exchange) BY DEF TypeOK
<1> QED BY <1>1, LenProperties, ElementOfSeq

LEMMA LastOfIs ==
    ASSUME TypeOK, Own, NEW S, S \subseteq Plans
    PROVE  /\ S # {} => LastOf(S) \in Asks \cup Library
           /\ S = {} => LastOf(S) = None
<1>1. CASE S # {}
  <2>1. S \subseteq 1 .. Len(transcript) /\ Len(transcript) \in Nat
    BY TranscriptIs DEF Plans
  <2>2. Max(S) \in S BY <1>1, <2>1, MaxIsMember
  <2>3. Max(S) \in DOMAIN transcript /\ transcript[Max(S)].state = "loaded"
    BY <2>2 DEF Plans, HasPlan, IsLoaded
  <2>4. transcript[Max(S)].reply \in Reply BY <2>3 DEF Own
  <2> QED BY <1>1, <2>4 DEF LastOf, Reply
<1> QED BY <1>1 DEF LastOf

LEMMA NoneIsNoPlan == None \notin Asks \cup Library
BY NoneAssumption DEF Asks

LEMMA IdleMeansNoRun ==
    ASSUME Spinning, ~anyRunning
    PROVE  jobs = {}
BY DEF Spinning, anyRunning

-----------------------------------------------------------------------------
LEMMA InitIInv == Init => IInv
<1> SUFFICES ASSUME Init PROVE IInv OBVIOUS
<1>1. /\ <<>> \in Seq(Exchange) /\ <<>> \in Seq(Row) /\ <<>> \in Seq(Asks)
      /\ <<>> \in Seq([op : {"clear", "trim"}]
                        \cup [op : {"insert"}, reply : Kept, revision : BOOLEAN])
  BY EmptySeq
<1>2. DOMAIN <<>> = {} OBVIOUS
<1>3. TypeOK
  <2>1. asks \in 0 .. MaxAsks /\ restarts \in Nat /\ nextId \in Nat /\ lastRow \in Nat
    BY BoundsAssumption DEF Init
  <2>2. jobs \subseteq Job /\ stopping \subseteq Job /\ reading \in BOOLEAN /\ \A turns \in restored : turns \in Seq(Row)
    BY DEF Init
  <2> QED BY <1>1, <2>1, <2>2 DEF Init, TypeOK
<1>4. Spinning /\ Ids BY <1>2 DEF Init, Spinning, Ids, UniqueIds
<1>5. Own /\ Revised BY <1>2 DEF Init, Own, Revised
<1>6. Stored BY <1>2 DEF Init, Stored, Ordered
<1> QED BY <1>3, <1>4, <1>5, <1>6 DEF IInv

-----------------------------------------------------------------------------
(* The traveller.                                                           *)

LEMMA SendKeeps == IInv /\ Send => IInv'
<1> SUFFICES ASSUME IInv, Send PROVE IInv' OBVIOUS
<1> DEFINE e == [id |-> nextId, ask |-> asks + 1, state |-> "running", reply |-> None,
                 revision |-> latestItinerary # None]
           n == Len(transcript)
<1>1. TypeOK /\ Spinning /\ Ids /\ Own /\ Revised /\ Stored BY DEF IInv
<1>2. jobs = {} BY <1>1, IdleMeansNoRun DEF Send, MayStart
<1>3. /\ latestItinerary \in Asks \cup Library \cup {None}
      /\ latestItinerary # None => Plans # {}
  BY <1>1, LastOfIs DEF latestItinerary
<1>4. asks + 1 \in Asks BY <1>1, BoundsAssumption DEF Send, TypeOK, Asks
<1>5. e \in Exchange BY <1>1, <1>4 DEF Exchange, States, TypeOK
<1>6. /\ transcript' = Append(transcript, e) /\ nextId' = nextId + 1
      /\ jobs' = {Request(nextId, latestItinerary)} /\ asks' = asks + 1
  BY <1>2 DEF Send
<1>7. Request(nextId, latestItinerary) \in Job
  BY <1>1, <1>3, <1>4 DEF Request, Job, TypeOK
<1>8. /\ DOMAIN transcript = 1 .. n /\ n \in Nat /\ transcript \in Seq(Exchange)
      /\ \A i \in 1 .. n : transcript[i] \in Exchange
  BY <1>1, TranscriptIs
<1>9. /\ transcript' \in Seq(Exchange) /\ DOMAIN transcript' = 1 .. n + 1
      /\ \A i \in 1 .. n : transcript'[i] = transcript[i]
      /\ transcript'[n + 1] = e
  BY <1>5, <1>6, <1>8, AppendProperties, LenProperties
<1>10. UNCHANGED <<stopping, rows, lastRow, writes, answered, reading, restored, restarts>>
  BY DEF Send, database, restore
<1>11. TypeOK'
  BY <1>1, <1>4, <1>6, <1>7, <1>9, <1>10, BoundsAssumption DEF TypeOK, Asks
<1>12. Spinning' BY <1>1, <1>2, <1>6, <1>8, <1>9 DEF Spinning, Request
<1>13. Ids' BY <1>1, <1>6, <1>8, <1>9 DEF Ids, UniqueIds, TypeOK, Exchange
<1>0. \A i \in 1 .. n : transcript[i].id # nextId
  BY <1>1, <1>8 DEF Ids, Exchange, TypeOK
<1>14. Own'
  <2>1. \A i \in DOMAIN transcript' :
          transcript'[i].state = "loaded" => i \in 1 .. n /\ transcript'[i] = transcript[i]
    BY <1>8, <1>9
  <2>2. \A j \in jobs', i \in DOMAIN transcript' :
          transcript'[i].id = j.id => transcript'[i].ask = j.ask
    BY <1>6, <1>8, <1>9, <1>0 DEF Request
  <2> QED BY <1>1, <1>8, <2>1, <2>2 DEF Own
<1>15. Revised'
  <2>1. Plans \subseteq Plans' BY <1>8, <1>9 DEF Plans, HasPlan, IsLoaded
  <2>2. \A i \in 1 .. n : transcript[i].id < nextId BY <1>1, <1>8 DEF Ids
  <2>3. e.revision => \E k \in Plans : transcript[k].id < nextId
    BY <1>3, <1>8, <2>2 DEF Plans
  <2>4. \A i \in DOMAIN transcript' :
          transcript'[i].revision /\ transcript'[i].state # "loaded" =>
              \E k \in Plans' : transcript'[k].id < transcript'[i].id
    <3> SUFFICES ASSUME NEW i \in 1 .. n + 1, transcript'[i].revision,
                        transcript'[i].state # "loaded"
                 PROVE  \E k \in Plans : transcript[k].id < transcript'[i].id
      BY <1>8, <1>9, <2>1 DEF Plans
    <3>1. CASE i = n + 1 BY <3>1, <1>9, <2>3
    <3>2. CASE i \in 1 .. n BY <3>2, <1>1, <1>8, <1>9 DEF Revised
    <3> QED BY <3>1, <3>2, <1>8
  <2>5. \A j \in jobs', i \in DOMAIN transcript' :
          transcript'[i].id = j.id => (transcript'[i].revision <=> j.previous # None)
    <3> SUFFICES ASSUME NEW i \in DOMAIN transcript', transcript'[i].id = nextId
                 PROVE  transcript'[i].revision <=> latestItinerary # None
      BY <1>6 DEF Request
    <3>1. i = n + 1 BY <1>0, <1>8, <1>9
    <3>2. e.revision = (latestItinerary # None) OBVIOUS
    <3>3. transcript'[i].revision = e.revision BY <3>1, <1>9
    <3> HIDE DEF e
    <3> QED BY <3>2, <3>3
  <2> QED BY <2>4, <2>5 DEF Revised
<1>16. Stored' BY <1>1, <1>10 DEF Stored, Ordered
<1> QED BY <1>11, <1>12, <1>13, <1>14, <1>15, <1>16 DEF IInv

-----------------------------------------------------------------------------
(* A run comes to its end: only the exchange it belongs to changes.         *)

LEMMA RunAt ==
    ASSUME IInv, NEW j \in jobs
    PROVE  \E r \in DOMAIN transcript :
              /\ transcript[r].state = "running"
              /\ \A i \in DOMAIN transcript : transcript[i].id = j.id <=> i = r
BY DEF IInv, Spinning, Ids, UniqueIds

(* Exchange r is in state s now, the others are as they were.               *)
Touched(r, s) ==
    /\ transcript' \in Seq(Exchange) /\ DOMAIN transcript' = DOMAIN transcript
    /\ \A i \in DOMAIN transcript : i # r => transcript'[i] = transcript[i]
    /\ transcript'[r].id = transcript[r].id
    /\ transcript'[r].ask = transcript[r].ask
    /\ transcript'[r].revision = transcript[r].revision
    /\ transcript'[r].state = s

LEMMA SettledKeeps ==
    ASSUME IInv, NEW j \in jobs, NEW r \in DOMAIN transcript, NEW s \in States,
           transcript[r].state = "running",
           \A i \in DOMAIN transcript : transcript[i].id = j.id <=> i = r,
           Touched(r, s), s # "running",
           s = "loaded" => /\ transcript'[r].reply \in Reply
                           /\ transcript'[r].reply.of = transcript[r].ask,
           jobs' = jobs \ {j}, nextId' = nextId, TypeOK', Stored'
    PROVE  IInv'
<1>1. TypeOK /\ Spinning /\ Ids /\ Own /\ Revised BY DEF IInv
<1>2. jobs' = {} BY <1>1 DEF Spinning
<1>3. \A i \in DOMAIN transcript : transcript[i].state = "running" => i = r
  BY <1>1 DEF Spinning
<1>4. \A i \in DOMAIN transcript : /\ transcript'[i].id = transcript[i].id
                                   /\ transcript'[i].ask = transcript[i].ask
                                   /\ transcript'[i].revision = transcript[i].revision
  BY DEF Touched
<1>5. DOMAIN transcript' = DOMAIN transcript BY DEF Touched
<1>6. \A i \in DOMAIN transcript : i # r => transcript'[i] = transcript[i] BY DEF Touched
<1>7. transcript'[r].state = s BY DEF Touched
<1>8. Spinning' BY <1>2, <1>3, <1>5, <1>6, <1>7 DEF Spinning
<1>9. Ids'
  <2>1. UniqueIds' BY <1>1, <1>4, <1>5 DEF Ids, UniqueIds
  <2>2. \A i \in DOMAIN transcript' :
          /\ transcript'[i].id < nextId'
          /\ transcript'[i].state # "loaded" => transcript'[i].id \in Nat
    BY <1>1, <1>4, <1>5, <1>6 DEF Ids
  <2> QED BY <1>1, <2>1, <2>2 DEF Ids
<1>10. Own'
  <2>1. \A i \in DOMAIN transcript :
          transcript'[i].state = "loaded" => /\ transcript'[i].reply \in Reply
                                             /\ transcript'[i].reply.of = transcript'[i].ask
    <3>1. TAKE i \in DOMAIN transcript
    <3>2. CASE i = r BY <1>4, <1>7, <3>2
    <3>3. CASE i # r BY <1>1, <1>6, <3>3 DEF Own
    <3> QED BY <3>2, <3>3
  <2> QED BY <1>2, <1>5, <2>1 DEF Own
<1>11. Revised'
  <2>1. Plans \subseteq Plans'
    BY <1>5, <1>6 DEF Plans, HasPlan, IsLoaded
  <2>2. \A i \in DOMAIN transcript :
          transcript'[i].revision /\ transcript'[i].state # "loaded" =>
              \E k \in Plans' : transcript'[k].id < transcript'[i].id
    <3> SUFFICES ASSUME NEW i \in DOMAIN transcript, transcript'[i].revision,
                        transcript'[i].state # "loaded"
                 PROVE  \E k \in Plans' : transcript'[k].id < transcript'[i].id
      OBVIOUS
    <3>1. transcript[i].revision /\ transcript[i].state # "loaded"
      BY <1>4, <1>6
    <3>2. PICK k \in Plans : transcript[k].id < transcript[i].id
      BY <1>1, <3>1 DEF Revised
    <3>3. k \in DOMAIN transcript BY DEF Plans
    <3>4. k \in Plans' /\ transcript'[k].id < transcript'[i].id
      BY <1>4, <2>1, <3>2, <3>3
    <3> QED BY <3>4
  <2> QED BY <1>2, <1>5, <2>2 DEF Revised
<1> QED BY <1>8, <1>9, <1>10, <1>11 DEF IInv

(* A change of state keeps the rest of an exchange.                         *)
LEMMA SetStateIs ==
    ASSUME IInv, NEW r \in DOMAIN transcript, NEW s \in States, NEW id,
           \A i \in DOMAIN transcript : transcript[i].id = id <=> i = r,
           transcript' = SetState(id, s)
    PROVE  Touched(r, s)
<1>1. /\ DOMAIN transcript = 1 .. Len(transcript) /\ Len(transcript) \in Nat
      /\ \A i \in DOMAIN transcript : transcript[i] \in Exchange
  BY TranscriptIs DEF IInv
<1>2. transcript' = [i \in DOMAIN transcript |->
          IF transcript[i].id = id THEN [transcript[i] EXCEPT !.state = s] ELSE transcript[i]]
  BY DEF SetState, Update
<1>3. [transcript[r] EXCEPT !.state = s] \in Exchange BY <1>1 DEF Exchange
<1>4. \A i \in DOMAIN transcript : transcript'[i] =
          IF i = r THEN [transcript[r] EXCEPT !.state = s] ELSE transcript[i]
  BY <1>2
<1>5. DOMAIN transcript' = 1 .. Len(transcript) BY <1>1, <1>2
<1>6. \A i \in DOMAIN transcript : transcript'[i] \in Exchange BY <1>1, <1>3, <1>4
<1>7. transcript' \in [1 .. Len(transcript) -> Exchange] BY <1>1, <1>2, <1>6
<1>8. transcript' \in Seq(Exchange) BY <1>1, <1>7, SeqDef
<1>9. transcript[r] \in Exchange BY <1>1
<1> QED BY <1>1, <1>4, <1>5, <1>8, <1>9 DEF Touched, Exchange

LEMMA FailKeeps ==
    ASSUME IInv, NEW j \in jobs, Fail(j), stopping' \subseteq Job
    PROVE  IInv'
<1>1. PICK r \in DOMAIN transcript :
          /\ transcript[r].state = "running"
          /\ \A i \in DOMAIN transcript : transcript[i].id = j.id <=> i = r
  BY RunAt
<1>2. Touched(r, "error") BY <1>1, SetStateIs DEF Fail, States
<1>3. UNCHANGED <<nextId, rows, lastRow, writes, answered, reading, restored, asks, restarts>>
  BY DEF Fail, database, restore
<1>4. jobs' = jobs \ {j} BY DEF Fail
<1>5. TypeOK' BY <1>2, <1>3, <1>4 DEF IInv, TypeOK, Touched
<1>6. Stored' BY <1>3 DEF IInv, Stored, Ordered
<1>7. "error" \in States BY DEF States
<1> QED BY <1>1, <1>2, <1>3, <1>4, <1>5, <1>6, <1>7, SettledKeeps

LEMMA CancelKeeps == ASSUME IInv, Cancel PROVE IInv'
<1>0. PICK j \in jobs : /\ jobs' = jobs \ {j}
                        /\ stopping' = stopping \cup {j}
                        /\ transcript' = SetState(j.id, "cancelled")
                        /\ UNCHANGED <<nextId, database, restore, asks, restarts>>
  BY DEF Cancel, Stopped
<1>1. PICK r \in DOMAIN transcript :
          /\ transcript[r].state = "running"
          /\ \A i \in DOMAIN transcript : transcript[i].id = j.id <=> i = r
  BY RunAt
<1>2. Touched(r, "cancelled") BY <1>0, <1>1, SetStateIs DEF States
<1>3. UNCHANGED <<nextId, rows, lastRow, writes, answered, reading, restored, asks, restarts>>
  BY <1>0 DEF database, restore
<1>5. TypeOK' BY <1>0, <1>2, <1>3 DEF IInv, TypeOK, Touched
<1>6. Stored' BY <1>3 DEF IInv, Stored, Ordered
<1>7. "cancelled" \in States BY DEF States
<1> QED BY <1>0, <1>1, <1>2, <1>3, <1>5, <1>6, <1>7, SettledKeeps

(* The statements waiting for the database.                                 *)
Statement == [op : {"clear", "trim"}] \cup [op : {"insert"}, reply : Kept, revision : BOOLEAN]

LEMMA LoadTouches ==
    ASSUME IInv, NEW j \in jobs, NEW kind \in Kinds, Load(j, kind),
           NEW r \in DOMAIN transcript,
           \A i \in DOMAIN transcript : transcript[i].id = j.id <=> i = r
    PROVE  /\ Touched(r, "loaded")
           /\ transcript'[r].reply = [kind |-> kind, of |-> j.ask]
           /\ [kind |-> kind, of |-> j.ask] \in Reply /\ j.ask \in Asks
<1> DEFINE q == [kind |-> kind, of |-> j.ask]
<1>2. /\ DOMAIN transcript = 1 .. Len(transcript) /\ Len(transcript) \in Nat
      /\ \A i \in DOMAIN transcript : transcript[i] \in Exchange
  BY TranscriptIs DEF IInv
<1>3. j \in Job BY DEF IInv, TypeOK
<1>4. q \in Reply /\ j.ask \in Asks BY <1>3 DEF Job, Reply, Asks
<1> DEFINE e == [transcript[r] EXCEPT !.state = "loaded", !.reply = q]
<1>5. e \in Exchange BY <1>2, <1>4 DEF Exchange, States
<1>6. transcript' = [i \in DOMAIN transcript |->
          IF transcript[i].id = j.id
             THEN [transcript[i] EXCEPT !.state = "loaded", !.reply = q] ELSE transcript[i]]
  BY DEF Load, Update
<1>7. \A i \in DOMAIN transcript : transcript'[i] = IF i = r THEN e ELSE transcript[i]
  BY <1>6
<1>8. transcript' \in [1 .. Len(transcript) -> Exchange] BY <1>2, <1>5, <1>6, <1>7
<1>9. transcript' \in Seq(Exchange) /\ DOMAIN transcript' = DOMAIN transcript
  BY <1>2, <1>8, SeqDef
<1>10. /\ e.id = transcript[r].id /\ e.ask = transcript[r].ask
       /\ e.revision = transcript[r].revision /\ e.state = "loaded" /\ e.reply = q
  BY <1>2 DEF Exchange
<1>11. Touched(r, "loaded") BY <1>7, <1>9, <1>10 DEF Touched
<1> QED BY <1>4, <1>7, <1>10, <1>11

LEMMA LoadKeeps ==
    ASSUME IInv, NEW j \in jobs, NEW kind \in Kinds, Load(j, kind), stopping' \subseteq Job
    PROVE  IInv'
<1> DEFINE q == [kind |-> kind, of |-> j.ask]
<1>1. PICK r \in DOMAIN transcript :
          /\ transcript[r].state = "running"
          /\ \A i \in DOMAIN transcript : transcript[i].id = j.id <=> i = r
  BY RunAt
<1>2. \A i \in DOMAIN transcript : transcript[i] \in Exchange BY TranscriptIs DEF IInv
<1>4. q \in Reply /\ j.ask \in Asks BY <1>1, LoadTouches
<1>9. transcript' \in Seq(Exchange) BY <1>1, LoadTouches DEF Touched
<1>11. Touched(r, "loaded") BY <1>1, LoadTouches
<1>12. transcript'[r].reply = q BY <1>1, LoadTouches
<1>13. transcript[r].ask = j.ask BY <1>1 DEF IInv, Own
<1>14. jobs' = jobs \ {j} /\ UNCHANGED <<nextId, rows, lastRow, reading, restored, asks, restarts>>
  BY DEF Load, restore
<1>15. writes' \in Seq(Statement) /\ answered' \in Seq(Asks)
  <2>1. writes \in Seq(Statement) /\ answered \in Seq(Asks) BY DEF IInv, TypeOK, Statement
  <2>2. CASE ~(Memorable(kind) /\ Shown(j.id)) BY <2>1, <2>2 DEF Load
  <2>3. CASE Memorable(kind) /\ Shown(j.id)
    <3> DEFINE shown == OfId(j.id)
    <3>1. shown \in Range(transcript) BY <2>3 DEF Shown, OfId
    <3>2. shown \in Exchange BY <1>2, <3>1 DEF Range
    <3>3. shown.revision \in BOOLEAN BY <3>2 DEF Exchange
    <3>4. q \in Kept BY <1>4, <2>3 DEF Kept, Kinds, Memorable
    <3> DEFINE statement == [op |-> "insert", reply |-> q, revision |-> shown.revision]
    <3>5. statement \in Statement BY <3>3, <3>4 DEF Statement
    <3>6. writes' = Append(writes, statement) /\ answered' = Append(answered, j.ask)
      BY <2>3 DEF Load
    <3> QED BY <1>4, <2>1, <3>5, <3>6, AppendProperties
  <2> QED BY <2>2, <2>3
<1>16. TypeOK' BY <1>9, <1>14, <1>15 DEF IInv, TypeOK, Statement
<1>17. Stored' BY <1>14 DEF IInv, Stored, Ordered
<1>18. "loaded" \in States BY DEF States
<1>19. transcript'[r].reply \in Reply /\ transcript'[r].reply.of = transcript[r].ask
  BY <1>4, <1>12, <1>13
<1>20. "loaded" # "running" OBVIOUS
<1> QED BY <1>1, <1>11, <1>14, <1>16, <1>17, <1>18, <1>19, <1>20, SettledKeeps

(* Nothing but the run's own bookkeeping changes.                           *)
LEMMA RunningKeeps ==
    ASSUME IInv, NEW j \in jobs, NEW k \in Job,
           k.id = j.id, k.ask = j.ask, k.previous = j.previous,
           jobs' = (jobs \ {j}) \cup {k},
           UNCHANGED <<screen, stopping, database, restore, asks, restarts>>
    PROVE  IInv'
<1>1. TypeOK /\ Spinning /\ Ids /\ Own /\ Revised /\ Stored BY DEF IInv
<1>2. jobs' = {k} BY <1>1 DEF Spinning
<1>3. UNCHANGED <<transcript, nextId, stopping, rows, lastRow, writes, answered, reading, restored,
                 asks, restarts>>
  BY DEF screen, database, restore
<1>4. TypeOK' BY <1>1, <1>2, <1>3 DEF TypeOK
<1>5. Spinning' BY <1>1, <1>2, <1>3 DEF Spinning
<1>6. Ids' BY <1>1, <1>3 DEF Ids, UniqueIds
<1>7. Own' BY <1>1, <1>2, <1>3 DEF Own
<1>8. Revised' BY <1>1, <1>2, <1>3 DEF Revised, Plans, HasPlan, IsLoaded
<1>9. Stored' BY <1>1, <1>3 DEF Stored, Ordered
<1> QED BY <1>4, <1>5, <1>6, <1>7, <1>8, <1>9 DEF IInv

LEMMA RunKeeps ==
    ASSUME IInv, NEW j \in jobs,
           \/ Progress(j) \/ Result(j) \/ Refused(j)
           \/ \E refused \in BOOLEAN : Broken(j, refused)
    PROVE  IInv'
<1>0. j \in Job BY DEF IInv, TypeOK
<1>5. stopping' = stopping => stopping' \subseteq Job BY DEF IInv, TypeOK
<1>1. CASE Progress(j)
  <2> DEFINE k == [j EXCEPT !.seen = TRUE]
  <2>1. k \in Job /\ k.id = j.id /\ k.ask = j.ask /\ k.previous = j.previous
    BY <1>0 DEF Job
  <2> QED BY <1>1, <2>1, RunningKeeps DEF Progress
<1>2. CASE Result(j) BY <1>2, <1>5, LoadKeeps DEF Result
<1>3. CASE Refused(j) BY <1>3, <1>5, FailKeeps DEF Refused
<1>4. CASE \E refused \in BOOLEAN : Broken(j, refused)
  <2>1. PICK refused \in BOOLEAN : Broken(j, refused) BY <1>4
  <2>2. CASE ~j.seen /\ ~refused
    <3> DEFINE k == [j EXCEPT !.mode = "fallback"]
    <3>1. k \in Job /\ k.id = j.id /\ k.ask = j.ask /\ k.previous = j.previous
      BY <1>0 DEF Job
    <3> QED BY <2>1, <2>2, <3>1, RunningKeeps DEF Broken, Again
  <2>3. CASE ~(~j.seen /\ ~refused) BY <1>5, <2>1, <2>3, FailKeeps DEF Broken, Abandon
  <2> QED BY <2>2, <2>3
<1> QED BY <1>1, <1>2, <1>3, <1>4

LEMMA RetryKeeps ==
    ASSUME IInv, NEW r \in DOMAIN transcript, Retry(r)
    PROVE  IInv'
<1> DEFINE e == transcript[r]
           previous == IF e.revision THEN latestItineraryBefore(e.id) ELSE None
           k == Request(e.id, previous)
           f == [e EXCEPT !.state = "running", !.ask = asks + 1]
<1>1. TypeOK /\ Spinning /\ Ids /\ Own /\ Revised /\ Stored BY DEF IInv
<1>2. /\ ~anyRunning /\ asks < MaxAsks /\ e.state \in {"error", "cancelled"}
      /\ transcript' = [transcript EXCEPT ![r].state = "running", ![r].ask = asks + 1]
      /\ jobs' = jobs \cup {k} /\ asks' = asks + 1
  BY DEF Retry
<1>3. UNCHANGED <<nextId, stopping, rows, lastRow, writes, answered, reading, restored, restarts>>
  BY DEF Retry, database, restore
<1>4. jobs' = {k} BY <1>1, <1>2, IdleMeansNoRun
<1>5. /\ DOMAIN transcript = 1 .. Len(transcript) /\ Len(transcript) \in Nat
      /\ \A i \in DOMAIN transcript : transcript[i] \in Exchange
  BY <1>1, TranscriptIs
<1>6. asks + 1 \in Asks BY <1>1, <1>2, BoundsAssumption DEF TypeOK, Asks
<1>7. f \in Exchange BY <1>5, <1>6 DEF Exchange, States
<1>8. /\ f.id = e.id /\ f.ask = asks + 1 /\ f.revision = e.revision
      /\ f.state = "running"
  BY <1>5 DEF Exchange
<1>9. /\ DOMAIN transcript' = DOMAIN transcript
      /\ \A i \in DOMAIN transcript : transcript'[i] = IF i = r THEN f ELSE transcript[i]
  BY <1>2, <1>5
<1>10. transcript' \in Seq(Exchange)
  <2>1. transcript' \in [1 .. Len(transcript) -> Exchange] BY <1>2, <1>5, <1>7, <1>9
  <2> QED BY <1>5, <2>1, SeqDef
<1>11. /\ e.id \in Nat /\ e.revision \in BOOLEAN
       /\ e.revision => \E p \in Plans : transcript[p].id < e.id
  BY <1>1, <1>2, <1>5 DEF Ids, Revised, Exchange
<1>12. previous \in Asks \cup Library \cup {None} /\ (e.revision <=> previous # None)
  <2>1. CASE e.revision
    <3> DEFINE S == {i \in Plans : transcript[i].id < e.id}
    <3>1. S # {} /\ S \subseteq Plans BY <1>11, <2>1
    <3>2. LastOf(S) \in Asks \cup Library BY <1>1, <3>1, LastOfIs
    <3>3. previous = LastOf(S) BY <2>1 DEF latestItineraryBefore
    <3> QED BY <2>1, <3>2, <3>3, NoneIsNoPlan
  <2>2. CASE ~e.revision BY <2>2
  <2> QED BY <2>1, <2>2
<1>13. /\ k \in Job /\ k.id = e.id /\ k.ask = asks + 1 /\ k.previous = previous
  BY <1>6, <1>11, <1>12 DEF Request, Job
<1> HIDE DEF k, f, previous
<1>14. TypeOK' BY <1>1, <1>3, <1>4, <1>6, <1>10, <1>13, <1>2 DEF TypeOK, Asks
<1>15. \A i \in DOMAIN transcript : /\ transcript'[i].id = transcript[i].id
                                    /\ transcript'[i].revision = transcript[i].revision
  BY <1>8, <1>9
<1>16. \A i \in DOMAIN transcript : transcript[i].id = e.id <=> i = r
  BY <1>1 DEF Ids, UniqueIds
<1>17. \A i \in DOMAIN transcript : transcript[i].state # "running"
  BY <1>2 DEF anyRunning
<1>18. Spinning' BY <1>4, <1>8, <1>9, <1>13, <1>16, <1>17 DEF Spinning
<1>19. Ids'
  <2>1. UniqueIds' BY <1>1, <1>9, <1>15 DEF Ids, UniqueIds
  <2>2. \A i \in DOMAIN transcript :
          /\ transcript'[i].id < nextId
          /\ transcript'[i].state # "loaded" => transcript'[i].id \in Nat
    BY <1>1, <1>9, <1>11, <1>15 DEF Ids
  <2> QED BY <1>1, <1>3, <1>9, <2>1, <2>2 DEF Ids
<1>20. Own'
  <2>1. \A i \in DOMAIN transcript :
          transcript'[i].state = "loaded" => i # r /\ transcript'[i] = transcript[i]
    BY <1>8, <1>9
  <2>2. \A i \in DOMAIN transcript : transcript'[i].id = k.id => transcript'[i].ask = k.ask
    BY <1>8, <1>9, <1>13, <1>15, <1>16
  <2> QED BY <1>1, <1>4, <1>9, <2>1, <2>2 DEF Own
<1>21. Revised'
  <2>1. Plans \subseteq Plans'
    <3>1. \A i \in Plans : i \in DOMAIN transcript /\ i # r
      BY <1>2 DEF Plans, HasPlan, IsLoaded
    <3> QED BY <1>9, <3>1 DEF Plans, HasPlan, IsLoaded
  <2>2. \A i \in DOMAIN transcript :
          transcript'[i].revision /\ transcript'[i].state # "loaded" =>
              \E p \in Plans' : transcript'[p].id < transcript'[i].id
    <3> SUFFICES ASSUME NEW i \in DOMAIN transcript, transcript'[i].revision,
                        transcript'[i].state # "loaded"
                 PROVE  \E p \in Plans' : transcript'[p].id < transcript'[i].id
      OBVIOUS
    <3>1. transcript[i].revision /\ transcript[i].state # "loaded"
      BY <1>2, <1>9, <1>15
    <3>2. PICK p \in Plans : transcript[p].id < transcript[i].id
      BY <1>1, <3>1 DEF Revised
    <3>3. p \in DOMAIN transcript BY DEF Plans
    <3>4. p \in Plans' /\ transcript'[p].id < transcript'[i].id
      BY <1>15, <2>1, <3>2, <3>3
    <3> QED BY <3>4
  <2>3. \A i \in DOMAIN transcript :
          transcript'[i].id = k.id => (transcript'[i].revision <=> k.previous # None)
    <3> SUFFICES ASSUME NEW i \in DOMAIN transcript, transcript'[i].id = k.id
                 PROVE  transcript'[i].revision <=> k.previous # None
      OBVIOUS
    <3>1. i = r BY <1>13, <1>15, <1>16
    <3> QED BY <1>12, <1>13, <1>15, <3>1
  <2> QED BY <1>4, <1>9, <2>2, <2>3 DEF Revised
<1>22. Stored' BY <1>1, <1>3 DEF Stored, Ordered
<1> QED BY <1>14, <1>18, <1>19, <1>20, <1>21, <1>22 DEF IInv

LEMMA ReviseSavedKeeps ==
    ASSUME IInv, NEW plan \in Library, ReviseSaved(plan)
    PROVE  IInv'
<1> DEFINE q == [kind |-> "plan", of |-> plan]
           e == [id |-> SAVED_SEED_ID, ask |-> plan, state |-> "loaded",
                 reply |-> q, revision |-> FALSE]
           n == Len(transcript)
<1>1. TypeOK /\ Spinning /\ Ids /\ Own /\ Revised /\ Stored BY DEF IInv
<1>2. /\ \A i \in DOMAIN transcript : transcript[i].id # SAVED_SEED_ID
      /\ transcript' = Append(transcript, e)
  BY DEF ReviseSaved
<1>3. UNCHANGED <<nextId, jobs, stopping, rows, lastRow, writes, answered, reading, restored, asks, restarts>>
  BY DEF ReviseSaved, database, restore
<1>4. q \in Reply BY DEF Reply, Kinds
<1>5. e \in Exchange BY <1>4 DEF Exchange, States, SAVED_SEED_ID
<1>6. /\ DOMAIN transcript = 1 .. n /\ n \in Nat /\ transcript \in Seq(Exchange)
  BY <1>1, TranscriptIs
<1>7. /\ transcript' \in Seq(Exchange) /\ DOMAIN transcript' = 1 .. n + 1
      /\ \A i \in 1 .. n : transcript'[i] = transcript[i]
      /\ transcript'[n + 1] = e
  BY <1>2, <1>5, <1>6, AppendProperties, LenProperties
<1>8. TypeOK' BY <1>1, <1>3, <1>7 DEF TypeOK
<1>9. /\ e.id = SAVED_SEED_ID /\ e.state = "loaded" /\ e.reply = q /\ e.ask = plan
      /\ ~e.revision /\ q.of = plan
  OBVIOUS
<1> HIDE DEF e, q
<1>10. Spinning' BY <1>1, <1>3, <1>6, <1>7, <1>9 DEF Spinning
<1>11. Ids'
  <2>1. SAVED_SEED_ID < nextId BY <1>1 DEF Ids, TypeOK, SAVED_SEED_ID
  <2> QED BY <1>1, <1>2, <1>3, <1>6, <1>7, <1>9, <2>1 DEF Ids, UniqueIds
<1>12. \A j \in jobs : j.id # SAVED_SEED_ID BY <1>1 DEF TypeOK, Job, SAVED_SEED_ID
<1>13. Own' BY <1>1, <1>3, <1>4, <1>6, <1>7, <1>9, <1>12 DEF Own
<1>14. Revised'
  <2>1. Plans \subseteq Plans' BY <1>6, <1>7 DEF Plans, HasPlan, IsLoaded
  <2>2. \A i \in DOMAIN transcript' :
          transcript'[i].revision /\ transcript'[i].state # "loaded" =>
              \E p \in Plans' : transcript'[p].id < transcript'[i].id
    <3> SUFFICES ASSUME NEW i \in 1 .. n + 1, transcript'[i].revision,
                        transcript'[i].state # "loaded"
                 PROVE  \E p \in Plans' : transcript'[p].id < transcript'[i].id
      BY <1>7
    <3>1. i \in 1 .. n BY <1>6, <1>7, <1>9
    <3>2. PICK p \in Plans : transcript[p].id < transcript[i].id
      BY <1>1, <1>6, <1>7, <3>1 DEF Revised
    <3>3. p \in 1 .. n BY <1>6 DEF Plans
    <3>4. p \in Plans' /\ transcript'[p].id < transcript'[i].id
      BY <1>7, <2>1, <3>1, <3>2, <3>3
    <3> QED BY <3>4
  <2>3. \A j \in jobs', i \in DOMAIN transcript' :
          transcript'[i].id = j.id => (transcript'[i].revision <=> j.previous # None)
    <3> SUFFICES ASSUME NEW j \in jobs, NEW i \in 1 .. n + 1, transcript'[i].id = j.id
                 PROVE  transcript'[i].revision <=> j.previous # None
      BY <1>3, <1>7
    <3>1. i \in 1 .. n BY <1>6, <1>7, <1>9, <1>12
    <3> QED BY <1>1, <1>6, <1>7, <3>1 DEF Revised
  <2> QED BY <2>2, <2>3 DEF Revised
<1>15. Stored' BY <1>1, <1>3 DEF Stored, Ordered
<1> QED BY <1>8, <1>10, <1>11, <1>13, <1>14, <1>15 DEF IInv

-----------------------------------------------------------------------------
(* The conversation goes, or comes back.                                    *)

LEMMA EmptyScreen ==
    ASSUME transcript' = <<>>, nextId' = 1, jobs' = {}, TypeOK', Stored'
    PROVE  IInv'
<1>1. DOMAIN transcript' = {} OBVIOUS
<1>2. Spinning' /\ Ids' BY <1>1 DEF Spinning, Ids, UniqueIds
<1>3. Own' /\ Revised' BY <1>1 DEF Own, Revised
<1> QED BY <1>2, <1>3 DEF IInv

LEMMA StartKeeps == ASSUME IInv, StartNewConversation PROVE IInv'
<1>1. TypeOK /\ Spinning /\ Stored BY DEF IInv
<1>2. jobs' = {} BY <1>1, IdleMeansNoRun DEF StartNewConversation, MayStart
<1>3. /\ transcript' = <<>> /\ nextId' = 1 /\ answered' = <<>>
      /\ writes' = Append(writes, [op |-> "clear"])
  BY DEF StartNewConversation
<1>4. UNCHANGED <<stopping, rows, lastRow, reading, restored, asks, restarts>>
  BY DEF StartNewConversation, restore
<1>5. writes' \in Seq(Statement)
  <2>1. writes \in Seq(Statement) /\ [op |-> "clear"] \in Statement BY <1>1 DEF TypeOK, Statement
  <2> QED BY <1>3, <2>1, AppendProperties
<1>6. transcript' \in Seq(Exchange) /\ answered' \in Seq(Asks) BY <1>3, EmptySeq
<1>7. TypeOK' BY <1>1, <1>2, <1>3, <1>4, <1>5, <1>6 DEF TypeOK, Statement
<1>8. Stored' BY <1>1, <1>4 DEF Stored, Ordered
<1> QED BY <1>2, <1>3, <1>7, <1>8, EmptyScreen

LEMMA RestartKeeps == ASSUME IInv, Restart PROVE IInv'
<1>1. TypeOK /\ Stored BY DEF IInv
<1>2. /\ transcript' = <<>> /\ nextId' = 1 /\ jobs' = {} /\ stopping' = {} /\ writes' = <<>>
      /\ reading' = FALSE /\ restored' = {} /\ restarts' = restarts + 1
      /\ answered' = [i \in DOMAIN rows |-> rows[i].reply.of]
      /\ UNCHANGED <<rows, lastRow, asks>>
  BY DEF Restart
<1>3. answered' \in Seq(Asks)
  <2>1. rows \in Seq(Row) BY <1>1 DEF TypeOK
  <2>2. Len(rows) \in Nat /\ DOMAIN rows = 1 .. Len(rows) BY <2>1, LenProperties
  <2>3. \A i \in DOMAIN rows : rows[i] \in Row BY <2>1, <2>2, ElementOfSeq
  <2>4. \A i \in DOMAIN rows : rows[i].reply \in Kept BY <2>3 DEF Row
  <2>5. \A i \in DOMAIN rows : rows[i].reply.of \in Asks BY <2>4 DEF Kept
  <2>6. answered' \in [1 .. Len(rows) -> Asks] BY <1>2, <2>2, <2>5
  <2> QED BY <2>2, <2>6, SeqDef
<1>4. transcript' \in Seq(Exchange) /\ writes' \in Seq(Statement) BY <1>2, EmptySeq
<1>5. TypeOK'
  <2>0. restarts \in Nat BY <1>1 DEF TypeOK
  <2>1. /\ restarts' = restarts + 1 /\ nextId' = 1 /\ jobs' = {} /\ stopping' = {}
        /\ reading' = FALSE
    BY <1>2
  <2>2. rows' \in Seq(Row) /\ lastRow' \in Nat /\ asks' \in 0 .. MaxAsks BY <1>1, <1>2 DEF TypeOK
  <2>3. restarts' \in Nat BY <2>0, <2>1
  <2>4. nextId' \in Nat /\ jobs' \subseteq Job /\ stopping' \subseteq Job BY <2>1
  <2>5. reading' \in BOOLEAN BY <2>1
  <2>6. \A turns \in restored' : turns \in Seq(Row) BY <1>2
  <2> QED BY <1>3, <1>4, <2>2, <2>3, <2>4, <2>5, <2>6 DEF TypeOK, Statement
<1>6. Stored' BY <1>1, <1>2 DEF Stored, Ordered
<1> QED BY <1>2, <1>5, <1>6, EmptyScreen

(* Steps that leave the screen and its runs alone.                          *)
LEMMA ElsewhereKeeps ==
    ASSUME IInv, UNCHANGED <<screen, jobs>>, TypeOK', Stored'
    PROVE  IInv'
<1>1. Spinning /\ Ids /\ Own /\ Revised BY DEF IInv
<1>2. UNCHANGED <<transcript, nextId, jobs>> BY DEF screen
<1>3. Spinning' /\ Ids' BY <1>1, <1>2 DEF Spinning, Ids, UniqueIds
<1>4. Own' BY <1>1, <1>2 DEF Own
<1>5. Revised' BY <1>1, <1>2 DEF Revised, Plans, HasPlan, IsLoaded
<1> QED BY <1>3, <1>4, <1>5 DEF IInv

(* An event of a run that was stopped is dropped.                           *)
LEMMA LateKeeps == ASSUME IInv, NEW j \in stopping, LateEvent(j) PROVE IInv'
<1>1. stopping' \subseteq Job BY DEF LateEvent, IInv, TypeOK
<1>2. CASE Active(j)
  <2>1. j \in jobs BY <1>2 DEF Active
  <2>2. Fail(j) \/ \E kind \in Kinds : Load(j, kind) BY <1>2 DEF LateEvent
  <2> QED BY <1>1, <2>1, <2>2, FailKeeps, LoadKeeps
<1>3. CASE ~Active(j)
  <2>1. UNCHANGED <<screen, jobs, database, restore, asks, restarts>> BY <1>3 DEF LateEvent
  <2>2. TypeOK' BY <1>1, <2>1 DEF IInv, TypeOK, screen, database, restore
  <2>3. Stored' BY <2>1 DEF IInv, Stored, Ordered, database, restore
  <2> QED BY <2>1, <2>2, <2>3, ElsewhereKeeps
<1> QED BY <1>2, <1>3

LEMMA RestoreKeeps == ASSUME IInv, SetUser \/ ReadTurns PROVE IInv'
<1>1. TypeOK /\ Stored BY DEF IInv
<1>2. UNCHANGED <<screen, jobs, stopping, rows, lastRow, writes, answered, asks, restarts>>
  BY DEF SetUser, ReadTurns, database
<1>3. reading' \in BOOLEAN /\ restored' \subseteq restored \cup {rows}
  BY DEF SetUser, ReadTurns
<1>4. TypeOK' BY <1>1, <1>2, <1>3 DEF TypeOK, screen
<1>5. Stored' BY <1>1, <1>2, <1>3 DEF Stored, Ordered
<1> QED BY <1>2, <1>4, <1>5, ElsewhereKeeps

LEMMA AdoptKeeps ==
    ASSUME IInv, NEW turns \in restored, Adopt(turns)
    PROVE  IInv'
<1>1. TypeOK /\ Spinning /\ Stored BY DEF IInv
<1>2. /\ restored' = restored \ {turns}
      /\ UNCHANGED <<jobs, stopping, rows, lastRow, writes, answered, reading, asks, restarts>>
  BY DEF Adopt, database
<1>3. Stored' BY <1>1, <1>2 DEF Stored, Ordered
<1>4. CASE ~Restorable
  <2>1. UNCHANGED screen BY <1>4 DEF Adopt
  <2>2. TypeOK' BY <1>1, <1>2, <2>1 DEF TypeOK, screen
  <2> QED BY <1>2, <1>3, <2>1, <2>2, ElsewhereKeeps
<1>5. CASE Restorable
  <2> DEFINE n == Len(turns)
             Adopted(i) == [id |-> turns[i].id, ask |-> turns[i].reply.of, state |-> "loaded",
                            reply |-> turns[i].reply, revision |-> turns[i].revision]
  <2>1. /\ transcript' = [i \in DOMAIN turns |-> Adopted(i)]
        /\ nextId' = NextAfter(turns)
    BY <1>5 DEF Adopt
  <2>2. jobs' = {}
    <3>1. DOMAIN transcript = {} BY <1>5 DEF Restorable
    <3> QED BY <1>1, <1>2, <3>1 DEF Spinning
  <2>3. turns \in Seq(Row) /\ Ordered(turns) BY <1>1 DEF TypeOK, Stored
  <2>4. n \in Nat /\ DOMAIN turns = 1 .. n BY <2>3, LenProperties
  <2>5. \A i \in 1 .. n : turns[i] \in Row BY <2>3, ElementOfSeq
  <2>6. \A i \in 1 .. n : /\ turns[i].id \in Nat /\ turns[i].revision \in BOOLEAN
                          /\ turns[i].reply \in Reply /\ turns[i].reply.of \in Asks
    BY <2>5 DEF Row, Kept, Reply, Kinds
  <2>7. \A i \in 1 .. n : Adopted(i) \in Exchange BY <2>6 DEF Exchange, States
  <2>8. transcript' \in [1 .. n -> Exchange] BY <2>1, <2>4, <2>7
  <2>9. transcript' \in Seq(Exchange) BY <2>4, <2>8, SeqDef
  <2>10. DOMAIN transcript' = 1 .. n BY <2>8
  <2>11. \A i \in 1 .. n : /\ transcript'[i].id = turns[i].id
                           /\ transcript'[i].ask = turns[i].reply.of
                           /\ transcript'[i].state = "loaded"
                           /\ transcript'[i].reply = turns[i].reply
    BY <2>1, <2>4
  <2>12. \A i \in 1 .. n : i < n => turns[i].id < turns[n].id
    BY <2>3, <2>4 DEF Ordered
  <2>13. /\ nextId' \in Nat \ {0}
         /\ \A i \in 1 .. n : turns[i].id < nextId'
    <3>1. CASE turns = <<>>
      <4>1. n = 0 BY <3>1
      <4>2. nextId' = 1 BY <2>1, <3>1 DEF NextAfter
      <4> QED BY <4>1, <4>2
    <3>2. CASE turns # <<>>
      <4>1. n \in 1 .. n BY <2>3, <2>4, <3>2, EmptySeq
      <4>2. nextId' = turns[n].id + 1 BY <2>1, <3>2 DEF NextAfter, Last
      <4>3. turns[n].id \in Nat BY <2>6, <4>1
      <4>4. ASSUME NEW i \in 1 .. n PROVE turns[i].id < nextId'
        <5>1. CASE i = n BY <4>2, <4>3, <5>1
        <5>2. CASE i < n BY <2>6, <2>12, <4>2, <4>3, <5>2
        <5>3. i \in Int /\ i <= n /\ n \in Int BY <2>4
        <5>4. i = n \/ i < n BY <5>3
        <5> QED BY <5>1, <5>2, <5>4
      <4> QED BY <4>2, <4>3, <4>4
    <3> QED BY <3>1, <3>2
  <2>14. TypeOK' BY <1>1, <1>2, <2>9, <2>13 DEF TypeOK
  <2>15. Spinning' BY <2>2, <2>10, <2>11 DEF Spinning
  <2>16. Ids'
    <3>1. \A i, k \in 1 .. n : turns[i].id = turns[k].id => i = k
      <4>1. TAKE i, k \in 1 .. n
      <4>2. i < k => turns[i].id < turns[k].id BY <2>3, <2>4 DEF Ordered
      <4>3. k < i => turns[k].id < turns[i].id BY <2>3, <2>4 DEF Ordered
      <4>4. turns[i].id \in Nat /\ turns[k].id \in Nat BY <2>6
      <4> QED BY <4>2, <4>3, <4>4
    <3>2. UniqueIds' BY <2>10, <2>11, <3>1 DEF UniqueIds
    <3> QED BY <2>10, <2>11, <2>13, <3>2 DEF Ids
  <2>17. Own' BY <2>2, <2>6, <2>10, <2>11 DEF Own
  <2>18. Revised' BY <2>2, <2>10, <2>11 DEF Revised
  <2> QED BY <1>3, <2>14, <2>15, <2>16, <2>17, <2>18 DEF IInv
<1> QED BY <1>4, <1>5

-----------------------------------------------------------------------------
(* The database: every statement leaves the rounds in the order of ids.     *)
LEMMA WriteKeeps == ASSUME IInv, Write PROVE IInv'
<1> DEFINE n == Len(rows)
<1>1. TypeOK /\ Stored BY DEF IInv
<1>2. UNCHANGED <<screen, jobs, stopping, reading, restored, asks, answered, restarts>> /\ writes # <<>>
  BY DEF Write, restore
<1>3. writes \in Seq(Statement) /\ rows \in Seq(Row) /\ lastRow \in Nat
  BY <1>1 DEF TypeOK, Statement
<1>4. Head(writes) \in Statement /\ Tail(writes) \in Seq(Statement)
  BY <1>2, <1>3, HeadTailProperties
<1>5. n \in Nat /\ DOMAIN rows = 1 .. n /\ \A a \in 1 .. n : rows[a] \in Row
  BY <1>3, LenProperties, ElementOfSeq
<1>6. /\ \A a, b \in 1 .. n : a < b => rows[a].id < rows[b].id
      /\ \A a \in 1 .. n : rows[a].id <= lastRow
  BY <1>1, <1>5 DEF Stored, Ordered
<1>7. /\ rows' \in Seq(Row) /\ lastRow' \in Nat /\ writes' \in Seq(Statement)
      /\ Ordered(rows') /\ \A a \in DOMAIN rows' : rows'[a].id <= lastRow'
  <2>1. CASE Head(writes).op = "clear" /\ rows' = <<>> /\ writes' = Tail(writes) /\ lastRow' = lastRow
    <3>1. rows' \in Seq(Row) /\ DOMAIN rows' = {} BY <2>1, EmptySeq
    <3> QED BY <1>3, <1>4, <2>1, <3>1 DEF Ordered
  <2>2. CASE Head(writes).op = "trim" /\ rows' = Trimmed(rows) /\ writes' = Tail(writes)
             /\ lastRow' = lastRow
    <3> DEFINE first == IF n > Keep THEN n - Keep + 1 ELSE 1
    <3>1. first \in 1 .. n + 1 /\ first \in Int BY <1>5, KeepAssumption
    <3>2. rows' = SubSeq(rows, first, n) BY <2>2 DEF Trimmed
    <3>3. \A a \in first .. n : rows[a] \in Row BY <1>5, <3>1
    <3> HIDE DEF first
    <3>4. /\ rows' \in Seq(Row)
          /\ Len(rows') = IF first <= n THEN n - first + 1 ELSE 0
          /\ \A a \in 1 .. n - first + 1 : rows'[a] = rows[first + a - 1]
      BY <1>5, <3>1, <3>2, <3>3, SubSeqProperties
    <3>5. DOMAIN rows' = 1 .. Len(rows') BY <3>4, LenProperties
    <3>6. Len(rows') = n - first + 1 BY <1>5, <3>1, <3>4
    <3>7. \A a \in 1 .. n - first + 1 : first + a - 1 \in 1 .. n BY <1>5, <3>1
    <3>8. Ordered(rows')
      <4> SUFFICES ASSUME NEW a \in 1 .. n - first + 1, NEW b \in 1 .. n - first + 1, a < b
                   PROVE  rows'[a].id < rows'[b].id
        BY <3>5, <3>6 DEF Ordered
      <4>1. first + a - 1 < first + b - 1 BY <3>1, <1>5
      <4>2. rows[first + a - 1].id < rows[first + b - 1].id BY <1>6, <3>7, <4>1
      <4> QED BY <3>4, <4>2
    <3>9. \A a \in DOMAIN rows' : rows'[a].id <= lastRow BY <1>6, <3>4, <3>5, <3>6, <3>7
    <3> QED BY <1>3, <1>4, <2>2, <3>4, <3>8, <3>9
  <2>3. CASE /\ Head(writes).op = "insert"
             /\ rows' = Append(rows, [id |-> lastRow + 1, reply |-> Head(writes).reply,
                                      revision |-> Head(writes).revision])
             /\ lastRow' = lastRow + 1
             /\ writes' = Append(Tail(writes), [op |-> "trim"])
    <3> DEFINE row == [id |-> lastRow + 1, reply |-> Head(writes).reply,
                       revision |-> Head(writes).revision]
    <3>1. Head(writes).reply \in Kept /\ Head(writes).revision \in BOOLEAN
      BY <1>4, <2>3 DEF Statement
    <3>2. row \in Row BY <1>3, <3>1 DEF Row
    <3>3. [op |-> "trim"] \in Statement BY DEF Statement
    <3>4. /\ rows' \in Seq(Row) /\ DOMAIN rows' = 1 .. n + 1
          /\ \A a \in 1 .. n : rows'[a] = rows[a]
          /\ rows'[n + 1] = row
      BY <1>3, <2>3, <3>2, AppendProperties, LenProperties
    <3>5. writes' \in Seq(Statement) BY <1>4, <2>3, <3>3, AppendProperties
    <3>6. row.id = lastRow + 1 OBVIOUS
    <3>7. \A a \in 1 .. n : rows[a].id \in Nat BY <1>5 DEF Row
    <3> HIDE DEF row
    <3>8. Ordered(rows')
      <4> SUFFICES ASSUME NEW a \in 1 .. n + 1, NEW b \in 1 .. n + 1, a < b
                   PROVE  rows'[a].id < rows'[b].id
        BY <3>4 DEF Ordered
      <4>1. a \in 1 .. n BY <1>5
      <4>2. CASE b = n + 1 BY <1>3, <1>6, <3>4, <3>6, <3>7, <4>1, <4>2
      <4>3. CASE b \in 1 .. n BY <1>6, <3>4, <4>1, <4>3
      <4> QED BY <1>5, <4>2, <4>3
    <3>9. \A a \in DOMAIN rows' : rows'[a].id <= lastRow'
      BY <1>3, <1>5, <1>6, <2>3, <3>4, <3>6, <3>7
    <3> QED BY <1>3, <2>3, <3>4, <3>5, <3>8, <3>9
  <2> QED BY <2>1, <2>2, <2>3 DEF Write
<1>8. TypeOK' BY <1>1, <1>2, <1>7 DEF TypeOK, Statement, screen
<1>9. Stored' BY <1>1, <1>2, <1>7 DEF Stored, Ordered
<1> QED BY <1>2, <1>8, <1>9, ElsewhereKeeps

-----------------------------------------------------------------------------
LEMMA NextKeeps == IInv /\ [Next]_vars => IInv'
<1> SUFFICES ASSUME IInv, [Next]_vars PROVE IInv' OBVIOUS
<1>1. CASE Send BY <1>1, SendKeeps
<1>2. CASE Cancel BY <1>2, CancelKeeps
<1>3. CASE StartNewConversation BY <1>3, StartKeeps
<1>4. CASE \E i \in DOMAIN transcript : Retry(i) BY <1>4, RetryKeeps
<1>5. CASE \E plan \in Library : ReviseSaved(plan) BY <1>5, ReviseSavedKeeps
<1>6. CASE \E j \in jobs : \/ Progress(j) \/ Result(j) \/ Refused(j)
                           \/ \E refused \in BOOLEAN : Broken(j, refused)
  BY <1>6, RunKeeps
<1>7. CASE SetUser \/ ReadTurns BY <1>7, RestoreKeeps
<1>8. CASE Write BY <1>8, WriteKeeps
<1>9. CASE Restart BY <1>9, RestartKeeps
<1>10. CASE \E turns \in restored : Adopt(turns) BY <1>10, AdoptKeeps
<1>12. CASE \E j \in stopping : LateEvent(j) BY <1>12, LateKeeps
<1>11. CASE UNCHANGED vars
  <2>1. UNCHANGED <<screen, jobs, stopping, database, restore, asks, restarts>> BY <1>11 DEF vars
  <2>2. TypeOK' BY <2>1 DEF IInv, TypeOK, screen, database, restore
  <2>3. Stored' BY <2>1 DEF IInv, Stored, Ordered, database, restore
  <2> QED BY <2>1, <2>2, <2>3, ElsewhereKeeps
<1> QED
  BY <1>1, <1>2, <1>3, <1>4, <1>5, <1>6, <1>7, <1>8, <1>9, <1>10, <1>11, <1>12 DEF Next

THEOREM InvariantSafe == Spec => []IInv
<1>1. Init => IInv BY InitIInv
<1>2. IInv /\ [Next]_vars => IInv' BY NextKeeps
<1> QED BY <1>1, <1>2, PTL DEF Spec

(* The transcript hangs together, whatever is restored, handed over, sent, *)
(* retried or stopped: ids tell its rounds apart and a round shows         *)
(* progress exactly while its run is under way (PlanViewModel).            *)
THEOREM ScreenSafe == Spec => []ScreenInv
<1>1. IInv => ScreenInv
  <2> SUFFICES ASSUME IInv PROVE ScreenInv OBVIOUS
  <2>1. TypeOK /\ Spinning /\ Ids BY DEF IInv
  <2>2. Cardinality(jobs) <= 1
    <3>1. CASE jobs = {} BY <3>1, FS_EmptySet
    <3>2. CASE jobs # {}
      <4>1. PICK j \in jobs : TRUE BY <3>2
      <4>2. jobs = {j} BY <2>1, <4>1 DEF Spinning
      <4>3. Cardinality({j}) = 1 BY FS_Singleton
      <4> QED BY <4>2, <4>3
    <3> QED BY <3>1, <3>2
  <2>3. {e.id : e \in {x \in Range(transcript) : x.state = "running"}} = {j.id : j \in jobs}
    BY <2>1 DEF Spinning, Range
  <2> QED BY <2>1, <2>2, <2>3 DEF ScreenInv, SpinnerHasRun, Ids
<1> QED BY <1>1, InvariantSafe, PTL

(* Every reply is shown under the request it answers, also after starting  *)
(* over gave its id out again, and after any number of restarts.           *)
THEOREM AnswersSafe == Spec => []AnswersOwn
<1>1. IInv => AnswersOwn BY DEF IInv, Own, AnswersOwn, IsLoaded
<1> QED BY <1>1, InvariantSafe, PTL

(* An edit is sent with a plan to edit and anything else without one, over *)
(* any number of retries, fallbacks and restarts.                          *)
THEOREM RevisionSafe == Spec => []RevisionKept
<1>1. IInv => RevisionKept
  <2> SUFFICES ASSUME IInv, NEW j \in jobs, NEW e \in Range(transcript), e.id = j.id
               PROVE  e.revision <=> j.previous # None
    BY DEF RevisionKept
  <2>1. PICK i \in DOMAIN transcript : e = transcript[i] BY DEF Range
  <2> QED BY <2>1 DEF IInv, Revised
<1> QED BY <1>1, InvariantSafe, PTL

-----------------------------------------------------------------------------
(* What a step may do to the rounds on screen.                              *)
Grows == \E e \in Exchange :
    /\ transcript' = Append(transcript, e)
    /\ e.state # "loaded" => e.ask \in 1 .. asks'
    /\ asks' >= asks
Ends == \E r \in DOMAIN transcript, s \in States :
    transcript[r].state = "running" /\ Touched(r, s) /\ asks' = asks
Comes == /\ transcript = <<>>
         /\ \A i \in DOMAIN transcript' : transcript'[i].state = "loaded"

LEMMA StepShapes ==
    ASSUME IInv, [Next]_vars
    PROVE  \/ transcript' = <<>> \/ Comes \/ Grows \/ Ends
           \/ \E r \in DOMAIN transcript : Retry(r)
           \/ UNCHANGED <<transcript, asks>>
<1>0. TypeOK BY DEF IInv
<1>1. CASE Send
  <2> DEFINE e == [id |-> nextId, ask |-> asks + 1, state |-> "running", reply |-> None,
                   revision |-> latestItinerary # None]
  <2>1. transcript' = Append(transcript, e) /\ asks' = asks + 1 /\ asks < MaxAsks BY <1>1 DEF Send
  <2>2. asks \in Nat /\ MaxAsks \in Nat BY <1>0, BoundsAssumption DEF TypeOK
  <2>3. asks + 1 \in Asks /\ asks + 1 \in 1 .. asks' /\ asks' >= asks BY <2>1, <2>2 DEF Asks
  <2>4. e \in Exchange BY <1>0, <2>3 DEF Exchange, States, TypeOK
  <2>5. e.ask = asks + 1 OBVIOUS
  <2> QED BY <2>1, <2>3, <2>4, <2>5 DEF Grows
<1>2. CASE Cancel
  <2>1. PICK j \in jobs : transcript' = SetState(j.id, "cancelled") /\ asks' = asks
    BY <1>2 DEF Cancel
  <2>2. PICK r \in DOMAIN transcript :
            /\ transcript[r].state = "running"
            /\ \A i \in DOMAIN transcript : transcript[i].id = j.id <=> i = r
    BY RunAt
  <2>3. Touched(r, "cancelled") /\ "cancelled" \in States BY <2>1, <2>2, SetStateIs DEF States
  <2> QED BY <2>1, <2>2, <2>3 DEF Ends
<1>3. CASE StartNewConversation \/ Restart BY <1>3 DEF StartNewConversation, Restart
<1>4. CASE \E plan \in Library : ReviseSaved(plan)
  <2>1. PICK plan \in Library : ReviseSaved(plan) BY <1>4
  <2> DEFINE q == [kind |-> "plan", of |-> plan]
             e == [id |-> SAVED_SEED_ID, ask |-> plan, state |-> "loaded",
                   reply |-> q, revision |-> FALSE]
  <2>2. transcript' = Append(transcript, e) /\ asks' = asks BY <2>1 DEF ReviseSaved
  <2>3. q \in Reply BY DEF Reply, Kinds
  <2>4. e \in Exchange /\ e.state = "loaded" BY <2>3 DEF Exchange, States, SAVED_SEED_ID
  <2>5. asks' >= asks BY <1>0, <2>2 DEF TypeOK
  <2> QED BY <2>2, <2>4, <2>5 DEF Grows
<1>5. ASSUME NEW j \in jobs, \/ Progress(j) \/ Fail(j)
                             \/ \E kind \in Kinds : Load(j, kind)
                             \/ \E refused \in BOOLEAN : Broken(j, refused)
      PROVE  Ends \/ UNCHANGED <<transcript, asks>>
  <2>2. PICK r \in DOMAIN transcript :
            /\ transcript[r].state = "running"
            /\ \A i \in DOMAIN transcript : transcript[i].id = j.id <=> i = r
    BY RunAt
  <2>3. CASE Fail(j)
    <3>1. Touched(r, "error") /\ asks' = asks BY <2>2, <2>3, SetStateIs DEF Fail, States
    <3> QED BY <2>2, <3>1 DEF Ends, States
  <2>4. CASE \E kind \in Kinds : Load(j, kind)
    <3>1. PICK kind \in Kinds : Load(j, kind) BY <2>4
    <3>2. Touched(r, "loaded") BY <2>2, <3>1, LoadTouches
    <3> QED BY <2>2, <3>1, <3>2 DEF Ends, States, Load
  <2>5. CASE UNCHANGED <<transcript, asks>> BY <2>5
  <2> QED BY <1>5, <2>3, <2>4, <2>5 DEF Progress, Broken, Abandon, screen
<1>6. CASE SetUser \/ ReadTurns \/ Write \/ UNCHANGED vars
  BY <1>6 DEF SetUser, ReadTurns, Write, vars, screen
<1>7. CASE \E turns \in restored : Adopt(turns)
  <2>1. PICK turns \in restored : Adopt(turns) BY <1>7
  <2>2. CASE ~Restorable BY <2>1, <2>2 DEF Adopt, screen
  <2>3. CASE Restorable
    <3>1. transcript' = [i \in DOMAIN turns |->
              [id |-> turns[i].id, ask |-> turns[i].reply.of, state |-> "loaded",
               reply |-> turns[i].reply, revision |-> turns[i].revision]]
      BY <2>1, <2>3 DEF Adopt
    <3>2. \A i \in DOMAIN transcript' : transcript'[i].state = "loaded" BY <3>1
    <3> QED BY <2>3, <3>2 DEF Comes, Restorable
  <2> QED BY <2>2, <2>3
<1>8. CASE \E r \in DOMAIN transcript : Retry(r) BY <1>8
<1>9. CASE \E j \in stopping : LateEvent(j)
  <2>1. PICK j \in stopping : LateEvent(j) BY <1>9
  <2>2. CASE Active(j) BY <1>5, <2>1, <2>2 DEF LateEvent, Active
  <2>3. CASE ~Active(j) BY <2>1, <2>3 DEF LateEvent, screen
  <2> QED BY <2>2, <2>3
<1>10. CASE \E j \in jobs : \/ Progress(j) \/ Result(j) \/ Refused(j)
                            \/ \E refused \in BOOLEAN : Broken(j, refused)
  BY <1>5, <1>10 DEF Result, Refused
<1> QED BY <1>1, <1>2, <1>3, <1>4, <1>6, <1>7, <1>8, <1>9, <1>10 DEF Next

(* Unless it was taken from the library, an exchange belongs to a request  *)
(* already made, so that a retry gives it another one.                     *)
Counted == \A i \in DOMAIN transcript :
    transcript[i].state # "loaded" => transcript[i].ask \in 1 .. asks

LEMMA RetryIs ==
    ASSUME TypeOK, NEW r \in DOMAIN transcript, Retry(r)
    PROVE  /\ DOMAIN transcript' = DOMAIN transcript /\ asks' = asks + 1
           /\ \A i \in DOMAIN transcript : i # r => transcript'[i] = transcript[i]
           /\ transcript'[r].id = transcript[r].id /\ transcript'[r].ask = asks + 1
           /\ transcript[r].state # "loaded"
<1>1. /\ transcript' = [transcript EXCEPT ![r].state = "running", ![r].ask = asks + 1]
      /\ asks' = asks + 1 /\ transcript[r].state \in {"error", "cancelled"}
  BY DEF Retry
<1>2. transcript[r] \in Exchange BY TranscriptIs
<1>3. transcript'[r] = [transcript[r] EXCEPT !.state = "running", !.ask = asks + 1]
  BY <1>1, TranscriptIs
<1>4. transcript'[r].id = transcript[r].id /\ transcript'[r].ask = asks + 1
  BY <1>2, <1>3 DEF Exchange
<1> QED BY <1>1, <1>4, TranscriptIs

LEMMA GrowsIs ==
    ASSUME TypeOK, Grows
    PROVE  \E e \in Exchange :
              /\ e.state # "loaded" => e.ask \in 1 .. asks'
              /\ asks' >= asks
              /\ Len(transcript') = Len(transcript) + 1
              /\ DOMAIN transcript' = 1 .. Len(transcript) + 1
              /\ \A i \in DOMAIN transcript : transcript'[i] = transcript[i]
              /\ transcript'[Len(transcript) + 1] = e
<1>1. PICK e \in Exchange : /\ transcript' = Append(transcript, e)
                            /\ e.state # "loaded" => e.ask \in 1 .. asks'
                            /\ asks' >= asks
  BY DEF Grows
<1>2. /\ transcript' \in Seq(Exchange) /\ Len(transcript') = Len(transcript) + 1
      /\ \A i \in 1 .. Len(transcript) : transcript'[i] = transcript[i]
      /\ transcript'[Len(transcript) + 1] = e
  BY <1>1, TranscriptIs, AppendProperties
<1>3. DOMAIN transcript' = 1 .. Len(transcript) + 1 BY <1>2, LenProperties
<1> QED BY <1>1, <1>2, <1>3, TranscriptIs

LEMMA CountedKeeps == IInv /\ Counted /\ [Next]_vars => Counted'
<1> SUFFICES ASSUME IInv, Counted, [Next]_vars PROVE Counted' OBVIOUS
<1>0. TypeOK /\ asks \in Nat BY BoundsAssumption DEF IInv, TypeOK
<1>1. CASE transcript' = <<>> BY <1>1 DEF Counted
<1>2. CASE Comes BY <1>2 DEF Comes, Counted
<1>3. CASE Grows
  <2>1. PICK e \in Exchange :
              /\ e.state # "loaded" => e.ask \in 1 .. asks'
              /\ asks' >= asks
              /\ DOMAIN transcript' = 1 .. Len(transcript) + 1
              /\ \A i \in DOMAIN transcript : transcript'[i] = transcript[i]
              /\ transcript'[Len(transcript) + 1] = e
    BY <1>0, <1>3, GrowsIs
  <2>2. DOMAIN transcript = 1 .. Len(transcript) /\ Len(transcript) \in Nat
    BY <1>0, TranscriptIs
  <2>3. asks' \in Nat BY NextKeeps, BoundsAssumption DEF IInv, TypeOK
  <2> SUFFICES ASSUME NEW i \in 1 .. Len(transcript) + 1, transcript'[i].state # "loaded"
               PROVE  transcript'[i].ask \in 1 .. asks'
    BY <2>1 DEF Counted
  <2>4. CASE i = Len(transcript) + 1 BY <2>1, <2>4
  <2>5. CASE i \in 1 .. Len(transcript)
    <3>1. transcript[i].ask \in 1 .. asks BY <2>1, <2>2, <2>5 DEF Counted
    <3>2. transcript'[i].ask \in 1 .. asks BY <2>1, <2>2, <2>5, <3>1
    <3> QED BY <1>0, <2>1, <2>3, <3>2
  <2> QED BY <2>2, <2>4, <2>5
<1>4. CASE Ends
  <2>1. PICK r \in DOMAIN transcript, s \in States :
            transcript[r].state = "running" /\ Touched(r, s) /\ asks' = asks
    BY <1>4 DEF Ends
  <2> QED BY <2>1 DEF Counted, Touched
<1>5. CASE \E r \in DOMAIN transcript : Retry(r)
  <2>1. PICK r \in DOMAIN transcript : Retry(r) BY <1>5
  <2> SUFFICES ASSUME NEW i \in DOMAIN transcript, transcript'[i].state # "loaded"
               PROVE  transcript'[i].ask \in 1 .. asks + 1
    BY <1>0, <2>1, RetryIs DEF Counted
  <2>2. CASE i = r BY <1>0, <2>1, <2>2, RetryIs
  <2>3. CASE i # r
    <3>1. transcript'[i] = transcript[i] BY <1>0, <2>1, <2>3, RetryIs
    <3>2. transcript'[i].ask \in 1 .. asks BY <3>1 DEF Counted
    <3> QED BY <1>0, <3>2
  <2> QED BY <2>2, <2>3
<1>6. CASE UNCHANGED <<transcript, asks>> BY <1>6 DEF Counted
<1> QED BY <1>1, <1>2, <1>3, <1>4, <1>5, <1>6, StepShapes

LEMMA SameLength == ASSUME NEW m \in Nat, NEW n \in Nat, 1 .. m = 1 .. n PROVE m = n
<1>1. CASE m < n
  <2>1. n \in 1 .. n /\ n \notin 1 .. m BY <1>1
  <2> QED BY <2>1
<1>2. CASE n < m
  <2>1. m \in 1 .. m /\ m \notin 1 .. n BY <1>2
  <2> QED BY <2>1
<1> QED BY <1>1, <1>2

LEMMA PrefixIs ==
    ASSUME NEW s \in Seq(Exchange), NEW t \in Seq(Exchange), Len(s) <= Len(t),
           \A i \in DOMAIN s : s[i].id = t[i].id
    PROVE  IsPrefix([i \in DOMAIN s |-> s[i].id], [i \in DOMAIN t |-> t[i].id])
<1> DEFINE a == [i \in DOMAIN s |-> s[i].id]
           b == [i \in DOMAIN t |-> t[i].id]
           n == Len(s)
<1>1. /\ n \in Nat /\ DOMAIN s = 1 .. n /\ Len(t) \in Nat /\ DOMAIN t = 1 .. Len(t)
      /\ \A i \in 1 .. n : s[i] \in Exchange
      /\ \A i \in 1 .. Len(t) : t[i] \in Exchange
  BY LenProperties, ElementOfSeq
<1>2. a \in [1 .. n -> Int] /\ b \in [1 .. Len(t) -> Int] BY <1>1 DEF Exchange
<1>3. a \in Seq(Int) /\ b \in Seq(Int) BY <1>1, <1>2, SeqDef
<1>4. Len(a) = n /\ Len(b) = Len(t)
  <2>1. DOMAIN a = 1 .. Len(a) /\ DOMAIN b = 1 .. Len(b) /\ Len(a) \in Nat /\ Len(b) \in Nat
    BY <1>3, LenProperties
  <2>2. DOMAIN a = 1 .. n /\ DOMAIN b = 1 .. Len(t) BY <1>1
  <2> HIDE DEF a, b
  <2> QED BY <1>1, <2>1, <2>2, SameLength
<1>5. \A i \in 1 .. n : a[i] = b[i] /\ b[i] \in Int BY <1>1, <1>2
<1> HIDE DEF a, b
<1>6. SubSeq(a, 1, n) = a BY <1>3, <1>4, SubSeqFull
<1>7. /\ SubSeq(b, 1, n) \in Seq(Int) /\ Len(SubSeq(b, 1, n)) = n
      /\ \A i \in 1 .. n : SubSeq(b, 1, n)[i] = b[i]
  <2>1. /\ SubSeq(b, 1, n) \in Seq(Int)
        /\ Len(SubSeq(b, 1, n)) = IF 1 <= n THEN n - 1 + 1 ELSE 0
        /\ \A i \in 1 .. n - 1 + 1 : SubSeq(b, 1, n)[i] = b[1 + i - 1]
    BY <1>1, <1>5, SubSeqProperties
  <2> QED BY <1>1, <2>1
<1>8. SubSeq(b, 1, n) = a BY <1>3, <1>4, <1>5, <1>7, SeqEqual
<1>9. IsPrefix(a, b) BY <1>4, <1>6, <1>8 DEF IsPrefix
<1> QED BY <1>9 DEF a, b

(* A run the traveller stopped changes nothing any more, and rounds are    *)
(* only ever added below: no restore replaces what was typed meanwhile     *)
(* (PlanViewModel.cancel and the restore of setUser).                      *)
THEOREM HistorySafe == Spec => NeverRewritten
<1> DEFINE ids == [i \in DOMAIN transcript |-> transcript[i].id]
           kept == transcript' # <<>> =>
              /\ IsPrefix(ids, [i \in DOMAIN transcript' |-> transcript'[i].id])
              /\ \A i \in DOMAIN transcript : transcript[i].state = "cancelled" => Stays(i)
<1>1. Init => IInv BY InitIInv
<1>2. Init => Counted BY DEF Init, Counted
<1>3. IInv /\ [Next]_vars => IInv' BY NextKeeps
<1>4. IInv /\ Counted /\ [Next]_vars => Counted' BY CountedKeeps
<1>5. IInv /\ Counted /\ [Next]_vars => [kept]_vars
  <2> SUFFICES ASSUME IInv, Counted, [Next]_vars, transcript' # <<>> PROVE
              /\ IsPrefix(ids, [i \in DOMAIN transcript' |-> transcript'[i].id])
              /\ \A i \in DOMAIN transcript : transcript[i].state = "cancelled" => Stays(i)
    OBVIOUS
  <2>0. TypeOK /\ TypeOK' /\ asks \in Nat BY NextKeeps, BoundsAssumption DEF IInv, TypeOK
  <2>1. /\ transcript \in Seq(Exchange) /\ transcript' \in Seq(Exchange)
        /\ Len(transcript) \in Nat /\ DOMAIN transcript = 1 .. Len(transcript)
        /\ Len(transcript') \in Nat /\ DOMAIN transcript' = 1 .. Len(transcript')
    BY <2>0, LenProperties DEF TypeOK
  <2>2. SUFFICES /\ Len(transcript) <= Len(transcript')
                 /\ \A i \in DOMAIN transcript :
                        /\ transcript[i].id = transcript'[i].id
                        /\ transcript[i].state = "cancelled" => Stays(i)
    BY <2>1, PrefixIs
  <2>3. CASE Comes
    <3>1. Len(transcript) = 0 /\ DOMAIN transcript = {} BY <2>3 DEF Comes
    <3> QED BY <2>1, <3>1
  <2>4. CASE Grows
    <3>1. /\ Len(transcript') = Len(transcript) + 1
          /\ \A i \in DOMAIN transcript : transcript'[i] = transcript[i]
      BY <2>0, <2>4, GrowsIs
    <3> QED BY <2>1, <3>1 DEF Stays
  <2>5. CASE Ends
    <3>1. PICK r \in DOMAIN transcript, s \in States :
              transcript[r].state = "running" /\ Touched(r, s)
      BY <2>5 DEF Ends
    <3>2. DOMAIN transcript' = DOMAIN transcript BY <3>1 DEF Touched
    <3>3. Len(transcript') = Len(transcript) BY <2>1, <3>2, SameLength
    <3>4. \A i \in DOMAIN transcript :
              /\ transcript[i].id = transcript'[i].id
              /\ transcript[i].state = "cancelled" => transcript'[i] = transcript[i]
      BY <3>1 DEF Touched
    <3> QED BY <2>1, <3>3, <3>4 DEF Stays
  <2>6. CASE \E r \in DOMAIN transcript : Retry(r)
    <3>1. PICK r \in DOMAIN transcript : Retry(r) BY <2>6
    <3>2. /\ DOMAIN transcript' = DOMAIN transcript
          /\ \A i \in DOMAIN transcript : i # r => transcript'[i] = transcript[i]
          /\ transcript'[r].id = transcript[r].id /\ transcript'[r].ask = asks + 1
          /\ transcript[r].state # "loaded"
      BY <2>0, <3>1, RetryIs
    <3>3. transcript[r].ask \in 1 .. asks BY <3>2 DEF Counted
    <3>4. transcript'[r].ask # transcript[r].ask BY <2>0, <3>2, <3>3
    <3>5. Len(transcript') = Len(transcript) BY <2>1, <3>2, SameLength
    <3> QED BY <2>1, <3>2, <3>4, <3>5 DEF Stays
  <2>7. CASE UNCHANGED <<transcript, asks>> BY <2>1, <2>7 DEF Stays
  <2> QED BY <2>3, <2>4, <2>5, <2>6, <2>7, StepShapes
<1> QED BY <1>1, <1>2, <1>3, <1>4, <1>5, PTL DEF Spec, NeverRewritten
-----------------------------------------------------------------------------
(* What is stored.  A death between two statements loses those waiting, so  *)
(* the invariant replays the ones that are: history[n] is what the database *)
(* will hold after n of them, and after the last it holds the newest rounds *)
(* answered.                                                                *)
Replies(turns) == [i \in DOMAIN turns |-> turns[i].reply.of]
After(write, kept) ==
    IF write.op = "clear" THEN <<>>
    ELSE IF write.op = "trim" THEN Newest(kept) ELSE Append(kept, write.reply.of)
Replays(history) ==
    /\ history \in [0 .. Len(writes) -> Seq(Asks)]
    /\ history[0] = Replies(rows)
    /\ \A n \in 1 .. Len(writes) : history[n] = After(writes[n], history[n - 1])
    /\ Newest(history[Len(writes)]) = Newest(answered)
Kept_Soon == \E history : Replays(history)
Kept_Few ==
    writes # <<>> \/ Len(rows) <= Keep \/ (restarts > 0 /\ Len(answered) = Len(rows))
KeptInv == Kept_Soon /\ Kept_Few

(* The newest of a list are its last Keep elements.                         *)
LEMMA NewestIs ==
    ASSUME NEW T, NEW s \in Seq(T)
    PROVE  /\ Newest(s) \in Seq(T)
           /\ Len(Newest(s)) = IF Len(s) > Keep THEN Keep ELSE Len(s)
           /\ \A i \in 1 .. Len(Newest(s)) : Newest(s)[i] = s[Len(s) - Len(Newest(s)) + i]
<1> DEFINE n == Len(s)
           from == IF n > Keep THEN n - Keep + 1 ELSE 1
           last == Newest(s)
<1>1. n \in Nat /\ \A i \in 1 .. n : s[i] \in T BY LenProperties, ElementOfSeq
<1>2. last = SubSeq(s, from, n) BY DEF Newest
<1> HIDE DEF n
<1>3. from \in 1 .. n + 1 /\ from \in Int /\ n - from + 1 = IF n > Keep THEN Keep ELSE n
  BY <1>1, KeepAssumption
<1> HIDE DEF from
<1>4. \A i \in from .. n : s[i] \in T BY <1>1, <1>3
<1>5. /\ last \in Seq(T) /\ Len(last) = (IF from <= n THEN n - from + 1 ELSE 0)
      /\ \A i \in 1 .. n - from + 1 : last[i] = s[from + i - 1]
  BY <1>1, <1>2, <1>3, <1>4, SubSeqProperties
<1> HIDE DEF last
<1>6. Len(last) = n - from + 1 BY <1>1, <1>3, <1>5
<1>7. \A i \in 1 .. Len(last) : last[i] = s[n - Len(last) + i]
  <2> SUFFICES ASSUME NEW i \in 1 .. Len(last) PROVE last[i] = s[n - Len(last) + i]
    OBVIOUS
  <2>1. i \in 1 .. n - from + 1 /\ i \in Int BY <1>6
  <2>2. from + i - 1 = n - Len(last) + i BY <1>1, <1>3, <1>6, <2>1
  <2> QED BY <1>5, <2>1, <2>2
<1> QED BY <1>3, <1>5, <1>6, <1>7 DEF n, last

LEMMA NewestTwice ==
    ASSUME NEW T, NEW s \in Seq(T)
    PROVE  Newest(Newest(s)) = Newest(s)
<1> DEFINE t == Newest(s)
           u == Newest(t)
<1>1. t \in Seq(T) /\ Len(t) = (IF Len(s) > Keep THEN Keep ELSE Len(s)) /\ Len(s) \in Nat
  BY NewestIs, LenProperties
<1> HIDE DEF t
<1>2. /\ u \in Seq(T) /\ Len(u) = (IF Len(t) > Keep THEN Keep ELSE Len(t))
      /\ \A i \in 1 .. Len(u) : u[i] = t[Len(t) - Len(u) + i]
  BY <1>1, NewestIs
<1> HIDE DEF u
<1>3. Len(t) \in Nat /\ Len(t) <= Keep /\ Len(u) = Len(t) BY <1>1, <1>2, KeepAssumption
<1>4. \A i \in 1 .. Len(u) : u[i] = t[i]
  <2> SUFFICES ASSUME NEW i \in 1 .. Len(u) PROVE u[i] = t[i]
    OBVIOUS
  <2>1. Len(t) - Len(u) + i = i BY <1>3
  <2> QED BY <1>2, <2>1
<1>5. u = t BY <1>1, <1>2, <1>3, <1>4, SeqEqual
<1> QED BY <1>5 DEF u, t

(* Lists that end alike still do with one more element.                     *)
LEMMA NewestGrows ==
    ASSUME NEW T, NEW s \in Seq(T), NEW t \in Seq(T), NEW a \in T, Newest(s) = Newest(t)
    PROVE  Newest(Append(s, a)) = Newest(Append(t, a))
<1> DEFINE n == Len(s)
           m == Len(t)
           same == Newest(s)
           u == Append(s, a)
           v == Append(t, a)
           nu == Newest(u)
           nv == Newest(v)
<1>1. /\ n \in Nat /\ m \in Nat
      /\ Len(same) = (IF n > Keep THEN Keep ELSE n) /\ Len(same) = (IF m > Keep THEN Keep ELSE m)
      /\ \A i \in 1 .. Len(same) : same[i] = s[n - Len(same) + i]
      /\ \A i \in 1 .. Len(same) : same[i] = t[m - Len(same) + i]
  BY NewestIs, LenProperties
<1>2. /\ u \in Seq(T) /\ Len(u) = n + 1 /\ u[n + 1] = a /\ \A i \in 1 .. n : u[i] = s[i]
      /\ v \in Seq(T) /\ Len(v) = m + 1 /\ v[m + 1] = a /\ \A i \in 1 .. m : v[i] = t[i]
  BY AppendProperties
<1> HIDE DEF u, v, same
<1>3. /\ nu \in Seq(T) /\ Len(nu) = (IF Len(u) > Keep THEN Keep ELSE Len(u))
      /\ \A i \in 1 .. Len(nu) : nu[i] = u[Len(u) - Len(nu) + i]
      /\ nv \in Seq(T) /\ Len(nv) = (IF Len(v) > Keep THEN Keep ELSE Len(v))
      /\ \A i \in 1 .. Len(nv) : nv[i] = v[Len(v) - Len(nv) + i]
  BY <1>2, NewestIs
<1> DEFINE c == Len(same)
           d == Len(nu)
<1>4. n \in Nat /\ m \in Nat /\ c = (IF n > Keep THEN Keep ELSE n) /\ c = (IF m > Keep THEN Keep ELSE m)
  BY <1>1
<1> HIDE DEF nu, nv, n, m, c
<1>5. d = (IF n + 1 > Keep THEN Keep ELSE n + 1) /\ Len(nv) = (IF m + 1 > Keep THEN Keep ELSE m + 1)
  BY <1>2, <1>3
<1> HIDE DEF d
<1>8. /\ Len(nv) = d /\ d \in Nat \ {0} /\ (d = c + 1 \/ d = c)
      /\ c \in Nat /\ c <= n /\ c <= m /\ d <= n + 1 /\ d <= m + 1
  BY <1>4, <1>5, KeepAssumption
<1>6. ASSUME NEW i \in 1 .. d PROVE nu[i] = nv[i]
  <2>1. nu[i] = u[(n + 1) - d + i] /\ nv[i] = v[(m + 1) - d + i]
    BY <1>2, <1>3, <1>8 DEF d
  <2>2. CASE i = d
    <3>1. (n + 1) - d + i = n + 1 /\ (m + 1) - d + i = m + 1 BY <1>4, <1>8, <2>2
    <3> QED BY <1>2, <2>1, <3>1
  <2>3. CASE i # d
    <3> DEFINE k == (c + 1) - d + i
    <3>1. k \in 1 .. c BY <1>8, <2>3
    <3>2. (n + 1) - d + i = n - c + k /\ (m + 1) - d + i = m - c + k
      BY <1>4, <1>8
    <3> HIDE DEF k
    <3>3. n - c + k \in 1 .. n /\ m - c + k \in 1 .. m
      BY <1>4, <1>8, <3>1
    <3>4. u[n - c + k] = s[n - c + k] /\ v[m - c + k] = t[m - c + k]
      BY <1>2, <3>3
    <3>5. same[k] = s[n - c + k] /\ same[k] = t[m - c + k] BY <1>1, <3>1 DEF c
    <3> QED BY <2>1, <3>2, <3>4, <3>5
  <2> QED BY <2>2, <2>3
<1>7. nu = nv BY <1>3, <1>6, <1>8, SeqEqual DEF d
<1> QED BY <1>7 DEF nu, nv, u, v

LEMMA RepliesIs ==
    ASSUME NEW turns \in Seq(Row)
    PROVE  /\ Replies(turns) \in Seq(Asks) /\ Len(Replies(turns)) = Len(turns)
           /\ \A i \in 1 .. Len(turns) : Replies(turns)[i] = turns[i].reply.of
<1>1. Len(turns) \in Nat /\ DOMAIN turns = 1 .. Len(turns) /\ \A i \in 1 .. Len(turns) : turns[i] \in Row
  BY LenProperties, ElementOfSeq
<1>2. Replies(turns) \in [1 .. Len(turns) -> Asks] BY <1>1 DEF Replies, Row, Kept
<1>3. Replies(turns) \in Seq(Asks) BY <1>1, <1>2
<1>4. DOMAIN Replies(turns) = 1 .. Len(turns) BY <1>1 DEF Replies
<1>5. Len(Replies(turns)) = Len(turns)
  <2>1. Len(Replies(turns)) \in Nat /\ DOMAIN Replies(turns) = 1 .. Len(Replies(turns))
    BY <1>3, LenProperties
  <2> QED BY <1>1, <1>4, <2>1, SameLength
<1> QED BY <1>1, <1>3, <1>5 DEF Replies

(* Dropping the oldest rounds drops the oldest replies.                     *)
LEMMA TrimmedReplies ==
    ASSUME NEW turns \in Seq(Row)
    PROVE  /\ Trimmed(turns) \in Seq(Row) /\ Len(Trimmed(turns)) <= Keep
           /\ Replies(Trimmed(turns)) = Newest(Replies(turns))
<1> DEFINE kept == Trimmed(turns)
           all == Replies(turns)
           left == Replies(kept)
           last == Newest(all)
<1>1. kept = Newest(turns) BY DEF Trimmed, Newest
<1>2. /\ kept \in Seq(Row) /\ Len(kept) = (IF Len(turns) > Keep THEN Keep ELSE Len(turns))
      /\ \A i \in 1 .. Len(kept) : kept[i] = turns[Len(turns) - Len(kept) + i]
      /\ Len(turns) \in Nat
  BY <1>1, NewestIs, LenProperties
<1> HIDE DEF kept
<1>3. /\ all \in Seq(Asks) /\ Len(all) = Len(turns)
      /\ \A i \in 1 .. Len(turns) : all[i] = turns[i].reply.of
      /\ left \in Seq(Asks) /\ Len(left) = Len(kept)
      /\ \A i \in 1 .. Len(kept) : left[i] = kept[i].reply.of
  BY <1>2, RepliesIs
<1> HIDE DEF all, left
<1>4. /\ last \in Seq(Asks) /\ Len(last) = (IF Len(all) > Keep THEN Keep ELSE Len(all))
      /\ \A i \in 1 .. Len(last) : last[i] = all[Len(all) - Len(last) + i]
  BY <1>3, NewestIs
<1> HIDE DEF last
<1>5. Len(last) = Len(left) /\ Len(left) = Len(kept) /\ Len(kept) \in Nat
      /\ Len(kept) <= Len(turns) /\ Len(kept) <= Keep
  BY <1>2, <1>3, <1>4, KeepAssumption
<1>6. ASSUME NEW i \in 1 .. Len(left) PROVE left[i] = last[i]
  <2>1. Len(turns) - Len(kept) + i \in 1 .. Len(turns) BY <1>2, <1>5
  <2> QED BY <1>2, <1>3, <1>4, <1>5, <2>1
<1>7. left = last BY <1>3, <1>4, <1>5, <1>6, SeqEqual
<1> QED BY <1>2, <1>5, <1>7 DEF kept, left, last, all

(* One more statement waits.                                                *)
LEMMA WaitingGrows ==
    ASSUME NEW history, Replays(history), writes \in Seq(Statement), NEW write \in Statement,
           writes' = Append(writes, write), rows' = rows, rows \in Seq(Row),
           After(write, history[Len(writes)]) \in Seq(Asks),
           Newest(After(write, history[Len(writes)])) = Newest(answered')
    PROVE  KeptInv'
<1> DEFINE n == Len(writes)
<1>0. PICK more : more = [i \in 0 .. n + 1 |-> IF i = n + 1 THEN After(write, history[n]) ELSE history[i]]
  OBVIOUS
<1>1. /\ n \in Nat /\ Len(writes') = n + 1 /\ writes' # <<>>
      /\ \A i \in 1 .. n : writes'[i] = writes[i]
      /\ writes'[n + 1] = write
  BY LenProperties, AppendProperties
<1>2. /\ history \in [0 .. n -> Seq(Asks)] /\ history[0] = Replies(rows)
      /\ \A i \in 1 .. n : history[i] = After(writes[i], history[i - 1])
  BY DEF Replays
<1> HIDE DEF n
<1>3. /\ more[n + 1] = After(write, history[n])
      /\ \A i \in 0 .. n : more[i] = history[i]
  BY <1>0, <1>1
<1>4. more \in [0 .. n + 1 -> Seq(Asks)]
  <2>1. After(write, history[n]) \in Seq(Asks) BY DEF n
  <2> QED BY <1>0, <1>1, <1>2, <2>1
<1>5. ASSUME NEW i \in 1 .. n + 1 PROVE more[i] = After(writes'[i], more[i - 1])
  <2>1. i - 1 \in 0 .. n BY <1>1
  <2>2. CASE i = n + 1
    <3>1. i - 1 = n BY <1>1, <2>2
    <3> QED BY <1>1, <1>3, <2>1, <2>2, <3>1
  <2>3. CASE i \in 1 .. n
    <3>1. i \in 0 .. n BY <1>1, <2>3
    <3> QED BY <1>1, <1>2, <1>3, <2>1, <2>3, <3>1
  <2> QED BY <1>1, <2>2, <2>3
<1>6. more[0] = Replies(rows') BY <1>1, <1>2, <1>3
<1>7. Newest(more[n + 1]) = Newest(answered') BY <1>3 DEF n
<1>8. Replays(more)' BY <1>1, <1>4, <1>5, <1>6, <1>7 DEF Replays
<1>9. Kept_Soon' BY <1>8 DEF Kept_Soon
<1> QED BY <1>1, <1>9 DEF KeptInv, Kept_Few

(* The first of them is done.                                               *)
LEMMA WaitingShrinks ==
    ASSUME NEW history, Replays(history), writes \in Seq(Statement), writes # <<>>,
           NEW more \in {<<>>, <<[op |-> "trim"]>>}, writes' = Tail(writes) \o more,
           Replies(rows') = After(Head(writes), Replies(rows)), answered' = answered
    PROVE  Kept_Soon'
<1> DEFINE n == Len(writes)
           rest == Tail(writes)
           m == Len(more)
<1>1. /\ n \in Nat \ {0} /\ rest \in Seq(Statement) /\ Len(rest) = n - 1
      /\ \A i \in 1 .. n - 1 : rest[i] = writes[i + 1]
      /\ Head(writes) = writes[1]
  BY HeadTailProperties, LenProperties, EmptySeq
<1>2. /\ more \in Seq(Statement) /\ m \in 0 .. 1
      /\ m = 1 => more[1].op = "trim"
      /\ m = 0 => more = <<>>
  <2>1. [op |-> "trim"] \in Statement BY DEF Statement
  <2>2. CASE more = <<>> BY <2>2
  <2>3. CASE more = <<[op |-> "trim"]>> BY <2>1, <2>3
  <2> QED BY <2>2, <2>3
<1>3. /\ history \in [0 .. n -> Seq(Asks)] /\ history[0] = Replies(rows)
      /\ \A i \in 1 .. n : history[i] = After(writes[i], history[i - 1])
      /\ Newest(history[n]) = Newest(answered)
  BY DEF Replays
<1>4. /\ Len(writes') = n - 1 + m
      /\ \A i \in 1 .. n - 1 + m : writes'[i] = IF i <= n - 1 THEN rest[i] ELSE more[i - (n - 1)]
  BY <1>1, <1>2, ConcatProperties
<1> HIDE DEF n, rest, m
<1>5. \A i \in 1 .. n - 1 + m : writes'[i] = IF i <= n - 1 THEN writes[i + 1] ELSE more[1]
  <2> SUFFICES ASSUME NEW i \in 1 .. n - 1 + m
               PROVE  writes'[i] = IF i <= n - 1 THEN writes[i + 1] ELSE more[1]
    OBVIOUS
  <2>1. CASE i <= n - 1
    <3>1. i \in 1 .. n - 1 BY <1>1, <1>2, <2>1
    <3>2. rest[i] = writes[i + 1] BY <1>1, <3>1
    <3>3. writes'[i] = rest[i] BY <1>4, <2>1
    <3> QED BY <2>1, <3>2, <3>3
  <2>2. CASE ~(i <= n - 1)
    <3>1. i - (n - 1) = 1 BY <1>1, <1>2, <2>2
    <3> QED BY <1>4, <2>2, <3>1
  <2> QED BY <2>1, <2>2
<1>0. PICK next : next = [i \in 0 .. n - 1 + m |->
                            IF i <= n - 1 THEN history[i + 1] ELSE Newest(history[n])]
  OBVIOUS
<1>6. n \in 0 .. n /\ history[n] \in Seq(Asks) /\ Newest(history[n]) \in Seq(Asks)
  <2>1. n \in 0 .. n BY <1>1
  <2> QED BY <1>3, <2>1, NewestIs
<1>7. \A i \in 0 .. n - 1 : i + 1 \in 1 .. n /\ i + 1 \in 0 .. n BY <1>1
<1>8. next \in [0 .. n - 1 + m -> Seq(Asks)]
  <2>1. ASSUME NEW i \in 0 .. n - 1 + m
        PROVE  (IF i <= n - 1 THEN history[i + 1] ELSE Newest(history[n])) \in Seq(Asks)
    <3>1. CASE i <= n - 1
      <4>1. i \in 0 .. n - 1 BY <1>1, <1>2, <3>1
      <4>2. i + 1 \in 0 .. n BY <1>7, <4>1
      <4>3. history[i + 1] \in Seq(Asks) BY <1>3, <4>2
      <4> QED BY <3>1, <4>3
    <3>2. CASE ~(i <= n - 1) BY <1>6, <3>2
    <3> QED BY <3>1, <3>2
  <2> QED BY <1>0, <2>1
<1>9. \A i \in 0 .. n - 1 + m : next[i] = IF i <= n - 1 THEN history[i + 1] ELSE Newest(history[n])
  BY <1>0
<1>10. next[0] = Replies(rows')
  <2>1. 0 \in 0 .. n - 1 + m /\ 0 <= n - 1 /\ 1 \in 1 .. n /\ 0 + 1 = 1 /\ 1 - 1 = 0 BY <1>1, <1>2
  <2>2. next[0] = history[1] BY <1>9, <2>1
  <2>3. history[1] = After(writes[1], history[0]) BY <1>3, <2>1
  <2> QED BY <1>1, <1>3, <2>2, <2>3
<1>11. ASSUME NEW i \in 1 .. n - 1 + m PROVE next[i] = After(writes'[i], next[i - 1])
  <2>1. i - 1 \in 0 .. n - 1 + m /\ i \in 0 .. n - 1 + m /\ i - 1 <= n - 1 /\ i - 1 + 1 = i
    BY <1>1, <1>2
  <2>2. next[i - 1] = history[i] BY <1>9, <2>1
  <2>3. CASE i <= n - 1
    <3>1. i + 1 \in 1 .. n /\ i + 1 - 1 = i BY <1>1, <2>3
    <3>2. history[i + 1] = After(writes[i + 1], history[i]) BY <1>3, <3>1
    <3>3. next[i] = history[i + 1] BY <1>9, <2>1, <2>3
    <3> QED BY <1>5, <2>2, <2>3, <3>2, <3>3
  <2>4. CASE ~(i <= n - 1)
    <3>1. i = n /\ m = 1 BY <1>1, <1>2, <2>4
    <3>2. next[i] = Newest(history[n]) BY <1>9, <2>1, <2>4
    <3>3. writes'[i] = more[1] BY <1>5, <2>4
    <3>4. writes'[i].op = "trim" BY <1>2, <3>1, <3>3
    <3> QED BY <2>2, <3>1, <3>2, <3>4 DEF After
  <2> QED BY <2>3, <2>4
<1>12. Newest(next[n - 1 + m]) = Newest(answered)
  <2>1. n - 1 + m \in 0 .. n - 1 + m BY <1>1, <1>2
  <2>2. CASE m = 0
    <3>1. n - 1 + m = n - 1 /\ n - 1 <= n - 1 /\ n - 1 + 1 = n BY <1>1, <2>2
    <3> QED BY <1>3, <1>9, <2>1, <3>1
  <2>3. CASE m = 1
    <3>1. n - 1 + m = n /\ ~(n <= n - 1) BY <1>1, <2>3
    <3>2. next[n] = Newest(history[n]) BY <1>9, <2>1, <3>1
    <3> QED BY <1>3, <1>6, <3>1, <3>2, NewestTwice
  <2> QED BY <1>2, <2>2, <2>3
<1>13. Replays(next)' BY <1>4, <1>8, <1>10, <1>11, <1>12 DEF Replays
<1> QED BY <1>13 DEF Kept_Soon

LEMMA WriteKept == ASSUME IInv, KeptInv, Write PROVE KeptInv'
<1> DEFINE first == Head(writes)
<1>1. /\ writes # <<>> /\ writes \in Seq(Statement) /\ rows \in Seq(Row)
      /\ lastRow \in Nat
  BY DEF Write, IInv, TypeOK, Statement
<1>2. first \in Statement /\ Tail(writes) \in Seq(Statement) BY <1>1, HeadTailProperties
<1>3. PICK history : Replays(history) BY DEF KeptInv, Kept_Soon
<1>4. answered' = answered /\ restarts' = restarts BY DEF Write
<1>5. Tail(writes) \o <<>> = Tail(writes) BY <1>2, ConcatEmptySeq
<1>6. CASE first.op = "clear" /\ rows' = <<>> /\ writes' = Tail(writes)
  <2>1. Replies(rows') = <<>> /\ Len(rows') = 0 BY <1>6 DEF Replies
  <2>2. Replies(rows') = After(first, Replies(rows)) BY <1>6, <2>1 DEF After
  <2>3. Kept_Soon' BY <1>1, <1>3, <1>4, <1>5, <1>6, <2>2, WaitingShrinks
  <2> QED BY <2>1, <2>3, KeepAssumption DEF KeptInv, Kept_Few
<1>7. CASE first.op = "trim" /\ rows' = Trimmed(rows) /\ writes' = Tail(writes)
  <2>1. Len(rows') <= Keep /\ Replies(rows') = Newest(Replies(rows))
    BY <1>1, <1>7, TrimmedReplies
  <2>2. Replies(rows') = After(first, Replies(rows)) BY <1>7, <2>1 DEF After
  <2>3. Kept_Soon' BY <1>1, <1>3, <1>4, <1>5, <1>7, <2>2, WaitingShrinks
  <2> QED BY <2>1, <2>3 DEF KeptInv, Kept_Few
<1>8. CASE /\ first.op = "insert"
           /\ rows' = Append(rows, [id |-> lastRow + 1, reply |-> first.reply,
                                    revision |-> first.revision])
           /\ writes' = Append(Tail(writes), [op |-> "trim"])
  <2> DEFINE row == [id |-> lastRow + 1, reply |-> first.reply, revision |-> first.revision]
             n == Len(rows)
  <2>1. first.reply \in Kept /\ first.revision \in BOOLEAN BY <1>2, <1>8 DEF Statement
  <2>2. row \in Row /\ row.reply.of = first.reply.of /\ first.reply.of \in Asks
    BY <1>1, <2>1 DEF Row, Kept
  <2>3. rows' = Append(rows, row) BY <1>8
  <2> HIDE DEF row
  <2>4. /\ rows' \in Seq(Row) /\ Len(rows') = n + 1 /\ n \in Nat
        /\ rows'[n + 1] = row /\ \A i \in 1 .. n : rows'[i] = rows[i]
    BY <1>1, <2>2, <2>3, AppendProperties, LenProperties
  <2>5. Replies(rows') = Append(Replies(rows), first.reply.of)
    <3> DEFINE s == Replies(rows')
               t == Append(Replies(rows), first.reply.of)
    <3>1. /\ s \in Seq(Asks) /\ Len(s) = n + 1
          /\ \A i \in 1 .. n + 1 : s[i] = rows'[i].reply.of
      BY <2>4, RepliesIs
    <3>2. /\ Replies(rows) \in Seq(Asks) /\ Len(Replies(rows)) = n
          /\ \A i \in 1 .. n : Replies(rows)[i] = rows[i].reply.of
      BY <1>1, RepliesIs
    <3>3. /\ t \in Seq(Asks) /\ Len(t) = n + 1 /\ t[n + 1] = first.reply.of
          /\ \A i \in 1 .. n : t[i] = Replies(rows)[i]
      BY <2>2, <3>2, AppendProperties
    <3> HIDE DEF s, t, n, first
    <3>4. ASSUME NEW i \in 1 .. n + 1 PROVE s[i] = t[i]
      <4>1. CASE i = n + 1 BY <2>2, <2>4, <3>1, <3>3, <4>1
      <4>2. CASE i \in 1 .. n BY <2>4, <3>1, <3>2, <3>3, <4>2
      <4> QED BY <2>4, <4>1, <4>2
    <3>5. s = t BY <3>1, <3>3, <3>4, SeqEqual
    <3> QED BY <3>5 DEF s, t
  <2>6. Replies(rows') = After(first, Replies(rows)) BY <1>8, <2>5 DEF After
  <2>7. [op |-> "trim"] \in Statement BY DEF Statement
  <2>8. writes' = Tail(writes) \o <<[op |-> "trim"]>>
    BY <1>2, <1>8, <2>7, AppendIsConcat
  <2>9. writes' # <<>> BY <1>2, <1>8, <2>7, AppendProperties
  <2>10. Kept_Soon' BY <1>1, <1>3, <1>4, <2>6, <2>8, WaitingShrinks
  <2> QED BY <2>9, <2>10 DEF KeptInv, Kept_Few
<1> QED BY <1>6, <1>7, <1>8 DEF Write

LEMMA LoadKept ==
    ASSUME IInv, KeptInv, NEW j \in jobs, NEW kind \in Kinds, Load(j, kind)
    PROVE  KeptInv'
<1> DEFINE n == Len(writes)
           reply == [kind |-> kind, of |-> j.ask]
           write == [op |-> "insert", reply |-> reply, revision |-> OfId(j.id).revision]
<1>1. UNCHANGED <<rows, restarts>> BY DEF Load
<1>2. CASE ~(Memorable(kind) /\ Shown(j.id))
  <2>1. UNCHANGED <<rows, writes, answered, restarts>> BY <1>1, <1>2 DEF Load
  <2> QED BY <2>1 DEF KeptInv, Kept_Soon, Kept_Few, Replays
<1>3. CASE Memorable(kind) /\ Shown(j.id)
  <2>1. writes' = Append(writes, write) /\ answered' = Append(answered, j.ask)
    BY <1>3 DEF Load
  <2>2. /\ writes \in Seq(Statement) /\ rows \in Seq(Row) /\ answered \in Seq(Asks)
        /\ n \in Nat /\ j.ask \in Asks
    BY LenProperties DEF IInv, TypeOK, Statement, Job, Asks
  <2>3. reply \in Kept /\ reply.of = j.ask BY <1>3, <2>2 DEF Kept, Memorable, Kinds
  <2>4. OfId(j.id).revision \in BOOLEAN
    <3>1. \E e \in Range(transcript) : e.id = j.id BY <1>3 DEF Shown
    <3>2. OfId(j.id) \in Range(transcript) BY <3>1 DEF OfId
    <3>3. Range(transcript) \subseteq Exchange BY TranscriptIs DEF IInv, Range
    <3> QED BY <3>2, <3>3 DEF Exchange
  <2>5. write.op = "insert" /\ write.reply.of = j.ask /\ write \in Statement
    BY <2>3, <2>4 DEF Statement
  <2> HIDE DEF write
  <2>6. PICK history : Replays(history) BY DEF KeptInv, Kept_Soon
  <2>7. history[n] \in Seq(Asks) /\ Newest(history[n]) = Newest(answered)
    <3>1. history \in [0 .. n -> Seq(Asks)] /\ Newest(history[n]) = Newest(answered)
      BY <2>6 DEF Replays
    <3>2. n \in 0 .. n BY <2>2
    <3> HIDE DEF n
    <3> QED BY <3>1, <3>2
  <2>8. After(write, history[n]) = Append(history[n], j.ask) BY <2>5 DEF After
  <2>9. /\ After(write, history[n]) \in Seq(Asks)
        /\ Newest(After(write, history[n])) = Newest(answered')
    BY <2>1, <2>2, <2>7, <2>8, NewestGrows, AppendProperties
  <2> QED BY <1>1, <2>1, <2>2, <2>5, <2>6, <2>9, WaitingGrows
<1> QED BY <1>2, <1>3

LEMMA StartKept == ASSUME IInv, KeptInv, StartNewConversation PROVE KeptInv'
<1> DEFINE write == [op |-> "clear"]
<1>1. /\ writes' = Append(writes, write) /\ answered' = <<>> /\ rows' = rows
      /\ writes \in Seq(Statement) /\ rows \in Seq(Row)
  BY DEF StartNewConversation, IInv, TypeOK, Statement
<1>2. write \in Statement /\ write.op = "clear" BY DEF Statement
<1> HIDE DEF write
<1>3. PICK history : Replays(history) BY DEF KeptInv, Kept_Soon
<1>4. After(write, history[Len(writes)]) = <<>> /\ <<>> \in Seq(Asks)
  BY <1>2, EmptySeq DEF After
<1> QED BY <1>1, <1>2, <1>3, <1>4, WaitingGrows

LEMMA RestartKept == ASSUME IInv, KeptInv, Restart PROVE KeptInv'
<1>1. /\ writes' = <<>> /\ rows' = rows /\ answered' = Replies(rows) /\ restarts' = restarts + 1
      /\ rows \in Seq(Row) /\ restarts \in Nat
  BY DEF Restart, Replies, IInv, TypeOK
<1>2. Len(writes') = 0 /\ Replies(rows) \in Seq(Asks) /\ Len(Replies(rows)) = Len(rows)
  BY <1>1, RepliesIs
<1>3. PICK history : history = [i \in 0 .. 0 |-> Replies(rows)] OBVIOUS
<1>4. history \in [0 .. 0 -> Seq(Asks)] /\ history[0] = Replies(rows) BY <1>2, <1>3
<1>5. Replays(history)' BY <1>1, <1>2, <1>4 DEF Replays
<1>6. Kept_Soon' BY <1>5 DEF Kept_Soon
<1> QED BY <1>1, <1>2, <1>6 DEF KeptInv, Kept_Few

LEMMA KeptStep == IInv /\ KeptInv /\ [Next]_vars => KeptInv'
<1> SUFFICES ASSUME IInv, KeptInv, [Next]_vars PROVE KeptInv'
  OBVIOUS
<1>1. CASE UNCHANGED <<rows, writes, answered, restarts>>
  BY <1>1 DEF KeptInv, Kept_Soon, Kept_Few, Replays
<1>2. CASE Write BY <1>2, WriteKept
<1>3. CASE Restart BY <1>3, RestartKept
<1>4. CASE StartNewConversation BY <1>4, StartKept
<1>5. CASE \E j \in jobs : Result(j) BY <1>5, LoadKept DEF Result
<1>6. CASE \E j \in stopping : LateEvent(j)
  <2>1. PICK j \in stopping : LateEvent(j) BY <1>6
  <2>2. CASE Active(j)
    <3>1. j \in jobs /\ (Fail(j) \/ \E kind \in Kinds : Load(j, kind))
      BY <2>1, <2>2 DEF LateEvent, Active
    <3>2. CASE Fail(j) BY <1>1, <3>2 DEF Fail, database
    <3> QED BY <3>1, <3>2, LoadKept
  <2>3. CASE ~Active(j) BY <1>1, <2>1, <2>3 DEF LateEvent, database
  <2> QED BY <2>2, <2>3
<1> QED
  BY <1>1, <1>2, <1>3, <1>4, <1>5, <1>6
  DEF Next, Send, Cancel, Retry, ReviseSaved, Progress, Refused, Fail, Broken, Abandon,
      SetUser, ReadTurns, Adopt, vars, database

(* For any number of rounds, starts over and deaths of the process, once    *)
(* the database has caught up its newest rounds are the newest answered,    *)
(* and no more are kept than KEEP, but for those a death left untrimmed.    *)
THEOREM TurnsSafe == Spec => []KeptTurns
<1>1. Init => KeptInv
  <2> SUFFICES ASSUME Init PROVE KeptInv
    OBVIOUS
  <2>1. writes = <<>> /\ rows = <<>> /\ answered = <<>> /\ Len(writes) = 0 /\ Len(rows) = 0
    BY DEF Init
  <2>2. Replies(rows) = <<>> /\ <<>> \in Seq(Asks) BY <2>1, EmptySeq DEF Replies
  <2>3. PICK history : history = [i \in 0 .. 0 |-> Replies(rows)] OBVIOUS
  <2>4. history \in [0 .. 0 -> Seq(Asks)] /\ history[0] = Replies(rows) BY <2>2, <2>3
  <2>5. Replays(history) BY <2>1, <2>2, <2>4 DEF Replays
  <2> QED BY <2>1, <2>5, KeepAssumption DEF KeptInv, Kept_Soon, Kept_Few
<1>2. ASSUME KeptInv PROVE KeptTurns
  <2> SUFFICES ASSUME writes = <<>>
               PROVE  /\ Newest(Replies(rows)) = Newest(answered)
                      /\ Len(rows) <= Keep \/ (restarts > 0 /\ Len(answered) = Len(rows))
    BY DEF KeptTurns, Replies
  <2>1. PICK history : Replays(history) BY <1>2 DEF KeptInv, Kept_Soon
  <2>2. Len(writes) = 0 OBVIOUS
  <2>3. history[0] = Replies(rows) /\ Newest(history[0]) = Newest(answered)
    BY <2>1, <2>2 DEF Replays
  <2> QED BY <1>2, <2>3 DEF KeptInv, Kept_Few
<1> QED BY <1>1, <1>2, KeptStep, InvariantSafe, PTL DEF Spec
=============================================================================

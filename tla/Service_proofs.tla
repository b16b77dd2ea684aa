---------------------------- MODULE Service_proofs ----------------------------
(***************************************************************************)
(* Proofs about Service: a stored report is its owner's about a retained   *)
(* run, and goes only with its run or by a later word of its author; and    *)
(* the allowances hold, for any allowance, number of callers and restarts.  *)
(***************************************************************************)
EXTENDS Service, SequenceTheorems, FiniteSetTheorems, WellFoundedInduction, TLAPS

(* A run has one number: that of a row is no other row's, nor that of a run *)
(* still going on.                                                          *)
Numbered ==
    /\ started \in Nat
    /\ IsFiniteSet(runs)
    /\ \A row \in runs : row.id \in 1 .. started
    /\ \A run \in running : run.run \in 1 .. started
    /\ \A r, q \in runs : r.id = q.id => r = q
    /\ \A r, q \in running : r.run = q.run => r = q
    /\ \A row \in runs, run \in running : row.id # run.run

IInv == Numbered /\ ReportsOwned

-----------------------------------------------------------------------------
(* What the sweep, the trim and the cascade leave.                          *)

LEMMA FreshFewer == ASSUME NEW rows PROVE Fresh(rows) \subseteq rows
BY DEF Fresh

LEMMA KeptFewer ==
    ASSUME NEW rows, NEW owner, NEW kept \in Kept(rows, owner)
    PROVE  kept \subseteq rows
BY DEF Kept, Newest, OwnedBy

(* Reports whose run stays stay owned, since its row is the same.           *)
LEMMA CascadeOwned ==
    ASSUME IInv, NEW rows, \A row \in rows : row \in runs \/ \A r \in runs : r.id # row.id
    PROVE  \A f \in Cascaded(rows) : \E row \in rows :
              row.id = f.run /\ row.owner = f.by /\ f.target \in {"plan"} \cup row.shape
<1> SUFFICES ASSUME NEW f \in Cascaded(rows)
             PROVE  \E row \in rows : row.id = f.run /\ row.owner = f.by
                                      /\ f.target \in {"plan"} \cup row.shape
  OBVIOUS
<1>1. f \in feedback BY DEF Cascaded
<1>2. PICK row \in rows : row.id = f.run BY DEF Cascaded
<1>3. PICK q \in runs : q.id = f.run /\ q.owner = f.by /\ f.target \in {"plan"} \cup q.shape
  BY <1>1 DEF IInv, ReportsOwned
<1>4. row \in runs BY <1>2, <1>3
<1>5. row = q BY <1>2, <1>3, <1>4 DEF IInv, Numbered
<1> QED BY <1>2, <1>3, <1>5

(* The trim drops a row only for as many of its owner that are no older.    *)
LEMMA TrimOutlives ==
    ASSUME NEW rows, IsFiniteSet(rows), NEW owner, NEW kept \in Kept(rows, owner),
           NEW row \in rows \ kept, MAX_RUNS_PER_USER \in Nat
    PROVE  /\ row.owner = owner
           /\ Cardinality({r \in kept : r.owner = row.owner /\ r.created >= row.created})
                 >= MAX_RUNS_PER_USER
<1> DEFINE mine == OwnedBy(rows, owner)
           newer == {r \in kept : r.owner = row.owner /\ r.created >= row.created}
<1>1. PICK newest \in Newest(mine) : kept = (rows \ mine) \cup newest BY DEF Kept
<1>2. row \in mine \ newest /\ row.owner = owner BY <1>1 DEF OwnedBy
<1>3. /\ newest \subseteq mine
      /\ \A r \in newest : r.created >= row.created
      /\ Cardinality(newest) = IF Cardinality(mine) < MAX_RUNS_PER_USER
                               THEN Cardinality(mine) ELSE MAX_RUNS_PER_USER
  BY <1>1, <1>2 DEF Newest
<1>4. IsFiniteSet(mine) BY FS_Subset DEF OwnedBy
<1>5. /\ IsFiniteSet(newest) /\ Cardinality(newest) \in Nat /\ Cardinality(mine) \in Nat
      /\ (Cardinality(newest) = Cardinality(mine) => newest = mine)
  BY <1>3, <1>4, FS_Subset, FS_CardinalityType
<1>6. Cardinality(newest) = MAX_RUNS_PER_USER BY <1>2, <1>3, <1>5
<1>7. newest \subseteq newer BY <1>1, <1>2, <1>3 DEF OwnedBy
<1>8. kept \subseteq rows BY KeptFewer
<1>9. IsFiniteSet(newer) BY <1>8, FS_Subset
<1>10. Cardinality(newest) <= Cardinality(newer) /\ Cardinality(newer) \in Nat
  BY <1>7, <1>9, FS_Subset, FS_CardinalityType
<1> QED BY <1>2, <1>6, <1>10

-----------------------------------------------------------------------------
(* One step per action. *)

LEMMA RecordStep ==
    ASSUME IInv, NEW run \in running, Record(run)
    PROVE  IInv'
<1>1. PICK shape, row :
        /\ row = [id |-> run.run, owner |-> run.owner, created |-> clock, shape |-> shape]
        /\ runs' \in Kept(Fresh(runs) \cup {row}, run.owner)
  BY DEF Record
<1>2. row.id = run.run BY <1>1
<1>3. runs' \subseteq runs \cup {row} BY <1>1, KeptFewer, FreshFewer
<1>4. feedback' = Cascaded(runs') /\ running' = running \ {run} /\ started' = started
  BY DEF Record, limiter
<1>5. \A q \in runs' : q \in runs \/ \A r \in runs : r.id # q.id
  BY <1>2, <1>3 DEF IInv, Numbered
<1>6. ReportsOwned' BY <1>4, <1>5, CascadeOwned DEF ReportsOwned
<1>7. IsFiniteSet(runs')
  <2>1. IsFiniteSet(runs \cup {row}) BY FS_AddElement DEF IInv, Numbered
  <2> QED BY <1>3, <2>1, FS_Subset
<1>8. Numbered' BY <1>2, <1>3, <1>4, <1>7 DEF IInv, Numbered
<1> QED BY <1>6, <1>8 DEF IInv

LEMMA SweepStep ==
    ASSUME IInv, runs' \subseteq runs, feedback' = Cascaded(runs'), running' \subseteq running,
           started' = started
    PROVE  IInv'
<1>1. ReportsOwned' BY CascadeOwned DEF ReportsOwned
<1>2. IsFiniteSet(runs') BY FS_Subset DEF IInv, Numbered
<1> QED BY <1>1, <1>2 DEF IInv, Numbered

LEMMA SubmitStep ==
    ASSUME IInv, NEW report, Submit(report)
    PROVE  IInv'
<1>1. /\ runs' = Fresh(runs) /\ running' = running /\ started' = started
      /\ feedback' \subseteq Cascaded(Fresh(runs)) \cup {report}
      /\ report \in feedback' => report \in Cascaded(Fresh(runs)) \/ Accepted(report, Fresh(runs))
  BY DEF Submit, limiter
<1>2. Fresh(runs) \subseteq runs BY FreshFewer
<1>3. \A f \in Cascaded(Fresh(runs)) : \E row \in Fresh(runs) :
         row.id = f.run /\ row.owner = f.by /\ f.target \in {"plan"} \cup row.shape
  BY <1>2, CascadeOwned
<1>4. Accepted(report, Fresh(runs)) => \E row \in Fresh(runs) :
         row.id = report.run /\ row.owner = report.by /\ report.target \in {"plan"} \cup row.shape
  BY DEF Accepted, Found
<1>5. ReportsOwned' BY <1>1, <1>3, <1>4 DEF ReportsOwned
<1>6. IsFiniteSet(runs') BY <1>1, <1>2, FS_Subset DEF IInv, Numbered
<1> QED BY <1>1, <1>2, <1>5, <1>6 DEF IInv, Numbered

LEMMA InvStep == IInv /\ [Next]_vars => IInv'
<1> SUFFICES ASSUME IInv, [Next]_vars PROVE IInv'
  OBVIOUS
<1>1. ASSUME NEW caller \in Callers, Admit(caller) PROVE IInv'
  <2>1. /\ runs' = runs /\ feedback' = feedback /\ started' = started + 1
        /\ running' = running \cup {[run |-> started + 1, owner |-> Owner(caller)]}
    BY <1>1 DEF Admit, database
  <2>2. PICK new : new = [run |-> started + 1, owner |-> Owner(caller)] OBVIOUS
  <2>3. running' = running \cup {new} /\ new.run = started + 1 BY <2>1, <2>2
  <2>4. Numbered' BY <2>1, <2>3 DEF IInv, Numbered
  <2> QED BY <2>1, <2>4 DEF IInv, ReportsOwned
<1>2. ASSUME NEW run \in running, Record(run) PROVE IInv' BY <1>2, RecordStep
<1>3. ASSUME NEW report \in reports, Submit(report) PROVE IInv' BY <1>3, SubmitStep
<1>4. CASE Prune BY <1>4, FreshFewer, SweepStep DEF Prune, limiter
<1>5. CASE Restart BY <1>5, FreshFewer, SweepStep DEF Restart
<1>6. CASE UNCHANGED <<runs, feedback, started>> /\ running' \subseteq running
  BY <1>6 DEF IInv, Numbered, ReportsOwned
<1>7. CASE (\E caller \in Callers : Refuse(caller))
           \/ (\E run \in running : EndUnrecorded(run))
           \/ (\E account \in Accounts, run \in {row.id : row \in runs}, target \in Targets :
                  Report(account, run, target))
           \/ (\E report \in reports : SubmitFails(report))
           \/ Tick \/ UNCHANGED vars
  BY <1>6, <1>7 DEF Refuse, EndUnrecorded, Report, SubmitFails, Tick, vars, database, limiter
<1> QED BY <1>1, <1>2, <1>3, <1>4, <1>5, <1>7 DEF Next

LEMMA Inductive == Spec => []IInv
<1>1. Init => IInv
  <2>1. ASSUME Init PROVE IsFiniteSet(runs) BY <2>1, FS_EmptySet DEF Init
  <2> QED BY <2>1 DEF Init, IInv, Numbered, ReportsOwned
<1> QED BY <1>1, InvStep, PTL DEF Spec

(* A stored report is its owner's about a run that is still retained, and   *)
(* about something in it.                                                   *)
THEOREM OwnedSafe == Spec => []ReportsOwned
<1>1. IInv => ReportsOwned BY DEF IInv
<1> QED BY <1>1, Inductive, PTL

-----------------------------------------------------------------------------
(* What may take a report away.                                             *)

KeptFormula ==
    \A f \in feedback \ feedback' :
          \/ \E g \in feedback' : SameTarget(g, f) /\ g.by = f.by
          \/ \A row \in runs : row.id = f.run => Outlived(row)

(* A report the cascade drops had a row that expired or was trimmed.        *)
LEMMA CascadeKeeps ==
    ASSUME feedback' = Cascaded(runs'), \A row \in runs \ runs' : Outlived(row)
    PROVE  KeptFormula
<1> SUFFICES ASSUME NEW f \in feedback \ feedback', NEW row \in runs, row.id = f.run
             PROVE  Outlived(row)
  BY DEF KeptFormula
<1>1. row \notin runs' BY DEF Cascaded
<1> QED BY <1>1

LEMMA StaleOutlived == \A row \in runs \ Fresh(runs) : Outlived(row)
BY DEF Fresh, Outlived

LEMMA RecordKeeps ==
    ASSUME IInv, NEW run \in running, Record(run)
    PROVE  KeptFormula
<1>1. PICK shape, row :
        /\ row = [id |-> run.run, owner |-> run.owner, created |-> clock, shape |-> shape]
        /\ runs' \in Kept(Fresh(runs) \cup {row}, run.owner)
  BY DEF Record
<1>2. IsFiniteSet(Fresh(runs) \cup {row})
  BY FreshFewer, FS_Subset, FS_AddElement DEF IInv, Numbered
<1>3. ASSUME NEW q \in runs \ runs' PROVE Outlived(q)
  <2>1. CASE q \notin Fresh(runs) BY <2>1, StaleOutlived
  <2>2. CASE q \in Fresh(runs)
    <3>1. q \in (Fresh(runs) \cup {row}) \ runs' BY <1>3, <2>2
    <3>2. Cardinality({r \in runs' : r.owner = q.owner /\ r.created >= q.created})
             >= MAX_RUNS_PER_USER
      BY <1>1, <1>2, <3>1, TrimOutlives, ServiceAssumption
    <3> QED BY <3>2 DEF Outlived
  <2> QED BY <2>1, <2>2
<1>4. feedback' = Cascaded(runs') BY DEF Record
<1> QED BY <1>3, <1>4, CascadeKeeps

LEMMA SubmitKeeps ==
    ASSUME IInv, NEW report, Submit(report)
    PROVE  KeptFormula
<1> SUFFICES ASSUME NEW f \in feedback \ feedback'
             PROVE  \/ \E g \in feedback' : SameTarget(g, f) /\ g.by = f.by
                    \/ \A row \in runs : row.id = f.run => Outlived(row)
  BY DEF KeptFormula
<1>1. CASE f \notin Cascaded(Fresh(runs))
  <2>1. ASSUME NEW row \in runs, row.id = f.run PROVE Outlived(row)
    <3>1. row \notin Fresh(runs) BY <1>1, <2>1 DEF Cascaded
    <3> QED BY <3>1, StaleOutlived
  <2> QED BY <2>1
<1>2. CASE f \in Cascaded(Fresh(runs))
  <2>1. Accepted(report, Fresh(runs)) /\ SameTarget(f, report) /\ report \in feedback'
    BY <1>2 DEF Submit
  <2>2. PICK row \in Fresh(runs) : row.id = report.run /\ row.owner = report.by
    BY <2>1 DEF Accepted, Found
  <2>3. PICK q \in runs : q.id = f.run /\ q.owner = f.by BY DEF IInv, ReportsOwned
  <2>4. row = q BY <2>1, <2>2, <2>3, FreshFewer DEF SameTarget, IInv, Numbered
  <2> QED BY <2>1, <2>2, <2>3, <2>4 DEF SameTarget
<1> QED BY <1>1, <1>2

LEMMA StepKeeps == IInv /\ [Next]_vars => KeptFormula
<1> SUFFICES ASSUME IInv, [Next]_vars PROVE KeptFormula
  OBVIOUS
<1>1. ASSUME NEW run \in running, Record(run) PROVE KeptFormula BY <1>1, RecordKeeps
<1>2. ASSUME NEW report \in reports, Submit(report) PROVE KeptFormula BY <1>2, SubmitKeeps
<1>3. CASE Prune \/ Restart
  <2>1. feedback' = Cascaded(runs') /\ Fresh(runs) \subseteq runs'
    BY <1>3, FreshFewer DEF Prune, Restart
  <2> QED BY <2>1, StaleOutlived, CascadeKeeps
<1>4. CASE feedback' = feedback BY <1>4 DEF KeptFormula
<1>5. CASE (\E caller \in Callers : Refuse(caller) \/ Admit(caller))
           \/ (\E run \in running : EndUnrecorded(run))
           \/ (\E account \in Accounts, run \in {row.id : row \in runs}, target \in Targets :
                  Report(account, run, target))
           \/ (\E report \in reports : SubmitFails(report))
           \/ Tick \/ UNCHANGED vars
  BY <1>4, <1>5 DEF Refuse, Admit, EndUnrecorded, Report, SubmitFails, Tick, vars, database
<1> QED BY <1>1, <1>2, <1>3, <1>5 DEF Next

(* A stored report goes only when its author replaces it, its run expires,  *)
(* or its owner has as many retained runs that are no older.                *)
THEOREM KeptSafe == Spec => ReportsKept
<1>1. IInv /\ [Next]_vars =>
        [\A f \in feedback \ feedback' :
          \/ \E g \in feedback' : SameTarget(g, f) /\ g.by = f.by
          \/ \A row \in runs : row.id = f.run => Outlived(row)]_vars
  BY StepKeeps DEF KeptFormula
<1> QED BY <1>1, Inductive, PTL DEF Spec, ReportsKept
-----------------------------------------------------------------------------
(* The limiter.  Its lists forget what has left the window, and the history *)
(* of admitted runs does not: they agree on every instant that a window     *)
(* still reaches.                                                           *)

Allowance(key) == IF key = GLOBAL_PLAN_KEY THEN plan_daily_global ELSE PLAN
Paid(key) == IF key = GLOBAL_PLAN_KEY THEN spent ELSE Mine(spent, key)
Later(list, t) == {i \in DOMAIN list : list[i] > t}
PaidAfter(key, t) == {s \in Paid(key) : s.at > t}

InOrder(list) == \A i, j \in DOMAIN list : i <= j => list[i] <= list[j]

HitsOK ==
    /\ hits \in [Keys -> Seq(Nat)]
    /\ \A key \in Keys : InOrder(hits[key]) /\ \A i \in DOMAIN hits[key] : hits[key][i] <= clock
SpentOK ==
    /\ IsFiniteSet(spent)
    /\ \A s \in spent : s.at \in 0 .. clock /\ s.run \in 1 .. started
                        /\ \E c \in Callers : s.key = Plan(c)
Agree ==
    \A key \in Keys : \A t \in clock - Allowance(key).window .. clock :
        Cardinality(Later(hits[key], t)) = Cardinality(PaidAfter(key, t))

Metered ==
    /\ clock \in Nat /\ started \in Nat
    /\ HitsOK /\ SpentOK /\ Agree /\ CeilingsHold

LEMMA MinIsLeast ==
    ASSUME NEW S, S \subseteq Nat, S # {}
    PROVE  Min(S) \in S /\ \A i \in S : Min(S) <= i
<1>1. PICK x \in S : \A y \in S : ~(<<y, x>> \in OpToRel(<, Nat))
  BY NatLessThanWellFounded, WFMin
<1>2. \A y \in S : ~(y < x) BY <1>1 DEF OpToRel
<1>3. \A y \in S : x <= y
  <2>1. TAKE y \in S
  <2>2. x \in Nat /\ y \in Nat /\ ~(y < x) BY <1>2
  <2> QED BY <2>2
<1> QED BY <1>3 DEF Min

LEMMA LaterIs ==
    ASSUME NEW list \in Seq(Nat), NEW t
    PROVE  /\ Later(list, t) \subseteq 1 .. Len(list)
           /\ IsFiniteSet(Later(list, t)) /\ Cardinality(Later(list, t)) \in Nat
<1>1. Later(list, t) \subseteq 1 .. Len(list) BY LenProperties DEF Later
<1>2. Len(list) \in Nat BY LenProperties
<1>3. IsFiniteSet(1 .. Len(list)) BY <1>2, FS_Interval
<1>4. IsFiniteSet(Later(list, t)) BY <1>1, <1>3, FS_Subset
<1> QED BY <1>1, <1>4, FS_CardinalityType

(* Sets of positions that differ by a shift have as many members.           *)
LEMMA Shifted ==
    ASSUME NEW S, S \subseteq Int, NEW T, IsFiniteSet(S), NEW d \in Int,
           T = {i - d : i \in S}
    PROVE  Cardinality(T) = Cardinality(S)
<1> DEFINE f == [i \in S |-> i - d]
<1>1. f \in [S -> T] OBVIOUS
<1>2. ASSUME NEW i \in S, NEW j \in S, f[i] = f[j] PROVE i = j
  <2>1. i \in Int /\ j \in Int /\ i - d = j - d BY <1>2
  <2> QED BY <2>1
<1>3. \A y \in T : \E i \in S : f[i] = y OBVIOUS
<1>4. f \in Bijection(S, T)
  <2> HIDE DEF f
  <2> QED BY <1>1, <1>2, <1>3 DEF Bijection, Injection, Surjection, IsInjective
<1>5. ExistsBijection(S, T) BY <1>4 DEF ExistsBijection
<1> QED BY <1>5, FS_Bijection

(* Dropping the front of an ordered list drops exactly what is no later     *)
(* than the cutoff.                                                         *)
LEMMA PopLeftKeeps ==
    ASSUME NEW list \in Seq(Nat), InOrder(list), NEW cutoff \in Int,
           NEW bound \in Nat, \A i \in DOMAIN list : list[i] <= bound
    PROVE  /\ PopLeft(list, cutoff) \in Seq(Nat)
           /\ InOrder(PopLeft(list, cutoff))
           /\ \A i \in DOMAIN PopLeft(list, cutoff) : PopLeft(list, cutoff)[i] <= bound
           /\ Len(PopLeft(list, cutoff)) = Cardinality(Later(list, cutoff))
           /\ \A t \in Int : t >= cutoff =>
                 Cardinality(Later(PopLeft(list, cutoff), t)) = Cardinality(Later(list, t))
<1> DEFINE n == Len(list)
           later == Later(list, cutoff)
           m == Min(later)
           kept == PopLeft(list, cutoff)
<1>1. n \in Nat /\ DOMAIN list = 1 .. n /\ \A i \in 1 .. n : list[i] \in Nat
  BY LenProperties, ElementOfSeq
<1>2. kept = IF later = {} THEN <<>> ELSE SubSeq(list, m, n) BY DEF PopLeft, Later
<1>3. CASE later = {}
  <2>1. kept = <<>> BY <1>2, <1>3
  <2>2. DOMAIN kept = {} /\ Len(kept) = 0 /\ kept \in Seq(Nat) BY <2>1, EmptySeq
  <2>3. ASSUME NEW t \in Int, t >= cutoff PROVE Later(list, t) = {}
    BY <1>1, <1>3, <2>3 DEF Later
  <2>4. \A t : Later(kept, t) = {} BY <2>2 DEF Later
  <2> HIDE DEF kept, later
  <2>5. Cardinality(later) = 0 BY <1>3, FS_EmptySet
  <2>6. InOrder(kept) /\ \A i \in DOMAIN kept : kept[i] <= bound BY <2>2 DEF InOrder
  <2>7. \A t \in Int : t >= cutoff => Cardinality(Later(kept, t)) = Cardinality(Later(list, t))
    BY <2>3, <2>4
  <2>8. /\ kept \in Seq(Nat) /\ InOrder(kept) /\ (\A i \in DOMAIN kept : kept[i] <= bound)
        /\ Len(kept) = Cardinality(later)
    BY <2>2, <2>5, <2>6
  <2> QED BY <2>7, <2>8 DEF kept, later
<1>4. CASE later # {}
  <2>1. m \in later /\ \A i \in later : m <= i
    <3>1. later \subseteq Nat BY <1>1 DEF Later
    <3> HIDE DEF later
    <3> QED BY <1>4, <3>1, MinIsLeast
  <2>2. m \in 1 .. n /\ list[m] > cutoff BY <1>1, <2>1 DEF Later
  <2> HIDE DEF m
  <2>3. later = m .. n
    <3>1. ASSUME NEW i \in m .. n PROVE i \in later
      <4>1. i \in 1 .. n /\ m <= i BY <1>1, <2>2
      <4>2. list[m] <= list[i] BY <1>1, <2>2, <4>1 DEF InOrder
      <4>3. list[m] \in Nat /\ list[i] \in Nat BY <1>1, <2>2, <4>1
      <4>4. list[i] > cutoff BY <2>2, <4>2, <4>3
      <4> QED BY <1>1, <4>1, <4>4 DEF Later
    <3>2. ASSUME NEW i \in later PROVE i \in m .. n
      <4>1. i \in 1 .. n BY <1>1, <3>2 DEF Later
      <4> QED BY <2>1, <2>2, <4>1
    <3> QED BY <3>1, <3>2
  <2> HIDE DEF later
  <2>4. /\ kept \in Seq(Nat) /\ Len(kept) = n - m + 1
        /\ \A i \in 1 .. n - m + 1 : kept[i] = list[m + i - 1]
    <3>1. \A i \in m .. n : list[i] \in Nat BY <1>1, <2>2
    <3>2. kept = SubSeq(list, m, n) BY <1>2, <1>4
    <3> HIDE DEF kept
    <3> QED BY <1>1, <2>2, <3>1, <3>2, SubSeqProperties
  <2> HIDE DEF kept, n
  <2>5. DOMAIN kept = 1 .. n - m + 1 BY <2>4, LenProperties
  <2>6. InOrder(kept)
    <3>1. ASSUME NEW i \in DOMAIN kept, NEW j \in DOMAIN kept, i <= j PROVE kept[i] <= kept[j]
      <4>1. i \in 1 .. n - m + 1 /\ j \in 1 .. n - m + 1 BY <2>5
      <4>0. n \in Int /\ m \in Int /\ i \in Int /\ j \in Int /\ 1 <= m /\ 1 <= i /\ i <= n - m + 1
            /\ 1 <= j /\ j <= n - m + 1
        BY <1>1, <2>2, <4>1
      <4>2. m + i - 1 \in 1 .. n /\ m + j - 1 \in 1 .. n /\ m + i - 1 <= m + j - 1
        BY <3>1, <4>0
      <4>3. kept[i] = list[m + i - 1] /\ kept[j] = list[m + j - 1] BY <2>4, <4>1
      <4> QED BY <1>1, <4>2, <4>3 DEF InOrder
    <3> QED BY <3>1 DEF InOrder
  <2>7. \A i \in DOMAIN kept : kept[i] <= bound
    <3>1. TAKE i \in DOMAIN kept
    <3>2. i \in 1 .. n - m + 1 BY <2>5
    <3>3. m + i - 1 \in 1 .. n BY <1>1, <2>2, <3>2
    <3>4. kept[i] = list[m + i - 1] BY <2>4, <3>2
    <3> QED BY <1>1, <3>3, <3>4
  <2>8. Len(kept) = Cardinality(later) BY <1>1, <2>2, <2>3, <2>4, FS_Interval
  <2>9. ASSUME NEW t \in Int, t >= cutoff
        PROVE  Cardinality(Later(kept, t)) = Cardinality(Later(list, t))
    <3>1. \A i \in Later(list, t) : i \in m .. n /\ list[i] > t
      <4>1. TAKE i \in Later(list, t)
      <4>2. i \in 1 .. n /\ list[i] > t /\ list[i] \in Nat BY <1>1 DEF Later
      <4>3. list[i] > cutoff BY <2>9, <4>2
      <4>4. i \in later BY <1>1, <4>2, <4>3 DEF Later, later
      <4> QED BY <2>3, <4>2, <4>4
    <3>2. Later(kept, t) = {i - (m - 1) : i \in Later(list, t)}
      <4>1. ASSUME NEW j \in Later(kept, t) PROVE \E i \in Later(list, t) : j = i - (m - 1)
        <5>1. j \in 1 .. n - m + 1 /\ kept[j] > t BY <2>5 DEF Later
        <5>2. m + j - 1 \in 1 .. n /\ list[m + j - 1] > t
          <6>1. m + j - 1 \in 1 .. n BY <1>1, <2>2, <5>1
          <6>2. kept[j] = list[m + j - 1] BY <2>4, <5>1
          <6> QED BY <5>1, <6>1, <6>2
        <5>3. m + j - 1 \in Later(list, t) BY <1>1, <5>2 DEF Later
        <5>4. j = (m + j - 1) - (m - 1) BY <2>2, <5>1
        <5> QED BY <5>3, <5>4
      <4>2. ASSUME NEW i \in Later(list, t) PROVE i - (m - 1) \in Later(kept, t)
        <5>1. i \in m .. n /\ list[i] > t BY <3>1
        <5>2. i - (m - 1) \in 1 .. n - m + 1 /\ m + (i - (m - 1)) - 1 = i BY <1>1, <2>2, <5>1
        <5>3. kept[i - (m - 1)] = list[i] BY <2>4, <5>2
        <5> QED BY <2>5, <5>1, <5>2, <5>3 DEF Later
      <4> QED BY <4>1, <4>2
    <3>3. Later(list, t) \subseteq Int BY <1>1, <2>2, <3>1
    <3>4. IsFiniteSet(Later(list, t)) BY LaterIs
    <3>5. m - 1 \in Int BY <1>1, <2>2
    <3> QED BY <3>2, <3>3, <3>4, <3>5, Shifted
  <2> QED BY <2>4, <2>6, <2>7, <2>8, <2>9 DEF kept, later
<1> QED BY <1>3, <1>4

-----------------------------------------------------------------------------
(* Keys, and what they may spend.                                           *)

LEMMA KeysApart == \A c \in Callers : Plan(c) # GLOBAL_PLAN_KEY /\ Plan(c) \in Keys
BY NoneCalledAll DEF Callers, Plan, GLOBAL_PLAN_KEY, Keys

LEMMA PlansApart == \A c, d \in Callers : Plan(c) = Plan(d) => c = d
BY DEF Plan

LEMMA AllowanceType ==
    ASSUME NEW key
    PROVE  /\ Allowance(key).count \in Nat /\ Allowance(key).window \in Nat
BY LimitAssumption DEF Allowance

LEMMA PaidIsFinite ==
    ASSUME SpentOK, NEW key, NEW t
    PROVE  /\ IsFiniteSet(PaidAfter(key, t)) /\ Cardinality(PaidAfter(key, t)) \in Nat
BY FS_Subset, FS_CardinalityType DEF SpentOK, PaidAfter, Paid, Mine

(* After the present instant there is nothing in either.                    *)
LEMMA NothingLater ==
    ASSUME Metered, NEW key \in Keys, NEW t \in Int, t >= clock
    PROVE  Later(hits[key], t) = {} /\ PaidAfter(key, t) = {}
<1>1. hits[key] \in Seq(Nat) /\ \A i \in DOMAIN hits[key] : hits[key][i] <= clock
  BY DEF Metered, HitsOK
<1>2. clock \in Nat BY DEF Metered
<1>3. \A i \in DOMAIN hits[key] : ~(hits[key][i] > t)
  <2>1. TAKE i \in DOMAIN hits[key]
  <2>2. hits[key][i] \in Nat /\ hits[key][i] <= clock BY <1>1, LenProperties, ElementOfSeq
  <2> QED BY <1>2, <2>2
<1>4. \A s \in spent : ~(s.at > t)
  <2>1. TAKE s \in spent
  <2>2. s.at \in 0 .. clock BY DEF Metered, SpentOK
  <2> QED BY <1>2, <2>2
<1>5. Paid(key) \subseteq spent BY DEF Paid, Mine
<1> QED BY <1>3, <1>4, <1>5 DEF Later, PaidAfter

LEMMA AgreeAt ==
    ASSUME Metered, NEW key \in Keys, NEW t \in Int, t >= clock - Allowance(key).window
    PROVE  Cardinality(Later(hits[key], t)) = Cardinality(PaidAfter(key, t))
<1>1. CASE t >= clock BY <1>1, NothingLater
<1>2. CASE t < clock
  <2>1. t \in clock - Allowance(key).window .. clock
    BY <1>2, AllowanceType DEF Metered
  <2> QED BY <2>1 DEF Metered, Agree
<1> QED BY <1>1, <1>2 DEF Metered

(* What a list holds when its key is asked about: the runs admitted within  *)
(* the window.                                                              *)
LEMMA LiveIs ==
    ASSUME Metered, NEW key \in Keys
    PROVE  LET live == Live(key, Allowance(key))
           IN  /\ live \in Seq(Nat) /\ InOrder(live)
               /\ \A i \in DOMAIN live : live[i] <= clock
               /\ Len(live) = Cardinality(PaidAfter(key, clock - Allowance(key).window))
               /\ \A t \in Int : t >= clock - Allowance(key).window =>
                     Cardinality(Later(live, t)) = Cardinality(PaidAfter(key, t))
<1> DEFINE cutoff == clock - Allowance(key).window
           live == Live(key, Allowance(key))
<1>1. hits[key] \in Seq(Nat) /\ InOrder(hits[key]) /\ clock \in Nat
      /\ \A i \in DOMAIN hits[key] : hits[key][i] <= clock
  BY DEF Metered, HitsOK
<1>2. cutoff \in Int BY <1>1, AllowanceType
<1>3. live = PopLeft(hits[key], cutoff) BY DEF Live
<1>4. \A t \in Int : t >= cutoff => Cardinality(Later(hits[key], t)) = Cardinality(PaidAfter(key, t))
  BY AgreeAt
<1> HIDE DEF cutoff, live
<1>5. /\ live \in Seq(Nat) /\ InOrder(live) /\ \A i \in DOMAIN live : live[i] <= clock
      /\ Len(live) = Cardinality(Later(hits[key], cutoff))
      /\ \A t \in Int : t >= cutoff =>
            Cardinality(Later(live, t)) = Cardinality(Later(hits[key], t))
  BY <1>1, <1>2, <1>3, PopLeftKeeps
<1>6. Len(live) = Cardinality(PaidAfter(key, cutoff)) BY <1>2, <1>4, <1>5
<1>7. \A t \in Int : t >= cutoff => Cardinality(Later(live, t)) = Cardinality(PaidAfter(key, t))
  BY <1>4, <1>5
<1> QED BY <1>5, <1>6, <1>7 DEF cutoff, live

(* One more hit, now.                                                       *)
LEMMA AppendLater ==
    ASSUME NEW list \in Seq(Nat), NEW now \in Nat, InOrder(list),
           \A i \in DOMAIN list : list[i] <= now
    PROVE  LET more == Append(list, now)
           IN  /\ more \in Seq(Nat) /\ InOrder(more) /\ \A i \in DOMAIN more : more[i] <= now
               /\ \A t \in Int : t < now =>
                     Cardinality(Later(more, t)) = Cardinality(Later(list, t)) + 1
<1> DEFINE n == Len(list)
           more == Append(list, now)
<1>1. n \in Nat /\ DOMAIN list = 1 .. n /\ \A i \in 1 .. n : list[i] \in Nat
  BY LenProperties, ElementOfSeq
<1>2. /\ more \in Seq(Nat) /\ Len(more) = n + 1
      /\ \A i \in 1 .. n : more[i] = list[i]
      /\ more[n + 1] = now
  BY AppendProperties
<1> HIDE DEF more, n
<1>3. DOMAIN more = 1 .. n + 1 BY <1>2, LenProperties
<1>4. \A i \in 1 .. n + 1 : i \in 1 .. n \/ i = n + 1 BY <1>1
<1>5. \A i \in DOMAIN more : more[i] <= now
  <2>1. TAKE i \in DOMAIN more
  <2>2. CASE i \in 1 .. n BY <1>1, <1>2, <2>2
  <2>3. CASE i = n + 1 BY <1>2, <2>3
  <2> QED BY <1>3, <1>4, <2>2, <2>3
<1>6. InOrder(more)
  <2>1. ASSUME NEW i \in DOMAIN more, NEW j \in DOMAIN more, i <= j PROVE more[i] <= more[j]
    <3>1. CASE j = n + 1 BY <1>2, <1>5, <3>1
    <3>2. CASE j \in 1 .. n
      <4>1. i \in 1 .. n BY <1>1, <1>3, <2>1, <3>2
      <4> QED BY <1>1, <1>2, <2>1, <3>2, <4>1 DEF InOrder
    <3> QED BY <1>3, <1>4, <3>1, <3>2
  <2> QED BY <2>1 DEF InOrder
<1>7. ASSUME NEW t \in Int, t < now
      PROVE  Cardinality(Later(more, t)) = Cardinality(Later(list, t)) + 1
  <2>1. Later(more, t) = Later(list, t) \cup {n + 1}
    <3>1. \A i \in 1 .. n : i \in Later(more, t) <=> i \in Later(list, t)
      BY <1>1, <1>2, <1>3, <1>4 DEF Later
    <3>2. n + 1 \in Later(more, t) BY <1>1, <1>2, <1>3, <1>7 DEF Later
    <3>3. Later(more, t) \subseteq 1 .. n + 1 /\ Later(list, t) \subseteq 1 .. n
      BY <1>1, <1>3 DEF Later
    <3> QED BY <1>4, <3>1, <3>2, <3>3
  <2>2. n + 1 \notin Later(list, t) BY <1>1 DEF Later
  <2>3. IsFiniteSet(Later(list, t)) BY LaterIs
  <2> QED BY <2>1, <2>2, <2>3, FS_AddElement
<1> QED BY <1>2, <1>5, <1>6, <1>7 DEF more

-----------------------------------------------------------------------------
(* The window of the present instant is what the lists hold.                *)
LEMMA WindowIs ==
    ASSUME Metered
    PROVE  /\ Spendings(clock, plan_daily_global)
                 = PaidAfter(GLOBAL_PLAN_KEY, clock - plan_daily_global.window)
           /\ \A c \in Callers :
                 Mine(Spendings(clock, PLAN), Plan(c)) = PaidAfter(Plan(c), clock - PLAN.window)
<1>1. clock \in Nat /\ \A s \in spent : s.at \in 0 .. clock BY DEF Metered, SpentOK
<1>2. \A s \in spent : s.at <= clock BY <1>1
<1>3. /\ plan_daily_global.window \in Nat /\ PLAN.window \in Nat BY LimitAssumption
<1>4. \A s \in spent, w \in Nat : (clock - w < s.at) <=> (s.at > clock - w) BY <1>1
<1>5. Spendings(clock, plan_daily_global)
         = PaidAfter(GLOBAL_PLAN_KEY, clock - plan_daily_global.window)
  BY <1>2, <1>3, <1>4 DEF Spendings, PaidAfter, Paid
<1>6. ASSUME NEW c \in Callers
      PROVE  Mine(Spendings(clock, PLAN), Plan(c)) = PaidAfter(Plan(c), clock - PLAN.window)
  BY <1>2, <1>3, <1>4, KeysApart DEF Mine, Spendings, PaidAfter, Paid
<1> QED BY <1>5, <1>6

LEMMA BlockedIs ==
    ASSUME Metered
    PROVE  /\ Cardinality(Spendings(clock, plan_daily_global)) \in Nat
           /\ blocked(GLOBAL_PLAN_KEY, plan_daily_global) <=>
                 Cardinality(Spendings(clock, plan_daily_global)) >= plan_daily_global.count
           /\ \A c \in Callers :
                 /\ Cardinality(Mine(Spendings(clock, PLAN), Plan(c))) \in Nat
                 /\ blocked(Plan(c), PLAN) <=>
                       Cardinality(Mine(Spendings(clock, PLAN), Plan(c))) >= PLAN.count
<1>1. SpentOK BY DEF Metered
<1>2. Allowance(GLOBAL_PLAN_KEY) = plan_daily_global /\ GLOBAL_PLAN_KEY \in Keys
  BY DEF Allowance, Keys
<1>3. Len(Live(GLOBAL_PLAN_KEY, plan_daily_global))
         = Cardinality(Spendings(clock, plan_daily_global))
  BY <1>2, LiveIs, WindowIs
<1>4. ASSUME NEW c \in Callers
      PROVE  Len(Live(Plan(c), PLAN)) = Cardinality(Mine(Spendings(clock, PLAN), Plan(c)))
  <2>1. Allowance(Plan(c)) = PLAN /\ Plan(c) \in Keys BY KeysApart DEF Allowance
  <2> QED BY <2>1, LiveIs, WindowIs
<1> QED BY <1>1, <1>3, <1>4, WindowIs, PaidIsFinite DEF blocked

(* Time passes, or the history is forgotten.                                *)
LEMMA CeilingsShrink ==
    ASSUME CeilingsHold, SpentOK, clock \in Nat, spent' \subseteq spent,
           clock' = clock \/ clock' = clock + 1
    PROVE  CeilingsHold'
<1> SUFFICES ASSUME NEW at \in 0 .. clock'
             PROVE  /\ Cardinality(Spendings(at, plan_daily_global)') <= plan_daily_global.count
                    /\ \A c \in Callers :
                          Cardinality(Mine(Spendings(at, PLAN)', Plan(c))) <= PLAN.count
  BY DEF CeilingsHold, Mine
<1>1. PICK b \in 0 .. clock : at = b \/ (b = clock /\ at = clock + 1)
  OBVIOUS
<1>2. ASSUME NEW limit, limit.window \in Nat
      PROVE  Spendings(at, limit)' \subseteq Spendings(b, limit)
  <2>1. ASSUME NEW s \in spent, at - limit.window < s.at, s.at <= at
        PROVE  b - limit.window < s.at /\ s.at <= b
    <3>1. s.at \in 0 .. clock BY DEF SpentOK
    <3> QED BY <1>1, <1>2, <2>1, <3>1
  <2> QED BY <2>1 DEF Spendings
<1>3. Spendings(at, plan_daily_global)' \subseteq Spendings(b, plan_daily_global)
      /\ Spendings(at, PLAN)' \subseteq Spendings(b, PLAN)
  BY <1>2, LimitAssumption
<1>4. ASSUME NEW S, S \subseteq spent, NEW T, T \subseteq S
      PROVE  /\ Cardinality(T) <= Cardinality(S)
             /\ Cardinality(T) \in Nat /\ Cardinality(S) \in Nat
  <2>1. IsFiniteSet(S) BY <1>4, FS_Subset DEF SpentOK
  <2> QED BY <1>4, <2>1, FS_Subset, FS_CardinalityType
<1>5. Cardinality(Spendings(at, plan_daily_global)') <= plan_daily_global.count
  <2>1. Spendings(b, plan_daily_global) \subseteq spent BY DEF Spendings
  <2>2. Cardinality(Spendings(b, plan_daily_global)) <= plan_daily_global.count
    BY DEF CeilingsHold
  <2>3. Cardinality(Spendings(at, plan_daily_global)') <= Cardinality(Spendings(b, plan_daily_global))
        /\ Cardinality(Spendings(at, plan_daily_global)') \in Nat
        /\ Cardinality(Spendings(b, plan_daily_global)) \in Nat
    BY <1>3, <1>4, <2>1
  <2> QED BY <2>2, <2>3, LimitAssumption
<1>6. ASSUME NEW c \in Callers
      PROVE  Cardinality(Mine(Spendings(at, PLAN)', Plan(c))) <= PLAN.count
  <2> DEFINE old == Mine(Spendings(b, PLAN), Plan(c))
             new == Mine(Spendings(at, PLAN)', Plan(c))
  <2>1. old \subseteq spent /\ new \subseteq old BY <1>3 DEF Spendings, Mine
  <2>2. Cardinality(old) <= PLAN.count BY DEF CeilingsHold
  <2> HIDE DEF old, new
  <2>3. Cardinality(new) <= Cardinality(old) /\ Cardinality(new) \in Nat /\ Cardinality(old) \in Nat
    BY <1>4, <2>1
  <2>4. Cardinality(new) <= PLAN.count BY <2>2, <2>3, LimitAssumption
  <2> QED BY <2>4 DEF new
<1> QED BY <1>5, <1>6

(* Asking drops only what no window reaches.                                *)
LEMMA AskStep ==
    ASSUME Metered, UNCHANGED <<clock, spent, started>>, hits' \in [Keys -> Seq(Nat)],
           \A k \in Keys : hits'[k] = hits[k] \/ hits'[k] = Live(k, Allowance(k))
    PROVE  Metered'
<1>1. CeilingsHold' BY CeilingsShrink DEF Metered
<1>2. SpentOK' BY DEF Metered, SpentOK
<1>3. ASSUME NEW k \in Keys
      PROVE  /\ InOrder(hits'[k]) /\ \A i \in DOMAIN hits'[k] : hits'[k][i] <= clock
             /\ \A t \in clock - Allowance(k).window .. clock :
                   Cardinality(Later(hits'[k], t)) = Cardinality(PaidAfter(k, t))
  <2>1. CASE hits'[k] = hits[k] BY <2>1 DEF Metered, HitsOK, Agree
  <2>2. CASE hits'[k] = Live(k, Allowance(k))
    <3>1. clock \in Nat /\ Allowance(k).window \in Nat BY AllowanceType DEF Metered
    <3>2. \A t \in clock - Allowance(k).window .. clock :
             t \in Int /\ t >= clock - Allowance(k).window
      BY <3>1
    <3> QED BY <2>2, <3>2, LiveIs
  <2> QED BY <2>1, <2>2
<1>4. HitsOK' BY <1>3 DEF HitsOK
<1>5. \A k, t : PaidAfter(k, t)' = PaidAfter(k, t) BY DEF PaidAfter, Paid, Mine
<1>6. Agree' BY <1>3, <1>5 DEF Agree
<1> QED BY <1>1, <1>2, <1>4, <1>6 DEF Metered

(* What a request leaves in the lists, refused or not.                      *)
LEMMA BudgetIs ==
    ASSUME Metered, NEW c \in Callers
    PROVE  LET budget == Budget(Plan(c)) IN
           /\ DOMAIN budget.hits = Keys
           /\ budget.by = None <=>
                 ~blocked(Plan(c), PLAN) /\ ~blocked(GLOBAL_PLAN_KEY, plan_daily_global)
           /\ budget.by = "caller" => blocked(Plan(c), PLAN)
           /\ budget.by = "service" => blocked(GLOBAL_PLAN_KEY, plan_daily_global)
           /\ budget.by # None => \A k \in Keys :
                 budget.hits[k] = hits[k] \/ budget.hits[k] = Live(k, Allowance(k))
           /\ budget.by = None => \A k \in Keys :
                 budget.hits[k] = IF k \in {Plan(c), GLOBAL_PLAN_KEY}
                                  THEN Append(Live(k, Allowance(k)), clock) ELSE hits[k]
<1> DEFINE key == Plan(c)
           budget == Budget(key)
           mine == [hits EXCEPT ![key] = Live(key, PLAN)]
           both == [mine EXCEPT ![GLOBAL_PLAN_KEY] = Live(GLOBAL_PLAN_KEY, plan_daily_global)]
           spend == [both EXCEPT ![key] = Append(@, clock), ![GLOBAL_PLAN_KEY] = Append(@, clock)]
<1>1. /\ DOMAIN hits = Keys /\ key \in Keys /\ GLOBAL_PLAN_KEY \in Keys /\ key # GLOBAL_PLAN_KEY
      /\ Allowance(key) = PLAN /\ Allowance(GLOBAL_PLAN_KEY) = plan_daily_global
  BY KeysApart DEF Metered, HitsOK, Allowance, Keys
<1>2. /\ blocked(key, PLAN) => budget = [by |-> "caller", hits |-> mine]
      /\ ~blocked(key, PLAN) /\ blocked(GLOBAL_PLAN_KEY, plan_daily_global) =>
            budget = [by |-> "service", hits |-> both]
      /\ ~blocked(key, PLAN) /\ ~blocked(GLOBAL_PLAN_KEY, plan_daily_global) =>
            budget = [by |-> None, hits |-> spend]
  BY Zenon DEF Budget
<1>3. DOMAIN mine = Keys /\ DOMAIN both = Keys /\ DOMAIN spend = Keys BY <1>1
<1>4. ASSUME NEW k \in Keys
      PROVE  /\ mine[k] = IF k = key THEN Live(k, Allowance(k)) ELSE hits[k]
             /\ both[k] = IF k \in {key, GLOBAL_PLAN_KEY} THEN Live(k, Allowance(k)) ELSE hits[k]
             /\ spend[k] = IF k \in {key, GLOBAL_PLAN_KEY}
                           THEN Append(Live(k, Allowance(k)), clock) ELSE hits[k]
  <2>1. mine[k] = IF k = key THEN Live(key, PLAN) ELSE hits[k] BY <1>1
  <2>2. both[k] = IF k = GLOBAL_PLAN_KEY THEN Live(GLOBAL_PLAN_KEY, plan_daily_global) ELSE mine[k]
    BY <1>1, <1>3
  <2> HIDE DEF mine, both
  <2>3. spend[k] = IF k \in {key, GLOBAL_PLAN_KEY} THEN Append(both[k], clock) ELSE both[k]
    BY <1>1, <1>3
  <2> HIDE DEF spend, key
  <2> QED BY <1>1, <2>1, <2>2, <2>3
<1> HIDE DEF mine, both, spend, budget, key
<1>5. None # "caller" /\ None # "service" BY NoneAssumption
<1>6. DOMAIN budget.hits = Keys BY <1>2, <1>3
<1>7. /\ budget.by = None <=> ~blocked(key, PLAN) /\ ~blocked(GLOBAL_PLAN_KEY, plan_daily_global)
      /\ budget.by = "caller" => blocked(key, PLAN)
      /\ budget.by = "service" => blocked(GLOBAL_PLAN_KEY, plan_daily_global)
  BY <1>2, <1>5
<1>8. /\ budget.by # None => \A k \in Keys :
            budget.hits[k] = hits[k] \/ budget.hits[k] = Live(k, Allowance(k))
      /\ budget.by = None => \A k \in Keys :
            budget.hits[k] = IF k \in {key, GLOBAL_PLAN_KEY}
                             THEN Append(Live(k, Allowance(k)), clock) ELSE hits[k]
  BY <1>2, <1>4, <1>5
<1> QED BY <1>6, <1>7, <1>8 DEF budget, key

LEMMA RefuseMeters ==
    ASSUME Metered, NEW c \in Callers, Refuse(c)
    PROVE  Metered'
<1> DEFINE asked == Budget(Plan(c)).hits
<1>1. /\ Budget(Plan(c)).by # None /\ hits' = asked
      /\ UNCHANGED <<clock, spent, started>>
  BY DEF Refuse
<1> HIDE DEF asked
<1>2. \A k \in Keys : hits'[k] = hits[k] \/ hits'[k] = Live(k, Allowance(k))
  BY <1>1, BudgetIs DEF asked
<1>3. hits' \in [Keys -> Seq(Nat)]
  <2>1. \A k \in Keys : asked[k] \in Seq(Nat)
    BY <1>1, <1>2, LiveIs DEF Metered, HitsOK
  <2>2. DOMAIN asked = Keys /\ asked = [k \in Keys |-> asked[k]]
    <3>1. DOMAIN asked = Keys BY BudgetIs DEF asked
    <3>2. Budget(Plan(c)).hits = [k \in DOMAIN Budget(Plan(c)).hits |-> Budget(Plan(c)).hits[k]]
      BY DEF Budget
    <3> QED BY <3>1, <3>2 DEF asked
  <2> QED BY <1>1, <2>1, <2>2
<1> QED BY <1>1, <1>2, <1>3, AskStep

(* A run within both allowances counts once for its caller and once for     *)
(* everyone.                                                                *)
LEMMA AdmitMeters ==
    ASSUME Metered, NEW c \in Callers, Admit(c)
    PROVE  Metered'
<1> DEFINE asked == Budget(Plan(c)).hits
           new == [key |-> Plan(c), at |-> clock, run |-> started + 1]
           both == {Plan(c), GLOBAL_PLAN_KEY}
<1>1. /\ Budget(Plan(c)).by = None /\ hits' = asked /\ spent' = spent \cup {new}
      /\ clock' = clock /\ started' = started + 1
  BY DEF Admit
<1>2. /\ new.key = Plan(c) /\ new.at = clock /\ new.run = started + 1
      /\ clock \in Nat /\ started \in Nat /\ SpentOK
  BY DEF Metered
<1> HIDE DEF asked, new
<1>3. new \notin spent
  <2>1. \A s \in spent : s.run <= started BY <1>2 DEF SpentOK
  <2> QED BY <1>2, <2>1
<1>4. \A k \in Keys : hits'[k] = IF k \in both THEN Append(Live(k, Allowance(k)), clock) ELSE hits[k]
  BY <1>1, BudgetIs DEF asked
<1>5. hits' \in [Keys -> Seq(Nat)]
  <2>1. \A k \in Keys : asked[k] \in Seq(Nat)
    <3>1. TAKE k \in Keys
    <3>2. CASE k \in both
      <4>1. Live(k, Allowance(k)) \in Seq(Nat) BY LiveIs
      <4>2. asked[k] = Append(Live(k, Allowance(k)), clock) BY <1>1, <1>4, <3>2
      <4> QED BY <1>2, <4>1, <4>2, AppendProperties
    <3>3. CASE k \notin both BY <1>1, <1>4, <3>3 DEF Metered, HitsOK
    <3> QED BY <3>2, <3>3
  <2>2. asked = [k \in Keys |-> asked[k]]
    <3>1. DOMAIN asked = Keys BY BudgetIs DEF asked
    <3>2. Budget(Plan(c)).hits = [k \in DOMAIN Budget(Plan(c)).hits |-> Budget(Plan(c)).hits[k]]
      BY DEF Budget
    <3> QED BY <3>1, <3>2 DEF asked
  <2> QED BY <1>1, <2>1, <2>2
<1>6. SpentOK'
  <2>1. IsFiniteSet(spent') BY <1>1, <1>2, FS_AddElement DEF SpentOK
  <2>2. ASSUME NEW s \in spent'
        PROVE  s.at \in 0 .. clock' /\ s.run \in 1 .. started' /\ \E d \in Callers : s.key = Plan(d)
    <3>1. CASE s = new BY <1>1, <1>2, <3>1
    <3>2. CASE s \in spent
      <4>1. s.at \in 0 .. clock /\ s.run \in 1 .. started /\ \E d \in Callers : s.key = Plan(d)
        BY <1>2, <3>2 DEF SpentOK
      <4> QED BY <1>1, <1>2, <4>1
    <3> QED BY <1>1, <2>2, <3>1, <3>2
  <2> QED BY <2>1, <2>2 DEF SpentOK
<1>7. ASSUME NEW k \in Keys, NEW t
      PROVE  PaidAfter(k, t)' = IF k \in both /\ clock > t THEN PaidAfter(k, t) \cup {new}
                                ELSE PaidAfter(k, t)
  BY <1>1, <1>2 DEF PaidAfter, Paid, Mine
<1>8. HitsOK' /\ Agree'
  <2>1. ASSUME NEW k \in Keys
        PROVE  /\ InOrder(hits'[k]) /\ \A i \in DOMAIN hits'[k] : hits'[k][i] <= clock
               /\ \A t \in clock - Allowance(k).window .. clock :
                     Cardinality(Later(hits'[k], t)) = Cardinality(PaidAfter(k, t)')
    <3>1. Allowance(k).window \in Nat BY AllowanceType
    <3>2. CASE k \notin both
      <4>1. hits'[k] = hits[k] BY <1>4, <3>2
      <4>2. \A t : PaidAfter(k, t)' = PaidAfter(k, t) BY <1>7, <3>2
      <4> QED BY <4>1, <4>2 DEF Metered, HitsOK, Agree
    <3>3. CASE k \in both
      <4> DEFINE live == Live(k, Allowance(k))
                 more == Append(live, clock)
                 cutoff == clock - Allowance(k).window
      <4>1. /\ live \in Seq(Nat) /\ InOrder(live) /\ \A i \in DOMAIN live : live[i] <= clock
            /\ \A t \in Int : t >= cutoff => Cardinality(Later(live, t)) = Cardinality(PaidAfter(k, t))
        BY LiveIs
      <4>2. hits'[k] = more BY <1>4, <3>3
      <4> HIDE DEF live
      <4>3. /\ more \in Seq(Nat) /\ InOrder(more) /\ \A i \in DOMAIN more : more[i] <= clock
            /\ \A t \in Int : t < clock =>
                  Cardinality(Later(more, t)) = Cardinality(Later(live, t)) + 1
        BY <1>2, <4>1, AppendLater
      <4> HIDE DEF more
      <4>4. ASSUME NEW t \in cutoff .. clock
            PROVE  Cardinality(Later(more, t)) = Cardinality(PaidAfter(k, t)')
        <5>1. t \in Int /\ t >= cutoff /\ t <= clock BY <1>2, <3>1
        <5>2. CASE t < clock
          <6>1. Cardinality(Later(more, t)) = Cardinality(PaidAfter(k, t)) + 1
            BY <4>1, <4>3, <5>1, <5>2
          <6>2. PaidAfter(k, t)' = PaidAfter(k, t) \cup {new}
            BY <1>2, <1>7, <3>3, <5>1, <5>2
          <6>3. new \notin PaidAfter(k, t) BY <1>3 DEF PaidAfter, Paid, Mine
          <6> QED BY <1>2, <6>1, <6>2, <6>3, PaidIsFinite, FS_AddElement
        <5>3. CASE t = clock
          <6>1. PaidAfter(k, t)' = PaidAfter(k, t) BY <1>2, <1>7, <5>3
          <6>2. PaidAfter(k, t) = {} BY <1>2, <5>3, NothingLater
          <6>3. Later(more, t) = {}
            <7>1. \A i \in DOMAIN more : ~(more[i] > t)
              <8>1. TAKE i \in DOMAIN more
              <8>2. more[i] \in Nat /\ more[i] <= clock BY <4>3, LenProperties, ElementOfSeq
              <8> QED BY <1>2, <5>3, <8>2
            <7> QED BY <7>1 DEF Later
          <6> QED BY <6>1, <6>2, <6>3
        <5> QED BY <1>2, <5>1, <5>2, <5>3
      <4> QED BY <4>2, <4>3, <4>4
    <3> QED BY <3>2, <3>3
  <2> QED BY <1>1, <1>5, <2>1 DEF HitsOK, Agree, Allowance
<1>9. CeilingsHold'
  <2>1. /\ Cardinality(Spendings(clock, plan_daily_global)) < plan_daily_global.count
        /\ Cardinality(Mine(Spendings(clock, PLAN), Plan(c))) < PLAN.count
    <3>1. ~blocked(Plan(c), PLAN) /\ ~blocked(GLOBAL_PLAN_KEY, plan_daily_global)
      BY <1>1, BudgetIs
    <3> QED BY <3>1, BlockedIs, LimitAssumption
  <2>2. ASSUME NEW S, S \subseteq spent, NEW T, T \subseteq S \cup {new}
        PROVE  /\ Cardinality(S) \in Nat /\ Cardinality(T) \in Nat
               /\ Cardinality(T) <= Cardinality(S) + 1
    <3>1. IsFiniteSet(S) /\ Cardinality(S) \in Nat
      BY <1>2, <2>2, FS_Subset, FS_CardinalityType DEF SpentOK
    <3>2. IsFiniteSet(S \cup {new}) /\ Cardinality(S \cup {new}) <= Cardinality(S) + 1
          /\ Cardinality(S \cup {new}) \in Nat
      BY <3>1, FS_AddElement
    <3>3. IsFiniteSet(T) /\ Cardinality(T) <= Cardinality(S \cup {new}) /\ Cardinality(T) \in Nat
      BY <2>2, <3>2, FS_Subset, FS_CardinalityType
    <3> QED BY <3>1, <3>2, <3>3
  <2>3. ASSUME NEW at \in 0 .. clock, NEW limit
        PROVE  /\ Spendings(at, limit)' \subseteq Spendings(at, limit) \cup {new}
               /\ at # clock => Spendings(at, limit)' = Spendings(at, limit)
    <3>1. at # clock => ~(new.at <= at) BY <1>2
    <3> QED BY <1>1, <3>1 DEF Spendings
  <2>4. ASSUME NEW at \in 0 .. clock
        PROVE  Cardinality(Spendings(at, plan_daily_global)') <= plan_daily_global.count
    <3>1. Cardinality(Spendings(at, plan_daily_global)) <= plan_daily_global.count
      BY DEF Metered, CeilingsHold
    <3>2. CASE at # clock BY <2>3, <3>1, <3>2
    <3>3. CASE at = clock
      <4>1. Spendings(at, plan_daily_global) \subseteq spent BY DEF Spendings
      <4>2. Cardinality(Spendings(at, plan_daily_global)) \in Nat
            /\ Cardinality(Spendings(at, plan_daily_global)') \in Nat
            /\ Cardinality(Spendings(at, plan_daily_global)')
                  <= Cardinality(Spendings(at, plan_daily_global)) + 1
        BY <2>2, <2>3, <4>1
      <4> QED BY <2>1, <3>3, <4>2, LimitAssumption
    <3> QED BY <3>2, <3>3
  <2>5. ASSUME NEW at \in 0 .. clock, NEW d \in Callers
        PROVE  Cardinality(Mine(Spendings(at, PLAN)', Plan(d))) <= PLAN.count
    <3> DEFINE old == Mine(Spendings(at, PLAN), Plan(d))
               now == Mine(Spendings(at, PLAN)', Plan(d))
    <3>1. Cardinality(old) <= PLAN.count BY DEF Metered, CeilingsHold
    <3>2. CASE at # clock BY <2>3, <3>1, <3>2
    <3>3. CASE at = clock /\ d = c
      <4>1. old \subseteq spent /\ now \subseteq old \cup {new} BY <2>3 DEF Spendings, Mine
      <4>2. Cardinality(old) < PLAN.count BY <2>1, <3>3
      <4> HIDE DEF old, now
      <4>3. Cardinality(old) \in Nat /\ Cardinality(now) \in Nat
            /\ Cardinality(now) <= Cardinality(old) + 1
        BY <2>2, <4>1
      <4>4. Cardinality(now) <= PLAN.count BY <4>2, <4>3, LimitAssumption
      <4> QED BY <4>4 DEF now
    <3>4. CASE d # c
      <4>1. new.key # Plan(d) BY <1>2, <3>4, PlansApart
      <4>2. now = old BY <1>1, <4>1 DEF Mine, Spendings
      <4> QED BY <3>1, <4>2
    <3> QED BY <3>2, <3>3, <3>4
  <2> QED BY <1>1, <2>4, <2>5 DEF CeilingsHold, Mine
<1> QED BY <1>1, <1>2, <1>5, <1>6, <1>8, <1>9 DEF Metered

LEMMA ClockMeters ==
    ASSUME Metered, Tick
    PROVE  Metered'
<1>1. clock' = clock + 1 /\ UNCHANGED <<hits, spent, started>> /\ clock \in Nat
  BY DEF Tick, limiter, Metered
<1>2. CeilingsHold' BY <1>1, CeilingsShrink DEF Metered
<1>3. SpentOK'
  <2>1. \A s \in spent : s.at \in 0 .. clock + 1 BY <1>1 DEF Metered, SpentOK
  <2> QED BY <1>1, <2>1 DEF Metered, SpentOK
<1>4. HitsOK'
  <2>1. ASSUME NEW k \in Keys, NEW i \in DOMAIN hits[k] PROVE hits[k][i] <= clock + 1
    <3>1. hits[k] \in Seq(Nat) /\ hits[k][i] <= clock BY DEF Metered, HitsOK
    <3>2. hits[k][i] \in Nat BY <3>1, LenProperties, ElementOfSeq
    <3> QED BY <1>1, <3>1, <3>2
  <2> QED BY <1>1, <2>1 DEF Metered, HitsOK
<1>5. ASSUME NEW k \in Keys, NEW t \in clock + 1 - Allowance(k).window .. clock + 1
      PROVE  Cardinality(Later(hits[k], t)) = Cardinality(PaidAfter(k, t))
  <2>1. Allowance(k).window \in Nat BY AllowanceType
  <2>2. t \in Int /\ t >= clock - Allowance(k).window BY <1>1, <2>1
  <2> QED BY <2>2, AgreeAt
<1>6. \A k, t : PaidAfter(k, t)' = PaidAfter(k, t)
  BY <1>1 DEF PaidAfter, Paid, Mine
<1>7. Agree'
  <2> SUFFICES ASSUME NEW k \in Keys, NEW t \in clock' - Allowance(k).window .. clock'
               PROVE  Cardinality(Later(hits'[k], t)) = Cardinality(PaidAfter(k, t)')
    BY DEF Agree, Allowance
  <2>1. t \in clock + 1 - Allowance(k).window .. clock + 1 /\ hits' = hits
    <3>1. clock \in Nat /\ clock' = clock + 1 /\ hits' = hits BY <1>1
    <3>2. Allowance(k).window \in Nat BY AllowanceType
    <3> QED BY <3>1, <3>2
  <2>2. Cardinality(Later(hits[k], t)) = Cardinality(PaidAfter(k, t)) BY <1>5, <2>1
  <2>3. PaidAfter(k, t)' = PaidAfter(k, t) BY <1>6
  <2> QED BY <2>1, <2>2, <2>3
<1> QED BY <1>1, <1>2, <1>3, <1>4, <1>7 DEF Metered

Forgotten == clock \in Nat /\ started \in Nat /\ hits = [k \in Keys |-> <<>>] /\ spent = {}

LEMMA ForgottenMeters == Forgotten => Metered
<1> SUFFICES ASSUME Forgotten PROVE Metered
  OBVIOUS
<1> USE DEF Forgotten
<1>1. \A k \in Keys : hits[k] = <<>> /\ hits[k] \in Seq(Nat) /\ DOMAIN hits[k] = {}
  BY EmptySeq
<1>2. HitsOK BY <1>1 DEF HitsOK, InOrder
<1>3. IsFiniteSet(spent) /\ Cardinality({}) = 0 BY FS_EmptySet
<1>4. SpentOK BY <1>3 DEF SpentOK
<1>5. \A k \in Keys : \A t : Later(hits[k], t) = {} /\ PaidAfter(k, t) = {}
  BY <1>1 DEF Later, PaidAfter, Paid, Mine
<1>6. Agree BY <1>5 DEF Agree
<1>7. ASSUME NEW at, NEW limit, NEW key
      PROVE  Spendings(at, limit) = {} /\ Mine(Spendings(at, limit), key) = {}
  BY DEF Spendings, Mine
<1>8. 0 <= plan_daily_global.count /\ 0 <= PLAN.count BY LimitAssumption
<1>9. CeilingsHold
  <2> SUFFICES ASSUME NEW at \in 0 .. clock
               PROVE  /\ Cardinality(Spendings(at, plan_daily_global)) <= plan_daily_global.count
                      /\ \A c \in Callers :
                            Cardinality(Mine(Spendings(at, PLAN), Plan(c))) <= PLAN.count
    BY DEF CeilingsHold
  <2>1. Spendings(at, plan_daily_global) = {} BY <1>7
  <2>2. \A c \in Callers : Mine(Spendings(at, PLAN), Plan(c)) = {} BY <1>7
  <2> QED BY <1>3, <1>8, <2>1, <2>2
<1> QED BY <1>2, <1>4, <1>6, <1>9 DEF Metered

LEMMA MeterStep == Metered /\ [Next]_vars => Metered'
<1> SUFFICES ASSUME Metered, [Next]_vars PROVE Metered'
  OBVIOUS
<1>1. ASSUME NEW c \in Callers, Refuse(c) PROVE Metered' BY <1>1, RefuseMeters
<1>2. ASSUME NEW c \in Callers, Admit(c) PROVE Metered' BY <1>2, AdmitMeters
<1>3. CASE Tick BY <1>3, ClockMeters
<1>4. CASE Restart
  <2>1. Forgotten' BY <1>4 DEF Restart, Metered, Forgotten
  <2> QED BY <2>1, ForgottenMeters, PTL
<1>5. CASE UNCHANGED <<clock, limiter>>
  BY <1>5 DEF limiter, Metered, HitsOK, SpentOK, Agree, CeilingsHold, Spendings, Mine,
              PaidAfter, Paid
<1>6. CASE (\E run \in running : Record(run) \/ EndUnrecorded(run))
           \/ (\E account \in Accounts, run \in {row.id : row \in runs}, target \in Targets :
                  Report(account, run, target))
           \/ (\E report \in reports : Submit(report) \/ SubmitFails(report))
           \/ Prune \/ UNCHANGED vars
  BY <1>5, <1>6 DEF Record, EndUnrecorded, Report, Submit, SubmitFails, Prune, vars
<1> QED BY <1>1, <1>2, <1>3, <1>4, <1>6 DEF Next

LEMMA MeterInductive == Spec => []Metered
<1>1. Init => Metered
  <2> SUFFICES ASSUME Init PROVE Metered OBVIOUS
  <2> QED BY ForgottenMeters DEF Init, Forgotten
<1> QED BY <1>1, MeterStep, PTL DEF Spec

(* No window of the history holds more admitted runs than the allowance of  *)
(* each caller, nor than that of everyone, whatever was refused in between. *)
THEOREM CeilingsSafe == Spec => []CeilingsHold
<1>1. Metered => CeilingsHold BY DEF Metered
<1> QED BY <1>1, MeterInductive, PTL

(* Whoever is refused is refused for runs that were admitted within the     *)
(* window of the allowance it is refused by.                                *)
THEOREM RefusedSafe == Spec => []RefusedForRuns
<1>1. Metered => RefusedForRuns
  <2> SUFFICES ASSUME Metered, NEW c \in Callers
               PROVE  /\ Budget(Plan(c)).by = "caller" =>
                            Cardinality(Mine(Spendings(clock, PLAN), Plan(c))) >= PLAN.count
                      /\ Budget(Plan(c)).by = "service" =>
                            Cardinality(Spendings(clock, plan_daily_global))
                               >= plan_daily_global.count
    BY DEF RefusedForRuns
  <2> QED BY BudgetIs, BlockedIs
<1> QED BY <1>1, MeterInductive, PTL
=============================================================================

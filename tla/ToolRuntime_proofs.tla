------------------------- MODULE ToolRuntime_proofs -------------------------
(***************************************************************************)
(* Proofs about ToolRuntime: no permit of the worker is lost or invented,  *)
(* the calls under tool_capacity are those of a ToolPool, and a run pays   *)
(* for a key once; the caches hang together and serve nothing older than   *)
(* its TTL.  The first two need that a job holds what its stage says, the  *)
(* third follows a key from the lookup to the run's cache, and the last    *)
(* two an answer from its call through both caches.                        *)
(***************************************************************************)
EXTENDS ToolRuntime, Lists_proofs, FiniteSetTheorems, TLAPS

Shape ==
    /\ phase \in [Runs -> Phases] /\ stage \in [Jobs -> Stages]
    /\ tried \in [Jobs -> Nat] /\ outcome \in [Jobs -> Told]
    /\ totalFree \in Nat /\ toolFree \in [Tools -> Nat]
    /\ DOMAIN answers = Runs
    /\ paid \in [Runs \X Keys -> Nat]

(* Where a run stands limits the stages of its jobs.                       *)
Placed ==
    \A j \in Jobs :
        /\ phase[j[1]] \in {"idle", "over"} => stage[j] = "none"
        /\ stage[j] = "bare" => j[2] = Gate
        /\ j[2] \in Keys /\ stage[j] # "none" =>
              phase[j[1]] \in {"session", "batch", "cancelled"}

(* A key is unpaid until its call begins, paid for by the attempts of that *)
(* call, and after it either answered for good or its run is being         *)
(* cancelled.                                                              *)
Account(j) ==
    /\ paid[j] <= MaxToolAttempts
    /\ stage[j] \in {"asked", "checks", "total", "tool"} => paid[j] = 0
    /\ stage[j] = "calling" => paid[j] = tried[j] /\ tried[j] < MaxToolAttempts
    /\ stage[j] = "done" => outcome[j] # "none" \/ phase[j[1]] = "cancelled"
    /\ stage[j] = "none" /\ answers[j[1]][j[2]] = "none"
          /\ phase[j[1]] \notin {"cancelled", "over"} => paid[j] = 0
Accounts == \A j \in Runs \X Keys : Account(j)

IInv == Shape /\ Placed /\ Accounts /\ PermitsHeld

-----------------------------------------------------------------------------
(* The worker has finitely many calls, so permits can be counted.          *)
LEMMA HoldersFinite ==
    /\ IsFiniteSet(Jobs)
    /\ IsFiniteSet(HoldTotal) /\ Cardinality(HoldTotal) \in Nat
    /\ \A t \in Tools : IsFiniteSet(HoldTool(t)) /\ Cardinality(HoldTool(t)) \in Nat
<1>1. IsFiniteSet(Jobs)
  BY ItemsAssumption, FS_Product DEF Jobs
<1>2. HoldTotal \subseteq Jobs /\ \A t \in Tools : HoldTool(t) \subseteq Jobs
  BY DEF HoldTotal, HoldTool
<1> QED
  BY <1>1, <1>2, FS_Subset, FS_CardinalityType

LEMMA KeysAreJobs ==
    /\ \A j \in Runs \X Keys : j \in Jobs /\ j[1] \in Runs /\ j[2] \in Keys /\ j[2] # Gate
    /\ \A j \in Jobs : j[1] \in Runs /\ j[2] \in Items /\ Tool(j) \in Tools
    /\ \A j \in Jobs : j[2] \in Keys => j \in Runs \X Keys
    /\ \A r \in Runs : <<r, Gate>> \in Jobs
BY ItemsAssumption DEF Jobs, Items, Tool

(* A step that moves no call across a permit keeps the permits.            *)
LEMMA Still ==
    ASSUME PermitsHeld, UNCHANGED <<totalFree, toolFree>>,
           \A j \in Jobs : stage'[j] \in {"tool", "calling"} <=> stage[j] \in {"tool", "calling"},
           \A j \in Jobs : stage'[j] = "calling" <=> stage[j] = "calling"
    PROVE  PermitsHeld'
<1>1. HoldTotal' = HoldTotal
  BY DEF HoldTotal
<1>2. \A t \in Tools : HoldTool(t)' = HoldTool(t)
  BY DEF HoldTool, Tool
<1> QED
  BY <1>1, <1>2 DEF PermitsHeld

(* A call that ends gives back exactly what it held.                       *)
LEMMA Released ==
    ASSUME Shape, PermitsHeld, NEW j \in Jobs, Release(j),
           stage' = [stage EXCEPT ![j] = "done"]
    PROVE  totalFree' \in Nat /\ toolFree' \in [Tools -> Nat] /\ PermitsHeld'
<1>1. totalFree' \in Nat /\ toolFree' \in [Tools -> Nat]
  BY KeysAreJobs DEF Release, Shape
<1>2. HoldTotal' = HoldTotal \ {j}
  BY DEF HoldTotal, Shape
<1>3. \A t \in Tools : HoldTool(t)' = HoldTool(t) \ {j}
  BY DEF HoldTool, Shape, Tool
<1>4. totalFree' + Cardinality(HoldTotal') = MaxParallelTools
  <2>1. j \in HoldTotal <=> HoldsTotal(stage[j])
    BY DEF HoldTotal, HoldsTotal
  <2>2. Cardinality(HoldTotal') = IF j \in HoldTotal THEN Cardinality(HoldTotal) - 1
                                                     ELSE Cardinality(HoldTotal)
    BY <1>2, HoldersFinite, FS_RemoveElement
  <2>3. totalFree' = IF HoldsTotal(stage[j]) THEN totalFree + 1 ELSE totalFree
    BY DEF Release
  <2> QED
    BY <2>1, <2>2, <2>3, HoldersFinite, CapacityAssumption DEF PermitsHeld, Shape
<1>5. ASSUME NEW t \in Tools
      PROVE  toolFree'[t] + Cardinality(HoldTool(t)') = Limit[t]
  <2>1. j \in HoldTool(t) <=> Tool(j) = t /\ stage[j] = "calling"
    BY DEF HoldTool
  <2>2. Cardinality(HoldTool(t)') = IF j \in HoldTool(t) THEN Cardinality(HoldTool(t)) - 1
                                                         ELSE Cardinality(HoldTool(t))
    BY <1>3, HoldersFinite, FS_RemoveElement
  <2>3. toolFree'[t] = IF Tool(j) = t /\ stage[j] = "calling" THEN toolFree[t] + 1
                                                              ELSE toolFree[t]
    BY KeysAreJobs DEF Release, Shape
  <2>4. toolFree[t] + Cardinality(HoldTool(t)) = Limit[t] /\ toolFree[t] \in Nat
    BY DEF PermitsHeld, Shape
  <2> QED
    BY <2>1, <2>2, <2>3, <2>4, HoldersFinite, CapacityAssumption
<1> QED
  BY <1>1, <1>4, <1>5 DEF PermitsHeld

-----------------------------------------------------------------------------
LEMMA InitIInv == Init => IInv
<1> SUFFICES ASSUME Init PROVE IInv
  OBVIOUS
<1>1. Shape
  BY CapacityAssumption, KeysAreJobs DEF Init, Shape, Phases, Stages, Told, NoHits
<1>2. Placed
  BY DEF Init, Placed, Jobs
<1>3. Accounts
  BY CapacityAssumption, KeysAreJobs DEF Init, Accounts, Account
<1>4. PermitsHeld
  <2>1. HoldTotal = {} /\ \A t \in Tools : HoldTool(t) = {}
    BY DEF Init, HoldTotal, HoldTool
  <2>2. Cardinality(HoldTotal) = 0 /\ \A t \in Tools : Cardinality(HoldTool(t)) = 0
    BY <2>1, FS_EmptySet
  <2>3. totalFree = MaxParallelTools /\ toolFree = Limit
    BY DEF Init
  <2>4. MaxParallelTools + 0 = MaxParallelTools /\ \A t \in Tools : Limit[t] + 0 = Limit[t]
    BY CapacityAssumption
  <2> QED
    BY <2>2, <2>3, <2>4 DEF PermitsHeld
<1> QED
  BY <1>1, <1>2, <1>3, <1>4 DEF IInv

(* A key is settled in the run's cache once it was told or known.          *)
LEMMA LearnedKeeps ==
    ASSUME NEW known, NEW told, NEW k \in Keys
    PROVE  Learned(known, told)[k] = "none" => known[k] = "none" /\ told[k] = "none"
BY DEF Learned

(* A batch the caches answer settles what was asked; any other marks the   *)
(* keys it asks upstream, which no batch of the run has paid for.          *)
LEMMA LookKeeps ==
    ASSUME IInv, NEW r \in Runs, Look(r) PROVE IInv'
<1> USE DEF IInv
<1>0. phase[r] = "idle" /\ UNCHANGED <<tried, outcome, paid, totalFree, toolFree>>
  BY DEF Look, permits
<1>1. PICK fresh, found :
        /\ \A k \in fresh : k \in Keys => answers[r][k] = "none"
        /\ fresh \subseteq Keys
        /\ \/ /\ answers' = [answers EXCEPT ![r] = Learned(@, found)]
              /\ UNCHANGED <<phase, stage>>
           \/ /\ stage' = [j \in Jobs |-> IF j[1] = r /\ j[2] \in fresh THEN "asked" ELSE stage[j]]
              /\ phase' = [phase EXCEPT ![r] = "session"]
              /\ UNCHANGED answers
  <2>1. PICK asked \in Batches(Keys) :
          LET wanted == Wanted(r, asked)
              found == Found(wanted)
              fresh == {k \in wanted : found[k] = "none"}
          IN  \/ /\ answers' = [answers EXCEPT ![r] = Learned(@, found)]
                 /\ UNCHANGED <<phase, work, hits, stage>>
              \/ /\ stage' = [j \in Jobs |->
                       IF j[1] = r /\ j[2] \in fresh THEN "asked" ELSE stage[j]]
                 /\ phase' = [phase EXCEPT ![r] = "session"]
                 /\ UNCHANGED answers
    BY DEF Look
  <2>2. Range(asked) \subseteq Keys
    BY DEF Batches, Range
  <2>3. Wanted(r, asked) \subseteq Keys /\ \A k \in Wanted(r, asked) : answers[r][k] = "none"
    BY <2>2 DEF Wanted
  <2> QED
    BY <2>1, <2>3
<1>2. \A j \in Jobs : j[1] = r => stage[j] = "none"
  BY <1>0 DEF Placed
<1>3. \A j \in Jobs : stage'[j] = stage[j] \/ (stage[j] = "none" /\ stage'[j] = "asked")
  BY <1>1, <1>2
<1>4. Shape'
  BY <1>0, <1>1 DEF Shape, Phases, Stages
<1>5. Placed'
  BY <1>1, <1>2, KeysAreJobs DEF Placed, Shape
<1>6. Accounts'
  <2> SUFFICES ASSUME NEW j \in Runs \X Keys PROVE Account(j)'
    BY DEF Accounts
  <2>1. Account(j) /\ j \in Jobs /\ j[1] \in Runs /\ j[2] \in Keys
    BY KeysAreJobs DEF Accounts
  <2>2. CASE j[1] # r
    BY <1>0, <1>1, <2>1, <2>2 DEF Account, Shape
  <2>3. CASE j[1] = r /\ UNCHANGED <<phase, stage>>
    <3>1. answers'[r][j[2]] = "none" => answers[r][j[2]] = "none"
      BY <1>1, <2>1, LearnedKeeps DEF Shape
    <3> QED
      BY <1>0, <2>1, <2>3, <3>1 DEF Account
  <2>4. CASE j[1] = r /\ answers' = answers
    BY <1>0, <1>1, <1>2, <2>1, <2>4 DEF Account, Shape
  <2> QED
    BY <1>1, <2>2, <2>3, <2>4
<1>7. PermitsHeld'
  BY <1>0, <1>3, Still
<1> QED
  BY <1>4, <1>5, <1>6, <1>7

(* Moves of a run as a whole that leave its calls where they are, or ask   *)
(* for items that are not keys.                                            *)
LEMMA StartKeeps ==
    ASSUME IInv, NEW r \in Runs, Start(r) \/ StartChecks(r) PROVE IInv'
<1> USE DEF IInv
<1>0. PICK at \in {"total", "checks"} :
        /\ phase[r] \in {"session", "measure_session"}
        /\ at = "total" <=> phase[r] = "session"
        /\ stage' = [j \in Jobs |-> IF j[1] = r /\ stage[j] = "asked" THEN at ELSE stage[j]]
        /\ phase' = [phase EXCEPT ![r] = IF at = "total" THEN "batch" ELSE "measure"]
        /\ UNCHANGED <<answers, tried, outcome, paid, totalFree, toolFree>>
  BY DEF Start, StartChecks, Opened, batch, permits
<1>1. \A j \in Jobs : stage'[j] = stage[j] \/ (stage[j] = "asked" /\ stage'[j] = at)
  BY <1>0
<1>2. Shape'
  BY <1>0 DEF Shape, Phases, Stages
<1>3. Placed'
  BY <1>0, KeysAreJobs DEF Placed, Shape
<1>4. Accounts'
  <2> SUFFICES ASSUME NEW j \in Runs \X Keys PROVE Account(j)'
    BY DEF Accounts
  <2>1. Account(j) /\ j \in Jobs /\ j[1] \in Runs /\ j[2] \in Keys
    BY KeysAreJobs DEF Accounts
  <2>2. stage[j] = "asked" /\ j[1] = r => at = "total"
    BY <1>0, <2>1 DEF Placed
  <2>3. phase'[j[1]] = phase[j[1]] \/ phase'[j[1]] \in {"batch", "measure"}
    BY <1>0, <2>1 DEF Shape
  <2>4. phase[j[1]] # phase'[j[1]] => phase[j[1]] \in {"session", "measure_session"}
    BY <1>0, <2>1 DEF Shape
  <2> QED
    BY <1>0, <1>1, <2>1, <2>2, <2>3, <2>4 DEF Account
<1>5. PermitsHeld'
  BY <1>0, <1>1, Still
<1> QED
  BY <1>2, <1>3, <1>4, <1>5

LEMMA AskedKeeps ==
    ASSUME IInv, NEW r \in Runs, NEW asked, NEW at \in {"asked", "bare"},
           phase[r] = "idle", UNCHANGED <<answers, outcome, paid, totalFree, toolFree>>,
           \A j \in Jobs : j[2] \in asked => j[2] \notin Keys /\ (at = "bare" => j[2] = Gate),
           stage' = [j \in Jobs |-> IF j[1] = r /\ j[2] \in asked THEN at ELSE stage[j]],
           phase' = [phase EXCEPT ![r] = IF at = "bare" THEN "gate" ELSE "measure_session"],
           \A j \in Runs \X Keys : tried'[j] = tried[j], tried' \in [Jobs -> Nat]
    PROVE  IInv'
<1> USE DEF IInv
<1>1. \A j \in Jobs : j[1] = r => stage[j] = "none"
  BY DEF Placed
<1>2. \A j \in Jobs : \/ stage'[j] = stage[j]
                      \/ stage[j] = "none" /\ stage'[j] = at /\ j[2] \in asked
  BY <1>1
<1>3. Shape'
  BY DEF Shape, Phases, Stages
<1>4. Placed'
  BY <1>1, <1>2, KeysAreJobs DEF Placed, Shape
<1>5. Accounts'
  <2> SUFFICES ASSUME NEW j \in Runs \X Keys PROVE Account(j)'
    BY DEF Accounts
  <2>1. Account(j) /\ j \in Jobs /\ j[1] \in Runs /\ j[2] \in Keys /\ stage'[j] = stage[j]
    BY <1>2, KeysAreJobs DEF Accounts
  <2>2. phase'[j[1]] = phase[j[1]] \/ phase[j[1]] = "idle"
    BY <2>1 DEF Shape
  <2>3. phase[j[1]] = "idle" => stage[j] = "none"
    BY <2>1 DEF Placed
  <2> QED
    BY <2>1, <2>2, <2>3 DEF Account
<1>6. PermitsHeld'
  BY <1>2, Still
<1> QED
  BY <1>3, <1>4, <1>5, <1>6

LEMMA ConfirmKeeps ==
    ASSUME IInv, NEW r \in Runs, Confirm(r) PROVE IInv'
<1>1. PICK hops \in Batches(Hops) : stage' = [j \in Jobs |->
            IF j[1] = r /\ j[2] \in Range(hops) THEN "asked" ELSE stage[j]]
  BY DEF Confirm
<1>2. \A j \in Jobs : j[2] \in Range(hops) => j[2] \notin Keys
  BY ItemsAssumption DEF Batches, Range
<1>3. \A j \in Runs \X Keys : tried'[j] = tried[j]
  BY DEF Confirm
<1>4. /\ phase[r] = "idle" /\ UNCHANGED <<answers, outcome, paid, totalFree, toolFree>>
      /\ phase' = [phase EXCEPT ![r] = "measure_session"] /\ tried' \in [Jobs -> Nat]
  BY DEF Confirm, permits, IInv, Shape
<1> QED
  BY <1>1, <1>2, <1>3, <1>4, AskedKeeps

LEMMA LookupKeeps ==
    ASSUME IInv, NEW r \in Runs, Lookup(r) PROVE IInv'
<1>1. \A j \in Jobs : j = <<r, Gate>> <=> j[1] = r /\ j[2] \in {Gate}
  BY DEF Jobs
<1>2. stage' = [j \in Jobs |-> IF j[1] = r /\ j[2] \in {Gate} THEN "bare" ELSE stage[j]]
  BY <1>1 DEF Lookup, IInv, Shape
<1>3. \A j \in Runs \X Keys : tried'[j] = tried[j]
  BY KeysAreJobs DEF Lookup, IInv, Shape
<1>4. tried' \in [Jobs -> Nat]
  BY DEF Lookup, IInv, Shape
<1>5. /\ phase[r] = "idle" /\ UNCHANGED <<answers, outcome, paid, totalFree, toolFree>>
      /\ phase' = [phase EXCEPT ![r] = "gate"]
  BY DEF Lookup, batch, permits
<1>6. \A j \in Jobs : j[2] \in {Gate} => j[2] \notin Keys /\ j[2] = Gate
  BY ItemsAssumption
<1> QED
  BY <1>2, <1>3, <1>4, <1>5, <1>6, AskedKeeps
-----------------------------------------------------------------------------
(* The steps of one call.                                                  *)
LEMMA TakeCheckKeeps ==
    ASSUME IInv, NEW j \in Jobs, TakeCheck(j) PROVE IInv'
<1> USE DEF IInv
<1>0. /\ stage[j] = "checks" /\ stage' = [stage EXCEPT ![j] = "total"]
      /\ UNCHANGED <<phase, answers, tried, outcome, paid, totalFree, toolFree>>
  BY DEF TakeCheck, batch
<1>1. Shape'
  BY <1>0 DEF Shape, Stages
<1>2. Placed'
  BY <1>0 DEF Placed, Shape
<1>3. Accounts'
  BY <1>0, KeysAreJobs DEF Accounts, Account, Shape
<1>4. PermitsHeld'
  BY <1>0, Still DEF Shape
<1> QED
  BY <1>1, <1>2, <1>3, <1>4

LEMMA TakeTotalKeeps ==
    ASSUME IInv, NEW j \in Jobs, TakeTotal(j) PROVE IInv'
<1> USE DEF IInv
<1>0. /\ stage[j] = "total" /\ stage' = [stage EXCEPT ![j] = "tool"]
      /\ totalFree > 0 /\ totalFree' = totalFree - 1
      /\ UNCHANGED <<phase, answers, tried, outcome, paid, toolFree>>
  BY DEF TakeTotal, batch
<1>1. Shape'
  BY <1>0 DEF Shape, Stages
<1>2. Placed'
  BY <1>0 DEF Placed, Shape
<1>3. Accounts'
  BY <1>0, KeysAreJobs DEF Accounts, Account, Shape
<1>4. PermitsHeld'
  <2>1. HoldTotal' = HoldTotal \cup {j} /\ j \notin HoldTotal
    BY <1>0 DEF HoldTotal, Shape
  <2>2. Cardinality(HoldTotal') = Cardinality(HoldTotal) + 1
    BY <2>1, HoldersFinite, FS_AddElement
  <2>3. totalFree' + Cardinality(HoldTotal') = MaxParallelTools
    BY <1>0, <2>2, HoldersFinite, CapacityAssumption DEF PermitsHeld, Shape
  <2>4. \A t \in Tools : HoldTool(t)' = HoldTool(t)
    BY <1>0 DEF HoldTool, Tool, Shape
  <2> QED
    BY <1>0, <2>3, <2>4 DEF PermitsHeld
<1> QED
  BY <1>1, <1>2, <1>3, <1>4

LEMMA TakeToolKeeps ==
    ASSUME IInv, NEW j \in Jobs, TakeTool(j) PROVE IInv'
<1> USE DEF IInv
<1>0. /\ stage[j] = "tool" /\ stage' = [stage EXCEPT ![j] = "calling"]
      /\ tried' = [tried EXCEPT ![j] = 0]
      /\ toolFree[Tool(j)] > 0 /\ toolFree' = [toolFree EXCEPT ![Tool(j)] = @ - 1]
      /\ UNCHANGED <<phase, answers, outcome, paid, totalFree>>
  BY DEF TakeTool, batch, Permit
<1>1. Shape'
  BY <1>0, KeysAreJobs DEF Shape, Stages
<1>2. Placed'
  BY <1>0 DEF Placed, Shape
<1>3. Accounts'
  BY <1>0, KeysAreJobs, CapacityAssumption DEF Accounts, Account, Shape
<1>4. PermitsHeld'
  <2>1. HoldTotal' = HoldTotal
    BY <1>0 DEF HoldTotal, Shape
  <2>2. ASSUME NEW t \in Tools, t # Tool(j)
        PROVE  toolFree'[t] + Cardinality(HoldTool(t)') = Limit[t]
    <3>1. HoldTool(t)' = HoldTool(t) /\ toolFree'[t] = toolFree[t]
      BY <1>0, <2>2 DEF HoldTool, Tool, Shape
    <3> QED
      BY <3>1 DEF PermitsHeld
  <2>3. toolFree'[Tool(j)] + Cardinality(HoldTool(Tool(j))') = Limit[Tool(j)]
    <3> DEFINE t == Tool(j)
    <3> HIDE DEF t
    <3>0. t \in Tools /\ t = Tool(j)
      BY KeysAreJobs DEF t
    <3>1. HoldTool(t)' = HoldTool(t) \cup {j} /\ j \notin HoldTool(t)
      BY <1>0, <3>0 DEF HoldTool, Tool, Shape
    <3>2. Cardinality(HoldTool(t)') = Cardinality(HoldTool(t)) + 1
      BY <3>0, <3>1, HoldersFinite, FS_AddElement
    <3>3. toolFree'[t] = toolFree[t] - 1 /\ toolFree[t] \in Nat
      BY <1>0, <3>0 DEF Shape
    <3>4. toolFree[t] + Cardinality(HoldTool(t)) = Limit[t]
      BY <3>0 DEF PermitsHeld
    <3>5. toolFree'[t] + Cardinality(HoldTool(t)') = Limit[t]
      BY <3>0, <3>2, <3>3, <3>4, HoldersFinite, CapacityAssumption
    <3> QED
      BY <3>0, <3>5 DEF t
  <2> QED
    BY <1>0, <2>1, <2>2, <2>3 DEF PermitsHeld
<1> QED
  BY <1>1, <1>2, <1>3, <1>4

(* An attempt is paid for and either tried again or the call's last.       *)
LEMMA AttemptKeeps ==
    ASSUME IInv, NEW j \in Jobs, Attempt(j) PROVE IInv'
<1> USE DEF IInv
<1>0. /\ Upstream(stage[j]) /\ UNCHANGED <<phase, answers>>
      /\ paid' = IF j[2] \in Keys THEN [paid EXCEPT ![j] = @ + 1] ELSE paid
  BY DEF Attempt, batch
<1>1. \A i \in Runs \X Keys : i # j => paid'[i] = paid[i]
  BY <1>0 DEF Shape
<1>2. paid' \in [Runs \X Keys -> Nat]
  BY <1>0, KeysAreJobs DEF Shape
<1>3. j \in Runs \X Keys => paid'[j] = paid[j] + 1 /\ stage[j] = "calling"
  BY <1>0, KeysAreJobs DEF Shape, Placed, Upstream
<1>4. CASE /\ Retried(j) /\ tried' = [tried EXCEPT ![j] = @ + 1]
           /\ UNCHANGED <<stage, outcome, permits>>
  <2>1. Shape'
    BY <1>0, <1>2, <1>4 DEF Shape, permits
  <2>2. Placed'
    BY <1>0, <1>4 DEF Placed
  <2>3. Accounts'
    <3> SUFFICES ASSUME NEW i \in Runs \X Keys PROVE Account(i)'
      BY DEF Accounts
    <3>1. Account(i) /\ i \in Jobs
      BY KeysAreJobs DEF Accounts
    <3>2. CASE i # j
      BY <1>0, <1>1, <1>4, <3>1, <3>2 DEF Account, Shape
    <3>3. CASE i = j
      <4>1. tried'[j] = tried[j] + 1 /\ tried[j] + 1 < MaxToolAttempts /\ tried[j] \in Nat
        BY <1>4 DEF Shape, Retried
      <4>2. paid[j] = tried[j] /\ paid'[j] = paid[j] + 1 /\ stage'[j] = "calling"
        BY <1>3, <1>4, <3>1, <3>3 DEF Account
      <4> QED
        BY <3>3, <4>1, <4>2, CapacityAssumption DEF Account
    <3> QED
      BY <3>2, <3>3
  <2>4. PermitsHeld'
    BY <1>4, Still DEF permits
  <2> QED
    BY <2>1, <2>2, <2>3, <2>4
<1>5. CASE \E answer \in {"ok", "failed"} :
             /\ outcome' = [outcome EXCEPT ![j] = answer]
             /\ stage' = [stage EXCEPT ![j] = "done"]
             /\ Release(j)
             /\ UNCHANGED tried
  <2>0. PICK answer \in {"ok", "failed"} :
             /\ outcome' = [outcome EXCEPT ![j] = answer]
             /\ stage' = [stage EXCEPT ![j] = "done"]
             /\ Release(j)
             /\ UNCHANGED tried
    BY <1>5
  <2>1. totalFree' \in Nat /\ toolFree' \in [Tools -> Nat] /\ PermitsHeld'
    BY <2>0, Released
  <2>2. Shape'
    BY <1>0, <1>2, <2>0, <2>1 DEF Shape, Stages, Told
  <2>3. Placed'
    BY <1>0, <2>0, KeysAreJobs DEF Placed, Shape, Upstream
  <2>4. Accounts'
    <3> SUFFICES ASSUME NEW i \in Runs \X Keys PROVE Account(i)'
      BY DEF Accounts
    <3>1. Account(i) /\ i \in Jobs
      BY KeysAreJobs DEF Accounts
    <3>2. CASE i # j
      BY <1>0, <1>1, <2>0, <3>1, <3>2 DEF Account, Shape
    <3>3. CASE i = j
      <4>1. paid[j] < MaxToolAttempts /\ paid[j] \in Nat /\ paid'[j] = paid[j] + 1
        BY <1>3, <3>1, <3>3 DEF Account, Shape
      <4>2. stage'[j] = "done" /\ outcome'[j] # "none"
        BY <2>0 DEF Shape
      <4> QED
        BY <3>3, <4>1, <4>2, CapacityAssumption DEF Account
    <3> QED
      BY <3>2, <3>3
  <2> QED
    BY <2>1, <2>2, <2>3, <2>4
<1> QED
  BY <1>4, <1>5 DEF Attempt

LEMMA UnwindKeeps ==
    ASSUME IInv, NEW j \in Jobs, Unwind(j) PROVE IInv'
<1> USE DEF IInv
<1>0. /\ phase[j[1]] = "cancelled" /\ stage[j] # "none"
      /\ stage' = [stage EXCEPT ![j] = "done"] /\ Release(j)
      /\ UNCHANGED <<phase, answers, tried, outcome, paid>>
  BY DEF Unwind, batch
<1>1. totalFree' \in Nat /\ toolFree' \in [Tools -> Nat] /\ PermitsHeld'
  BY <1>0, Released
<1>2. Shape'
  BY <1>0, <1>1 DEF Shape, Stages
<1>3. Placed'
  BY <1>0 DEF Placed, Shape
<1>4. Accounts'
  BY <1>0, KeysAreJobs DEF Accounts, Account, Shape
<1> QED
  BY <1>1, <1>2, <1>3, <1>4
-----------------------------------------------------------------------------
(* The steps that end a turn or a run.  When a batch ends every key it     *)
(* asked is settled in the run's cache, which keeps it from being paid for *)
(* again.                                                                  *)
LEMMA ClearedKeeps ==
    ASSUME IInv, NEW r \in Runs, AllDone(r), Cleared(r), NEW p \in {"idle", "over"},
           phase' = [phase EXCEPT ![r] = p], UNCHANGED <<paid, totalFree, toolFree>>
    PROVE  /\ (DOMAIN answers' = Runs => Shape') /\ Placed' /\ PermitsHeld'
           /\ \A j \in Runs \X Keys :
                 j[1] # r /\ answers'[j[1]] = answers[j[1]] => Account(j)'
<1> USE DEF IInv
<1>1. \A j \in Jobs : j[1] = r => stage[j] \in {"none", "done"}
  BY DEF AllDone
<1>2. \A j \in Jobs : stage'[j] = IF j[1] = r THEN "none" ELSE stage[j]
  BY DEF Cleared
<1>3. DOMAIN answers' = Runs => Shape'
  BY DEF Shape, Cleared, Phases, Stages, Told
<1>4. Placed'
  BY <1>2 DEF Placed, Shape
<1>5. PermitsHeld'
  BY <1>1, <1>2, Still
<1>6. ASSUME NEW j \in Runs \X Keys, j[1] # r, answers'[j[1]] = answers[j[1]]
      PROVE  Account(j)'
  <2>1. Account(j) /\ j \in Jobs /\ j[1] \in Runs
    BY KeysAreJobs DEF Accounts
  <2>2. stage'[j] = stage[j] /\ tried'[j] = tried[j] /\ outcome'[j] = outcome[j]
    BY <1>6, <2>1 DEF Cleared
  <2>3. phase'[j[1]] = phase[j[1]]
    BY <1>6, <2>1 DEF Shape
  <2> QED
    BY <1>6, <2>1, <2>2, <2>3 DEF Account
<1> QED
  BY <1>3, <1>4, <1>5, <1>6

LEMMA FinishKeeps ==
    ASSUME IInv, NEW r \in Runs, Finish(r) PROVE IInv'
<1> USE DEF IInv
<1>1. /\ phase[r] = "batch" /\ AllDone(r) /\ Cleared(r)
      /\ phase' = [phase EXCEPT ![r] = "idle"] /\ UNCHANGED <<paid, totalFree, toolFree>>
      /\ answers' = [answers EXCEPT ![r] =
            Learned(Learned(@, hits[r]), [k \in Keys |-> outcome[<<r, k>>]])]
  BY DEF Finish, permits
<1>2. DOMAIN answers' = Runs /\ \A i \in Runs : i # r => answers'[i] = answers[i]
  BY <1>1 DEF Shape
<1>3. /\ Shape' /\ Placed' /\ PermitsHeld'
      /\ \A j \in Runs \X Keys : j[1] # r => Account(j)'
  BY <1>1, <1>2, ClearedKeeps, KeysAreJobs
<1>4. ASSUME NEW j \in Runs \X Keys, j[1] = r PROVE Account(j)'
  <2>1. Account(j) /\ j \in Jobs /\ j = <<r, j[2]>> /\ j[2] \in Keys
    BY <1>4, KeysAreJobs DEF Accounts
  <2>2. stage'[j] = "none" /\ stage[j] \in {"none", "done"}
    BY <1>1, <1>4, <2>1 DEF Cleared, AllDone
  <2>3. answers'[r] = Learned(Learned(answers[r], hits[r]), [k \in Keys |-> outcome[<<r, k>>]])
    BY <1>1 DEF Shape
  <2>4. answers'[r][j[2]] = "none" => answers[r][j[2]] = "none" /\ outcome[j] = "none"
    BY <2>1, <2>3 DEF Learned
  <2>5. paid'[j] = paid[j] /\ phase[j[1]] = "batch"
    BY <1>1, <1>4
  <2>6. answers'[r][j[2]] = "none" => paid[j] = 0
    BY <1>4, <2>1, <2>2, <2>4, <2>5 DEF Account
  <2> QED
    BY <1>4, <2>1, <2>2, <2>5, <2>6 DEF Account
<1> QED
  BY <1>3, <1>4 DEF Accounts

LEMMA JudgedKeeps ==
    ASSUME IInv, NEW r \in Runs, Judged(r) \/ Gone(r) PROVE IInv'
<1> USE DEF IInv
<1>1. PICK p \in {"idle", "over"} :
        /\ phase[r] \in {"measure", "gate", "cancelled"} /\ AllDone(r) /\ Cleared(r)
        /\ (p = "idle" => phase[r] # "cancelled")
        /\ phase' = [phase EXCEPT ![r] = p]
        /\ UNCHANGED <<answers, paid, totalFree, toolFree>>
  BY DEF Judged, Gone, permits
<1>2. /\ Shape' /\ Placed' /\ PermitsHeld'
      /\ \A j \in Runs \X Keys : j[1] # r => Account(j)'
  BY <1>1, ClearedKeeps, KeysAreJobs DEF Shape
<1>3. ASSUME NEW j \in Runs \X Keys, j[1] = r PROVE Account(j)'
  <2>1. Account(j) /\ j \in Jobs /\ j[2] \in Keys
    BY KeysAreJobs DEF Accounts
  <2>2. stage'[j] = "none"
    BY <1>1, <1>3, <2>1 DEF Cleared
  <2>3. phase'[r] = p
    BY <1>1 DEF Shape
  <2>4. p = "idle" => stage[j] = "none"
    BY <1>1, <1>3, <2>1 DEF Placed
  <2> QED
    BY <1>1, <1>3, <2>1, <2>2, <2>3, <2>4 DEF Account
<1> QED
  BY <1>2, <1>3 DEF Accounts

LEMMA CancelKeeps ==
    ASSUME IInv, NEW r \in Runs, Cancel(r) \/ End(r) PROVE IInv'
<1> USE DEF IInv
<1>1. PICK p \in {"cancelled", "over"} :
        /\ phase[r] # "cancelled" /\ phase[r] # "over"
        /\ (p = "over" => phase[r] = "idle")
        /\ phase' = [phase EXCEPT ![r] = p]
        /\ UNCHANGED <<stage, tried, outcome, paid, answers, totalFree, toolFree>>
  BY DEF Cancel, End, batch, permits, calls
<1>2. Shape'
  BY <1>1 DEF Shape, Phases
<1>3. Placed'
  BY <1>1 DEF Placed, Shape
<1>4. Accounts'
  BY <1>1, KeysAreJobs DEF Accounts, Account, Shape
<1>5. PermitsHeld'
  BY <1>1, Still
<1> QED
  BY <1>2, <1>3, <1>4, <1>5

LEMMA IdleKeeps ==
    ASSUME IInv, UNCHANGED vars \/ Tick PROVE IInv'
<1>1. UNCHANGED <<phase, stage, tried, outcome, paid, answers, totalFree, toolFree>>
  BY DEF Tick, vars, batch, permits, calls
<1> QED
  BY <1>1, Still DEF IInv, Shape, Placed, Accounts, Account

LEMMA NextKeeps == IInv /\ [Next]_vars => IInv'
BY LookKeeps, StartKeeps, ConfirmKeeps, LookupKeeps, TakeCheckKeeps, TakeTotalKeeps,
   TakeToolKeeps, AttemptKeeps, UnwindKeeps, FinishKeeps, JudgedKeeps, CancelKeeps, IdleKeeps
   DEF Next, Over

LEMMA Inductive == Spec => []IInv
BY InitIInv, NextKeeps, PTL DEF Spec

-----------------------------------------------------------------------------
(* Across all runs of the worker and whatever is cancelled, the free       *)
(* permits and the calls that hold one add up to the advertised ceilings   *)
(* (the CapacityLimiter of tools/registry.py).                             *)
THEOREM PermitsSafe == Spec => []PermitsHeld
<1>1. IInv => PermitsHeld
  BY DEF IInv
<1> QED
  BY <1>1, Inductive, PTL

(* Through all its batches a run pays for at most one call, with its       *)
(* retry, of each key (run_tools and its tool_cache).                      *)
THEOREM PaidSafe == Spec => []PaidOnce
<1>1. IInv => PaidOnce
  BY DEF IInv, Accounts, Account, PaidOnce
<1> QED
  BY <1>1, Inductive, PTL
-----------------------------------------------------------------------------
(* The refinement: the calls under tool_capacity are a pool's.             *)
LEMMA WithinCeilings ==
    ASSUME IInv
    PROVE  /\ Cardinality(Calling) <= MaxParallelTools
           /\ \A t \in Tools : Cardinality(Calling \cap UsersOf[t]) <= Limit[t]
<1> USE DEF IInv
<1>1. Calling \subseteq HoldTotal
  BY DEF Calling, HoldTotal
<1>2. Cardinality(Calling) <= Cardinality(HoldTotal)
  BY <1>1, HoldersFinite, FS_Subset
<1>3. Cardinality(Calling) \in Nat
  BY <1>1, HoldersFinite, FS_Subset, FS_CardinalityType
<1>4. Cardinality(Calling) <= MaxParallelTools
  BY <1>2, <1>3, HoldersFinite, CapacityAssumption DEF PermitsHeld, Shape
<1>5. ASSUME NEW t \in Tools PROVE Cardinality(Calling \cap UsersOf[t]) <= Limit[t]
  <2>1. Calling \cap UsersOf[t] = HoldTool(t)
    BY DEF Calling, UsersOf, HoldTool
  <2>2. toolFree[t] \in Nat /\ toolFree[t] + Cardinality(HoldTool(t)) = Limit[t]
    BY DEF PermitsHeld, Shape
  <2> QED
    BY <2>1, <2>2, HoldersFinite, CapacityAssumption
<1> QED
  BY <1>4, <1>5

(* Every step leaves the calls being made as they are, or lets one begin   *)
(* or end.                                                                 *)
LEMMA CallingSteps ==
    ASSUME IInv, [Next]_vars
    PROVE  \/ Calling' = Calling
           \/ \E j \in Jobs : j \notin Calling /\ Calling' = Calling \cup {j}
           \/ \E j \in Jobs : j \in Calling /\ Calling' = Calling \ {j}
<1> USE DEF IInv
<1> DEFINE Same == \A j \in Jobs : stage'[j] = "calling" <=> stage[j] = "calling"
<1>1. Same => Calling' = Calling
  BY DEF Calling
<1>2. ASSUME NEW r \in Runs,
             \/ Look(r) \/ Start(r) \/ Confirm(r) \/ StartChecks(r) \/ Lookup(r)
             \/ Finish(r) \/ Judged(r) \/ Cancel(r) \/ Gone(r) \/ End(r)
      PROVE  Same
  <2>1. ASSUME phase[r] \in {"idle", "over"} PROVE \A j \in Jobs : j[1] = r => stage[j] = "none"
    BY <2>1 DEF Placed
  <2>2. CASE Look(r)
    BY <2>1, <2>2 DEF Look
  <2>3. CASE Start(r) \/ StartChecks(r)
    BY <2>3 DEF Start, StartChecks, Opened
  <2>4. CASE Confirm(r)
    BY <2>1, <2>4 DEF Confirm
  <2>5. CASE Lookup(r)
    <3>1. \A j \in Jobs : stage'[j] = stage[j] \/ (j[1] = r /\ stage'[j] = "bare")
      BY <2>5, KeysAreJobs DEF Lookup, Shape
    <3> QED
      BY <2>1, <2>5, <3>1 DEF Lookup
  <2>6. CASE Finish(r) \/ Judged(r) \/ Gone(r)
    <3>1. AllDone(r) /\ Cleared(r)
      BY <2>6 DEF Finish, Judged, Gone
    <3> QED
      BY <3>1 DEF AllDone, Cleared
  <2>7. CASE Cancel(r) \/ End(r)
    BY <2>7 DEF Cancel, End, calls
  <2> QED
    BY <1>2, <2>2, <2>3, <2>4, <2>5, <2>6, <2>7
<1>3. ASSUME NEW j \in Jobs, TakeCheck(j) \/ TakeTotal(j) PROVE Same
  BY <1>3 DEF TakeCheck, TakeTotal, Shape
<1>4. ASSUME NEW j \in Jobs, TakeTool(j)
      PROVE  j \notin Calling /\ Calling' = Calling \cup {j}
  <2>1. stage[j] = "tool" /\ stage' = [stage EXCEPT ![j] = "calling"]
    BY <1>4 DEF TakeTool
  <2> QED
    BY <2>1 DEF Calling, Shape
<1>5. ASSUME NEW j \in Jobs, Attempt(j) \/ Unwind(j)
      PROVE  Same \/ (j \in Calling /\ Calling' = Calling \ {j})
  <2>1. stage' = stage \/ stage' = [stage EXCEPT ![j] = "done"]
    BY <1>5 DEF Attempt, Unwind
  <2> QED
    BY <2>1 DEF Calling, Shape
<1>6. ASSUME UNCHANGED vars \/ Tick \/ Over PROVE Same
  BY <1>6 DEF vars, Tick, Over, calls
<1> HIDE DEF Same
<1> QED
  BY <1>1, <1>2, <1>3, <1>4, <1>5, <1>6 DEF Next

(* tool_capacity keeps the calls made under it within the ceilings, in     *)
(* every worker of any size (ToolPool).                                    *)
THEOREM ImplementsPool == Spec => PoolSpec
<1>1. Init => Pool!Init
  BY DEF Init, Pool!Init, Calling
<1>2. IInv /\ IInv' /\ [Next]_vars => [Pool!Next]_Calling
  <2> SUFFICES ASSUME IInv, IInv', [Next]_vars PROVE [Pool!Next]_Calling
    OBVIOUS
  <2>1. /\ Cardinality(Calling') <= MaxParallelTools
        /\ \A t \in Tools : Cardinality(Calling' \cap UsersOf[t]) <= Limit[t]
    <3>1. (/\ Cardinality(Calling) <= MaxParallelTools
           /\ \A t \in Tools : Cardinality(Calling \cap UsersOf[t]) <= Limit[t])'
      BY WithinCeilings, PTL
    <3>2. UsersOf' = UsersOf
      BY DEF UsersOf, Tool
    <3> QED
      BY <3>1, <3>2
  <2>2. CASE Calling' = Calling
    BY <2>2
  <2>3. ASSUME NEW j \in Jobs, j \notin Calling, Calling' = Calling \cup {j} PROVE Pool!Next
    <3>1. \A S : Pool!Cardinality(S) = Cardinality(S)
      BY DEF Pool!Cardinality, Cardinality, Pool!IsFiniteSet, IsFiniteSet
    <3> QED
      BY <2>1, <2>3, <3>1 DEF Pool!Next, Pool!Begin
  <2>4. ASSUME NEW j \in Jobs, j \in Calling, Calling' = Calling \ {j} PROVE Pool!Next
    BY <2>4 DEF Pool!Next, Pool!End
  <2> QED
    BY <2>2, <2>3, <2>4, CallingSteps
<1> QED
  BY <1>1, <1>2, Inductive, PTL DEF Spec, PoolSpec, Pool!Spec
-----------------------------------------------------------------------------
(* The caches.  What makes RuntimeInv inductive: only usable answers are    *)
(* shared, each under a key of its own and no longer than its TTL after it  *)
(* was put; a batch asks for a key once; and whatever a run's own call was  *)
(* told has been paid for.                                                  *)
Good == [key : Keys, answer : {"ok"}, expires : Int]
KeyedOnce(entries) == \A i, k \in DOMAIN entries : entries[i].key = entries[k].key => i = k
CacheOK(entries, since) ==
    /\ entries \in Seq(Good) /\ Len(entries) <= MaxEntries /\ KeyedOnce(entries)
    /\ \A e \in Range(entries) : e.expires <= since[e.key] + Ttl[ToolOf[e.key]]

LEMMA GoodIs == \A e \in Good : e.key \in Keys /\ e.answer = "ok" /\ e.expires \in Int
BY DEF Good

LEMMA OnlyKeyedOnce ==
    ASSUME NEW s \in Seq(Good), NEW some, KeyedOnce(s)
    PROVE  KeyedOnce(Only(s, some))
<1> DEFINE only == Only(s, some)
           R == {pair \in Good \X Good : pair[1].key # pair[2].key}
<1>1. \A i \in DOMAIN s : s[i] \in Good BY LenProperties, ElementOfSeq
<1>2. DOMAIN s = 1 .. Len(s) BY LenProperties
<1>3. \A i, k \in DOMAIN s : i < k => <<s[i], s[k]>> \in R BY <1>1, <1>2 DEF KeyedOnce
<1>4. \A i, k \in DOMAIN only : i < k => <<only[i], only[k]>> \in R
  <2> HIDE DEF R
  <2> QED BY <1>3, OnlyOrdered
<1>5. only \in Seq(Good) /\ DOMAIN only = 1 .. Len(only) BY OnlyHolds, LenProperties
<1> HIDE DEF only
<1>6. \A i, k \in DOMAIN only : i < k => only[i].key # only[k].key BY <1>4
<1>7. \A i, k \in DOMAIN only : i # k => i < k \/ k < i BY <1>5
<1>8. KeyedOnce(only) BY <1>6, <1>7 DEF KeyedOnce
<1> QED BY <1>8 DEF only

(* Entries of some keys and entries of others.                              *)
LEMMA JoinKeyedOnce ==
    ASSUME NEW s \in Seq(Good), NEW t \in Seq(Good), KeyedOnce(s), KeyedOnce(t),
           \A e \in Range(s), f \in Range(t) : e.key # f.key
    PROVE  KeyedOnce(s \o t)
<1> DEFINE n == Len(s)
           m == Len(t)
           both == s \o t
<1>1. /\ n \in Nat /\ m \in Nat /\ DOMAIN s = 1 .. n /\ DOMAIN t = 1 .. m
      /\ DOMAIN both = 1 .. n + m
      /\ \A i \in 1 .. n + m : both[i] = IF i <= n THEN s[i] ELSE t[i - n]
  <2>1. /\ both \in Seq(Good) /\ Len(both) = n + m
        /\ \A i \in 1 .. n + m : both[i] = IF i <= n THEN s[i] ELSE t[i - n]
    BY ConcatProperties
  <2> QED BY <2>1, LenProperties
<1>2. (\A i \in DOMAIN s : s[i] \in Range(s)) /\ (\A i \in DOMAIN t : t[i] \in Range(t))
  BY DEF Range
<1> HIDE DEF n, m, both
<1>3. \A i \in DOMAIN both : \/ i \in DOMAIN s /\ i <= n /\ both[i] = s[i]
                             \/ i - n \in DOMAIN t /\ ~(i <= n) /\ both[i] = t[i - n]
  BY <1>1
<1>4. ASSUME NEW i \in DOMAIN both, NEW k \in DOMAIN both, both[i].key = both[k].key
      PROVE  i = k
  <2>1. i \in Int /\ k \in Int /\ n \in Int BY <1>1
  <2>2. CASE i <= n /\ k <= n BY <1>3, <1>4, <2>2 DEF KeyedOnce
  <2>3. CASE ~(i <= n) /\ ~(k <= n)
    <3>1. i - n \in DOMAIN t /\ k - n \in DOMAIN t /\ both[i] = t[i - n] /\ both[k] = t[k - n]
      BY <1>3, <2>3
    <3>2. i - n = k - n BY <1>4, <3>1 DEF KeyedOnce
    <3> QED BY <2>1, <3>2
  <2>4. CASE i <= n /\ ~(k <= n)
    <3>1. both[i] \in Range(s) /\ both[k] \in Range(t) BY <1>2, <1>3, <2>4
    <3> QED BY <1>4, <3>1
  <2>5. CASE ~(i <= n) /\ k <= n
    <3>1. both[i] \in Range(t) /\ both[k] \in Range(s) BY <1>2, <1>3, <2>5
    <3> QED BY <1>4, <3>1
  <2> QED BY <2>2, <2>3, <2>4, <2>5
<1> QED BY <1>4 DEF KeyedOnce, both

(* A list of entries from another one cannot be the longer of the two.      *)
LEMMA NoLonger ==
    ASSUME NEW s \in Seq(Good), NEW t \in Seq(Good), KeyedOnce(s), Range(s) \subseteq Range(t)
    PROVE  Len(s) <= Len(t)
<1> DEFINE at == [i \in 1 .. Len(s) |-> CHOOSE k \in 1 .. Len(t) : t[k] = s[i]]
<1>1. /\ Len(s) \in Nat /\ Len(t) \in Nat
      /\ DOMAIN s = 1 .. Len(s) /\ DOMAIN t = 1 .. Len(t)
  BY LenProperties
<1>2. \A i \in 1 .. Len(s) : \E k \in 1 .. Len(t) : t[k] = s[i] BY <1>1 DEF Range
<1>3. \A i \in 1 .. Len(s) : at[i] \in 1 .. Len(t) /\ t[at[i]] = s[i] BY <1>2
<1>4. at \in [1 .. Len(s) -> 1 .. Len(t)] BY <1>3
<1> HIDE DEF at
<1>5. \A i, k \in 1 .. Len(s) : at[i] = at[k] => i = k
  <2> SUFFICES ASSUME NEW i \in 1 .. Len(s), NEW k \in 1 .. Len(s), at[i] = at[k] PROVE i = k
    OBVIOUS
  <2>1. s[i] = s[k] BY <1>3
  <2> QED BY <1>1, <2>1 DEF KeyedOnce
<1>6. at \in Injection(1 .. Len(s), 1 .. Len(t)) BY <1>4, <1>5 DEF Injection, IsInjective
<1>7. IsFiniteSet(1 .. Len(t)) BY <1>1, UpTo
<1>8. Cardinality(1 .. Len(s)) <= Cardinality(1 .. Len(t)) BY <1>6, <1>7, FS_Injection
<1> QED BY <1>1, <1>8, UpTo

(* Being looked up moves what is live to the recent end and drops what has  *)
(* expired: nothing is added and nothing renewed.                           *)
LEMMA TouchedKeeps ==
    ASSUME CacheOK(shared, born), NEW looked \in Seq(Keys), IsInjective(looked)
    PROVE  CacheOK(Touched(looked), born)
<1> DEFINE live == Only(looked, LiveKeys)
           others == {e \in Range(shared) : e.key \notin Range(looked)}
           kept == Only(shared, others)
           moved == [i \in 1 .. Len(live) |-> CHOOSE e \in Live : e.key = live[i]]
<1>1. Touched(looked) = kept \o moved BY DEF Touched
<1>2. /\ shared \in Seq(Good) /\ KeyedOnce(shared) /\ Len(shared) <= MaxEntries
      /\ \A e \in Range(shared) : e.expires <= born[e.key] + Ttl[ToolOf[e.key]]
  BY DEF CacheOK
<1>3. Range(shared) \subseteq Good /\ Live \subseteq Range(shared)
  BY <1>2, RangeInside DEF Live
<1>4. /\ live \in Seq(Keys) /\ IsInjective(live)
      /\ \A i \in DOMAIN live : live[i] \in LiveKeys /\ live[i] \in Range(looked)
  <2>1. live \in Seq(Keys) /\ IsInjective(live) BY OnlyHolds, OnlyInjective
  <2>2. \A i \in DOMAIN live : live[i] \in LiveKeys /\ \E k \in DOMAIN looked : looked[k] = live[i]
    BY OnlyHolds
  <2> HIDE DEF live
  <2> QED BY <2>1, <2>2 DEF Range
<1>5. /\ kept \in Seq(Good) /\ KeyedOnce(kept)
      /\ \A e \in Range(kept) : e \in Range(shared) /\ e.key \notin Range(looked)
  <2>1. kept \in Seq(Good) /\ KeyedOnce(kept) BY <1>2, OnlyHolds, OnlyKeyedOnce
  <2>2. \A i \in DOMAIN kept : kept[i] \in others
    <3> HIDE DEF others
    <3> QED BY <1>2, OnlyHolds
  <2> HIDE DEF kept
  <2> QED BY <2>1, <2>2 DEF Range
<1>6. Len(live) \in Nat /\ DOMAIN live = 1 .. Len(live) BY <1>4, LenProperties
<1> HIDE DEF live, kept
<1>7. \A i \in 1 .. Len(live) : moved[i] \in Live /\ moved[i].key = live[i]
  <2>1. \A i \in 1 .. Len(live) : \E e \in Live : e.key = live[i]
    BY <1>4, <1>6 DEF LiveKeys
  <2> QED BY <2>1
<1>8. /\ moved \in Seq(Good) /\ DOMAIN moved = 1 .. Len(live)
      /\ Range(moved) \subseteq Range(shared)
  <2>1. \A i \in 1 .. Len(live) : moved[i] \in Good /\ moved[i] \in Range(shared) BY <1>3, <1>7
  <2>2. moved \in [1 .. Len(live) -> Good] BY <2>1
  <2>3. DOMAIN moved = 1 .. Len(live) OBVIOUS
  <2> HIDE DEF moved
  <2> QED BY <1>6, <2>1, <2>2, <2>3 DEF Range
<1> HIDE DEF moved
<1>9. KeyedOnce(moved) BY <1>4, <1>6, <1>7, <1>8 DEF KeyedOnce, IsInjective
<1>10. \A e \in Range(moved) : e.key \in Range(looked) BY <1>4, <1>6, <1>7, <1>8 DEF Range
<1>11. KeyedOnce(kept \o moved) BY <1>5, <1>8, <1>9, <1>10, JoinKeyedOnce
<1>12. kept \o moved \in Seq(Good) /\ Range(kept \o moved) \subseteq Range(shared)
  BY <1>5, <1>8, RangeOfBoth
<1>13. Len(kept \o moved) <= Len(shared) BY <1>2, <1>11, <1>12, NoLonger
<1>14. Len(kept \o moved) \in Nat /\ Len(shared) \in Nat BY <1>2, <1>12, LenProperties
<1>15. Len(kept \o moved) <= MaxEntries BY <1>2, <1>13, <1>14, CapacityAssumption
<1> QED BY <1>1, <1>2, <1>11, <1>12, <1>15 DEF CacheOK

LEMMA TrimmedKeeps ==
    ASSUME NEW entries \in Seq(Good), KeyedOnce(entries)
    PROVE  /\ Trimmed(entries) \in Seq(Good) /\ Len(Trimmed(entries)) <= MaxEntries
           /\ KeyedOnce(Trimmed(entries)) /\ Range(Trimmed(entries)) \subseteq Range(entries)
<1> DEFINE n == Len(entries)
           from == IF n > MaxEntries THEN n - MaxEntries + 1 ELSE 1
           rest == Trimmed(entries)
<1>1. n \in Nat /\ DOMAIN entries = 1 .. n /\ \A i \in 1 .. n : entries[i] \in Good
  BY LenProperties, ElementOfSeq
<1>2. rest = SubSeq(entries, from, n) BY DEF Trimmed
<1> HIDE DEF n
<1>3. MaxEntries \in Nat BY CapacityAssumption
<1>4. from \in 1 .. n + 1 /\ n - from + 1 <= MaxEntries /\ from \in Int BY <1>1, <1>3
<1> HIDE DEF from
<1>5. \A i \in from .. n : entries[i] \in Good BY <1>1, <1>4
<1>6. /\ rest \in Seq(Good) /\ Len(rest) = (IF from <= n THEN n - from + 1 ELSE 0)
      /\ \A i \in 1 .. n - from + 1 : rest[i] = entries[from + i - 1]
  BY <1>1, <1>2, <1>4, <1>5, SubSeqProperties
<1> HIDE DEF rest
<1>7. Len(rest) = n - from + 1 /\ n - from + 1 \in Nat BY <1>1, <1>4, <1>6
<1>8. DOMAIN rest = 1 .. n - from + 1 BY <1>6, <1>7, LenProperties
<1>9. \A i \in DOMAIN rest : rest[i] = entries[from + i - 1] /\ from + i - 1 \in DOMAIN entries
  BY <1>1, <1>4, <1>6, <1>8
<1>10. KeyedOnce(rest)
  <2> SUFFICES ASSUME NEW i \in DOMAIN rest, NEW k \in DOMAIN rest, rest[i].key = rest[k].key
               PROVE  i = k
    BY DEF KeyedOnce
  <2>1. from + i - 1 = from + k - 1 BY <1>9 DEF KeyedOnce
  <2> QED BY <1>4, <1>8, <2>1
<1>11. Range(rest) \subseteq Range(entries) BY <1>9 DEF Range
<1>12. Len(rest) <= MaxEntries BY <1>4, <1>7
<1> QED BY <1>6, <1>10, <1>11, <1>12 DEF rest

(* What a batch shares lives from now on for its TTL.                       *)
LEMMA PutKeeps ==
    ASSUME CacheOK(shared, born), NEW r \in Runs, work[r] \in Seq(Items), IsInjective(work[r]),
           now \in Nat, born \in [Keys -> Nat], Put(r)
    PROVE  CacheOK(shared', born') /\ born' \in [Keys -> Nat]
<1> DEFINE some == {k \in Keys : Usable(r, k) /\ Ttl[ToolOf[k]] > 0}
           good == Only(work[r], some)
           others == {e \in Range(shared) : e.key \notin Range(good)}
           kept == Only(shared, others)
           put == [i \in 1 .. Len(good) |-> [key |-> good[i], answer |-> outcome[<<r, good[i]>>],
                                             expires |-> now + Ttl[ToolOf[good[i]]]]]
<1>1. /\ shared' = Trimmed(kept \o put)
      /\ born' = [k \in Keys |-> IF k \in Range(good) THEN now ELSE born[k]]
  BY DEF Put
<1>2. /\ shared \in Seq(Good) /\ KeyedOnce(shared)
      /\ \A e \in Range(shared) : e.expires <= born[e.key] + Ttl[ToolOf[e.key]]
  BY DEF CacheOK
<1>3. Range(shared) \subseteq Good BY <1>2, RangeInside
<1>4. /\ good \in Seq(Items) /\ IsInjective(good)
      /\ \A i \in DOMAIN good : good[i] \in Keys /\ outcome[<<r, good[i]>>] = "ok"
  <2>1. good \in Seq(Items) /\ IsInjective(good)
    <3> HIDE DEF some
    <3> QED BY OnlyHolds, OnlyInjective
  <2>2. \A i \in DOMAIN good : good[i] \in some
    <3> HIDE DEF some
    <3> QED BY OnlyHolds
  <2> HIDE DEF good
  <2> QED BY <2>1, <2>2 DEF Usable
<1>5. Len(good) \in Nat /\ DOMAIN good = 1 .. Len(good) BY <1>4, LenProperties
<1> HIDE DEF good
<1>6. /\ kept \in Seq(Good) /\ KeyedOnce(kept)
      /\ \A e \in Range(kept) : e \in Range(shared) /\ e.key \notin Range(good)
  <2>1. kept \in Seq(Good) /\ KeyedOnce(kept) BY <1>2, OnlyHolds, OnlyKeyedOnce
  <2>2. \A i \in DOMAIN kept : kept[i] \in others
    <3> HIDE DEF others
    <3> QED BY <1>2, OnlyHolds
  <2> HIDE DEF kept
  <2> QED BY <2>1, <2>2 DEF Range
<1> HIDE DEF kept
<1>7. \A k \in Keys : Ttl[ToolOf[k]] \in Nat
  BY ItemsAssumption, CapacityAssumption DEF Items
<1>8. \A i \in 1 .. Len(good) :
         /\ put[i] \in Good /\ put[i].key = good[i]
         /\ put[i].expires = now + Ttl[ToolOf[good[i]]]
  BY <1>4, <1>5, <1>7 DEF Good
<1>9. put \in Seq(Good) /\ DOMAIN put = 1 .. Len(good)
  <2>1. DOMAIN put = 1 .. Len(good) OBVIOUS
  <2>2. put \in [1 .. Len(good) -> Good] BY <1>8
  <2> HIDE DEF put
  <2> QED BY <1>5, <2>1, <2>2
<1> HIDE DEF put
<1>10. KeyedOnce(put) BY <1>4, <1>5, <1>8, <1>9 DEF KeyedOnce, IsInjective
<1>11. \A e \in Range(put) : /\ e.key \in Range(good) /\ e.key \in Keys
                             /\ e.expires = now + Ttl[ToolOf[e.key]]
  <2>1. \A i \in DOMAIN good : good[i] \in Range(good) BY DEF Range
  <2>2. \A i \in DOMAIN put : /\ put[i].key \in Range(good) /\ put[i].key \in Keys
                             /\ put[i].expires = now + Ttl[ToolOf[put[i].key]]
    BY <1>4, <1>5, <1>8, <1>9, <2>1
  <2> QED BY <2>2 DEF Range
<1>12. KeyedOnce(kept \o put) BY <1>6, <1>9, <1>10, <1>11, JoinKeyedOnce
<1>13. kept \o put \in Seq(Good) /\ Range(kept \o put) = Range(kept) \cup Range(put)
  BY <1>6, <1>9, RangeOfBoth
<1>14. /\ shared' \in Seq(Good) /\ Len(shared') <= MaxEntries /\ KeyedOnce(shared')
       /\ Range(shared') \subseteq Range(kept) \cup Range(put)
  BY <1>1, <1>12, <1>13, TrimmedKeeps
<1>15. born' \in [Keys -> Nat] BY <1>1
<1>16. ASSUME NEW e \in Range(shared')
       PROVE  e.expires <= born'[e.key] + Ttl[ToolOf[e.key]]
  <2>1. CASE e \in Range(kept)
    <3>1. e \in Range(shared) /\ e.key \notin Range(good) /\ e.key \in Keys
      BY <1>3, <1>6, <2>1, GoodIs
    <3>2. born'[e.key] = born[e.key] BY <1>1, <3>1
    <3> QED BY <1>2, <3>1, <3>2
  <2>2. CASE e \in Range(put)
    <3>1. e.key \in Keys /\ e.key \in Range(good) /\ e.expires = now + Ttl[ToolOf[e.key]]
      BY <1>11, <2>2
    <3>2. born'[e.key] = now BY <1>1, <3>1
    <3>3. Ttl[ToolOf[e.key]] \in Nat BY <1>7, <3>1
    <3> QED BY <3>1, <3>2, <3>3
  <2> QED BY <1>14, <2>1, <2>2
<1> QED BY <1>14, <1>15, <1>16 DEF CacheOK

-----------------------------------------------------------------------------
Bounds == now \in 0 .. Horizon /\ turns \in [Runs -> 0 .. Turns]
Asks == work \in [Runs -> Seq(Items)] /\ \A r \in Runs : IsInjective(work[r])
Lines ==
    /\ checking \in [Runs -> Nat] /\ checkLine \in [Runs -> Seq(Jobs)]
    /\ totalLine \in Seq(Jobs) /\ toolLine \in [Tools -> Seq(Jobs)]
Honest ==
    /\ hits \in [Runs -> [Keys -> {"none", "ok"}]] /\ answers \in [Runs -> [Keys -> Told]]
    /\ \A j \in Runs \X Keys :
          /\ outcome[j] # "none" => paid[j] > 0
          /\ answers[j[1]][j[2]] = "failed" => paid[j] > 0
Cached == CacheOK(shared, born) /\ born \in [Keys -> Nat]

RInv == Bounds /\ Asks /\ Lines /\ Honest /\ Cached

LEMMA BatchIs ==
    ASSUME NEW S, NEW asked \in Batches(S)
    PROVE  asked \in Seq(S) /\ IsInjective(asked) /\ Range(asked) \subseteq S
<1>1. PICK n \in 1 .. MaxBatch : asked \in [1 .. n -> S]
  BY DEF Batches
<1>2. IsInjective(asked) BY DEF Batches
<1>3. n \in Nat BY CapacityAssumption
<1>4. asked \in Seq(S) BY <1>1, <1>3
<1> QED BY <1>1, <1>2, <1>4 DEF Range

LEMMA BoundsStep == RInv /\ [Next]_vars => Bounds'
<1> SUFFICES ASSUME RInv, [Next]_vars PROVE Bounds'
  OBVIOUS
<1>1. CASE Tick BY <1>1, CapacityAssumption DEF RInv, Bounds, Tick
<1>2. ASSUME NEW r \in Runs, Look(r) \/ Confirm(r) \/ Lookup(r) PROVE Bounds'
  <2>1. turns[r] < Turns /\ turns' = [turns EXCEPT ![r] = @ + 1] /\ now' = now
    BY <1>2 DEF Look, Confirm, Lookup
  <2> QED BY <2>1, CapacityAssumption DEF RInv, Bounds
<1>3. CASE UNCHANGED <<now, turns>> BY <1>3 DEF RInv, Bounds
<1> QED BY <1>1, <1>2, <1>3 DEF Next, Start, StartChecks, Finish, Judged, Cancel, Gone, End,
           TakeCheck, TakeTotal, TakeTool, Attempt, Unwind, Over, vars

LEMMA AsksStep == RInv /\ [Next]_vars => Asks'
<1> SUFFICES ASSUME RInv, [Next]_vars PROVE Asks'
  OBVIOUS
<1>1. ASSUME NEW r \in Runs, NEW list \in Seq(Items), IsInjective(list),
             work' = [work EXCEPT ![r] = list]
      PROVE  Asks'
  BY <1>1 DEF RInv, Asks
<1>2. ASSUME NEW r \in Runs, Look(r) PROVE Asks' \/ work' = work
  <2>1. PICK asked \in Batches(Keys) :
           \/ UNCHANGED work
           \/ \E some : work' = [work EXCEPT ![r] = Only(asked, some)]
    BY <1>2 DEF Look
  <2>2. asked \in Seq(Items) /\ IsInjective(asked)
    <3>1. asked \in Seq(Keys) /\ IsInjective(asked) BY BatchIs
    <3> QED BY <3>1, SeqMonotonic DEF Items
  <2>3. \A some : Only(asked, some) \in Seq(Items) /\ IsInjective(Only(asked, some))
    BY <2>2, OnlyHolds, OnlyInjective
  <2> QED BY <1>1, <2>1, <2>3
<1>3. ASSUME NEW r \in Runs, Confirm(r) PROVE Asks'
  <2>1. PICK hops \in Batches(Hops) : work' = [work EXCEPT ![r] = hops]
    BY <1>3 DEF Confirm
  <2>2. hops \in Seq(Hops) /\ IsInjective(hops) BY BatchIs
  <2>3. hops \in Seq(Items) BY <2>2, SeqMonotonic DEF Items
  <2> QED BY <1>1, <2>1, <2>2, <2>3
<1>4. ASSUME NEW r \in Runs, Finish(r) \/ Judged(r) \/ Gone(r) PROVE Asks'
  <2>1. work' = [work EXCEPT ![r] = <<>>] BY <1>4 DEF Finish, Judged, Gone
  <2>2. <<>> \in Seq(Items) /\ IsInjective(<<>>) BY DEF IsInjective
  <2> QED BY <1>1, <2>1, <2>2
<1>5. CASE work' = work BY <1>5 DEF RInv, Asks
<1> QED BY <1>2, <1>3, <1>4, <1>5 DEF Next, Start, StartChecks, Lookup, Cancel, End,
           TakeCheck, TakeTotal, TakeTool, Attempt, Unwind, Tick, Over, vars, batch

(* Who waits in a line is a call.                                           *)
LEMMA ReleaseLines ==
    ASSUME Lines, NEW j \in Jobs, Release(j)
    PROVE  Lines'
<1>1. \A line \in Seq(Jobs) : LeftLine(line, j) \in Seq(Jobs)
  BY OnlyHolds DEF LeftLine
<1>2. j[1] \in Runs /\ Tool(j) \in Tools BY KeysAreJobs
<1>3. totalLine' \in Seq(Jobs) BY <1>1 DEF Release, Lines
<1>4. checkLine' \in [Runs -> Seq(Jobs)]
  <2>1. checkLine[j[1]] \in Seq(Jobs) BY <1>2 DEF Lines
  <2>2. LeftLine(checkLine[j[1]], j) \in Seq(Jobs) BY <1>1, <2>1
  <2> QED BY <1>2, <2>2 DEF Release, Lines
<1>5. toolLine' \in [Tools -> Seq(Jobs)]
  <2>1. toolLine[Tool(j)] \in Seq(Jobs) BY <1>2 DEF Lines
  <2>2. LeftLine(toolLine[Tool(j)], j) \in Seq(Jobs) BY <1>1, <2>1
  <2> QED BY <1>2, <2>2 DEF Release, Lines
<1>6. checking' \in [Runs -> Nat] BY <1>2 DEF Release, Lines
<1> QED BY <1>3, <1>4, <1>5, <1>6 DEF Lines

LEMMA TailIs == ASSUME NEW S, NEW line \in Seq(S), NEW j, First(line, j) PROVE Tail(line) \in Seq(S)
BY HeadTailProperties DEF First

LEMMA LineIs == ASSUME Asks, NEW r \in Runs PROVE Line(r) \in Seq(Jobs)
<1>1. work[r] \in Seq(Items) /\ Len(work[r]) \in Nat BY LenProperties DEF Asks
<1>2. \A i \in 1 .. Len(work[r]) : <<r, work[r][i]>> \in Jobs BY <1>1, ElementOfSeq DEF Jobs
<1> QED BY <1>1, <1>2 DEF Line

LEMMA LinesStep == RInv /\ [Next]_vars => Lines'
<1> SUFFICES ASSUME RInv, [Next]_vars PROVE Lines'
  OBVIOUS
<1>1. ASSUME NEW r \in Runs, Start(r) PROVE Lines'
  <2>1. totalLine' = totalLine \o Line(r) /\ UNCHANGED <<checking, checkLine, toolLine>>
    BY <1>1 DEF Start, permits
  <2>2. totalLine \o Line(r) \in Seq(Jobs) BY LineIs, ConcatProperties DEF RInv, Lines
  <2> QED BY <2>1, <2>2 DEF RInv, Lines
<1>2. ASSUME NEW r \in Runs, StartChecks(r) PROVE Lines'
  <2>1. Line(r) \in Seq(Jobs) BY LineIs DEF RInv
  <2> QED BY <1>2, <2>1 DEF StartChecks, permits, RInv, Lines
<1>3. ASSUME NEW j \in Jobs, TakeCheck(j) PROVE Lines'
  <2>1. j[1] \in Runs /\ checkLine[j[1]] \in Seq(Jobs) /\ checking[j[1]] \in Nat
    BY KeysAreJobs DEF RInv, Lines
  <2>2. /\ checking[j[1]] > 0 /\ First(checkLine[j[1]], j)
        /\ checking' = [checking EXCEPT ![j[1]] = @ - 1]
        /\ checkLine' = [checkLine EXCEPT ![j[1]] = Tail(@)]
        /\ totalLine' = Append(totalLine, j) /\ toolLine' = toolLine
    BY <1>3 DEF TakeCheck
  <2>3. Tail(checkLine[j[1]]) \in Seq(Jobs) BY <2>1, <2>2, TailIs
  <2>4. checking[j[1]] - 1 \in Nat BY <2>1, <2>2
  <2>5. totalLine' \in Seq(Jobs) BY <2>2, AppendProperties DEF RInv, Lines
  <2>6. checkLine' \in [Runs -> Seq(Jobs)] BY <2>1, <2>2, <2>3 DEF RInv, Lines
  <2>7. checking' \in [Runs -> Nat] BY <2>1, <2>2, <2>4 DEF RInv, Lines
  <2> QED BY <2>2, <2>5, <2>6, <2>7 DEF RInv, Lines
<1>4. ASSUME NEW j \in Jobs, TakeTotal(j) PROVE Lines'
  <2>1. Tool(j) \in Tools /\ toolLine[Tool(j)] \in Seq(Jobs) BY KeysAreJobs DEF RInv, Lines
  <2>2. /\ First(totalLine, j) /\ totalLine' = Tail(totalLine)
        /\ toolLine' = [toolLine EXCEPT ![Tool(j)] = Append(@, j)]
        /\ UNCHANGED <<checking, checkLine>>
    BY <1>4 DEF TakeTotal
  <2>3. Tail(totalLine) \in Seq(Jobs) BY <2>2, TailIs DEF RInv, Lines
  <2>4. Append(toolLine[Tool(j)], j) \in Seq(Jobs) BY <2>1, AppendProperties
  <2>5. toolLine' \in [Tools -> Seq(Jobs)] BY <2>1, <2>2, <2>4 DEF RInv, Lines
  <2> QED BY <2>2, <2>3, <2>5 DEF RInv, Lines
<1>5. ASSUME NEW j \in Jobs, TakeTool(j) PROVE Lines'
  <2>1. Tool(j) \in Tools /\ toolLine[Tool(j)] \in Seq(Jobs) BY KeysAreJobs DEF RInv, Lines
  <2>2. /\ First(toolLine[Tool(j)], j)
        /\ toolLine' = [toolLine EXCEPT ![Tool(j)] = Tail(@)]
        /\ UNCHANGED <<checking, checkLine, totalLine>>
    BY <1>5 DEF TakeTool
  <2>3. Tail(toolLine[Tool(j)]) \in Seq(Jobs) BY <2>1, <2>2, TailIs
  <2>4. toolLine' \in [Tools -> Seq(Jobs)] BY <2>1, <2>2, <2>3 DEF RInv, Lines
  <2> QED BY <2>2, <2>4 DEF RInv, Lines
<1>6. ASSUME NEW j \in Jobs, Attempt(j) \/ Unwind(j) PROVE Lines'
  <2>1. Release(j) \/ UNCHANGED <<permits, queues>> BY <1>6 DEF Attempt, Unwind
  <2>2. CASE Release(j) BY <2>2, ReleaseLines DEF RInv
  <2>3. CASE UNCHANGED <<permits, queues>> BY <2>3 DEF permits, queues, RInv, Lines
  <2> QED BY <2>1, <2>2, <2>3
<1>7. CASE UNCHANGED <<permits, queues>> BY <1>7 DEF permits, queues, RInv, Lines
<1> QED BY <1>1, <1>2, <1>3, <1>4, <1>5, <1>6, <1>7
        DEF Next, Look, Confirm, Lookup, Finish, Judged, Cancel, Gone, End, Tick, Over, vars

(* What a lookup finds is live, so usable.                                  *)
LEMMA FoundIs ==
    ASSUME Cached, NEW wanted
    PROVE  /\ Found(wanted) \in [Keys -> {"none", "ok"}]
           /\ \A k \in Keys : Found(wanted)[k] # "none" => k \in LiveKeys
<1>1. Live \subseteq Range(shared) BY DEF Live
<1>2. Range(shared) \subseteq Good BY RangeInside DEF Cached, CacheOK
<1>3. ASSUME NEW k \in LiveKeys PROVE (CHOOSE e \in Live : e.key = k).answer = "ok"
  <2>1. \E e \in Live : e.key = k BY DEF LiveKeys
  <2>2. (CHOOSE e \in Live : e.key = k) \in Live BY <2>1
  <2> QED BY <1>1, <1>2, <2>2, GoodIs
<1> QED BY <1>3 DEF Found

LEMMA LearnedIs ==
    ASSUME NEW known \in [Keys -> Told], NEW told \in [Keys -> Told]
    PROVE  /\ Learned(known, told) \in [Keys -> Told]
           /\ \A k \in Keys : Learned(known, told)[k] = "failed" =>
                 told[k] = "failed" \/ known[k] = "failed"
           /\ \A k \in Keys : told[k] = "none" => Learned(known, told)[k] = known[k]
BY DEF Learned

LEMMA HonestStep == IInv /\ RInv /\ [Next]_vars => Honest'
<1> SUFFICES ASSUME IInv, RInv, [Next]_vars PROVE Honest'
  OBVIOUS
<1>0. Shape /\ Honest /\ Cached BY DEF IInv, RInv
<1>1. ASSUME NEW r \in Runs, Look(r) PROVE Honest'
  <2>1. PICK asked \in Batches(Keys) :
          LET wanted == Wanted(r, asked)
              found == Found(wanted)
          IN  \/ /\ answers' = [answers EXCEPT ![r] = Learned(@, found)]
                 /\ UNCHANGED hits
              \/ /\ hits' = [hits EXCEPT ![r] = found]
                 /\ UNCHANGED answers
    BY <1>1 DEF Look
  <2> DEFINE found == Found(Wanted(r, asked))
  <2>2. found \in [Keys -> {"none", "ok"}] BY <1>0, FoundIs
  <2>3. \/ answers' = [answers EXCEPT ![r] = Learned(@, found)] /\ hits' = hits
        \/ hits' = [hits EXCEPT ![r] = found] /\ answers' = answers
    BY <2>1
  <2> HIDE DEF found
  <2>4. found \in [Keys -> Told] BY <2>2 DEF Told
  <2>5. hits' \in [Runs -> [Keys -> {"none", "ok"}]] BY <1>0, <2>2, <2>3 DEF Honest
  <2>6. answers[r] \in [Keys -> Told] BY <1>0 DEF Honest
  <2>7. /\ Learned(answers[r], found) \in [Keys -> Told]
        /\ \A k \in Keys : Learned(answers[r], found)[k] = "failed" => answers[r][k] = "failed"
    BY <2>2, <2>4, <2>6, LearnedIs
  <2>8. answers' \in [Runs -> [Keys -> Told]] BY <1>0, <2>3, <2>7 DEF Honest
  <2>9. \A j \in Runs \X Keys : answers'[j[1]][j[2]] = "failed" => answers[j[1]][j[2]] = "failed"
    BY <1>0, <2>3, <2>7, KeysAreJobs DEF Honest
  <2>10. UNCHANGED <<outcome, paid>> BY <1>1 DEF Look
  <2> QED BY <1>0, <2>5, <2>8, <2>9, <2>10 DEF Honest
<1>2. ASSUME NEW r \in Runs, Cleared(r)
      PROVE  \A j \in Runs \X Keys : outcome'[j] # "none" => outcome'[j] = outcome[j]
  BY <1>2, KeysAreJobs DEF Cleared
<1>3. NoHits \in [Keys -> {"none", "ok"}] BY DEF NoHits
<1>4. ASSUME NEW r \in Runs, Finish(r) PROVE Honest'
  <2> DEFINE told == [k \in Keys |-> outcome[<<r, k>>]]
  <2>1. /\ Cleared(r) /\ paid' = paid /\ hits' = [hits EXCEPT ![r] = NoHits]
        /\ answers' = [answers EXCEPT ![r] = Learned(Learned(@, hits[r]), told)]
    BY <1>4 DEF Finish
  <2>2. /\ told \in [Keys -> Told]
        /\ \A k \in Keys : told[k] = "failed" => paid[<<r, k>>] > 0
    <3>1. \A k \in Keys : <<r, k>> \in Runs \X Keys /\ <<r, k>> \in Jobs BY KeysAreJobs
    <3> QED BY <1>0, <3>1 DEF Shape, Honest, Told
  <2> HIDE DEF told
  <2>3. /\ answers[r] \in [Keys -> Told] /\ hits[r] \in [Keys -> Told]
        /\ \A k \in Keys : hits[r][k] # "failed"
    BY <1>0 DEF Honest, Told
  <2> DEFINE once == Learned(answers[r], hits[r])
             twice == Learned(once, told)
  <2>4. once \in [Keys -> Told] /\ \A k \in Keys : once[k] = "failed" => answers[r][k] = "failed"
    BY <2>3, LearnedIs
  <2> HIDE DEF once
  <2>5. /\ twice \in [Keys -> Told]
        /\ \A k \in Keys : twice[k] = "failed" => told[k] = "failed" \/ once[k] = "failed"
    BY <2>2, <2>4, LearnedIs
  <2> HIDE DEF twice
  <2>6. answers' = [answers EXCEPT ![r] = twice] BY <2>1 DEF twice, once
  <2>7. \A k \in Keys : answers[r][k] = "failed" => paid[<<r, k>>] > 0
    BY <1>0 DEF Honest
  <2>8. \A k \in Keys : twice[k] = "failed" => paid[<<r, k>>] > 0
    BY <2>2, <2>4, <2>5, <2>7
  <2>9. answers' \in [Runs -> [Keys -> Told]] /\ hits' \in [Runs -> [Keys -> {"none", "ok"}]]
    BY <1>0, <1>3, <2>1, <2>5, <2>6 DEF Honest
  <2>10. ASSUME NEW j \in Runs \X Keys, answers'[j[1]][j[2]] = "failed" PROVE paid[j] > 0
    <3>1. j[1] \in Runs /\ j[2] \in Keys /\ j = <<j[1], j[2]>> BY KeysAreJobs
    <3>2. CASE j[1] = r
      <4>1. answers'[j[1]] = twice BY <1>0, <2>6, <3>2 DEF Honest
      <4> QED BY <2>8, <2>10, <3>1, <3>2, <4>1
    <3>3. CASE j[1] # r
      <4>1. answers'[j[1]] = answers[j[1]] BY <1>0, <2>6, <3>1, <3>3 DEF Honest
      <4> QED BY <1>0, <2>10, <4>1 DEF Honest
    <3> QED BY <3>2, <3>3
  <2> QED BY <1>0, <1>2, <2>1, <2>9, <2>10 DEF Honest
<1>5. ASSUME NEW r \in Runs, Judged(r) \/ Gone(r) PROVE Honest'
  <2>1. /\ Cleared(r) /\ paid' = paid /\ answers' = answers
        /\ hits' = hits \/ hits' = [hits EXCEPT ![r] = NoHits]
    BY <1>5 DEF Judged, Gone
  <2>2. hits' \in [Runs -> [Keys -> {"none", "ok"}]] BY <1>0, <1>3, <2>1 DEF Honest
  <2> QED BY <1>0, <1>2, <2>1, <2>2 DEF Honest
<1>6. ASSUME NEW j \in Jobs, Attempt(j) PROVE Honest'
  <2>1. /\ paid' = IF j[2] \in Keys THEN [paid EXCEPT ![j] = @ + 1] ELSE paid
        /\ outcome' = outcome \/ \E answer \in {"ok", "failed"} : outcome' = [outcome EXCEPT ![j] = answer]
        /\ UNCHANGED <<hits, answers>>
    BY <1>6 DEF Attempt, batch
  <2>2. \A i \in Runs \X Keys : /\ paid[i] \in Nat /\ i \in Jobs /\ i[2] \in Keys
                                /\ paid'[i] = IF i = j THEN paid[i] + 1 ELSE paid[i]
    BY <1>0, <2>1, KeysAreJobs DEF Shape
  <2>3. \A i \in Runs \X Keys : i # j => outcome'[i] = outcome[i]
    BY <1>0, <2>1, KeysAreJobs DEF Shape
  <2>4. ASSUME NEW i \in Runs \X Keys
        PROVE  /\ outcome'[i] # "none" => paid'[i] > 0
               /\ answers[i[1]][i[2]] = "failed" => paid'[i] > 0
    BY <1>0, <2>2, <2>3 DEF Honest
  <2> QED BY <1>0, <2>1, <2>4 DEF Honest
<1>7. CASE UNCHANGED <<hits, answers, outcome, paid>> BY <1>0, <1>7 DEF Honest
<1> QED BY <1>1, <1>4, <1>5, <1>6, <1>7
        DEF Next, Start, StartChecks, Confirm, Lookup, Cancel, End, TakeCheck, TakeTotal,
            TakeTool, Unwind, Tick, Over, vars, batch, calls

LEMMA CachedStep == RInv /\ [Next]_vars => Cached'
<1> SUFFICES ASSUME RInv, [Next]_vars PROVE Cached'
  OBVIOUS
<1>1. ASSUME NEW r \in Runs, Look(r) PROVE Cached'
  <2>1. PICK asked \in Batches(Keys) : shared' = Touched(Only(asked, Wanted(r, asked)))
    BY <1>1 DEF Look
  <2>2. born' = born BY <1>1 DEF Look
  <2>3. asked \in Seq(Keys) /\ IsInjective(asked) BY BatchIs
  <2> DEFINE looked == Only(asked, Wanted(r, asked))
  <2>4. looked \in Seq(Keys) /\ IsInjective(looked) BY <2>3, OnlyHolds, OnlyInjective
  <2> HIDE DEF looked
  <2>5. CacheOK(Touched(looked), born) BY <2>4, TouchedKeeps DEF RInv, Cached
  <2>6. shared' = Touched(looked) BY <2>1 DEF looked
  <2> QED BY <2>2, <2>5, <2>6 DEF RInv, Cached
<1>2. ASSUME NEW r \in Runs, Finish(r) PROVE Cached'
  <2>1. Put(r) BY <1>2 DEF Finish
  <2>2. now \in Nat /\ work[r] \in Seq(Items) /\ IsInjective(work[r])
    BY CapacityAssumption DEF RInv, Bounds, Asks
  <2> QED BY <2>1, <2>2, PutKeeps DEF RInv, Cached
<1>3. CASE UNCHANGED <<shared, born>> BY <1>3 DEF RInv, Cached
<1> QED BY <1>1, <1>2, <1>3
        DEF Next, Start, StartChecks, Confirm, Lookup, Judged, Cancel, Gone, End, TakeCheck,
            TakeTotal, TakeTool, Attempt, Unwind, Tick, Over, vars, cache

LEMMA InitRInv == Init => RInv
<1> SUFFICES ASSUME Init PROVE RInv
  OBVIOUS
<1>1. Bounds BY CapacityAssumption DEF Init, Bounds
<1>2. Asks BY DEF Init, Asks, IsInjective
<1>3. Lines BY CapacityAssumption DEF Init, Lines
<1>4. Honest BY KeysAreJobs DEF Init, Honest, NoHits, Told
<1>5. Cached
  <2>1. shared = <<>> /\ born = [k \in Keys |-> 0] BY DEF Init
  <2>2. shared \in Seq(Good) /\ Len(shared) = 0 /\ Range(shared) = {} /\ KeyedOnce(shared)
    BY <2>1 DEF Range, KeyedOnce
  <2> QED BY <2>1, <2>2, CapacityAssumption DEF Cached, CacheOK
<1> QED BY <1>1, <1>2, <1>3, <1>4, <1>5 DEF RInv

LEMMA RInvStep == IInv /\ RInv /\ [Next]_vars => RInv'
BY BoundsStep, AsksStep, LinesStep, HonestStep, CachedStep DEF RInv

LEMMA RInductive == Spec => [](IInv /\ RInv)
BY InitIInv, NextKeeps, InitRInv, RInvStep, PTL DEF Spec

(* The caches hang together for any number of runs and tools: the shared    *)
(* one never outgrows its bound and never holds a key twice, and no run     *)
(* is told of a failure that it did not pay for itself.                     *)
THEOREM RuntimeSafe == Spec => []RuntimeInv
<1>1. ASSUME IInv, RInv PROVE RuntimeInv
  <2>1. shared \in Seq(Entry)
    <3>1. Good \subseteq Entry BY DEF Good, Entry
    <3> QED BY <1>1, <3>1, SeqMonotonic DEF RInv, Cached, CacheOK
  <2>2. hits \in [Runs -> [Keys -> Told]] /\ NoInheritedFailure
    <3>1. \A r \in Runs, k \in Keys : <<r, k>> \in Runs \X Keys OBVIOUS
    <3> QED BY <1>1, <3>1 DEF RInv, Honest, Told, NoInheritedFailure
  <2>3. Len(shared) <= MaxEntries /\ \A i, k \in DOMAIN shared : shared[i].key = shared[k].key => i = k
    BY <1>1 DEF RInv, Cached, CacheOK, KeyedOnce
  <2>4. TypeOK
    BY <1>1, <2>1, <2>2, <2>3
       DEF TypeOK, IInv, Shape, RInv, Bounds, Asks, Lines, Honest, Cached
  <2> QED BY <2>2, <2>4 DEF RuntimeInv
<1> QED BY <1>1, RInductive, PTL

(* What a run takes from the shared cache is younger than its TTL, however  *)
(* often other runs used it meanwhile.                                      *)
Served ==
    \A r \in Runs, k \in Keys :
        \/ hits[r][k] = "none" /\ hits'[r][k] # "none"
        \/ phase[r] = "idle" /\ answers[r][k] # answers'[r][k]
        => now - born[k] < Ttl[ToolOf[k]]

LEMMA LiveIsYoung ==
    ASSUME RInv, NEW k \in Keys, k \in LiveKeys
    PROVE  now - born[k] < Ttl[ToolOf[k]]
<1>1. PICK e \in Range(shared) : e.expires > now /\ e.key = k BY DEF LiveKeys, Live
<1>2. e \in Good BY RangeInside DEF RInv, Cached, CacheOK
<1>3. e.expires \in Int /\ e.expires <= born[k] + Ttl[ToolOf[k]]
  BY <1>1, <1>2, GoodIs DEF RInv, Cached, CacheOK
<1>4. now \in Int /\ born[k] \in Int /\ Ttl[ToolOf[k]] \in Int
  BY ItemsAssumption, CapacityAssumption DEF RInv, Bounds, Cached, Items
<1> QED BY <1>1, <1>3, <1>4

LEMMA ServedStep == IInv /\ RInv /\ [Next]_vars => [Served]_vars
<1> SUFFICES ASSUME IInv, RInv, Next PROVE Served
  OBVIOUS
<1>0. Shape /\ Honest /\ Cached BY DEF IInv, RInv
<1>1. ASSUME NEW r \in Runs, NEW k \in Keys, NEW q \in Runs, Look(q),
             \/ hits[r][k] = "none" /\ hits'[r][k] # "none"
             \/ phase[r] = "idle" /\ answers[r][k] # answers'[r][k]
      PROVE  k \in LiveKeys
  <2>1. PICK asked \in Batches(Keys) :
          \/ answers' = [answers EXCEPT ![q] = Learned(@, Found(Wanted(q, asked)))] /\ hits' = hits
          \/ hits' = [hits EXCEPT ![q] = Found(Wanted(q, asked))] /\ answers' = answers
    BY <1>1 DEF Look
  <2> DEFINE found == Found(Wanted(q, asked))
  <2>2. found \in [Keys -> {"none", "ok"}] /\ \A i \in Keys : found[i] # "none" => i \in LiveKeys
    BY <1>0, FoundIs
  <2>3. \/ answers' = [answers EXCEPT ![q] = Learned(@, found)] /\ hits' = hits
        \/ hits' = [hits EXCEPT ![q] = found] /\ answers' = answers
    BY <2>1
  <2> HIDE DEF found
  <2>4. answers[q] \in [Keys -> Told] /\ found \in [Keys -> Told] BY <1>0, <2>2 DEF Honest, Told
  <2>5. found[k] = "none" => Learned(answers[q], found)[k] = answers[q][k] BY <2>4, LearnedIs
  <2>6. found[k] # "none" BY <1>0, <1>1, <2>3, <2>5 DEF Honest
  <2> QED BY <2>2, <2>6
<1>2. ASSUME NEW r \in Runs, NEW k \in Keys, ~\E q \in Runs : Look(q)
      PROVE  /\ hits'[r][k] # "none" => hits'[r][k] = hits[r][k]
             /\ phase[r] = "idle" => answers'[r][k] = answers[r][k]
  <2>1. CASE UNCHANGED <<hits, answers>> BY <2>1
  <2>2. ASSUME NEW q \in Runs, Finish(q) \/ Gone(q)
        PROVE  /\ hits'[r][k] # "none" => hits'[r][k] = hits[r][k]
               /\ phase[r] = "idle" => answers'[r][k] = answers[r][k]
    <3>1. /\ hits' = [hits EXCEPT ![q] = NoHits] /\ phase[q] # "idle"
          /\ answers' = answers \/ \E new : answers' = [answers EXCEPT ![q] = new]
      BY <2>2 DEF Finish, Gone
    <3>2. NoHits[k] = "none" BY DEF NoHits
    <3> QED BY <1>0, <3>1, <3>2 DEF Honest
  <2>3. UNCHANGED <<hits, answers>> \/ \E q \in Runs : Finish(q) \/ Gone(q)
    BY <1>2 DEF Next, Start, StartChecks, Confirm, Lookup, Judged, Cancel, End, TakeCheck,
            TakeTotal, TakeTool, Attempt, Unwind, Tick, Over, vars, batch
  <2> QED BY <2>1, <2>2, <2>3
<1>3. ASSUME NEW r \in Runs, NEW k \in Keys,
             \/ hits[r][k] = "none" /\ hits'[r][k] # "none"
             \/ phase[r] = "idle" /\ answers[r][k] # answers'[r][k]
      PROVE  now - born[k] < Ttl[ToolOf[k]]
  <2>1. k \in LiveKeys BY <1>1, <1>2, <1>3
  <2> QED BY <2>1, LiveIsYoung DEF RInv
<1> QED BY <1>3 DEF Served

THEOREM ServedSafe == Spec => ServedWithinTtl
BY ServedStep, RInductive, PTL DEF Spec, ServedWithinTtl, Served
=============================================================================

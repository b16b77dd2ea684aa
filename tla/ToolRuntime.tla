---------------------------- MODULE ToolRuntime ----------------------------
(***************************************************************************)
(* The tools as the planning runs of one worker share them: the batches of *)
(* run_tools and the mandatory lookup (agent/orchestrator.py), the         *)
(* measurement of transfers (agent/transfers.py), the capacity limiter and *)
(* the retries (tools/registry.py) and the shared result cache             *)
(* (tools/cache.py).                                                       *)
(*                                                                         *)
(* An item is what one upstream request asks for: a normalised tool call   *)
(* (Keys), a transfer to measure (Hops) or the weather gate's own lookup   *)
(* (Gate).  Its answer is abstracted to whether it is usable.              *)
(***************************************************************************)
EXTENDS Integers, FiniteSets, SequencesExt, Lists

CONSTANTS
    Runs, Keys, Hops, Gate, Tools,
    ToolOf,               \* the tool an item is asked of
    Limit,                \* TOOL_CONCURRENCY_LIMITS
    Ttl,                  \* SHARED_CACHE_TTLS
    MaxParallelTools,     \* MAX_PARALLEL_TOOLS
    MaxToolAttempts,      \* MAX_TOOL_ATTEMPTS
    MaxParallelTransferChecks, \* MAX_PARALLEL_TRANSFER_CHECKS
    MaxEntries,           \* the shared cache's max_entries
    Turns,                \* bound: batches, measurements and lookups of one run
    MaxBatch,             \* bound: calls of one turn
    Horizon               \* bound: the last instant of the clock

Items == Keys \cup Hops \cup {Gate}
Jobs == Runs \X Items

ASSUME ItemsAssumption ==
    /\ IsFiniteSet(Runs) /\ IsFiniteSet(Items)
    /\ Keys \cap Hops = {} /\ Gate \notin Keys \cup Hops
    /\ ToolOf \in [Items -> Tools]
ASSUME CapacityAssumption ==
    /\ MaxParallelTools \in Nat \ {0}
    /\ Limit \in [Tools -> Nat \ {0}]
    /\ MaxParallelTransferChecks \in Nat \ {0}
    /\ MaxToolAttempts \in Nat \ {0}
    /\ Ttl \in [Tools -> Nat] /\ MaxEntries \in Nat
    /\ Turns \in Nat /\ MaxBatch \in Nat /\ Horizon \in Nat

VARIABLES
    now,
    phase,       \* per run, where it stands
    turns,       \* per run, batches, measurements and lookups begun
    work,        \* per run, the items its present batch asks upstream, in order
    hits,        \* per run and key, what the shared cache told its present batch
    answers,     \* per run and key, what its tool_cache replays
    stage,       \* per job, how far its call has come
    tried,       \* per job, attempts its call has made
    outcome,     \* per job, how its last call ended
    checking,    \* per run, permits of confirm_transfers' own limiter
    totalFree, toolFree,          \* permits of the worker's semaphores
    checkLine, totalLine, toolLine, \* who waits for a permit, in order
    shared,      \* the shared cache, least recently used first
    paid,        \* history: attempts made upstream, per run and key
    born         \* history: per key, when its shared answer was put

queues == <<checkLine, totalLine, toolLine>>
permits == <<checking, totalFree, toolFree>>
calls == <<stage, tried, outcome, paid>>
batch == <<work, hits, answers>>
cache == <<shared, born>>
vars == <<now, phase, turns, batch, calls, permits, queues, cache>>

Stages == {"none", "asked", "checks", "total", "tool", "calling", "bare", "done"}
Upstream(s) == s \in {"calling", "bare"}
Phases == {"idle", "session", "batch", "measure_session", "measure", "gate", "cancelled", "over"}
Tool(j) == ToolOf[j[2]]
Told == {"none", "ok", "failed"}
NoHits == [k \in Keys |-> "none"]
Batches(items) == {s \in UNION {[1 .. n -> items] : n \in 1 .. MaxBatch} : IsInjective(s)}
-----------------------------------------------------------------------------
Init ==
    /\ now = 0
    /\ phase = [r \in Runs |-> "idle"] /\ turns = [r \in Runs |-> 0]
    /\ work = [r \in Runs |-> <<>>] /\ hits = [r \in Runs |-> NoHits]
    /\ answers = [r \in Runs |-> [k \in Keys |-> "none"]]
    /\ stage = [j \in Jobs |-> "none"] /\ tried = [j \in Jobs |-> 0]
    /\ outcome = [j \in Jobs |-> "none"] /\ paid = [j \in Runs \X Keys |-> 0]
    /\ checking = [r \in Runs |-> MaxParallelTransferChecks]
    /\ totalFree = MaxParallelTools /\ toolFree = Limit
    /\ checkLine = [r \in Runs |-> <<>>] /\ totalLine = <<>>
    /\ toolLine = [t \in Tools |-> <<>>]
    /\ shared = <<>> /\ born = [k \in Keys |-> 0]

Entry == [key : Keys, answer : {"ok", "failed"}, expires : Int]

Live_Expired == Range(shared)

Live == {e \in Range(shared) : e.expires > now}
LiveKeys == {e.key : e \in Live}

(* What `get` returns for each key of a batch.                             *)
Found(wanted) ==
    [k \in Keys |-> IF k \in wanted \cap LiveKeys
                       THEN (CHOOSE e \in Live : e.key = k).answer ELSE "none"]

(* Each key looked up leaves the cache when it has expired and moves to    *)
(* its recent end when it has not.                                         *)
Touched(looked) ==
    LET live == Only(looked, LiveKeys)
    IN  Only(shared, {e \in Range(shared) : e.key \notin Range(looked)})
            \o [i \in 1 .. Len(live) |-> CHOOSE e \in Live : e.key = live[i]]

(* Put the usable answers in order, then drop from the front what no       *)
(* longer fits.                                                            *)
Usable_Any(r, k) == outcome[<<r, k>>] # "none"

Usable(r, k) == outcome[<<r, k>>] = "ok"

Trimmed(entries) ==
    SubSeq(entries, IF Len(entries) > MaxEntries THEN Len(entries) - MaxEntries + 1 ELSE 1,
           Len(entries))

Put(r) ==
    LET good == Only(work[r], {k \in Keys : Usable(r, k) /\ Ttl[ToolOf[k]] > 0})
        kept == Only(shared, {e \in Range(shared) : e.key \notin Range(good)})
        put == [i \in 1 .. Len(good) |-> [key |-> good[i], answer |-> outcome[<<r, good[i]>>],
                                           expires |-> now + Ttl[ToolOf[good[i]]]]]
    IN  /\ shared' = Trimmed(kept \o put)
        /\ born' = [k \in Keys |-> IF k \in Range(good) THEN now ELSE born[k]]

-----------------------------------------------------------------------------
(* run_tools up to its first await: what the run's own cache answers is    *)
(* not asked again, what the shared cache answers is kept for the end.     *)
Wanted_NotFailures(r, asked) == {k \in Range(asked) : answers[r][k] # "ok"}

Wanted(r, asked) == {k \in Range(asked) : answers[r][k] = "none"}

(* What a run's cache holds once it was told more.                         *)
Learned(known, told) == [k \in Keys |-> IF told[k] # "none" THEN told[k] ELSE known[k]]

Look(r) ==
    /\ phase[r] = "idle" /\ turns[r] < Turns
    /\ turns' = [turns EXCEPT ![r] = @ + 1]
    /\ \E asked \in Batches(Keys) :
          LET wanted == Wanted(r, asked)
              found == Found(wanted)
              fresh == {k \in wanted : found[k] = "none"}
          IN  /\ shared' = Touched(Only(asked, wanted))
              /\ \/ /\ fresh = {}
                    /\ answers' = [answers EXCEPT ![r] = Learned(@, found)]
                    /\ UNCHANGED <<phase, work, hits, stage>>
                 \/ /\ fresh # {}
                    /\ work' = [work EXCEPT ![r] = Only(asked, fresh)]
                    /\ stage' = [j \in Jobs |->
                          IF j[1] = r /\ j[2] \in fresh THEN "asked" ELSE stage[j]]
                    /\ hits' = [hits EXCEPT ![r] = found]
                    /\ phase' = [phase EXCEPT ![r] = "session"]
                    /\ UNCHANGED answers
    /\ UNCHANGED <<now, tried, outcome, paid, permits, queues, born>>

(* The batch's calls start once its research session stands; each joins    *)
(* the line for a permit of the worker.                                    *)
Opened(r, at) ==
    stage' = [j \in Jobs |-> IF j[1] = r /\ stage[j] = "asked" THEN at ELSE stage[j]]

Line(r) == [i \in 1 .. Len(work[r]) |-> <<r, work[r][i]>>]

Start(r) ==
    /\ phase[r] = "session"
    /\ phase' = [phase EXCEPT ![r] = "batch"]
    /\ Opened(r, "total")
    /\ totalLine' = totalLine \o Line(r)
    /\ UNCHANGED <<now, turns, batch, tried, outcome, paid, permits, checkLine, toolLine, cache>>

(* confirm_transfers: at most MAX_TRANSFER_CHECKS hops whose departure     *)
(* offsets could be resolved are measured together.                        *)
Confirm(r) ==
    /\ phase[r] = "idle" /\ turns[r] < Turns
    /\ turns' = [turns EXCEPT ![r] = @ + 1]
    /\ \E hops \in Batches(Hops) :
          /\ work' = [work EXCEPT ![r] = hops]
          /\ stage' = [j \in Jobs |->
                IF j[1] = r /\ j[2] \in Range(hops) THEN "asked" ELSE stage[j]]
    /\ phase' = [phase EXCEPT ![r] = "measure_session"]
    /\ UNCHANGED <<now, hits, answers, tried, outcome, paid, permits, queues, cache>>

StartChecks(r) ==
    /\ phase[r] = "measure_session"
    /\ phase' = [phase EXCEPT ![r] = "measure"]
    /\ Opened(r, "checks")
    /\ checkLine' = [checkLine EXCEPT ![r] = Line(r)]
    /\ UNCHANGED <<now, turns, batch, tried, outcome, paid, permits, totalLine, toolLine, cache>>

(* ensure_weather calls the tool itself.                                   *)
Lookup(r) ==
    /\ phase[r] = "idle" /\ turns[r] < Turns
    /\ turns' = [turns EXCEPT ![r] = @ + 1]
    /\ phase' = [phase EXCEPT ![r] = "gate"]
    /\ stage' = [stage EXCEPT ![<<r, Gate>>] = "bare"]
    /\ tried' = [tried EXCEPT ![<<r, Gate>>] = 0]
    /\ UNCHANGED <<now, batch, outcome, paid, permits, queues, cache>>

-----------------------------------------------------------------------------
(* A permit goes to whoever has waited for it longest.                     *)
First(line, j) == line # <<>> /\ Head(line) = j

TakeCheck(j) ==
    /\ stage[j] = "checks" /\ phase[j[1]] # "cancelled"
    /\ checking[j[1]] > 0 /\ First(checkLine[j[1]], j)
    /\ checking' = [checking EXCEPT ![j[1]] = @ - 1]
    /\ checkLine' = [checkLine EXCEPT ![j[1]] = Tail(@)]
    /\ totalLine' = Append(totalLine, j)
    /\ stage' = [stage EXCEPT ![j] = "total"]
    /\ UNCHANGED <<now, phase, turns, batch, tried, outcome, paid, totalFree, toolFree,
                   toolLine, cache>>

TakeTotal(j) ==
    /\ stage[j] = "total" /\ phase[j[1]] # "cancelled"
    /\ totalFree > 0 /\ First(totalLine, j)
    /\ totalFree' = totalFree - 1
    /\ totalLine' = Tail(totalLine)
    /\ toolLine' = [toolLine EXCEPT ![Tool(j)] = Append(@, j)]
    /\ stage' = [stage EXCEPT ![j] = "tool"]
    /\ UNCHANGED <<now, phase, turns, batch, tried, outcome, paid, checking, toolFree,
                   checkLine, cache>>

Permit_Unasked(t) == TRUE

Permit(t) == toolFree[t] > 0

TakeTool(j) ==
    /\ stage[j] = "tool" /\ phase[j[1]] # "cancelled"
    /\ Permit(Tool(j)) /\ First(toolLine[Tool(j)], j)
    /\ toolFree' = [toolFree EXCEPT ![Tool(j)] = @ - 1]
    /\ toolLine' = [toolLine EXCEPT ![Tool(j)] = Tail(@)]
    /\ stage' = [stage EXCEPT ![j] = "calling"]
    /\ tried' = [tried EXCEPT ![j] = 0]
    /\ UNCHANGED <<now, phase, turns, batch, outcome, paid, checking, totalFree,
                   checkLine, totalLine, cache>>

HoldsTotal_Calling(s) == s = "calling"

HoldsTotal(s) == s \in {"tool", "calling"}

LeftLine_Kept(line, j) == line

LeftLine(line, j) == Only(line, Jobs \ {j})

(* Leaving `async with`, by an answer or by a cancellation: the permits    *)
(* held are given back, a place in a line is given up.                     *)
Release(j) ==
    /\ totalFree' = IF HoldsTotal(stage[j]) THEN totalFree + 1 ELSE totalFree
    /\ toolFree' = [toolFree EXCEPT ![Tool(j)] = IF stage[j] = "calling" THEN @ + 1 ELSE @]
    /\ checking' = [checking EXCEPT ![j[1]] =
          IF j[2] \in Hops /\ stage[j] \in {"total", "tool", "calling"} THEN @ + 1 ELSE @]
    /\ checkLine' = [checkLine EXCEPT ![j[1]] = LeftLine(@, j)]
    /\ totalLine' = LeftLine(totalLine, j)
    /\ toolLine' = [toolLine EXCEPT ![Tool(j)] = LeftLine(@, j)]

(* One attempt of call_tool: answered, refused, or a transient failure     *)
(* that is tried again while attempts are left.                            *)
Retried(j) == tried[j] + 1 < MaxToolAttempts

Attempt(j) ==
    /\ Upstream(stage[j]) /\ phase[j[1]] # "cancelled"
    /\ paid' = IF j[2] \in Keys THEN [paid EXCEPT ![j] = @ + 1] ELSE paid
    /\ \/ /\ Retried(j)
          /\ tried' = [tried EXCEPT ![j] = @ + 1]
          /\ UNCHANGED <<stage, outcome, permits, queues>>
       \/ \E answer \in {"ok", "failed"} :
             /\ outcome' = [outcome EXCEPT ![j] = answer]
             /\ stage' = [stage EXCEPT ![j] = "done"]
             /\ Release(j)
             /\ UNCHANGED tried
    /\ UNCHANGED <<now, phase, turns, batch, cache>>

-----------------------------------------------------------------------------
(* All calls of a batch answered: run_tools shares the usable ones and     *)
(* remembers every answer; confirm_transfers and the gate keep nothing.    *)
AllDone(r) == \A j \in Jobs : j[1] = r => stage[j] \in {"none", "done"}

Cleared(r) ==
    /\ stage' = [j \in Jobs |-> IF j[1] = r THEN "none" ELSE stage[j]]
    /\ tried' = [j \in Jobs |-> IF j[1] = r THEN 0 ELSE tried[j]]
    /\ outcome' = [j \in Jobs |-> IF j[1] = r THEN "none" ELSE outcome[j]]

Finish(r) ==
    /\ phase[r] = "batch" /\ AllDone(r)
    /\ Put(r)
    /\ answers' = [answers EXCEPT ![r] =
          Learned(Learned(@, hits[r]), [k \in Keys |-> outcome[<<r, k>>]])]
    /\ phase' = [phase EXCEPT ![r] = "idle"]
    /\ work' = [work EXCEPT ![r] = <<>>] /\ hits' = [hits EXCEPT ![r] = NoHits]
    /\ Cleared(r)
    /\ UNCHANGED <<now, turns, paid, permits, queues>>

Judged(r) ==
    /\ phase[r] \in {"measure", "gate"} /\ AllDone(r)
    /\ phase' = [phase EXCEPT ![r] = "idle"]
    /\ work' = [work EXCEPT ![r] = <<>>]
    /\ Cleared(r)
    /\ UNCHANGED <<now, turns, hits, answers, paid, permits, queues, cache>>

(* The caller went away: the run's task is cancelled and each of its calls *)
(* unwinds.                                                                *)
Cancel(r) ==
    /\ phase[r] \notin {"cancelled", "over"}
    /\ phase' = [phase EXCEPT ![r] = "cancelled"]
    /\ UNCHANGED <<now, turns, batch, calls, permits, queues, cache>>

Unwind(j) ==
    /\ phase[j[1]] = "cancelled" /\ stage[j] \notin {"none", "done"}
    /\ stage' = [stage EXCEPT ![j] = "done"]
    /\ Release(j)
    /\ UNCHANGED <<now, phase, turns, batch, tried, outcome, paid, cache>>

Gone(r) ==
    /\ phase[r] = "cancelled" /\ AllDone(r)
    /\ phase' = [phase EXCEPT ![r] = "over"]
    /\ work' = [work EXCEPT ![r] = <<>>] /\ hits' = [hits EXCEPT ![r] = NoHits]
    /\ Cleared(r)
    /\ UNCHANGED <<now, turns, answers, paid, permits, queues, cache>>

End(r) ==
    /\ phase[r] = "idle"
    /\ phase' = [phase EXCEPT ![r] = "over"]
    /\ UNCHANGED <<now, turns, batch, calls, permits, queues, cache>>

Over == (\A r \in Runs : phase[r] = "over") /\ UNCHANGED vars

Tick ==
    /\ now < Horizon
    /\ now' = now + 1
    /\ UNCHANGED <<phase, turns, batch, calls, permits, queues, cache>>

Advance(r) == Start(r) \/ StartChecks(r) \/ Finish(r) \/ Judged(r) \/ Gone(r)
Serve(j) == TakeCheck(j) \/ TakeTotal(j) \/ TakeTool(j) \/ Attempt(j) \/ Unwind(j)

Next ==
    \/ \E r \in Runs : \/ Look(r) \/ Start(r) \/ Confirm(r) \/ StartChecks(r) \/ Lookup(r)
                       \/ Finish(r) \/ Judged(r) \/ Cancel(r) \/ Gone(r) \/ End(r)
    \/ \E j \in Jobs : \/ TakeCheck(j) \/ TakeTotal(j) \/ TakeTool(j) \/ Attempt(j) \/ Unwind(j)
    \/ Tick \/ Over

(* Every upstream request has a timeout and the event loop runs every task *)
(* that is ready; nobody is obliged to begin a batch.                      *)
Spec == /\ Init /\ [][Next]_vars
        /\ \A r \in Runs : WF_vars(Advance(r))
        /\ \A j \in Jobs : WF_vars(Serve(j))
-----------------------------------------------------------------------------
(* The caches hang together: the types; the shared one holds a key once    *)
(* and never outgrows its bound; and "one timeout must not make the next   *)
(* traveller inherit an outage": a run is told of a failure only if it     *)
(* made the call itself.                                                   *)
TypeOK ==
    /\ now \in 0 .. Horizon
    /\ phase \in [Runs -> Phases] /\ turns \in [Runs -> 0 .. Turns]
    /\ \A r \in Runs : work[r] \in Seq(Items)
    /\ hits \in [Runs -> [Keys -> Told]] /\ answers \in [Runs -> [Keys -> Told]]
    /\ stage \in [Jobs -> Stages] /\ tried \in [Jobs -> Nat]
    /\ outcome \in [Jobs -> Told]
    /\ checking \in [Runs -> Nat] /\ totalFree \in Nat /\ toolFree \in [Tools -> Nat]
    /\ totalLine \in Seq(Jobs)
    /\ \A r \in Runs : checkLine[r] \in Seq(Jobs)
    /\ \A t \in Tools : toolLine[t] \in Seq(Jobs)
    /\ shared \in Seq(Entry) /\ Len(shared) <= MaxEntries
    /\ \A i, j \in DOMAIN shared : shared[i].key = shared[j].key => i = j
    /\ paid \in [Runs \X Keys -> Nat] /\ born \in [Keys -> Nat]
NoInheritedFailure ==
    \A r \in Runs, k \in Keys : answers[r][k] = "failed" => paid[<<r, k>>] > 0
RuntimeInv == TypeOK /\ NoInheritedFailure

HoldTotal == {j \in Jobs : stage[j] \in {"tool", "calling"}}
HoldTool(t) == {j \in Jobs : Tool(j) = t /\ stage[j] = "calling"}

(* `async with total, per_tool`: a permit is free or held by exactly one   *)
(* call, whatever was cancelled while it waited or called.                 *)
PermitsHeld ==
    /\ totalFree + Cardinality(HoldTotal) = MaxParallelTools
    /\ \A t \in Tools : toolFree[t] + Cardinality(HoldTool(t)) = Limit[t]

(* The calls made under tool_capacity are those of a pool with the         *)
(* advertised ceilings, across all runs of the worker.                     *)
Calling == {j \in Jobs : stage[j] = "calling"}
UsersOf == [t \in Tools |-> {j \in Jobs : Tool(j) = t}]
Pool == INSTANCE ToolPool WITH
            Total <- MaxParallelTools, Users <- UsersOf, busy <- Calling
PoolSpec == Pool!Spec

(* "Collapse duplicates", "failures are replayed only inside the current   *)
(* run": through all its batches a run pays for at most one call, with its *)
(* one retry, of each key.                                                 *)
PaidOnce == \A j \in Runs \X Keys : paid[j] <= MaxToolAttempts

(* What a run takes from the shared cache was put there less than its TTL  *)
(* ago: being used does not renew an entry.                                *)
ServedWithinTtl ==
    [][\A r \in Runs, k \in Keys :
          \/ hits[r][k] = "none" /\ hits'[r][k] # "none"
          \/ phase[r] = "idle" /\ answers[r][k] # answers'[r][k]
          => now - born[k] < Ttl[ToolOf[k]]]_vars

(* No run waits for ever: a batch, a measurement or a lookup that began    *)
(* comes to an end, also when other runs are cancelled holding permits.    *)
Progress ==
    \A r \in Runs : phase[r] \notin {"idle", "over"} ~> phase[r] \in {"idle", "over"}
=============================================================================

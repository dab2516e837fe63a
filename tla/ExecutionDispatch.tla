------------------------- MODULE ExecutionDispatch -------------------------
(***************************************************************************)
(* How a trade intent travels from the trading engine (a durable object)   *)
(* to the exchange: the engine's rate limiter, the stored queue of         *)
(* deferred intents, the one alarm that drains it, the storage write guard *)
(* that skips writes after a failure, and the stateless execution worker   *)
(* with one in-memory idempotency ledger per isolate.                      *)
(*                                                                         *)
(* Time is relative: every deadline is the number of ticks left, 0 once it *)
(* has passed, so behaviours have no horizon.  A tick is the time in which *)
(* the token bucket gains one token.                                       *)
(***************************************************************************)
EXTENDS Integers, Sequences, FiniteSets, SequencesExt

CONSTANTS
  Intents,             \* the intents the engine may emit, each once
  Isolates,            \* isolates of the execution worker
  Capacity,            \* of the engine's token bucket
  Cap,                 \* CONFIG_ALARM_INTERVAL_MS: the alarm cadence
  QueueLimit,          \* DEFAULT_MAX_QUEUE_SIZE
  Ttl,                 \* lifetime of a ledger entry
  Backoff,             \* how long the write guard skips writes
  MaxBatch,            \* bound: dispatches scheduled by one engine turn
  MaxStorageFailures,  \* bound: storage operations that fail
  MaxCrashes           \* bound: evictions of the engine or of an isolate

ASSUME DispatchAssumption ==
  /\ Capacity \in Nat \ {0} /\ Cap \in Nat \ {0} /\ QueueLimit \in Nat
  /\ Ttl \in Nat \ {0} /\ Backoff \in Nat \ {0} /\ MaxBatch \in Nat \ {0}
  /\ MaxStorageFailures \in Nat /\ MaxCrashes \in Nat

VARIABLES
  queue,       \* stored: deferred intents, [intent, wait], soonest first
  alarm,       \* stored: ticks to the next wake-up, or None
  backoff,     \* memory: ticks for which the guard still skips writes
  tokens,      \* memory: the engine's token bucket
  enabled,     \* memory: the dispatch gate of the cached configuration
  handler,     \* memory: the running alarm handler
  jobs,        \* requests the execution worker is serving
  ledger,      \* memory of an isolate: ticks left of a remembered answer
  sends,       \* deliveries of an intent to the execution worker
  orders,      \* orders of an intent placed on the exchange
  fate,        \* history: what became of an intent
  unsaved,     \* history: intents a drain took without storing the rest
  armLost,     \* history: the last alarm write was skipped
  failures,    \* storage failures so far
  crashes      \* evictions so far

engineVars == <<queue, alarm, backoff, tokens, enabled, handler>>
workerVars == <<jobs, ledger, sends, orders>>
historyVars == <<fate, unsaved, armLost, failures, crashes>>
vars == <<engineVars, workerVars, historyVars>>

None == -1
Idle == [pc |-> "idle", due |-> <<>>, wake |-> None, job |-> <<>>]

Lower(a, b) == IF a < b THEN a ELSE b
\* One tick off a countdown.
Down(t) == IF t > 0 THEN t - 1 ELSE t

Items(q) == {q[k].intent : k \in 1..Len(q)}
Jobs == {<<j.intent, j.n>> : j \in jobs}

-----------------------------------------------------------------------------
(* The queue. *)

\* The items of q whose wait is in W, in their order.
WithWait(q, W) ==
  LET kept[k \in 0..Len(q)] ==
        IF k = 0 THEN <<>>
        ELSE IF q[k].wait \in W THEN Append(kept[k - 1], q[k]) ELSE kept[k - 1]
  IN  kept[Len(q)]

\* compareExecutionQueueItems: every caller enqueues with priority NEW, so
\* the time decides; the sort is stable.
NotAfter(wait) == 0..wait

\* Mutant: the new intent replaces the queue.
ReplacingPlan(q, i, wait) == <<[intent |-> i, wait |-> wait]>>

\* buildExecutionQueueEnqueuePlan: append, sort, cut at the limit.
EnqueuePlan(q, i, wait) ==
  LET item    == [intent |-> i, wait |-> wait]
      earlier == WithWait(q, NotAfter(wait))
      later   == WithWait(q, Nat \ NotAfter(wait))
      sorted  == Append(earlier, item) \o later
  IN  SubSeq(sorted, 1, Lower(QueueLimit, Len(sorted)))

\* splitExecutionQueueForDrain
DueItems(q) == WithWait(q, {0})
PendingItems(q) == WithWait(q, Nat \ {0})
NextWake(q) == IF PendingItems(q) = <<>> THEN None
               ELSE Lower(PendingItems(q)[1].wait, Cap)

\* The intents the stored queue, the running drain or the worker holds.
Held(q, h, js) == Items(q) \cup Items(h.due) \cup {j.intent : j \in js}

\* The live intents of S that are no longer held are lost, for reason why.
Lose(S, why) ==
  fate' = [i \in Intents |->
             IF fate[i] = "live" /\ i \in S \ Held(queue', handler', jobs')
             THEN why ELSE fate[i]]

-----------------------------------------------------------------------------
(* StorageWriteGuard: a write is skipped silently while backoff > 0.  A    *)
(* write that fails is StorageFails followed by that skip; only the alarm  *)
(* write of an enqueue can fail after its queue write succeeded.           *)

Put(q) == queue' = IF backoff = 0 THEN q ELSE queue

SetAlarm(t) ==
  /\ alarm' = IF backoff = 0 THEN t ELSE alarm
  /\ armLost' = (backoff > 0)
  /\ UNCHANGED <<backoff, failures>>

SetAlarmFails ==
  /\ backoff = 0 /\ failures < MaxStorageFailures
  /\ failures' = failures + 1 /\ backoff' = Backoff
  /\ armLost' = TRUE /\ UNCHANGED alarm

\* recordFailure: any other write of the engine, or a read of the queue.
StorageFails ==
  /\ backoff = 0 /\ failures < MaxStorageFailures
  /\ failures' = failures + 1 /\ backoff' = Backoff
  /\ UNCHANGED <<queue, alarm, tokens, enabled, handler, workerVars,
                 fate, unsaved, armLost, crashes>>

-----------------------------------------------------------------------------
(* Dispatching. *)

\* Mutant: an intent needs a token to spare.
ReserveWithSpare == tokens > 1

\* RateLimiter.reserve: an intent costs one token.
Reserve == tokens >= 1

Job(i, s) == [intent |-> i, n |-> sends[i] + 1, iso |-> s, pc |-> "arrived"]

\* enqueueTradingExecutionIntent for the intents of a sequence that all read
\* the queue before the first of them wrote it: the last write stands.
Enqueue(denied) ==
  /\ Put(EnqueuePlan(queue, Last(denied), 1))
  /\ SetAlarm(Lower(1, Cap)) \/ SetAlarmFails

EnqueueLoss(denied) ==
  IF backoff > 0 THEN "unsaved"
  ELSE IF Last(denied) \notin Items(queue') THEN "cut" ELSE "overwritten"

\* dispatchTradeIntentSideEffects, for the dispatches one engine turn
\* schedules without awaiting them (child orders, shadow quotes): each
\* reserves a token; the ones denied go to the queue.
Emit(batch) ==
  LET served == Lower(tokens, Len(batch))
      sent   == SubSeq(batch, 1, served)
      denied == SubSeq(batch, served + 1, Len(batch))
  IN  /\ enabled
      /\ \A k \in 1..Len(batch) : fate[batch[k]] = "new"
      /\ tokens' = tokens - served
      /\ \E iso \in [1..served -> Isolates] :
           jobs' = jobs \cup {Job(sent[k], iso[k]) : k \in 1..served}
      /\ sends' = [i \in Intents |-> IF i \in ToSet(sent) THEN sends[i] + 1 ELSE sends[i]]
      /\ IF denied = <<>>
           THEN UNCHANGED <<queue, alarm, backoff, armLost, failures>>
           ELSE Enqueue(denied)
      /\ fate' = [i \in Intents |->
                    IF i \notin ToSet(batch) THEN fate[i]
                    ELSE IF i \in ToSet(sent) \/ i \in Items(queue') THEN "live"
                    ELSE EnqueueLoss(denied)]
      /\ UNCHANGED <<enabled, handler, ledger, orders, unsaved, crashes>>

\* The gate is closed: the intent is logged and dropped.
EmitBlocked(i) ==
  /\ ~ enabled /\ fate[i] = "new"
  /\ fate' = [fate EXCEPT ![i] = "blocked"]
  /\ UNCHANGED <<engineVars, workerVars, unsaved, armLost, failures, crashes>>

-----------------------------------------------------------------------------
(* The alarm handler: refreshConfig, drain, maintenance, next alarm. *)

AlarmFires ==
  /\ alarm = 0 /\ handler.pc = "idle"
  /\ alarm' = None
  /\ enabled' \in BOOLEAN
  /\ handler' = [Idle EXCEPT !.pc = "drain"]
  /\ UNCHANGED <<queue, backoff, tokens, workerVars, historyVars>>

\* Mutant: the queue is not stored before the due intents are dispatched.
DrainInMemory ==
  /\ handler.pc = "drain"
  /\ handler' = [handler EXCEPT !.pc = "dispatch", !.due = DueItems(queue),
                                !.wake = NextWake(queue)]
  /\ UNCHANGED <<queue, alarm, backoff, tokens, enabled, workerVars, historyVars>>

\* applyExecutionQueueDrainSideEffects up to the first dispatch: the queue
\* is stored without the due intents before any of them is dispatched.
Drain ==
  /\ handler.pc = "drain"
  /\ Put(PendingItems(queue))
  /\ handler' = [handler EXCEPT !.pc = "dispatch", !.due = DueItems(queue),
                                !.wake = NextWake(queue)]
  /\ unsaved' = IF backoff > 0 THEN unsaved \cup Items(DueItems(queue)) ELSE unsaved
  /\ UNCHANGED <<alarm, backoff, tokens, enabled, workerVars,
                 fate, armLost, failures, crashes>>

\* The next due intent; the previous one has been answered (or has failed).
Dispatch ==
  LET i    == handler.due[1].intent
      rest == [handler EXCEPT !.due = Tail(@)]
  IN  /\ handler.pc = "dispatch" /\ handler.due # <<>> /\ handler.job \notin Jobs
      /\ \/ /\ ~ enabled
            /\ handler' = rest
            /\ UNCHANGED <<queue, alarm, backoff, tokens, jobs, sends, armLost, failures>>
            /\ Lose({i}, "blocked")
         \/ /\ enabled /\ Reserve
            /\ tokens' = tokens - 1
            /\ \E s \in Isolates : jobs' = jobs \cup {Job(i, s)}
            /\ sends' = [sends EXCEPT ![i] = @ + 1]
            /\ handler' = [rest EXCEPT !.job = <<i, sends[i] + 1>>]
            /\ UNCHANGED <<queue, alarm, backoff, armLost, fate, failures>>
         \/ /\ enabled /\ ~ Reserve
            /\ handler' = rest
            /\ UNCHANGED <<tokens, jobs, sends>>
            /\ Enqueue(<<i>>)
            /\ Lose({i} \cup Items(queue), EnqueueLoss(<<i>>))
      /\ UNCHANGED <<enabled, ledger, orders, unsaved, crashes>>

\* The wake-up of the drain, if something is pending.
SetNextWake ==
  /\ handler.pc = "dispatch" /\ handler.due = <<>> /\ handler.job \notin Jobs
  /\ handler' = [Idle EXCEPT !.pc = "finish"]
  /\ IF handler.wake = None THEN UNCHANGED <<alarm, backoff, armLost, failures>>
                            ELSE SetAlarm(handler.wake)
  /\ UNCHANGED <<queue, tokens, enabled, workerVars, fate, unsaved, crashes>>

\* Mutant: nothing is queued, so no alarm is set.
FinishQuietly ==
  /\ handler.pc = "finish"
  /\ handler' = Idle
  /\ IF queue = <<>> THEN UNCHANGED <<alarm, backoff, armLost, failures>> ELSE SetAlarm(Cap)
  /\ UNCHANGED <<queue, tokens, enabled, workerVars, fate, unsaved, crashes>>

\* scheduleTradingConfigRefresh, after maintenance: one cadence from now,
\* whatever wake-up was set before.
Finish ==
  /\ handler.pc = "finish"
  /\ handler' = Idle
  /\ SetAlarm(Cap)
  /\ UNCHANGED <<queue, tokens, enabled, workerVars, fate, unsaved, crashes>>

\* The engine is evicted or its handler throws: memory is gone, requests it
\* sent go on.  Boot reads the token bucket an earlier write stored, and sets
\* the alarm one cadence ahead; an alarm that was due or running is retried.
EngineRestarts ==
  /\ crashes < MaxCrashes
  /\ crashes' = crashes + 1
  /\ handler' = Idle /\ backoff' = 0
  /\ tokens' \in tokens..Capacity
  /\ enabled' \in BOOLEAN
  /\ alarm' \in {Cap} \cup (IF alarm = 0 \/ handler.pc # "idle" THEN {0} ELSE {})
  /\ armLost' = FALSE
  /\ UNCHANGED <<queue, workerVars, unsaved, failures>>
  /\ Lose(Items(handler.due), "crashed")

-----------------------------------------------------------------------------
(* The execution worker. *)

Answer(j, remember) ==
  /\ jobs' = jobs \ {j}
  /\ ledger' = IF remember THEN [ledger EXCEPT ![j.iso][j.intent] = Ttl] ELSE ledger

Conclude(j) ==
  /\ Answer(j, TRUE)
  /\ fate' = [fate EXCEPT ![j.intent] = "done"]

\* evaluate found an answer of the same intent: it is returned again.
Replay(j) ==
  /\ j.pc = "arrived" /\ ledger[j.iso][j.intent] > 0
  /\ Answer(j, FALSE)
  /\ UNCHANGED <<engineVars, sends, orders, historyVars>>

\* The worker's own limiter: 429, not remembered.  The engine, which does
\* not look at the status of the answer, takes the intent as delivered.
RateLimited(j) ==
  /\ j.pc = "arrived" /\ ledger[j.iso][j.intent] = 0
  /\ Answer(j, FALSE)
  /\ UNCHANGED <<engineVars, sends, orders, unsaved, armLost, failures, crashes>>
  /\ Lose({j.intent}, "limited")

\* Past the ledger, the risk guards and the limiter: the order is prepared
\* and checked, which awaits other services.
Proceed(j) ==
  /\ j.pc = "arrived" /\ ledger[j.iso][j.intent] = 0
  /\ jobs' = (jobs \ {j}) \cup {[j EXCEPT !.pc = "working"]}
  /\ UNCHANGED <<engineVars, ledger, sends, orders, historyVars>>

\* A guard, the adapter or the transport refuses: a remembered answer.
Refuse(j) ==
  /\ j.pc = "arrived" => ledger[j.iso][j.intent] = 0
  /\ j.pc \in {"arrived", "working"}
  /\ Conclude(j)
  /\ UNCHANGED <<engineVars, sends, orders, unsaved, armLost, failures, crashes>>

\* The exchange accepts the order.
Place(j) ==
  /\ j.pc = "working"
  /\ orders' = [orders EXCEPT ![j.intent] = @ + 1]
  /\ jobs' = (jobs \ {j}) \cup {[j EXCEPT !.pc = "placed"]}
  /\ UNCHANGED <<engineVars, ledger, sends, historyVars>>

\* The exchange's answer, or the loss of it, reaches the worker.
Respond(j) ==
  /\ j.pc = "placed"
  /\ Conclude(j)
  /\ UNCHANGED <<engineVars, sends, orders, unsaved, armLost, failures, crashes>>

\* An isolate is evicted with its ledger and its requests.
IsolateEvicted(s) ==
  /\ crashes < MaxCrashes
  /\ crashes' = crashes + 1
  /\ jobs' = {j \in jobs : j.iso # s}
  /\ ledger' = [ledger EXCEPT ![s] = [i \in Intents |-> 0]]
  /\ UNCHANGED <<engineVars, sends, orders, unsaved, armLost, failures>>
  /\ Lose({j.intent : j \in jobs}, "evicted")

-----------------------------------------------------------------------------
Tick ==
  /\ queue' = [k \in 1..Len(queue) |-> [queue[k] EXCEPT !.wait = Down(@)]]
  /\ alarm' = Down(alarm) /\ backoff' = Down(backoff)
  /\ tokens' = Lower(tokens + 1, Capacity)
  /\ handler' = [handler EXCEPT !.wake = Down(@)]
  /\ ledger' = [s \in Isolates |-> [i \in Intents |-> Down(ledger[s][i])]]
  /\ UNCHANGED <<enabled, jobs, sends, orders, historyVars>>

\* After boot; the stored bucket may have been drained by earlier intents.
Init ==
  /\ queue = <<>> /\ alarm = Cap /\ backoff = 0 /\ tokens \in 0..Capacity
  /\ enabled \in BOOLEAN /\ handler = Idle
  /\ jobs = {} /\ ledger = [s \in Isolates |-> [i \in Intents |-> 0]]
  /\ sends = [i \in Intents |-> 0] /\ orders = [i \in Intents |-> 0]
  /\ fate = [i \in Intents |-> "new"] /\ unsaved = {} /\ armLost = FALSE
  /\ failures = 0 /\ crashes = 0

Batches == {b \in UNION {[1..n -> Intents] : n \in 1..MaxBatch} : IsInjective(b)}

HandlerStep == Drain \/ Dispatch \/ SetNextWake \/ Finish
JobStep(j) == Replay(j) \/ RateLimited(j) \/ Proceed(j) \/ Refuse(j) \/ Place(j) \/ Respond(j)

Next ==
  \/ \E b \in Batches : Emit(b)
  \/ \E i \in Intents : EmitBlocked(i)
  \/ AlarmFires \/ HandlerStep \/ EngineRestarts \/ StorageFails
  \/ \E j \in jobs : JobStep(j)
  \/ \E s \in Isolates : IsolateEvicted(s)
  \/ Tick

\* Time passes, a due alarm is delivered, the handler runs on, and the worker
\* answers every request: the platform's duties, not the program's.
Spec ==
  /\ Init /\ [][Next]_vars
  /\ WF_vars(Tick) /\ WF_vars(AlarmFires) /\ WF_vars(HandlerStep)
  /\ WF_vars(\E j \in jobs : JobStep(j))

-----------------------------------------------------------------------------
\* The types; the queue keeps to its limit.
Item == [intent : Intents, wait : {0, 1}]
Losses == {"blocked", "overwritten", "cut", "unsaved", "crashed", "limited", "evicted"}
Fates == {"new", "live", "done"} \cup Losses

TypeOK ==
  /\ queue \in Seq(Item) /\ Len(queue) <= QueueLimit
  /\ alarm \in None..Cap /\ backoff \in 0..Backoff /\ tokens \in 0..Capacity
  /\ enabled \in BOOLEAN
  /\ handler.pc \in {"idle", "drain", "dispatch", "finish"}
  /\ handler.due \in Seq(Item) /\ handler.wake \in None..Cap
  /\ \A j \in jobs : /\ j.intent \in Intents /\ j.iso \in Isolates
                     /\ j.n \in 1..sends[j.intent]
                     /\ j.pc \in {"arrived", "working", "placed"}
  /\ ledger \in [Isolates -> [Intents -> 0..Ttl]]
  /\ sends \in [Intents -> Nat] /\ orders \in [Intents -> Nat]
  /\ fate \in [Intents -> Fates]
  /\ unsaved \subseteq Intents /\ armLost \in BOOLEAN
  /\ failures \in 0..MaxStorageFailures /\ crashes \in 0..MaxCrashes

(***************************************************************************)
(* The ledger forgets on eviction and after its lifetime, and two          *)
(* deliveries may meet before either is remembered, so the exchange sees   *)
(* an intent once only because the engine delivers it once: storing the    *)
(* queue before dispatching (applyExecutionQueueDrainSideEffects) means a  *)
(* second order needs a drain whose queue write the guard skipped.         *)
(***************************************************************************)
SecondOrderNeedsUnsavedDrain ==
  \A i \in Intents : orders[i] > 1 => i \in unsaved

(***************************************************************************)
(* An intent that was emitted and not blocked is in the stored queue, in   *)
(* the running drain, or at the execution worker until the worker answers  *)
(* it.  It disappears only in the ways the code has: overwritten by a      *)
(* dispatch of the same engine turn, cut at the queue's limit, not stored  *)
(* by a guard that skips writes, taken from the queue by a drain that      *)
(* crashed before dispatching it, answered 429 by the worker, or evicted   *)
(* with the worker's isolate.  (And every variable is of its type.)        *)
(***************************************************************************)
LiveIntentHasAPlace ==
  /\ TypeOK
  /\ \A i \in Intents : fate[i] = "live" => i \in Held(queue, handler, jobs)

(***************************************************************************)
(* The engine has one alarm for the configuration cadence, the queue and   *)
(* maintenance, overwritten by each of them: between handler runs it is    *)
(* always set, unless the guard skipped the last alarm write.              *)
(***************************************************************************)
WakeIsScheduled ==
  alarm = None => handler.pc # "idle" \/ armLost

(***************************************************************************)
(* A deferred intent does not stay in the queue for ever: it is answered,  *)
(* blocked or lost, unless the guard skipped an alarm write and nothing    *)
(* woke the engine since.                                                  *)
(***************************************************************************)
DeferredIsDecided ==
  \A i \in Intents : i \in Items(queue) ~> fate[i] # "live" \/ armLost

=============================================================================

----------------------------- MODULE DotCastPool -----------------------------
(***************************************************************************)
(* One dotCast prediction pool: the Durable Object of                      *)
(* src/src/engine/dotcast/DotCastPoolDO.ts with the pure transition        *)
(* functions of PoolLifecycle.ts and PoolSettlement.ts.                    *)
(*                                                                         *)
(* The object handles one request at a time between two external awaits:   *)
(* storage reads and writes close the object's input gate, so everything   *)
(* from reading the snapshot to writing it and setting the alarm is one    *)
(* step.  A D1 write or a fetch opens the gate.  Only                      *)
(* pollRouterResolution keeps working on a snapshot it read before such an *)
(* await; its three segments are three actions of a poll process p.        *)
(*                                                                         *)
(* A handler that throws answers 400 and changes nothing: its action is    *)
(* not enabled.  `now' is the request's own timestamp (payload.now), any   *)
(* value of Times; the alarm and the reads use the clock.  The instant     *)
(* Horizon stands for every later instant: at Horizon time goes on by      *)
(* bringing the alarm nearer.                                              *)
(***************************************************************************)
EXTENDS Parimutuel

CONSTANTS
  Users,              \* bettors
  Amounts,            \* stakes a request may carry
  Unit,               \* "points" or "usdc"
  SeedPoints,         \* DEFAULT_POINTS_BALANCE
  Horizon,            \* the last instant
  EntryOpensAt,       \* the pool's parameters, validated when it is created
  EntryClosesAt,
  MarketCloseTime,
  ExpectedResolveAt,  \* {} (null) or {t}
  MinLiquidity,
  RakeBps,
  MaxGrace,           \* configured DOTCAST_ROUTER_RESOLUTION_MAX_GRACE_MS
  Graces,             \* values of maxGraceMs a /resolution request may carry
  RequestVoidReasons, \* reasons a /void request may carry
  PollInterval,       \* DOTCAST_ROUTER_RESOLUTION_POLL_MS
  Requests,           \* concurrent POST /poll-resolution requests
  AlarmPoll           \* the alarm handler's run of the poll

Times == 0..Horizon
AlarmTimes == 0..(Horizon + PollInterval)
Polls == Requests \cup {AlarmPoll}

VoidReasons == {"UNDER_LIQUIDITY", "ONE_SIDED_POOL", "NO_WINNING_ENTRIES",
                "INVALID_RESOLUTION", "GRACE_TIMEOUT", "SOURCE_CANCELLED", "ADMIN_VOID"}

ASSUME PoolAssumptions ==
  /\ Amounts \subseteq Nat \ {0}
  /\ Unit \in {"points", "usdc"}
  /\ SeedPoints \in Nat
  /\ Horizon \in Nat
  /\ EntryOpensAt \in Times /\ EntryClosesAt \in Times /\ MarketCloseTime \in Nat
  /\ EntryOpensAt <= EntryClosesAt /\ EntryClosesAt <= MarketCloseTime
  /\ ExpectedResolveAt \subseteq Nat
  /\ MinLiquidity \in Nat
  /\ RakeBps \in 0..RakeDenominatorBps
  /\ MaxGrace \in Nat /\ Graces \subseteq Nat
  /\ PollInterval \in Nat
  /\ RequestVoidReasons \subseteq VoidReasons
  /\ AlarmPoll \notin Requests

VARIABLES
  snapshot,   \* the stored DotCastPoolSnapshot; status "absent" before /create
  alarm,      \* {} or {t}: the time the storage alarm is set for
  polls,      \* the polls in flight, each with the snapshot it holds
  clock       \* the time of day

vars == <<snapshot, alarm, polls, clock>>

Outcomes == Sides \cup {"invalid"}
Resolutions == [outcome : Outcomes \cup {"pending"}, stale : BOOLEAN]

(***************************************************************************)
(* Every entry the code creates has funding "user".  paid stands for       *)
(* payout # null.                                                          *)
(***************************************************************************)
EntryType == [user : Users, side : Sides, amount : Amounts, placedAt : Times,
              paid : BOOLEAN, payout : Nat, refunded : BOOLEAN]

(***************************************************************************)
(* The settlement record repeats sums over the entries and is left out,    *)
(* as are lastResolution and the timestamps, which nothing here reads.     *)
(* houseRake is the total of houseLedger.  "resolving" is passed through   *)
(* within a step and never stored.                                         *)
(***************************************************************************)
SnapshotOver(S) ==
  [status     : {"absent", "open", "locked", "settled", "voided"},
   outcome    : Outcomes \cup {"null"},
   pools      : [Sides -> Nat],
   entries    : [S -> EntryType],
   balances   : [Users -> [available : Nat, locked : Nat]],
   houseRake  : Nat,
   voidReason : VoidReasons \cup {"null"}]

IsSnapshot(s) == \E S \in SUBSET EntryIds : s \in SnapshotOver(S)

NoEntries == [i \in {} |-> {}]

\* seedBalance: points are given away, USDC comes with each entry's reservation.
SeedBalance == [available |-> IF Unit = "points" THEN SeedPoints ELSE 0, locked |-> 0]

NoSnapshot ==
  [status |-> "absent", outcome |-> "null", pools |-> [s \in Sides |-> 0],
   entries |-> NoEntries, balances |-> [u \in Users |-> SeedBalance],
   houseRake |-> 0, voidReason |-> "null"]

IsPoll(poll) ==
  \E S \in SUBSET EntryIds :
    poll \in [pc : {"idle", "audit", "fetch"}, now : Times, snap : SnapshotOver(S)]

IdlePoll == [pc |-> "idle", now |-> 0, snap |-> NoSnapshot]

Init ==
  /\ snapshot = NoSnapshot
  /\ alarm = {}
  /\ polls = [p \in Polls |-> IdlePoll]
  /\ clock = 0

-----------------------------------------------------------------------------
(***************************************************************************)
(* The pure functions on snapshots.                                        *)
(***************************************************************************)
Terminal(s) == s.status \in {"settled", "voided"}

EntriesOf(s, u) == {i \in DOMAIN s.entries : s.entries[i].user = u}

\* What user u has at stake in entries that are not refunded yet.
AtStake(s, u) ==
  Staked(s.entries, {i \in EntriesOf(s, u) : ~ s.entries[i].refunded})

\* requireBalance and assertNonNegativeBalance, for every entry in turn.
LocksCoverStakes(s) == \A u \in Users : s.balances[u].locked >= AtStake(s, u)

LockVoidReason(s) ==
  IF s.pools["yes"] + s.pools["no"] < MinLiquidity THEN "UNDER_LIQUIDITY"
  ELSE IF s.pools["yes"] = 0 \/ s.pools["no"] = 0 THEN "ONE_SIDED_POOL"
  ELSE "null"

\* voidPoolSnapshot throws on a settled pool.
CanVoid(s) == s.status # "settled" /\ (s.status # "voided" => LocksCoverStakes(s))

\* Mutant: the stakes are paid back but the entries are not marked.
VoidWithoutMarkingEntries(s, reason, outcome) ==
  IF s.status = "voided" THEN s
  ELSE [s EXCEPT
          !.status = "voided",
          !.outcome = outcome,
          !.balances = [u \in Users |->
                         [available |-> s.balances[u].available + AtStake(s, u),
                          locked    |-> s.balances[u].locked - AtStake(s, u)]],
          !.voidReason = reason]

VoidPoolSnapshot(s, reason, outcome) ==
  IF s.status = "voided" THEN s
  ELSE [s EXCEPT
          !.status = "voided",
          !.outcome = outcome,
          !.entries = [i \in DOMAIN s.entries |->
                        [s.entries[i] EXCEPT !.paid = FALSE, !.payout = 0,
                                             !.refunded = TRUE]],
          !.balances = [u \in Users |->
                         [available |-> s.balances[u].available + AtStake(s, u),
                          locked    |-> s.balances[u].locked - AtStake(s, u)]],
          !.voidReason = reason]

\* Does locking at time `now' void the pool, lock it, or leave it alone?
LockDue(s, now) == s.status = "open" /\ now >= EntryClosesAt

CanLock(s, now) ==
  LockDue(s, now) /\ LockVoidReason(s) # "null" => CanVoid(s)

LockSnapshotIfNeeded(s, now) ==
  IF ~ LockDue(s, now) THEN s
  ELSE IF LockVoidReason(s) # "null"
       THEN VoidPoolSnapshot(s, LockVoidReason(s), s.outcome)
       ELSE [s EXCEPT !.status = "locked"]

\* What the entries of user u are paid by settlement r.
PaidTo(s, u, r) ==
  SumTo([i \in EntryIds |-> IF i \in EntriesOf(s, u) THEN r.payouts[i] ELSE 0],
        MaxEntries)

\* Mutant: the whole losing pool is booked as rake.
SettledWithFullRake(s, outcome, r) ==
  [s EXCEPT
     !.status = "settled",
     !.outcome = outcome,
     !.entries = [i \in DOMAIN s.entries |->
                   [s.entries[i] EXCEPT !.paid = TRUE, !.payout = r.payouts[i]]],
     !.balances = [u \in Users |->
                    [available |-> s.balances[u].available + PaidTo(s, u, r),
                     locked    |-> s.balances[u].locked
                                     - Staked(s.entries, EntriesOf(s, u))]],
     !.houseRake = s.houseRake + s.pools[OtherSide(outcome)]]

Settled(s, outcome, r) ==
  [s EXCEPT
     !.status = "settled",
     !.outcome = outcome,
     !.entries = [i \in DOMAIN s.entries |->
                   [s.entries[i] EXCEPT !.paid = TRUE, !.payout = r.payouts[i],
                                        !.refunded = FALSE]],
     !.balances = [u \in Users |->
                    [available |-> s.balances[u].available + PaidTo(s, u, r),
                     locked    |-> s.balances[u].locked
                                     - Staked(s.entries, EntriesOf(s, u))]],
     !.houseRake = s.houseRake + r.rakeAmount,
     !.voidReason = "null"]

CanSettle(s, outcome) ==
  ~ Terminal(s) => /\ outcome # "invalid" => s.status = "locked"
                   /\ LocksCoverStakes(s)

\* Mutant: a terminal pool is not recognised and is settled again.
SettlePoolSnapshotAgain(s, outcome) ==
  IF outcome = "invalid" THEN VoidPoolSnapshot(s, "INVALID_RESOLUTION", "invalid")
  ELSE LET r == SettleParimutuel(s.entries, outcome, RakeBps)
       IN  IF r.kind = "void_required"
           THEN VoidPoolSnapshot(s, "NO_WINNING_ENTRIES", s.outcome)
           ELSE Settled(s, outcome, r)

SettlePoolSnapshot(s, outcome) ==
  IF Terminal(s) THEN s
  ELSE IF outcome = "invalid" THEN VoidPoolSnapshot(s, "INVALID_RESOLUTION", "invalid")
  ELSE LET r == SettleParimutuel(s.entries, outcome, RakeBps)
       IN  IF r.kind = "void_required"
           THEN VoidPoolSnapshot(s, "NO_WINNING_ENTRIES", s.outcome)
           ELSE Settled(s, outcome, r)

\* Mutant: the grace period never ends.
NoResolutionGrace(now, grace) == FALSE

PastResolutionGrace(now, grace) == \E t \in ExpectedResolveAt : now > t + grace

\* What applyRouterResolution does to a pool that is locked already.
ResolveLocked(s, resolution, now, grace) ==
  IF resolution.stale \/ resolution.outcome = "pending"
  THEN IF PastResolutionGrace(now, grace)
       THEN VoidPoolSnapshot(s, "GRACE_TIMEOUT", s.outcome)
       ELSE s
  ELSE SettlePoolSnapshot(s, resolution.outcome)

CanApplyResolution(s, now) ==
  ~ Terminal(s) => CanLock(s, now) /\ LocksCoverStakes(s)

ApplyRouterResolution(s, resolution, now, grace) ==
  LET locked == LockSnapshotIfNeeded(s, now)
  IN  IF Terminal(s) \/ locked.status # "locked" THEN locked
      ELSE ResolveLocked(locked, resolution, now, grace)

\* Mutant: the stake is taken but not locked.
WithEntryNotLocked(s, id, e) ==
  [s EXCEPT
     !.pools[e.side] = @ + e.amount,
     !.entries = [i \in DOMAIN s.entries \cup {id} |->
                   IF i = id THEN e ELSE s.entries[i]],
     !.balances[e.user].available = @ - e.amount]

\* placeEntry on the snapshot; a USDC entry brings its reservation with it.
WithEntry(s, id, e) ==
  [s EXCEPT
     !.pools[e.side] = @ + e.amount,
     !.entries = [i \in DOMAIN s.entries \cup {id} |->
                   IF i = id THEN e ELSE s.entries[i]],
     !.balances[e.user] =
        [available |-> IF Unit = "usdc" THEN @.available ELSE @.available - e.amount,
         locked    |-> @.locked + e.amount]]

-----------------------------------------------------------------------------
(***************************************************************************)
(* The handlers.                                                           *)
(***************************************************************************)
AlarmTime(now) == now + PollInterval

\* Every write of a locked pool sets the alarm anew, a whole interval from `now'.
ReconcileResolutionAlarm(s, now) ==
  alarm' = IF s.status = "locked" THEN {AlarmTime(now)} ELSE {}

\* Mutant: the snapshot is stored without a look at the alarm.
PersistSnapshotQuietly(s, now) ==
  /\ snapshot' = s
  /\ UNCHANGED alarm

\* persistSnapshot; its D1 reconciliation is modelled by UsdcPoolFlow.
PersistSnapshot(s, now) ==
  /\ snapshot' = s
  /\ ReconcileResolutionAlarm(s, now)

Exists == snapshot.status # "absent"

\* POST /create; for an existing pool it changes nothing.
Create(now) ==
  /\ ~ Exists
  /\ now < MarketCloseTime
  /\ PersistSnapshot([NoSnapshot EXCEPT !.status = "open"], now)
  /\ UNCHANGED <<polls, clock>>

\* Mutant: the available balance is not checked.
EntryAcceptedUnfunded(u, amount, now) ==
  snapshot.status = "open" /\ EntryOpensAt <= now /\ now <= EntryClosesAt

\* Mutant: only the entry window is checked, not the status.
EntryAcceptedInWindow(u, amount, now) ==
  /\ Exists
  /\ EntryOpensAt <= now /\ now <= EntryClosesAt
  /\ Unit = "points" => snapshot.balances[u].available >= amount

\* The conditions placeEntry checks before it takes a stake.
EntryAccepted(u, amount, now) ==
  /\ snapshot.status = "open"
  /\ EntryOpensAt <= now /\ now <= EntryClosesAt
  /\ Unit = "points" => snapshot.balances[u].available >= amount

\* POST /entries; an id already in the book is answered as a duplicate.
PlaceEntry(id, u, side, amount, now) ==
  LET e == [user |-> u, side |-> side, amount |-> amount, placedAt |-> now,
            paid |-> FALSE, payout |-> 0, refunded |-> FALSE]
      placed == WithEntry(snapshot, id, e)
  IN  /\ id \notin DOMAIN snapshot.entries
      /\ EntryAccepted(u, amount, now)
      /\ CanLock(placed, now)
      /\ PersistSnapshot(LockSnapshotIfNeeded(placed, now), now)
      /\ UNCHANGED <<polls, clock>>

LockIfNeeded(now) ==
  /\ Exists
  /\ CanLock(snapshot, now)
  /\ PersistSnapshot(LockSnapshotIfNeeded(snapshot, now), now)

\* POST /lock
Lock(now) == LockIfNeeded(now) /\ UNCHANGED <<polls, clock>>

\* GET / and GET /odds lock a pool that is due by the clock, and store it again.
Read == LockIfNeeded(clock) /\ UNCHANGED <<polls, clock>>

\* POST /settle
Settle(outcome, now) ==
  /\ Exists
  /\ CanSettle(snapshot, outcome)
  /\ PersistSnapshot(SettlePoolSnapshot(snapshot, outcome), now)
  /\ UNCHANGED <<polls, clock>>

\* POST /resolution; a resolution of another market throws.
ApplyResolution(resolution, now, grace) ==
  /\ Exists
  /\ CanApplyResolution(snapshot, now)
  /\ PersistSnapshot(ApplyRouterResolution(snapshot, resolution, now, grace), now)
  /\ UNCHANGED <<polls, clock>>

\* POST /void
Void(reason, now) ==
  /\ Exists
  /\ CanVoid(snapshot)
  /\ PersistSnapshot(VoidPoolSnapshot(snapshot, reason, snapshot.outcome), now)
  /\ UNCHANGED <<polls, clock>>

(***************************************************************************)
(* pollRouterResolution up to the first await on D1, the "lock" audit      *)
(* record that lockIfNeeded writes on every call.                          *)
(***************************************************************************)
PollBegin(p, now) ==
  /\ polls[p].pc = "idle"
  /\ LockIfNeeded(now)
  /\ polls' = [polls EXCEPT ![p] =
                [pc |-> "audit", now |-> now, snap |-> LockSnapshotIfNeeded(snapshot, now)]]
  /\ UNCHANGED clock

\* POST /poll-resolution
PollRequest(p, now) == p \in Requests /\ PollBegin(p, now)

\* alarm(): the alarm set in storage is consumed when it goes off.
AlarmFires ==
  /\ \E t \in alarm : t <= clock
  /\ PollBegin(AlarmPoll, clock)

\* The audit record is written: go on to the router, or stop.
PollAfterAudit(p) ==
  /\ polls[p].pc = "audit"
  /\ IF polls[p].snap.status = "locked"
     THEN polls' = [polls EXCEPT ![p].pc = "fetch"] /\ UNCHANGED alarm
     ELSE /\ polls' = [polls EXCEPT ![p] = IdlePoll]
          /\ ReconcileResolutionAlarm(polls[p].snap, polls[p].now)
  /\ UNCHANGED <<snapshot, clock>>

\* The router fails, or no router is configured: only the alarm is set again.
PollFetchFails(p) ==
  /\ polls[p].pc = "fetch"
  /\ ReconcileResolutionAlarm(polls[p].snap, polls[p].now)
  /\ polls' = [polls EXCEPT ![p] = IdlePoll]
  /\ UNCHANGED <<snapshot, clock>>

\* The router answers: its resolution is applied to the snapshot read at the start.
PollApply(p, resolution) ==
  /\ polls[p].pc = "fetch"
  /\ CanApplyResolution(polls[p].snap, polls[p].now)
  /\ PersistSnapshot(ApplyRouterResolution(polls[p].snap, resolution, polls[p].now, MaxGrace),
                     polls[p].now)
  /\ polls' = [polls EXCEPT ![p] = IdlePoll]
  /\ UNCHANGED clock

\* The router answers for another market: applyRouterResolution throws.
PollThrows(p) ==
  /\ polls[p].pc = "fetch"
  /\ polls' = [polls EXCEPT ![p] = IdlePoll]
  /\ UNCHANGED <<snapshot, alarm, clock>>

\* The platform evicts the object: requests in flight are lost, storage is not.
Evict ==
  /\ polls' = [p \in Polls |-> IdlePoll]
  /\ UNCHANGED <<snapshot, alarm, clock>>

Tick ==
  /\ IF clock < Horizon
     THEN clock' = clock + 1 /\ UNCHANGED alarm
     ELSE /\ \E t \in alarm : t > Horizon /\ alarm' = {t - 1}
          /\ UNCHANGED clock
  /\ UNCHANGED <<snapshot, polls>>

Next ==
  \/ Tick \/ Read \/ AlarmFires \/ Evict
  \/ \E now \in Times :
       \/ Create(now)
       \/ Lock(now)
       \/ \E id \in EntryIds, u \in Users, side \in Sides, amount \in Amounts :
            PlaceEntry(id, u, side, amount, now)
       \/ \E outcome \in Outcomes : Settle(outcome, now)
       \/ \E reason \in RequestVoidReasons : Void(reason, now)
       \/ \E resolution \in Resolutions, grace \in Graces :
            ApplyResolution(resolution, now, grace)
       \/ \E p \in Requests : PollRequest(p, now)
  \/ \E p \in Polls :
       \/ PollAfterAudit(p)
       \/ PollFetchFails(p)
       \/ PollThrows(p)
       \/ \E resolution \in Resolutions : PollApply(p, resolution)

Spec == Init /\ [][Next]_vars

(***************************************************************************)
(* Fairness: time passes, an alarm that stays due goes off, and a poll by  *)
(* the alarm does not for ever fail before or at the router.               *)
(***************************************************************************)
Fairness ==
  /\ WF_vars(Tick)
  /\ WF_vars(AlarmFires)
  /\ SF_vars(PollAfterAudit(AlarmPoll))
  /\ SF_vars(\E resolution \in Resolutions : PollApply(AlarmPoll, resolution))

FairSpec == Spec /\ Fairness

-----------------------------------------------------------------------------
(***************************************************************************)
(* Properties.                                                             *)
(***************************************************************************)
TypeOK ==
  /\ IsSnapshot(snapshot)
  /\ alarm \in SUBSET AlarmTimes
  /\ DOMAIN polls = Polls
  /\ \A p \in Polls : IsPoll(polls[p])
  /\ clock \in Times

\* The stored snapshot and the ones the polls in flight will write back.
HeldSnapshots == {snapshot} \cup {polls[p].snap : p \in Polls}

Payouts(s, u) ==
  SumTo([i \in EntryIds |-> IF i \in EntriesOf(s, u) THEN s.entries[i].payout ELSE 0],
        MaxEntries)

(***************************************************************************)
(* The running totals agree with the book of entries: each side's pool is  *)
(* the sum of the stakes on it, and each user's locked balance is exactly  *)
(* what the user has at stake, nothing once the pool is terminal.  If it   *)
(* failed, requireBalance would throw and the pool could never be settled. *)
(***************************************************************************)
TotalsMatchEntries ==
  \A s \in HeldSnapshots :
    /\ s.pools = CalculatePoolTotals(s.entries)
    /\ \A u \in Users :
         s.balances[u].locked =
           IF Terminal(s) THEN 0 ELSE Staked(s.entries, EntriesOf(s, u))

(***************************************************************************)
(* Entries are resolved together and in one way: a settled pool has paid   *)
(* all of them and refunded none, a voided pool the reverse, and a pool    *)
(* that is still open or locked has done neither to any.                   *)
(***************************************************************************)
EntriesResolvedTogether ==
  \A s \in HeldSnapshots : \A i \in DOMAIN s.entries :
    /\ s.entries[i].paid <=> s.status = "settled"
    /\ s.entries[i].refunded <=> s.status = "voided"

(***************************************************************************)
(* Money is neither made nor lost: a user's available balance is the seed  *)
(* less the stakes, plus what the entries were paid or refunded; and a     *)
(* settled pool has paid out, with the rake, exactly what was staked.      *)
(***************************************************************************)
MoneyConserved ==
  \A s \in HeldSnapshots :
    /\ \A u \in Users :
         LET staked == Staked(s.entries, EntriesOf(s, u))
         IN  s.balances[u].available =
               SeedBalance.available
                 - (IF Unit = "points" THEN staked ELSE 0)
                 + (IF s.status = "voided" THEN staked ELSE Payouts(s, u))
    /\ s.status = "settled" =>
         SumTo([i \in EntryIds |->
                 IF i \in DOMAIN s.entries THEN s.entries[i].payout ELSE 0], MaxEntries)
           + s.houseRake = Staked(s.entries, DOMAIN s.entries)
    /\ s.status # "settled" => s.houseRake = 0

\* The wagers of a snapshot, without what became of them.
Wagers(s) ==
  [i \in DOMAIN s.entries |-> <<s.entries[i].user, s.entries[i].side,
                                s.entries[i].amount, s.entries[i].placedAt>>]

(***************************************************************************)
(* The book is closed once the pool has left "open": no later step, and in *)
(* particular no poll that writes back a snapshot it read long ago, adds,  *)
(* drops or changes a wager, or opens the pool again.                      *)
(***************************************************************************)
BookClosed ==
  [][snapshot.status \notin {"absent", "open"} =>
       Wagers(snapshot') = Wagers(snapshot) /\ snapshot'.status # "open"]_vars

(***************************************************************************)
(* A terminal pool is changed by nothing but a poll that had read it while *)
(* it was locked and comes back from the router later.                     *)
(***************************************************************************)
TerminalLeftOnlyByLatePoll ==
  [][Terminal(snapshot) /\ snapshot' # snapshot =>
       \E p \in Polls : /\ polls[p].pc = "fetch" /\ polls[p].snap.status = "locked"
                        /\ polls'[p].pc = "idle"]_vars

(***************************************************************************)
(* A locked pool keeps an alarm, so that the router is asked again: only a *)
(* poll that read the pool before it was locked, and deletes the alarm     *)
(* after its audit record was written, can leave a locked pool without it. *)
(***************************************************************************)
AlarmLostOnlyToStalePoll ==
  [][snapshot'.status = "locked" /\ alarm' = {} /\ (snapshot.status = "locked" => alarm # {}) =>
       \E p \in Polls : /\ polls[p].pc = "audit" /\ polls[p].snap.status # "locked"
                        /\ polls'[p].pc = "idle"]_vars

\* A request, not a poll, puts the alarm off: a read or a lock of a locked pool does.
Postponed == polls' = polls /\ \E t \in alarm, u \in alarm' : u > t

(***************************************************************************)
(* With only the alarm polling, a locked pool reaches a terminal state and *)
(* in the end stays there, unless requests postpone the alarm for ever:    *)
(* late answers are overcome by the next poll, and a router that only says *)
(* "pending" by the grace timeout.  Without the exception it would be      *)
(* false: a pool read more often than every PollInterval is never polled.  *)
(***************************************************************************)
LockedPoolIsResolvedForGood ==
  <>[][~ Postponed]_vars => (snapshot.status = "locked" ~> []Terminal(snapshot))

=============================================================================

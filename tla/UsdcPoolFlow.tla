---------------------------- MODULE UsdcPoolFlow ----------------------------
(***************************************************************************)
(* A USDC pool, its funding locks in D1 and the gateway between them.      *)
(*                                                                         *)
(* placeDotCastUsdcPoolEntry (DotCastGateway.ts) reserves the stake in D1, *)
(* asks the pool object to take the entry, and releases the reservation if *)
(* the object refuses.  When the object stores a terminal snapshot it      *)
(* finalises the locks of the snapshot's entries one by one                *)
(* (reconcileUsdcPoolFunding, applyUsdcPoolTerminalSettlement).            *)
(*                                                                         *)
(* This module composes DotCastPool with that protocol.  Each operation on *)
(* a lock is one step here: how its four statements interleave with others *)
(* on the same account is the subject of UsdcAccount.  Reservations that   *)
(* fail for lack of funds change nothing and are left out.                 *)
(***************************************************************************)
EXTENDS DotCastPool

CONSTANT Gateways      \* concurrent POST /pools/:id/entries requests

ASSUME FlowAssumptions == Unit = "usdc"

VARIABLES
  locks,        \* dotcast_usdc_pool_locks, by entry id
  gateways,     \* the entry requests in flight
  settlers,     \* the terminal snapshots whose locks are being finalised
  overwritten   \* history: a stored terminal snapshot was replaced

flowVars == <<snapshot, alarm, polls, clock, locks, gateways, settlers, overwritten>>

NoLock == [status |-> "none"]
IdleGateway == [pc |-> "idle"]

FlowInit ==
  /\ Init
  /\ locks = [i \in EntryIds |-> NoLock]
  /\ gateways = [g \in Gateways |-> IdleGateway]
  /\ settlers = {}
  /\ overwritten = FALSE

-----------------------------------------------------------------------------
\* Every write of a terminal snapshot starts finalising its locks.
Reconcile ==
  /\ settlers' = IF Terminal(snapshot') THEN settlers \cup {snapshot'} ELSE settlers
  /\ overwritten' = (overwritten \/ (Terminal(snapshot) /\ snapshot' # snapshot))

\* The pool object's requests that store a snapshot, except for entries.
PoolStores ==
  /\ \/ Read \/ AlarmFires
     \/ \E now \in Times :
          \/ Create(now) \/ Lock(now)
          \/ \E outcome \in Outcomes : Settle(outcome, now)
          \/ \E reason \in RequestVoidReasons : Void(reason, now)
          \/ \E resolution \in Resolutions, grace \in Graces :
               ApplyResolution(resolution, now, grace)
          \/ \E p \in Requests : PollRequest(p, now)
     \/ \E p \in Polls, resolution \in Resolutions : PollApply(p, resolution)
  /\ Reconcile
  /\ UNCHANGED <<locks, gateways>>

PoolMoves ==
  /\ \/ Tick \/ Evict
     \/ \E p \in Polls : PollAfterAudit(p) \/ PollFetchFails(p) \/ PollThrows(p)
  /\ UNCHANGED <<locks, gateways, settlers, overwritten>>

\* readDotCastPoolUnit: the gateway first reads the pool, which may lock or void it.
ReadPoolUnit(g) ==
  /\ gateways[g].pc = "idle"
  /\ Read
  /\ Reconcile
  /\ gateways' = [gateways EXCEPT ![g] = [pc |-> "reserve"]]
  /\ UNCHANGED locks

\* Mutant: an existing lock is accepted without comparing its user and amount.
ReserveAnyLock(g, id, u, side, amount, now) ==
  /\ gateways[g].pc = "reserve"
  /\ locks' = IF locks[id].status # "none" THEN locks
              ELSE [locks EXCEPT ![id] = [status |-> "locked", user |-> u,
                                          amount |-> amount, payout |-> 0]]
  /\ gateways' = [gateways EXCEPT ![g] =
                   [pc |-> "place", id |-> id, user |-> u, side |-> side,
                    amount |-> amount, now |-> now]]
  /\ UNCHANGED <<snapshot, alarm, polls, clock, settlers, overwritten>>

(***************************************************************************)
(* reserveUsdcPoolEntry: insert a lock, or accept the one that is there if *)
(* it has the same user and amount, whatever its status.                   *)
(***************************************************************************)
Reserve(g, id, u, side, amount, now) ==
  /\ gateways[g].pc = "reserve"
  /\ \/ locks[id].status = "none"
     \/ locks[id].status # "none" /\ locks[id].user = u /\ locks[id].amount = amount
  /\ locks' = IF locks[id].status # "none" THEN locks
              ELSE [locks EXCEPT ![id] = [status |-> "locked", user |-> u,
                                          amount |-> amount, payout |-> 0]]
  /\ gateways' = [gateways EXCEPT ![g] =
                   [pc |-> "place", id |-> id, user |-> u, side |-> side,
                    amount |-> amount, now |-> now]]
  /\ UNCHANGED <<snapshot, alarm, polls, clock, settlers, overwritten>>

(***************************************************************************)
(* The object takes the entry.  If that closes and voids the pool and the  *)
(* reconciliation in D1 fails, it answers 400 although the entry is in.    *)
(***************************************************************************)
EntryTaken(g) ==
  LET r == gateways[g] IN
  /\ r.pc = "place"
  /\ PlaceEntry(r.id, r.user, r.side, r.amount, r.now)
  /\ Reconcile
  /\ \/ gateways' = [gateways EXCEPT ![g] = IdleGateway]
     \/ /\ Terminal(snapshot')
        /\ gateways' = [gateways EXCEPT ![g].pc = "release"]
  /\ UNCHANGED locks

\* The object has the entry already and answers ok, or refuses it.
EntryAnswered(g) ==
  LET r == gateways[g] IN
  /\ r.pc = "place"
  /\ \/ /\ r.id \in DOMAIN snapshot.entries
        /\ gateways' = [gateways EXCEPT ![g] = IdleGateway]
     \/ /\ r.id \notin DOMAIN snapshot.entries
        /\ ~ EntryAccepted(r.user, r.amount, r.now)
        /\ gateways' = [gateways EXCEPT ![g].pc = "release"]
  /\ UNCHANGED <<snapshot, alarm, polls, clock, locks, settlers, overwritten>>

\* releaseUsdcPoolEntryReservation: only a lock that is still locked.
Release(g) ==
  LET id == gateways[g].id IN
  /\ gateways[g].pc = "release"
  /\ locks' = IF locks[id].status = "locked"
              THEN [locks EXCEPT ![id].status = "released"] ELSE locks
  /\ gateways' = [gateways EXCEPT ![g] = IdleGateway]
  /\ UNCHANGED <<snapshot, alarm, polls, clock, settlers, overwritten>>

\* The gateway request dies, or the call to the object fails.
GatewayDies(g) ==
  /\ gateways[g].pc # "idle"
  /\ gateways' = [gateways EXCEPT ![g] = IdleGateway]
  /\ UNCHANGED <<snapshot, alarm, polls, clock, locks, settlers, overwritten>>

\* Mutant: a refunded entry is paid its payout, which a void has cleared.
FinalizeLockByPayout(s, i) ==
  /\ locks[i].status = "locked"
  /\ locks' = [locks EXCEPT
                ![i].status = IF s.entries[i].refunded THEN "refunded" ELSE "settled",
                ![i].payout = s.entries[i].payout]
  /\ UNCHANGED <<snapshot, alarm, polls, clock, gateways, settlers, overwritten>>

\* One entry of applyUsdcPoolTerminalSettlement.
FinalizeLock(s, i) ==
  /\ locks[i].status = "locked"
  /\ locks' = [locks EXCEPT
                ![i].status = IF s.entries[i].refunded THEN "refunded" ELSE "settled",
                ![i].payout = IF s.entries[i].refunded THEN s.entries[i].amount
                              ELSE s.entries[i].payout]
  /\ UNCHANGED <<snapshot, alarm, polls, clock, gateways, settlers, overwritten>>

\* A reconciliation is done, or dies on the way.
SettlerStops(s) ==
  /\ settlers' = settlers \ {s}
  /\ UNCHANGED <<snapshot, alarm, polls, clock, locks, gateways, overwritten>>

FlowNext ==
  \/ PoolStores \/ PoolMoves
  \/ \E g \in Gateways :
       \/ ReadPoolUnit(g) \/ EntryTaken(g) \/ EntryAnswered(g) \/ Release(g) \/ GatewayDies(g)
       \/ \E id \in EntryIds, u \in Users, side \in Sides, amount \in Amounts, now \in Times :
            Reserve(g, id, u, side, amount, now)
  \/ \E s \in settlers :
       \/ SettlerStops(s)
       \/ \E i \in DOMAIN s.entries : FinalizeLock(s, i)

FlowSpec == FlowInit /\ [][FlowNext]_flowVars

-----------------------------------------------------------------------------
(***************************************************************************)
(* Every entry in the pool's book has a lock row of the same user and      *)
(* amount, so the terminal settlement never fails on a missing lock        *)
(* (USDC_POOL_LOCK_NOT_FOUND) and never pays one user for another's stake. *)
(***************************************************************************)
EveryEntryHasItsLock ==
  \A i \in DOMAIN snapshot.entries :
    /\ locks[i].status # "none"
    /\ locks[i].user = snapshot.entries[i].user
    /\ locks[i].amount = snapshot.entries[i].amount

(***************************************************************************)
(* As long as no late poll replaced a terminal snapshot, a finalised lock  *)
(* was paid what the stored pool says its entry is worth, and the pool is  *)
(* terminal: D1 and the object agree however often the reconciliation is   *)
(* interrupted and run again.                                              *)
(***************************************************************************)
LocksPaidAsThePoolSays ==
  ~ overwritten =>
    \A i \in EntryIds :
      locks[i].status \in {"settled", "refunded"} =>
        /\ i \in DOMAIN snapshot.entries
        /\ IF locks[i].status = "refunded"
           THEN snapshot.status = "voided" /\ locks[i].payout = snapshot.entries[i].amount
           ELSE snapshot.status = "settled" /\ locks[i].payout = snapshot.entries[i].payout

=============================================================================

----------------------------- MODULE UsdcAccount -----------------------------
(***************************************************************************)
(* One user's row of dotcast_settlement_balances in D1 and the records     *)
(* that move money in and out of it: deposits and withdrawals              *)
(* (SolanaUsdcSettlementRail.ts), pool entry locks (UsdcPoolFunding.ts)    *)
(* and resolution bonds (UsdcBondFunding.ts).                              *)
(*                                                                         *)
(* All operations have one shape.  They SELECT the record, SELECT the      *)
(* balance, INSERT or UPDATE the record, and write the whole balance row   *)
(* back, computed from the row read before: four statements, each awaited, *)
(* none in a transaction.  Worker requests run concurrently and a request  *)
(* may die between two statements.  An operation is described by a step:   *)
(* the record it is about, the status it must find (from; "none" means no  *)
(* row, and the write is an INSERT), the status it writes, the credit it   *)
(* stores and the change it makes to the balance.  A request that finds    *)
(* another status answers at once and changes nothing.  A record has one   *)
(* amount and one owner: requests that name others change nothing either.  *)
(***************************************************************************)
EXTENDS Integers, FiniteSets, Sums

CONSTANTS
  Deposits,      \* on-chain transaction references
  Withdrawals,   \* idempotency keys
  Entries,       \* pool entry ids
  Bonds,         \* bond lock ids
  Amount,        \* the amount of each record
  Credits,       \* payouts of a pool entry, extra credits of a bond
  Workers,       \* concurrent requests
  Contested      \* bound: the records requests overlap on or touch after a fault

Keys == Deposits \cup Withdrawals \cup Entries \cup Bonds

\* Each kind of record has a table of its own.
ASSUME TablesAssumption ==
  /\ IsFiniteSet(Keys)
  /\ Deposits \cap (Withdrawals \cup Entries \cup Bonds) = {}
  /\ Withdrawals \cap (Entries \cup Bonds) = {}
  /\ Entries \cap Bonds = {}

ASSUME AccountAssumptions ==
  /\ Amount \in [Keys -> Nat \ {0}]
  /\ Credits \subseteq Nat
  /\ Contested \subseteq Keys

VARIABLES
  balance,    \* the balance row
  records,    \* status of each record, "none" when there is no row
  credits,    \* payout or credit stored in each record
  jobs,       \* the requests in flight
  opened,     \* history: balance writes by steps that created the record
  closed,     \* history: balance writes by steps that moved it on
  disturbed   \* history: a request overlapped another, or died half-way

vars == <<balance, records, credits, jobs, opened, closed, disturbed>>

Fields == {"available", "pendingDeposit", "pendingWithdrawal", "lockedPool", "lockedBond"}
Statuses == {"none", "observed", "credited", "signed", "confirmed", "locked",
             "released", "settled", "refunded", "slashed"}

NoChange == [f \in Fields |-> 0]

-----------------------------------------------------------------------------
(***************************************************************************)
(* The operations.                                                         *)
(***************************************************************************)
ObserveDeposit(k) ==
  [key |-> k, from |-> "none", to |-> "observed", credit |-> 0,
   change |-> [NoChange EXCEPT !["pendingDeposit"] = Amount[k]]]

CreditNewDeposit(k) ==
  [key |-> k, from |-> "none", to |-> "credited", credit |-> 0,
   change |-> [NoChange EXCEPT !["available"] = Amount[k]]]

CreditObservedDeposit(k) ==
  [key |-> k, from |-> "observed", to |-> "credited", credit |-> 0,
   change |-> [NoChange EXCEPT !["available"] = Amount[k],
                               !["pendingDeposit"] = - Amount[k]]]

RequestWithdrawal(k) ==
  [key |-> k, from |-> "none", to |-> "signed", credit |-> 0,
   change |-> [NoChange EXCEPT !["available"] = - Amount[k],
                               !["pendingWithdrawal"] = Amount[k]]]

ConfirmWithdrawal(k) ==
  [key |-> k, from |-> "signed", to |-> "confirmed", credit |-> 0,
   change |-> [NoChange EXCEPT !["pendingWithdrawal"] = - Amount[k]]]

ReservePoolEntry(k) ==
  [key |-> k, from |-> "none", to |-> "locked", credit |-> 0,
   change |-> [NoChange EXCEPT !["available"] = - Amount[k],
                               !["lockedPool"] = Amount[k]]]

\* Mutant: a released stake is unlocked but not given back.
ReleaseWithoutRefund(k) ==
  [key |-> k, from |-> "locked", to |-> "released", credit |-> 0,
   change |-> [NoChange EXCEPT !["lockedPool"] = - Amount[k]]]

ReleasePoolEntry(k) ==
  [key |-> k, from |-> "locked", to |-> "released", credit |-> 0,
   change |-> [NoChange EXCEPT !["available"] = Amount[k],
                               !["lockedPool"] = - Amount[k]]]

\* One entry of applyUsdcPoolTerminalSettlement; a refund pays the amount back.
FinalizePoolEntry(k, status, payout) ==
  [key |-> k, from |-> "locked", to |-> status, credit |-> payout,
   change |-> [NoChange EXCEPT !["available"] = payout,
                               !["lockedPool"] = - Amount[k]]]

ReserveBond(k) ==
  [key |-> k, from |-> "none", to |-> "locked", credit |-> 0,
   change |-> [NoChange EXCEPT !["available"] = - Amount[k],
                               !["lockedBond"] = Amount[k]]]

\* settleUsdcBond: release with an extra credit, or slash.
SettleBond(k, status, credit) ==
  [key |-> k, from |-> "locked", to |-> status, credit |-> credit,
   change |-> [NoChange EXCEPT !["available"] = credit,
                               !["lockedBond"] = - Amount[k]]]

DepositSteps(k) == {ObserveDeposit(k), CreditNewDeposit(k), CreditObservedDeposit(k)}
WithdrawalSteps(k) == {RequestWithdrawal(k), ConfirmWithdrawal(k)}
EntrySteps(k) ==
  {ReservePoolEntry(k), ReleasePoolEntry(k), FinalizePoolEntry(k, "refunded", Amount[k])}
    \cup {FinalizePoolEntry(k, "settled", c) : c \in Credits}
BondSteps(k) ==
  {ReserveBond(k), SettleBond(k, "slashed", 0)}
    \cup {SettleBond(k, "released", Amount[k] + c) : c \in Credits}

Steps ==
  (UNION {DepositSteps(k) : k \in Deposits})
    \cup (UNION {WithdrawalSteps(k) : k \in Withdrawals})
    \cup (UNION {EntrySteps(k) : k \in Entries})
    \cup (UNION {BondSteps(k) : k \in Bonds})

-----------------------------------------------------------------------------
Max0(n) == IF n < 0 THEN 0 ELSE n

\* The row written back; pending and locked amounts are clipped at zero.
Applied(b, change) ==
  [f \in Fields |-> IF f = "available" THEN b[f] + change[f] ELSE Max0(b[f] + change[f])]

\* Mutant: the available balance is not checked.
AlwaysAffordable(b, change) == TRUE

\* INSUFFICIENT_USDC_BALANCE is thrown when this fails.
Affordable(b, change) == b["available"] + change["available"] >= 0

EmptyBalance == [f \in Fields |-> 0]

Idle == [pc |-> "idle"]

Init ==
  /\ balance = EmptyBalance
  /\ records = [k \in Keys |-> "none"]
  /\ credits = [k \in Keys |-> 0]
  /\ jobs = [w \in Workers |-> Idle]
  /\ opened = [k \in Keys |-> 0]
  /\ closed = [k \in Keys |-> 0]
  /\ disturbed = FALSE

Undisturbed(k) ==
  k \in Contested \/ (~ disturbed /\ \A v \in Workers : jobs[v].pc = "idle")

\* Mutant: an operation that moves a record on does not look at its status.
ReadRecordAnyStatus(w, s) ==
  /\ jobs[w].pc = "idle" /\ Undisturbed(s.key)
  /\ s.from = "none" <=> records[s.key] = "none"
  /\ jobs' = [jobs EXCEPT ![w] = [pc |-> "balance", step |-> s]]
  /\ disturbed' = (disturbed \/ \E v \in Workers : jobs[v].pc # "idle")
  /\ UNCHANGED <<balance, records, credits, opened, closed>>

\* SELECT the record: go on only from the status the operation expects.
ReadRecord(w, s) ==
  /\ jobs[w].pc = "idle" /\ Undisturbed(s.key)
  /\ records[s.key] = s.from
  /\ jobs' = [jobs EXCEPT ![w] = [pc |-> "balance", step |-> s]]
  /\ disturbed' = (disturbed \/ \E v \in Workers : jobs[v].pc # "idle")
  /\ UNCHANGED <<balance, records, credits, opened, closed>>

\* SELECT the balance and refuse what it cannot pay.
ReadBalance(w) ==
  /\ jobs[w].pc = "balance"
  /\ jobs' = [jobs EXCEPT ![w] =
               IF Affordable(balance, jobs[w].step.change)
               THEN [pc |-> "record", step |-> jobs[w].step, bal |-> balance]
               ELSE Idle]
  /\ UNCHANGED <<balance, records, credits, opened, closed, disturbed>>

\* Mutant: the record is inserted with INSERT OR REPLACE.
WriteRecordUpsert(w) ==
  LET s == jobs[w].step IN
  /\ jobs[w].pc = "record"
  /\ jobs' = [jobs EXCEPT ![w] = [pc |-> "save", step |-> s, bal |-> jobs[w].bal]]
  /\ records' = [records EXCEPT ![s.key] = s.to]
  /\ credits' = [credits EXCEPT ![s.key] = s.credit]
  /\ UNCHANGED <<balance, opened, closed, disturbed>>

\* INSERT fails on the primary key if the row exists by now; UPDATE never fails.
WriteRecord(w) ==
  LET s == jobs[w].step IN
  /\ jobs[w].pc = "record"
  /\ IF s.from = "none" /\ records[s.key] # "none"
     THEN /\ jobs' = [jobs EXCEPT ![w] = Idle]
          /\ UNCHANGED <<records, credits>>
     ELSE /\ jobs' = [jobs EXCEPT ![w] =
                       [pc |-> "save", step |-> s, bal |-> jobs[w].bal]]
          /\ records' = [records EXCEPT ![s.key] = s.to]
          /\ credits' = [credits EXCEPT ![s.key] = s.credit]
  /\ UNCHANGED <<balance, opened, closed, disturbed>>

\* saveBalance overwrites the whole row.
SaveBalance(w) ==
  LET s == jobs[w].step IN
  /\ jobs[w].pc = "save"
  /\ balance' = Applied(jobs[w].bal, s.change)
  /\ jobs' = [jobs EXCEPT ![w] = Idle]
  /\ IF s.from = "none"
     THEN opened' = [opened EXCEPT ![s.key] = @ + 1] /\ UNCHANGED closed
     ELSE closed' = [closed EXCEPT ![s.key] = @ + 1] /\ UNCHANGED opened
  /\ UNCHANGED <<records, credits, disturbed>>

\* A statement fails or the worker dies: the request ends where it stands.
Die(w) ==
  /\ jobs[w].pc # "idle"
  /\ jobs' = [jobs EXCEPT ![w] = Idle]
  /\ disturbed' = (disturbed \/ jobs[w].pc = "save")
  /\ UNCHANGED <<balance, records, credits, opened, closed>>

Next ==
  \E w \in Workers :
    \/ \E s \in Steps : ReadRecord(w, s)
    \/ ReadBalance(w) \/ WriteRecord(w) \/ SaveBalance(w) \/ Die(w)

Spec == Init /\ [][Next]_vars

-----------------------------------------------------------------------------
(***************************************************************************)
(* No interleaving of requests and no crash writes a negative amount, so   *)
(* the CHECK constraints of the balance table are never what stops a       *)
(* request half-way, after its record was written.                         *)
(***************************************************************************)
TypeOK ==
  /\ balance \in [Fields -> Nat]
  /\ records \in [Keys -> Statuses]
  /\ credits \in [Keys -> Nat]
  /\ DOMAIN jobs = Workers
  /\ \A w \in Workers :
       /\ jobs[w].pc \in {"idle", "balance", "record", "save"}
       /\ jobs[w].pc # "idle" => jobs[w].step \in Steps
       /\ jobs[w].pc \in {"record", "save"} => jobs[w].bal \in [Fields -> Nat]
  /\ opened \in [Keys -> Nat] /\ closed \in [Keys -> Nat]
  /\ disturbed \in BOOLEAN

(***************************************************************************)
(* The primary keys make the creation of a record idempotent: however many *)
(* requests race to deposit, withdraw, stake or bond under one key, its    *)
(* amount is taken from or added to the balance at most once.              *)
(***************************************************************************)
OpenedOnce == \A k \in Keys : opened[k] <= 1

(***************************************************************************)
(* "never double-credits a txRef", "finalizes terminal payouts             *)
(* idempotently": a record is credited, released, settled or refunded into *)
(* the balance at most once, as long as no two requests overlapped.        *)
(***************************************************************************)
ClosedOnce == ~ disturbed => \A k \in Keys : closed[k] <= 1

-----------------------------------------------------------------------------
(***************************************************************************)
(* What a record in status st with credit c stands for in the balance.     *)
(***************************************************************************)
PositionOf(k, st, c) ==
  CASE st = "observed"  -> [NoChange EXCEPT !["pendingDeposit"] = Amount[k]]
    [] st = "credited"  -> [NoChange EXCEPT !["available"] = Amount[k]]
    [] st = "signed"    -> [NoChange EXCEPT !["available"] = - Amount[k],
                                            !["pendingWithdrawal"] = Amount[k]]
    [] st = "confirmed" -> [NoChange EXCEPT !["available"] = - Amount[k]]
    [] st = "locked"    -> [NoChange EXCEPT !["available"] = - Amount[k],
                              ![IF k \in Entries THEN "lockedPool" ELSE "lockedBond"] = Amount[k]]
    [] st = "released" /\ k \in Entries -> NoChange
    [] st = "released" /\ k \notin Entries -> [NoChange EXCEPT !["available"] = c - Amount[k]]
    [] st \in {"settled", "refunded", "slashed"} -> [NoChange EXCEPT !["available"] = c - Amount[k]]
    [] st = "none"      -> NoChange

\* The positions rs and cs stand for in field f, by record.
Positions(rs, cs, f) == [k \in Keys |-> PositionOf(k, rs[k], cs[k])[f]]

\* The balance row the records call for.
BalanceOf(rs, cs) == [f \in Fields |-> SumOver(Positions(rs, cs, f), Keys)]

(***************************************************************************)
(* Between requests the balance row is exactly what the records of the     *)
(* account add up to, as long as no request overlapped another and none    *)
(* died between its record write and its balance write.                    *)
(***************************************************************************)
BalanceMatchesRecords ==
  ~ disturbed /\ (\A w \in Workers : jobs[w].pc = "idle") =>
    balance = BalanceOf(records, credits)

-----------------------------------------------------------------------------
(***************************************************************************)
(* The inductive strengthening of the invariants above.  A request         *)
(* holds on to a balance that can pay for its step; a record exists from   *)
(* the moment a request has inserted it, and at most one request is on its *)
(* way from the insertion to the one balance write that counts.            *)
(***************************************************************************)
HeldBalanceIsAffordable ==
  \A w \in Workers :
    jobs[w].pc \in {"record", "save"} => Affordable(jobs[w].bal, jobs[w].step.change)

Opening(w, k) == jobs[w].pc = "save" /\ jobs[w].step.from = "none" /\ jobs[w].step.key = k

OneOpening ==
  \A k \in Keys :
    /\ opened[k] \in {0, 1}
    /\ opened[k] = 1 => records[k] # "none" /\ \A w \in Workers : ~ Opening(w, k)
    /\ \A w \in Workers : Opening(w, k) => records[k] # "none"
    /\ \A v, w \in Workers : Opening(v, k) /\ Opening(w, k) => v = w

(***************************************************************************)
(* For the third: as long as no two requests overlapped and none died on   *)
(* the way to its balance write, the record a request works on is as the   *)
(* request found or left it, and a record that was closed stays closed.    *)
(***************************************************************************)
OpenStatuses == {"observed", "signed", "locked"}

Closing(w, k) == jobs[w].pc = "save" /\ jobs[w].step.from # "none" /\ jobs[w].step.key = k

OneClosing ==
  ~ disturbed =>
    /\ \A v, w \in Workers : jobs[v].pc # "idle" /\ jobs[w].pc # "idle" => v = w
    /\ \A w \in Workers :
         jobs[w].pc \in {"balance", "record"} => records[jobs[w].step.key] = jobs[w].step.from
    /\ \A k \in Keys :
         /\ closed[k] \in {0, 1}
         /\ closed[k] = 1 => records[k] \notin OpenStatuses \cup {"none"}
         /\ \A w \in Workers :
              Closing(w, k) => closed[k] = 0 /\ records[k] \notin OpenStatuses \cup {"none"}

Inv == TypeOK /\ HeldBalanceIsAffordable /\ OneOpening /\ OneClosing

(***************************************************************************)
(* And for the last: the balance row follows the records, a request having *)
(* written its record holds on to the row the records call for by now.     *)
(***************************************************************************)
BalanceTracked ==
  ~ disturbed =>
    /\ (\A w \in Workers : jobs[w].pc # "save") => balance = BalanceOf(records, credits)
    /\ \A w \in Workers : jobs[w].pc = "record" => jobs[w].bal = balance
    /\ \A w \in Workers : jobs[w].pc = "save" =>
         Applied(jobs[w].bal, jobs[w].step.change) = BalanceOf(records, credits)

=============================================================================

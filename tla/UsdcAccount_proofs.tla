------------------------- MODULE UsdcAccount_proofs -------------------------
(***************************************************************************)
(* Proofs about UsdcAccount, for any number of records and of concurrent   *)
(* requests: no balance goes negative, no record is opened twice and, as   *)
(* long as no two requests overlap, none is closed twice.                  *)
(***************************************************************************)
EXTENDS UsdcAccount, Sums_proofs

(***************************************************************************)
(* What the operations have in common: each is about a known record, moves *)
(* it to a status other than "none", and stores a natural credit.          *)
(***************************************************************************)
LEMMA StepsType ==
  ASSUME NEW s \in Steps
  PROVE  /\ s.key \in Keys
         /\ s.from \in Statuses
         /\ s.to \in Statuses \ {"none"}
         /\ s.credit \in Nat
         /\ s.change \in [Fields -> Int]
         /\ s.from # "none" => /\ s.from \in OpenStatuses
                               /\ s.to \notin OpenStatuses
<1>1. \/ \E k \in Deposits : s \in DepositSteps(k)
      \/ \E k \in Withdrawals : s \in WithdrawalSteps(k)
      \/ \E k \in Entries : s \in EntrySteps(k)
      \/ \E k \in Bonds : s \in BondSteps(k)
  BY Zenon DEF Steps
<1> USE AccountAssumptions DEF Keys, Fields, Statuses, OpenStatuses, NoChange
<1>2. CASE \E k \in Deposits : s \in DepositSteps(k)
  BY <1>2 DEF DepositSteps, ObserveDeposit, CreditNewDeposit, CreditObservedDeposit
<1>3. CASE \E k \in Withdrawals : s \in WithdrawalSteps(k)
  BY <1>3 DEF WithdrawalSteps, RequestWithdrawal, ConfirmWithdrawal
<1>4. CASE \E k \in Entries : s \in EntrySteps(k)
  BY <1>4 DEF EntrySteps, ReservePoolEntry, ReleasePoolEntry, FinalizePoolEntry
<1>5. CASE \E k \in Bonds : s \in BondSteps(k)
  BY <1>5 DEF BondSteps, ReserveBond, SettleBond
<1> QED
  BY <1>1, <1>2, <1>3, <1>4, <1>5, Zenon

\* Writing back an affordable change leaves natural amounts.
LEMMA AppliedIsNatural ==
  ASSUME NEW b \in [Fields -> Nat], NEW c \in [Fields -> Int], Affordable(b, c)
  PROVE  Applied(b, c) \in [Fields -> Nat]
BY DEF Applied, Affordable, Max0, Fields

\* The invariant holds of an account nobody has used.
LEMMA InitInv == Init => Inv
<1> SUFFICES ASSUME Init PROVE Inv
  OBVIOUS
<1>1. \A w \in Workers : jobs[w].pc = "idle"
  BY DEF Init, Idle
<1>2. disturbed \in BOOLEAN
  BY Zenon DEF Init
<1>3. TypeOK
  BY <1>1, <1>2 DEF Init, TypeOK, EmptyBalance, Statuses
<1>4. HeldBalanceIsAffordable
  BY <1>1 DEF HeldBalanceIsAffordable
<1>5. OneOpening
  BY <1>1 DEF Init, OneOpening, Opening
<1>6. OneClosing
  BY <1>1 DEF Init, OneClosing, Closing
<1> QED
  BY <1>3, <1>4, <1>5, <1>6 DEF Inv

\* Every statement of every request, and its death, preserves the invariant.
LEMMA NextInv ==
  ASSUME Inv, [Next]_vars
  PROVE  Inv'
<1> USE DEF Inv
<1>1. CASE UNCHANGED vars
  BY <1>1 DEF vars, TypeOK, HeldBalanceIsAffordable, OneOpening, Opening, OneClosing, Closing
<1>2. ASSUME NEW w \in Workers, NEW s \in Steps, ReadRecord(w, s)
      PROVE  Inv'
  <2>1. TypeOK'
    BY <1>2 DEF ReadRecord, TypeOK
  <2>2. HeldBalanceIsAffordable'
    BY <1>2 DEF ReadRecord, TypeOK, HeldBalanceIsAffordable
  <2>3. OneOpening'
    BY <1>2 DEF ReadRecord, TypeOK, OneOpening, Opening
  <2>4. OneClosing'
    BY <1>2, StepsType DEF ReadRecord, TypeOK, OneClosing, Closing, Idle
  <2> QED BY <2>1, <2>2, <2>3, <2>4
<1>3. ASSUME NEW w \in Workers, ReadBalance(w)
      PROVE  Inv'
  <2>1. TypeOK'
    BY <1>3 DEF ReadBalance, TypeOK, Idle
  <2>2. HeldBalanceIsAffordable'
    BY <1>3 DEF ReadBalance, TypeOK, HeldBalanceIsAffordable, Idle
  <2>3. OneOpening'
    BY <1>3 DEF ReadBalance, TypeOK, OneOpening, Opening, Idle
  <2>4. OneClosing'
    BY <1>3, StepsType DEF ReadBalance, TypeOK, OneClosing, Closing, Idle
  <2> QED BY <2>1, <2>2, <2>3, <2>4
<1>4. ASSUME NEW w \in Workers, WriteRecord(w)
      PROVE  Inv'
  <2> DEFINE s == jobs[w].step
  <2>1. /\ jobs[w].pc = "record" /\ s \in Steps /\ jobs[w].bal \in [Fields -> Nat]
        /\ s.key \in Keys /\ s.to \in Statuses \ {"none"} /\ s.credit \in Nat
    BY <1>4, StepsType DEF WriteRecord, TypeOK
  <2> HIDE DEF s
  <2>2. TypeOK'
    BY <1>4, <2>1 DEF WriteRecord, TypeOK, Idle, s
  <2>3. HeldBalanceIsAffordable'
    BY <1>4, <2>1 DEF WriteRecord, TypeOK, HeldBalanceIsAffordable, Idle
  <2>4. OneOpening'
    BY <1>4, <2>1 DEF WriteRecord, TypeOK, OneOpening, Opening, Idle, s
  <2>5. OneClosing'
    BY <1>4, <2>1, StepsType DEF WriteRecord, TypeOK, OneClosing, Closing, Idle, s
  <2> QED BY <2>2, <2>3, <2>4, <2>5
<1>5. ASSUME NEW w \in Workers, SaveBalance(w)
      PROVE  Inv'
  <2> DEFINE s == jobs[w].step
  <2>1. /\ jobs[w].pc = "save" /\ s \in Steps /\ s.key \in Keys
        /\ balance' \in [Fields -> Nat]
    BY <1>5, StepsType, AppliedIsNatural
    DEF SaveBalance, TypeOK, HeldBalanceIsAffordable
  <2> HIDE DEF s
  <2>2. TypeOK'
    BY <1>5, <2>1 DEF SaveBalance, TypeOK, Idle, s
  <2>3. HeldBalanceIsAffordable'
    BY <1>5, <2>1 DEF SaveBalance, TypeOK, HeldBalanceIsAffordable, Idle
  <2>4. OneOpening'
    BY <1>5, <2>1 DEF SaveBalance, TypeOK, OneOpening, Opening, Idle, s
  <2>5. OneClosing'
    BY <1>5, <2>1, StepsType DEF SaveBalance, TypeOK, OneClosing, Closing, Idle, s
  <2> QED BY <2>2, <2>3, <2>4, <2>5
<1>6. ASSUME NEW w \in Workers, Die(w)
      PROVE  Inv'
  <2>1. TypeOK'
    BY <1>6 DEF Die, TypeOK, Idle
  <2>2. HeldBalanceIsAffordable'
    BY <1>6 DEF Die, TypeOK, HeldBalanceIsAffordable, Idle
  <2>3. OneOpening'
    BY <1>6 DEF Die, TypeOK, OneOpening, Opening, Idle
  <2>4. OneClosing'
    BY <1>6, StepsType DEF Die, TypeOK, OneClosing, Closing, Idle
  <2> QED BY <2>1, <2>2, <2>3, <2>4
<1> QED
  BY <1>1, <1>2, <1>3, <1>4, <1>5, <1>6 DEF Next

LEMMA Invariance == Spec => []Inv
BY InitInv, NextInv, PTL DEF Spec

(***************************************************************************)
(* No interleaving of requests on an account and no crash writes a         *)
(* negative amount to the balance row.                                     *)
(***************************************************************************)
THEOREM BalancesStayNatural == Spec => []TypeOK
BY Invariance, PTL DEF Inv

(***************************************************************************)
(* However many requests race under one key, the record's creation moves   *)
(* the balance at most once.                                               *)
(***************************************************************************)
THEOREM RecordsOpenOnce == Spec => []OpenedOnce
<1>1. Inv => OpenedOnce
  BY DEF Inv, OneOpening, OpenedOnce
<1> QED
  BY <1>1, Invariance, PTL

(***************************************************************************)
(* As long as no two requests overlapped and none died half-way, a record  *)
(* is credited, released, settled or refunded into the balance at most     *)
(* once, however often the operation is asked for again.                   *)
(***************************************************************************)
THEOREM RecordsCloseOnce == Spec => []ClosedOnce
<1>1. Inv => ClosedOnce
  BY DEF Inv, OneClosing, ClosedOnce
<1> QED
  BY <1>1, Invariance, PTL

-----------------------------------------------------------------------------
(***************************************************************************)
(* The balance row and the records.                                        *)
(***************************************************************************)
LEMMA PositionType ==
  ASSUME NEW k \in Keys, NEW st \in Statuses, NEW c \in Nat
  PROVE  /\ PositionOf(k, st, c) \in [Fields -> Int]
         /\ \A f \in Fields \ {"available"} : PositionOf(k, st, c)[f] \in Nat
<1> USE AccountAssumptions
<1>1. Amount[k] \in Nat
  OBVIOUS
<1>2. CASE st \in {"observed", "credited", "signed", "confirmed"}
  BY <1>1, <1>2 DEF PositionOf, NoChange, Fields
<1>3. CASE st = "locked"
  BY <1>1, <1>3 DEF PositionOf, NoChange, Fields
<1>4. CASE st \in {"released", "settled", "refunded", "slashed", "none"}
  BY <1>1, <1>4 DEF PositionOf, NoChange, Fields
<1> QED
  BY <1>2, <1>3, <1>4 DEF Statuses

\* An operation's change is what it does to its record's position.
LEMMA StepMovesPosition ==
  ASSUME NEW s \in Steps, NEW c \in Nat, NEW f \in Fields
  PROVE  PositionOf(s.key, s.to, s.credit)[f] = PositionOf(s.key, s.from, c)[f] + s.change[f]
<1>1. \/ \E k \in Deposits : s \in DepositSteps(k)
      \/ \E k \in Withdrawals : s \in WithdrawalSteps(k)
      \/ \E k \in Entries : s \in EntrySteps(k)
      \/ \E k \in Bonds : s \in BondSteps(k)
  BY Zenon DEF Steps
<1> USE AccountAssumptions, TablesAssumption DEF Keys, Fields, NoChange, PositionOf
<1>2. CASE \E k \in Deposits : s \in DepositSteps(k)
  BY <1>2 DEF DepositSteps, ObserveDeposit, CreditNewDeposit, CreditObservedDeposit
<1>3. CASE \E k \in Withdrawals : s \in WithdrawalSteps(k)
  BY <1>3 DEF WithdrawalSteps, RequestWithdrawal, ConfirmWithdrawal
<1>4. CASE \E k \in Entries : s \in EntrySteps(k)
  BY <1>4 DEF EntrySteps, ReservePoolEntry, ReleasePoolEntry, FinalizePoolEntry
<1>5. CASE \E k \in Bonds : s \in BondSteps(k)
  BY <1>5 DEF BondSteps, ReserveBond, SettleBond
<1> QED
  BY <1>1, <1>2, <1>3, <1>4, <1>5, Zenon

\* Writing a record back calls for the balance its operation computes.
LEMMA StepMovesBalance ==
  ASSUME NEW s \in Steps, NEW rs \in [Keys -> Statuses], NEW cs \in [Keys -> Nat],
         rs[s.key] = s.from
  PROVE  Applied(BalanceOf(rs, cs), s.change)
           = BalanceOf([rs EXCEPT ![s.key] = s.to], [cs EXCEPT ![s.key] = s.credit])
<1> DEFINE rt == [rs EXCEPT ![s.key] = s.to]
           ct == [cs EXCEPT ![s.key] = s.credit]
<1>1. s.key \in Keys /\ s.to \in Statuses /\ s.credit \in Nat /\ s.change \in [Fields -> Int]
  BY StepsType
<1>2. rt \in [Keys -> Statuses] /\ ct \in [Keys -> Nat]
  BY <1>1
<1>3. /\ rt[s.key] = s.to /\ ct[s.key] = s.credit
      /\ \A k \in Keys : k # s.key => rt[k] = rs[k] /\ ct[k] = cs[k]
  BY <1>1
<1> HIDE DEF rt, ct
<1>4. ASSUME NEW f \in Fields
      PROVE  /\ BalanceOf(rt, ct)[f] = BalanceOf(rs, cs)[f] + s.change[f]
             /\ f # "available" => BalanceOf(rt, ct)[f] \in Nat
  <2> DEFINE g == Positions(rs, cs, f)
             h == Positions(rt, ct, f)
  <2>1. \A k \in Keys : g[k] = PositionOf(k, rs[k], cs[k])[f] /\ h[k] = PositionOf(k, rt[k], ct[k])[f]
    BY DEF Positions
  <2>2. \A k \in Keys : g[k] \in Int /\ h[k] \in Int /\ (f # "available" => h[k] \in Nat)
    <3> SUFFICES ASSUME NEW k \in Keys
                 PROVE  g[k] \in Int /\ h[k] \in Int /\ (f # "available" => h[k] \in Nat)
      OBVIOUS
    <3>1. rs[k] \in Statuses /\ rt[k] \in Statuses /\ cs[k] \in Nat /\ ct[k] \in Nat
      BY <1>2
    <3>2. PositionOf(k, rs[k], cs[k]) \in [Fields -> Int]
      BY <3>1, PositionType
    <3>3. /\ PositionOf(k, rt[k], ct[k]) \in [Fields -> Int]
          /\ f # "available" => PositionOf(k, rt[k], ct[k])[f] \in Nat
      BY <3>1, PositionType
    <3> HIDE DEF g, h
    <3> QED
      BY <2>1, <3>2, <3>3
  <2>3. \A k \in Keys : k # s.key => h[k] = g[k]
    BY <1>3, <2>1
  <2>4. h[s.key] = g[s.key] + s.change[f]
    <3>1. cs[s.key] \in Nat
      BY <1>1
    <3> QED
      BY <1>1, <1>3, <2>1, <3>1, StepMovesPosition
  <2>5. BalanceOf(rs, cs)[f] = SumOver(g, Keys) /\ BalanceOf(rt, ct)[f] = SumOver(h, Keys)
    BY DEF BalanceOf
  <2> HIDE DEF g, h
  <2>6. SumOver(h, Keys) = SumOver(g, Keys) + h[s.key] - g[s.key]
    <3>1. PICK j \in Keys : j = s.key
      BY <1>1
    <3>2. \A k \in Keys : k # j => h[k] = g[k]
      BY <2>3, <3>1
    <3>3. SumOver(h, Keys) = SumOver(g, Keys) + h[j] - g[j]
      BY <2>2, <3>2, SumOverChange, TablesAssumption
    <3> QED
      BY <3>1, <3>3
  <2>7. SumOver(g, Keys) \in Int
    BY <2>2, SumOverInt, TablesAssumption
  <2>8. f # "available" => SumOver(h, Keys) \in Nat
    BY <2>2, SumOverNat, TablesAssumption
  <2>9. s.change[f] \in Int /\ g[s.key] \in Int
    BY <1>1, <2>2
  <2> QED
    BY <2>4, <2>5, <2>6, <2>7, <2>8, <2>9
<1>5. ASSUME NEW f \in Fields
      PROVE  Applied(BalanceOf(rs, cs), s.change)[f] = BalanceOf(rt, ct)[f]
  BY <1>4 DEF Applied, Max0
<1>6. Applied(BalanceOf(rs, cs), s.change) = BalanceOf(rt, ct)
  <2>1. /\ DOMAIN Applied(BalanceOf(rs, cs), s.change) = Fields /\ DOMAIN BalanceOf(rt, ct) = Fields
        /\ Applied(BalanceOf(rs, cs), s.change) =
             [f \in Fields |-> Applied(BalanceOf(rs, cs), s.change)[f]]
        /\ BalanceOf(rt, ct) = [f \in Fields |-> BalanceOf(rt, ct)[f]]
    BY DEF Applied, BalanceOf
  <2> QED
    BY <1>5, <2>1
<1> QED
  BY <1>6 DEF rt, ct

LEMMA InitTracked == Init => BalanceTracked
<1> SUFFICES ASSUME Init PROVE BalanceTracked
  OBVIOUS
<1>1. \A w \in Workers : jobs[w].pc = "idle"
  BY DEF Init, Idle
<1>2. ASSUME NEW f \in Fields PROVE BalanceOf(records, credits)[f] = 0
  <2>1. \A k \in Keys : Positions(records, credits, f)[k] = 0
    BY DEF Init, Positions, PositionOf, NoChange
  <2>2. SumOver(Positions(records, credits, f), Keys) = 0
    BY <2>1, SumOverZero, TablesAssumption
  <2> QED
    BY <2>2 DEF BalanceOf
<1>3. BalanceOf(records, credits) = EmptyBalance
  BY <1>2 DEF BalanceOf, EmptyBalance
<1> QED
  BY <1>1, <1>3 DEF Init, BalanceTracked

LEMMA NextTracked ==
  ASSUME Inv, BalanceTracked, [Next]_vars
  PROVE  BalanceTracked'
<1>1. CASE UNCHANGED vars
  BY <1>1 DEF vars, BalanceTracked
<1>2. ASSUME NEW w \in Workers, NEW s \in Steps, ReadRecord(w, s) PROVE BalanceTracked'
  BY <1>2 DEF ReadRecord, Inv, TypeOK, BalanceTracked
<1>3. ASSUME NEW w \in Workers, ReadBalance(w) PROVE BalanceTracked'
  <2>1. /\ jobs[w].pc = "balance" /\ UNCHANGED <<balance, records, credits, disturbed>>
        /\ \A v \in Workers : v # w => jobs'[v] = jobs[v]
        /\ \/ jobs'[w].pc = "idle"
           \/ jobs'[w].pc = "record" /\ jobs'[w].bal = balance
    BY <1>3 DEF ReadBalance, Inv, TypeOK, Idle
  <2> QED
    BY <2>1 DEF BalanceTracked
<1>4. ASSUME NEW w \in Workers, WriteRecord(w), ~ disturbed PROVE BalanceTracked'
  <2> DEFINE s == jobs[w].step
  <2>1. /\ jobs[w].pc = "record" /\ s \in Steps /\ UNCHANGED <<balance, disturbed>>
        /\ records[s.key] = s.from
        /\ \A v \in Workers : v # w => jobs[v].pc = "idle" /\ jobs'[v] = jobs[v]
    BY <1>4 DEF WriteRecord, Inv, TypeOK, OneClosing
  <2>2. balance = BalanceOf(records, credits) /\ jobs[w].bal = balance
    BY <1>4, <2>1 DEF BalanceTracked
  <2>3. CASE /\ jobs'[w].pc = "idle" /\ UNCHANGED <<records, credits>>
    BY <2>1, <2>2, <2>3 DEF BalanceTracked
  <2>4. CASE /\ jobs'[w] = [pc |-> "save", step |-> s, bal |-> jobs[w].bal]
             /\ records' = [records EXCEPT ![s.key] = s.to]
             /\ credits' = [credits EXCEPT ![s.key] = s.credit]
    <3>1. records \in [Keys -> Statuses] /\ credits \in [Keys -> Nat]
      BY DEF Inv, TypeOK
    <3>2. jobs'[w].pc = "save" /\ jobs'[w].step = s /\ jobs'[w].bal = balance
      BY <2>2, <2>4
    <3> HIDE DEF s
    <3>3. Applied(balance, s.change) = BalanceOf(records', credits')
      BY <2>1, <2>2, <2>4, <3>1, StepMovesBalance
    <3> QED
      BY <2>1, <3>2, <3>3 DEF BalanceTracked
  <2> QED
    BY <1>4, <2>1, <2>3, <2>4 DEF WriteRecord, Inv, TypeOK, Idle
<1>5. ASSUME NEW w \in Workers, SaveBalance(w), ~ disturbed PROVE BalanceTracked'
  <2>1. /\ jobs[w].pc = "save" /\ UNCHANGED <<records, credits, disturbed>>
        /\ balance' = Applied(jobs[w].bal, jobs[w].step.change)
        /\ jobs'[w].pc = "idle"
        /\ \A v \in Workers : v # w => jobs[v].pc = "idle" /\ jobs'[v] = jobs[v]
    BY <1>5 DEF SaveBalance, Inv, TypeOK, OneClosing, Idle
  <2> QED
    BY <1>5, <2>1 DEF BalanceTracked
<1>6. ASSUME NEW w \in Workers, Die(w) PROVE BalanceTracked'
  <2>1. /\ UNCHANGED <<balance, records, credits>> /\ disturbed' = (disturbed \/ jobs[w].pc = "save")
        /\ jobs'[w].pc = "idle" /\ \A v \in Workers : v # w => jobs'[v] = jobs[v]
    BY <1>6 DEF Die, Inv, TypeOK, Idle
  <2>2. ~ disturbed' => ~ disturbed /\ jobs[w].pc # "save"
    BY <2>1, Zenon
  <2> QED
    BY <2>1, <2>2 DEF BalanceTracked
<1>7. ASSUME NEW w \in Workers, WriteRecord(w) \/ SaveBalance(w), disturbed PROVE BalanceTracked'
  BY <1>7 DEF WriteRecord, SaveBalance, BalanceTracked
<1> QED
  BY <1>1, <1>2, <1>3, <1>4, <1>5, <1>6, <1>7 DEF Next

(***************************************************************************)
(* Between requests the balance row is what the account's records add up   *)
(* to, field by field, as long as no request overlapped another and none   *)
(* died between its record write and its balance write.                    *)
(***************************************************************************)
THEOREM BalanceAlwaysMatchesRecords == Spec => []BalanceMatchesRecords
<1>1. Inv /\ BalanceTracked /\ [Next]_vars => Inv' /\ BalanceTracked'
  BY NextInv, NextTracked
<1>2. BalanceTracked => BalanceMatchesRecords
  BY DEF BalanceTracked, BalanceMatchesRecords
<1> QED
  BY <1>1, <1>2, InitInv, InitTracked, PTL DEF Spec

=============================================================================

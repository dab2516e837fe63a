------------------------ MODULE ResolverPanel_proofs ------------------------
(***************************************************************************)
(* Proofs about ResolverPanel, for any panel sizes, votes, weights, bonds  *)
(* and fees, any panels that requests bring in their bodies and any number *)
(* of overlapping and dying requests: the ledger explains the bonds, a     *)
(* settlement that ends has settled, and as long as every request had the  *)
(* same votes before it, a seat is judged once, in the ledger and in its   *)
(* USDC lock, and votes are paid for correctness.                          *)
(***************************************************************************)
EXTENDS ResolverPanel, Sums_proofs, SequenceTheorems

(***************************************************************************)
(* Part 1: the invariant.                                                  *)
(***************************************************************************)
Kinds == {"lock", "release", "fee", "slash", "reputation"}
EntryType == [kind : Kinds, field : {"bond", "reputation"}, amount : Int]
EntrySet(q) == {q[k] : k \in 1..Len(q)}

PlanPcs == {"reserve", "panel", "assign", "read", "write"}
JudgePcs == {"check", "insert", "read", "write", "bonds", "pool"}

RequestType(n) ==
  [pc : PlanPcs \cup JudgePcs, kind : {"plan", "settle", "timeout"},
   seats : SUBSET (1..n), left : SUBSET (1..n), matched : SUBSET (1..n),
   fee : Nat, answer : Answers \cup {None}, settlesPool : BOOLEAN,
   entries : Seq(EntryType), held : Nat, stored : BOOLEAN]

\* A request in flight on a panel of n seats.
Shaped(r, n) ==
  /\ r \in RequestType(n) /\ r.left # {} /\ r.left \subseteq r.seats
  /\ r.kind = "plan" => /\ r.seats = 1..n /\ r.pc \in PlanPcs
                        /\ \A e \in EntrySet(r.entries) : e.kind = "lock"
  /\ r.kind # "plan" => r.pc \in JudgePcs

WellFormed(r, n) == Shaped(r, n) /\ (r.pc \in {"read", "write"} => r.entries # <<>>)

Final == {"released", "slashed"}

\* The rows a request has left behind: bond locks lk, assignments st, payouts pt.
\* A panel from a body need have neither assignments nor locks.
Covers(r, lk, st, pt) ==
  /\ r.kind = "plan" /\ r.pc = "reserve" => \A s \in r.seats \ r.left : lk[s] # None
  /\ r.kind = "plan" /\ r.pc # "reserve" => \A s \in r.seats : lk[s] # None
  /\ r.kind # "plan" /\ r.stored => \A s \in r.seats : st[s] # None
  /\ r.kind # "plan" => \A s \in r.seats \ r.left : pt[s] # None
  /\ r.kind # "plan" /\ r.pc \in {"read", "write"} => pt[Min(r.left)] # None
  /\ r.pc \in {"bonds", "pool"} => \A s \in r.seats : pt[s] # None
  /\ r.pc = "bonds" /\ r.stored => \A s \in r.seats \ r.left : lk[s] \in Final

\* A request is at work on seat s.
At(r, s) == r.pc \in {"insert", "read", "write"} /\ Min(r.left) = s

\* What it is about to write agrees with the payout row.
Judges(r, pt, rc) ==
  r.pc # "idle" /\ r.kind # "plan" /\ Min(r.left) \notin rc =>
    /\ r.pc = "insert" => pt[Min(r.left)] = None
    /\ r.pc \in {"read", "write"} => \A e \in EntrySet(r.entries) :
         /\ e.kind \in {"release", "fee"} => pt[Min(r.left)] = "matched"
         /\ e.kind = "slash" => pt[Min(r.left)] = "missed"

\* The value it computed follows from the profile, and its entry is still to be made.
Holds(r, pf, lg, rc) ==
  r.pc = "write" =>
    /\ r.entries[1].field = "reputation" => r.held <= MaxReputation
    /\ Min(r.left) \notin rc =>
         /\ \A f \in lg[Min(r.left)] : f.kind # r.entries[1].kind
         /\ r.entries[1].field = "bond" =>
              r.held = pf[Min(r.left)].bond + r.entries[1].amount

\* One seat: its ledger lg, payout pt and profile pf.
LedgerTyped(lg) == lg \subseteq EntryType /\ IsFiniteSet(lg) /\ \A e, f \in lg : e.kind = f.kind => e = f

SeatJudged(lg, pt) ==
  \A e \in lg : /\ e.kind \in {"release", "fee"} => pt = "matched"
                /\ e.kind = "slash" => pt = "missed"

SeatExplained(lg, pf) == pf.bond = Deposit + Total({e \in lg : e.field = "bond"})

RequestsOK ==
  /\ DOMAIN requests = Workers
  /\ \A w \in Workers :
       requests[w] # Idle =>
         /\ WellFormed(requests[w], size)
         /\ Covers(requests[w], locks, status, payouts)
         /\ Judges(requests[w], payouts, raced)
         /\ Holds(requests[w], profile, ledger, raced)

Exclusive ==
  \A v, w \in Workers : \A s \in Seats :
    v # w /\ At(requests[v], s) /\ At(requests[w], s) => s \in raced

RowsOK ==
  /\ \A s \in Seats : status[s] # None => locks[s] # None
  /\ given \in Nat
  /\ given = 0 => \A s \in Seats : /\ commits[s] # None => status[s] # None
                                   /\ reveals[s] # None => commits[s] # None
  /\ DOMAIN ledger = Seats /\ \A s \in Seats : LedgerTyped(ledger[s])
  /\ served \subseteq Seats /\ ServedIsSettled

PanelInv ==
  /\ TypeOK /\ RequestsOK /\ Exclusive /\ RowsOK
  /\ \A s \in Seats \ raced : SeatJudged(ledger[s], payouts[s])
  /\ \A s \in Seats \ (raced \cup torn) : SeatExplained(ledger[s], profile[s])

-----------------------------------------------------------------------------
(***************************************************************************)
(* Part 2: the operators.                                                  *)
(***************************************************************************)
LEMMA MinIn ==
  ASSUME NEW S \in SUBSET Nat, S # {}
  PROVE  Min(S) \in S
<1> DEFINE N == {n \in Nat : (\E x \in S : x <= n) => \E x \in S : \A y \in S : x <= y}
<1>1. N \in SUBSET Nat
  OBVIOUS
<1>2. 0 \in N
  <2> SUFFICES ASSUME NEW x \in S, x <= 0 PROVE \E z \in S : \A y \in S : z <= y
    OBVIOUS
  <2>1. \A y \in S : x <= y
    OBVIOUS
  <2> QED
    BY <2>1
<1>3. ASSUME NEW n \in N PROVE n + 1 \in N
  <2>1. n + 1 \in Nat
    BY <1>1
  <2>2. ASSUME NEW x \in S, x <= n + 1 PROVE \E z \in S : \A y \in S : z <= y
    <3>1. CASE \E y \in S : y <= n
      BY <3>1
    <3>2. CASE ~ \E y \in S : y <= n
      <4>1. \A y \in S : x <= y
        BY <1>1, <2>2, <3>2
      <4> QED
        BY <4>1
    <3> QED
      BY <3>1, <3>2
  <2> QED
    BY <2>1, <2>2
<1>4. PICK x \in S : TRUE
  OBVIOUS
<1>5. x \in N
  <2> HIDE DEF N
  <2> QED
    BY <1>1, <1>2, <1>3, SetInduction
<1>6. \E z \in S : \A y \in S : z <= y
  BY <1>5
<1> QED
  BY <1>6 DEF Min

LEMMA ClampRange ==
  ASSUME NEW v \in Int
  PROVE  Clamp(v) \in 0..MaxReputation
<1> USE PanelAssumption
<1> DEFINE m == Min({MaxReputation, v})
<1>1. m \in {MaxReputation, v} /\ m <= MaxReputation
  <2>1. \E x \in {MaxReputation, v} : \A y \in {MaxReputation, v} : x <= y
    <3>1. CASE MaxReputation <= v
      BY <3>1
    <3>2. CASE v <= MaxReputation
      BY <3>2
    <3> QED
      BY <3>1, <3>2
  <2> QED
    BY <2>1 DEF Min
<1> HIDE DEF m
<1>2. Max({0, m}) \in {0, m} /\ Max({0, m}) >= 0
  <2>1. m \in Int
    BY <1>1
  <2>2. \E x \in {0, m} : \A y \in {0, m} : x >= y
    <3>1. CASE 0 >= m
      BY <2>1, <3>1
    <3>2. CASE m >= 0
      BY <2>1, <3>2
    <3> QED
      BY <2>1, <3>1, <3>2
  <2> QED
    BY <2>2 DEF Max
<1> QED
  BY <1>1, <1>2 DEF Clamp, m

LEMMA NoEntries ==
  <<>> \in Seq(EntryType) /\ EntrySet(<<>>) = {}
<1>1. Len(<<>>) = 0 /\ 1..0 = {}
  OBVIOUS
<1> QED
  BY <1>1 DEF EntrySet

LEMMA EntryParts ==
  ASSUME NEW q \in Seq(EntryType), q # <<>>
  PROVE  /\ Head(q) = q[1] /\ q[1] \in EntryType /\ q[1] \in EntrySet(q)
         /\ Tail(q) \in Seq(EntryType) /\ EntrySet(Tail(q)) \subseteq EntrySet(q)
<1>1. Len(q) \in Nat /\ Len(q) >= 1 /\ q[1] \in EntryType /\ Head(q) = q[1]
  OBVIOUS
<1>2. Tail(q) \in Seq(EntryType) /\ Len(Tail(q)) = Len(q) - 1
      /\ \A k \in 1..Len(Tail(q)) : Tail(q)[k] = q[k + 1]
  OBVIOUS
<1>3. \A k \in 1..Len(Tail(q)) : k + 1 \in 1..Len(q)
  BY <1>1, <1>2
<1> QED
  BY <1>1, <1>2, <1>3 DEF EntrySet

LEMMA PairOfOnes ==
  ASSUME NEW x \in EntryType, NEW y \in EntryType
  PROVE  <<x>> \o <<y>> = <<x, y>>
<1> DEFINE p == <<x>>
           q == <<x, y>>
           o == <<y>>
<1>1. p \in Seq(EntryType) /\ Len(p) = 1 /\ p[1] = x
      /\ q \in Seq(EntryType) /\ Len(q) = 2 /\ q[1] = x /\ q[2] = y
      /\ o \in Seq(EntryType) /\ Len(o) = 1 /\ o[1] = y
  OBVIOUS
<1> HIDE DEF p, q, o
<1>2. p \o o \in Seq(EntryType) /\ Len(p \o o) = 2
  BY <1>1, ConcatProperties
<1>3. (p \o o)[1] = x /\ (p \o o)[2] = y
  BY <1>1, ConcatProperties
<1>4. \A k \in 1..2 : k = 1 \/ k = 2
  OBVIOUS
<1>5. p \o o = q
  BY <1>1, <1>2, <1>3, <1>4, SeqEqual
<1> QED
  BY <1>5 DEF p, q, o

LEMMA PairAndOne ==
  ASSUME NEW x \in EntryType, NEW y \in EntryType, NEW z \in EntryType
  PROVE  <<x, y>> \o <<z>> = <<x, y, z>>
<1> DEFINE p == <<x, y>>
           q == <<x, y, z>>
           o == <<z>>
<1>1. p \in Seq(EntryType) /\ Len(p) = 2 /\ p[1] = x /\ p[2] = y
      /\ q \in Seq(EntryType) /\ Len(q) = 3 /\ q[1] = x /\ q[2] = y /\ q[3] = z
      /\ o \in Seq(EntryType) /\ Len(o) = 1 /\ o[1] = z
  OBVIOUS
<1> HIDE DEF p, q, o
<1>2. /\ p \o o \in Seq(EntryType) /\ Len(p \o o) = Len(p) + Len(o)
      /\ \A k \in 1..Len(p) + Len(o) : (p \o o)[k] = IF k <= Len(p) THEN p[k] ELSE o[k - Len(p)]
  BY <1>1, ConcatProperties, Zenon
<1>3. Len(p \o o) = 3 /\ (p \o o)[1] = x /\ (p \o o)[2] = y /\ (p \o o)[3] = z
  BY <1>1, <1>2
<1>4. \A k \in 1..3 : k = 1 \/ k = 2 \/ k = 3
  OBVIOUS
<1>5. p \o o = q
  BY <1>1, <1>2, <1>3, <1>4, SeqEqual
<1> QED
  BY <1>5 DEF p, q, o

\* The entries of a verdict.
LEMMA AccountingParts ==
  ASSUME NEW matched \in BOOLEAN, NEW fee \in Nat
  PROVE  LET q == Accounting(matched, fee) IN
         /\ q \in Seq(EntryType) /\ q # <<>>
         /\ \A e \in EntrySet(q) :
              /\ e.kind \in {"release", "fee"} => matched
              /\ e.kind = "slash" => ~ matched
              /\ e.kind = "fee" => e.amount = fee
<1> USE PanelAssumption
<1> DEFINE a == Entry("release", "bond", Bond)
           b == Entry("fee", "bond", fee)
           c == Entry("reputation", "reputation", Gain)
           d == Entry("slash", "bond", 0)
           e1 == Entry("reputation", "reputation", - Loss)
<1>1. a \in EntryType /\ b \in EntryType /\ c \in EntryType /\ d \in EntryType /\ e1 \in EntryType
  BY DEF Entry, EntryType, Kinds
<1>2. a.kind = "release" /\ b.kind = "fee" /\ b.amount = fee /\ c.kind = "reputation"
      /\ d.kind = "slash" /\ e1.kind = "reputation"
  BY DEF Entry
<1>3. \A x, y, z \in EntryType : <<x>> \o <<y>> \o <<z>> = <<x, y, z>> /\ <<x>> \o <<>> \o <<z>> = <<x, z>>
  <2> SUFFICES ASSUME NEW x \in EntryType, NEW y \in EntryType, NEW z \in EntryType
               PROVE  <<x>> \o <<y>> \o <<z>> = <<x, y, z>> /\ <<x>> \o <<>> \o <<z>> = <<x, z>>
    OBVIOUS
  <2>1. <<x>> \o <<y>> = <<x, y>> /\ <<x>> \o <<z>> = <<x, z>>
    BY PairOfOnes
  <2>2. <<x, y>> \o <<z>> = <<x, y, z>>
    BY PairAndOne
  <2>3. <<x>> \o <<>> = <<x>>
    OBVIOUS
  <2> QED
    BY <2>1, <2>2, <2>3
<1>4. (matched => Accounting(matched, fee) \in {<<a, b, c>>, <<a, c>>})
      /\ (~ matched => Accounting(matched, fee) = <<d, e1>>)
  <2>1. <<a>> \o <<b>> \o <<c>> = <<a, b, c>> /\ <<a>> \o <<>> \o <<c>> = <<a, c>>
    <3> HIDE DEF a, b, c
    <3> QED
      BY <1>1, <1>3
  <2> QED
    BY <2>1 DEF Accounting
<1> HIDE DEF a, b, c, d, e1
<1>5. CASE Accounting(matched, fee) = <<a, b, c>>
  <2>1. EntrySet(<<a, b, c>>) \subseteq {a, b, c} /\ <<a, b, c>> \in Seq(EntryType) /\ <<a, b, c>> # <<>>
    BY <1>1 DEF EntrySet
  <2>2. matched
    <3>1. <<a, b, c>>[1] = a /\ <<d, e1>>[1] = d
      OBVIOUS
    <3> QED
      BY <1>2, <1>4, <1>5, <3>1
  <2> QED
    BY <1>2, <1>5, <2>1, <2>2
<1>6. CASE Accounting(matched, fee) = <<a, c>>
  <2>1. EntrySet(<<a, c>>) \subseteq {a, c} /\ <<a, c>> \in Seq(EntryType) /\ <<a, c>> # <<>>
    BY <1>1 DEF EntrySet
  <2>2. matched
    <3>1. <<a, c>>[1] = a /\ <<d, e1>>[1] = d
      OBVIOUS
    <3> QED
      BY <1>2, <1>4, <1>6, <3>1
  <2> QED
    BY <1>2, <1>6, <2>1, <2>2
<1>7. CASE Accounting(matched, fee) = <<d, e1>>
  <2>1. EntrySet(<<d, e1>>) \subseteq {d, e1} /\ <<d, e1>> \in Seq(EntryType) /\ <<d, e1>> # <<>>
    BY <1>1 DEF EntrySet
  <2>2. ~ matched
    <3>1. <<a, b, c>>[1] = a /\ <<a, c>>[1] = a /\ <<d, e1>>[1] = d
      OBVIOUS
    <3> QED
      BY <1>2, <1>4, <1>7, <3>1
  <2> QED
    BY <1>2, <1>7, <2>1, <2>2
<1> QED
  BY <1>4, <1>5, <1>6, <1>7

\* A request that is done with a seat goes on to the next one, or the next loop.
LEMMA AfterSeatKeeps ==
  ASSUME NEW n \in Nat, NEW r, Shaped(r, n), NEW lk, NEW st, NEW pt, Covers(r, lk, st, pt),
         r.pc \in {"check", "read"}, r.kind # "plan" => pt[Min(r.left)] # None
  PROVE  LET a == AfterSeat(r) IN
         \/ a = Idle
         \/ /\ WellFormed(a, n) /\ Covers(a, lk, st, pt) /\ a.pc \in {"assign", "check", "bonds"}
            /\ a.kind = r.kind /\ a.seats = r.seats /\ a.matched = r.matched /\ a.fee = r.fee
            /\ a.answer = r.answer /\ a.settlesPool = r.settlesPool /\ a.stored = r.stored
<1> DEFINE rest == r.left \ {Min(r.left)}
<1>1. r \in RequestType(n) /\ r.left \subseteq r.seats /\ r.seats \subseteq 1..n /\ r.left \subseteq 1..n
      /\ r.left # {}
  BY DEF Shaped, RequestType
<1>2. <<>> \in Seq(EntryType) /\ EntrySet(<<>>) = {}
  BY NoEntries
<1>3. Min(r.left) \in r.left
  <2>1. r.left \in SUBSET Nat
    BY <1>1
  <2> QED
    BY <1>1, <2>1, MinIn
<1>4. CASE rest # {} /\ r.kind = "plan"
  <2> DEFINE a == [r EXCEPT !.left = rest, !.entries = <<>>, !.pc = "assign"]
  <2>1. AfterSeat(r) = a
    BY <1>4 DEF AfterSeat
  <2>2. /\ a \in RequestType(n) /\ a.left = rest /\ a.entries = <<>> /\ a.pc = "assign"
        /\ a.kind = r.kind /\ a.seats = r.seats /\ a.matched = r.matched /\ a.fee = r.fee
        /\ a.answer = r.answer /\ a.settlesPool = r.settlesPool /\ a.stored = r.stored
    BY <1>1, <1>2 DEF RequestType, PlanPcs, JudgePcs
  <2> HIDE DEF a
  <2>3. r.pc = "read" /\ r.seats = 1..n
    BY <1>4 DEF Shaped, PlanPcs
  <2>4. WellFormed(a, n)
    BY <1>1, <1>2, <1>4, <2>2, <2>3 DEF WellFormed, Shaped, PlanPcs
  <2>5. Covers(a, lk, st, pt)
    BY <1>4, <2>2, <2>3 DEF Covers
  <2> QED
    BY <2>1, <2>2, <2>4, <2>5
<1>5. CASE rest = {} /\ r.kind = "plan"
  BY <1>5 DEF AfterSeat
<1>6. CASE rest # {} /\ r.kind # "plan"
  <2> DEFINE a == [r EXCEPT !.left = rest, !.entries = <<>>, !.pc = "check"]
  <2>1. AfterSeat(r) = a
    BY <1>6 DEF AfterSeat
  <2>2. /\ a \in RequestType(n) /\ a.left = rest /\ a.entries = <<>> /\ a.pc = "check"
        /\ a.kind = r.kind /\ a.seats = r.seats /\ a.matched = r.matched /\ a.fee = r.fee
        /\ a.answer = r.answer /\ a.settlesPool = r.settlesPool /\ a.stored = r.stored
    BY <1>1, <1>2 DEF RequestType, PlanPcs, JudgePcs
  <2> HIDE DEF a
  <2>3. WellFormed(a, n)
    BY <1>1, <1>2, <1>6, <2>2 DEF WellFormed, Shaped, JudgePcs
  <2>4. Covers(a, lk, st, pt)
    BY <1>6, <2>2 DEF Covers
  <2> QED
    BY <2>1, <2>2, <2>3, <2>4
<1>7. CASE rest = {} /\ r.kind # "plan"
  <2> DEFINE a == [r EXCEPT !.left = r.seats, !.entries = <<>>, !.pc = "bonds"]
  <2>1. AfterSeat(r) = a
    BY <1>7 DEF AfterSeat
  <2>2. /\ a \in RequestType(n) /\ a.left = r.seats /\ a.entries = <<>> /\ a.pc = "bonds"
        /\ a.kind = r.kind /\ a.seats = r.seats /\ a.matched = r.matched /\ a.fee = r.fee
        /\ a.answer = r.answer /\ a.settlesPool = r.settlesPool /\ a.stored = r.stored
    BY <1>1, <1>2 DEF RequestType, PlanPcs, JudgePcs
  <2> HIDE DEF a
  <2>3. WellFormed(a, n)
    BY <1>1, <1>2, <1>7, <2>2 DEF WellFormed, Shaped, JudgePcs
  <2>4. \A s \in r.seats : pt[s] # None
    BY <1>7 DEF Covers
  <2>5. Covers(a, lk, st, pt)
    BY <1>7, <2>2, <2>4 DEF Covers
  <2> QED
    BY <2>1, <2>2, <2>3, <2>5
<1> QED
  BY <1>4, <1>5, <1>6, <1>7

\* A request that has made an entry goes on to the next one.
LEMMA AdvanceKeeps ==
  ASSUME NEW n \in Nat, NEW r, Shaped(r, n), r.pc = "read",
         NEW lk, NEW st, NEW pt, NEW pf, NEW lg, NEW rc,
         Covers(r, lk, st, pt), Judges(r, pt, rc)
  PROVE  LET a == Advance(r) IN
         \/ a = Idle
         \/ /\ WellFormed(a, n) /\ Covers(a, lk, st, pt) /\ Judges(a, pt, rc) /\ Holds(a, pf, lg, rc)
            /\ \A s : At(a, s) => At(r, s)
            /\ a.kind = r.kind /\ a.seats = r.seats /\ a.matched = r.matched /\ a.fee = r.fee
            /\ a.answer = r.answer /\ a.settlesPool = r.settlesPool /\ a.stored = r.stored /\ (a = r \/ a.pc \in {"assign", "check", "bonds"})
<1>1. CASE r.entries = <<>>
  <2> DEFINE a == AfterSeat(r)
  <2>1. r.kind # "plan" => pt[Min(r.left)] # None
    BY DEF Covers
  <2>2. \/ a = Idle
        \/ /\ WellFormed(a, n) /\ Covers(a, lk, st, pt) /\ a.pc \in {"assign", "check", "bonds"}
           /\ a.kind = r.kind /\ a.seats = r.seats /\ a.matched = r.matched /\ a.fee = r.fee
           /\ a.answer = r.answer /\ a.settlesPool = r.settlesPool /\ a.stored = r.stored
    BY <2>1, AfterSeatKeeps
  <2> HIDE DEF a
  <2>3. a.pc \in {"assign", "check", "bonds"} => Judges(a, pt, rc) /\ Holds(a, pf, lg, rc) /\ \A s : ~ At(a, s)
    BY DEF Judges, Holds, At
  <2>4. Advance(r) = a
    BY <1>1 DEF Advance, a
  <2> QED
    BY <2>2, <2>3, <2>4
<1>2. CASE r.entries # <<>>
  <2>1. Advance(r) = r
    BY <1>2 DEF Advance
  <2>2. WellFormed(r, n) /\ Holds(r, pf, lg, rc)
    BY <1>2 DEF WellFormed, Holds
  <2> QED
    BY <2>1, <2>2
<1> QED
  BY <1>1, <1>2

\* The weight of an answer, and the heaviest one.
LEMMA WeightType ==
  ASSUME NEW S, IsFiniteSet(S), \A s \in S : Weight[s] \in Nat \ {0}, NEW a
  PROVE  /\ WeightFor(a, S) \in Nat
         /\ (\E s \in S : reveals[s] = a) => WeightFor(a, S) > 0
         /\ (\A s \in S : reveals[s] # a) => WeightFor(a, S) = 0
<1> DEFINE T == {s \in S : reveals[s] = a}
<1>1. IsFiniteSet(T) /\ \A s \in T : Weight[s] \in Nat /\ Weight[s] \in Int
  BY FS_Subset
<1>2. SumOver(Weight, T) \in Nat
  BY <1>1, SumOverNat
<1>3. ASSUME NEW s \in T PROVE SumOver(Weight, T) > 0
  <2>1. IsFiniteSet(T \ {s}) /\ \A x \in T \ {s} : Weight[x] \in Nat
    BY <1>1, FS_Subset
  <2>2. SumOver(Weight, T \ {s}) \in Nat
    BY <2>1, SumOverNat
  <2>3. SumOver(Weight, T) = Weight[s] + SumOver(Weight, T \ {s})
    BY <1>1, SumOverWithout
  <2>4. Weight[s] \in Nat \ {0}
    OBVIOUS
  <2> QED
    BY <2>2, <2>3, <2>4
<1>4. T = {} => SumOver(Weight, T) = 0
  BY SumOverEmpty
<1> QED
  BY <1>2, <1>3, <1>4 DEF WeightFor

LEMMA ConsensusIsHeaviest ==
  ASSUME NEW S, IsFiniteSet(S), \A s \in S : Weight[s] \in Nat \ {0}
  PROVE  /\ ConsensusOf(S) \in Answers
         /\ \A b \in Answers : WeightFor(ConsensusOf(S), S) >= WeightFor(b, S)
<1> DEFINE i == WeightFor("invalid", S)
           n == WeightFor("no", S)
           y == WeightFor("yes", S)
           Heavier(a, b) == \/ WeightFor(a, S) > WeightFor(b, S)
                            \/ WeightFor(a, S) = WeightFor(b, S) /\ Rank(a) < Rank(b)
<1>1. i \in Nat /\ n \in Nat /\ y \in Nat
  BY WeightType
<1>2. Rank("invalid") = 1 /\ Rank("no") = 2 /\ Rank("yes") = 3
  BY DEF Rank
<1>3. \E a \in Answers : \A b \in Answers \ {a} : Heavier(a, b)
  <2>1. CASE i >= n /\ i >= y
    <3>1. Heavier("invalid", "no") /\ Heavier("invalid", "yes")
      BY <1>1, <1>2, <2>1
    <3> QED
      BY <3>1 DEF Answers
  <2>2. CASE n > i /\ n >= y
    <3>1. Heavier("no", "invalid") /\ Heavier("no", "yes")
      BY <1>1, <1>2, <2>2
    <3> QED
      BY <3>1 DEF Answers
  <2>3. CASE y > i /\ y > n
    <3>1. Heavier("yes", "invalid") /\ Heavier("yes", "no")
      BY <1>1, <1>2, <2>3
    <3> QED
      BY <3>1 DEF Answers
  <2> QED
    BY <1>1, <2>1, <2>2, <2>3
<1>4. ConsensusOf(S) \in Answers /\ \A b \in Answers \ {ConsensusOf(S)} : Heavier(ConsensusOf(S), b)
  BY <1>3 DEF ConsensusOf
<1>5. \A b \in Answers : WeightFor(b, S) \in Nat
  BY WeightType
<1> QED
  BY <1>4, <1>5

\* The consensus of a panel with a vote is somebody's vote.
LEMMA SomebodyAgrees ==
  ASSUME NEW S, IsFiniteSet(S), \A s \in S : Weight[s] \in Nat \ {0}, NEW v \in S, reveals[v] \in Answers
  PROVE  Agreeing(S) # {}
<1> DEFINE c == ConsensusOf(S)
<1>1. c \in Answers /\ WeightFor(c, S) >= WeightFor(reveals[v], S)
  BY ConsensusIsHeaviest
<1>2. WeightFor(reveals[v], S) > 0 /\ WeightFor(reveals[v], S) \in Nat
  BY WeightType
<1>3. WeightFor(c, S) \in Nat
  BY WeightType
<1>4. ~ \A s \in S : reveals[s] # c
  <2>1. (\A s \in S : reveals[s] # c) => WeightFor(c, S) = 0
    BY WeightType
  <2> QED
    BY <1>1, <1>2, <1>3, <2>1
<1> QED
  BY <1>4 DEF Agreeing

-----------------------------------------------------------------------------
(***************************************************************************)
(* Part 3: steps of requests.                                              *)
(***************************************************************************)
RowTypes ==
  /\ size \in Sizes
  /\ locks \in [Seats -> {None, "locked", "released", "slashed"}]
  /\ panel \in BOOLEAN
  /\ status \in [Seats -> {None, "assigned", "committed", "revealed", "paid", "slashed"}]
  /\ commits \in [Seats -> Answers \cup {None}]
  /\ reveals \in [Seats -> Answers \cup {None}]
  /\ payouts \in [Seats -> {None, "matched", "missed"}]
  /\ profile \in [Seats -> [bond : Nat, reputation : 0..MaxReputation]]
  /\ pool \in Answers \cup {None}

RequestOK(w) ==
  /\ WellFormed(requests[w], size)
  /\ Covers(requests[w], locks, status, payouts)
  /\ Judges(requests[w], payouts, raced)
  /\ Holds(requests[w], profile, ledger, raced)

Explained ==
  /\ \A s \in Seats \ raced : SeatJudged(ledger[s], payouts[s])
  /\ \A s \in Seats \ (raced \cup torn) : SeatExplained(ledger[s], profile[s])

\* The parts of the invariant, as the steps below use and rebuild them.
LEMMA InvParts ==
  PanelInv <=> RowTypes /\ RequestsOK /\ Exclusive /\ RowsOK /\ Explained
<1>1. RequestsOK => \A w \in Workers :
       requests[w].pc \in {"idle", "reserve", "panel", "assign", "read", "write",
                          "check", "insert", "bonds", "pool"}
  <2> SUFFICES ASSUME RequestsOK, NEW w \in Workers
               PROVE  requests[w].pc \in {"idle", "reserve", "panel", "assign", "read", "write",
                                          "check", "insert", "bonds", "pool"}
    OBVIOUS
  <2>1. CASE requests[w] = Idle
    BY <2>1 DEF Idle
  <2>2. CASE requests[w] # Idle
    <3>1. requests[w] \in RequestType(size)
      BY <2>2 DEF RequestsOK, WellFormed, Shaped
    <3>2. requests[w].pc \in PlanPcs \cup JudgePcs
      BY <3>1 DEF RequestType
    <3> QED
      BY <3>2 DEF PlanPcs, JudgePcs
  <2> QED
    BY <2>1, <2>2
<1> QED
  BY <1>1 DEF PanelInv, TypeOK, RowTypes, Explained

LEMMA InvPartsNext ==
  RowTypes' /\ RequestsOK' /\ Exclusive' /\ RowsOK' /\ Explained' => PanelInv'
BY InvParts, PTL

LEMMA SeatsOK ==
  ASSUME RowTypes
  PROVE  size \in Nat \ {0} /\ Seats = 1..size /\ Seats \subseteq Nat
BY PanelAssumption DEF RowTypes, Seats

\* A request in flight, and the seat it is at.
LEMMA Working ==
  ASSUME PanelInv, NEW w \in Workers, requests[w].pc # "idle"
  PROVE  /\ requests[w] # Idle /\ RequestOK(w)
         /\ requests[w] \in RequestType(size) /\ Shaped(requests[w], size)
         /\ Seat(w) = Min(requests[w].left) /\ Seat(w) \in requests[w].left
         /\ requests[w].left \subseteq requests[w].seats /\ requests[w].seats \subseteq Seats
         /\ Seat(w) \in Seats
<1>1. RowTypes /\ RequestsOK
  BY InvParts
<1>2. requests[w] # Idle
  BY DEF Idle
<1>3. RequestOK(w)
  BY <1>1, <1>2 DEF RequestsOK, RequestOK
<1>4. requests[w] \in RequestType(size) /\ Shaped(requests[w], size)
  BY <1>3 DEF RequestOK, WellFormed, Shaped
<1>5. requests[w].left # {} /\ requests[w].left \subseteq requests[w].seats
      /\ requests[w].seats \subseteq Seats
  BY <1>4 DEF Shaped, RequestType, Seats
<1>6. requests[w].left \in SUBSET Nat
  BY <1>1, <1>5, SeatsOK
<1>7. Seat(w) = Min(requests[w].left) /\ Seat(w) \in requests[w].left
  BY <1>5, <1>6, MinIn DEF Seat
<1> QED
  BY <1>2, <1>3, <1>4, <1>5, <1>7

\* A worker without a request.
LEMMA Resting ==
  ASSUME PanelInv, NEW w \in Workers, requests[w].pc = "idle"
  PROVE  requests[w] = Idle
<1>1. RequestsOK
  BY InvParts
<1>2. ASSUME requests[w] # Idle PROVE FALSE
  <2>1. requests[w] \in RequestType(size)
    BY <1>1, <1>2 DEF RequestsOK, WellFormed, Shaped
  <2>2. requests[w].pc \in PlanPcs \cup JudgePcs
    BY <2>1 DEF RequestType
  <2> QED
    BY <2>2 DEF PlanPcs, JudgePcs
<1> QED
  BY <1>2

\* What no step undoes.
Grows ==
  /\ size' = size /\ raced \subseteq raced'
  /\ \A s \in Seats : /\ locks[s] # None => locks'[s] # None
                      /\ locks[s] \in Final => locks'[s] \in Final
                      /\ status[s] # None => status'[s] # None
                      /\ payouts[s] # None => payouts'[s] # None

\* Seat s is left as it is, or two requests work on it.
SeatKept(s) ==
  s \notin raced' =>
    payouts'[s] = payouts[s] /\ profile'[s].bond = profile[s].bond /\ ledger'[s] = ledger[s]

\* A request another one steps beside stays well-formed.
LEMMA RequestKept ==
  ASSUME PanelInv, NEW v \in Workers, requests[v] # Idle, requests'[v] = requests[v], Grows,
         \A s \in Seats : At(requests[v], s) => SeatKept(s)
  PROVE  RequestOK(v)'
<1> DEFINE r == requests[v]
<1>0. RequestOK(v) /\ r.pc # "idle"
  <2>1. r.pc # "idle"
    BY Resting
  <2> QED
    BY <2>1, Working
<1>1. r.left \subseteq r.seats /\ r.seats \subseteq Seats /\ Min(r.left) \in Seats /\ Min(r.left) \in r.left
  BY <1>0, Working
<1>2. WellFormed(r, size)' 
  BY <1>0 DEF RequestOK, Grows
<1>3. Covers(r, locks, status, payouts)'
  <2> DEFINE r2 == requests'[v]
  <2>1. r2 = r
    OBVIOUS
  <2>2. Covers(r, locks, status, payouts)
    BY <1>0 DEF RequestOK
  <2> HIDE DEF r, r2
  <2>3. Covers(r, locks', status', payouts')
    BY <1>1, <2>2 DEF Covers, Grows
  <2> QED
    BY <2>1, <2>3 DEF r, r2
<1> DEFINE m == Min(r.left)
<1>4. At(r, m) /\ m \notin raced' => payouts'[m] = payouts[m] /\ profile'[m].bond = profile[m].bond
                                     /\ ledger'[m] = ledger[m] /\ m \notin raced
  BY <1>1 DEF SeatKept, Grows
<1>5. Judges(r, payouts, raced)'
  <2>1. Judges(r, payouts, raced)
    BY <1>0 DEF RequestOK
  <2>2. Judges(r, payouts', raced')
    <3> HIDE DEF r
    <3> QED
      BY <1>4, <2>1 DEF Judges, At
  <2> QED
    BY <2>2
<1>6. Holds(r, profile, ledger, raced)'
  <2>1. Holds(r, profile, ledger, raced)
    BY <1>0 DEF RequestOK
  <2>2. Holds(r, profile', ledger', raced')
    <3> HIDE DEF r
    <3> QED
      BY <1>4, <2>1 DEF Holds, At
  <2> QED
    BY <2>2
<1> QED
  BY <1>2, <1>3, <1>5, <1>6 DEF RequestOK

\* A step of request w: the others stay well-formed and alone at their seats.
LEMMA RequestStep ==
  ASSUME PanelInv, NEW w \in Workers, Grows, DOMAIN requests' = Workers,
         \A v \in Workers : v # w => requests'[v] = requests[v],
         \A s \in Seats : ~ At(requests[w], s) => SeatKept(s),
         requests'[w] # Idle => RequestOK(w)',
         \A s \in Seats : At(requests'[w], s) =>
           \/ At(requests[w], s) \/ s \in raced'
           \/ \A v \in Workers : v # w => ~ At(requests[v], s)
  PROVE  RequestsOK' /\ Exclusive'
<1>1. RequestsOK /\ Exclusive
  BY InvParts
<1>2. ASSUME NEW v \in Workers, requests'[v] # Idle PROVE RequestOK(v)'
  <2>1. CASE v = w
    BY <1>2, <2>1
  <2>2. CASE v # w
    <3>1. requests'[v] = requests[v] /\ requests[v] # Idle
      BY <1>2, <2>2
    <3>2. ASSUME NEW s \in Seats, At(requests[v], s) PROVE SeatKept(s)
      <4>1. CASE At(requests[w], s)
        BY <1>1, <2>2, <3>2, <4>1 DEF Exclusive, Grows, SeatKept
      <4> QED
        BY <4>1
    <3> QED
      BY <3>1, <3>2, RequestKept
  <2> QED
    BY <2>1, <2>2
<1>3. RequestsOK'
  BY <1>2 DEF RequestsOK, RequestOK
<1>4. Exclusive'
  <2> SUFFICES ASSUME NEW u \in Workers, NEW v \in Workers, NEW s \in Seats, u # v,
                      At(requests'[u], s), At(requests'[v], s)
               PROVE  s \in raced'
    BY DEF Exclusive, Seats, Grows
  <2>1. CASE u # w /\ v # w
    BY <1>1, <2>1 DEF Exclusive, Grows
  <2>2. CASE u = w
    BY <1>1, <2>2 DEF Exclusive, Grows
  <2>3. CASE v = w
    BY <1>1, <2>3 DEF Exclusive, Grows
  <2> QED
    BY <2>1, <2>2, <2>3
<1> QED
  BY <1>3, <1>4

-----------------------------------------------------------------------------
(***************************************************************************)
(* Part 4: the actions.                                                    *)
(***************************************************************************)
\* Only request w moves.
Moves(w) ==
  DOMAIN requests' = Workers /\ \A v \in Workers : v # w => requests'[v] = requests[v]

LEMMA UpdateMoves ==
  ASSUME PanelInv, NEW w \in Workers, NEW ACTION r, requests' = [requests EXCEPT ![w] = r]
  PROVE  Moves(w) /\ requests'[w] = r
<1>1. DOMAIN requests = Workers
  BY InvParts DEF RequestsOK
<1> QED
  BY <1>1 DEF Moves

\* A step that writes no row but the panel's or the pool's.
LEMMA QuietStep ==
  ASSUME PanelInv, NEW w \in Workers, Moves(w), raced \subseteq raced',
         UNCHANGED <<size, locks, status, votes, payouts, profile, ledger, served, torn>>,
         given' \in {given, given + 1},
         panel' \in BOOLEAN, pool' \in Answers \cup {None},
         requests'[w] # Idle => RequestOK(w)',
         \A s \in Seats : At(requests'[w], s) =>
           \/ At(requests[w], s) \/ s \in raced'
           \/ \A v \in Workers : v # w => ~ At(requests[v], s)
  PROVE  PanelInv'
<1>1. RowTypes /\ RowsOK /\ Explained
  BY InvParts
<1>2. Grows /\ \A s \in Seats : SeatKept(s)
  BY DEF Grows, SeatKept
<1>3. RequestsOK' /\ Exclusive'
  BY <1>2, RequestStep DEF Moves
<1>4. RowTypes'
  BY <1>1 DEF RowTypes, Seats, votes
<1>5. RowsOK'
  BY <1>1 DEF RowsOK, Seats, votes, ServedIsSettled
<1>6. Explained'
  BY <1>1 DEF Explained, Seats
<1> QED
  BY <1>3, <1>4, <1>5, <1>6, InvPartsNext

\* A request that is answered or gone.
LEMMA EndKeeps ==
  ASSUME PanelInv, NEW w \in Workers, End(w), raced' = raced,
         UNCHANGED <<size, locks, status, votes, payouts, profile, ledger, served, torn, given>>,
         panel' \in BOOLEAN, pool' \in Answers \cup {None}
  PROVE  PanelInv'
<1>1. Moves(w) /\ requests'[w] = Idle
  BY UpdateMoves DEF End
<1>2. \A s \in Seats : ~ At(requests'[w], s)
  BY <1>1 DEF At, Idle
<1> QED
  BY <1>1, <1>2, QuietStep

LEMMA DieKeeps ==
  ASSUME PanelInv, NEW w \in Workers, Die(w)
  PROVE  PanelInv'
<1>1. panel \in BOOLEAN /\ pool \in Answers \cup {None}
  BY InvParts DEF RowTypes
<1> QED
  BY <1>1, EndKeeps DEF Die

LEMMA ResolvePoolKeeps ==
  ASSUME PanelInv, NEW w \in Workers, ResolvePool(w)
  PROVE  PanelInv'
<1>1. panel \in BOOLEAN /\ pool \in Answers \cup {None}
  BY InvParts DEF RowTypes
<1>2. requests[w].answer \in Answers \cup {None}
  BY Working DEF ResolvePool, RequestType
<1> QED
  BY <1>1, <1>2, EndKeeps DEF ResolvePool, history

\* A request that begins.
LEMMA StartKeeps ==
  ASSUME PanelInv, NEW w \in Workers, NEW r, Start(w, r), raced' = raced,
         UNCHANGED <<size, locks, panel, status, votes, payouts, profile, ledger, pool, served, torn>>,
         given' \in {given, given + 1},
         WellFormed(r, size), Covers(r, locks, status, payouts), r.pc \in {"reserve", "check"}
  PROVE  PanelInv'
<1>1. Moves(w) /\ requests'[w] = r
  BY UpdateMoves DEF Start
<1>2. Judges(r, payouts, raced) /\ Holds(r, profile, ledger, raced) /\ \A s : ~ At(r, s)
  BY DEF Judges, Holds, At
<1>3. RequestOK(w)'
  BY <1>1, <1>2 DEF RequestOK
<1>4. panel' \in BOOLEAN /\ pool' \in Answers \cup {None}
  BY InvParts DEF RowTypes
<1> QED
  BY <1>1, <1>2, <1>3, <1>4, QuietStep

LEMMA RequestShape ==
  ASSUME NEW n \in Nat, NEW S \in SUBSET (1..n), S # {}, NEW kind \in {"plan", "settle", "timeout"}
  PROVE  LET r == Request(kind, S) IN
         /\ r \in RequestType(n) /\ r.pc = "reserve" /\ r.kind = kind /\ r.seats = S /\ r.left = S
         /\ r.entries = <<>> /\ r.matched = {}
BY NoEntries DEF Request, RequestType, PlanPcs

LEMMA PlanKeeps ==
  ASSUME PanelInv, NEW w \in Workers, Plan(w)
  PROVE  PanelInv'
<1> DEFINE r == Request("plan", Seats)
<1>1. size \in Nat \ {0} /\ Seats = 1..size
  BY InvParts, SeatsOK
<1>2. Seats # {} /\ Seats \in SUBSET (1..size) /\ size \in Nat /\ "plan" \in {"plan", "settle", "timeout"}
  BY <1>1
<1>3. /\ r \in RequestType(size) /\ r.pc = "reserve" /\ r.kind = "plan" /\ r.seats = Seats
      /\ r.left = Seats /\ EntrySet(r.entries) = {}
  <2>1. /\ r \in RequestType(size) /\ r.pc = "reserve" /\ r.kind = "plan" /\ r.seats = Seats
        /\ r.left = Seats /\ r.entries = <<>>
    BY <1>2, RequestShape
  <2> QED
    BY <2>1, NoEntries
<1> HIDE DEF r
<1>4. WellFormed(r, size)
  BY <1>1, <1>2, <1>3 DEF WellFormed, Shaped, PlanPcs
<1>5. Covers(r, locks, status, payouts)
  BY <1>3 DEF Covers
<1> QED
  BY <1>3, <1>4, <1>5, StartKeeps DEF Plan, r

LEMMA PanelFinite ==
  ASSUME PanelInv, NEW S \in SUBSET Seats
  PROVE  IsFiniteSet(S) /\ IsFiniteSet(Seats) /\ \A s \in Seats : Weight[s] \in Nat \ {0}
<1>1. RowTypes
  BY InvParts
<1>2. size \in Nat /\ Seats = 1..size
  BY <1>1, SeatsOK
<1>3. IsFiniteSet(Seats)
  BY <1>2, FS_Interval
<1>4. \A s \in Seats : Weight[s] \in Nat \ {0}
  BY <1>1, PanelAssumption DEF RowTypes, Seats
<1> QED
  BY <1>3, <1>4, FS_Subset

\* What a settlement computes from the votes it reads.
LEMMA SettlementParts ==
  ASSUME PanelInv, \E s \in Assigned : reveals[s] # None
  PROVE  /\ ConsensusOf(Assigned) \in Answers
         /\ Agreeing(Assigned) \in SUBSET Seats /\ IsFiniteSet(Agreeing(Assigned))
         /\ Cardinality(Agreeing(Assigned)) \in Nat \ {0}
         /\ FeePerCorrect(Assigned) \in Nat
         /\ Assigned \in SUBSET Seats /\ Assigned # {}
<1>1. Assigned \in SUBSET Seats
  BY DEF Assigned
<1>2. IsFiniteSet(Assigned) /\ \A s \in Assigned : Weight[s] \in Nat \ {0}
  BY <1>1, PanelFinite
<1>3. PICK v \in Assigned : reveals[v] # None
  OBVIOUS
<1>4. reveals[v] \in Answers
  BY <1>1, <1>3, InvParts DEF RowTypes
<1>5. Agreeing(Assigned) # {}
  BY <1>2, <1>4, SomebodyAgrees
<1>6. Agreeing(Assigned) \in SUBSET Seats
  BY <1>1 DEF Agreeing
<1>7. IsFiniteSet(Agreeing(Assigned))
  BY <1>6, PanelFinite
<1>8. Cardinality(Agreeing(Assigned)) \in Nat \ {0}
  BY <1>5, <1>7, FS_CardinalityType, FS_EmptySet
<1>9. FeePerCorrect(Assigned) \in Nat
  BY <1>8, PanelAssumption DEF FeePerCorrect
<1>10. ConsensusOf(Assigned) \in Answers
  BY <1>2, ConsensusIsHeaviest
<1> QED
  BY <1>1, <1>3, <1>6, <1>7, <1>8, <1>9, <1>10

LEMMA SettleKeeps ==
  ASSUME PanelInv, NEW w \in Workers, NEW settlesPool \in BOOLEAN, Settle(w, settlesPool)
  PROVE  PanelInv'
<1> DEFINE q == Request("settle", Assigned)
           r == [q EXCEPT !.pc = "check", !.matched = Agreeing(Assigned),
                          !.fee = FeePerCorrect(Assigned), !.answer = ConsensusOf(Assigned),
                          !.settlesPool = settlesPool]
<1>1. size \in Nat /\ Seats = 1..size
  BY InvParts, SeatsOK
<1>2. /\ ConsensusOf(Assigned) \in Answers /\ Agreeing(Assigned) \in SUBSET Seats
      /\ FeePerCorrect(Assigned) \in Nat /\ Assigned \in SUBSET Seats /\ Assigned # {}
  BY SettlementParts DEF Settle
<1>3. /\ q \in RequestType(size) /\ q.kind = "settle" /\ q.seats = Assigned /\ q.left = Assigned
  BY <1>1, <1>2, RequestShape
<1> HIDE DEF q
<1>4. /\ r \in RequestType(size) /\ r.pc = "check" /\ r.kind = "settle" /\ r.seats = Assigned
      /\ r.left = Assigned
  BY <1>1, <1>2, <1>3 DEF RequestType, JudgePcs
<1> HIDE DEF r
<1>5. WellFormed(r, size)
  BY <1>2, <1>4 DEF WellFormed, Shaped, JudgePcs
<1>6. Covers(r, locks, status, payouts)
  BY <1>4 DEF Covers, Assigned
<1> QED
  BY <1>4, <1>5, <1>6, StartKeeps DEF Settle, r, q

LEMMA TimeoutKeeps ==
  ASSUME PanelInv, NEW w \in Workers, NEW phase \in {"commit", "reveal"}, Timeout(w, phase)
  PROVE  PanelInv'
<1> DEFINE q == Request("timeout", TimedOut(phase))
           r == [q EXCEPT !.pc = "check"]
<1>1. size \in Nat /\ Seats = 1..size
  BY InvParts, SeatsOK
<1>2. TimedOut(phase) \in SUBSET Seats /\ TimedOut(phase) # {} /\ TimedOut(phase) \subseteq Assigned
  BY DEF Timeout, TimedOut, Assigned
<1>3. /\ q \in RequestType(size) /\ q.kind = "timeout" /\ q.seats = TimedOut(phase)
      /\ q.left = TimedOut(phase)
  BY <1>1, <1>2, RequestShape
<1> HIDE DEF q
<1>4. /\ r \in RequestType(size) /\ r.pc = "check" /\ r.kind = "timeout" /\ r.seats = TimedOut(phase)
      /\ r.left = TimedOut(phase)
  BY <1>1, <1>2, <1>3 DEF RequestType, JudgePcs
<1> HIDE DEF r
<1>5. WellFormed(r, size)
  BY <1>2, <1>4 DEF WellFormed, Shaped, JudgePcs
<1>6. Covers(r, locks, status, payouts)
  BY <1>2, <1>4 DEF Covers, Assigned
<1> QED
  BY <1>4, <1>5, <1>6, StartKeeps DEF Timeout, r, q

\* Panels from a body.
LEMMA SettleGivenKeeps ==
  ASSUME PanelInv, NEW w \in Workers, NEW b \in Bodies, NEW settlesPool \in BOOLEAN,
         SettleGiven(w, b, settlesPool)
  PROVE  PanelInv'
<1> DEFINE q == Request("settle", b.seats)
           r == [q EXCEPT !.pc = "check", !.matched = b.matched, !.fee = b.fee, !.answer = b.answer,
                          !.settlesPool = settlesPool, !.stored = FALSE]
<1>1. size \in Nat /\ Seats = 1..size
  BY InvParts, SeatsOK
<1>2. /\ b.answer \in Answers /\ b.matched \in SUBSET Seats /\ b.fee \in Nat
      /\ b.seats \in SUBSET Seats /\ b.seats # {}
  BY PanelAssumption DEF SettleGiven
<1>3. q \in RequestType(size) /\ q.kind = "settle" /\ q.seats = b.seats /\ q.left = b.seats
  BY <1>1, <1>2, RequestShape
<1> HIDE DEF q
<1>4. /\ r \in RequestType(size) /\ r.pc = "check" /\ r.kind = "settle" /\ r.seats = b.seats
      /\ r.left = b.seats /\ r.stored = FALSE
  BY <1>1, <1>2, <1>3 DEF RequestType, JudgePcs
<1> HIDE DEF r
<1>5. WellFormed(r, size)
  BY <1>2, <1>4 DEF WellFormed, Shaped, JudgePcs
<1>6. Covers(r, locks, status, payouts)
  BY <1>4 DEF Covers
<1>7. Start(w, r)
  BY DEF SettleGiven, r, q
<1> QED
  BY <1>4, <1>5, <1>6, <1>7, StartKeeps DEF SettleGiven

LEMMA TimeoutGivenKeeps ==
  ASSUME PanelInv, NEW w \in Workers, NEW b \in Bodies, NEW phase \in {"commit", "reveal"},
         TimeoutGiven(w, b, phase)
  PROVE  PanelInv'
<1> DEFINE S == b.seats \cap Silent(phase)
           q == Request("timeout", S)
           r == [q EXCEPT !.pc = "check", !.stored = FALSE]
<1>1. size \in Nat /\ Seats = 1..size
  BY InvParts, SeatsOK
<1>2. S \in SUBSET Seats /\ S # {}
  BY DEF TimeoutGiven
<1>3. Start(w, r)
  BY DEF TimeoutGiven
<1> HIDE DEF S
<1>4. q \in RequestType(size) /\ q.kind = "timeout" /\ q.seats = S /\ q.left = S
  BY <1>1, <1>2, RequestShape
<1> HIDE DEF q
<1>5. /\ r \in RequestType(size) /\ r.pc = "check" /\ r.kind = "timeout" /\ r.seats = S /\ r.left = S
      /\ r.stored = FALSE
  BY <1>1, <1>2, <1>4 DEF RequestType, JudgePcs
<1> HIDE DEF r
<1>6. WellFormed(r, size)
  BY <1>2, <1>5 DEF WellFormed, Shaped, JudgePcs
<1>7. Covers(r, locks, status, payouts)
  BY <1>5 DEF Covers
<1> QED
  BY <1>3, <1>5, <1>6, <1>7, StartKeeps DEF TimeoutGiven

LEMMA GotoMoves ==
  ASSUME PanelInv, NEW w \in Workers, requests[w].pc # "idle", NEW pc \in PlanPcs \cup JudgePcs,
         Goto(w, pc)
  PROVE  LET r == requests[w]
             q == requests'[w] IN
         /\ Moves(w) /\ q \in RequestType(size) /\ q.pc = pc
         /\ q.kind = r.kind /\ q.seats = r.seats /\ q.left = r.left /\ q.matched = r.matched
         /\ q.fee = r.fee /\ q.answer = r.answer /\ q.settlesPool = r.settlesPool
         /\ q.entries = r.entries /\ q.stored = r.stored
<1>1. DOMAIN requests = Workers /\ requests[w] \in RequestType(size)
  BY Working, InvParts DEF RequestsOK
<1>2. Moves(w) /\ requests'[w] = [requests[w] EXCEPT !.pc = pc]
  BY <1>1 DEF Moves, Goto
<1> QED
  BY <1>1, <1>2 DEF RequestType

\* A request that turns to a seat is alone there, or the race is noted.
LEMMA RaceNoted ==
  ASSUME PanelInv, NEW w \in Workers, requests[w].pc # "idle", NoteRace(w)
  PROVE  /\ raced \subseteq raced'
         /\ Seat(w) \in raced' \/ \A v \in Workers : v # w => ~ At(requests[v], Seat(w))
BY DEF NoteRace, At, Seat

LEMMA InsertPanelKeeps ==
  ASSUME PanelInv, NEW w \in Workers, InsertPanel(w)
  PROVE  PanelInv'
<1> DEFINE r == requests[w]
           q == requests'[w]
<1>1. /\ r \in RequestType(size) /\ Shaped(r, size) /\ Covers(r, locks, status, payouts) /\ r.pc = "panel"
  BY Working DEF InsertPanel, RequestOK
<1>2. /\ Moves(w) /\ q \in RequestType(size) /\ q.pc = "assign" /\ q.kind = r.kind /\ q.seats = r.seats
      /\ q.left = r.left /\ q.entries = r.entries /\ q.stored = r.stored
  BY <1>1, GotoMoves DEF InsertPanel, PlanPcs
<1> HIDE DEF r, q
<1>3. r.kind = "plan"
  BY <1>1 DEF Shaped, JudgePcs
<1>4. WellFormed(q, size)
  BY <1>1, <1>2, <1>3 DEF WellFormed, Shaped, PlanPcs
<1>5. Covers(q, locks, status, payouts)
  BY <1>1, <1>2, <1>3 DEF Covers
<1>6. Judges(q, payouts, raced) /\ Holds(q, profile, ledger, raced) /\ \A s : ~ At(q, s)
  BY <1>2 DEF Judges, Holds, At
<1>7. UNCHANGED <<size, locks, status, votes, payouts, profile, ledger, served, torn, given, raced, pool>>
      /\ panel' = TRUE
  BY DEF InsertPanel, history
<1>8. RequestOK(w)'
  BY <1>4, <1>5, <1>6, <1>7 DEF RequestOK, q
<1>9. pool' \in Answers \cup {None}
  BY <1>7, InvParts DEF RowTypes
<1>10. \A s \in Seats : ~ At(requests'[w], s)
  BY <1>6 DEF q
<1> QED
  BY <1>2, <1>7, <1>8, <1>9, <1>10, QuietStep

LEMMA CheckPayoutKeeps ==
  ASSUME PanelInv, NEW w \in Workers, CheckPayout(w)
  PROVE  PanelInv'
<1> DEFINE r == requests[w]
           q == requests'[w]
<1>1. /\ r \in RequestType(size) /\ Shaped(r, size) /\ Covers(r, locks, status, payouts)
      /\ r.pc = "check" /\ Seat(w) = Min(r.left)
  BY Working DEF CheckPayout, RequestOK
<1>2. UNCHANGED <<size, locks, status, votes, payouts, profile, ledger, served, torn, given, pool, panel>>
  BY DEF CheckPayout
<1>3. panel' \in BOOLEAN /\ pool' \in Answers \cup {None} /\ size \in Nat
  BY <1>2, InvParts, SeatsOK DEF RowTypes
<1>4. r.kind # "plan"
  BY <1>1 DEF Shaped, PlanPcs
<1>5. CASE payouts[Seat(w)] # None
  <2>1. requests' = [requests EXCEPT ![w] = AfterSeat(r)] /\ raced' = raced
    BY <1>5 DEF CheckPayout
  <2>2. Moves(w) /\ q = AfterSeat(r)
    BY <2>1, UpdateMoves
  <2>3. \/ q = Idle
        \/ WellFormed(q, size) /\ Covers(q, locks, status, payouts) /\ q.pc \in {"assign", "check", "bonds"}
    BY <1>1, <1>3, <1>5, <2>2, AfterSeatKeeps
  <2>4. \A s \in Seats : ~ At(q, s)
    <3> HIDE DEF q
    <3> QED
      BY <2>3 DEF At, Idle
  <2>5. q # Idle => RequestOK(w)'
    <3> HIDE DEF q
    <3>1. q # Idle => Judges(q, payouts, raced) /\ Holds(q, profile, ledger, raced)
      BY <2>3 DEF Judges, Holds
    <3> QED
      BY <1>2, <2>1, <2>3, <3>1 DEF RequestOK, q
  <2> QED
    BY <1>2, <1>3, <2>1, <2>2, <2>4, <2>5, QuietStep
<1>6. CASE payouts[Seat(w)] = None
  <2>1. Goto(w, "insert") /\ NoteRace(w)
    BY <1>6 DEF CheckPayout
  <2>2. /\ Moves(w) /\ q \in RequestType(size) /\ q.pc = "insert" /\ q.kind = r.kind
        /\ q.seats = r.seats /\ q.left = r.left /\ q.entries = r.entries /\ q.stored = r.stored
    BY <1>1, <2>1, GotoMoves DEF JudgePcs
  <2>3. raced \subseteq raced' /\ (Seat(w) \in raced' \/ \A v \in Workers : v # w => ~ At(requests[v], Seat(w)))
    BY <1>1, <2>1, RaceNoted
  <2> HIDE DEF r, q
  <2>4. WellFormed(q, size)
    BY <1>1, <1>4, <2>2 DEF WellFormed, Shaped, JudgePcs
  <2>5. Covers(q, locks, status, payouts)
    BY <1>1, <1>4, <2>2 DEF Covers
  <2>6. Judges(q, payouts, raced') /\ Holds(q, profile, ledger, raced')
    BY <1>1, <1>6, <2>2 DEF Judges, Holds
  <2>7. RequestOK(w)'
    BY <1>2, <2>4, <2>5, <2>6 DEF RequestOK, q
  <2>8. \A s : At(q, s) => s = Seat(w)
    BY <1>1, <2>2 DEF At
  <2>9. \A s \in Seats : At(requests'[w], s) => s \in raced' \/ \A v \in Workers : v # w => ~ At(requests[v], s)
    BY <2>3, <2>8 DEF q
  <2> QED
    BY <1>2, <1>3, <2>2, <2>3, <2>7, <2>9, QuietStep
<1> QED
  BY <1>5, <1>6

\* A request whose first entry is done with.
LEMMA TailKeeps ==
  ASSUME NEW n \in Nat, NEW r, WellFormed(r, n), r.pc \in {"read", "write"},
         NEW lk, NEW st, NEW pt, NEW rc, Covers(r, lk, st, pt), Judges(r, pt, rc),
         NEW q, q \in RequestType(n), q.pc = "read", q.entries = Tail(r.entries),
         q.kind = r.kind, q.seats = r.seats, q.left = r.left, q.matched = r.matched,
         q.fee = r.fee, q.answer = r.answer, q.stored = r.stored
  PROVE  /\ Shaped(q, n) /\ q.pc = "read" /\ Covers(q, lk, st, pt) /\ Judges(q, pt, rc)
         /\ \A s : At(q, s) => At(r, s)
         /\ EntrySet(q.entries) \subseteq EntrySet(r.entries)
<1>1. r \in RequestType(n) /\ r.entries \in Seq(EntryType) /\ r.entries # <<>> /\ Shaped(r, n)
  BY DEF WellFormed, Shaped, RequestType
<1>2. Tail(r.entries) \in Seq(EntryType) /\ EntrySet(Tail(r.entries)) \subseteq EntrySet(r.entries)
  BY <1>1, EntryParts
<1>3. Shaped(q, n)
  BY <1>1, <1>2 DEF Shaped, PlanPcs, JudgePcs
<1>4. Covers(q, lk, st, pt)
  BY <1>1 DEF Covers
<1>5. Judges(q, pt, rc) /\ \A s : At(q, s) => At(r, s)
  BY <1>2 DEF Judges, At
<1> QED
  BY <1>2, <1>3, <1>4, <1>5

LEMMA ReadProfileKeeps ==
  ASSUME PanelInv, NEW w \in Workers, ReadProfile(w)
  PROVE  PanelInv'
<1> DEFINE r == requests[w]
           q == requests'[w]
           s == Seat(w)
           e == Head(r.entries)
           value == profile[s][e.field] + e.amount
           t == [r EXCEPT !.entries = Tail(r.entries)]
           u == [r EXCEPT !.pc = "write", !.held = IF e.field = "bond" THEN value ELSE Clamp(value)]
<1>1. /\ r \in RequestType(size) /\ WellFormed(r, size) /\ Covers(r, locks, status, payouts)
      /\ Judges(r, payouts, raced) /\ r.pc = "read" /\ s = Min(r.left) /\ s \in Seats
  BY Working DEF ReadProfile, RequestOK
<1>2. UNCHANGED <<size, locks, status, votes, payouts, profile, ledger, served, torn, given, raced, pool, panel>>
  BY DEF ReadProfile, history
<1>3. panel' \in BOOLEAN /\ pool' \in Answers \cup {None} /\ size \in Nat
  BY <1>2, InvParts, SeatsOK DEF RowTypes
<1>4. /\ r.entries \in Seq(EntryType) /\ r.entries # <<>> /\ e = r.entries[1] /\ e \in EntryType
  BY <1>1, EntryParts DEF WellFormed, RequestType
<1>5. profile[s].bond \in Nat /\ profile[s].reputation \in Nat
  BY <1>1, InvParts, PanelAssumption DEF RowTypes
<1>6. e.field \in {"bond", "reputation"} /\ e.amount \in Int
  BY <1>4 DEF EntryType
<1>7. value \in Int
  BY <1>5, <1>6
<1>8. Moves(w) /\ (q = Advance(t) \/ q = Idle \/ (Unrecorded(s, e) /\ ~ (e.field = "bond" /\ value < 0) /\ q = u))
  <2>1. requests' = [requests EXCEPT ![w] = IF ~ Unrecorded(s, e) THEN Advance(t)
                       ELSE IF e.field = "bond" /\ value < 0 THEN Idle ELSE u]
    BY DEF ReadProfile
  <2>2. Moves(w) /\ q = IF ~ Unrecorded(s, e) THEN Advance(t)
                       ELSE IF e.field = "bond" /\ value < 0 THEN Idle ELSE u
    <3> HIDE DEF e, s, value, t, u
    <3> QED
      BY <2>1, UpdateMoves
  <2> HIDE DEF e, s, value, t, u, q
  <2> QED
    BY <2>2
<1>9. CASE q = Advance(t)
  <2>1. /\ t \in RequestType(size) /\ t.pc = "read" /\ t.entries = Tail(r.entries)
        /\ t.kind = r.kind /\ t.seats = r.seats /\ t.left = r.left /\ t.matched = r.matched
        /\ t.fee = r.fee /\ t.answer = r.answer /\ t.stored = r.stored
    BY <1>1, <1>4, EntryParts DEF RequestType
  <2>2. Shaped(t, size) /\ t.pc = "read" /\ Covers(t, locks, status, payouts) /\ Judges(t, payouts, raced)
        /\ \A x : At(t, x) => At(r, x)
    <3> HIDE DEF t, r, s
    <3> QED
      BY <1>1, <1>3, <2>1, TailKeeps
  <2> HIDE DEF t
  <2>3. \/ q = Idle
        \/ /\ WellFormed(q, size) /\ Covers(q, locks, status, payouts) /\ Judges(q, payouts, raced)
           /\ Holds(q, profile, ledger, raced) /\ \A x : At(q, x) => At(t, x)
    <3> DEFINE a == Advance(t)
    <3>1. \/ a = Idle
          \/ /\ WellFormed(a, size) /\ Covers(a, locks, status, payouts) /\ Judges(a, payouts, raced)
             /\ Holds(a, profile, ledger, raced) /\ \A x : At(a, x) => At(t, x)
      BY <1>3, <2>2, AdvanceKeeps
    <3> HIDE DEF a
    <3> QED
      BY <1>9, <3>1 DEF a
  <2>4. \A x \in Seats : At(q, x) => At(r, x)
    <3> HIDE DEF q, r
    <3> QED
      BY <2>2, <2>3 DEF At, Idle
  <2>5. q # Idle => RequestOK(w)'
    BY <1>2, <2>3 DEF RequestOK
  <2> QED
    BY <1>2, <1>3, <1>8, <2>4, <2>5, QuietStep
<1>10. CASE q = Idle
  <2>1. \A x \in Seats : ~ At(requests'[w], x)
    BY <1>10 DEF At, Idle
  <2> QED
    BY <1>2, <1>3, <1>8, <1>10, <2>1, QuietStep
<1>11. CASE Unrecorded(s, e) /\ ~ (e.field = "bond" /\ value < 0) /\ q = u
  <2> DEFINE held == IF e.field = "bond" THEN value ELSE Clamp(value)
  <2>1. held \in Nat /\ (e.field = "reputation" => held <= MaxReputation)
        /\ (e.field = "bond" => held = profile[s].bond + e.amount)
    <3>1. Clamp(value) \in 0..MaxReputation
      BY <1>7, ClampRange
    <3>2. CASE e.field = "bond"
      BY <1>5, <1>6, <1>7, <1>11, <3>2
    <3>3. CASE e.field = "reputation"
      <4> HIDE DEF value
      <4> QED
        BY <3>1, <3>3, PanelAssumption
    <3> QED
      BY <1>6, <3>2, <3>3
  <2> HIDE DEF held
  <2>2. u = [r EXCEPT !.pc = "write", !.held = held]
    BY DEF held
  <2>3. /\ u \in RequestType(size) /\ u.pc = "write" /\ u.kind = r.kind /\ u.seats = r.seats
        /\ u.left = r.left /\ u.entries = r.entries /\ u.held = held /\ u.stored = r.stored
    <3> HIDE DEF u, r
    <3> QED
      BY <1>1, <2>1, <2>2 DEF RequestType, PlanPcs
  <2> HIDE DEF u, r, value
  <2>4. WellFormed(u, size)
    BY <1>1, <2>3 DEF WellFormed, Shaped, PlanPcs, JudgePcs
  <2>5. Covers(u, locks, status, payouts)
    BY <1>1, <2>3 DEF Covers
  <2>6. Judges(u, payouts, raced)
    BY <1>1, <2>3 DEF Judges
  <2>7. Holds(u, profile, ledger, raced)
    <3> HIDE DEF e, s
    <3> QED
      BY <1>1, <1>4, <1>11, <2>1, <2>3 DEF Holds, Unrecorded
  <2>8. RequestOK(w)'
    BY <1>2, <1>11, <2>4, <2>5, <2>6, <2>7 DEF RequestOK
  <2>9. \A x \in Seats : At(requests'[w], x) => At(requests[w], x)
    BY <1>1, <1>11, <2>3 DEF At, r
  <2> QED
    BY <1>2, <1>3, <1>8, <2>8, <2>9, QuietStep
<1> HIDE DEF q, t, u, value, s, e, r
<1> QED
  BY <1>8, <1>9, <1>10, <1>11

LEMMA ReserveKeeps ==
  ASSUME PanelInv, NEW w \in Workers, Reserve(w)
  PROVE  PanelInv'
<1> DEFINE r == requests[w]
           q == requests'[w]
           s == Seat(w)
           left == IF r.left = {s} THEN Seats ELSE r.left \ {s}
           pc == IF r.left = {s} THEN "panel" ELSE "reserve"
<1>1. /\ r \in RequestType(size) /\ Shaped(r, size) /\ Covers(r, locks, status, payouts) /\ r.pc = "reserve"
      /\ s = Min(r.left) /\ s \in r.left /\ r.left \subseteq r.seats /\ r.seats \subseteq Seats /\ s \in Seats
  BY Working DEF Reserve, RequestOK
<1>2. UNCHANGED <<size, panel, status, votes, payouts, profile, ledger, pool, served, raced, torn, given>>
  BY DEF Reserve, history
<1>3. RowTypes /\ RowsOK /\ Explained /\ DOMAIN requests = Workers
  BY InvParts DEF RequestsOK
<1>4. r.kind = "plan" /\ r.seats = Seats
  BY <1>1 DEF Shaped, JudgePcs, Seats
<1>5. CASE locks[s] \notin {None, "locked"}
  <2>1. UNCHANGED locks /\ End(w)
    BY <1>5 DEF Reserve
  <2> QED
    BY <1>2, <1>3, <2>1, EndKeeps DEF RowTypes
<1>6. CASE locks[s] \in {None, "locked"}
  <2>1. /\ locks' = [locks EXCEPT ![s] = "locked"]
        /\ requests' = [requests EXCEPT ![w].left = left, ![w].pc = pc]
    BY <1>6 DEF Reserve
  <2>2. Moves(w) /\ q = [r EXCEPT !.left = left, !.pc = pc]
    <3> HIDE DEF left, pc
    <3> QED
      BY <1>3, <2>1 DEF Moves
  <2>3. left \in SUBSET Seats /\ left # {} /\ pc \in PlanPcs
    BY <1>1, <1>4 DEF PlanPcs
  <2>4. /\ q \in RequestType(size) /\ q.left = left /\ q.pc = pc /\ q.kind = "plan" /\ q.seats = Seats
        /\ q.entries = r.entries
    <3> HIDE DEF left, pc, r, q
    <3> QED
      BY <1>1, <1>4, <2>2, <2>3 DEF RequestType, Seats
  <2>5. \A x \in Seats : /\ x # s => locks'[x] = locks[x]
                         /\ locks'[s] = "locked"
    BY <1>1, <1>3, <2>1 DEF RowTypes
  <2>6. Grows /\ \A x \in Seats : SeatKept(x)
    BY <1>2, <1>6, <2>5 DEF Grows, SeatKept, Final, None
  <2>7. WellFormed(q, size)
    <3>1. pc \notin {"read", "write"}
      OBVIOUS
    <3> HIDE DEF left, pc, r, q
    <3> QED
      BY <1>1, <1>4, <2>3, <2>4, <3>1 DEF WellFormed, Shaped, Seats
  <2>8. Covers(q, locks', status, payouts)
    <3>1. \A x \in Seats \ r.left : locks[x] # None
      BY <1>1, <1>4 DEF Covers
    <3>2. \A x \in Seats \ (r.left \ {s}) : locks'[x] # None
      BY <2>5, <3>1 DEF None
    <3>3. CASE r.left = {s}
      <4>1. \A x \in Seats : locks'[x] # None
        BY <3>2, <3>3
      <4>2. q.pc = "panel"
        BY <2>4, <3>3
      <4> QED
        BY <2>4, <4>1, <4>2 DEF Covers
    <3>4. CASE r.left # {s}
      <4>1. q.pc = "reserve" /\ q.left = r.left \ {s}
        BY <2>4, <3>4
      <4> QED
        BY <2>4, <3>2, <4>1 DEF Covers
    <3> QED
      BY <3>3, <3>4
  <2>9. pc \in {"panel", "reserve"}
    OBVIOUS
  <2> HIDE DEF q, left, pc
  <2>10. Judges(q, payouts, raced) /\ Holds(q, profile, ledger, raced) /\ \A x : ~ At(q, x)
    BY <2>4, <2>9 DEF Judges, Holds, At
  <2>11. RequestOK(w)'
    BY <1>2, <2>7, <2>8, <2>10 DEF RequestOK, q
  <2>12. RequestsOK' /\ Exclusive'
    <3>1. \A x \in Seats : ~ At(requests'[w], x)
      BY <2>10 DEF q
    <3> QED
      BY <2>2, <2>6, <2>11, <3>1, RequestStep DEF Moves
  <2>13. RowTypes'
    BY <1>2, <1>3, <2>1 DEF RowTypes, Seats, votes
  <2>14. RowsOK'
    BY <1>2, <1>3, <1>6, <2>5 DEF RowsOK, Seats, votes, ServedIsSettled, None
  <2>15. Explained'
    BY <1>2, <1>3 DEF Explained, Seats
  <2> QED
    BY <2>12, <2>13, <2>14, <2>15, InvPartsNext
<1> QED
  BY <1>5, <1>6

LEMMA AssignKeeps ==
  ASSUME PanelInv, NEW w \in Workers, Assign(w)
  PROVE  PanelInv'
<1> DEFINE r == requests[w]
           q == requests'[w]
           s == Seat(w)
           e == Entry("lock", "bond", - Bond)
           new == <<e>>
<1>1. /\ r \in RequestType(size) /\ Shaped(r, size) /\ Covers(r, locks, status, payouts) /\ r.pc = "assign"
      /\ s = Min(r.left) /\ s \in r.left /\ r.left \subseteq r.seats /\ r.seats \subseteq Seats /\ s \in Seats
  BY Working DEF Assign, RequestOK
<1>2. UNCHANGED <<size, locks, panel, votes, payouts, profile, ledger, pool, served, torn, given>> /\ NoteRace(w)
      /\ status' = [status EXCEPT ![s] = IF status[s] = None THEN "assigned" ELSE status[s]]
      /\ requests' = [requests EXCEPT ![w].pc = "read", ![w].entries = new]
  BY DEF Assign
<1>3. RowTypes /\ RowsOK /\ Explained /\ DOMAIN requests = Workers
  BY InvParts DEF RequestsOK
<1>4. r.kind = "plan" /\ r.seats = Seats /\ locks[s] # None
  BY <1>1 DEF Shaped, JudgePcs, Seats, Covers
<1>5. new \in Seq(EntryType) /\ new # <<>> /\ \A f \in EntrySet(new) : f.kind = "lock"
  <2>1. e \in EntryType /\ e.kind = "lock"
    BY PanelAssumption DEF Entry, EntryType, Kinds
  <2> HIDE DEF e
  <2> QED
    BY <2>1 DEF EntrySet
<1> HIDE DEF new
<1>6. Moves(w) /\ q = [r EXCEPT !.pc = "read", !.entries = new]
  BY <1>2, <1>3 DEF Moves
<1>7. /\ q \in RequestType(size) /\ q.left = r.left /\ q.pc = "read" /\ q.kind = "plan" /\ q.seats = Seats
      /\ q.entries = new
  <2> HIDE DEF q, r
  <2> QED
    BY <1>1, <1>4, <1>5, <1>6 DEF RequestType, PlanPcs
<1>8. raced \subseteq raced' /\ (s \in raced' \/ \A v \in Workers : v # w => ~ At(requests[v], s))
  BY <1>1, <1>2, RaceNoted
<1>9. \A x \in Seats : (status[x] # None => status'[x] # None) /\ (x # s => status'[x] = status[x])
  BY <1>1, <1>2, <1>3 DEF RowTypes
<1>10. Grows /\ \A x \in Seats : SeatKept(x)
  BY <1>2, <1>8, <1>9 DEF Grows, SeatKept
<1>11. WellFormed(q, size)
  <2> HIDE DEF q, r
  <2> QED
    BY <1>1, <1>4, <1>5, <1>7 DEF WellFormed, Shaped, PlanPcs, Seats
<1>12. Covers(q, locks, status', payouts)
  <2> HIDE DEF q, r
  <2> QED
    BY <1>1, <1>4, <1>7 DEF Covers
<1>13. Judges(q, payouts, raced') /\ Holds(q, profile, ledger, raced')
  <2> HIDE DEF q
  <2> QED
    BY <1>7 DEF Judges, Holds
<1>14. RequestOK(w)'
  BY <1>2, <1>11, <1>12, <1>13 DEF RequestOK
<1>15. \A x : At(q, x) => x = s
  <2> HIDE DEF q, r
  <2> QED
    BY <1>1, <1>7 DEF At
<1>16. RequestsOK' /\ Exclusive'
  <2>1. \A x \in Seats : At(requests'[w], x) => x \in raced' \/ \A v \in Workers : v # w => ~ At(requests[v], x)
    BY <1>8, <1>15
  <2> QED
    BY <1>6, <1>10, <1>14, <2>1, RequestStep DEF Moves
<1>17. RowTypes'
  <2>1. status' \in [Seats -> {None, "assigned", "committed", "revealed", "paid", "slashed"}]
    BY <1>1, <1>2, <1>3 DEF RowTypes
  <2> QED
    BY <1>2, <1>3, <2>1 DEF RowTypes, Seats, votes
<1>18. RowsOK'
  BY <1>2, <1>3, <1>4, <1>9 DEF RowsOK, Seats, votes, ServedIsSettled
<1>19. Explained'
  BY <1>2, <1>3, <1>8 DEF Explained, Seats
<1> QED
  BY <1>16, <1>17, <1>18, <1>19, InvPartsNext

LEMMA InsertPayoutKeeps ==
  ASSUME PanelInv, NEW w \in Workers, InsertPayout(w)
  PROVE  PanelInv'
<1> DEFINE r == requests[w]
           q == requests'[w]
           s == Seat(w)
           matched == s \in r.matched
           verdict == IF matched THEN "matched" ELSE "missed"
           mark == IF matched THEN "paid" ELSE "slashed"
           new == Accounting(matched, r.fee)
           n == [r EXCEPT !.pc = "read", !.entries = new]
<1>1. /\ r \in RequestType(size) /\ Shaped(r, size) /\ Covers(r, locks, status, payouts)
      /\ Judges(r, payouts, raced) /\ r.pc = "insert"
      /\ s = Min(r.left) /\ s \in r.left /\ r.left \subseteq r.seats /\ r.seats \subseteq Seats /\ s \in Seats
  BY Working DEF InsertPayout, RequestOK
<1>2. /\ UNCHANGED <<size, locks, panel, votes, profile, ledger, pool, served, raced, torn, given>>
      /\ payouts' = [payouts EXCEPT ![s] = IF payouts[s] # None THEN payouts[s] ELSE verdict]
      /\ status' = [status EXCEPT ![s] = IF status[s] = None THEN None ELSE mark]
      /\ requests' = [requests EXCEPT ![w] =
           IF status[s] = None THEN Idle ELSE [r EXCEPT !.pc = "read", !.entries = new]]
  BY DEF InsertPayout, WithStatus, history
<1>3. RowTypes /\ RowsOK /\ Explained /\ DOMAIN requests = Workers
  BY InvParts DEF RequestsOK
<1>4. r.kind # "plan"
  BY <1>1 DEF Shaped, PlanPcs
<1>5. s \notin raced => payouts[s] = None
  BY <1>1, <1>4 DEF Judges
<1>6. matched \in BOOLEAN /\ r.fee \in Nat
  BY <1>1 DEF RequestType
<1>7. /\ new \in Seq(EntryType) /\ new # <<>>
      /\ \A e \in EntrySet(new) : /\ e.kind \in {"release", "fee"} => matched
                                  /\ e.kind = "slash" => ~ matched
  BY <1>6, AccountingParts
<1> HIDE DEF new
<1>8. Moves(w) /\ q = IF status[s] = None THEN Idle ELSE n
  <2> HIDE DEF n
  <2> QED
    BY <1>2, UpdateMoves DEF n
<1>9. /\ n \in RequestType(size) /\ n.left = r.left /\ n.pc = "read" /\ n.kind = r.kind /\ n.seats = r.seats
      /\ n.entries = new /\ n.stored = r.stored
  <2> HIDE DEF r
  <2> QED
    BY <1>1, <1>7 DEF RequestType, JudgePcs
<1> HIDE DEF n
<1>10. verdict \in {"matched", "missed"} /\ (matched => verdict = "matched") /\ (~ matched => verdict = "missed")
  OBVIOUS
<1>11. /\ payouts'[s] \in {"matched", "missed"} /\ (s \notin raced => payouts'[s] = verdict)
       /\ \A x \in Seats : x # s => payouts'[x] = payouts[x]
       /\ \A x \in Seats : status'[x] # None <=> status[x] # None
       /\ payouts' \in [Seats -> {None, "matched", "missed"}]
       /\ status' \in [Seats -> {None, "assigned", "committed", "revealed", "paid", "slashed"}]
  <2>1. mark \in {"paid", "slashed"}
    OBVIOUS
  <2> HIDE DEF verdict, matched, mark
  <2> QED
    BY <1>1, <1>2, <1>3, <1>5, <1>10, <2>1 DEF RowTypes, None
<1>12. At(r, s)
  BY <1>1 DEF At
<1>13. Grows /\ \A x \in Seats : ~ At(requests[w], x) => SeatKept(x)
  BY <1>2, <1>11, <1>12 DEF Grows, SeatKept, None
<1> HIDE DEF verdict, matched, mark
<1>14. WellFormed(n, size)
  <2> HIDE DEF r
  <2> QED
    BY <1>1, <1>4, <1>7, <1>9 DEF WellFormed, Shaped, JudgePcs
<1>15. Covers(n, locks, status', payouts')
  <2>1. Covers(r, locks, status', payouts')
    <3> HIDE DEF r
    <3> QED
      BY <1>1, <1>11 DEF Covers, None
  <2>2. payouts'[Min(r.left)] # None
    BY <1>1, <1>11 DEF None
  <2> HIDE DEF r
  <2> QED
    BY <1>1, <1>4, <1>9, <2>1, <2>2 DEF Covers
<1>16. Judges(n, payouts', raced) /\ Holds(n, profile, ledger, raced)
  <2> HIDE DEF r, s
  <2> QED
    BY <1>1, <1>7, <1>9, <1>10, <1>11 DEF Judges, Holds
<1>17. requests'[w] # Idle => RequestOK(w)'
  <2> SUFFICES ASSUME q # Idle PROVE RequestOK(w)'
    OBVIOUS
  <2>1. q = n
    BY <1>8
  <2> QED
    BY <1>2, <1>14, <1>15, <1>16, <2>1 DEF RequestOK
<1>18. \A x \in Seats : At(requests'[w], x) => At(requests[w], x)
  <2>1. \A x : ~ At(Idle, x)
    BY DEF At, Idle
  <2>2. \A x : At(n, x) => At(r, x)
    <3> HIDE DEF r
    <3> QED
      BY <1>1, <1>9 DEF At
  <2> QED
    BY <1>8, <2>1, <2>2
<1>19. RequestsOK' /\ Exclusive'
  BY <1>8, <1>13, <1>17, <1>18, RequestStep DEF Moves
<1>20. RowTypes'
  BY <1>2, <1>3, <1>11 DEF RowTypes, Seats, votes
<1>21. RowsOK'
  BY <1>2, <1>3, <1>11 DEF RowsOK, Seats, votes, ServedIsSettled, None
<1>22. Explained'
  <2>1. ASSUME NEW x \in Seats \ raced PROVE SeatJudged(ledger[x], payouts'[x])
    <3>1. SeatJudged(ledger[x], payouts[x])
      BY <1>3 DEF Explained
    <3>2. CASE x # s
      BY <1>11, <3>1, <3>2
    <3>3. CASE x = s
      <4>1. payouts[x] = None
        BY <1>5, <3>3
      <4> QED
        BY <3>1, <4>1 DEF SeatJudged, None
    <3> QED
      BY <3>2, <3>3
  <2> QED
    BY <1>2, <1>3, <2>1 DEF Explained, Seats
<1> QED
  BY <1>19, <1>20, <1>21, <1>22, InvPartsNext

\* One more entry in a ledger.
LEMMA TotalAdds ==
  ASSUME NEW L, IsFiniteSet(L), \A f \in L : f.amount \in Int, NEW e, e.amount \in Int, e \notin L
  PROVE  Total(L \cup {e}) = Total(L) + e.amount
<1> DEFINE M == L \cup {e}
           f == [x \in L |-> x.amount]
           g == [x \in M |-> x.amount]
<1>1. IsFiniteSet(M)
  BY FS_AddElement
<1>2. \A x \in M : g[x] \in Int
  OBVIOUS
<1>3. SumOver(g, M) = g[e] + SumOver(g, M \ {e})
  <2>1. e \in M
    OBVIOUS
  <2> HIDE DEF M, g
  <2> QED
    BY <1>1, <1>2, <2>1, SumOverWithout
<1>4. M \ {e} = L /\ g[e] = e.amount
  OBVIOUS
<1>5. \A x \in L : f[x] \in Int /\ g[x] = f[x]
  OBVIOUS
<1>6. SumOver(g, L) = SumOver(f, L) /\ SumOver(f, L) \in Int
  <2> HIDE DEF f, g
  <2> QED
    BY <1>5, SumOverSame, SumOverInt
<1>7. Total(M) = SumOver(g, M) /\ Total(L) = SumOver(f, L)
  BY DEF Total
<1> HIDE DEF M, f, g
<1>8. SumOver(g, M) = e.amount + SumOver(g, L)
  BY <1>3, <1>4
<1>9. Total(M) = Total(L) + e.amount
  BY <1>6, <1>7, <1>8
<1> QED
  BY <1>9 DEF M

LEMMA TotalInt ==
  ASSUME NEW L, IsFiniteSet(L), \A f \in L : f.amount \in Int
  PROVE  Total(L) \in Int
<1> DEFINE f == [x \in L |-> x.amount]
<1>1. \A x \in L : f[x] \in Int
  OBVIOUS
<1>2. SumOver(f, L) \in Int
  <2> HIDE DEF f
  <2> QED
    BY <1>1, SumOverInt
<1> QED
  BY <1>2 DEF Total

\* The entry a request is about to make, and the profile it leaves.
LEMMA WriteParts ==
  ASSUME PanelInv, NEW w \in Workers, requests[w].pc = "write"
  PROVE  LET r == requests[w]
             s == Seat(w)
             e == Head(r.entries) IN
         /\ e = r.entries[1] /\ e \in EntryType /\ e \in EntrySet(r.entries)
         /\ e.field \in {"bond", "reputation"} /\ e.amount \in Int /\ r.held \in Nat
         /\ e.field = "reputation" => r.held <= MaxReputation
         /\ Updated(w) \in [Seats -> [bond : Nat, reputation : 0..MaxReputation]]
         /\ \A x \in Seats : x # s => Updated(w)[x] = profile[x]
         /\ e.field = "bond" => Updated(w)[s].bond = r.held
         /\ e.field = "reputation" => Updated(w)[s].bond = profile[s].bond
<1> DEFINE r == requests[w]
           s == Seat(w)
           e == Head(r.entries)
<1>1. r \in RequestType(size) /\ WellFormed(r, size) /\ Holds(r, profile, ledger, raced) /\ s \in Seats
  BY Working DEF RequestOK
<1>2. r.entries \in Seq(EntryType) /\ r.entries # <<>> /\ r.held \in Nat
  BY <1>1 DEF WellFormed, RequestType
<1>3. e = r.entries[1] /\ e \in EntryType /\ e \in EntrySet(r.entries)
  BY <1>2, EntryParts
<1>4. e.field \in {"bond", "reputation"} /\ e.amount \in Int
  BY <1>3 DEF EntryType
<1>5. e.field = "reputation" => r.held <= MaxReputation
  BY <1>1, <1>3 DEF Holds
<1>6. profile \in [Seats -> [bond : Nat, reputation : 0..MaxReputation]]
  BY InvParts DEF RowTypes
<1>7. Updated(w) = [profile EXCEPT ![s] = [profile[s] EXCEPT ![e.field] = r.held]]
  BY DEF Updated
<1> HIDE DEF r, s, e
<1>8. CASE e.field = "bond"
  <2>1. [profile[s] EXCEPT ![e.field] = r.held] = [bond |-> r.held, reputation |-> profile[s].reputation]
    BY <1>1, <1>6, <1>8
  <2> QED
    BY <1>1, <1>2, <1>3, <1>4, <1>6, <1>7, <1>8, <2>1 DEF r, s, e
<1>9. CASE e.field = "reputation"
  <2>1. [profile[s] EXCEPT ![e.field] = r.held] = [bond |-> profile[s].bond, reputation |-> r.held]
    BY <1>1, <1>6, <1>9
  <2>2. r.held \in 0..MaxReputation
    BY <1>2, <1>5, <1>9, PanelAssumption
  <2> QED
    BY <1>1, <1>2, <1>3, <1>4, <1>5, <1>6, <1>7, <1>9, <2>1, <2>2 DEF r, s, e
<1> QED
  BY <1>4, <1>8, <1>9

LEMMA ApplyEntryKeeps ==
  ASSUME PanelInv, NEW w \in Workers, ApplyEntry(w)
  PROVE  PanelInv'
<1> DEFINE r == requests[w]
           q == requests'[w]
           s == Seat(w)
           e == Head(r.entries)
           t == [r EXCEPT !.pc = "read", !.entries = Tail(r.entries)]
<1>1. /\ r \in RequestType(size) /\ WellFormed(r, size) /\ Covers(r, locks, status, payouts)
      /\ Judges(r, payouts, raced) /\ Holds(r, profile, ledger, raced) /\ r.pc = "write"
      /\ s = Min(r.left) /\ s \in Seats
  BY Working DEF ApplyEntry, RequestOK
<1>2. /\ UNCHANGED <<size, locks, panel, status, votes, payouts, pool, served, raced, torn, given>>
      /\ profile' = Updated(w)
      /\ ledger' = [ledger EXCEPT ![s] = IF Unrecorded(s, e) THEN ledger[s] \cup {e} ELSE ledger[s]]
      /\ requests' = [requests EXCEPT ![w] = Advance(t)]
  <2>1. requests' = [requests EXCEPT ![w] = Advance(t)]
    BY DEF ApplyEntry
  <2>2. ledger' = [ledger EXCEPT ![s] = IF Unrecorded(s, e) THEN ledger[s] \cup {e} ELSE ledger[s]]
    BY Zenon DEF ApplyEntry
  <2>3. /\ UNCHANGED <<size, locks, panel, status, votes, payouts, pool, served, raced, torn, given>>
        /\ profile' = Updated(w)
    BY DEF ApplyEntry, history
  <2> QED
    BY <2>1, <2>2, <2>3
<1>3. RowTypes /\ RowsOK /\ Explained /\ size \in Nat
  BY InvParts, SeatsOK
<1>4. /\ e = r.entries[1] /\ e \in EntryType /\ e \in EntrySet(r.entries)
      /\ e.field \in {"bond", "reputation"} /\ e.amount \in Int
      /\ profile' \in [Seats -> [bond : Nat, reputation : 0..MaxReputation]]
      /\ \A x \in Seats : x # s => profile'[x] = profile[x]
      /\ e.field = "bond" => profile'[s].bond = r.held
      /\ e.field = "reputation" => profile'[s].bond = profile[s].bond
  BY <1>1, <1>2, WriteParts
<1>5. /\ \A x \in Seats : x # s => ledger'[x] = ledger[x]
      /\ ledger'[s] = IF Unrecorded(s, e) THEN ledger[s] \cup {e} ELSE ledger[s]
      /\ DOMAIN ledger' = Seats
  <2> HIDE DEF s, e
  <2> QED
    BY <1>1, <1>2, <1>3 DEF RowsOK
<1>6. Moves(w) /\ q = Advance(t)
  <2> HIDE DEF t
  <2> QED
    BY <1>2, UpdateMoves
<1>7. At(r, s)
  BY <1>1 DEF At
<1>8. Grows /\ \A x \in Seats : ~ At(requests[w], x) => SeatKept(x)
  <2>1. \A x \in Seats : ~ At(requests[w], x) => x # s
    BY <1>7
  <2> HIDE DEF s, e
  <2> QED
    BY <1>2, <1>4, <1>5, <2>1 DEF Grows, SeatKept
<1>9. /\ t \in RequestType(size) /\ t.pc = "read" /\ t.entries = Tail(r.entries)
      /\ t.kind = r.kind /\ t.seats = r.seats /\ t.left = r.left /\ t.matched = r.matched
      /\ t.fee = r.fee /\ t.answer = r.answer /\ t.stored = r.stored
  <2>1. Tail(r.entries) \in Seq(EntryType)
    BY <1>1, EntryParts DEF WellFormed, RequestType
  <2> QED
    BY <1>1, <2>1 DEF RequestType, PlanPcs
<1>10. Shaped(t, size) /\ Covers(t, locks, status, payouts) /\ Judges(t, payouts, raced)
       /\ \A x : At(t, x) => At(r, x)
  <2> HIDE DEF t, r
  <2> QED
    BY <1>1, <1>3, <1>9, TailKeeps
<1> HIDE DEF t
<1>11. \/ q = Idle
       \/ /\ WellFormed(q, size) /\ Covers(q, locks, status, payouts) /\ Judges(q, payouts, raced)
          /\ Holds(q, profile', ledger', raced) /\ \A x : At(q, x) => At(t, x)
  <2> DEFINE pf == profile'
             lg == ledger'
             a == Advance(t)
  <2>1. size \in Nat /\ t.pc = "read" /\ q = a
    BY <1>3, <1>6, <1>9
  <2> HIDE DEF pf, lg
  <2>2. \/ a = Idle
        \/ /\ WellFormed(a, size) /\ Covers(a, locks, status, payouts) /\ Judges(a, payouts, raced)
           /\ Holds(a, pf, lg, raced) /\ \A x : At(a, x) => At(t, x)
    BY <1>10, <2>1, AdvanceKeeps
  <2> HIDE DEF a
  <2> QED
    BY <2>1, <2>2 DEF pf, lg
<1>12. \A x \in Seats : At(requests'[w], x) => At(requests[w], x)
  <2>1. \A x : ~ At(Idle, x)
    BY DEF At, Idle
  <2> QED
    BY <1>10, <1>11, <2>1
<1>13. requests'[w] # Idle => RequestOK(w)'
  BY <1>2, <1>11 DEF RequestOK
<1>14. RequestsOK' /\ Exclusive'
  BY <1>6, <1>8, <1>12, <1>13, RequestStep DEF Moves
<1>15. RowTypes'
  BY <1>2, <1>3, <1>4 DEF RowTypes, Seats, votes
<1> HIDE DEF e, s
<1>16. RowsOK'
  <2>1. LedgerTyped(ledger'[s])
    <3>1. LedgerTyped(ledger[s])
      BY <1>1, <1>3 DEF RowsOK
    <3>2. IsFiniteSet(ledger[s] \cup {e})
      BY <3>1, FS_AddElement DEF LedgerTyped
    <3>3. CASE Unrecorded(s, e)
      BY <1>4, <1>5, <3>1, <3>2, <3>3 DEF LedgerTyped, Unrecorded
    <3>4. CASE ~ Unrecorded(s, e)
      BY <1>5, <3>1, <3>4
    <3> QED
      BY <3>3, <3>4
  <2>2. \A x \in Seats : LedgerTyped(ledger'[x])
    BY <1>3, <1>5, <2>1 DEF RowsOK
  <2> QED
    BY <1>2, <1>3, <1>5, <2>2 DEF RowsOK, Seats, votes, ServedIsSettled
<1>17. ASSUME NEW x \in Seats \ raced PROVE SeatJudged(ledger'[x], payouts[x])
  <2>1. SeatJudged(ledger[x], payouts[x])
    BY <1>3 DEF Explained
  <2>2. CASE x # s
    BY <1>5, <2>1, <2>2
  <2>3. CASE x = s
    <3>1. /\ e.kind \in {"release", "fee"} => payouts[s] = "matched"
          /\ e.kind = "slash" => payouts[s] = "missed"
      <4>1. CASE r.kind = "plan"
        <5>1. e.kind = "lock"
          BY <1>1, <1>4, <4>1 DEF WellFormed, Shaped
        <5> QED
          BY <5>1
      <4>2. CASE r.kind # "plan"
        BY <1>1, <1>4, <2>3, <4>2 DEF Judges
      <4> QED
        BY <4>1, <4>2
    <3> QED
      BY <1>5, <2>1, <2>3, <3>1 DEF SeatJudged
  <2> QED
    BY <2>2, <2>3
<1>18. ASSUME NEW x \in Seats \ (raced \cup torn) PROVE SeatExplained(ledger'[x], profile'[x])
  <2>1. SeatExplained(ledger[x], profile[x])
    BY <1>3 DEF Explained
  <2>2. CASE x # s
    BY <1>4, <1>5, <2>1, <2>2
  <2>3. CASE x = s
    <3>1. \A f \in ledger[s] : f.kind # e.kind
      BY <1>1, <1>4, <2>3 DEF Holds
    <3>2. ledger'[s] = ledger[s] \cup {e} /\ e \notin ledger[s]
      BY <1>5, <3>1 DEF Unrecorded
    <3> DEFINE L == {f \in ledger[s] : f.field = "bond"}
    <3>3. LedgerTyped(ledger[s])
      BY <1>1, <1>3 DEF RowsOK
    <3>4. IsFiniteSet(L)
      BY <3>3, FS_Subset DEF LedgerTyped
    <3>5. \A f \in L : f.amount \in Int
      BY <3>3 DEF LedgerTyped, EntryType
    <3>6. Total(L) \in Int
      BY <3>4, <3>5, TotalInt
    <3>7. profile[s].bond = Deposit + Total(L)
      BY <2>1, <2>3 DEF SeatExplained
    <3>8. CASE e.field = "bond"
      <4>1. {f \in ledger'[s] : f.field = "bond"} = L \cup {e}
        BY <3>2, <3>8
      <4>2. Total(L \cup {e}) = Total(L) + e.amount
        BY <1>4, <3>2, <3>4, <3>5, TotalAdds
      <4>3. profile'[s].bond = profile[s].bond + e.amount
        BY <1>1, <1>4, <2>3, <3>8 DEF Holds
      <4>4. Deposit \in Int
        BY PanelAssumption
      <4> HIDE DEF L
      <4>5. profile'[s].bond = Deposit + Total(L \cup {e})
        BY <1>4, <3>6, <3>7, <4>2, <4>3, <4>4
      <4> QED
        BY <2>3, <4>1, <4>5 DEF SeatExplained
    <3>9. CASE e.field = "reputation"
      <4>1. {f \in ledger'[s] : f.field = "bond"} = L
        BY <3>2, <3>9
      <4> QED
        BY <1>4, <2>3, <3>7, <3>9, <4>1 DEF SeatExplained
    <3> QED
      BY <1>4, <3>8, <3>9
  <2> QED
    BY <2>2, <2>3
<1>19. Explained'
  BY <1>2, <1>17, <1>18 DEF Explained, Seats
<1> QED
  BY <1>14, <1>15, <1>16, <1>19, InvPartsNext

LEMMA DieTornKeeps ==
  ASSUME PanelInv, NEW w \in Workers, DieTorn(w)
  PROVE  PanelInv'
<1> DEFINE s == Seat(w)
<1>1. At(requests[w], s) /\ s \in Seats
  BY Working DEF DieTorn, At
<1>2. /\ UNCHANGED <<size, locks, panel, status, votes, payouts, ledger, pool, served, raced, given>>
      /\ profile' = Updated(w) /\ torn' = torn \cup {s} /\ End(w)
  BY DEF DieTorn
<1>3. RowTypes /\ RowsOK /\ Explained
  BY InvParts
<1>4. /\ profile' \in [Seats -> [bond : Nat, reputation : 0..MaxReputation]]
      /\ \A x \in Seats : x # s => profile'[x] = profile[x]
  BY <1>2, WriteParts DEF DieTorn
<1> HIDE DEF s
<1>5. Moves(w) /\ requests'[w] = Idle
  BY <1>2, UpdateMoves DEF End
<1>6. Grows /\ \A x \in Seats : ~ At(requests[w], x) => SeatKept(x)
  BY <1>1, <1>2, <1>4 DEF Grows, SeatKept
<1>7. \A x \in Seats : ~ At(requests'[w], x)
  BY <1>5 DEF At, Idle
<1>8. RequestsOK' /\ Exclusive'
  BY <1>5, <1>6, <1>7, RequestStep DEF Moves
<1>9. RowTypes'
  BY <1>2, <1>3, <1>4 DEF RowTypes, Seats, votes
<1>10. RowsOK'
  BY <1>2, <1>3 DEF RowsOK, Seats, votes, ServedIsSettled
<1>11. Explained'
  BY <1>2, <1>3, <1>4 DEF Explained, Seats
<1> QED
  BY <1>8, <1>9, <1>10, <1>11, InvPartsNext

LEMMA SettleBondKeeps ==
  ASSUME PanelInv, NEW w \in Workers, SettleBond(w)
  PROVE  PanelInv'
<1> DEFINE r == requests[w]
           q == requests'[w]
           s == Seat(w)
           verdict == IF s \in r.matched THEN "released" ELSE "slashed"
           n1 == [r EXCEPT !.left = r.left \ {s}]
           n2 == [r EXCEPT !.pc = "pool"]
<1>1. /\ r \in RequestType(size) /\ Shaped(r, size) /\ Covers(r, locks, status, payouts) /\ r.pc = "bonds"
      /\ s = Min(r.left) /\ s \in r.left /\ r.left \subseteq r.seats /\ r.seats \subseteq Seats /\ s \in Seats
  BY Working DEF SettleBond, RequestOK
<1>2. /\ UNCHANGED <<size, panel, status, votes, payouts, profile, ledger, pool, raced, torn, given>>
      /\ locks' = [locks EXCEPT ![s] = IF locks[s] # "locked" THEN locks[s] ELSE verdict]
      /\ served' = IF r.left = {s} /\ r.stored THEN served \cup r.seats ELSE served
      /\ requests' = [requests EXCEPT ![w] = IF r.left # {s} THEN n1
                                             ELSE IF r.settlesPool THEN n2 ELSE Idle]
  BY DEF SettleBond
<1>3. RowTypes /\ RowsOK /\ Explained
  BY InvParts
<1>4. r.kind # "plan"
  BY <1>1 DEF Shaped, PlanPcs
<1>5. (r.stored => locks[s] # None) /\ \A x \in r.seats : payouts[x] # None
  BY <1>1, <1>3, <1>4 DEF Covers, RowsOK
<1>6. verdict \in Final
  BY DEF Final
<1>7. Moves(w) /\ (q = Idle \/ (r.left # {s} /\ q = n1) \/ q = n2)
  <2>1. Moves(w) /\ q = IF r.left # {s} THEN n1 ELSE IF r.settlesPool THEN n2 ELSE Idle
    <3> HIDE DEF n1, n2, r, s
    <3> QED
      BY <1>2, UpdateMoves
  <2> HIDE DEF n1, n2, r, s, q
  <2> QED
    BY <2>1
<1>8. /\ locks[s] # None => locks'[s] \in Final
      /\ \A x \in Seats : x # s => locks'[x] = locks[x]
      /\ locks' \in [Seats -> {None, "locked", "released", "slashed"}]
  <2> HIDE DEF verdict, s
  <2> QED
    BY <1>1, <1>2, <1>3, <1>5, <1>6 DEF RowTypes, Final
<1> HIDE DEF verdict
<1>9. Grows /\ \A x \in Seats : SeatKept(x)
  <2> HIDE DEF s
  <2> QED
    BY <1>2, <1>8 DEF Grows, SeatKept, Final, None
<1>10. r.stored => \A x \in r.seats \ (r.left \ {s}) : locks'[x] \in Final
  <2>1. r.stored => \A x \in r.seats \ r.left : locks[x] \in Final
    BY <1>1 DEF Covers
  <2> HIDE DEF s, r
  <2> QED
    BY <1>1, <1>5, <1>8, <2>1
<1>11. q # Idle => /\ WellFormed(q, size) /\ Covers(q, locks', status, payouts)
                   /\ q.pc \in {"bonds", "pool"}
  <2>1. CASE r.left # {s} /\ q = n1
    <3>1. /\ q \in RequestType(size) /\ q.pc = "bonds" /\ q.kind = r.kind /\ q.seats = r.seats
          /\ q.left = r.left \ {s} /\ q.entries = r.entries /\ q.stored = r.stored
      <4> HIDE DEF r, q, s
      <4> QED
        BY <1>1, <2>1 DEF RequestType
    <3>2. q.left # {} /\ q.left \subseteq r.left
      <4> HIDE DEF q, r, s
      <4> QED
        BY <1>1, <2>1, <3>1
    <3> HIDE DEF q, r, s
    <3>3. WellFormed(q, size)
      BY <1>1, <1>4, <3>1, <3>2 DEF WellFormed, Shaped, JudgePcs
    <3>4. Covers(q, locks', status, payouts)
      BY <1>1, <1>4, <1>5, <1>10, <3>1, <3>2 DEF Covers
    <3> QED
      BY <3>1, <3>3, <3>4
  <2>2. CASE q = n2
    <3>1. /\ q \in RequestType(size) /\ q.pc = "pool" /\ q.kind = r.kind /\ q.seats = r.seats
          /\ q.left = r.left /\ q.entries = r.entries /\ q.stored = r.stored
      <4> HIDE DEF r, q, s
      <4> QED
        BY <1>1, <2>2 DEF RequestType, JudgePcs
    <3> HIDE DEF q, r, s
    <3>2. WellFormed(q, size)
      BY <1>1, <1>4, <3>1 DEF WellFormed, Shaped, JudgePcs
    <3>3. Covers(q, locks', status, payouts)
      BY <1>1, <1>4, <1>5, <3>1 DEF Covers
    <3> QED
      BY <3>1, <3>2, <3>3
  <2> HIDE DEF q, n1, n2, r, s
  <2> QED
    BY <1>7, <2>1, <2>2
<1> HIDE DEF n1, n2
<1>12. q # Idle => Judges(q, payouts, raced) /\ Holds(q, profile, ledger, raced)
  <2> HIDE DEF q
  <2> QED
    BY <1>11 DEF Judges, Holds
<1>13. requests'[w] # Idle => RequestOK(w)'
  BY <1>2, <1>11, <1>12 DEF RequestOK
<1>14. \A x \in Seats : ~ At(requests'[w], x)
  <2>1. \A x : ~ At(Idle, x)
    BY DEF At, Idle
  <2>2. q # Idle => \A x : ~ At(q, x)
    <3> HIDE DEF q
    <3> QED
      BY <1>11 DEF At
  <2> QED
    BY <2>1, <2>2
<1>15. RequestsOK' /\ Exclusive'
  BY <1>7, <1>9, <1>13, <1>14, RequestStep DEF Moves
<1>16. RowTypes'
  BY <1>2, <1>3, <1>8 DEF RowTypes, Seats, votes
<1>17. served' \subseteq Seats /\ \A x \in served' : locks'[x] \in Final /\ payouts[x] # None
  <2>1. served \subseteq Seats /\ \A x \in served : locks[x] \in Final /\ payouts[x] # None
    BY <1>3 DEF RowsOK, ServedIsSettled, Final
  <2>2. \A x \in served : locks'[x] \in Final
    <3> HIDE DEF s
    <3> QED
      BY <1>8, <2>1 DEF Final, None
  <2>3. CASE r.left = {s} /\ r.stored
    <3>1. served' = served \cup r.seats
      BY <1>2, <2>3
    <3>2. \A x \in r.seats : locks'[x] \in Final
      <4> HIDE DEF r, s
      <4> QED
        BY <1>10, <2>3
    <3> QED
      BY <1>1, <1>5, <2>1, <2>2, <3>1, <3>2
  <2>4. CASE ~ (r.left = {s} /\ r.stored)
    BY <1>2, <2>1, <2>2, <2>4
  <2> QED
    BY <2>3, <2>4
<1>18. RowsOK'
  <2>1. \A x \in Seats : status[x] # None => locks'[x] # None
    <3> HIDE DEF s
    <3> QED
      BY <1>3, <1>8 DEF RowsOK, Final, None
  <2>2. ServedIsSettled'
    BY <1>2, <1>17 DEF ServedIsSettled, Final
  <2> QED
    BY <1>2, <1>3, <1>17, <2>1, <2>2 DEF RowsOK, Seats, votes
<1>19. Explained'
  BY <1>2, <1>3 DEF Explained, Seats
<1> QED
  BY <1>15, <1>16, <1>18, <1>19, InvPartsNext

\* A vote: only the assignment's status, where there is one, and the vote rows change.
LEMMA VoteKeeps ==
  ASSUME PanelInv,
         \A x \in Seats : status[x] # None <=> status'[x] # None,
         status' \in [Seats -> {None, "assigned", "committed", "revealed", "paid", "slashed"}],
         UNCHANGED <<size, locks, panel, payouts, profile, ledger, pool, requests, served, raced, torn>>,
         commits' \in [Seats -> Answers \cup {None}], reveals' \in [Seats -> Answers \cup {None}],
         given' \in Nat,
         given' = 0 => \A x \in Seats : /\ commits'[x] # None => status'[x] # None
                                        /\ reveals'[x] # None => commits'[x] # None
  PROVE  PanelInv'
<1>1. RowTypes /\ RowsOK /\ Explained /\ RequestsOK /\ Exclusive
  BY InvParts
<1>2. Grows /\ \A x \in Seats : SeatKept(x)
  BY DEF Grows, SeatKept
<1>3. RequestsOK'
  <2>1. ASSUME NEW v \in Workers, requests'[v] # Idle PROVE RequestOK(v)'
    BY <1>2, <2>1, RequestKept
  <2> QED
    BY <1>1, <2>1 DEF RequestsOK, RequestOK
<1>4. Exclusive'
  BY <1>1 DEF Exclusive, Seats
<1>5. RowTypes'
  BY <1>1 DEF RowTypes, Seats
<1>6. RowsOK'
  BY <1>1 DEF RowsOK, Seats, ServedIsSettled
<1>7. Explained'
  BY <1>1 DEF Explained, Seats
<1> QED
  BY <1>3, <1>4, <1>5, <1>6, <1>7, InvPartsNext

LEMMA VoteType ==
  ASSUME PanelInv, NEW s \in Seats, NEW v \in Votes[s]
  PROVE  v \in Answers /\ v # None
<1>1. size \in Sizes
  BY InvParts DEF RowTypes
<1>2. v \in Answers
  BY <1>1, PanelAssumption DEF Seats
<1> QED
  BY <1>2 DEF Answers, None

\* An assignment gets a new status where there is one.
LEMMA WithStatusKeeps ==
  ASSUME PanelInv, NEW s \in Seats, NEW new \in {"committed", "revealed"}, status' = WithStatus(s, new)
  PROVE  /\ status' \in [Seats -> {None, "assigned", "committed", "revealed", "paid", "slashed"}]
         /\ \A x \in Seats : status[x] # None <=> status'[x] # None
BY InvParts DEF RowTypes, WithStatus, None

LEMMA CommitKeeps ==
  ASSUME PanelInv, NEW s \in Seats, NEW v \in Votes[s], Commit(s, v) \/ CommitGiven(s, v)
  PROVE  PanelInv'
<1>1. RowTypes /\ RowsOK
  BY InvParts
<1>2. v \in Answers /\ v # None
  BY VoteType
<1>3. /\ commits' = [commits EXCEPT ![s] = v] /\ reveals' = reveals
      /\ UNCHANGED <<size, locks, panel, payouts, profile, ledger, pool, requests, served, raced, torn>>
  BY DEF Commit, CommitGiven, history
<1>4. commits' \in [Seats -> Answers \cup {None}] /\ reveals' \in [Seats -> Answers \cup {None}]
  BY <1>1, <1>2, <1>3 DEF RowTypes
<1>5. CASE Commit(s, v)
  <2>1. status[s] # None /\ status' = WithStatus(s, "committed") /\ given' = given
    BY <1>5 DEF Commit, history
  <2>2. /\ status' \in [Seats -> {None, "assigned", "committed", "revealed", "paid", "slashed"}]
        /\ \A x \in Seats : status[x] # None <=> status'[x] # None
    BY <2>1, WithStatusKeeps
  <2>3. given' = 0 => \A x \in Seats : /\ commits'[x] # None => status'[x] # None
                                       /\ reveals'[x] # None => commits'[x] # None
    BY <1>1, <1>2, <1>3, <2>1, <2>2 DEF RowTypes, RowsOK
  <2> QED
    BY <1>1, <1>3, <1>4, <2>1, <2>2, <2>3, VoteKeeps DEF RowsOK
<1>6. CASE CommitGiven(s, v)
  <2>1. status' = status /\ given' \in Nat /\ given' # 0
    BY <1>1, <1>6 DEF CommitGiven, RowsOK
  <2> QED
    BY <1>1, <1>3, <1>4, <2>1, VoteKeeps DEF RowTypes
<1> QED
  BY <1>5, <1>6

LEMMA RevealKeeps ==
  ASSUME PanelInv, NEW s \in Seats, NEW v \in Votes[s], Reveal(s, v) \/ RevealGiven(s, v)
  PROVE  PanelInv'
<1>1. RowTypes /\ RowsOK
  BY InvParts
<1>2. v \in Answers /\ v # None
  BY VoteType
<1>3. /\ status' = WithStatus(s, "revealed") /\ reveals' = [reveals EXCEPT ![s] = v] /\ commits' = commits
      /\ UNCHANGED <<size, locks, panel, payouts, profile, ledger, pool, requests, served, raced, torn>>
  BY DEF Reveal, RevealGiven, Store
<1>4. commits' \in [Seats -> Answers \cup {None}] /\ reveals' \in [Seats -> Answers \cup {None}]
  BY <1>1, <1>2, <1>3 DEF RowTypes
<1>5. /\ status' \in [Seats -> {None, "assigned", "committed", "revealed", "paid", "slashed"}]
      /\ \A x \in Seats : status[x] # None <=> status'[x] # None
  BY <1>3, WithStatusKeeps
<1>6. CASE Reveal(s, v)
  <2>1. commits[s] = v /\ given' = given
    BY <1>6 DEF Reveal
  <2>2. given' = 0 => \A x \in Seats : /\ commits'[x] # None => status'[x] # None
                                       /\ reveals'[x] # None => commits'[x] # None
    BY <1>1, <1>2, <1>3, <1>5, <2>1 DEF RowTypes, RowsOK
  <2> QED
    BY <1>1, <1>3, <1>4, <1>5, <2>1, <2>2, VoteKeeps DEF RowsOK
<1>7. CASE RevealGiven(s, v)
  <2>1. given' \in Nat /\ given' # 0
    BY <1>1, <1>7 DEF RevealGiven, RowsOK
  <2> QED
    BY <1>3, <1>4, <1>5, <2>1, VoteKeeps
<1> QED
  BY <1>6, <1>7

-----------------------------------------------------------------------------
(***************************************************************************)
(* Part 5: the theorems.                                                   *)
(***************************************************************************)
LEMMA InitPanel ==
  ASSUME Init
  PROVE  PanelInv
<1> USE PanelAssumption
<1>1. RowTypes
  BY DEF Init, RowTypes, None
<1>2. RequestsOK
  BY DEF Init, RequestsOK
<1>3. Exclusive
  BY DEF Init, Exclusive, At, Idle
<1>4. \A s \in Seats : ledger[s] = {}
  BY DEF Init
<1>5. LedgerTyped({})
  BY FS_EmptySet DEF LedgerTyped
<1>6. RowsOK
  BY <1>4, <1>5 DEF Init, RowsOK, ServedIsSettled
<1>7. Explained
  <2>1. Total({}) = 0
    BY SumOverEmpty DEF Total
  <2>2. \A s \in Seats : profile[s].bond = Deposit
    BY DEF Init
  <2>3. \A s \in Seats : {e \in ledger[s] : e.field = "bond"} = {}
    BY <1>4
  <2>4. \A s \in Seats : SeatExplained(ledger[s], profile[s])
    <3>1. Deposit + 0 = Deposit
      OBVIOUS
    <3> SUFFICES ASSUME NEW s \in Seats
                 PROVE  profile[s].bond = Deposit + Total({e \in ledger[s] : e.field = "bond"})
      BY DEF SeatExplained
    <3> QED
      BY <2>1, <2>2, <2>3, <3>1
  <2>5. \A s \in Seats : SeatJudged(ledger[s], payouts[s])
    BY <1>4 DEF SeatJudged
  <2> QED
    BY <2>4, <2>5 DEF Explained
<1> QED
  BY <1>1, <1>2, <1>3, <1>6, <1>7, InvParts

LEMMA NextPanel ==
  ASSUME PanelInv, [Next]_vars
  PROVE  PanelInv'
<1>1. CASE UNCHANGED vars
  BY <1>1, InvParts DEF vars, votes, history, PanelInv, TypeOK, RequestsOK, Exclusive, RowsOK, Seats,
                        ServedIsSettled
<1>2. CASE Next
  <2>1. ASSUME NEW w \in Workers, Plan(w) PROVE PanelInv'
    BY <2>1, PlanKeeps
  <2>2. ASSUME NEW w \in Workers, Reserve(w) PROVE PanelInv'
    BY <2>2, ReserveKeeps
  <2>3. ASSUME NEW w \in Workers, InsertPanel(w) PROVE PanelInv'
    BY <2>3, InsertPanelKeeps
  <2>4. ASSUME NEW w \in Workers, Assign(w) PROVE PanelInv'
    BY <2>4, AssignKeeps
  <2>5. ASSUME NEW w \in Workers, ReadProfile(w) PROVE PanelInv'
    BY <2>5, ReadProfileKeeps
  <2>6. ASSUME NEW w \in Workers, ApplyEntry(w) PROVE PanelInv'
    BY <2>6, ApplyEntryKeeps
  <2>7. ASSUME NEW w \in Workers, NEW settlesPool \in BOOLEAN, Settle(w, settlesPool) PROVE PanelInv'
    BY <2>7, SettleKeeps
  <2>8. ASSUME NEW w \in Workers, NEW phase \in {"commit", "reveal"}, Timeout(w, phase) PROVE PanelInv'
    BY <2>8, TimeoutKeeps
  <2>9. ASSUME NEW w \in Workers, CheckPayout(w) PROVE PanelInv'
    BY <2>9, CheckPayoutKeeps
  <2>10. ASSUME NEW w \in Workers, InsertPayout(w) PROVE PanelInv'
    BY <2>10, InsertPayoutKeeps
  <2>11. ASSUME NEW w \in Workers, SettleBond(w) PROVE PanelInv'
    BY <2>11, SettleBondKeeps
  <2>12. ASSUME NEW w \in Workers, ResolvePool(w) PROVE PanelInv'
    BY <2>12, ResolvePoolKeeps
  <2>13. ASSUME NEW w \in Workers, Die(w) PROVE PanelInv'
    BY <2>13, DieKeeps
  <2>14. ASSUME NEW w \in Workers, DieTorn(w) PROVE PanelInv'
    BY <2>14, DieTornKeeps
  <2>15. ASSUME NEW s \in Seats, NEW v \in Votes[s], Commit(s, v) \/ CommitGiven(s, v) PROVE PanelInv'
    BY <2>15, CommitKeeps
  <2>16. ASSUME NEW s \in Seats, NEW v \in Votes[s], Reveal(s, v) \/ RevealGiven(s, v) PROVE PanelInv'
    BY <2>16, RevealKeeps
  <2>17. ASSUME NEW w \in Workers, NEW b \in Bodies, NEW settlesPool \in BOOLEAN,
                SettleGiven(w, b, settlesPool)
         PROVE  PanelInv'
    BY <2>17, SettleGivenKeeps
  <2>18. ASSUME NEW w \in Workers, NEW b \in Bodies, NEW phase \in {"commit", "reveal"},
                TimeoutGiven(w, b, phase)
         PROVE  PanelInv'
    BY <2>18, TimeoutGivenKeeps
  <2> QED
    BY <1>2, <2>1, <2>2, <2>3, <2>4, <2>5, <2>6, <2>7, <2>8, <2>9, <2>10, <2>11, <2>12, <2>13,
       <2>14, <2>15, <2>16, <2>17, <2>18 DEF Next
<1> QED
  BY <1>1, <1>2

LEMMA PanelInvHolds == Spec => []PanelInv
<1>1. Init => PanelInv
  BY InitPanel
<1>2. PanelInv /\ [Next]_vars => PanelInv'
  BY NextPanel
<1> QED
  BY <1>1, <1>2, PTL DEF Spec

(***************************************************************************)
(* The ledger explains every bond: whatever requests overlap, are repeated *)
(* or die, a resolver's available bond is the deposit plus the entries the *)
(* ledger has for it, unless two requests worked on that resolver at once  *)
(* or one died between the UPDATE of the profile and its entry; and no     *)
(* bond is ever negative and no reputation out of range                    *)
(* (applyResolverBondDelta, applyResolverReputationDelta).                 *)
(***************************************************************************)
THEOREM BondsAreExplained == Spec => []LedgerExplainsBond
<1>1. PanelInv => LedgerExplainsBond
  BY DEF PanelInv, LedgerExplainsBond, SeatExplained
<1> QED
  BY <1>1, PanelInvHolds, PTL

(***************************************************************************)
(* A settlement or timeout of the stored panel that ran to its end left    *)
(* none of its seats with a locked bond or without a payout, wherever      *)
(* earlier requests died and whatever panels others brought in a body.     *)
(***************************************************************************)
THEOREM ServedSeatsAreSettled == Spec => []ServedIsSettled
<1>1. PanelInv => ServedIsSettled
  BY DEF PanelInv, RowsOK
<1> QED
  BY <1>1, PanelInvHolds, PTL

-----------------------------------------------------------------------------
(***************************************************************************)
(* Part 6: one verdict, and pay for correctness.  As long as no vote came  *)
(* late or from a body, what every settlement computed is what the votes   *)
(* say now.                                                                *)
(***************************************************************************)
Answer == ConsensusOf(Seats)
Correct == Agreeing(Seats)
CorrectFee == FeePerCorrect(Seats)

\* Entries that say what became of a seat.
Verdicts == {"release", "fee", "slash"}

\* A request judges by the answer a, the correct seats m and the fee f; rv are the votes.
RequestPaid(r, a, m, f, rv) ==
  /\ r.kind = "settle" => r.matched = m /\ r.fee = f /\ r.answer = a
  /\ r.kind = "timeout" => r.matched = {} /\ \A s \in r.seats : rv[s] = None
  /\ r.kind # "settle" => ~ r.settlesPool /\ r.pc # "pool"
  /\ r.pc \in {"read", "write"} => \A e \in EntrySet(r.entries) :
       /\ e.kind \in Verdicts => (e.kind = "slash" <=> Min(r.left) \notin r.matched)
       /\ e.kind = "fee" => e.amount = r.fee

\* An entry e and a bond lock l of seat s agree with the correct seats m, after the payout pt.
EntryPaid(e, s, m, f, pt) ==
  e.kind \in Verdicts => /\ pt # None /\ (e.kind = "slash" <=> s \notin m)
                         /\ e.kind = "fee" => e.amount = f

LockPaid(l, s, m, pt) == l \in Final => pt # None /\ (l = "slashed" <=> s \notin m)

PaidInv ==
  OneSetOfVotes =>
    /\ \A w \in Workers : requests[w] # Idle =>
         RequestPaid(requests[w], Answer, Correct, CorrectFee, reveals)
    /\ \A s \in Seats : /\ payouts[s] = "matched" => s \in Correct
                        /\ payouts[s] = "missed" => s \notin Correct
    /\ pool # None => pool = Answer /\ \E s \in Seats : payouts[s] # None
    /\ \A s \in Seats : \A e \in ledger[s] : EntryPaid(e, s, Correct, CorrectFee, payouts[s])
    /\ \A s \in Seats : LockPaid(locks[s], s, Correct, payouts[s])

\* The same votes make the same consensus.
LEMMA VotesSame ==
  ASSUME UNCHANGED <<size, reveals>>
  PROVE  Answer' = Answer /\ Correct' = Correct /\ CorrectFee' = CorrectFee /\ Seats' = Seats
BY DEF Answer, Correct, CorrectFee, Seats, ConsensusOf, WeightFor, Agreeing, FeePerCorrect

\* Seats without an assignment do not weigh.
LEMMA AssignedDecide ==
  ASSUME PanelInv, OneSetOfVotes
  PROVE  /\ ConsensusOf(Assigned) = Answer /\ Agreeing(Assigned) = Correct
         /\ FeePerCorrect(Assigned) = CorrectFee
<1>1. \A s \in Seats : reveals[s] # None => s \in Assigned
  BY InvParts DEF RowsOK, Assigned, OneSetOfVotes
<1>2. Assigned \subseteq Seats
  BY DEF Assigned
<1>3. \A a \in Answers : {s \in Assigned : reveals[s] = a} = {s \in Seats : reveals[s] = a}
  BY <1>1, <1>2 DEF Answers, None
<1>4. \A a \in Answers : WeightFor(a, Assigned) = WeightFor(a, Seats)
  BY <1>3 DEF WeightFor
<1>5. ConsensusOf(Assigned) = Answer
  BY <1>4 DEF ConsensusOf, Answer
<1>6. Answer \in Answers
  <2>1. IsFiniteSet(Seats) /\ \A s \in Seats : Weight[s] \in Nat \ {0}
    BY PanelFinite
  <2> QED
    BY <2>1, ConsensusIsHeaviest DEF Answer
<1>7. Agreeing(Assigned) = Correct
  BY <1>3, <1>5, <1>6 DEF Agreeing, Correct, Answer
<1> QED
  BY <1>5, <1>7 DEF FeePerCorrect, CorrectFee, Correct

LEMMA AnswerType ==
  ASSUME PanelInv
  PROVE  Answer \in Answers /\ Answer # None /\ Correct \subseteq Seats
         /\ \A s \in Seats : s \in Correct <=> reveals[s] = Answer
<1>1. IsFiniteSet(Seats) /\ \A s \in Seats : Weight[s] \in Nat \ {0}
  BY PanelFinite
<1>2. Answer \in Answers
  BY <1>1, ConsensusIsHeaviest DEF Answer
<1> QED
  BY <1>2 DEF Answers, None, Correct, Agreeing, Answer

\* A step of request w that keeps the votes.
LEMMA PaidStep ==
  ASSUME PanelInv, PaidInv, NEW w \in Workers, Moves(w), UNCHANGED <<size, reveals, late, given>>,
         \A s \in Seats : payouts[s] # None => payouts'[s] # None,
         OneSetOfVotes =>
           /\ requests'[w] # Idle => RequestPaid(requests'[w], Answer, Correct, CorrectFee, reveals)
           /\ \A s \in Seats : \/ payouts'[s] = payouts[s]
                               \/ payouts'[s] = IF s \in Correct THEN "matched" ELSE "missed"
           /\ pool' = pool \/ (pool' = Answer /\ \E s \in Seats : payouts'[s] # None)
           /\ \A s \in Seats : \A e \in ledger'[s] :
                e \in ledger[s] \/ EntryPaid(e, s, Correct, CorrectFee, payouts'[s])
           /\ \A s \in Seats : locks'[s] = locks[s] \/ LockPaid(locks'[s], s, Correct, payouts'[s])
  PROVE  PaidInv'
<1>1. Answer' = Answer /\ Correct' = Correct /\ CorrectFee' = CorrectFee /\ Seats' = Seats
  BY VotesSame
<1>2. OneSetOfVotes' <=> OneSetOfVotes
  BY DEF OneSetOfVotes
<1> SUFFICES ASSUME OneSetOfVotes
             PROVE  /\ \A v \in Workers : requests'[v] # Idle =>
                         RequestPaid(requests'[v], Answer, Correct, CorrectFee, reveals)
                    /\ \A s \in Seats : /\ payouts'[s] = "matched" => s \in Correct
                                        /\ payouts'[s] = "missed" => s \notin Correct
                    /\ pool' # None => pool' = Answer /\ \E s \in Seats : payouts'[s] # None
                    /\ \A s \in Seats : \A e \in ledger'[s] :
                         EntryPaid(e, s, Correct, CorrectFee, payouts'[s])
                    /\ \A s \in Seats : LockPaid(locks'[s], s, Correct, payouts'[s])
  BY <1>1, <1>2 DEF PaidInv
<1>3. \A v \in Workers : requests'[v] # Idle =>
        RequestPaid(requests'[v], Answer, Correct, CorrectFee, reveals)
  BY DEF PaidInv, Moves
<1>4. \A s \in Seats : /\ payouts'[s] = "matched" => s \in Correct
                       /\ payouts'[s] = "missed" => s \notin Correct
  BY DEF PaidInv
<1>5. pool' # None => pool' = Answer /\ \E s \in Seats : payouts'[s] # None
  BY DEF PaidInv
<1>6. ASSUME NEW s \in Seats, NEW e \in ledger'[s] PROVE EntryPaid(e, s, Correct, CorrectFee, payouts'[s])
  <2>1. CASE e \in ledger[s]
    BY <2>1 DEF PaidInv, EntryPaid
  <2> QED
    BY <2>1
<1>7. ASSUME NEW s \in Seats PROVE LockPaid(locks'[s], s, Correct, payouts'[s])
  <2>1. CASE locks'[s] = locks[s]
    BY <2>1 DEF PaidInv, LockPaid
  <2> QED
    BY <2>1
<1> QED
  BY <1>3, <1>4, <1>5, <1>6, <1>7

\* Such a step that writes neither payouts, pool, ledger nor bond locks.
LEMMA PaidQuietly ==
  ASSUME PanelInv, PaidInv, NEW w \in Workers, Moves(w),
         UNCHANGED <<size, reveals, late, given, payouts, pool, ledger, locks>>,
         OneSetOfVotes /\ requests'[w] # Idle =>
           RequestPaid(requests'[w], Answer, Correct, CorrectFee, reveals)
  PROVE  PaidInv'
BY PaidStep

\* Nothing is claimed after a vote from a body.
LEMMA PaidAfterGiven ==
  ASSUME PanelInv, given' = given + 1
  PROVE  PaidInv'
<1>1. given' # 0
  BY InvParts DEF RowsOK
<1> QED
  BY <1>1 DEF PaidInv, OneSetOfVotes

LEMMA PaidRequest ==
  ASSUME PanelInv, PaidInv, NEW w \in Workers, requests[w].pc # "idle", OneSetOfVotes
  PROVE  RequestPaid(requests[w], Answer, Correct, CorrectFee, reveals)
BY Working DEF PaidInv

\* A request that judges takes the correct seats of those it goes through for correct.
LEMMA PaidVerdict ==
  ASSUME PanelInv, PaidInv, OneSetOfVotes, NEW w \in Workers, requests[w].pc # "idle",
         requests[w].kind # "plan", NEW s \in requests[w].seats
  PROVE  s \in requests[w].matched <=> s \in Correct
<1> DEFINE r == requests[w]
<1>1. r \in RequestType(size) /\ s \in Seats
  BY Working
<1>2. RequestPaid(r, Answer, Correct, CorrectFee, reveals)
  BY PaidRequest
<1>3. r.kind \in {"settle", "timeout"}
  BY <1>1 DEF RequestType
<1>4. CASE r.kind = "settle"
  BY <1>2, <1>4 DEF RequestPaid
<1>5. CASE r.kind = "timeout"
  <2>1. r.matched = {} /\ reveals[s] = None
    BY <1>2, <1>5 DEF RequestPaid
  <2> QED
    BY <1>1, <2>1, AnswerType
<1> QED
  BY <1>3, <1>4, <1>5

\* Requests that begin or end.
LEMMA PaidEnds ==
  ASSUME PanelInv, PaidInv, NEW w \in Workers, End(w),
         UNCHANGED <<size, reveals, late, given, payouts, pool, ledger, locks>>
  PROVE  PaidInv'
<1>1. Moves(w) /\ requests'[w] = Idle
  BY UpdateMoves DEF End
<1> QED
  BY <1>1, PaidQuietly

LEMMA PaidStarts ==
  ASSUME PanelInv, PaidInv, NEW w \in Workers, NEW r, Start(w, r),
         UNCHANGED <<size, reveals, late, given, payouts, pool, ledger, locks>>,
         OneSetOfVotes => RequestPaid(r, Answer, Correct, CorrectFee, reveals)
  PROVE  PaidInv'
<1>1. Moves(w) /\ requests'[w] = r
  BY UpdateMoves DEF Start
<1> QED
  BY <1>1, PaidQuietly

LEMMA PlanPaid ==
  ASSUME PanelInv, PaidInv, NEW w \in Workers, Plan(w)
  PROVE  PaidInv'
<1>1. RequestPaid(Request("plan", Seats), Answer, Correct, CorrectFee, reveals)
  BY DEF RequestPaid, Request
<1> QED
  BY <1>1, PaidStarts DEF Plan, votes

LEMMA SettlePaid ==
  ASSUME PanelInv, PaidInv, NEW w \in Workers, NEW settlesPool \in BOOLEAN, Settle(w, settlesPool)
  PROVE  PaidInv'
<1> DEFINE r == [Request("settle", Assigned) EXCEPT
                   !.pc = "check", !.matched = Agreeing(Assigned),
                   !.fee = FeePerCorrect(Assigned), !.answer = ConsensusOf(Assigned),
                   !.settlesPool = settlesPool]
<1>1. /\ r.kind = "settle" /\ r.pc = "check" /\ r.matched = Agreeing(Assigned)
      /\ r.fee = FeePerCorrect(Assigned) /\ r.answer = ConsensusOf(Assigned)
  BY DEF Request
<1> HIDE DEF r
<1>2. OneSetOfVotes => RequestPaid(r, Answer, Correct, CorrectFee, reveals)
  BY <1>1, AssignedDecide DEF RequestPaid
<1>3. Start(w, r) /\ UNCHANGED <<size, reveals, late, given, payouts, pool, ledger, locks>>
  BY DEF Settle, r, votes
<1> QED
  BY <1>2, <1>3, PaidStarts

LEMMA TimeoutPaid ==
  ASSUME PanelInv, PaidInv, NEW w \in Workers, NEW phase \in {"commit", "reveal"}, NEW r,
         Start(w, r), r.kind = "timeout", r.pc = "check", r.matched = {}, r.seats \subseteq Silent(phase),
         r.settlesPool = FALSE,
         UNCHANGED <<size, reveals, late, given, payouts, pool, ledger, locks>>
  PROVE  PaidInv'
<1>1. OneSetOfVotes => \A s \in Seats : commits[s] = None => reveals[s] = None
  BY InvParts DEF RowsOK, OneSetOfVotes
<1>2. OneSetOfVotes => \A s \in Silent(phase) : reveals[s] = None
  BY <1>1 DEF Silent
<1>3. OneSetOfVotes => RequestPaid(r, Answer, Correct, CorrectFee, reveals)
  BY <1>2 DEF RequestPaid
<1> QED
  BY <1>3, PaidStarts

LEMMA TimeoutStoredPaid ==
  ASSUME PanelInv, PaidInv, NEW w \in Workers, NEW phase \in {"commit", "reveal"}, Timeout(w, phase)
  PROVE  PaidInv'
<1> DEFINE r == [Request("timeout", TimedOut(phase)) EXCEPT !.pc = "check"]
<1>1. /\ r.kind = "timeout" /\ r.pc = "check" /\ r.matched = {} /\ r.seats = TimedOut(phase)
      /\ r.settlesPool = FALSE
  BY DEF Request
<1>2. Start(w, r) /\ UNCHANGED <<size, reveals, late, given, payouts, pool, ledger, locks>>
  BY DEF Timeout, votes
<1> HIDE DEF r
<1>3. r.seats \subseteq Silent(phase)
  BY <1>1 DEF TimedOut
<1> QED
  BY <1>1, <1>2, <1>3, TimeoutPaid

LEMMA TimeoutGivenPaid ==
  ASSUME PanelInv, PaidInv, NEW w \in Workers, NEW b \in Bodies, NEW phase \in {"commit", "reveal"},
         TimeoutGiven(w, b, phase)
  PROVE  PaidInv'
<1> DEFINE S == b.seats \cap Silent(phase)
           r == [Request("timeout", S) EXCEPT !.pc = "check", !.stored = FALSE]
<1>1. /\ r.kind = "timeout" /\ r.pc = "check" /\ r.matched = {} /\ r.seats = S
      /\ r.settlesPool = FALSE
  BY DEF Request
<1>2. Start(w, r) /\ UNCHANGED <<size, reveals, late, given, payouts, pool, ledger, locks>>
  BY DEF TimeoutGiven, votes
<1> HIDE DEF r
<1>3. r.seats \subseteq Silent(phase)
  BY <1>1
<1> QED
  BY <1>1, <1>2, <1>3, TimeoutPaid

LEMMA ReservePaid ==
  ASSUME PanelInv, PaidInv, NEW w \in Workers, Reserve(w)
  PROVE  PaidInv'
<1> DEFINE r == requests[w]
           q == requests'[w]
           s == Seat(w)
           left == IF r.left = {s} THEN Seats ELSE r.left \ {s}
           pc == IF r.left = {s} THEN "panel" ELSE "reserve"
<1>1. r \in RequestType(size) /\ r.pc = "reserve" /\ DOMAIN requests = Workers
  BY Working, InvParts DEF Reserve, RequestsOK
<1>2. UNCHANGED <<size, reveals, late, given, payouts, pool, ledger>>
  BY DEF Reserve, votes, history
<1>3. CASE UNCHANGED locks /\ End(w)
  BY <1>2, <1>3, PaidEnds
<1>4. CASE /\ locks' = [locks EXCEPT ![s] = "locked"]
           /\ requests' = [requests EXCEPT ![w].left = left, ![w].pc = pc]
  <2>1. pc \in {"panel", "reserve"}
    OBVIOUS
  <2> HIDE DEF left, pc
  <2>2. Moves(w) /\ q = [r EXCEPT !.left = left, !.pc = pc]
    BY <1>1, <1>4 DEF Moves
  <2>3. /\ q.kind = r.kind /\ q.seats = r.seats /\ q.matched = r.matched /\ q.fee = r.fee
        /\ q.answer = r.answer /\ q.settlesPool = r.settlesPool /\ q.pc = pc
    <3> HIDE DEF q, r
    <3> QED
      BY <1>1, <2>2 DEF RequestType
  <2>4. OneSetOfVotes => RequestPaid(r, Answer, Correct, CorrectFee, reveals)
    BY <1>1, PaidRequest
  <2>5. OneSetOfVotes => RequestPaid(q, Answer, Correct, CorrectFee, reveals)
    <3> HIDE DEF q, r
    <3>1. q.pc \notin {"pool", "read", "write"}
      BY <2>1, <2>3
    <3> QED
      BY <2>3, <2>4, <3>1 DEF RequestPaid
  <2>6. \A x \in Seats : locks'[x] = locks[x] \/ LockPaid(locks'[x], x, Correct, payouts'[x])
    <3>1. DOMAIN locks = Seats
      BY InvParts DEF RowTypes
    <3> HIDE DEF s
    <3>2. \A x \in Seats : locks'[x] = locks[x] \/ locks'[x] = "locked"
      BY <1>4, <3>1
    <3> QED
      BY <3>2 DEF LockPaid, Final
  <2> QED
    BY <1>2, <2>2, <2>5, <2>6, PaidStep
<1> QED
  BY <1>3, <1>4 DEF Reserve

LEMMA InsertPanelPaid ==
  ASSUME PanelInv, PaidInv, NEW w \in Workers, InsertPanel(w)
  PROVE  PaidInv'
<1> DEFINE r == requests[w]
           q == requests'[w]
<1>1. /\ Moves(w) /\ q.pc = "assign" /\ q.kind = r.kind /\ q.seats = r.seats /\ q.matched = r.matched
      /\ q.fee = r.fee /\ q.answer = r.answer /\ q.settlesPool = r.settlesPool
  BY GotoMoves DEF InsertPanel, PlanPcs
<1>2. OneSetOfVotes => RequestPaid(r, Answer, Correct, CorrectFee, reveals)
  BY PaidRequest DEF InsertPanel
<1>3. OneSetOfVotes => RequestPaid(q, Answer, Correct, CorrectFee, reveals)
  <2> HIDE DEF q, r
  <2> QED
    BY <1>1, <1>2 DEF RequestPaid
<1> QED
  BY <1>1, <1>3, PaidQuietly DEF InsertPanel, votes, history

LEMMA AssignPaid ==
  ASSUME PanelInv, PaidInv, NEW w \in Workers, Assign(w)
  PROVE  PaidInv'
<1> DEFINE r == requests[w]
           q == requests'[w]
           e == Entry("lock", "bond", - Bond)
           new == <<e>>
<1>1. r \in RequestType(size) /\ DOMAIN requests = Workers /\ r.pc = "assign"
  BY Working, InvParts DEF Assign, RequestsOK
<1>2. requests' = [requests EXCEPT ![w].pc = "read", ![w].entries = new]
      /\ UNCHANGED <<size, reveals, late, given, payouts, pool, ledger, locks>>
  BY DEF Assign, votes
<1>3. \A f \in EntrySet(new) : f.kind = "lock"
  <2>1. e.kind = "lock"
    BY DEF Entry
  <2> HIDE DEF e
  <2> QED
    BY <2>1 DEF EntrySet
<1> HIDE DEF new
<1>4. Moves(w) /\ q = [r EXCEPT !.pc = "read", !.entries = new]
  BY <1>1, <1>2 DEF Moves
<1>5. /\ q.pc = "read" /\ q.kind = r.kind /\ q.seats = r.seats /\ q.matched = r.matched
      /\ q.fee = r.fee /\ q.answer = r.answer /\ q.settlesPool = r.settlesPool /\ q.entries = new
  <2> HIDE DEF q, r
  <2> QED
    BY <1>1, <1>4 DEF RequestType
<1>6. OneSetOfVotes => RequestPaid(r, Answer, Correct, CorrectFee, reveals)
  BY <1>1, PaidRequest
<1>7. OneSetOfVotes => RequestPaid(q, Answer, Correct, CorrectFee, reveals)
  <2> HIDE DEF q, r
  <2> QED
    BY <1>3, <1>5, <1>6 DEF RequestPaid, Verdicts
<1> QED
  BY <1>2, <1>4, <1>7, PaidQuietly

LEMMA CheckPayoutPaid ==
  ASSUME PanelInv, PaidInv, NEW w \in Workers, CheckPayout(w)
  PROVE  PaidInv'
<1> DEFINE r == requests[w]
           q == requests'[w]
<1>1. /\ Shaped(r, size) /\ Covers(r, locks, status, payouts) /\ r.pc = "check" /\ Seat(w) = Min(r.left)
      /\ size \in Nat
  BY Working, InvParts, SeatsOK DEF CheckPayout, RequestOK
<1>2. UNCHANGED <<size, reveals, late, given, payouts, pool, ledger, locks>>
  BY DEF CheckPayout, votes
<1>3. OneSetOfVotes => RequestPaid(r, Answer, Correct, CorrectFee, reveals)
  BY <1>1, PaidRequest
<1>4. CASE payouts[Seat(w)] # None
  <2>1. requests' = [requests EXCEPT ![w] = AfterSeat(r)]
    BY <1>4 DEF CheckPayout
  <2>2. Moves(w) /\ q = AfterSeat(r)
    BY <2>1, UpdateMoves
  <2>3. \/ q = Idle
        \/ /\ q.pc \in {"assign", "check", "bonds"}
           /\ q.kind = r.kind /\ q.seats = r.seats /\ q.matched = r.matched /\ q.fee = r.fee
           /\ q.answer = r.answer /\ q.settlesPool = r.settlesPool
    BY <1>1, <1>4, <2>2, AfterSeatKeeps
  <2>4. OneSetOfVotes /\ q # Idle => RequestPaid(q, Answer, Correct, CorrectFee, reveals)
    <3> HIDE DEF q, r
    <3> QED
      BY <1>3, <2>3 DEF RequestPaid
  <2> QED
    BY <1>2, <2>2, <2>4, PaidQuietly
<1>5. CASE payouts[Seat(w)] = None
  <2>1. /\ Moves(w) /\ q.pc = "insert" /\ q.kind = r.kind /\ q.seats = r.seats /\ q.matched = r.matched
        /\ q.fee = r.fee /\ q.answer = r.answer /\ q.settlesPool = r.settlesPool
    BY <1>1, <1>5, GotoMoves DEF CheckPayout, JudgePcs
  <2>2. OneSetOfVotes => RequestPaid(q, Answer, Correct, CorrectFee, reveals)
    <3> HIDE DEF q, r
    <3> QED
      BY <1>3, <2>1 DEF RequestPaid
  <2> QED
    BY <1>2, <2>1, <2>2, PaidQuietly
<1> QED
  BY <1>4, <1>5

\* What follows an entry.
LEMMA PaidAdvances ==
  ASSUME PanelInv, NEW w \in Workers, requests[w].pc \in {"read", "write"},
         NEW t, t \in RequestType(size), t.pc = "read", t.entries = Tail(requests[w].entries),
         t.kind = requests[w].kind, t.seats = requests[w].seats, t.left = requests[w].left,
         t.matched = requests[w].matched, t.fee = requests[w].fee, t.answer = requests[w].answer,
         t.settlesPool = requests[w].settlesPool, t.stored = requests[w].stored,
         NEW a, NEW m, NEW f, NEW rv, RequestPaid(requests[w], a, m, f, rv),
         Advance(t) # Idle
  PROVE  RequestPaid(Advance(t), a, m, f, rv)
<1> DEFINE r == requests[w]
           q == Advance(t)
<1>1. /\ WellFormed(r, size) /\ Covers(r, locks, status, payouts) /\ Judges(r, payouts, raced)
      /\ size \in Nat
  BY Working, InvParts, SeatsOK DEF RequestOK
<1>2. /\ Shaped(t, size) /\ Covers(t, locks, status, payouts) /\ Judges(t, payouts, raced)
      /\ EntrySet(t.entries) \subseteq EntrySet(r.entries)
  BY <1>1, TailKeeps
<1>3. /\ q.kind = t.kind /\ q.seats = t.seats /\ q.matched = t.matched /\ q.fee = t.fee
      /\ q.answer = t.answer /\ q.settlesPool = t.settlesPool
      /\ (q = t \/ q.pc \in {"assign", "check", "bonds"})
  BY <1>1, <1>2, AdvanceKeeps
<1> HIDE DEF q, r
<1>4. q = t \/ q.pc \in {"assign", "check", "bonds"}
  BY <1>3
<1>5. RequestPaid(t, a, m, f, rv)
  BY <1>2 DEF RequestPaid, r
<1>6. RequestPaid(q, a, m, f, rv)
  BY <1>3, <1>4, <1>5 DEF RequestPaid
<1> QED
  BY <1>6 DEF q

LEMMA ReadProfilePaid ==
  ASSUME PanelInv, PaidInv, NEW w \in Workers, ReadProfile(w)
  PROVE  PaidInv'
<1> DEFINE r == requests[w]
           q == requests'[w]
           s == Seat(w)
           e == Head(r.entries)
           value == profile[s][e.field] + e.amount
           held == IF e.field = "bond" THEN value ELSE Clamp(value)
           t == [r EXCEPT !.entries = Tail(r.entries)]
           u == [r EXCEPT !.pc = "write", !.held = held]
<1>1. r \in RequestType(size) /\ WellFormed(r, size) /\ r.pc = "read"
  BY Working DEF ReadProfile, RequestOK
<1>2. UNCHANGED <<size, reveals, late, given, payouts, pool, ledger, locks>>
  BY DEF ReadProfile, votes, history
<1>3. OneSetOfVotes => RequestPaid(r, Answer, Correct, CorrectFee, reveals)
  BY <1>1, PaidRequest
<1>4. Moves(w) /\ (q = Advance(t) \/ q = Idle \/ q = u)
  <2>1. requests' = [requests EXCEPT ![w] = IF ~ Unrecorded(s, e) THEN Advance(t)
                       ELSE IF e.field = "bond" /\ value < 0 THEN Idle ELSE u]
    BY DEF ReadProfile
  <2>2. Moves(w) /\ q = IF ~ Unrecorded(s, e) THEN Advance(t)
                       ELSE IF e.field = "bond" /\ value < 0 THEN Idle ELSE u
    <3> HIDE DEF e, s, value, t, u
    <3> QED
      BY <2>1, UpdateMoves
  <2> HIDE DEF e, s, value, t, u, q
  <2> QED
    BY <2>2
<1>5. CASE q = Advance(t)
  <2>1. Tail(r.entries) \in Seq(EntryType)
    BY <1>1, EntryParts DEF WellFormed, RequestType
  <2>2. /\ t \in RequestType(size) /\ t.pc = "read" /\ t.entries = Tail(r.entries)
        /\ t.kind = r.kind /\ t.seats = r.seats /\ t.left = r.left /\ t.matched = r.matched
        /\ t.fee = r.fee /\ t.answer = r.answer /\ t.settlesPool = r.settlesPool
        /\ t.stored = r.stored
    BY <1>1, <2>1 DEF RequestType
  <2> HIDE DEF t
  <2>3. OneSetOfVotes /\ Advance(t) # Idle => RequestPaid(Advance(t), Answer, Correct, CorrectFee, reveals)
    BY <1>1, <1>3, <2>2, PaidAdvances
  <2> QED
    BY <1>2, <1>4, <1>5, <2>3, PaidQuietly
<1>6. CASE q = Idle
  BY <1>2, <1>4, <1>6, PaidQuietly
<1>7. CASE q = u
  <2> HIDE DEF held
  <2>1. /\ u.pc = "write" /\ u.kind = r.kind /\ u.seats = r.seats /\ u.left = r.left
        /\ u.entries = r.entries /\ u.matched = r.matched /\ u.fee = r.fee /\ u.answer = r.answer
        /\ u.settlesPool = r.settlesPool
    <3> HIDE DEF r
    <3> QED
      BY <1>1 DEF RequestType
  <2> HIDE DEF u, r
  <2>2. OneSetOfVotes => RequestPaid(u, Answer, Correct, CorrectFee, reveals)
    BY <1>1, <1>3, <2>1 DEF RequestPaid
  <2> QED
    BY <1>2, <1>4, <1>7, <2>2, PaidQuietly
<1> HIDE DEF q, t, u
<1> QED
  BY <1>4, <1>5, <1>6, <1>7

LEMMA ApplyEntryPaid ==
  ASSUME PanelInv, PaidInv, NEW w \in Workers, ApplyEntry(w)
  PROVE  PaidInv'
<1> DEFINE r == requests[w]
           q == requests'[w]
           s == Seat(w)
           e == Head(r.entries)
           t == [r EXCEPT !.pc = "read", !.entries = Tail(r.entries)]
<1>1. /\ r \in RequestType(size) /\ WellFormed(r, size) /\ Covers(r, locks, status, payouts)
      /\ r.pc = "write" /\ s = Min(r.left) /\ s \in Seats /\ s \in r.seats
  BY Working DEF ApplyEntry, RequestOK
<1>2. /\ UNCHANGED <<size, reveals, late, given, payouts, pool, locks>>
      /\ ledger' = [ledger EXCEPT ![s] = IF Unrecorded(s, e) THEN ledger[s] \cup {e} ELSE ledger[s]]
      /\ requests' = [requests EXCEPT ![w] = Advance(t)]
  BY DEF ApplyEntry, votes, history
<1>3. OneSetOfVotes => RequestPaid(r, Answer, Correct, CorrectFee, reveals)
  BY <1>1, PaidRequest
<1>4. Moves(w) /\ q = Advance(t)
  <2> HIDE DEF t
  <2> QED
    BY <1>2, UpdateMoves
<1>5. Tail(r.entries) \in Seq(EntryType) /\ e \in EntrySet(r.entries)
  BY <1>1, EntryParts DEF WellFormed, RequestType
<1>6. /\ t \in RequestType(size) /\ t.pc = "read" /\ t.entries = Tail(r.entries)
      /\ t.kind = r.kind /\ t.seats = r.seats /\ t.left = r.left /\ t.matched = r.matched
      /\ t.fee = r.fee /\ t.answer = r.answer /\ t.settlesPool = r.settlesPool
      /\ t.stored = r.stored
  BY <1>1, <1>5 DEF RequestType, PlanPcs
<1> HIDE DEF t
<1>7. OneSetOfVotes /\ requests'[w] # Idle => RequestPaid(requests'[w], Answer, Correct, CorrectFee, reveals)
  BY <1>1, <1>3, <1>4, <1>6, PaidAdvances
<1> HIDE DEF e, s
<1>8. OneSetOfVotes => EntryPaid(e, s, Correct, CorrectFee, payouts'[s])
  <2> SUFFICES ASSUME OneSetOfVotes, e.kind \in Verdicts
               PROVE  /\ payouts[s] # None /\ (e.kind = "slash" <=> s \notin Correct)
                      /\ e.kind = "fee" => e.amount = CorrectFee
    BY <1>2 DEF EntryPaid
  <2>1. r.kind # "plan"
    BY <1>1, <1>5 DEF WellFormed, Shaped, Verdicts
  <2>2. s \in r.matched <=> s \in Correct
    BY <1>1, <2>1, PaidVerdict
  <2> HIDE DEF r
  <2>3. (e.kind = "slash" <=> s \notin r.matched) /\ (e.kind = "fee" => e.amount = r.fee)
    BY <1>1, <1>3, <1>5 DEF RequestPaid
  <2>4. payouts[s] # None
    BY <1>1, <2>1 DEF Covers
  <2>5. e.kind = "fee" => r.kind = "settle"
    BY <1>1, <1>3, <2>1, <2>3 DEF RequestPaid, RequestType
  <2>6. e.kind = "fee" => e.amount = CorrectFee
    BY <1>3, <2>3, <2>5 DEF RequestPaid
  <2> QED
    BY <2>2, <2>3, <2>4, <2>6
<1>9. \A x \in Seats : \A f \in ledger'[x] : f \in ledger[x] \/ (x = s /\ f = e)
  <2>1. DOMAIN ledger = Seats
    BY InvParts DEF RowsOK
  <2> QED
    BY <1>1, <1>2, <2>1
<1>10. OneSetOfVotes => \A x \in Seats : \A f \in ledger'[x] :
         f \in ledger[x] \/ EntryPaid(f, x, Correct, CorrectFee, payouts'[x])
  BY <1>8, <1>9
<1> QED
  BY <1>2, <1>4, <1>7, <1>10, PaidStep

LEMMA InsertPayoutPaid ==
  ASSUME PanelInv, PaidInv, NEW w \in Workers, InsertPayout(w)
  PROVE  PaidInv'
<1> DEFINE r == requests[w]
           q == requests'[w]
           s == Seat(w)
           matched == s \in r.matched
           verdict == IF matched THEN "matched" ELSE "missed"
           new == Accounting(matched, r.fee)
           n == [r EXCEPT !.pc = "read", !.entries = new]
<1>1. /\ r \in RequestType(size) /\ Shaped(r, size) /\ r.pc = "insert" /\ s = Min(r.left) /\ s \in Seats
      /\ s \in r.seats
  BY Working DEF InsertPayout
<1>2. /\ UNCHANGED <<size, reveals, late, given, pool, ledger, locks>>
      /\ payouts' = [payouts EXCEPT ![s] = IF payouts[s] # None THEN payouts[s] ELSE verdict]
      /\ requests' = [requests EXCEPT ![w] = IF status[s] = None THEN Idle ELSE n]
  BY DEF InsertPayout, votes, history
<1>3. DOMAIN requests = Workers /\ DOMAIN payouts = Seats
  BY InvParts DEF RequestsOK, RowTypes
<1>4. matched \in BOOLEAN /\ r.fee \in Nat
  BY <1>1 DEF RequestType
<1>5. \A e \in EntrySet(new) : /\ e.kind \in {"release", "fee"} => matched
                               /\ e.kind = "slash" => ~ matched
                               /\ e.kind = "fee" => e.amount = r.fee
  BY <1>4, AccountingParts
<1> HIDE DEF new
<1>6. Moves(w) /\ (q = Idle \/ q = n)
  <2> HIDE DEF n
  <2> QED
    BY <1>2, UpdateMoves
<1>7. /\ n.pc = "read" /\ n.kind = r.kind /\ n.seats = r.seats /\ n.matched = r.matched /\ n.left = r.left
      /\ n.fee = r.fee /\ n.answer = r.answer /\ n.settlesPool = r.settlesPool /\ n.entries = new
  <2> HIDE DEF r
  <2> QED
    BY <1>1 DEF RequestType
<1> HIDE DEF n
<1>8. OneSetOfVotes => RequestPaid(r, Answer, Correct, CorrectFee, reveals)
  BY <1>1, PaidRequest
<1>9. OneSetOfVotes /\ requests'[w] # Idle =>
        RequestPaid(requests'[w], Answer, Correct, CorrectFee, reveals)
  <2>1. \A e \in EntrySet(n.entries) :
          /\ e.kind \in Verdicts => (e.kind = "slash" <=> Min(n.left) \notin n.matched)
          /\ e.kind = "fee" => e.amount = n.fee
    BY <1>1, <1>5, <1>7 DEF Verdicts
  <2>2. OneSetOfVotes => RequestPaid(n, Answer, Correct, CorrectFee, reveals)
    <3> HIDE DEF r
    <3> QED
      BY <1>7, <1>8, <2>1 DEF RequestPaid
  <2> QED
    BY <1>6, <2>2
<1>10. OneSetOfVotes => (matched <=> s \in Correct)
  <2>1. r.kind # "plan"
    BY <1>1 DEF Shaped, PlanPcs
  <2> QED
    BY <1>1, <2>1, PaidVerdict
<1>11. verdict = IF matched THEN "matched" ELSE "missed"
  OBVIOUS
<1>12. verdict # None
  BY DEF None
<1> HIDE DEF s, verdict, matched
<1>13. \A x \in Seats : payouts'[x] = payouts[x] \/ (x = s /\ payouts'[x] = verdict)
  BY <1>2, <1>3
<1>14. \A x \in Seats : payouts[x] # None => payouts'[x] # None
  BY <1>2, <1>3
<1>15. OneSetOfVotes => \A x \in Seats : \/ payouts'[x] = payouts[x]
                                  \/ payouts'[x] = IF x \in Correct THEN "matched" ELSE "missed"
  BY <1>10, <1>11, <1>13
<1> QED
  BY <1>2, <1>6, <1>9, <1>14, <1>15, PaidStep

LEMMA SettleBondPaid ==
  ASSUME PanelInv, PaidInv, NEW w \in Workers, SettleBond(w)
  PROVE  PaidInv'
<1> DEFINE r == requests[w]
           q == requests'[w]
           s == Seat(w)
           verdict == IF s \in r.matched THEN "released" ELSE "slashed"
           n1 == [r EXCEPT !.left = r.left \ {s}]
           n2 == [r EXCEPT !.pc = "pool"]
<1>1. /\ r \in RequestType(size) /\ Shaped(r, size) /\ Covers(r, locks, status, payouts)
      /\ r.pc = "bonds" /\ s \in Seats /\ s \in r.seats
  BY Working DEF SettleBond, RequestOK
<1>2. /\ UNCHANGED <<size, reveals, late, given, payouts, pool, ledger>>
      /\ locks' = [locks EXCEPT ![s] = IF locks[s] # "locked" THEN locks[s] ELSE verdict]
      /\ requests' = [requests EXCEPT ![w] = IF r.left # {s} THEN n1
                                             ELSE IF r.settlesPool THEN n2 ELSE Idle]
  BY DEF SettleBond, votes
<1>3. Moves(w) /\ (q = Idle \/ q = n1 \/ (r.settlesPool /\ q = n2))
  <2>1. Moves(w) /\ q = IF r.left # {s} THEN n1 ELSE IF r.settlesPool THEN n2 ELSE Idle
    <3> HIDE DEF n1, n2, r, s
    <3> QED
      BY <1>2, UpdateMoves
  <2> HIDE DEF n1, n2, r, s, q
  <2> QED
    BY <2>1
<1>4. OneSetOfVotes => RequestPaid(r, Answer, Correct, CorrectFee, reveals)
  BY <1>1, PaidRequest
<1>5. q # Idle => /\ q.kind = r.kind /\ q.seats = r.seats /\ q.matched = r.matched
                  /\ q.fee = r.fee /\ q.answer = r.answer /\ q.settlesPool = r.settlesPool
                  /\ q.pc \in {"bonds", "pool"} /\ (q.pc = "pool" => r.settlesPool)
  <2>1. CASE q = n1
    <3> HIDE DEF q, r
    <3> QED
      BY <1>1, <2>1 DEF RequestType
  <2>2. CASE r.settlesPool /\ q = n2
    <3> HIDE DEF q, r
    <3> QED
      BY <1>1, <2>2 DEF RequestType
  <2> HIDE DEF n1, n2, q, r
  <2> QED
    BY <1>3, <2>1, <2>2
<1> HIDE DEF n1, n2
<1>6. OneSetOfVotes /\ q # Idle => RequestPaid(q, Answer, Correct, CorrectFee, reveals)
  <2> HIDE DEF q, r
  <2> QED
    BY <1>4, <1>5 DEF RequestPaid
<1>7. \A x \in Seats : locks'[x] = locks[x] \/ (x = s /\ locks'[x] = verdict)
  <2>1. DOMAIN locks = Seats
    BY InvParts DEF RowTypes
  <2> HIDE DEF s, verdict
  <2> QED
    BY <1>2, <2>1
<1>8. payouts'[s] # None
  BY <1>1, <1>2 DEF Covers
<1>9. OneSetOfVotes => LockPaid(verdict, s, Correct, payouts'[s])
  <2>1. r.kind # "plan"
    BY <1>1 DEF Shaped, PlanPcs
  <2>2. OneSetOfVotes => (s \in r.matched <=> s \in Correct)
    BY <1>1, <2>1, PaidVerdict
  <2> HIDE DEF s, r
  <2> QED
    BY <1>8, <2>2 DEF LockPaid
<1> HIDE DEF s, verdict
<1>10. OneSetOfVotes => \A x \in Seats :
         locks'[x] = locks[x] \/ LockPaid(locks'[x], x, Correct, payouts'[x])
  BY <1>7, <1>9
<1> QED
  BY <1>2, <1>3, <1>6, <1>10, PaidStep

LEMMA ResolvePoolPaid ==
  ASSUME PanelInv, PaidInv, NEW w \in Workers, ResolvePool(w)
  PROVE  PaidInv'
<1> DEFINE r == requests[w]
<1>1. /\ r \in RequestType(size) /\ r.pc = "pool" /\ Covers(r, locks, status, payouts)
      /\ Seat(w) \in r.seats /\ Seat(w) \in Seats
  BY Working DEF ResolvePool, RequestOK
<1>2. /\ UNCHANGED <<size, reveals, late, given, payouts, ledger, locks>> /\ End(w)
      /\ pool' = IF pool = None THEN r.answer ELSE pool
  BY DEF ResolvePool, votes, history
<1>3. Moves(w) /\ requests'[w] = Idle
  BY <1>2, UpdateMoves DEF End
<1>4. payouts[Seat(w)] # None
  BY <1>1 DEF Covers
<1>5. OneSetOfVotes => r.answer = Answer
  <2>1. OneSetOfVotes => RequestPaid(r, Answer, Correct, CorrectFee, reveals)
    BY <1>1, PaidRequest
  <2> HIDE DEF r
  <2> QED
    BY <1>1, <2>1 DEF RequestPaid
<1>6. OneSetOfVotes => pool' = pool \/ (pool' = Answer /\ \E s \in Seats : payouts'[s] # None)
  BY <1>1, <1>2, <1>4, <1>5
<1> QED
  BY <1>2, <1>3, <1>6, PaidStep

\* A vote that is committed says nothing yet.
LEMMA CommitPaid ==
  ASSUME PanelInv, PaidInv, NEW s \in Seats, NEW v \in Votes[s], Commit(s, v)
  PROVE  PaidInv'
<1>1. UNCHANGED <<size, reveals, late, given, payouts, pool, ledger, locks, requests>>
  BY DEF Commit, history
<1>2. Answer' = Answer /\ Correct' = Correct /\ CorrectFee' = CorrectFee /\ Seats' = Seats
  BY <1>1, VotesSame
<1> QED
  BY <1>1, <1>2 DEF PaidInv, OneSetOfVotes

\* A vote that is revealed in time comes before anything was computed.
LEMMA RevealPaid ==
  ASSUME PanelInv, PaidInv, NEW s \in Seats, NEW v \in Votes[s], Reveal(s, v)
  PROVE  PaidInv'
<1>1. UNCHANGED <<size, payouts, pool, ledger, locks, requests, given>>
      /\ late' = (late \/ Computing \/ \E t \in Seats : payouts[t] # None)
  BY DEF Reveal, Store
<1>2. OneSetOfVotes' => OneSetOfVotes /\ ~ Computing /\ \A t \in Seats : payouts[t] = None
  <2>1. ~ late' => ~ late /\ ~ Computing /\ \A t \in Seats : payouts[t] = None
    BY <1>1, Zenon
  <2> QED
    BY <1>1, <2>1 DEF OneSetOfVotes
<1> SUFFICES ASSUME OneSetOfVotes'
             PROVE  /\ \A w \in Workers : requests'[w] # Idle =>
                         RequestPaid(requests'[w], Answer', Correct', CorrectFee', reveals')
                    /\ \A x \in Seats' : /\ payouts'[x] = "matched" => x \in Correct'
                                         /\ payouts'[x] = "missed" => x \notin Correct'
                    /\ pool' # None => pool' = Answer' /\ \E x \in Seats' : payouts'[x] # None
                    /\ \A x \in Seats' : \A e \in ledger'[x] :
                         EntryPaid(e, x, Correct', CorrectFee', payouts'[x])
                    /\ \A x \in Seats' : LockPaid(locks'[x], x, Correct', payouts'[x])
  BY DEF PaidInv
<1>3. Seats' = Seats
  BY <1>1 DEF Seats
<1>4. \A x \in Seats : payouts'[x] = None /\ payouts[x] = None
  BY <1>1, <1>2
<1>5. pool' = None
  BY <1>1, <1>2, <1>4 DEF PaidInv
<1>6. \A x \in Seats : \A e \in ledger'[x] : e.kind \notin Verdicts
  BY <1>1, <1>2, <1>4 DEF PaidInv, EntryPaid
<1>7. \A x \in Seats : locks'[x] \notin Final
  BY <1>1, <1>2, <1>4 DEF PaidInv, LockPaid
<1>8. ASSUME NEW w \in Workers, requests'[w] # Idle, NEW a, NEW m, NEW f, NEW rv
      PROVE  RequestPaid(requests'[w], a, m, f, rv)
  <2> DEFINE r == requests[w]
  <2>1. r # Idle /\ requests'[w] = r
    BY <1>1, <1>8
  <2>2. r.pc # "idle"
    BY <2>1, Resting
  <2>3. r.kind = "plan"
    BY <1>2, <2>2 DEF Computing
  <2>4. Shaped(r, size)
    BY <2>2, Working
  <2>5. RequestPaid(r, Answer, Correct, CorrectFee, reveals)
    BY <1>2, <2>2, PaidRequest
  <2> HIDE DEF r
  <2>6. RequestPaid(r, a, m, f, rv)
    BY <2>3, <2>4, <2>5 DEF RequestPaid, Shaped, Verdicts
  <2> QED
    BY <2>1, <2>6
<1> QED
  BY <1>3, <1>4, <1>5, <1>6, <1>7, <1>8 DEF None, EntryPaid, LockPaid

LEMMA NextPaid ==
  ASSUME PanelInv, PaidInv, [Next]_vars
  PROVE  PaidInv'
<1>1. CASE UNCHANGED vars
  <2>1. UNCHANGED <<size, reveals, late, given, payouts, pool, ledger, locks, requests>>
    BY <1>1 DEF vars, votes, history
  <2>2. Answer' = Answer /\ Correct' = Correct /\ CorrectFee' = CorrectFee /\ Seats' = Seats
    BY <2>1, VotesSame
  <2> QED
    BY <2>1, <2>2 DEF PaidInv, OneSetOfVotes
<1>2. CASE Next
  <2>1. ASSUME NEW w \in Workers, Plan(w) PROVE PaidInv'
    BY <2>1, PlanPaid
  <2>2. ASSUME NEW w \in Workers, Reserve(w) PROVE PaidInv'
    BY <2>2, ReservePaid
  <2>3. ASSUME NEW w \in Workers, InsertPanel(w) PROVE PaidInv'
    BY <2>3, InsertPanelPaid
  <2>4. ASSUME NEW w \in Workers, Assign(w) PROVE PaidInv'
    BY <2>4, AssignPaid
  <2>5. ASSUME NEW w \in Workers, ReadProfile(w) PROVE PaidInv'
    BY <2>5, ReadProfilePaid
  <2>6. ASSUME NEW w \in Workers, ApplyEntry(w) PROVE PaidInv'
    BY <2>6, ApplyEntryPaid
  <2>7. ASSUME NEW w \in Workers, NEW settlesPool \in BOOLEAN, Settle(w, settlesPool) PROVE PaidInv'
    BY <2>7, SettlePaid
  <2>8. ASSUME NEW w \in Workers, NEW phase \in {"commit", "reveal"}, Timeout(w, phase) PROVE PaidInv'
    BY <2>8, TimeoutStoredPaid
  <2>9. ASSUME NEW w \in Workers, CheckPayout(w) PROVE PaidInv'
    BY <2>9, CheckPayoutPaid
  <2>10. ASSUME NEW w \in Workers, InsertPayout(w) PROVE PaidInv'
    BY <2>10, InsertPayoutPaid
  <2>11. ASSUME NEW w \in Workers, SettleBond(w) PROVE PaidInv'
    BY <2>11, SettleBondPaid
  <2>12. ASSUME NEW w \in Workers, ResolvePool(w) PROVE PaidInv'
    BY <2>12, ResolvePoolPaid
  <2>13. ASSUME NEW w \in Workers, Die(w) PROVE PaidInv'
    BY <2>13, PaidEnds DEF Die, votes
  <2>14. ASSUME NEW w \in Workers, DieTorn(w) PROVE PaidInv'
    BY <2>14, PaidEnds DEF DieTorn, votes
  <2>15. ASSUME NEW s \in Seats, NEW v \in Votes[s], Commit(s, v) PROVE PaidInv'
    BY <2>15, CommitPaid
  <2>16. ASSUME NEW s \in Seats, NEW v \in Votes[s], Reveal(s, v) PROVE PaidInv'
    BY <2>16, RevealPaid
  <2>17. ASSUME NEW w \in Workers, NEW b \in Bodies, NEW settlesPool \in BOOLEAN,
                SettleGiven(w, b, settlesPool)
         PROVE  PaidInv'
    BY <2>17, PaidAfterGiven DEF SettleGiven
  <2>18. ASSUME NEW w \in Workers, NEW b \in Bodies, NEW phase \in {"commit", "reveal"},
                TimeoutGiven(w, b, phase)
         PROVE  PaidInv'
    BY <2>18, TimeoutGivenPaid
  <2>19. ASSUME NEW s \in Seats, NEW v \in Votes[s], CommitGiven(s, v) PROVE PaidInv'
    BY <2>19, PaidAfterGiven DEF CommitGiven
  <2>20. ASSUME NEW s \in Seats, NEW v \in Votes[s], RevealGiven(s, v) PROVE PaidInv'
    BY <2>20, PaidAfterGiven DEF RevealGiven
  <2> QED
    BY <1>2, <2>1, <2>2, <2>3, <2>4, <2>5, <2>6, <2>7, <2>8, <2>9, <2>10, <2>11, <2>12, <2>13,
       <2>14, <2>15, <2>16, <2>17, <2>18, <2>19, <2>20 DEF Next
<1> QED
  BY <1>1, <1>2

\* The correct resolvers' shares of the fee do not exceed it.
LEMMA FeesBounded ==
  ASSUME PanelInv, PaidInv, OneSetOfVotes
  PROVE  SumOver([s \in Seats |-> Total({e \in ledger[s] : e.kind = "fee"})], Seats) <= FeePool
<1> DEFINE fees(s) == {e \in ledger[s] : e.kind = "fee"}
           f == [s \in Seats |-> Total(fees(s))]
<1>1. IsFiniteSet(Seats) /\ IsFiniteSet(Correct) /\ Correct \subseteq Seats
  BY PanelFinite, AnswerType
<1>2. Cardinality(Correct) \in Nat
  BY <1>1, FS_CardinalityType
<1>3. ASSUME NEW s \in Seats
      PROVE  Total(fees(s)) = 0 \/ (s \in Correct /\ Total(fees(s)) = CorrectFee)
  <2>1. LedgerTyped(ledger[s])
    BY InvParts DEF RowsOK
  <2>2. Total({}) = 0
    BY SumOverEmpty DEF Total
  <2>3. CASE fees(s) = {}
    BY <2>2, <2>3
  <2>4. ASSUME NEW e \in fees(s) PROVE s \in Correct /\ Total(fees(s)) = CorrectFee
    <3>1. e \in ledger[s] /\ e.kind = "fee"
      OBVIOUS
    <3>2. s \in Correct /\ e.amount = CorrectFee
      BY <3>1 DEF PaidInv, EntryPaid, Verdicts
    <3>3. e.amount \in Int
      BY <2>1, <3>1 DEF LedgerTyped, EntryType
    <3>4. fees(s) = {} \cup {e}
      BY <2>1, <3>1 DEF LedgerTyped
    <3>5. Total({} \cup {e}) = Total({}) + e.amount
      BY <3>3, TotalAdds, FS_EmptySet
    <3>6. Total(fees(s)) = Total({} \cup {e})
      BY <3>4
    <3> HIDE DEF fees
    <3>7. Total(fees(s)) = e.amount
      BY <2>2, <3>3, <3>5, <3>6
    <3> QED
      BY <3>2, <3>7
  <2> QED
    BY <2>3, <2>4
<1>4. \A s \in Seats : f[s] = Total(fees(s))
  OBVIOUS
<1> HIDE DEF f, fees
<1>5. CASE Correct = {}
  <2>1. \A s \in Seats : f[s] = 0
    BY <1>3, <1>4, <1>5
  <2>2. SumOver(f, Seats) = 0
    BY <1>1, <2>1, SumOverZero
  <2> QED
    BY <2>2, PanelAssumption DEF f, fees
<1>6. CASE Correct # {}
  <2> DEFINE k == Cardinality(Correct)
  <2>1. k \in Nat \ {0}
    BY <1>1, <1>2, <1>6, FS_EmptySet
  <2>2. CorrectFee = FeePool \div k
    BY DEF CorrectFee, FeePerCorrect, Correct
  <2> HIDE DEF k
  <2>3. CorrectFee \in Nat /\ CorrectFee * k <= FeePool
    <3>1. FeePool \in Nat
      BY PanelAssumption
    <3>2. FeePool \div k \in Nat /\ FeePool % k \in Nat
      BY <2>1, <3>1
    <3>3. FeePool = k * (FeePool \div k) + (FeePool % k)
      BY <2>1, <3>1
    <3> QED
      BY <2>1, <2>2, <3>1, <3>2, <3>3
  <2>4. \A s \in Seats : f[s] \in Int /\ f[s] <= CorrectFee
    BY <1>3, <1>4, <2>3
  <2>5. \A s \in Seats : s \notin Correct => f[s] = 0
    BY <1>3, <1>4
  <2>6. SumOver(f, Seats) <= CorrectFee * Cardinality(Seats \cap Correct)
    BY <1>1, <2>3, <2>4, <2>5, SumOverBounded
  <2>7. Seats \cap Correct = Correct
    BY <1>1
  <2>8. SumOver(f, Seats) \in Int
    BY <1>1, <2>4, SumOverInt
  <2>9. SumOver(f, Seats) <= CorrectFee * k
    BY <2>6, <2>7 DEF k
  <2>10. CorrectFee * k \in Int /\ FeePool \in Int
    BY <2>1, <2>3, PanelAssumption
  <2>11. SumOver(f, Seats) <= FeePool
    BY <2>3, <2>8, <2>9, <2>10
  <2> QED
    BY <2>11 DEF f, fees
<1> QED
  BY <1>5, <1>6

LEMMA PaidInvHolds == Spec => []PaidInv
<1>1. Init => PaidInv
  <2> SUFFICES ASSUME Init PROVE PaidInv
    OBVIOUS
  <2>1. /\ \A w \in Workers : requests[w] = Idle
        /\ \A s \in Seats : payouts[s] = None /\ ledger[s] = {} /\ locks[s] = None
        /\ pool = None
    BY DEF Init
  <2> QED
    BY <2>1 DEF PaidInv, LockPaid, Final, None
<1>2. PanelInv /\ PaidInv /\ [Next]_vars => PaidInv'
  BY NextPaid
<1> QED
  BY <1>1, <1>2, PanelInvHolds, PTL DEF Spec

(***************************************************************************)
(* A resolver is judged once.  The ledger never releases or pays for the   *)
(* bond of a resolver whose payout row says missed, nor slashes one whose  *)
(* row says matched, unless two requests worked on the resolver at once    *)
(* with different votes before them (the payout check and INSERT OR IGNORE *)
(* of settleDotCastResolverPanelRoute).  The USDC bond lock agrees with    *)
(* the row too, however requests overlap, die and are repeated, as long as *)
(* no vote was revealed after a settlement or timeout had looked and none  *)
(* was brought in a body: settleResolverPayoutBonds settles it by the      *)
(* verdict computed last, not by the row.                                  *)
(***************************************************************************)
THEOREM ResolversAreJudgedOnce == Spec => []JudgedOnce
<1>1. PanelInv /\ PaidInv => JudgedOnce
  <2> SUFFICES ASSUME PanelInv, PaidInv, NEW s \in Seats
               PROVE  /\ s \notin raced => SeatJudged(ledger[s], payouts[s])
                      /\ OneSetOfVotes => /\ SeatJudged(ledger[s], payouts[s])
                                          /\ locks[s] = "released" => payouts[s] = "matched"
                                          /\ locks[s] = "slashed" => payouts[s] = "missed"
    BY DEF JudgedOnce, SeatJudged
  <2>1. s \notin raced => SeatJudged(ledger[s], payouts[s])
    BY DEF PanelInv
  <2>2. payouts[s] \in {None, "matched", "missed"}
    BY InvParts DEF RowTypes
  <2>3. ASSUME OneSetOfVotes
        PROVE  /\ payouts[s] # None => payouts[s] = IF s \in Correct THEN "matched" ELSE "missed"
               /\ \A e \in ledger[s] : EntryPaid(e, s, Correct, CorrectFee, payouts[s])
               /\ LockPaid(locks[s], s, Correct, payouts[s])
    BY <2>2, <2>3 DEF PaidInv
  <2>4. OneSetOfVotes => SeatJudged(ledger[s], payouts[s])
    BY <2>3 DEF SeatJudged, EntryPaid, Verdicts
  <2>5. OneSetOfVotes => /\ locks[s] = "released" => payouts[s] = "matched"
                         /\ locks[s] = "slashed" => payouts[s] = "missed"
    BY <2>3 DEF LockPaid, Final
  <2> QED
    BY <2>1, <2>4, <2>5
<1> QED
  BY <1>1, PanelInvHolds, PaidInvHolds, PTL

(***************************************************************************)
(* Pay for correctness: once a panel has resolved the pool, exactly the    *)
(* judged resolvers who revealed that outcome are paid, and all of them    *)
(* together are credited no more than the fee, provided no vote was        *)
(* revealed after a settlement or timeout had read the votes, and none was *)
(* brought in a body by a settlement, a reveal or a commit                 *)
(* (settleDotCastResolverPanel and the routes that apply it).              *)
(***************************************************************************)
THEOREM CorrectVotesArePaid == Spec => []PaidForCorrectnessInTime
<1>1. PanelInv /\ PaidInv => PaidForCorrectnessInTime
  <2> SUFFICES ASSUME PanelInv, PaidInv, OneSetOfVotes
               PROVE  /\ pool # None => \A s \in Seats : payouts[s] # None =>
                           (payouts[s] = "matched" <=> reveals[s] = pool)
                      /\ SumOver([s \in Seats |-> Total({e \in ledger[s] : e.kind = "fee"})], Seats)
                           <= FeePool
    BY DEF PaidForCorrectnessInTime
  <2>1. SumOver([s \in Seats |-> Total({e \in ledger[s] : e.kind = "fee"})], Seats) <= FeePool
    BY FeesBounded
  <2>2. payouts \in [Seats -> {None, "matched", "missed"}]
    BY InvParts DEF RowTypes
  <2>3. \A s \in Seats : s \in Correct <=> reveals[s] = Answer
    BY AnswerType
  <2>4. pool # None => \A s \in Seats : payouts[s] # None =>
          (payouts[s] = "matched" <=> reveals[s] = pool)
    BY <2>2, <2>3 DEF PaidInv
  <2> QED
    BY <2>1, <2>4
<1> QED
  BY <1>1, PanelInvHolds, PaidInvHolds, PTL

=============================================================================

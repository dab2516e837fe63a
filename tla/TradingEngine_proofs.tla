------------------------ MODULE TradingEngine_proofs ------------------------
(***************************************************************************)
(* Proofs about the trading engine's two ends of an order, for any         *)
(* intents, isolates, orders and bounds: the dispatch of intents           *)
(* (ExecutionDispatch) and the accounting of execution reports             *)
(* (OrderReconciliation).  The two specifications share nothing but this   *)
(* module.                                                                 *)
(***************************************************************************)
EXTENDS ExecutionDispatch, OrderReconciliation, Sums_proofs, SequenceTheorems

USE DispatchAssumption

(***************************************************************************)
(* Part 1: ExecutionDispatch.  The inductive invariant.                    *)
(***************************************************************************)
JobType == [intent : Intents, n : Nat \ {0}, iso : Isolates, pc : {"arrived", "working", "placed"}]
HandlerType == [pc : {"idle", "drain", "dispatch", "finish"}, due : Seq(Item), wake : None..Cap,
                job : {<<>>} \cup (Intents \X Nat)]

\* Outside of a drain nothing is due.
NothingDueOutsideDrain == handler.pc # "dispatch" => handler.due = <<>>

\* What an isolate remembers has been answered.
RememberedIsDone == \A s \in Isolates : \A i \in Intents : ledger[s][i] > 0 => fate[i] = "done"

\* Intent i is at one place of q at most.
OnceIn(q, i) == \A k, l \in 1..Len(q) : q[k].intent = i /\ q[l].intent = i => k = l

\* An intent is queued once, or due once, or was delivered once.
QueuedOnce(q, d, sd, i) ==
  /\ OnceIn(q, i) /\ OnceIn(d, i) /\ ~ (i \in Items(q) /\ i \in Items(d))
  /\ sd[i] <= 1 /\ (sd[i] = 1 => i \notin Items(q) \cup Items(d))

NewIsNowhere ==
  \A i \in Intents : fate[i] = "new" =>
    sends[i] = 0 /\ i \notin Items(queue) \cup Items(handler.due)

\* Deliveries are numbered.
JobsDistinct == \A j, k \in jobs : j.intent = k.intent /\ j.n = k.n => j = k

\* An order belongs to a delivery that has been placed.
OrdersBacked(i) ==
  /\ orders[i] <= sends[i]
  /\ \A j \in jobs : j.intent = i /\ j.pc # "placed" => orders[i] = 0

DispatchInv ==
  /\ TypeOK /\ jobs \subseteq JobType /\ handler \in HandlerType
  /\ NothingDueOutsideDrain /\ RememberedIsDone /\ NewIsNowhere /\ JobsDistinct
  /\ \A i \in Intents \ unsaved : QueuedOnce(queue, handler.due, sends, i) /\ OrdersBacked(i)
  /\ LiveIntentHasAPlace /\ WakeIsScheduled

-----------------------------------------------------------------------------
(***************************************************************************)
(* WithWait.                                                               *)
(***************************************************************************)
\* g tabulates WithWait for the first n items.
Filters(g, q, W, n) ==
  g = [k \in 0..n |-> IF k = 0 THEN <<>>
                      ELSE IF q[k].wait \in W THEN Append(g[k - 1], q[k]) ELSE g[k - 1]]

LEMMA FilterExists ==
  ASSUME NEW q, NEW W, NEW n \in Nat
  PROVE  \E g : Filters(g, q, W, n)
<1> DEFINE S == {m \in Nat : \E g : Filters(g, q, W, m)}
<1>1. 0 \in S
  <2> DEFINE g == [k \in 0..0 |-> <<>>]
  <2>1. Filters(g, q, W, 0)
    BY DEF Filters
  <2> QED
    BY <2>1
<1>2. ASSUME NEW m \in S PROVE m + 1 \in S
  <2>1. PICK g : Filters(g, q, W, m)
    OBVIOUS
  <2> DEFINE last == IF q[m + 1].wait \in W THEN Append(g[m], q[m + 1]) ELSE g[m]
             h == [k \in 0..(m + 1) |-> IF k = m + 1 THEN last ELSE g[k]]
  <2>2. ASSUME NEW k \in 0..(m + 1)
        PROVE  h[k] = IF k = 0 THEN <<>>
                      ELSE IF q[k].wait \in W THEN Append(h[k - 1], q[k]) ELSE h[k - 1]
    <3>1. CASE k = m + 1
      <4>1. h[k] = last /\ h[k - 1] = g[m] /\ k # 0
        BY <3>1
      <4> QED
        BY <3>1, <4>1
    <3>2. CASE k # m + 1
      <4>1. h[k] = g[k] /\ (k # 0 => h[k - 1] = g[k - 1]) /\ k \in 0..m
        BY <3>2
      <4>2. g[k] = IF k = 0 THEN <<>>
                   ELSE IF q[k].wait \in W THEN Append(g[k - 1], q[k]) ELSE g[k - 1]
        BY <2>1, <4>1 DEF Filters
      <4> QED
        BY <4>1, <4>2
    <3> QED
      BY <3>1, <3>2
  <2>3. Filters(h, q, W, m + 1)
    BY <2>2 DEF Filters
  <2> QED
    BY <2>3
<1>3. S \in SUBSET Nat
  OBVIOUS
<1>4. n \in S
  <2> HIDE DEF S
  <2> QED
    BY <1>1, <1>2, <1>3, SetInduction
<1> QED
  BY <1>4

\* WithWait reads its result off such a table.
LEMMA WithWaitTable ==
  ASSUME NEW q, NEW W, Len(q) \in Nat
  PROVE  \E g : Filters(g, q, W, Len(q)) /\ WithWait(q, W) = g[Len(q)]
<1> DEFINE g == CHOOSE h : Filters(h, q, W, Len(q))
<1>1. Filters(g, q, W, Len(q))
  BY FilterExists, Zenon
<1>2. WithWait(q, W) = g[Len(q)]
  BY Zenon DEF WithWait, Filters
<1> QED
  BY <1>1, <1>2

\* r is what is left of the first n items of q, in the order of the places in idx.
Picks(r, q, W, n, idx) ==
  /\ idx \in [1..Len(r) -> 1..n]
  /\ \A k \in 1..Len(r) : r[k] = q[idx[k]] /\ q[idx[k]].wait \in W
  /\ \A k, l \in 1..Len(r) : idx[k] = idx[l] => k = l
  /\ \A m \in 1..n : q[m].wait \in W => \E k \in 1..Len(r) : idx[k] = m

\* WithWait keeps the items it is asked for, each once.
LEMMA WithWaitPicks ==
  ASSUME NEW S, NEW q \in Seq(S), NEW W
  PROVE  LET r == WithWait(q, W) IN
         r \in Seq(S) /\ Len(r) <= Len(q) /\ \E idx : Picks(r, q, W, Len(q), idx)
<1>1. Len(q) \in Nat /\ \A k \in 1..Len(q) : q[k] \in S
  OBVIOUS
<1>2. PICK g : Filters(g, q, W, Len(q)) /\ WithWait(q, W) = g[Len(q)]
  BY <1>1, WithWaitTable
<1> DEFINE N == {m \in Nat : m <= Len(q) =>
                   /\ g[m] \in Seq(S) /\ Len(g[m]) <= m
                   /\ \E idx : Picks(g[m], q, W, m, idx)}
<1>3. 0 \in N
  <2>1. g[0] = <<>>
    BY <1>1, <1>2 DEF Filters
  <2>2. g[0] \in Seq(S) /\ Len(g[0]) = 0
    BY <2>1
  <2>3. Picks(g[0], q, W, 0, [k \in 1..0 |-> 0])
    <3>1. 1..0 = {}
      OBVIOUS
    <3> QED
      BY <2>2, <3>1 DEF Picks
  <2> QED
    BY <2>2, <2>3
<1>4. ASSUME NEW m \in N, m + 1 <= Len(q)
      PROVE  /\ g[m + 1] \in Seq(S) /\ Len(g[m + 1]) <= m + 1
             /\ \E idx : Picks(g[m + 1], q, W, m + 1, idx)
  <2> DEFINE r == g[m]
             x == q[m + 1]
  <2>1. m \in Nat /\ r \in Seq(S) /\ Len(r) <= m /\ Len(r) \in Nat
    BY <1>1, <1>4
  <2>2. PICK idx : Picks(r, q, W, m, idx)
    BY <1>1, <1>4
  <2>3. g[m + 1] = IF x.wait \in W THEN Append(r, x) ELSE r
    <3>1. m + 1 \in 0..Len(q) /\ m + 1 # 0 /\ (m + 1) - 1 = m
      BY <1>1, <1>4, <2>1
    <3> QED
      BY <1>2, <3>1 DEF Filters
  <2>4. x \in S
    BY <1>1, <1>4, <2>1
  <2> HIDE DEF r, x
  <2>5. CASE x.wait \in W
    <3> DEFINE a == Append(r, x)
               n == Len(r) + 1
               jdx == [k \in 1..n |-> IF k = n THEN m + 1 ELSE idx[k]]
    <3>1. /\ a \in Seq(S) /\ Len(a) = n /\ a[n] = x
          /\ \A k \in 1..Len(r) : a[k] = r[k]
      BY <2>1, <2>4
    <3>2. jdx \in [1..n -> 1..(m + 1)] /\ jdx[n] = m + 1 /\ \A k \in 1..Len(r) : jdx[k] = idx[k]
      BY <2>1, <2>2 DEF Picks
    <3> HIDE DEF jdx, a
    <3>3. \A k \in 1..n : k = n \/ k \in 1..Len(r)
      BY <2>1
    <3>4. \A k \in 1..n : a[k] = q[jdx[k]] /\ q[jdx[k]].wait \in W
      BY <2>2, <2>5, <3>1, <3>2, <3>3 DEF Picks, x
    <3>5. \A k, l \in 1..n : jdx[k] = jdx[l] => k = l
      <4>1. \A k \in 1..Len(r) : idx[k] \in 1..m
        BY <2>2 DEF Picks
      <4>2. \A k \in 1..Len(r) : jdx[k] # m + 1
        BY <2>1, <3>2, <4>1
      <4> QED
        BY <2>2, <3>2, <3>3, <4>2 DEF Picks
    <3>6. ASSUME NEW l \in 1..(m + 1), q[l].wait \in W PROVE \E k \in 1..n : jdx[k] = l
      <4>1. CASE l = m + 1
        BY <2>1, <3>2, <4>1
      <4>2. CASE l # m + 1
        <5>1. l \in 1..m
          BY <2>1, <4>2
        <5>2. PICK k \in 1..Len(r) : idx[k] = l
          BY <2>2, <3>6, <5>1 DEF Picks
        <5> QED
          BY <2>1, <3>2, <5>2
      <4> QED
        BY <4>1, <4>2
    <3>7. Picks(a, q, W, m + 1, jdx)
      BY <3>1, <3>2, <3>4, <3>5, <3>6 DEF Picks
    <3>8. g[m + 1] = a /\ Len(a) <= m + 1
      BY <2>1, <2>3, <2>5, <3>1 DEF a
    <3> QED
      BY <3>1, <3>7, <3>8
  <2>6. CASE x.wait \notin W
    <3>1. idx \in [1..Len(r) -> 1..(m + 1)]
      BY <2>1, <2>2 DEF Picks
    <3>2. \A l \in 1..(m + 1) : q[l].wait \in W => \E k \in 1..Len(r) : idx[k] = l
      <4>1. \A l \in 1..(m + 1) : l = m + 1 \/ l \in 1..m
        BY <2>1
      <4>2. ASSUME NEW l \in 1..(m + 1), q[l].wait \in W PROVE \E k \in 1..Len(r) : idx[k] = l
        <5>1. l # m + 1
          BY <2>6, <4>2 DEF x
        <5> QED
          BY <2>2, <4>1, <4>2, <5>1 DEF Picks
      <4> QED
        BY <4>2
    <3>3. Picks(r, q, W, m + 1, idx)
      BY <2>2, <3>1, <3>2 DEF Picks
    <3> QED
      BY <2>1, <2>3, <2>6, <3>3
  <2> QED
    BY <2>5, <2>6
<1>5. N \in SUBSET Nat /\ \A m \in N : m + 1 \in N
  <2>1. N \in SUBSET Nat
    OBVIOUS
  <2>2. ASSUME NEW m \in N PROVE m + 1 \in N
    <3>1. m + 1 \in Nat
      BY <2>1
    <3> QED
      BY <1>4, <3>1
  <2> QED
    BY <2>1, <2>2
<1>6. Len(q) \in N
  <2> HIDE DEF N
  <2> QED
    BY <1>1, <1>3, <1>5, SetInduction
<1> QED
  BY <1>1, <1>2, <1>6

\* All of q, or nothing.
LEMMA WithWaitAll ==
  ASSUME NEW S, NEW q \in Seq(S), NEW W, \A k \in 1..Len(q) : q[k].wait \in W
  PROVE  WithWait(q, W) = q
<1>1. Len(q) \in Nat
  OBVIOUS
<1>2. PICK g : Filters(g, q, W, Len(q)) /\ WithWait(q, W) = g[Len(q)]
  BY <1>1, WithWaitTable
<1> DEFINE N == {m \in Nat : m <= Len(q) =>
                   g[m] \in Seq(S) /\ Len(g[m]) = m /\ \A k \in 1..m : g[m][k] = q[k]}
<1>3. 0 \in N
  <2>1. g[0] = <<>>
    BY <1>1, <1>2 DEF Filters
  <2>2. g[0] \in Seq(S) /\ Len(g[0]) = 0 /\ 1..0 = {}
    BY <2>1
  <2> QED
    BY <2>2
<1>4. ASSUME NEW m \in N, m + 1 <= Len(q)
      PROVE  g[m + 1] \in Seq(S) /\ Len(g[m + 1]) = m + 1 /\ \A k \in 1..(m + 1) : g[m + 1][k] = q[k]
  <2>1. m \in Nat /\ g[m] \in Seq(S) /\ Len(g[m]) = m /\ \A k \in 1..m : g[m][k] = q[k]
    BY <1>1, <1>4
  <2>2. m + 1 \in 0..Len(q) /\ m + 1 # 0 /\ (m + 1) - 1 = m /\ m + 1 \in 1..Len(q)
    BY <1>1, <1>4, <2>1
  <2>3. q[m + 1] \in S /\ q[m + 1].wait \in W
    BY <2>2
  <2>4. g[m + 1] = Append(g[m], q[m + 1])
    <3>1. g[m + 1] = IF m + 1 = 0 THEN <<>>
                     ELSE IF q[m + 1].wait \in W THEN Append(g[(m + 1) - 1], q[m + 1])
                     ELSE g[(m + 1) - 1]
      BY <1>2, <2>2 DEF Filters
    <3> QED
      BY <2>2, <2>3, <3>1
  <2>5. \A k \in 1..(m + 1) : k = m + 1 \/ k \in 1..m
    BY <2>1
  <2> QED
    BY <2>1, <2>3, <2>4, <2>5
<1>5. N \in SUBSET Nat /\ \A m \in N : m + 1 \in N
  <2>1. N \in SUBSET Nat
    OBVIOUS
  <2>2. ASSUME NEW m \in N PROVE m + 1 \in N
    <3>1. m + 1 \in Nat
      BY <2>1
    <3> QED
      BY <1>4, <3>1
  <2> QED
    BY <2>1, <2>2
<1>6. Len(q) \in N
  <2> HIDE DEF N
  <2> QED
    BY <1>1, <1>3, <1>5, SetInduction
<1>7. g[Len(q)] \in Seq(S) /\ Len(g[Len(q)]) = Len(q) /\ \A k \in 1..Len(q) : g[Len(q)][k] = q[k]
  BY <1>1, <1>6
<1> QED
  BY <1>2, <1>7, SeqEqual

LEMMA WithWaitNone ==
  ASSUME NEW S, NEW q \in Seq(S), NEW W, \A k \in 1..Len(q) : q[k].wait \notin W
  PROVE  WithWait(q, W) = <<>>
<1> DEFINE r == WithWait(q, W)
<1>1. r \in Seq(S) /\ \E idx : Picks(r, q, W, Len(q), idx)
  BY WithWaitPicks
<1> HIDE DEF r
<1>2. Len(r) \in Nat
  BY <1>1
<1>3. Len(r) = 0
  <2>1. SUFFICES ASSUME 1 \in 1..Len(r) PROVE FALSE
    BY <1>2
  <2> QED
    BY <1>1, <2>1 DEF Picks
<1>4. r = <<>>
  BY <1>1, <1>3
<1> QED
  BY <1>4 DEF r

\* Enqueueing appends the new intent, unless the queue is full.
LEMMA EnqueuePlanAppends ==
  ASSUME NEW q \in Seq(Item), NEW i \in Intents, Len(q) <= QueueLimit
  PROVE  EnqueuePlan(q, i, 1) = IF Len(q) < QueueLimit THEN Append(q, [intent |-> i, wait |-> 1])
                                ELSE q
<1> DEFINE item == [intent |-> i, wait |-> 1]
<1>1. \A k \in 1..Len(q) : q[k].wait \in {0, 1}
  <2>1. \A k \in 1..Len(q) : q[k] \in Item
    OBVIOUS
  <2> QED
    BY <2>1 DEF Item
<1>2. WithWait(q, NotAfter(1)) = q
  <2>1. \A k \in 1..Len(q) : q[k].wait \in NotAfter(1)
    BY <1>1 DEF NotAfter
  <2> QED
    BY <2>1, WithWaitAll
<1>3. WithWait(q, Nat \ NotAfter(1)) = <<>>
  <2>1. \A k \in 1..Len(q) : q[k].wait \notin Nat \ NotAfter(1)
    BY <1>1 DEF NotAfter
  <2> QED
    BY <2>1, WithWaitNone
<1>4. item \in Item
  BY DEF Item
<1> DEFINE a == Append(q, item)
<1>5. a \in Seq(Item) /\ Len(a) = Len(q) + 1 /\ Len(q) \in Nat /\ a[Len(q) + 1] = item
      /\ \A k \in 1..Len(q) : a[k] = q[k]
  BY <1>4
<1>6. EnqueuePlan(q, i, 1) = SubSeq(a, 1, Lower(QueueLimit, Len(a)))
  <2>1. a \o <<>> = a
    BY <1>5, ConcatEmptySeq
  <2> QED
    BY <1>2, <1>3, <2>1 DEF EnqueuePlan
<1> HIDE DEF a
<1>7. CASE Len(q) < QueueLimit
  <2>1. Lower(QueueLimit, Len(a)) = Len(a)
    BY <1>5, <1>7 DEF Lower
  <2>2. SubSeq(a, 1, Len(a)) = a
    BY <1>5, SubSeqFull
  <2> QED
    BY <1>6, <1>7, <2>1, <2>2 DEF a
<1>8. CASE Len(q) = QueueLimit
  <2>1. Lower(QueueLimit, Len(a)) = Len(q)
    BY <1>5, <1>8 DEF Lower
  <2>2. SubSeq(a, 1, Len(q)) = q
    <3>1. /\ SubSeq(a, 1, Len(q)) \in Seq(Item) /\ Len(SubSeq(a, 1, Len(q))) = Len(q)
          /\ \A k \in 1..Len(q) : SubSeq(a, 1, Len(q))[k] = a[k]
      BY <1>5
    <3> QED
      BY <1>5, <3>1, SeqEqual
  <2> QED
    BY <1>6, <1>8, <2>1, <2>2
<1> QED
  BY <1>7, <1>8

-----------------------------------------------------------------------------
(***************************************************************************)
(* What the operations on the queue do to the intents in it.               *)
(***************************************************************************)
LEMMA ItemsOfEmpty ==
  Items(<<>>) = {} /\ \A i : OnceIn(<<>>, i)
<1>1. Len(<<>>) = 0 /\ 1..0 = {}
  OBVIOUS
<1> QED
  BY <1>1 DEF Items, OnceIn

LEMMA ItemsAreIntents ==
  ASSUME NEW q \in Seq(Item)
  PROVE  Items(q) \subseteq Intents
<1>1. \A k \in 1..Len(q) : q[k] \in Item
  OBVIOUS
<1> QED
  BY <1>1 DEF Items, Item

LEMMA ItemsOfAppend ==
  ASSUME NEW q \in Seq(Item), NEW i \in Intents
  PROVE  LET a == Append(q, [intent |-> i, wait |-> 1]) IN
         /\ a \in Seq(Item) /\ Len(a) = Len(q) + 1
         /\ Items(a) = Items(q) \cup {i}
         /\ \A x : OnceIn(q, x) /\ (x = i => x \notin Items(q)) => OnceIn(a, x)
<1> DEFINE item == [intent |-> i, wait |-> 1]
           a == Append(q, item)
           n == Len(q) + 1
<1>1. item \in Item /\ item.intent = i
  BY DEF Item
<1>2. /\ a \in Seq(Item) /\ Len(a) = n /\ Len(q) \in Nat /\ a[n].intent = i
      /\ \A k \in 1..Len(q) : a[k] = q[k]
  BY <1>1
<1> HIDE DEF a, item
<1>3. \A k : k \in 1..n <=> (k = n \/ k \in 1..Len(q))
  BY <1>2
<1>4. Items(a) = Items(q) \cup {i}
  <2>1. \A k \in 1..n : a[k].intent \in Items(q) \cup {i}
    BY <1>2, <1>3 DEF Items
  <2>2. \A k \in 1..Len(q) : q[k].intent \in Items(a)
    BY <1>2, <1>3 DEF Items
  <2>3. i \in Items(a)
    BY <1>2, <1>3 DEF Items
  <2> QED
    BY <1>2, <2>1, <2>2, <2>3 DEF Items
<1>5. ASSUME NEW x, OnceIn(q, x), x = i => x \notin Items(q) PROVE OnceIn(a, x)
  <2>1. \A k \in 1..Len(q) : a[k].intent = x => x # i
    BY <1>2, <1>5 DEF Items
  <2> QED
    BY <1>2, <1>3, <1>5, <2>1 DEF OnceIn
<1> QED
  BY <1>2, <1>4, <1>5 DEF a, item

LEMMA ItemsOfEnqueue ==
  ASSUME NEW q \in Seq(Item), NEW i \in Intents, Len(q) <= QueueLimit
  PROVE  LET a == EnqueuePlan(q, i, 1) IN
         /\ a \in Seq(Item) /\ Len(a) <= QueueLimit
         /\ Items(q) \subseteq Items(a) /\ Items(a) \subseteq Items(q) \cup {i}
         /\ \A x : OnceIn(q, x) /\ (x = i => x \notin Items(q)) => OnceIn(a, x)
<1>1. Len(q) \in Nat /\ QueueLimit \in Nat
  OBVIOUS
<1>2. CASE Len(q) < QueueLimit
  <2> DEFINE a == Append(q, [intent |-> i, wait |-> 1])
  <2>1. EnqueuePlan(q, i, 1) = a
    BY <1>2, EnqueuePlanAppends
  <2>2. /\ a \in Seq(Item) /\ Len(a) = Len(q) + 1 /\ Items(a) = Items(q) \cup {i}
        /\ \A x : OnceIn(q, x) /\ (x = i => x \notin Items(q)) => OnceIn(a, x)
    BY ItemsOfAppend
  <2> HIDE DEF a
  <2> QED
    BY <1>1, <1>2, <2>1, <2>2
<1>3. CASE Len(q) = QueueLimit
  <2>1. EnqueuePlan(q, i, 1) = q
    <3>1. ~ (Len(q) < QueueLimit)
      BY <1>1, <1>3
    <3> QED
      BY <3>1, EnqueuePlanAppends
  <2> QED
    BY <1>3, <2>1
<1> QED
  BY <1>1, <1>2, <1>3

LEMMA ItemsWithWait ==
  ASSUME NEW q \in Seq(Item), NEW W
  PROVE  LET r == WithWait(q, W) IN
         /\ r \in Seq(Item) /\ Len(r) <= Len(q)
         /\ Items(r) = {q[k].intent : k \in {l \in 1..Len(q) : q[l].wait \in W}}
         /\ \A x : OnceIn(q, x) => OnceIn(r, x)
<1> DEFINE r == WithWait(q, W)
<1>1. r \in Seq(Item) /\ Len(r) <= Len(q) /\ \E idx : Picks(r, q, W, Len(q), idx)
  BY WithWaitPicks
<1> HIDE DEF r
<1>2. PICK idx : Picks(r, q, W, Len(q), idx)
  BY <1>1
<1>3. \A k \in 1..Len(r) : idx[k] \in 1..Len(q) /\ r[k] = q[idx[k]] /\ q[idx[k]].wait \in W
  BY <1>2 DEF Picks
<1>4. \A k, l \in 1..Len(r) : idx[k] = idx[l] => k = l
  BY <1>2 DEF Picks
<1>5. \A m \in 1..Len(q) : q[m].wait \in W => \E k \in 1..Len(r) : idx[k] = m
  BY <1>2 DEF Picks
<1>6. Items(r) = {q[k].intent : k \in {l \in 1..Len(q) : q[l].wait \in W}}
  BY <1>3, <1>5 DEF Items
<1>7. \A x : OnceIn(q, x) => OnceIn(r, x)
  BY <1>3, <1>4 DEF OnceIn
<1> QED
  BY <1>1, <1>6, <1>7 DEF r

\* A drain divides the queue.
LEMMA DrainDivides ==
  ASSUME NEW q \in Seq(Item)
  PROVE  /\ DueItems(q) \in Seq(Item)
         /\ PendingItems(q) \in Seq(Item) /\ Len(PendingItems(q)) <= Len(q)
         /\ Items(q) = Items(DueItems(q)) \cup Items(PendingItems(q))
         /\ \A x : OnceIn(q, x) => /\ OnceIn(DueItems(q), x) /\ OnceIn(PendingItems(q), x)
                                   /\ x \notin Items(DueItems(q)) \cap Items(PendingItems(q))
<1>1. \A k \in 1..Len(q) : q[k].wait \in {0, 1}
  <2>1. \A k \in 1..Len(q) : q[k] \in Item
    OBVIOUS
  <2> QED
    BY <2>1 DEF Item
<1>2. /\ DueItems(q) \in Seq(Item)
      /\ Items(DueItems(q)) = {q[k].intent : k \in {l \in 1..Len(q) : q[l].wait \in {0}}}
      /\ \A x : OnceIn(q, x) => OnceIn(DueItems(q), x)
  BY ItemsWithWait DEF DueItems
<1>3. /\ PendingItems(q) \in Seq(Item) /\ Len(PendingItems(q)) <= Len(q)
      /\ Items(PendingItems(q)) = {q[k].intent : k \in {l \in 1..Len(q) : q[l].wait \in Nat \ {0}}}
      /\ \A x : OnceIn(q, x) => OnceIn(PendingItems(q), x)
  BY ItemsWithWait DEF PendingItems
<1>4. Items(q) = Items(DueItems(q)) \cup Items(PendingItems(q))
  <2>1. \A k \in 1..Len(q) : q[k].wait \in {0} \/ q[k].wait \in Nat \ {0}
    BY <1>1
  <2> QED
    BY <1>2, <1>3, <2>1 DEF Items
<1>5. ASSUME NEW x, OnceIn(q, x), x \in Items(DueItems(q)), x \in Items(PendingItems(q)) PROVE FALSE
  <2>1. PICK k \in 1..Len(q) : q[k].wait \in {0} /\ q[k].intent = x
    BY <1>2, <1>5
  <2>2. PICK l \in 1..Len(q) : q[l].wait \in Nat \ {0} /\ q[l].intent = x
    BY <1>3, <1>5
  <2>3. k = l
    BY <1>5, <2>1, <2>2 DEF OnceIn
  <2> QED
    BY <2>1, <2>2, <2>3
<1> QED
  BY <1>2, <1>3, <1>4, <1>5

LEMMA NextWakeType ==
  ASSUME NEW q \in Seq(Item)
  PROVE  NextWake(q) \in None..Cap
<1>1. CASE PendingItems(q) = <<>>
  BY <1>1 DEF NextWake, None
<1>2. CASE PendingItems(q) # <<>>
  <2>1. PendingItems(q) \in Seq(Item)
    BY DrainDivides
  <2>2. PendingItems(q)[1] \in Item
    BY <1>2, <2>1
  <2>3. PendingItems(q)[1].wait \in {0, 1}
    BY <2>2 DEF Item
  <2> QED
    BY <1>2, <2>3 DEF NextWake, None, Lower
<1> QED
  BY <1>1, <1>2

LEMMA ItemsOfTail ==
  ASSUME NEW d \in Seq(Item), d # <<>>
  PROVE  /\ d[1].intent \in Intents /\ Tail(d) \in Seq(Item)
         /\ Items(d) = Items(Tail(d)) \cup {d[1].intent}
         /\ \A x : OnceIn(d, x) => /\ OnceIn(Tail(d), x)
                                   /\ (x = d[1].intent => x \notin Items(Tail(d)))
<1> DEFINE u == Tail(d)
<1>1. /\ u \in Seq(Item) /\ Len(d) \in Nat /\ Len(d) >= 1 /\ Len(u) = Len(d) - 1
      /\ d[1] \in Item /\ \A k \in 1..Len(u) : u[k] = d[k + 1]
  OBVIOUS
<1> HIDE DEF u
<1>2. d[1].intent \in Intents
  BY <1>1 DEF Item
<1>3. \A k \in 1..Len(u) : k + 1 \in 1..Len(d) /\ k + 1 # 1
  BY <1>1
<1>4. \A k \in 1..Len(d) : k = 1 \/ (k - 1 \in 1..Len(u) /\ (k - 1) + 1 = k)
  BY <1>1
<1>5. 1 \in 1..Len(d)
  BY <1>1
<1>6. Items(d) = Items(u) \cup {d[1].intent}
  <2>1. \A k \in 1..Len(u) : u[k].intent \in Items(d)
    BY <1>1, <1>3 DEF Items
  <2>2. ASSUME NEW k \in 1..Len(d) PROVE d[k].intent \in Items(u) \cup {d[1].intent}
    <3>1. CASE k = 1
      BY <3>1
    <3>2. CASE k # 1
      <4>1. k - 1 \in 1..Len(u) /\ u[k - 1] = d[k]
        BY <1>1, <1>4, <3>2
      <4> QED
        BY <4>1 DEF Items
    <3> QED
      BY <3>1, <3>2
  <2>3. d[1].intent \in Items(d)
    BY <1>5 DEF Items
  <2> QED
    BY <2>1, <2>2, <2>3 DEF Items
<1>7. ASSUME NEW x, OnceIn(d, x) PROVE OnceIn(u, x) /\ (x = d[1].intent => x \notin Items(u))
  <2>1. \A k, l \in 1..Len(u) : k + 1 = l + 1 => k = l
    BY <1>1
  <2>2. OnceIn(u, x)
    BY <1>1, <1>3, <1>7, <2>1 DEF OnceIn
  <2>3. x = d[1].intent => x \notin Items(u)
    BY <1>1, <1>3, <1>5, <1>7 DEF OnceIn, Items
  <2> QED
    BY <2>2, <2>3
<1> QED
  BY <1>1, <1>2, <1>6, <1>7 DEF u

LEMMA ItemsAfterTick ==
  ASSUME NEW q \in Seq(Item)
  PROVE  LET a == [k \in 1..Len(q) |-> [q[k] EXCEPT !.wait = Down(@)]] IN
         /\ a \in Seq(Item) /\ Len(a) = Len(q) /\ Items(a) = Items(q)
         /\ \A x : OnceIn(q, x) => OnceIn(a, x)
<1> DEFINE a == [k \in 1..Len(q) |-> [q[k] EXCEPT !.wait = Down(@)]]
<1>1. \A k \in 1..Len(q) : q[k] \in Item
  OBVIOUS
<1>2. \A k \in 1..Len(q) : a[k] \in Item /\ a[k].intent = q[k].intent
  BY <1>1 DEF Item, Down
<1>3. a \in Seq(Item) /\ Len(a) = Len(q)
  BY <1>2
<1> HIDE DEF a
<1>4. Items(a) = Items(q)
  BY <1>2, <1>3 DEF Items
<1>5. \A x : OnceIn(q, x) => OnceIn(a, x)
  BY <1>2, <1>3 DEF OnceIn
<1> QED
  BY <1>3, <1>4, <1>5 DEF a

-----------------------------------------------------------------------------
(***************************************************************************)
(* The engine's actions.                                                   *)
(***************************************************************************)
LEMMA HeldParts ==
  ASSUME NEW q, NEW h, NEW js, NEW i
  PROVE  i \in Held(q, h, js) <=>
           (i \in Items(q) \/ i \in Items(h.due) \/ \E j \in js : j.intent = i)
BY DEF Held

LEMMA InitDispatchInv ==
  Init => DispatchInv
<1> SUFFICES ASSUME Init PROVE DispatchInv
  OBVIOUS
<1>1. handler = Idle /\ handler.pc = "idle" /\ handler.due = <<>> /\ handler.wake = None /\ handler.job = <<>>
  BY DEF Init, Idle
<1>2. handler \in HandlerType
  BY DEF Init, Idle, HandlerType, None
<1>3. Items(queue) = {} /\ Items(handler.due) = {} /\ queue = <<>>
  BY <1>1, ItemsOfEmpty DEF Init
<1>4. TypeOK
  <2>1. queue \in Seq(Item) /\ Len(queue) <= QueueLimit /\ handler.due \in Seq(Item)
    <3>1. <<>> \in Seq(Item) /\ Len(<<>>) = 0
      OBVIOUS
    <3> QED
      BY <1>1, <1>3, <3>1
  <2>2. alarm \in None..Cap /\ backoff \in 0..Backoff /\ handler.wake \in None..Cap
    BY <1>1 DEF Init, None
  <2>3. ledger \in [Isolates -> [Intents -> 0..Ttl]]
    BY DEF Init
  <2>4. sends \in [Intents -> Nat] /\ orders \in [Intents -> Nat]
    BY DEF Init
  <2>5. failures \in 0..MaxStorageFailures /\ crashes \in 0..MaxCrashes
    BY DEF Init
  <2> QED
    BY <1>1, <2>1, <2>2, <2>3, <2>4, <2>5 DEF Init, TypeOK, Fates
<1>5. \A i \in Intents : QueuedOnce(queue, handler.due, sends, i) /\ OrdersBacked(i)
  BY <1>1, <1>3, ItemsOfEmpty DEF Init, QueuedOnce, OrdersBacked
<1>6. NothingDueOutsideDrain /\ RememberedIsDone /\ NewIsNowhere /\ JobsDistinct
  BY <1>1, <1>3 DEF Init, NothingDueOutsideDrain, RememberedIsDone, NewIsNowhere, JobsDistinct
<1>7. LiveIntentHasAPlace /\ WakeIsScheduled
  BY <1>4 DEF Init, LiveIntentHasAPlace, WakeIsScheduled, None
<1>8. jobs = {}
  BY DEF Init
<1> QED
  BY <1>2, <1>4, <1>5, <1>6, <1>7, <1>8 DEF DispatchInv

\* The two writes of an enqueue.
LEMMA EnqueueStep ==
  ASSUME TypeOK, NEW STATE i, i \in Intents,
         Put(EnqueuePlan(queue, i, 1)), SetAlarm(Lower(1, Cap)) \/ SetAlarmFails
  PROVE  /\ queue' \in Seq(Item) /\ Len(queue') <= QueueLimit
         /\ Items(queue) \subseteq Items(queue') /\ Items(queue') \subseteq Items(queue) \cup {i}
         /\ \A x : OnceIn(queue, x) /\ (x = i => x \notin Items(queue)) => OnceIn(queue', x)
         /\ alarm' \in None..Cap /\ backoff' \in 0..Backoff
         /\ armLost' \in BOOLEAN /\ failures' \in 0..MaxStorageFailures
         /\ (alarm' = None => armLost')
<1>1. queue \in Seq(Item) /\ Len(queue) <= QueueLimit /\ backoff \in 0..Backoff
      /\ alarm \in None..Cap /\ failures \in 0..MaxStorageFailures
  BY DEF TypeOK
<1>2. queue' = queue \/ queue' = EnqueuePlan(queue, i, 1)
  BY DEF Put
<1>3. /\ queue' \in Seq(Item) /\ Len(queue') <= QueueLimit
      /\ Items(queue) \subseteq Items(queue') /\ Items(queue') \subseteq Items(queue) \cup {i}
      /\ \A x : OnceIn(queue, x) /\ (x = i => x \notin Items(queue)) => OnceIn(queue', x)
  <2>1. CASE queue' = queue
    BY <1>1, <2>1
  <2>2. CASE queue' = EnqueuePlan(queue, i, 1)
    BY <1>1, <2>2, ItemsOfEnqueue
  <2> QED
    BY <1>2, <2>1, <2>2
<1>4. Lower(1, Cap) = 1
  BY DEF Lower
<1>5. /\ alarm' \in None..Cap /\ backoff' \in 0..Backoff
      /\ armLost' \in BOOLEAN /\ failures' \in 0..MaxStorageFailures
      /\ (alarm' = None => armLost')
  <2>1. CASE SetAlarm(1)
    <3>1. alarm' = (IF backoff = 0 THEN 1 ELSE alarm) /\ armLost' = (backoff > 0)
          /\ backoff' = backoff /\ failures' = failures
      BY <2>1 DEF SetAlarm
    <3>2. armLost' \in BOOLEAN
      BY <3>1
    <3>3. backoff > 0 => armLost'
      BY <3>1, Zenon
    <3>4. backoff = 0 \/ backoff > 0
      BY <1>1
    <3>5. alarm' \in None..Cap /\ (alarm' = None => backoff # 0)
      BY <1>1, <3>1 DEF None
    <3> QED
      BY <1>1, <3>1, <3>2, <3>3, <3>4, <3>5
  <2>2. CASE SetAlarmFails
    <3>1. alarm' = alarm /\ armLost' = TRUE /\ backoff' = Backoff /\ failures' = failures + 1
          /\ failures < MaxStorageFailures
      BY <2>2 DEF SetAlarmFails
    <3> QED
      BY <1>1, <3>1 DEF None
  <2> QED
    BY <1>4, <2>1, <2>2
<1> QED
  BY <1>3, <1>5

\* An alarm write that does not fail.
LEMMA SetAlarmStep ==
  ASSUME TypeOK
  PROVE  \A t \in None..Cap :
           SetAlarm(t) => /\ alarm' \in None..Cap /\ backoff' \in 0..Backoff
                          /\ armLost' \in BOOLEAN /\ failures' \in 0..MaxStorageFailures
                          /\ (alarm' = None => armLost' \/ t = None)
<1> SUFFICES ASSUME NEW t \in None..Cap, SetAlarm(t)
             PROVE  /\ alarm' \in None..Cap /\ backoff' \in 0..Backoff
                    /\ armLost' \in BOOLEAN /\ failures' \in 0..MaxStorageFailures
                    /\ (alarm' = None => armLost' \/ t = None)
  OBVIOUS
<1>1. alarm' = (IF backoff = 0 THEN t ELSE alarm) /\ armLost' = (backoff > 0)
      /\ backoff' = backoff /\ failures' = failures
  BY DEF SetAlarm
<1>2. alarm \in None..Cap /\ backoff \in 0..Backoff /\ failures \in 0..MaxStorageFailures
  BY DEF TypeOK
<1>3. armLost' \in BOOLEAN
  BY <1>1
<1>4. backoff > 0 => armLost'
  BY <1>1, Zenon
<1>5. backoff = 0 \/ backoff > 0
  BY <1>2
<1> QED
  BY <1>1, <1>2, <1>3, <1>4, <1>5

LEMMA EmitBlockedKeeps ==
  ASSUME DispatchInv, NEW i \in Intents, EmitBlocked(i)
  PROVE  DispatchInv'
<1>1. fate' = [fate EXCEPT ![i] = "blocked"] /\ DOMAIN fate = Intents
  BY DEF EmitBlocked, DispatchInv, TypeOK
<1>2. UNCHANGED <<engineVars, workerVars, unsaved, armLost, failures, crashes>>
  BY DEF EmitBlocked
<1>3. TypeOK'
  BY <1>1, <1>2 DEF DispatchInv, TypeOK, Fates, Losses, engineVars, workerVars
<1>4. (jobs \subseteq JobType /\ handler \in HandlerType)'
  BY <1>2 DEF DispatchInv, engineVars, workerVars
<1>5. (NothingDueOutsideDrain /\ JobsDistinct /\ WakeIsScheduled)'
  BY <1>2 DEF DispatchInv, NothingDueOutsideDrain, JobsDistinct, WakeIsScheduled, engineVars, workerVars
<1>6. RememberedIsDone'
  BY <1>1, <1>2 DEF DispatchInv, RememberedIsDone, engineVars, workerVars, EmitBlocked
<1>7. NewIsNowhere'
  BY <1>1, <1>2 DEF DispatchInv, NewIsNowhere, engineVars, workerVars
<1>8. (\A x \in Intents \ unsaved : QueuedOnce(queue, handler.due, sends, x) /\ OrdersBacked(x))'
  BY <1>2 DEF DispatchInv, OrdersBacked, engineVars, workerVars
<1>9. LiveIntentHasAPlace'
  BY <1>1, <1>2, <1>3 DEF DispatchInv, LiveIntentHasAPlace, engineVars, workerVars
<1> QED
  BY <1>3, <1>4, <1>5, <1>6, <1>7, <1>8, <1>9 DEF DispatchInv

LEMMA AlarmFiresKeeps ==
  ASSUME DispatchInv, AlarmFires
  PROVE  DispatchInv'
<1>1. UNCHANGED <<queue, backoff, tokens, workerVars, historyVars>> /\ alarm' = None /\ enabled' \in BOOLEAN
  BY DEF AlarmFires
<1>2. handler' \in HandlerType /\ handler'.pc = "drain" /\ handler'.due = <<>> /\ handler'.wake = None
  <2>1. handler' = [pc |-> "drain", due |-> <<>>, wake |-> None, job |-> <<>>]
    BY DEF AlarmFires, Idle
  <2>2. <<>> \in Seq(Item) /\ None \in None..Cap
    BY DEF None
  <2> QED
    BY <2>1, <2>2 DEF HandlerType
<1>3. handler.due = <<>>
  BY DEF AlarmFires, DispatchInv, NothingDueOutsideDrain
<1>4. TypeOK'
  <2>1. None \in None..Cap /\ <<>> \in Seq(Item)
    BY DEF None
  <2> QED
    BY <1>1, <1>2, <2>1 DEF DispatchInv, TypeOK, workerVars, historyVars
<1>5. (jobs \subseteq JobType)'
  BY <1>1 DEF DispatchInv, workerVars
<1>6. (NothingDueOutsideDrain /\ JobsDistinct /\ WakeIsScheduled)'
  BY <1>1, <1>2 DEF DispatchInv, NothingDueOutsideDrain, JobsDistinct, WakeIsScheduled, workerVars
<1>7. RememberedIsDone'
  BY <1>1 DEF DispatchInv, RememberedIsDone, workerVars, historyVars
<1>8. NewIsNowhere'
  BY <1>1, <1>2, <1>3 DEF DispatchInv, NewIsNowhere, workerVars, historyVars
<1>9. (\A x \in Intents \ unsaved : QueuedOnce(queue, handler.due, sends, x) /\ OrdersBacked(x))'
  BY <1>1, <1>2, <1>3 DEF DispatchInv, OrdersBacked, workerVars, historyVars
<1>10. LiveIntentHasAPlace'
  BY <1>1, <1>2, <1>3, <1>4 DEF DispatchInv, LiveIntentHasAPlace, Held, workerVars, historyVars
<1> QED
  BY <1>2, <1>4, <1>5, <1>6, <1>7, <1>8, <1>9, <1>10 DEF DispatchInv

LEMMA StorageFailsKeeps ==
  ASSUME DispatchInv, StorageFails
  PROVE  DispatchInv'
<1>1. /\ UNCHANGED <<queue, alarm, tokens, enabled, handler, workerVars, fate, unsaved, armLost, crashes>>
      /\ backoff' \in 0..Backoff /\ failures' \in 0..MaxStorageFailures
  BY DEF DispatchInv, TypeOK, StorageFails
<1>2. TypeOK'
  BY <1>1 DEF DispatchInv, TypeOK, workerVars
<1>3. (NothingDueOutsideDrain /\ JobsDistinct /\ WakeIsScheduled /\ RememberedIsDone /\ NewIsNowhere)'
  BY <1>1 DEF DispatchInv, NothingDueOutsideDrain, JobsDistinct, WakeIsScheduled, RememberedIsDone,
              NewIsNowhere, workerVars
<1>4. (\A x \in Intents \ unsaved : QueuedOnce(queue, handler.due, sends, x) /\ OrdersBacked(x))'
  BY <1>1 DEF DispatchInv, OrdersBacked, workerVars
<1>5. LiveIntentHasAPlace'
  BY <1>1, <1>2 DEF DispatchInv, LiveIntentHasAPlace, workerVars
<1> QED
  BY <1>1, <1>2, <1>3, <1>4, <1>5 DEF DispatchInv, workerVars

LEMMA DrainKeeps ==
  ASSUME DispatchInv, Drain
  PROVE  DispatchInv'
<1> DEFINE due == DueItems(queue)
           pend == PendingItems(queue)
<1>1. /\ UNCHANGED <<alarm, backoff, tokens, enabled, jobs, ledger, sends, orders, fate, armLost, failures, crashes>>
      /\ queue' = (IF backoff = 0 THEN pend ELSE queue)
      /\ unsaved' = (IF backoff > 0 THEN unsaved \cup Items(due) ELSE unsaved)
      /\ handler' = [handler EXCEPT !.pc = "dispatch", !.due = due, !.wake = NextWake(queue)]
      /\ handler.pc = "drain"
  BY DEF Drain, Put, workerVars
<1>2. TypeOK /\ handler \in HandlerType /\ queue \in Seq(Item) /\ backoff \in Nat /\ Len(queue) <= QueueLimit
      /\ Len(queue) \in Nat
  BY DEF DispatchInv, TypeOK
<1>3. handler.due = <<>> /\ Items(handler.due) = {}
  BY <1>1, ItemsOfEmpty DEF DispatchInv, NothingDueOutsideDrain
<1>4. /\ due \in Seq(Item) /\ pend \in Seq(Item) /\ Len(pend) <= Len(queue)
      /\ Items(queue) = Items(due) \cup Items(pend)
      /\ \A x : OnceIn(queue, x) => /\ OnceIn(due, x) /\ OnceIn(pend, x)
                                    /\ x \notin Items(due) \cap Items(pend)
  BY <1>2, DrainDivides
<1>5. NextWake(queue) \in None..Cap
  BY <1>2, NextWakeType
<1>6. Items(due) \subseteq Intents
  BY <1>4, ItemsAreIntents
<1> HIDE DEF due, pend
<1>7. handler' \in HandlerType /\ handler'.pc = "dispatch" /\ handler'.due = due
      /\ handler'.wake \in None..Cap
  BY <1>1, <1>2, <1>4, <1>5 DEF HandlerType
<1>8. queue' \in Seq(Item) /\ Len(queue') <= QueueLimit
  BY <1>1, <1>2, <1>4
<1>9. TypeOK'
  BY <1>1, <1>2, <1>4, <1>6, <1>7, <1>8 DEF TypeOK
<1>10. (jobs \subseteq JobType /\ JobsDistinct /\ RememberedIsDone /\ NothingDueOutsideDrain /\ WakeIsScheduled)'
  BY <1>1, <1>7 DEF DispatchInv, JobsDistinct, RememberedIsDone, NothingDueOutsideDrain, WakeIsScheduled
<1>11. Items(queue') \cup Items(handler'.due) = Items(queue)
  BY <1>1, <1>4, <1>7
<1>12. NewIsNowhere'
  BY <1>1, <1>11 DEF DispatchInv, NewIsNowhere
<1>13. ASSUME NEW x \in Intents \ unsaved' PROVE QueuedOnce(queue', handler'.due, sends', x)
  <2>1. x \notin unsaved /\ (backoff > 0 => x \notin Items(due))
    BY <1>1, <1>13
  <2>2. QueuedOnce(queue, handler.due, sends, x)
    BY <2>1 DEF DispatchInv
  <2>3. OnceIn(queue', x) /\ OnceIn(handler'.due, x)
    BY <1>1, <1>4, <1>7, <2>2 DEF QueuedOnce
  <2>4. ~ (x \in Items(queue') /\ x \in Items(handler'.due))
    BY <1>1, <1>2, <1>4, <1>7, <2>1, <2>2 DEF QueuedOnce
  <2> QED
    BY <1>1, <1>11, <2>2, <2>3, <2>4 DEF QueuedOnce
<1>14. ASSUME NEW x \in Intents \ unsaved' PROVE OrdersBacked(x)'
  BY <1>1, <1>14 DEF DispatchInv, OrdersBacked
<1>15. LiveIntentHasAPlace'
  BY <1>1, <1>3, <1>9, <1>11 DEF DispatchInv, LiveIntentHasAPlace, Held
<1> QED
  BY <1>7, <1>9, <1>10, <1>12, <1>13, <1>14, <1>15 DEF DispatchInv

-----------------------------------------------------------------------------
\* What a loss does to the fates.
LEMMA LoseStep ==
  ASSUME TypeOK, NEW STATE S, NEW ACTION why, why \in Losses, Lose(S, why)
  PROVE  /\ fate' \in [Intents -> Fates]
         /\ \A i \in Intents :
              /\ fate'[i] = "new" => fate[i] = "new"
              /\ fate[i] = "done" => fate'[i] = "done"
              /\ fate'[i] = "live" => /\ fate[i] = "live"
                                      /\ i \in S => i \in Held(queue', handler', jobs')
<1>1. fate \in [Intents -> Fates] /\ why \in Fates /\ why \notin {"new", "live", "done"}
  BY DEF TypeOK, Fates, Losses
<1> QED
  BY <1>1 DEF Lose

LEMMA SetNextWakeKeeps ==
  ASSUME DispatchInv, SetNextWake
  PROVE  DispatchInv'
<1>1. /\ UNCHANGED <<queue, tokens, enabled, jobs, ledger, sends, orders, fate, unsaved, crashes>>
      /\ handler.due = <<>>
      /\ handler' = [pc |-> "finish", due |-> <<>>, wake |-> None, job |-> <<>>]
  BY DEF SetNextWake, Idle, workerVars
<1>2. TypeOK
  BY DEF DispatchInv
<1>3. handler' \in HandlerType /\ handler'.pc = "finish" /\ handler'.due = <<>> /\ handler'.wake = None
  <2>1. <<>> \in Seq(Item) /\ None \in None..Cap
    BY DEF None
  <2> QED
    BY <1>1, <2>1 DEF HandlerType
<1>4. alarm' \in None..Cap /\ backoff' \in 0..Backoff /\ armLost' \in BOOLEAN
      /\ failures' \in 0..MaxStorageFailures
  <2>1. CASE handler.wake = None
    BY <1>2, <2>1 DEF SetNextWake, TypeOK
  <2>2. CASE handler.wake # None
    <3>1. SetAlarm(handler.wake) /\ handler.wake \in None..Cap
      BY <1>2, <2>2 DEF SetNextWake, TypeOK
    <3> QED
      BY <1>2, <3>1, SetAlarmStep
  <2> QED
    BY <2>1, <2>2
<1>5. TypeOK'
  BY <1>1, <1>2, <1>3, <1>4 DEF TypeOK, None
<1>6. (jobs \subseteq JobType /\ JobsDistinct /\ RememberedIsDone /\ NothingDueOutsideDrain /\ WakeIsScheduled)'
  BY <1>1, <1>3 DEF DispatchInv, JobsDistinct, RememberedIsDone, NothingDueOutsideDrain, WakeIsScheduled
<1>7. NewIsNowhere'
  BY <1>1, <1>3 DEF DispatchInv, NewIsNowhere
<1>8. (\A x \in Intents \ unsaved : QueuedOnce(queue, handler.due, sends, x) /\ OrdersBacked(x))'
  BY <1>1, <1>3 DEF DispatchInv, OrdersBacked
<1>9. LiveIntentHasAPlace'
  BY <1>1, <1>3, <1>5 DEF DispatchInv, LiveIntentHasAPlace, Held
<1> QED
  BY <1>3, <1>5, <1>6, <1>7, <1>8, <1>9 DEF DispatchInv

LEMMA FinishKeeps ==
  ASSUME DispatchInv, Finish
  PROVE  DispatchInv'
<1>1. /\ UNCHANGED <<queue, tokens, enabled, jobs, ledger, sends, orders, fate, unsaved, crashes>>
      /\ handler' = [pc |-> "idle", due |-> <<>>, wake |-> None, job |-> <<>>]
      /\ handler.pc = "finish" /\ SetAlarm(Cap)
  BY DEF Finish, Idle, workerVars
<1>2. TypeOK /\ handler.due = <<>>
  BY <1>1 DEF DispatchInv, NothingDueOutsideDrain
<1>3. handler' \in HandlerType /\ handler'.pc = "idle" /\ handler'.due = <<>> /\ handler'.wake = None
  <2>1. <<>> \in Seq(Item) /\ None \in None..Cap
    BY DEF None
  <2> QED
    BY <1>1, <2>1 DEF HandlerType
<1>4. Cap \in None..Cap /\ Cap # None
  BY DEF None
<1>5. alarm' \in None..Cap /\ backoff' \in 0..Backoff /\ armLost' \in BOOLEAN
      /\ failures' \in 0..MaxStorageFailures /\ (alarm' = None => armLost')
  BY <1>1, <1>2, <1>4, SetAlarmStep
<1>6. TypeOK'
  BY <1>1, <1>2, <1>3, <1>5 DEF TypeOK, None
<1>7. (jobs \subseteq JobType /\ JobsDistinct /\ RememberedIsDone /\ NothingDueOutsideDrain /\ WakeIsScheduled)'
  BY <1>1, <1>3, <1>5 DEF DispatchInv, JobsDistinct, RememberedIsDone, NothingDueOutsideDrain, WakeIsScheduled
<1>8. NewIsNowhere'
  BY <1>1, <1>2, <1>3 DEF DispatchInv, NewIsNowhere
<1>9. (\A x \in Intents \ unsaved : QueuedOnce(queue, handler.due, sends, x) /\ OrdersBacked(x))'
  BY <1>1, <1>2, <1>3 DEF DispatchInv, OrdersBacked
<1>10. LiveIntentHasAPlace'
  BY <1>1, <1>2, <1>3, <1>6 DEF DispatchInv, LiveIntentHasAPlace, Held
<1> QED
  BY <1>3, <1>6, <1>7, <1>8, <1>9, <1>10 DEF DispatchInv

LEMMA EngineRestartsKeeps ==
  ASSUME DispatchInv, EngineRestarts
  PROVE  DispatchInv'
<1>1. /\ UNCHANGED <<queue, jobs, ledger, sends, orders, unsaved, failures>>
      /\ handler' = [pc |-> "idle", due |-> <<>>, wake |-> None, job |-> <<>>]
      /\ backoff' = 0 /\ tokens' \in tokens..Capacity /\ enabled' \in BOOLEAN
      /\ alarm' \in {Cap, 0} /\ armLost' = FALSE /\ crashes' = crashes + 1 /\ crashes < MaxCrashes
  BY DEF EngineRestarts, Idle, workerVars
<1>2. TypeOK
  BY DEF DispatchInv
<1>3. handler' \in HandlerType /\ handler'.pc = "idle" /\ handler'.due = <<>> /\ handler'.wake = None
  <2>1. <<>> \in Seq(Item) /\ None \in None..Cap
    BY DEF None
  <2> QED
    BY <1>1, <2>1 DEF HandlerType
<1>4. /\ fate' \in [Intents -> Fates]
      /\ \A i \in Intents :
           /\ fate'[i] = "new" => fate[i] = "new"
           /\ fate[i] = "done" => fate'[i] = "done"
           /\ fate'[i] = "live" => /\ fate[i] = "live"
                                   /\ i \in Items(handler.due) => i \in Held(queue', handler', jobs')
  <2>1. Lose(Items(handler.due), "crashed") /\ "crashed" \in Losses
    BY DEF EngineRestarts, Losses
  <2> QED
    BY <1>2, <2>1, LoseStep
<1>5. alarm' \in None..Cap /\ alarm' # None /\ tokens' \in 0..Capacity /\ backoff' \in 0..Backoff
      /\ crashes' \in 0..MaxCrashes
  BY <1>1, <1>2 DEF TypeOK, None
<1>6. TypeOK'
  <2>1. handler'.due \in Seq(Item) /\ handler'.wake \in None..Cap /\ handler'.pc = "idle"
    BY <1>3 DEF HandlerType
  <2> QED
    BY <1>1, <1>2, <1>4, <1>5, <2>1 DEF TypeOK
<1>7. (jobs \subseteq JobType /\ JobsDistinct /\ RememberedIsDone /\ NothingDueOutsideDrain /\ WakeIsScheduled)'
  BY <1>1, <1>3, <1>4, <1>5 DEF DispatchInv, JobsDistinct, RememberedIsDone, NothingDueOutsideDrain, WakeIsScheduled
<1>8. Items(handler'.due) = {} /\ \A i : OnceIn(handler'.due, i)
  BY <1>3, ItemsOfEmpty
<1>9. NewIsNowhere'
  BY <1>1, <1>4, <1>8 DEF DispatchInv, NewIsNowhere
<1>10. (\A x \in Intents \ unsaved : QueuedOnce(queue, handler.due, sends, x) /\ OrdersBacked(x))'
  BY <1>1, <1>8 DEF DispatchInv, OrdersBacked, QueuedOnce
<1>11. LiveIntentHasAPlace'
  BY <1>1, <1>4, <1>6 DEF DispatchInv, LiveIntentHasAPlace, Held
<1> QED
  BY <1>3, <1>6, <1>7, <1>9, <1>10, <1>11 DEF DispatchInv

LEMMA TickKeeps ==
  ASSUME DispatchInv, Tick
  PROVE  DispatchInv'
<1>1. /\ UNCHANGED <<enabled, jobs, sends, orders, fate, unsaved, armLost, failures, crashes>>
      /\ queue' = [k \in 1..Len(queue) |-> [queue[k] EXCEPT !.wait = Down(@)]]
      /\ alarm' = Down(alarm) /\ backoff' = Down(backoff) /\ tokens' = Lower(tokens + 1, Capacity)
      /\ handler' = [handler EXCEPT !.wake = Down(@)]
      /\ ledger' = [s \in Isolates |-> [i \in Intents |-> Down(ledger[s][i])]]
  BY DEF Tick, historyVars
<1>2. TypeOK /\ handler \in HandlerType /\ queue \in Seq(Item)
  BY DEF DispatchInv, TypeOK
<1>3. handler' \in HandlerType /\ handler'.pc = handler.pc /\ handler'.due = handler.due
  <2>1. handler.wake \in None..Cap
    BY <1>2 DEF HandlerType
  <2>2. Down(handler.wake) \in None..Cap
    BY <2>1 DEF Down, None
  <2> QED
    BY <1>1, <1>2, <2>2 DEF HandlerType
<1>4. /\ queue' \in Seq(Item) /\ Len(queue') = Len(queue) /\ Items(queue') = Items(queue)
      /\ \A x : OnceIn(queue, x) => OnceIn(queue', x)
  BY <1>1, <1>2, ItemsAfterTick
<1>5. /\ alarm' \in None..Cap /\ backoff' \in 0..Backoff /\ tokens' \in 0..Capacity
      /\ (alarm' = None => alarm = None)
  <2>1. alarm \in None..Cap /\ backoff \in 0..Backoff /\ tokens \in 0..Capacity
    BY <1>2 DEF TypeOK
  <2>2. Down(alarm) \in None..Cap /\ (Down(alarm) = None => alarm = None) /\ Down(backoff) \in 0..Backoff
    BY <2>1 DEF Down, None
  <2>3. Lower(tokens + 1, Capacity) \in 0..Capacity
    BY <2>1 DEF Lower
  <2> QED
    BY <1>1, <2>2, <2>3
<1>6. /\ ledger' \in [Isolates -> [Intents -> 0..Ttl]]
      /\ \A s \in Isolates : \A i \in Intents : ledger'[s][i] > 0 => ledger[s][i] > 0
  <2>1. ASSUME NEW s \in Isolates, NEW i \in Intents
        PROVE  Down(ledger[s][i]) \in 0..Ttl /\ (Down(ledger[s][i]) > 0 => ledger[s][i] > 0)
    <3>1. ledger[s][i] \in 0..Ttl
      BY <1>2 DEF TypeOK
    <3> QED
      BY <3>1 DEF Down
  <2> QED
    BY <1>1, <2>1
<1>7. handler'.wake \in None..Cap /\ handler'.due \in Seq(Item) /\ handler'.pc \in {"idle", "drain", "dispatch", "finish"}
  BY <1>3 DEF HandlerType
<1>8. TypeOK'
  BY <1>1, <1>2, <1>4, <1>5, <1>6, <1>7 DEF TypeOK
<1>9. (jobs \subseteq JobType /\ JobsDistinct /\ NothingDueOutsideDrain /\ WakeIsScheduled)'
  BY <1>1, <1>3, <1>5 DEF DispatchInv, JobsDistinct, NothingDueOutsideDrain, WakeIsScheduled
<1>10. RememberedIsDone'
  BY <1>1, <1>6 DEF DispatchInv, RememberedIsDone
<1>11. NewIsNowhere'
  BY <1>1, <1>3, <1>4 DEF DispatchInv, NewIsNowhere
<1>12. (\A x \in Intents \ unsaved : QueuedOnce(queue, handler.due, sends, x) /\ OrdersBacked(x))'
  BY <1>1, <1>3, <1>4 DEF DispatchInv, OrdersBacked, QueuedOnce
<1>13. LiveIntentHasAPlace'
  BY <1>1, <1>3, <1>4, <1>8 DEF DispatchInv, LiveIntentHasAPlace, Held
<1> QED
  BY <1>3, <1>8, <1>9, <1>10, <1>11, <1>12, <1>13 DEF DispatchInv

-----------------------------------------------------------------------------
(***************************************************************************)
(* The worker's actions leave the engine alone.                            *)
(***************************************************************************)
\* The parts of the invariant that depend on the worker, for the jobs js, the
\* ledger ld, the orders od and the fates ft after a step of it.
WorkerKeeps(js, ld, od, ft) ==
  /\ \A j \in js : \E k \in jobs : j.intent = k.intent /\ j.n = k.n /\ j.iso = k.iso
  /\ js \subseteq JobType
  /\ \A j, k \in js : j.intent = k.intent /\ j.n = k.n => j = k
  /\ ld \in [Isolates -> [Intents -> 0..Ttl]]
  /\ od \in [Intents -> Nat]
  /\ ft \in [Intents -> Fates]
  /\ \A i \in Intents : ft[i] = "new" => fate[i] = "new"
  /\ \A s \in Isolates : \A i \in Intents : ld[s][i] > 0 => ft[i] = "done"
  /\ \A i \in Intents \ unsaved :
       /\ od[i] <= sends[i]
       /\ \A j \in js : j.intent = i /\ j.pc # "placed" => od[i] = 0
  /\ \A i \in Intents : ft[i] = "live" => i \in Held(queue, handler, js)

LEMMA WorkerStep ==
  ASSUME DispatchInv,
         UNCHANGED <<engineVars, sends, unsaved, armLost, failures>>,
         crashes' \in 0..MaxCrashes, WorkerKeeps(jobs', ledger', orders', fate')
  PROVE  DispatchInv'
<1>1. UNCHANGED <<queue, alarm, backoff, tokens, enabled, handler, sends, unsaved, armLost, failures>>
  BY DEF engineVars
<1>2. ASSUME NEW j \in jobs'
      PROVE  /\ j.intent \in Intents /\ j.iso \in Isolates /\ j.n \in 1..sends'[j.intent]
             /\ j.pc \in {"arrived", "working", "placed"}
  <2>1. PICK k \in jobs : j.intent = k.intent /\ j.n = k.n /\ j.iso = k.iso
    BY <1>2 DEF WorkerKeeps
  <2>2. j \in JobType
    BY <1>2 DEF WorkerKeeps
  <2>3. k.n \in 1..sends[k.intent]
    BY <2>1 DEF DispatchInv, TypeOK
  <2> QED
    BY <1>1, <2>1, <2>2, <2>3 DEF JobType
<1>3. /\ ledger' \in [Isolates -> [Intents -> 0..Ttl]]
      /\ orders' \in [Intents -> Nat]
      /\ fate' \in [Intents -> Fates]
  BY DEF WorkerKeeps
<1>4. TypeOK'
  BY <1>1, <1>2, <1>3 DEF DispatchInv, TypeOK
<1>5. (jobs \subseteq JobType /\ JobsDistinct /\ RememberedIsDone)'
  BY DEF WorkerKeeps, JobsDistinct, RememberedIsDone
<1>6. (handler \in HandlerType /\ NothingDueOutsideDrain /\ WakeIsScheduled)'
  BY <1>1 DEF DispatchInv, NothingDueOutsideDrain, WakeIsScheduled
<1>7. NewIsNowhere'
  BY <1>1 DEF DispatchInv, NewIsNowhere, WorkerKeeps
<1>8. (\A x \in Intents \ unsaved : QueuedOnce(queue, handler.due, sends, x) /\ OrdersBacked(x))'
  BY <1>1 DEF DispatchInv, WorkerKeeps, OrdersBacked
<1>9. LiveIntentHasAPlace'
  BY <1>1, <1>4 DEF WorkerKeeps, LiveIntentHasAPlace
<1> QED
  BY <1>4, <1>5, <1>6, <1>7, <1>8, <1>9 DEF DispatchInv

\* Facts about the jobs before a step.
LEMMA JobFacts ==
  ASSUME DispatchInv
  PROVE  /\ TypeOK /\ jobs \subseteq JobType /\ crashes \in 0..MaxCrashes
         /\ \A j \in jobs : j \in JobType /\ j.intent \in Intents /\ j.iso \in Isolates
         /\ \A j, k \in jobs : j.intent = k.intent /\ j.n = k.n => j = k
         /\ ledger \in [Isolates -> [Intents -> 0..Ttl]]
         /\ orders \in [Intents -> Nat] /\ fate \in [Intents -> Fates]
         /\ \A s \in Isolates : \A i \in Intents : ledger[s][i] > 0 => fate[i] = "done"
         /\ \A i \in Intents \ unsaved :
              /\ orders[i] <= sends[i]
              /\ \A j \in jobs : j.intent = i /\ j.pc # "placed" => orders[i] = 0
         /\ \A i \in Intents : fate[i] = "live" => i \in Held(queue, handler, jobs)
<1>1. \A j \in jobs : j \in JobType /\ j.intent \in Intents /\ j.iso \in Isolates
  BY DEF DispatchInv, TypeOK
<1> QED
  BY <1>1 DEF DispatchInv, TypeOK, JobsDistinct, RememberedIsDone, OrdersBacked, LiveIntentHasAPlace

LEMMA ReplayKeeps ==
  ASSUME DispatchInv, NEW j \in jobs, Replay(j)
  PROVE  DispatchInv'
<1>1. /\ UNCHANGED <<engineVars, sends, unsaved, armLost, failures, crashes, orders, fate, ledger>>
      /\ jobs' = jobs \ {j} /\ ledger[j.iso][j.intent] > 0
  BY DEF Replay, Answer, historyVars
<1>2. j.intent \in Intents /\ fate[j.intent] = "done"
  BY <1>1, JobFacts
<1>3. \A i \in Intents : fate[i] = "live" => i \in Held(queue, handler, jobs \ {j})
  BY <1>2, JobFacts DEF Held
<1>4. WorkerKeeps(jobs', ledger', orders', fate')
  BY <1>1, <1>3, JobFacts DEF WorkerKeeps
<1> QED
  BY <1>1, <1>4, WorkerStep, JobFacts

LEMMA RateLimitedKeeps ==
  ASSUME DispatchInv, NEW j \in jobs, RateLimited(j)
  PROVE  DispatchInv'
<1>1. /\ UNCHANGED <<engineVars, sends, unsaved, armLost, failures, crashes, orders, ledger>>
      /\ jobs' = jobs \ {j} /\ Lose({j.intent}, "limited")
  BY DEF RateLimited, Answer
<1>2. queue' = queue /\ handler' = handler
  BY <1>1 DEF engineVars
<1>3. /\ fate' \in [Intents -> Fates]
      /\ \A i \in Intents :
           /\ fate'[i] = "new" => fate[i] = "new"
           /\ fate[i] = "done" => fate'[i] = "done"
           /\ fate'[i] = "live" => /\ fate[i] = "live"
                                   /\ i \in {j.intent} => i \in Held(queue', handler', jobs')
  <2>1. TypeOK /\ "limited" \in Losses
    BY JobFacts DEF Losses
  <2> QED
    BY <1>1, <2>1, LoseStep
<1>4. \A i \in Intents : fate'[i] = "live" => i \in Held(queue, handler, jobs')
  <2>1. \A i \in Held(queue, handler, jobs) : i # j.intent => i \in Held(queue, handler, jobs')
    BY <1>1 DEF Held
  <2> QED
    BY <1>2, <1>3, <2>1, JobFacts
<1>5. WorkerKeeps(jobs', ledger', orders', fate')
  BY <1>1, <1>3, <1>4, JobFacts DEF WorkerKeeps
<1> QED
  BY <1>1, <1>5, WorkerStep, JobFacts

LEMMA ProceedKeeps ==
  ASSUME DispatchInv, NEW j \in jobs, Proceed(j)
  PROVE  DispatchInv'
<1> DEFINE w == [j EXCEPT !.pc = "working"]
<1>1. /\ UNCHANGED <<engineVars, sends, unsaved, armLost, failures, crashes, orders, ledger, fate>>
      /\ jobs' = (jobs \ {j}) \cup {w} /\ j.pc = "arrived"
  BY DEF Proceed, historyVars
<1>2. w \in JobType /\ w.intent = j.intent /\ w.n = j.n /\ w.iso = j.iso /\ w.pc = "working"
  BY JobFacts DEF JobType
<1> HIDE DEF w
<1>3. \A i \in Intents : fate'[i] = "live" => i \in Held(queue, handler, jobs')
  BY <1>1, <1>2, JobFacts DEF Held
<1>4. \A k, l \in jobs' : k.intent = l.intent /\ k.n = l.n => k = l
  BY <1>1, <1>2, JobFacts
<1>5. \A k \in jobs' : \E l \in jobs : k.intent = l.intent /\ k.n = l.n /\ k.iso = l.iso
  BY <1>1, <1>2
<1>6. ASSUME NEW i \in Intents \ unsaved
      PROVE  orders[i] <= sends[i] /\ \A k \in jobs' : k.intent = i /\ k.pc # "placed" => orders[i] = 0
  <2>1. j.pc # "placed"
    BY <1>1
  <2> QED
    BY <1>1, <1>2, <2>1, JobFacts
<1>7. WorkerKeeps(jobs', ledger', orders', fate')
  BY <1>1, <1>2, <1>3, <1>4, <1>5, <1>6, JobFacts DEF WorkerKeeps
<1> QED
  BY <1>1, <1>7, WorkerStep, JobFacts

LEMMA ConcludeKeeps ==
  ASSUME DispatchInv, NEW j \in jobs, Conclude(j),
         UNCHANGED <<engineVars, sends, orders, unsaved, armLost, failures, crashes>>
  PROVE  DispatchInv'
<1>1. /\ jobs' = jobs \ {j} /\ ledger' = [ledger EXCEPT ![j.iso][j.intent] = Ttl]
      /\ fate' = [fate EXCEPT ![j.intent] = "done"]
  BY DEF Conclude, Answer
<1>2. j.intent \in Intents /\ j.iso \in Isolates
  BY JobFacts
<1>3. ledger' \in [Isolates -> [Intents -> 0..Ttl]]
  <2>1. Ttl \in 0..Ttl
    OBVIOUS
  <2> QED
    BY <1>1, <1>2, <2>1, JobFacts
<1>4. /\ fate' \in [Intents -> Fates] /\ fate'[j.intent] = "done"
      /\ \A i \in Intents : i # j.intent => fate'[i] = fate[i]
  BY <1>1, <1>2, JobFacts DEF Fates
<1>5. \A s \in Isolates : \A i \in Intents : ledger'[s][i] > 0 => fate'[i] = "done"
  <2>1. \A s \in Isolates : \A i \in Intents : i # j.intent => ledger'[s][i] = ledger[s][i]
    BY <1>1, <1>2, JobFacts
  <2> QED
    BY <1>4, <2>1, JobFacts
<1>6. \A i \in Intents : fate'[i] = "live" => i \in Held(queue, handler, jobs')
  <2>1. \A i \in Held(queue, handler, jobs) : i # j.intent => i \in Held(queue, handler, jobs')
    BY <1>1 DEF Held
  <2> QED
    BY <1>4, <2>1, JobFacts
<1>7. WorkerKeeps(jobs', ledger', orders', fate')
  BY <1>1, <1>3, <1>4, <1>5, <1>6, JobFacts DEF WorkerKeeps
<1> QED
  BY <1>7, WorkerStep, JobFacts

LEMMA PlaceKeeps ==
  ASSUME DispatchInv, NEW j \in jobs, Place(j)
  PROVE  DispatchInv'
<1> DEFINE w == [j EXCEPT !.pc = "placed"]
<1>1. /\ UNCHANGED <<engineVars, sends, unsaved, armLost, failures, crashes, ledger, fate>>
      /\ jobs' = (jobs \ {j}) \cup {w} /\ j.pc = "working"
      /\ orders' = [orders EXCEPT ![j.intent] = @ + 1]
  BY DEF Place, historyVars
<1>2. w \in JobType /\ w.intent = j.intent /\ w.n = j.n /\ w.iso = j.iso /\ w.pc = "placed"
  BY JobFacts DEF JobType
<1> HIDE DEF w
<1>3. \A i \in Intents : fate'[i] = "live" => i \in Held(queue, handler, jobs')
  BY <1>1, <1>2, JobFacts DEF Held
<1>4. \A k, l \in jobs' : k.intent = l.intent /\ k.n = l.n => k = l
  BY <1>1, <1>2, JobFacts
<1>5. \A k \in jobs' : \E l \in jobs : k.intent = l.intent /\ k.n = l.n /\ k.iso = l.iso
  BY <1>1, <1>2
<1>6. j.intent \in Intents /\ orders' \in [Intents -> Nat]
  BY <1>1, JobFacts
<1>7. ASSUME NEW i \in Intents \ unsaved
      PROVE  orders'[i] <= sends[i] /\ \A k \in jobs' : k.intent = i /\ k.pc # "placed" => orders'[i] = 0
  <2>1. CASE i # j.intent
    <3>1. orders'[i] = orders[i]
      BY <1>1, <2>1, JobFacts
    <3> QED
      BY <1>1, <1>2, <2>1, <3>1, JobFacts
  <2>2. CASE i = j.intent
    <3>1. orders[i] = 0 /\ orders'[i] = 1
      BY <1>1, <2>2, JobFacts
    <3>2. sends[i] \in Nat /\ sends[i] <= 1
      BY DEF DispatchInv, TypeOK, QueuedOnce
    <3>3. \A k \in jobs : k.intent = i => k.n = 1 /\ sends[i] = 1
      <4>1. \A k \in jobs : k.intent = i => k.n \in 1..sends[i]
        BY DEF DispatchInv, TypeOK
      <4> QED
        BY <3>2, <4>1
    <3>4. \A k \in jobs' : k.intent = i => k.pc = "placed"
      BY <1>1, <1>2, <2>2, <3>3, JobFacts
    <3> QED
      BY <2>2, <3>1, <3>3, <3>4
  <2> QED
    BY <2>1, <2>2
<1>8. WorkerKeeps(jobs', ledger', orders', fate')
  BY <1>1, <1>2, <1>3, <1>4, <1>5, <1>6, <1>7, JobFacts DEF WorkerKeeps
<1> QED
  BY <1>1, <1>8, WorkerStep, JobFacts

LEMMA IsolateEvictedKeeps ==
  ASSUME DispatchInv, NEW s \in Isolates, IsolateEvicted(s)
  PROVE  DispatchInv'
<1> DEFINE served == {j.intent : j \in jobs}
<1>1. /\ UNCHANGED <<engineVars, sends, unsaved, armLost, failures, orders>>
      /\ jobs' = {j \in jobs : j.iso # s} /\ Lose(served, "evicted")
      /\ ledger' = [ledger EXCEPT ![s] = [i \in Intents |-> 0]]
      /\ crashes' = crashes + 1 /\ crashes < MaxCrashes
  BY DEF IsolateEvicted
<1>2. queue' = queue /\ handler' = handler
  BY <1>1 DEF engineVars
<1>3. /\ fate' \in [Intents -> Fates]
      /\ \A i \in Intents :
           /\ fate'[i] = "new" => fate[i] = "new"
           /\ fate[i] = "done" => fate'[i] = "done"
           /\ fate'[i] = "live" => /\ fate[i] = "live"
                                   /\ i \in served => i \in Held(queue', handler', jobs')
  <2>1. TypeOK /\ "evicted" \in Losses
    BY JobFacts DEF Losses
  <2> HIDE DEF served
  <2> QED
    BY <1>1, <2>1, LoseStep
<1>4. \A i \in Intents : fate'[i] = "live" => i \in Held(queue, handler, jobs')
  <2>1. \A i \in Held(queue, handler, jobs) : i \notin served => i \in Held(queue, handler, jobs')
    BY DEF Held
  <2> QED
    BY <1>2, <1>3, <2>1, JobFacts
<1>5. /\ ledger' \in [Isolates -> [Intents -> 0..Ttl]]
      /\ \A r \in Isolates : \A i \in Intents : ledger'[r][i] > 0 => ledger[r][i] > 0
  <2>1. [i \in Intents |-> 0] \in [Intents -> 0..Ttl]
    OBVIOUS
  <2> QED
    BY <1>1, <2>1, JobFacts
<1>6. WorkerKeeps(jobs', ledger', orders', fate')
  <2>1. jobs' \subseteq jobs
    BY <1>1
  <2>2. \A r \in Isolates : \A i \in Intents : ledger'[r][i] > 0 => fate'[i] = "done"
    BY <1>3, <1>5, JobFacts
  <2>3. \A i \in Intents : fate'[i] = "new" => fate[i] = "new"
    BY <1>3
  <2>4. orders' = orders
    BY <1>1
  <2> QED
    BY <1>3, <1>4, <1>5, <2>1, <2>2, <2>3, <2>4, JobFacts DEF WorkerKeeps
<1>7. crashes' \in 0..MaxCrashes
  BY <1>1, JobFacts
<1> QED
  BY <1>1, <1>6, <1>7, WorkerStep

-----------------------------------------------------------------------------
(***************************************************************************)
(* A due intent is dispatched.                                             *)
(***************************************************************************)
LEMMA DispatchKeeps ==
  ASSUME DispatchInv, Dispatch
  PROVE  DispatchInv'
<1> DEFINE i == handler.due[1].intent
           rest == [handler EXCEPT !.due = Tail(@)]
<1>1. /\ handler.pc = "dispatch" /\ handler.due # <<>>
      /\ UNCHANGED <<enabled, ledger, orders, unsaved, crashes>>
  BY DEF Dispatch
<1>2. TypeOK /\ handler \in HandlerType /\ handler.due \in Seq(Item)
  BY DEF DispatchInv, TypeOK
<1>3. /\ i \in Intents /\ Tail(handler.due) \in Seq(Item)
      /\ Items(handler.due) = Items(Tail(handler.due)) \cup {i}
      /\ \A x : OnceIn(handler.due, x) => /\ OnceIn(Tail(handler.due), x)
                                          /\ (x = i => x \notin Items(Tail(handler.due)))
  BY <1>1, <1>2, ItemsOfTail
<1>4. /\ rest \in HandlerType /\ rest.pc = "dispatch" /\ rest.due = Tail(handler.due)
      /\ rest.wake = handler.wake
  BY <1>1, <1>2, <1>3 DEF HandlerType
<1>5. fate[i] # "new"
  BY <1>3 DEF DispatchInv, NewIsNowhere
<1>6. i \notin unsaved => sends[i] = 0 /\ i \notin Items(queue) /\ i \notin Items(Tail(handler.due))
  <2> SUFFICES ASSUME i \notin unsaved PROVE sends[i] = 0 /\ i \notin Items(queue) /\ i \notin Items(Tail(handler.due))
    OBVIOUS
  <2>1. QueuedOnce(queue, handler.due, sends, i)
    BY <1>3 DEF DispatchInv
  <2>2. sends[i] \in Nat
    BY <1>2, <1>3 DEF TypeOK
  <2> QED
    BY <1>3, <2>1, <2>2 DEF QueuedOnce
<1> DEFINE held == Held(queue, handler, jobs)
<1>7. CASE /\ ~ enabled /\ handler' = rest /\ Lose({i}, "blocked")
           /\ UNCHANGED <<queue, alarm, backoff, tokens, jobs, sends, armLost, failures>>
  <2>1. /\ fate' \in [Intents -> Fates]
        /\ \A x \in Intents :
             /\ fate'[x] = "new" => fate[x] = "new"
             /\ fate[x] = "done" => fate'[x] = "done"
             /\ fate'[x] = "live" => fate[x] = "live" /\ (x \in {i} => x \in Held(queue', handler', jobs'))
    <3>1. "blocked" \in Losses
      BY DEF Losses
    <3> HIDE DEF i
    <3> QED
      BY <1>2, <1>7, <3>1, LoseStep
  <2> HIDE DEF i, rest
  <2>2. TypeOK'
    BY <1>1, <1>2, <1>3, <1>4, <1>7, <2>1 DEF TypeOK
  <2>3. (jobs \subseteq JobType /\ handler \in HandlerType /\ NothingDueOutsideDrain /\ JobsDistinct /\ WakeIsScheduled)'
    BY <1>4, <1>7 DEF DispatchInv, NothingDueOutsideDrain, JobsDistinct, WakeIsScheduled
  <2>4. RememberedIsDone'
    BY <1>1, <2>1 DEF DispatchInv, RememberedIsDone
  <2>5. NewIsNowhere'
    BY <1>3, <1>4, <1>7, <2>1 DEF DispatchInv, NewIsNowhere
  <2>6. (\A x \in Intents \ unsaved : QueuedOnce(queue, handler.due, sends, x) /\ OrdersBacked(x))'
    BY <1>1, <1>3, <1>4, <1>7 DEF DispatchInv, OrdersBacked, QueuedOnce
  <2>7. LiveIntentHasAPlace'
    <3>1. \A x \in held : x # i => x \in Held(queue', handler', jobs')
      BY <1>3, <1>4, <1>7 DEF Held
    <3> QED
      BY <2>1, <2>2, <3>1 DEF DispatchInv, LiveIntentHasAPlace
  <2> QED
    BY <2>2, <2>3, <2>4, <2>5, <2>6, <2>7 DEF DispatchInv
<1>8. CASE /\ enabled /\ Reserve /\ tokens' = tokens - 1
           /\ \E s \in Isolates : jobs' = jobs \cup {Job(i, s)}
           /\ sends' = [sends EXCEPT ![i] = @ + 1]
           /\ handler' = [rest EXCEPT !.job = <<i, sends[i] + 1>>]
           /\ UNCHANGED <<queue, alarm, backoff, armLost, fate, failures>>
  <2>1. PICK s \in Isolates : jobs' = jobs \cup {Job(i, s)}
    BY <1>8
  <2> DEFINE j == Job(i, s)
  <2>2. /\ sends \in [Intents -> Nat] /\ sends' \in [Intents -> Nat]
        /\ sends'[i] = sends[i] + 1 /\ \A x \in Intents : x # i => sends'[x] = sends[x]
    <3>1. sends \in [Intents -> Nat] /\ sends' = [sends EXCEPT ![i] = @ + 1]
      BY <1>2, <1>8 DEF TypeOK
    <3> HIDE DEF i
    <3> QED
      BY <1>3, <3>1
  <2>3. /\ j \in JobType /\ j.intent = i /\ j.n = sends[i] + 1 /\ j.iso = s /\ j.pc = "arrived"
    BY <1>3, <2>2 DEF Job, JobType
  <2>4. /\ handler' \in HandlerType /\ handler'.pc = "dispatch" /\ handler'.due = Tail(handler.due)
        /\ handler'.wake = handler.wake
    BY <1>3, <1>4, <1>8, <2>2 DEF HandlerType
  <2> HIDE DEF i, rest, j
  <2>5. jobs' = jobs \cup {j}
    BY <2>1 DEF j
  <2>6. tokens' \in 0..Capacity
    BY <1>2, <1>8 DEF TypeOK, Reserve
  <2>7. ASSUME NEW k \in jobs'
        PROVE  /\ k.intent \in Intents /\ k.iso \in Isolates /\ k.n \in 1..sends'[k.intent]
               /\ k.pc \in {"arrived", "working", "placed"}
    <3>1. CASE k = j
      BY <1>3, <2>2, <2>3, <3>1
    <3>2. CASE k \in jobs
      <4>1. k.intent \in Intents /\ k.iso \in Isolates /\ k.n \in 1..sends[k.intent]
            /\ k.pc \in {"arrived", "working", "placed"}
        BY <1>2, <3>2 DEF TypeOK
      <4>2. sends[k.intent] \in Nat /\ sends'[k.intent] \in Nat /\ sends[k.intent] <= sends'[k.intent]
        BY <2>2, <4>1
      <4> QED
        BY <4>1, <4>2
    <3> QED
      BY <2>5, <3>1, <3>2
  <2>8. TypeOK'
    BY <1>1, <1>2, <1>3, <1>8, <2>2, <2>4, <2>6, <2>7 DEF TypeOK
  <2>9. (jobs \subseteq JobType /\ NothingDueOutsideDrain /\ RememberedIsDone /\ WakeIsScheduled)'
    BY <1>1, <1>8, <2>3, <2>4, <2>5 DEF DispatchInv, NothingDueOutsideDrain, RememberedIsDone, WakeIsScheduled
  <2>10. JobsDistinct'
    <3>1. \A k \in jobs : k.intent = i => k.n # j.n
      <4>1. \A k \in jobs : k.intent = i => k.n \in 1..sends[i]
        BY <1>2 DEF TypeOK
      <4>2. sends[i] \in Nat
        BY <1>3, <2>2
      <4> QED
        BY <2>3, <4>1, <4>2
    <3> QED
      BY <2>3, <2>5, <3>1 DEF DispatchInv, JobsDistinct
  <2>11. NewIsNowhere'
    BY <1>3, <1>5, <1>8, <2>2, <2>4 DEF DispatchInv, NewIsNowhere
  <2>12. ASSUME NEW x \in Intents \ unsaved'
         PROVE  QueuedOnce(queue', handler'.due, sends', x) /\ OrdersBacked(x)'
    <3>1. x \in Intents \ unsaved /\ QueuedOnce(queue, handler.due, sends, x) /\ OrdersBacked(x)
          /\ orders[x] \in Nat
      BY <1>1, <1>2, <2>12 DEF DispatchInv, TypeOK
    <3>2. CASE x # i
      <4>1. QueuedOnce(queue', handler'.due, sends', x)
        BY <1>3, <1>8, <2>2, <2>4, <3>1, <3>2 DEF QueuedOnce
      <4>2. OrdersBacked(x)'
        BY <1>1, <2>2, <2>3, <2>5, <3>1, <3>2 DEF OrdersBacked
      <4> QED
        BY <4>1, <4>2
    <3>3. CASE x = i
      <4>1. sends[i] = 0 /\ sends'[i] = 1 /\ i \notin Items(queue) /\ i \notin Items(Tail(handler.due))
        BY <1>6, <2>2, <3>1, <3>3
      <4>2. QueuedOnce(queue', handler'.due, sends', x)
        BY <1>3, <1>8, <2>4, <3>1, <3>3, <4>1 DEF QueuedOnce
      <4>3. orders[i] = 0
        BY <3>1, <3>3, <4>1 DEF OrdersBacked
      <4>4. OrdersBacked(x)'
        BY <1>1, <3>3, <4>1, <4>3 DEF OrdersBacked
      <4> QED
        BY <4>2, <4>4
    <3> QED
      BY <3>2, <3>3
  <2>13. LiveIntentHasAPlace'
    <3>1. \A x \in held : x \in Held(queue', handler', jobs')
      BY <1>3, <1>8, <2>3, <2>4, <2>5 DEF Held
    <3> QED
      BY <1>8, <2>8, <3>1 DEF DispatchInv, LiveIntentHasAPlace
  <2> QED
    BY <2>4, <2>8, <2>9, <2>10, <2>11, <2>12, <2>13 DEF DispatchInv
<1>9. CASE /\ enabled /\ ~ Reserve /\ handler' = rest
           /\ UNCHANGED <<tokens, jobs, sends>>
           /\ Enqueue(<<i>>) /\ Lose({i} \cup Items(queue), EnqueueLoss(<<i>>))
  <2>1. Put(EnqueuePlan(queue, i, 1)) /\ (SetAlarm(Lower(1, Cap)) \/ SetAlarmFails)
    <3>1. Last(<<i>>) = i
      BY DEF Last
    <3> QED
      BY <1>9, <3>1 DEF Enqueue
  <2>2. /\ queue' \in Seq(Item) /\ Len(queue') <= QueueLimit
        /\ Items(queue) \subseteq Items(queue') /\ Items(queue') \subseteq Items(queue) \cup {i}
        /\ \A x : OnceIn(queue, x) /\ (x = i => x \notin Items(queue)) => OnceIn(queue', x)
        /\ alarm' \in None..Cap /\ backoff' \in 0..Backoff
        /\ armLost' \in BOOLEAN /\ failures' \in 0..MaxStorageFailures
        /\ (alarm' = None => armLost')
    <3> HIDE DEF i
    <3> QED
      BY <1>2, <1>3, <2>1, EnqueueStep
  <2> DEFINE lost == {i} \cup Items(queue)
  <2>3. /\ fate' \in [Intents -> Fates]
        /\ \A x \in Intents :
             /\ fate'[x] = "new" => fate[x] = "new"
             /\ fate[x] = "done" => fate'[x] = "done"
             /\ fate'[x] = "live" => fate[x] = "live" /\ (x \in lost => x \in Held(queue', handler', jobs'))
    <3>1. EnqueueLoss(<<i>>) \in Losses
      BY DEF EnqueueLoss, Losses
    <3>2. Lose(lost, EnqueueLoss(<<i>>))
      BY <1>9
    <3> HIDE DEF i, lost
    <3> QED
      BY <1>2, <3>1, <3>2, LoseStep
  <2> HIDE DEF i, rest
  <2>4. TypeOK'
    BY <1>1, <1>2, <1>3, <1>4, <1>9, <2>2, <2>3 DEF TypeOK
  <2>5. (jobs \subseteq JobType /\ handler \in HandlerType /\ NothingDueOutsideDrain /\ JobsDistinct /\ WakeIsScheduled)'
    BY <1>4, <1>9, <2>2 DEF DispatchInv, NothingDueOutsideDrain, JobsDistinct, WakeIsScheduled
  <2>6. RememberedIsDone'
    BY <1>1, <2>3 DEF DispatchInv, RememberedIsDone
  <2>7. NewIsNowhere'
    BY <1>3, <1>4, <1>5, <1>9, <2>2, <2>3 DEF DispatchInv, NewIsNowhere
  <2>8. ASSUME NEW x \in Intents \ unsaved'
        PROVE  QueuedOnce(queue', handler'.due, sends', x) /\ OrdersBacked(x)'
    <3>1. x \in Intents \ unsaved /\ QueuedOnce(queue, handler.due, sends, x) /\ OrdersBacked(x)
      BY <1>1, <2>8 DEF DispatchInv
    <3>2. OrdersBacked(x)'
      BY <1>1, <1>9, <3>1 DEF OrdersBacked
    <3>3. OnceIn(queue', x) /\ OnceIn(handler'.due, x)
      BY <1>3, <1>4, <1>6, <1>9, <2>2, <3>1 DEF QueuedOnce
    <3>4. CASE x # i
      BY <1>3, <1>4, <1>9, <2>2, <3>1, <3>2, <3>3, <3>4 DEF QueuedOnce
    <3>5. CASE x = i
      BY <1>3, <1>4, <1>6, <1>9, <2>2, <3>1, <3>2, <3>3, <3>5 DEF QueuedOnce
    <3> QED
      BY <3>4, <3>5
  <2>9. LiveIntentHasAPlace'
    <3>1. \A x \in held : x # i => x \in Held(queue', handler', jobs')
      BY <1>3, <1>4, <1>9, <2>2 DEF Held
    <3> QED
      BY <2>3, <2>4, <3>1 DEF DispatchInv, LiveIntentHasAPlace
  <2> QED
    BY <2>4, <2>5, <2>6, <2>7, <2>8, <2>9 DEF DispatchInv
<1> QED
  BY <1>7, <1>8, <1>9, Zenon DEF Dispatch

-----------------------------------------------------------------------------
(***************************************************************************)
(* An engine turn emits intents.                                           *)
(***************************************************************************)
\* The intents of a batch are distinct; the first n are sent.
LEMMA BatchParts ==
  ASSUME NEW b \in Batches, NEW n \in 0..Len(b)
  PROVE  LET sent == SubSeq(b, 1, n)
             denied == SubSeq(b, n + 1, Len(b))
         IN  /\ Len(b) \in Nat /\ \A k \in 1..Len(b) : b[k] \in Intents
             /\ \A k \in 1..n : k \in 1..Len(b) /\ sent[k] = b[k]
             /\ ToSet(sent) = {b[k] : k \in 1..n}
             /\ ToSet(b) = {b[k] : k \in 1..Len(b)}
             /\ \A k, l \in 1..n : sent[k] = sent[l] => k = l
             /\ denied # <<>> => /\ Last(denied) \in ToSet(b)
                                 /\ Last(denied) \notin ToSet(sent)
<1> DEFINE sent == SubSeq(b, 1, n)
           denied == SubSeq(b, n + 1, Len(b))
<1>1. PICK m \in 1..MaxBatch : b \in [1..m -> Intents]
  BY DEF Batches
<1>2. b \in Seq(Intents) /\ Len(b) = m /\ m \in Nat /\ n \in Nat /\ n <= m
  BY <1>1
<1>3. \A k, l \in 1..m : b[k] = b[l] => k = l
  BY <1>1 DEF Batches, IsInjective
<1>4. Len(sent) = n /\ \A k \in 1..n : k \in 1..m /\ sent[k] = b[k]
  BY <1>2
<1>5. sent \in Seq(Intents) /\ DOMAIN sent = 1..n
  BY <1>2, <1>4
<1>6. ToSet(sent) = {b[k] : k \in 1..n}
  BY <1>4, <1>5 DEF ToSet
<1>7. ToSet(b) = {b[k] : k \in 1..m}
  BY <1>1 DEF ToSet
<1>8. ASSUME denied # <<>> PROVE Last(denied) \in ToSet(b) /\ Last(denied) \notin ToSet(sent)
  <2>1. denied \in Seq(Intents) /\ Len(denied) \in Nat
    BY <1>2
  <2>2. Len(denied) >= 1
    BY <1>8, <2>1
  <2>3. n + 1 <= m /\ Len(denied) = m - n
    BY <1>2, <2>2
  <2>4. denied[m - n] = b[m]
    BY <1>2, <2>3
  <2>5. Last(denied) = b[m] /\ m \in 1..m /\ m \notin 1..n
    BY <1>2, <2>3, <2>4 DEF Last
  <2>6. \A k \in 1..n : b[k] # b[m]
    BY <1>3, <1>4, <2>5
  <2> QED
    BY <1>6, <1>7, <2>5, <2>6
<1>9. \A k, l \in 1..n : sent[k] = sent[l] => k = l
  BY <1>3, <1>4
<1>10. \A k \in 1..m : b[k] \in Intents
  BY <1>1
<1> HIDE DEF sent, denied
<1> QED
  BY <1>2, <1>4, <1>6, <1>7, <1>8, <1>9, <1>10 DEF sent, denied

LEMMA EmitKeeps ==
  ASSUME DispatchInv, NEW b \in Batches, Emit(b)
  PROVE  DispatchInv'
<1> DEFINE served == Lower(tokens, Len(b))
           sent == SubSeq(b, 1, served)
           denied == SubSeq(b, served + 1, Len(b))
           last == Last(denied)
<1>1. TypeOK /\ tokens \in 0..Capacity /\ sends \in [Intents -> Nat] /\ fate \in [Intents -> Fates]
  BY DEF DispatchInv, TypeOK
<1>2. Len(b) \in Nat
  BY DEF Batches
<1>3. served \in 0..Len(b) /\ served <= tokens
  BY <1>1, <1>2 DEF Lower
<1>4. /\ \A k \in 1..Len(b) : b[k] \in Intents
      /\ \A k \in 1..served : k \in 1..Len(b) /\ sent[k] = b[k]
      /\ ToSet(sent) = {b[k] : k \in 1..served}
      /\ ToSet(b) = {b[k] : k \in 1..Len(b)}
      /\ \A k, l \in 1..served : sent[k] = sent[l] => k = l
      /\ denied # <<>> => last \in ToSet(b) /\ last \notin ToSet(sent)
  <2> HIDE DEF served
  <2> QED
    BY <1>3, BatchParts
<1>5. /\ enabled /\ \A k \in 1..Len(b) : fate[b[k]] = "new"
      /\ tokens' = tokens - served
      /\ \E iso \in [1..served -> Isolates] : jobs' = jobs \cup {Job(sent[k], iso[k]) : k \in 1..served}
      /\ sends' = [x \in Intents |-> IF x \in ToSet(sent) THEN sends[x] + 1 ELSE sends[x]]
      /\ IF denied = <<>> THEN UNCHANGED <<queue, alarm, backoff, armLost, failures>> ELSE Enqueue(denied)
      /\ fate' = [x \in Intents |->
                    IF x \notin ToSet(b) THEN fate[x]
                    ELSE IF x \in ToSet(sent) \/ x \in Items(queue') THEN "live"
                    ELSE EnqueueLoss(denied)]
      /\ UNCHANGED <<enabled, handler, ledger, orders, unsaved, crashes>>
  BY DEF Emit
<1>6. PICK iso \in [1..served -> Isolates] : jobs' = jobs \cup {Job(sent[k], iso[k]) : k \in 1..served}
  BY <1>5
<1>7. ASSUME denied # <<>>
      PROVE  Put(EnqueuePlan(queue, last, 1)) /\ (SetAlarm(Lower(1, Cap)) \/ SetAlarmFails)
  BY <1>5, <1>7 DEF Enqueue
<1>8. EnqueueLoss(denied) \in Losses
  BY DEF EnqueueLoss, Losses
<1> HIDE DEF served, sent, denied, last
<1>9. ToSet(b) \subseteq Intents /\ ToSet(sent) \subseteq ToSet(b)
  BY <1>4
<1>10. \A x \in ToSet(b) : fate[x] = "new"
  BY <1>4, <1>5
<1>11. \A x \in ToSet(b) : sends[x] = 0 /\ x \notin Items(queue) /\ x \notin Items(handler.due)
  BY <1>9, <1>10 DEF DispatchInv, NewIsNowhere
<1>12. /\ queue' \in Seq(Item) /\ Len(queue') <= QueueLimit
       /\ Items(queue) \subseteq Items(queue')
       /\ \A x \in Items(queue') : x \notin Items(queue) => x \in ToSet(b) \ ToSet(sent)
       /\ \A x : OnceIn(queue, x) => OnceIn(queue', x)
       /\ alarm' \in None..Cap /\ backoff' \in 0..Backoff
       /\ armLost' \in BOOLEAN /\ failures' \in 0..MaxStorageFailures
       /\ (alarm' = None => armLost' \/ (alarm = None /\ armLost' = armLost))
  <2>1. CASE denied = <<>>
    <3>1. UNCHANGED <<queue, alarm, backoff, armLost, failures>>
      BY <1>5, <2>1
    <3> QED
      BY <1>1, <3>1 DEF TypeOK
  <2>2. CASE denied # <<>>
    <3>1. last \in ToSet(b) /\ last \notin ToSet(sent) /\ last \in Intents /\ last \notin Items(queue)
      BY <1>4, <1>9, <1>11, <2>2
    <3>2. /\ queue' \in Seq(Item) /\ Len(queue') <= QueueLimit
          /\ Items(queue) \subseteq Items(queue') /\ Items(queue') \subseteq Items(queue) \cup {last}
          /\ \A x : OnceIn(queue, x) /\ (x = last => x \notin Items(queue)) => OnceIn(queue', x)
          /\ alarm' \in None..Cap /\ backoff' \in 0..Backoff
          /\ armLost' \in BOOLEAN /\ failures' \in 0..MaxStorageFailures
          /\ (alarm' = None => armLost')
      BY <1>1, <1>7, <2>2, <3>1, EnqueueStep
    <3>3. \A x \in Items(queue') : x \notin Items(queue) => x \in ToSet(b) \ ToSet(sent)
      BY <3>1, <3>2
    <3>4. \A x : OnceIn(queue, x) => OnceIn(queue', x)
      BY <3>1, <3>2
    <3> QED
      BY <3>2, <3>3, <3>4, Zenon
  <2> QED
    BY <2>1, <2>2
<1>13. /\ sends' \in [Intents -> Nat]
       /\ \A x \in ToSet(sent) : sends'[x] = 1
       /\ \A x \in Intents \ ToSet(sent) : sends'[x] = sends[x]
  BY <1>1, <1>5, <1>9, <1>11
<1>14. ASSUME NEW j \in jobs', j \notin jobs
       PROVE  /\ j \in JobType /\ j.intent \in ToSet(sent) /\ j.n = 1 /\ j.pc = "arrived"
              /\ j.iso \in Isolates
              /\ \E k \in 1..served : j = Job(sent[k], iso[k])
  <2>1. PICK k \in 1..served : j = Job(sent[k], iso[k])
    BY <1>6, <1>14
  <2>2. sent[k] \in ToSet(sent) /\ sent[k] \in Intents /\ sends[sent[k]] = 0 /\ iso[k] \in Isolates
    BY <1>4, <1>6, <1>9, <1>11
  <2> QED
    BY <2>1, <2>2 DEF Job, JobType
<1>15. \A x \in ToSet(sent) : \E j \in jobs' : j.intent = x
  <2>1. ASSUME NEW k \in 1..served PROVE \E j \in jobs' : j.intent = sent[k]
    <3>1. Job(sent[k], iso[k]) \in jobs'
      BY <1>6
    <3> QED
      BY <3>1 DEF Job
  <2> QED
    BY <1>4, <2>1
<1>16. jobs \subseteq jobs'
  BY <1>6
<1>17. \A j \in jobs : j.intent \notin ToSet(sent)
  <2>1. \A j \in jobs : j.intent \in Intents /\ j.n \in 1..sends[j.intent]
    BY <1>1 DEF TypeOK
  <2> QED
    BY <1>9, <1>11, <2>1
<1>18. /\ fate' \in [Intents -> Fates]
       /\ \A x \in Intents : fate'[x] = "new" => x \notin ToSet(b) /\ fate[x] = "new"
       /\ \A x \in Intents : fate[x] = "done" => fate'[x] = "done"
       /\ \A x \in Intents : fate'[x] = "live" =>
            fate[x] = "live" \/ x \in ToSet(sent) \/ x \in Items(queue')
  <2>1. /\ EnqueueLoss(denied) \in Fates /\ EnqueueLoss(denied) \notin {"new", "live", "done"}
        /\ "live" \in Fates
    BY <1>8 DEF Losses, Fates
  <2> QED
    BY <1>1, <1>5, <1>10, <2>1
<1>19. tokens' \in 0..Capacity
  BY <1>1, <1>3, <1>5
<1>20. ASSUME NEW j \in jobs'
       PROVE  /\ j.intent \in Intents /\ j.iso \in Isolates /\ j.n \in 1..sends'[j.intent]
              /\ j.pc \in {"arrived", "working", "placed"}
  <2>1. CASE j \in jobs
    <3>1. j.intent \in Intents /\ j.iso \in Isolates /\ j.n \in 1..sends[j.intent]
          /\ j.pc \in {"arrived", "working", "placed"}
      BY <1>1, <2>1 DEF TypeOK
    <3>2. sends'[j.intent] = sends[j.intent]
      BY <1>13, <1>17, <2>1, <3>1
    <3> QED
      BY <3>1, <3>2
  <2>2. CASE j \notin jobs
    <3>1. j.intent \in ToSet(sent) /\ j.n = 1 /\ j.pc = "arrived" /\ j.iso \in Isolates
      BY <1>14, <2>2
    <3>2. sends'[j.intent] = 1
      BY <1>13, <3>1
    <3> QED
      BY <1>9, <3>1, <3>2
  <2> QED
    BY <2>1, <2>2
<1>21. TypeOK'
  BY <1>1, <1>5, <1>12, <1>13, <1>18, <1>19, <1>20 DEF TypeOK
<1>22. (jobs \subseteq JobType)'
  BY <1>14 DEF DispatchInv
<1>23. (handler \in HandlerType /\ NothingDueOutsideDrain)'
  BY <1>5 DEF DispatchInv, NothingDueOutsideDrain
<1>24. RememberedIsDone'
  BY <1>5, <1>18 DEF DispatchInv, RememberedIsDone
<1>25. NewIsNowhere'
  BY <1>5, <1>9, <1>12, <1>13, <1>18 DEF DispatchInv, NewIsNowhere
<1>26. JobsDistinct'
  <2> SUFFICES ASSUME NEW j \in jobs', NEW k \in jobs', j.intent = k.intent, j.n = k.n
               PROVE  j = k
    BY DEF JobsDistinct
  <2>1. CASE j \in jobs /\ k \in jobs
    BY <2>1 DEF DispatchInv, JobsDistinct
  <2>2. CASE j \notin jobs /\ k \notin jobs
    <3>1. PICK u \in 1..served : j = Job(sent[u], iso[u])
      BY <1>14, <2>2
    <3>2. PICK v \in 1..served : k = Job(sent[v], iso[v])
      BY <1>14, <2>2
    <3>3. sent[u] = sent[v]
      BY <3>1, <3>2 DEF Job
    <3>4. u = v
      BY <1>4, <3>3
    <3> QED
      BY <3>1, <3>2, <3>4
  <2>3. CASE ~ (j \in jobs <=> k \in jobs)
    BY <1>14, <1>17, <2>3
  <2> QED
    BY <2>1, <2>2, <2>3
<1>27. ASSUME NEW x \in Intents \ unsaved'
       PROVE  QueuedOnce(queue', handler'.due, sends', x) /\ OrdersBacked(x)'
  <2>1. /\ x \in Intents \ unsaved /\ QueuedOnce(queue, handler.due, sends, x) /\ OrdersBacked(x)
        /\ orders[x] \in Nat /\ handler' = handler /\ orders' = orders
    BY <1>1, <1>5, <1>27 DEF DispatchInv, TypeOK
  <2>2. OnceIn(queue', x) /\ OnceIn(handler'.due, x)
    BY <1>12, <2>1 DEF QueuedOnce
  <2>3. ~ (x \in Items(queue') /\ x \in Items(handler'.due))
    BY <1>11, <1>12, <2>1 DEF QueuedOnce
  <2>4. CASE x \in ToSet(sent)
    <3>1. sends'[x] = 1 /\ sends[x] = 0 /\ x \notin Items(queue') /\ x \notin Items(handler'.due)
      BY <1>9, <1>11, <1>12, <1>13, <2>1, <2>4
    <3>2. orders[x] = 0
      BY <2>1, <3>1 DEF OrdersBacked
    <3> QED
      BY <2>1, <2>2, <3>1, <3>2 DEF QueuedOnce, OrdersBacked
  <2>5. CASE x \notin ToSet(sent)
    <3>1. sends'[x] = sends[x]
      BY <1>13, <2>1, <2>5
    <3>2. sends'[x] = 1 => x \notin Items(queue') \cup Items(handler'.due)
      <4> SUFFICES ASSUME sends'[x] = 1 PROVE x \notin Items(queue') \cup Items(handler'.due)
        OBVIOUS
      <4>1. sends[x] = 1 /\ x \notin ToSet(b)
        BY <1>11, <3>1
      <4>2. x \notin Items(queue) \cup Items(handler.due)
        BY <2>1, <4>1 DEF QueuedOnce
      <4> QED
        BY <1>12, <2>1, <4>1, <4>2
    <3>3. QueuedOnce(queue', handler'.due, sends', x)
      BY <2>1, <2>2, <2>3, <3>1, <3>2 DEF QueuedOnce
    <3>4. OrdersBacked(x)'
      BY <1>14, <2>1, <2>5, <3>1 DEF OrdersBacked
    <3> QED
      BY <3>3, <3>4
  <2> QED
    BY <2>4, <2>5
<1>28. LiveIntentHasAPlace'
  <2>1. \A x \in Held(queue, handler, jobs) : x \in Held(queue', handler', jobs')
    BY <1>5, <1>12, <1>16 DEF Held
  <2>2. \A x \in ToSet(sent) : x \in Held(queue', handler', jobs')
    BY <1>15 DEF Held
  <2>3. \A x \in Items(queue') : x \in Held(queue', handler', jobs')
    BY DEF Held
  <2> QED
    BY <1>18, <1>21, <2>1, <2>2, <2>3 DEF DispatchInv, LiveIntentHasAPlace
<1>29. WakeIsScheduled'
  BY <1>5, <1>12 DEF DispatchInv, WakeIsScheduled
<1> QED
  BY <1>21, <1>22, <1>23, <1>24, <1>25, <1>26, <1>27, <1>28, <1>29 DEF DispatchInv

-----------------------------------------------------------------------------
LEMMA StutterKeepsDispatch ==
  ASSUME DispatchInv, UNCHANGED vars
  PROVE  DispatchInv'
<1>1. UNCHANGED <<queue, alarm, backoff, tokens, enabled, handler, jobs, ledger, sends, orders,
                  fate, unsaved, armLost, failures, crashes>>
  BY DEF vars, engineVars, workerVars, historyVars
<1> QED
  BY <1>1 DEF DispatchInv, TypeOK, NothingDueOutsideDrain, RememberedIsDone, NewIsNowhere, JobsDistinct,
              QueuedOnce, OrdersBacked, LiveIntentHasAPlace, WakeIsScheduled

LEMMA NextKeepsDispatch ==
  ASSUME DispatchInv, [Next]_vars
  PROVE  DispatchInv'
<1>1. ASSUME NEW b \in Batches, Emit(b) PROVE DispatchInv'
  BY <1>1, EmitKeeps
<1>2. ASSUME NEW i \in Intents, EmitBlocked(i) PROVE DispatchInv'
  BY <1>2, EmitBlockedKeeps
<1>3. CASE AlarmFires
  BY <1>3, AlarmFiresKeeps
<1>4. CASE HandlerStep
  BY <1>4, DrainKeeps, DispatchKeeps, SetNextWakeKeeps, FinishKeeps DEF HandlerStep
<1>5. CASE EngineRestarts
  BY <1>5, EngineRestartsKeeps
<1>6. CASE StorageFails
  BY <1>6, StorageFailsKeeps
<1>7. ASSUME NEW j \in jobs, JobStep(j) PROVE DispatchInv'
  <2>1. CASE Replay(j)
    BY <2>1, ReplayKeeps
  <2>2. CASE RateLimited(j)
    BY <2>2, RateLimitedKeeps
  <2>3. CASE Proceed(j)
    BY <2>3, ProceedKeeps
  <2>4. CASE Refuse(j)
    BY <2>4, ConcludeKeeps DEF Refuse
  <2>5. CASE Place(j)
    BY <2>5, PlaceKeeps
  <2>6. CASE Respond(j)
    BY <2>6, ConcludeKeeps DEF Respond
  <2> QED
    BY <1>7, <2>1, <2>2, <2>3, <2>4, <2>5, <2>6 DEF JobStep
<1>8. ASSUME NEW s \in Isolates, IsolateEvicted(s) PROVE DispatchInv'
  BY <1>8, IsolateEvictedKeeps
<1>9. CASE Tick
  BY <1>9, TickKeeps
<1>10. CASE UNCHANGED vars
  BY <1>10, StutterKeepsDispatch
<1> QED
  BY <1>1, <1>2, <1>3, <1>4, <1>5, <1>6, <1>7, <1>8, <1>9, <1>10 DEF Next

LEMMA SpecDispatchInv ==
  Spec => []DispatchInv
<1>1. DispatchInv /\ [Next]_vars => DispatchInv'
  BY NextKeepsDispatch
<1> QED
  BY <1>1, InitDispatchInv, PTL DEF Spec

(***************************************************************************)
(* An intent reaches the exchange at most once unless a drain took it from *)
(* the queue without storing what it left (the write guard of              *)
(* applyExecutionQueueDrainSideEffects skipped the write).                 *)
(***************************************************************************)
THEOREM IntentsAreOrderedOnce ==
  Spec => []SecondOrderNeedsUnsavedDrain
<1>1. DispatchInv => SecondOrderNeedsUnsavedDrain
  <2> SUFFICES ASSUME DispatchInv, NEW i \in Intents, i \notin unsaved PROVE ~ (orders[i] > 1)
    BY DEF SecondOrderNeedsUnsavedDrain
  <2>1. orders[i] \in Nat /\ sends[i] \in Nat /\ orders[i] <= sends[i] /\ sends[i] <= 1
    BY DEF DispatchInv, TypeOK, QueuedOnce, OrdersBacked
  <2> QED
    BY <2>1
<1> QED
  BY <1>1, SpecDispatchInv, PTL

(***************************************************************************)
(* A live intent is in the stored queue, the running drain or the worker,  *)
(* and every variable of the queue and the worker is of its type.          *)
(***************************************************************************)
THEOREM LiveIntentsKeepTheirPlace ==
  Spec => []LiveIntentHasAPlace
<1>1. DispatchInv => LiveIntentHasAPlace
  BY DEF DispatchInv
<1> QED
  BY <1>1, SpecDispatchInv, PTL

(***************************************************************************)
(* Between runs of its alarm handler the engine has an alarm, unless the   *)
(* write guard skipped the last alarm write.                               *)
(***************************************************************************)
THEOREM TheEngineHasItsAlarm ==
  Spec => []WakeIsScheduled
<1>1. DispatchInv => WakeIsScheduled
  BY DEF DispatchInv
<1> QED
  BY <1>1, SpecDispatchInv, PTL

-----------------------------------------------------------------------------
HIDE DispatchAssumption
USE OrdersAssumption

(***************************************************************************)
(* Part 2: OrderReconciliation.  It uses nothing of part 1.  The exchange  *)
(* ex, the reports rs under way, a position p and an                       *)
(* order map b, and how they fit together.                                 *)
(***************************************************************************)
ExchangeType == [Orders -> [st : {"none", "sent", "open", "filled", "closed"}, filled : 0..Size]]
ReportType == [order : Orders, client : Keys, ex : {"none"} \cup Keys,
               status : Statuses, filled : 0..Size]
BookType == [Orders -> [Keys -> Entry]]

Unplaced(ex, o) == ex[o].st \in {"none", "sent"}
FillsAmong(rs) == {r \in rs : r.status \in FillReports}

\* An unplaced order has no fills, an open one is not filled completely.
Consistent(ex) ==
  \A o \in Orders :
    /\ Unplaced(ex, o) => ex[o].filled = 0
    /\ ex[o].st = "open" => ex[o].filled < Size

\* An order has at most one report of fills, and the exchange has those fills.
ReportedOnce(ex, rs) ==
  \A r \in FillsAmong(rs) :
    /\ ~ Unplaced(ex, r.order) /\ r.filled <= ex[r.order].filled
    /\ \A q \in FillsAmong(rs) : q.order = r.order => q = r

\* A position is a sum of fills, none of an order whose report is under way.
Accounts(p, ex, rs) ==
  \E f \in [Orders -> 0..Size] :
    /\ p = Total(f)
    /\ \A o \in Orders : f[o] <= ex[o].filled
    /\ \A r \in FillsAmong(rs) : f[r.order] = 0

\* An order map has no fills of an order whose report is to come.
Fresh(b, ex, rs) ==
  \A o \in Orders :
    Unplaced(ex, o) \/ (\E r \in FillsAmong(rs) : r.order = o) =>
      \A k \in Keys : b[o][k].filled = 0

\* The exchange fills and closes orders; a report of fills is about an order placed now.
Moves(ex, rs, ex2, rs2) ==
  /\ \A o \in Orders : ex[o].filled <= ex2[o].filled /\ (Unplaced(ex2, o) => Unplaced(ex, o))
  /\ \A r \in FillsAmong(rs2) \ rs :
       /\ Unplaced(ex, r.order) /\ ~ Unplaced(ex2, r.order) /\ r.filled <= ex2[r.order].filled
       /\ \A q \in FillsAmong(rs2) \ rs : q = r

LEMMA MovesKeep ==
  ASSUME NEW ex \in ExchangeType, NEW ex2 \in ExchangeType,
         NEW rs \in SUBSET ReportType, NEW rs2 \in SUBSET ReportType,
         Consistent(ex), ReportedOnce(ex, rs), Moves(ex, rs, ex2, rs2)
  PROVE  /\ ReportedOnce(ex2, rs2)
         /\ \A p : Accounts(p, ex, rs) => Accounts(p, ex2, rs2)
         /\ \A b : Fresh(b, ex, rs) => Fresh(b, ex2, rs2)
<1>1. \A r \in FillsAmong(rs2) : r.order \in Orders /\ r.filled \in 0..Size
  BY DEF FillsAmong, ReportType
<1>2. \A o \in Orders : ex[o].filled \in 0..Size /\ ex2[o].filled \in 0..Size
  BY DEF ExchangeType
<1>3. \A r \in FillsAmong(rs2) : r \in rs => r \in FillsAmong(rs)
  BY DEF FillsAmong
<1>4. ReportedOnce(ex2, rs2)
  <2> SUFFICES ASSUME NEW r \in FillsAmong(rs2)
               PROVE  /\ ~ Unplaced(ex2, r.order) /\ r.filled <= ex2[r.order].filled
                      /\ \A q \in FillsAmong(rs2) : q.order = r.order => q = r
    BY DEF ReportedOnce
  <2>1. CASE r \in rs
    <3>1. /\ ~ Unplaced(ex, r.order) /\ r.filled <= ex[r.order].filled
          /\ \A q \in FillsAmong(rs) : q.order = r.order => q = r
      BY <1>3, <2>1 DEF ReportedOnce
    <3>2. ~ Unplaced(ex2, r.order) /\ r.filled <= ex2[r.order].filled
      BY <1>1, <1>2, <3>1 DEF Moves
    <3>3. \A q \in FillsAmong(rs2) : q.order = r.order => q = r
      BY <1>3, <3>1 DEF Moves
    <3> QED
      BY <3>2, <3>3
  <2>2. CASE r \notin rs
    <3>1. Unplaced(ex, r.order) /\ ~ Unplaced(ex2, r.order) /\ r.filled <= ex2[r.order].filled
      BY <2>2 DEF Moves
    <3>2. ASSUME NEW q \in FillsAmong(rs2), q.order = r.order PROVE q = r
      <4>1. q \notin rs
        BY <1>3, <3>1, <3>2 DEF ReportedOnce
      <4> QED
        BY <2>2, <4>1 DEF Moves
    <3> QED
      BY <3>1, <3>2
  <2> QED
    BY <2>1, <2>2
<1>5. ASSUME NEW p, Accounts(p, ex, rs) PROVE Accounts(p, ex2, rs2)
  <2>1. PICK f \in [Orders -> 0..Size] :
          /\ p = Total(f)
          /\ \A o \in Orders : f[o] <= ex[o].filled
          /\ \A r \in FillsAmong(rs) : f[r.order] = 0
    BY <1>5 DEF Accounts
  <2>2. \A o \in Orders : f[o] <= ex2[o].filled
    BY <1>2, <2>1 DEF Moves
  <2>3. ASSUME NEW r \in FillsAmong(rs2) PROVE f[r.order] = 0
    <3>1. CASE r \in rs
      BY <1>3, <2>1, <3>1
    <3>2. CASE r \notin rs
      <4>1. ex[r.order].filled = 0 /\ r.order \in Orders
        BY <1>1, <3>2 DEF Moves, Consistent
      <4> QED
        BY <2>1, <4>1
    <3> QED
      BY <3>1, <3>2
  <2> QED
    BY <2>1, <2>2, <2>3 DEF Accounts
<1>6. ASSUME NEW b, Fresh(b, ex, rs) PROVE Fresh(b, ex2, rs2)
  <2> SUFFICES ASSUME NEW o \in Orders,
                      Unplaced(ex2, o) \/ \E r \in FillsAmong(rs2) : r.order = o
               PROVE  \A k \in Keys : b[o][k].filled = 0
    BY DEF Fresh
  <2>1. Unplaced(ex, o) \/ \E r \in FillsAmong(rs) : r.order = o
    BY <1>3 DEF Moves
  <2> QED
    BY <1>6, <2>1 DEF Fresh
<1> QED
  BY <1>4, <1>5, <1>6

\* A position is within what the exchange has filled.
LEMMA AccountsWithin ==
  ASSUME NEW p, NEW ex \in ExchangeType, NEW rs, Accounts(p, ex, rs)
  PROVE  p \in Nat /\ p <= Total([o \in Orders |-> ex[o].filled])
<1>1. PICK f \in [Orders -> 0..Size] : p = Total(f) /\ \A o \in Orders : f[o] <= ex[o].filled
  BY DEF Accounts
<1> DEFINE g == [o \in Orders |-> ex[o].filled]
<1>2. DOMAIN f = Orders /\ DOMAIN g = Orders
  OBVIOUS
<1>3. \A o \in Orders : f[o] \in Nat /\ g[o] \in Nat /\ f[o] <= g[o]
  BY <1>1 DEF ExchangeType
<1> HIDE DEF g
<1>4. SumOver(f, Orders) \in Nat
  BY <1>3, SumOverNat
<1>5. SumOver(f, Orders) <= SumOver(g, Orders)
  BY <1>3, SumOverMonotone
<1> QED
  BY <1>1, <1>2, <1>4, <1>5 DEF Total, g

\* A report of fills is booked: the position grows by at most what it reports.
LEMMA AccountsGrow ==
  ASSUME NEW p, NEW ex \in ExchangeType, NEW rs \in SUBSET ReportType, Accounts(p, ex, rs),
         ReportedOnce(ex, rs), NEW r \in FillsAmong(rs), NEW d \in Nat, d <= r.filled
  PROVE  Accounts(p + d, ex, rs \ {r})
<1>1. PICK f \in [Orders -> 0..Size] :
        /\ p = Total(f)
        /\ \A o \in Orders : f[o] <= ex[o].filled
        /\ \A q \in FillsAmong(rs) : f[q.order] = 0
  BY DEF Accounts
<1>2. r.order \in Orders /\ r.filled \in 0..Size /\ r.filled <= ex[r.order].filled
  BY DEF FillsAmong, ReportType, ReportedOnce
<1>3. ex[r.order].filled \in 0..Size /\ f[r.order] = 0
  BY <1>1, <1>2 DEF ExchangeType
<1> DEFINE g == [f EXCEPT ![r.order] = d]
<1>4. g \in [Orders -> 0..Size] /\ DOMAIN f = Orders /\ DOMAIN g = Orders
  BY <1>2
<1>5. \A o \in Orders : g[o] <= ex[o].filled
  BY <1>1, <1>2, <1>3
<1>6. \A q \in FillsAmong(rs \ {r}) : g[q.order] = 0
  <2> TAKE q \in FillsAmong(rs \ {r})
  <2>1. q \in FillsAmong(rs) /\ q # r /\ q.order \in Orders
    BY DEF FillsAmong, ReportType
  <2>2. q.order # r.order
    BY <2>1 DEF ReportedOnce
  <2> QED
    BY <1>1, <2>1, <2>2
<1>7. g[r.order] = d /\ \A o \in Orders : o # r.order => g[o] = f[o]
  BY <1>2
<1> HIDE DEF g
<1>8. \A o \in Orders : f[o] \in Int /\ g[o] \in Int
  BY <1>4
<1>9. SumOver(g, Orders) = SumOver(f, Orders) + g[r.order] - f[r.order]
  <2>1. PICK j \in Orders : j = r.order
    BY <1>2
  <2>2. \A o \in Orders : o # j => g[o] = f[o]
    BY <1>7, <2>1
  <2>3. SumOver(g, Orders) = SumOver(f, Orders) + g[j] - f[j]
    BY <1>8, <2>2, SumOverChange
  <2> QED
    BY <2>1, <2>3
<1>10. SumOver(f, Orders) \in Int
  BY <1>8, SumOverInt
<1>11. Total(g) = p + d
  BY <1>1, <1>3, <1>4, <1>7, <1>9, <1>10 DEF Total
<1> QED
  BY <1>4, <1>5, <1>6, <1>11 DEF Accounts

(***************************************************************************)
(* Part 3: its invariant.                                                  *)
(***************************************************************************)
\* What a running maintenance holds.
JanitorTyped ==
  /\ janitor.pc # "idle" => janitor.book \in BookType /\ janitor.position \in Nat
  /\ janitor.pc = "fetch" => janitor.zombies \subseteq Orders
  /\ janitor.pc = "cancel" => janitor.requests \subseteq Orders \X Keys

\* The stored state is one the engine had in memory.
StoredInv ==
  /\ Accounts(stored.position, exchange, reports)
  /\ touched = {} => Fresh(stored.book, exchange, reports)

OrdersInv ==
  /\ StoredInv
  /\ OrdersTypeOK /\ JanitorTyped /\ Consistent(exchange) /\ ReportedOnce(exchange, reports)
  /\ Accounts(position, exchange, reports)
  /\ janitor.pc # "idle" => Accounts(janitor.position, exchange, reports)
  /\ touched = {} => Fresh(book, exchange, reports)
  /\ touched = {} /\ janitor.pc # "idle" => Fresh(janitor.book, exchange, reports)
  /\ PositionMatchesReports

LEMMA InitOrdersInv == OrdersInit => OrdersInv
<1> SUFFICES ASSUME OrdersInit PROVE OrdersInv
  OBVIOUS
<1>1. /\ \A o \in Orders : exchange[o].st = "none" /\ exchange[o].filled = 0
      /\ \A o \in Orders : \A k \in Keys : book[o][k].filled = 0
      /\ reports = {} /\ janitor.pc = "idle" /\ position = 0 /\ delivered = 0
  BY DEF OrdersInit, NoEntry, NoJanitor
<1>0. stored.book = book /\ stored.position = position /\ stored = [book |-> book, position |-> position]
  BY DEF OrdersInit, Memory
<1>2. OrdersTypeOK
  <2>1. NoEntry \in Entry
    BY DEF NoEntry, Entry
  <2>2. exchange \in [Orders -> [st : {"none", "sent", "open", "filled", "closed"}, filled : 0..Size]]
    BY DEF OrdersInit
  <2>3. book \in [Orders -> [Keys -> Entry]]
    BY <2>1 DEF OrdersInit
  <2>4. rolledBack \in BOOLEAN /\ adapter \in Adapters
    BY Zenon DEF OrdersInit
  <2>5. stored \in [book : [Orders -> [Keys -> Entry]], position : Nat]
    BY <1>0, <1>1, <2>3
  <2> QED
    BY <1>1, <2>2, <2>3, <2>4, <2>5 DEF OrdersInit, OrdersTypeOK
<1>3. Accounts(position, exchange, reports)
  <2> DEFINE f == [o \in Orders |-> 0]
  <2>1. SumOver(f, Orders) = 0
    BY SumOverZero
  <2>2. f \in [Orders -> 0..Size] /\ DOMAIN f = Orders /\ \A o \in Orders : f[o] = 0
    OBVIOUS
  <2> HIDE DEF f
  <2>3. FillsAmong(reports) = {} /\ Total(f) = 0
    BY <1>1, <2>1, <2>2 DEF FillsAmong, Total
  <2> QED
    BY <1>1, <2>2, <2>3 DEF Accounts
<1>4. Consistent(exchange) /\ ReportedOnce(exchange, reports) /\ Fresh(book, exchange, reports)
  BY <1>1 DEF Consistent, ReportedOnce, Fresh, FillsAmong, Unplaced
<1> QED
  BY <1>0, <1>1, <1>2, <1>3, <1>4
     DEF OrdersInv, StoredInv, JanitorTyped, PositionMatchesReports

\* The types in the words of part 1.
LEMMA OrderTypes ==
  ASSUME OrdersTypeOK
  PROVE  /\ exchange \in ExchangeType /\ reports \in SUBSET ReportType /\ book \in BookType
         /\ position \in Nat /\ delivered \in Nat
         /\ stored.book \in BookType /\ stored.position \in Nat
         /\ \A o \in Orders : exchange[o].filled \in 0..Size
         /\ \A o \in Orders : \A k \in Keys : book[o][k] \in Entry
BY DEF OrdersTypeOK, ExchangeType, ReportType, BookType

\* A write through the guard stores the new state, or nothing.
LEMMA GuardedPutKeeps ==
  ASSUME OrdersInv, GuardedPut, position' \in Nat, book' \in BookType,
         touched' = {} => touched = {},
         Accounts(stored.position, exchange', reports'), Accounts(position', exchange', reports'),
         touched = {} => Fresh(stored.book, exchange', reports'),
         touched' = {} => Fresh(book', exchange', reports')
  PROVE  StoredInv' /\ stored' \in [book : [Orders -> [Keys -> Entry]], position : Nat]
<1>1. CASE stored' = stored
  BY <1>1 DEF StoredInv, OrdersInv, OrdersTypeOK
<1>2. CASE stored' = Memory'
  <2>1. stored' = [book |-> book', position |-> position']
    BY <1>2 DEF Memory
  <2>2. stored'.book = book' /\ stored'.position = position'
    BY <2>1
  <2> QED
    BY <2>1, <2>2 DEF StoredInv, BookType
<1> QED
  BY <1>1, <1>2 DEF GuardedPut

\* What is left to show of a step of the exchange, which leaves the engine alone.
LEMMA ExchangeStep ==
  ASSUME OrdersInv, OrdersTypeOK', JanitorTyped', Consistent(exchange'),
         Moves(exchange, reports, exchange', reports'),
         UNCHANGED <<book, position, stored, touched, delivered, rolledBack>>,
         \/ janitor' = janitor
         \/ /\ janitor'.pc # "idle" => janitor.pc # "idle"
            /\ janitor'.book = janitor.book /\ janitor'.position = janitor.position
  PROVE  OrdersInv'
<1>1. /\ exchange \in ExchangeType /\ reports \in SUBSET ReportType
      /\ exchange' \in ExchangeType /\ reports' \in SUBSET ReportType
  BY DEF OrdersInv, OrdersTypeOK, ExchangeType, ReportType
<1>2. /\ ReportedOnce(exchange', reports')
      /\ \A p : Accounts(p, exchange, reports) => Accounts(p, exchange', reports')
      /\ \A b : Fresh(b, exchange, reports) => Fresh(b, exchange', reports')
  BY <1>1, MovesKeep DEF OrdersInv
<1>3. PositionMatchesReports'
  BY DEF OrdersInv, PositionMatchesReports
<1> QED
  BY <1>2, <1>3 DEF OrdersInv, StoredInv

\* The engine emits an order, possibly into its map.
LEMMA EmitOrderStep ==
  ASSUME OrdersInv, NEW o \in Orders, NEW tracked, EmitOrder(o, tracked)
  PROVE  OrdersInv'
<1> DEFINE e == [NoEntry EXCEPT !.status = "PENDING"]
<1>1. e \in Entry /\ e.filled = 0
  BY DEF NoEntry, Entry, Statuses
<1> HIDE DEF e
<1>2. /\ exchange[o].st = "none" /\ exchange' = [exchange EXCEPT ![o].st = "sent"]
      /\ book' = book \/ book' = [book EXCEPT ![o]["c"] = e]
      /\ UNCHANGED <<adapter, aged, position, reports, janitor, orderHistory>>
  BY DEF EmitOrder, e
<1>3. /\ exchange \in ExchangeType /\ reports \in SUBSET ReportType /\ book \in BookType
  BY OrderTypes DEF OrdersInv
<1>4. /\ exchange' \in ExchangeType
      /\ \A q \in Orders : exchange'[q].filled = exchange[q].filled
      /\ \A q \in Orders : exchange'[q].st = IF q = o THEN "sent" ELSE exchange[q].st
  BY <1>2, <1>3 DEF ExchangeType
<1>5. /\ book' \in BookType
      /\ \A q \in Orders : \A k \in Keys : book'[q][k].filled = book[q][k].filled
                                             \/ book'[q][k].filled = 0
  BY <1>1, <1>2, <1>3 DEF BookType, Keys
<1>6. Consistent(exchange')
  BY <1>2, <1>4 DEF OrdersInv, Consistent, Unplaced
<1>7. Moves(exchange, reports, exchange', reports)
  <2>1. \A q \in Orders : exchange[q].filled \in 0..Size
    BY <1>3 DEF ExchangeType
  <2> QED
    BY <1>2, <1>4, <2>1 DEF Moves, Unplaced, FillsAmong
<1>8. /\ ReportedOnce(exchange', reports)
      /\ \A p : Accounts(p, exchange, reports) => Accounts(p, exchange', reports)
      /\ \A b : Fresh(b, exchange, reports) => Fresh(b, exchange', reports)
  BY <1>3, <1>4, <1>7, MovesKeep DEF OrdersInv
<1>9. Fresh(book, exchange', reports) => Fresh(book', exchange', reports)
  BY <1>5 DEF Fresh
<1>13. /\ StoredInv' /\ stored' \in [book : [Orders -> [Keys -> Entry]], position : Nat]
  <2>1. GuardedPut /\ reports' = reports /\ position' = position /\ touched' = touched
    BY <1>2 DEF EmitOrder, orderHistory
  <2>2. /\ Accounts(stored.position, exchange', reports) /\ Accounts(position, exchange', reports)
        /\ touched = {} => Fresh(stored.book, exchange', reports)
        /\ touched = {} => Fresh(book', exchange', reports)
    BY <1>8, <1>9 DEF OrdersInv, StoredInv
  <2>3. position \in Nat
    BY OrderTypes DEF OrdersInv
  <2> HIDE DEF OrdersInv
  <2> QED
    BY <1>5, <2>1, <2>2, <2>3, GuardedPutKeeps
<1>10. OrdersTypeOK'
  BY <1>2, <1>4, <1>5, <1>13 DEF OrdersInv, OrdersTypeOK, orderHistory, ExchangeType, BookType
<1>11. JanitorTyped' /\ PositionMatchesReports'
  BY <1>2 DEF OrdersInv, JanitorTyped, PositionMatchesReports, orderHistory
<1> QED
  BY <1>2, <1>6, <1>8, <1>9, <1>10, <1>11, <1>13 DEF OrdersInv, orderHistory

\* The exchange takes an order, or it is refused.
LEMMA PlaceOrderStep ==
  ASSUME OrdersInv, NEW o \in Orders, PlaceOrder(o) \/ Reject(o)
  PROVE  OrdersInv'
<1>1. PICK x, r :
        /\ exchange[o].st = "sent"
        /\ exchange' = [exchange EXCEPT ![o] = x] /\ reports' = reports \cup {r}
        /\ x \in [st : {"open", "filled", "closed"}, filled : 0..Size]
        /\ x.st = "open" => x.filled < Size
        /\ r \in ReportType /\ r.order = o
        /\ r.status \in FillReports => r.filled = x.filled
  <2>1. CASE PlaceOrder(o)
    <3>1. PICK filled \in 0..Size, answered \in BOOLEAN :
            /\ exchange[o].st = "sent"
            /\ exchange' = [exchange EXCEPT ![o] =
                              [st     |-> IF filled = Size THEN "filled" ELSE "open",
                               filled |-> filled]]
            /\ reports' = reports \cup
                            {IF answered THEN PlacementReport(o, filled) ELSE RejectedReport(o)}
      BY <2>1 DEF PlaceOrder
    <3> DEFINE x == [st |-> IF filled = Size THEN "filled" ELSE "open", filled |-> filled]
               r == IF answered THEN PlacementReport(o, filled) ELSE RejectedReport(o)
    <3>2. /\ x \in [st : {"open", "filled", "closed"}, filled : 0..Size]
          /\ x.st = "open" => x.filled < Size
          /\ x.filled = filled
      OBVIOUS
    <3>3. r \in ReportType /\ r.order = o /\ (r.status \in FillReports => r.filled = filled)
      BY DEF ReportType, PlacementReport, RejectedReport, Report, Keys, Statuses, FillReports
    <3> HIDE DEF r
    <3> QED
      BY <3>1, <3>2, <3>3 DEF r
  <2>2. CASE Reject(o)
    <3> DEFINE x == [exchange[o] EXCEPT !.st = "closed"]
               r == RejectedReport(o)
    <3>1. exchange[o].st = "sent" /\ exchange' = [exchange EXCEPT ![o] = x]
          /\ reports' = reports \cup {r}
      BY <2>2 DEF Reject
    <3>2. exchange[o] \in [st : {"none", "sent", "open", "filled", "closed"}, filled : 0..Size]
      BY DEF OrdersInv, OrdersTypeOK
    <3>3. x \in [st : {"open", "filled", "closed"}, filled : 0..Size] /\ x.st = "closed"
      BY <3>2
    <3>4. r \in ReportType /\ r.order = o /\ r.status \notin FillReports
      BY DEF ReportType, RejectedReport, Report, Keys, Statuses, FillReports
    <3> HIDE DEF x, r
    <3> QED
      BY <3>1, <3>3, <3>4
  <2> QED
    BY <2>1, <2>2
<1>2. UNCHANGED <<adapter, book, aged, position, stored, janitor, orderHistory>>
  BY DEF PlaceOrder, Reject
<1>3. exchange \in ExchangeType /\ reports \in SUBSET ReportType
  BY OrderTypes DEF OrdersInv
<1>4. /\ exchange' \in ExchangeType /\ exchange'[o] = x
      /\ \A q \in Orders : q # o => exchange'[q] = exchange[q]
  BY <1>1, <1>3 DEF ExchangeType
<1>5. reports' \in SUBSET ReportType
  BY <1>1, <1>3
<1>6. exchange[o].filled = 0
  BY <1>1 DEF OrdersInv, Consistent, Unplaced
<1>7. Consistent(exchange')
  BY <1>1, <1>4 DEF OrdersInv, Consistent, Unplaced
<1>8. Moves(exchange, reports, exchange', reports')
  <2>1. \A q \in Orders : exchange[q].filled <= exchange'[q].filled
                           /\ (Unplaced(exchange', q) => Unplaced(exchange, q))
    <3>1. \A q \in Orders : exchange[q].filled \in 0..Size
      BY <1>3 DEF ExchangeType
    <3> QED
      BY <1>1, <1>4, <1>6, <3>1 DEF Unplaced
  <2>2. \A q \in FillsAmong(reports') \ reports : q = r /\ r.status \in FillReports
    BY <1>1 DEF FillsAmong
  <2>3. /\ Unplaced(exchange, o) /\ ~ Unplaced(exchange', o)
        /\ r.status \in FillReports => r.filled <= exchange'[o].filled
    BY <1>1, <1>4 DEF Unplaced
  <2> QED
    BY <1>1, <2>1, <2>2, <2>3 DEF Moves
<1>9. OrdersTypeOK' /\ JanitorTyped'
  BY <1>2, <1>4, <1>5 DEF OrdersInv, OrdersTypeOK, JanitorTyped, orderHistory,
                         ExchangeType, ReportType
<1> QED
  BY <1>2, <1>7, <1>8, <1>9, ExchangeStep DEF orderHistory

\* The exchange fills an open order further.
LEMMA FillStep ==
  ASSUME OrdersInv, NEW o \in Orders, Fill(o)
  PROVE  OrdersInv'
<1>1. /\ exchange[o].st = "open"
      /\ exchange' = [exchange EXCEPT ![o] =
                        [st     |-> IF exchange[o].filled + 1 = Size THEN "filled" ELSE "open",
                         filled |-> exchange[o].filled + 1]]
      /\ UNCHANGED <<adapter, book, aged, position, stored, reports, janitor, orderHistory>>
  BY DEF Fill
<1>2. exchange \in ExchangeType /\ exchange[o].filled \in 0..Size /\ exchange[o].filled < Size
  BY <1>1, OrderTypes DEF OrdersInv, Consistent
<1>3. /\ exchange' \in ExchangeType
      /\ exchange'[o].filled = exchange[o].filled + 1
      /\ exchange'[o].st \in {"filled", "open"}
      /\ exchange'[o].st = "open" => exchange'[o].filled # Size
      /\ \A q \in Orders : q # o => exchange'[q] = exchange[q]
  BY <1>1, <1>2 DEF ExchangeType
<1>4. Consistent(exchange')
  BY <1>2, <1>3 DEF OrdersInv, Consistent, Unplaced
<1>5. Moves(exchange, reports, exchange', reports')
  <2>1. \A q \in Orders : exchange[q].filled \in 0..Size
    BY <1>2 DEF ExchangeType
  <2> QED
    BY <1>1, <1>2, <1>3, <2>1 DEF Moves, Unplaced, FillsAmong
<1>6. OrdersTypeOK' /\ JanitorTyped'
  BY <1>1, <1>3 DEF OrdersInv, OrdersTypeOK, JanitorTyped, orderHistory, ExchangeType
<1> QED
  BY <1>1, <1>4, <1>5, <1>6, ExchangeStep DEF orderHistory

\* Steps that change neither the exchange nor the reports, and no fill in a map.
LEMMA QuietOrderSteps ==
  ASSUME OrdersInv,
         \/ \E o \in Orders : AckTimeout(o)
         \/ StartJanitor \/ FinishJanitor \/ SaveState \/ Restart \/ UNCHANGED orderVars
  PROVE  OrdersInv'
<1>1. CASE (\E o \in Orders : AckTimeout(o)) \/ UNCHANGED orderVars
  <2>1. UNCHANGED <<adapter, exchange, book, position, stored, reports, janitor, orderHistory>>
    BY <1>1 DEF AckTimeout, orderVars
  <2>2. aged' \subseteq Orders
    BY <1>1 DEF AckTimeout, orderVars, OrdersInv, OrdersTypeOK
  <2>3. OrdersTypeOK' /\ JanitorTyped' /\ PositionMatchesReports'
    BY <2>1, <2>2 DEF OrdersInv, OrdersTypeOK, JanitorTyped, PositionMatchesReports, orderHistory
  <2> QED
    BY <2>1, <2>3 DEF OrdersInv, StoredInv, orderHistory
<1>2. CASE StartJanitor
  <2> DEFINE j == [pc |-> "fetch", book |-> book, position |-> position, zombies |-> Zombies]
  <2>1. /\ UNCHANGED <<adapter, exchange, book, aged, position, stored, reports, orderHistory>>
        /\ janitor' = j
    BY <1>2 DEF StartJanitor
  <2>2. j.pc = "fetch" /\ j.book = book /\ j.position = position /\ j.zombies = Zombies
    OBVIOUS
  <2> HIDE DEF j
  <2>3. Zombies \subseteq Orders
    BY DEF Zombies, OrdersInv, OrdersTypeOK
  <2>4. OrdersTypeOK' /\ JanitorTyped' /\ PositionMatchesReports'
    BY <2>1, <2>2, <2>3
       DEF OrdersInv, OrdersTypeOK, JanitorTyped, PositionMatchesReports, orderHistory, BookType
  <2> QED
    BY <2>1, <2>2, <2>4 DEF OrdersInv, StoredInv, orderHistory
<1>3. CASE FinishJanitor
  <2>1. /\ janitor.pc = "cancel" /\ janitor'.pc = "idle"
        /\ book' = janitor.book /\ position' = janitor.position
        /\ rolledBack' = (rolledBack \/ position # janitor.position)
        /\ UNCHANGED <<adapter, exchange, aged, reports, delivered, touched, restarts>>
    BY <1>3 DEF FinishJanitor, NoJanitor
  <2>4. /\ StoredInv' /\ stored' \in [book : [Orders -> [Keys -> Entry]], position : Nat]
    <3>1. /\ position' \in Nat /\ book' \in BookType
          /\ Accounts(stored.position, exchange', reports') /\ Accounts(position', exchange', reports')
          /\ touched = {} => Fresh(stored.book, exchange', reports')
          /\ touched' = {} => Fresh(book', exchange', reports')
      BY <2>1 DEF OrdersInv, StoredInv, JanitorTyped
    <3> HIDE DEF OrdersInv
    <3> QED
      BY <1>3, <2>1, <3>1, GuardedPutKeeps DEF FinishJanitor
  <2>2. OrdersTypeOK'
    BY <2>1, <2>4 DEF OrdersInv, OrdersTypeOK, JanitorTyped, BookType
  <2>3. JanitorTyped' /\ PositionMatchesReports'
    BY <2>1 DEF OrdersInv, JanitorTyped, PositionMatchesReports
  <2> QED
    BY <2>1, <2>2, <2>3, <2>4 DEF OrdersInv
<1>4. CASE Restart
  <2>1. /\ janitor'.pc = "idle"
        /\ book' = stored.book /\ position' = stored.position /\ stored' = stored
        /\ rolledBack' = (rolledBack \/ position # stored.position)
        /\ UNCHANGED <<adapter, exchange, aged, reports, delivered, touched>>
    BY <1>4 DEF Restart, NoJanitor
  <2>2. book' \in BookType /\ position' \in Nat
    BY <2>1, OrderTypes DEF OrdersInv
  <2>3. OrdersTypeOK' /\ JanitorTyped' /\ PositionMatchesReports'
    BY <2>1, <2>2 DEF OrdersInv, OrdersTypeOK, JanitorTyped, PositionMatchesReports, BookType
  <2> QED
    BY <2>1, <2>3 DEF OrdersInv, StoredInv
<1>5. CASE SaveState
  <2>1. /\ stored' = [book |-> book, position |-> position]
        /\ UNCHANGED <<adapter, exchange, book, aged, position, reports, janitor, orderHistory>>
    BY <1>5 DEF SaveState, Memory
  <2>2. stored'.book = book /\ stored'.position = position
    BY <2>1
  <2>3. OrdersTypeOK' /\ JanitorTyped' /\ PositionMatchesReports'
    BY <2>1 DEF OrdersInv, OrdersTypeOK, JanitorTyped, PositionMatchesReports, orderHistory
  <2> QED
    BY <2>1, <2>2, <2>3 DEF OrdersInv, StoredInv, orderHistory
<1> QED
  BY <1>1, <1>2, <1>3, <1>4, <1>5

\* A report is lost.
LEMMA LoseReportStep ==
  ASSUME OrdersInv, NEW r, LoseReport(r)
  PROVE  OrdersInv'
<1>1. /\ reports' = reports \ {r}
      /\ UNCHANGED <<adapter, exchange, book, aged, position, stored, janitor, orderHistory>>
  BY DEF LoseReport
<1>2. OrdersTypeOK' /\ JanitorTyped'
  BY <1>1 DEF OrdersInv, OrdersTypeOK, JanitorTyped, orderHistory
<1>3. Moves(exchange, reports, exchange', reports')
  <2>1. \A q \in Orders : exchange[q].filled \in 0..Size
    BY OrderTypes DEF OrdersInv
  <2> QED
    BY <1>1, <2>1 DEF Moves, FillsAmong
<1> QED
  BY <1>1, <1>2, <1>3, ExchangeStep DEF OrdersInv, orderHistory

\* The janitor cancels an order.
LEMMA CancelJanitorStep ==
  ASSUME OrdersInv, NEW answered, janitor.pc = "cancel", NEW req \in janitor.requests,
         Cancel(req, answered)
  PROVE  OrdersInv'
<1> DEFINE o == req[1]
<1>1. /\ janitor' = [janitor EXCEPT !.requests = @ \ {req}]
      /\ \/ exchange' = exchange
         \/ exchange[o].st = "open" /\ exchange' = [exchange EXCEPT ![o].st = "closed"]
      /\ reports' = reports \/ reports' = reports \cup {CancelReport(o, req[2])}
      /\ UNCHANGED <<adapter, book, aged, position, stored, orderHistory>>
  BY DEF Cancel, OpenOrders
<1>2. o \in Orders /\ req[2] \in Keys
  BY DEF OrdersInv, JanitorTyped
<1>3. exchange \in ExchangeType /\ reports \in SUBSET ReportType
  BY OrderTypes DEF OrdersInv
<1>4. CancelReport(o, req[2]) \in ReportType /\ CancelReport(o, req[2]).status \notin FillReports
  <2>1. exchange[o].filled \in 0..Size
    BY <1>2, <1>3 DEF ExchangeType
  <2> QED
    BY <1>2, <2>1 DEF CancelReport, Report, ReportType, Keys, Statuses, FillReports
<1>5. reports' \in SUBSET ReportType /\ FillsAmong(reports') = FillsAmong(reports)
  BY <1>1, <1>3, <1>4 DEF FillsAmong
<1> HIDE DEF o
<1>6. /\ exchange' \in ExchangeType
      /\ \A q \in Orders : /\ exchange'[q].filled = exchange[q].filled
                           /\ exchange'[q].st = exchange[q].st \/ exchange'[q].st = "closed"
  BY <1>1, <1>2, <1>3 DEF ExchangeType
<1>7. /\ janitor'.pc = "cancel" /\ janitor'.book = janitor.book
      /\ janitor'.position = janitor.position /\ janitor'.requests \subseteq janitor.requests
  BY <1>1
<1>8. Consistent(exchange')
  BY <1>6 DEF OrdersInv, Consistent, Unplaced
<1>9. Moves(exchange, reports, exchange', reports')
  <2>1. \A q \in Orders : exchange[q].filled \in 0..Size
    BY <1>3 DEF ExchangeType
  <2>2. FillsAmong(reports') \ reports = {}
    BY <1>5 DEF FillsAmong
  <2> QED
    BY <1>6, <2>1, <2>2 DEF Moves, Unplaced
<1>10. OrdersTypeOK'
  BY <1>1, <1>5, <1>6, <1>7
     DEF OrdersInv, OrdersTypeOK, JanitorTyped, orderHistory, ExchangeType, ReportType, BookType
<1>11. JanitorTyped'
  BY <1>7 DEF OrdersInv, JanitorTyped
<1> QED
  BY <1>1, <1>7, <1>8, <1>9, <1>10, <1>11, ExchangeStep DEF orderHistory

\* The janitor copies fills from the exchange into its map.
LEMMA FetchStep ==
  ASSUME OrdersInv, NEW answered, Fetch(answered)
  PROVE  OrdersInv'
<1> DEFINE open == IF answered THEN OpenOrders ELSE {}
           b == ReconciledBook(open)
           j == [pc |-> "cancel", book |-> b, position |-> janitor.position,
                 requests |-> (Orphans(open) \X {"x"}) \cup (janitor.zombies \X {"c"})]
<1>1. /\ janitor.pc = "fetch" /\ janitor' = j
      /\ touched' = touched \cup {o \in open : b[o]["c"].filled > janitor.book[o]["c"].filled}
      /\ UNCHANGED <<adapter, exchange, book, aged, position, stored, reports, delivered, rolledBack, restarts>>
  BY DEF Fetch
<1>2. open \subseteq Orders
  BY DEF OpenOrders
<1> HIDE DEF open
<1>3. janitor.book \in BookType /\ janitor.zombies \subseteq Orders /\ janitor.position \in Nat
  BY <1>1 DEF OrdersInv, JanitorTyped
<1>4. /\ j.pc = "cancel" /\ j.book = b /\ j.position = janitor.position
      /\ j.requests \subseteq Orders \X Keys
  BY <1>2, <1>3 DEF Orphans, Keys
<1> HIDE DEF j
<1>5. ASSUME NEW o \in Orders, NEW k \in Keys
      PROVE  /\ b[o][k] \in Entry
             /\ k # "c" \/ o \notin open => b[o][k].filled = janitor.book[o][k].filled
  <2> DEFINE e == janitor.book[o][k]
  <2>1. e \in Entry /\ exchange[o].filled \in 0..Size
    BY <1>3, OrderTypes DEF BookType, OrdersInv
  <2>2. b[o][k] = IF e.status = "NONE" THEN e
                  ELSE IF k = "c" /\ o \in janitor.zombies
                    THEN [Reconciled(e, o, k, open) EXCEPT !.status = "CANCELLED"]
                  ELSE Reconciled(e, o, k, open)
    BY DEF ReconciledBook
  <2> HIDE DEF e, b
  <2>3. /\ Reconciled(e, o, k, open) \in Entry
        /\ k # "c" \/ o \notin open => Reconciled(e, o, k, open).filled = e.filled
    BY <2>1 DEF Reconciled, Entry, Statuses, Keys
  <2>4. b[o][k] \in Entry /\ (k # "c" \/ o \notin open => b[o][k].filled = e.filled)
    BY <2>1, <2>2, <2>3 DEF Entry, Statuses
  <2> QED
    BY <2>4 DEF e
<1>6. b \in BookType
  <2>1. b = [o \in Orders |-> [k \in Keys |-> b[o][k]]]
    BY DEF ReconciledBook
  <2> HIDE DEF b
  <2> QED
    BY <1>5, <2>1 DEF BookType
<1> HIDE DEF b
<1>7. touched' = {} => Fresh(b, exchange, reports)
  <2> SUFFICES ASSUME touched' = {}, NEW o \in Orders, NEW k \in Keys,
                      janitor.book[o][k].filled = 0
               PROVE  b[o][k].filled = 0
    <3>1. touched' = {} => Fresh(janitor.book, exchange, reports)
      BY <1>1 DEF OrdersInv
    <3> QED
      BY <3>1 DEF Fresh
  <2>1. b[o][k].filled \in 0..Size
    BY <1>5 DEF Entry
  <2>2. k = "c" /\ o \in open => ~ (b[o][k].filled > janitor.book[o][k].filled)
    BY <1>1
  <2> QED
    BY <1>5, <2>1, <2>2 DEF Keys
<1>8. touched' \subseteq Orders /\ (touched' = {} => touched = {})
  BY <1>1, <1>2 DEF OrdersInv, OrdersTypeOK
<1>9. OrdersTypeOK' /\ JanitorTyped'
  BY <1>1, <1>3, <1>4, <1>6, <1>8 DEF OrdersInv, OrdersTypeOK, JanitorTyped, BookType
<1>10. PositionMatchesReports'
  BY <1>1, <1>8 DEF OrdersInv, PositionMatchesReports
<1> QED
  BY <1>1, <1>4, <1>7, <1>8, <1>9, <1>10 DEF OrdersInv, StoredInv

\* applyExecutionAccounting.
LEMMA ApplyReportStep ==
  ASSUME OrdersInv, NEW r \in reports, ApplyReport(r)
  PROVE  OrdersInv'
<1>0. PICK key \in IF EntryKeys(r) = {} THEN {r.client} ELSE EntryKeys(r) :
        LET existing  == book[r.order][key]
            increment == IF r.filled > existing.filled THEN r.filled - existing.filled ELSE 0
            books     == IsPortfolioFillStatus(r.status)
            entry     == [existing EXCEPT !.status = r.status, !.filled = r.filled,
                                          !.ex = IF r.ex = "none" THEN @ ELSE r.ex]
        IN  /\ reports' = reports \ {r}
            /\ book' = [book EXCEPT ![r.order][key] = entry]
            /\ position' = IF books THEN position + increment ELSE position
            /\ GuardedPut
            /\ IF r.status \in FillReports
                 THEN delivered' = delivered + r.filled /\ touched' = touched
                 ELSE /\ touched' = IF r.filled > existing.filled THEN touched \cup {r.order} ELSE touched
                      /\ delivered' = delivered
            /\ UNCHANGED <<adapter, exchange, aged, janitor, rolledBack, restarts>>
  BY Zenon DEF ApplyReport
<1> DEFINE existing  == book[r.order][key]
           increment == IF r.filled > existing.filled THEN r.filled - existing.filled ELSE 0
           entry     == [existing EXCEPT !.status = r.status, !.filled = r.filled,
                                         !.ex = IF r.ex = "none" THEN @ ELSE r.ex]
<1>1. /\ reports' = reports \ {r}
      /\ book' = [book EXCEPT ![r.order][key] = entry]
      /\ position' = IF r.status \in FillReports THEN position + increment ELSE position
      /\ GuardedPut
      /\ IF r.status \in FillReports
           THEN delivered' = delivered + r.filled /\ touched' = touched
           ELSE /\ touched' = IF r.filled > existing.filled THEN touched \cup {r.order} ELSE touched
                /\ delivered' = delivered
      /\ UNCHANGED <<adapter, exchange, aged, janitor, rolledBack, restarts>>
  BY <1>0 DEF IsPortfolioFillStatus
<1>2. /\ exchange \in ExchangeType /\ reports \in SUBSET ReportType /\ book \in BookType
      /\ position \in Nat /\ delivered \in Nat
  BY OrderTypes DEF OrdersInv
<1>3. /\ r.order \in Orders /\ r.client \in Keys /\ r.ex \in {"none"} \cup Keys
      /\ r.status \in Statuses /\ r.filled \in 0..Size
  BY <1>2 DEF ReportType
<1>4. key \in Keys
  BY <1>0, <1>3 DEF EntryKeys
<1>5. existing \in Entry /\ existing = book[r.order][key]
  BY <1>2, <1>3, <1>4 DEF BookType
<1> HIDE DEF existing
<1>6. entry \in Entry /\ entry.filled = r.filled
  BY <1>3, <1>5 DEF Entry
<1>7. existing.filled \in 0..Size
  BY <1>5 DEF Entry
<1>8. increment \in Nat /\ increment <= r.filled
  BY <1>3, <1>7
<1>9. existing.filled = 0 => increment = r.filled
  BY <1>3
<1> HIDE DEF entry, increment
<1>10. /\ book' \in BookType /\ book'[r.order][key] = entry
       /\ \A o \in Orders : \A k \in Keys : o # r.order \/ k # key => book'[o][k] = book[o][k]
  BY <1>1, <1>2, <1>3, <1>4, <1>6 DEF BookType
<1>11. Moves(exchange, reports, exchange, reports')
  <2>1. \A q \in Orders : exchange[q].filled \in 0..Size
    BY <1>2 DEF ExchangeType
  <2> QED
    BY <1>1, <2>1 DEF Moves, FillsAmong
<1>12. /\ ReportedOnce(exchange, reports')
       /\ \A p : Accounts(p, exchange, reports) => Accounts(p, exchange, reports')
       /\ \A b : Fresh(b, exchange, reports) => Fresh(b, exchange, reports')
  <2>1. reports' \in SUBSET ReportType
    BY <1>1, <1>2
  <2> QED
    BY <1>2, <1>11, <2>1, MovesKeep DEF OrdersInv
<1>13. Accounts(position', exchange, reports')
  <2>1. CASE r.status \in FillReports
    <3>1. r \in FillsAmong(reports)
      BY <2>1 DEF FillsAmong
    <3>2. Accounts(position + increment, exchange, reports \ {r})
      BY <1>2, <1>8, <3>1, AccountsGrow DEF OrdersInv
    <3> QED
      BY <1>1, <2>1, <3>2
  <2>2. CASE r.status \notin FillReports
    BY <1>1, <1>12, <2>2 DEF OrdersInv
  <2> QED
    BY <2>1, <2>2
<1>14. touched' = {} => touched = {} /\ (r.status \notin FillReports => r.filled <= existing.filled)
  BY <1>1, <1>3, <1>7
<1>15. touched' = {} => Fresh(book', exchange, reports')
  <2> SUFFICES ASSUME touched' = {}, NEW o \in Orders,
                      Unplaced(exchange, o) \/ (\E q \in FillsAmong(reports') : q.order = o),
                      NEW k \in Keys
               PROVE  book'[o][k].filled = 0
    BY DEF Fresh
  <2>1. Fresh(book, exchange, reports')
    BY <1>12, <1>14 DEF OrdersInv
  <2>2. \A l \in Keys : book[o][l].filled = 0
    BY <2>1 DEF Fresh
  <2>3. CASE o = r.order /\ k = key
    <3>1. r.status \notin FillReports
      <4>1. CASE Unplaced(exchange, o)
        BY <2>3, <4>1 DEF OrdersInv, ReportedOnce, FillsAmong
      <4>2. ASSUME NEW q \in FillsAmong(reports'), q.order = o PROVE r.status \notin FillReports
        <5>1. q \in FillsAmong(reports) /\ q # r
          BY <1>1 DEF FillsAmong
        <5> QED
          BY <2>3, <4>2, <5>1 DEF OrdersInv, ReportedOnce, FillsAmong
      <4> QED
        BY <4>1, <4>2
    <3>2. existing.filled = 0
      BY <1>4, <1>5, <2>2, <2>3
    <3> QED
      BY <1>3, <1>6, <1>10, <1>14, <2>3, <3>1, <3>2
  <2>4. CASE ~ (o = r.order /\ k = key)
    BY <1>10, <2>2, <2>4
  <2> QED
    BY <2>3, <2>4
<1>16. PositionMatchesReports'
  <2> SUFFICES ASSUME touched' = {}, ~ rolledBack PROVE position' = delivered'
    BY <1>1 DEF PositionMatchesReports
  <2>1. position = delivered /\ Fresh(book, exchange, reports)
    BY <1>14 DEF OrdersInv, PositionMatchesReports
  <2>2. CASE r.status \in FillReports
    <3>1. r \in FillsAmong(reports)
      BY <2>2 DEF FillsAmong
    <3>2. existing.filled = 0
      BY <1>3, <1>4, <1>5, <2>1, <3>1 DEF Fresh
    <3> QED
      BY <1>1, <1>9, <2>1, <2>2, <3>2
  <2>3. CASE r.status \notin FillReports
    BY <1>1, <2>1, <2>3
  <2> QED
    BY <2>2, <2>3
<1>19. position' \in Nat /\ delivered' \in Nat /\ touched' \subseteq Orders
  BY <1>1, <1>2, <1>3, <1>8 DEF OrdersInv, OrdersTypeOK
<1>20. StoredInv' /\ stored' \in [book : [Orders -> [Keys -> Entry]], position : Nat]
  <2>1. /\ GuardedPut /\ exchange' = exchange
        /\ Accounts(stored.position, exchange, reports')
        /\ touched = {} => Fresh(stored.book, exchange, reports')
    BY <1>1, <1>12 DEF OrdersInv, StoredInv
  <2>2. touched' = {} => touched = {}
    BY <1>14
  <2> HIDE DEF OrdersInv
  <2> QED
    BY <1>10, <1>13, <1>15, <1>19, <2>1, <2>2, GuardedPutKeeps
<1>17. OrdersTypeOK'
  BY <1>1, <1>2, <1>10, <1>19, <1>20 DEF OrdersInv, OrdersTypeOK, BookType, ReportType
<1>18. JanitorTyped'
  BY <1>1 DEF OrdersInv, JanitorTyped
<1> QED
  BY <1>1, <1>12, <1>13, <1>14, <1>15, <1>16, <1>17, <1>18, <1>20 DEF OrdersInv

LEMMA OrdersInvHolds == OrdersSpec => []OrdersInv
<1>1. OrdersInv /\ [OrdersNext]_orderVars => OrdersInv'
  <2> SUFFICES ASSUME OrdersInv, [OrdersNext]_orderVars PROVE OrdersInv'
    OBVIOUS
  <2>1. ASSUME NEW o \in Orders, NEW tracked, EmitOrder(o, tracked) PROVE OrdersInv'
    BY <2>1, EmitOrderStep
  <2>2. ASSUME NEW o \in Orders, PlaceOrder(o) \/ Reject(o) \/ Fill(o) PROVE OrdersInv'
    BY <2>2, PlaceOrderStep, FillStep
  <2>3. CASE (\E o \in Orders : AckTimeout(o)) \/ StartJanitor \/ FinishJanitor
              \/ SaveState \/ Restart
              \/ UNCHANGED orderVars
    BY <2>3, QuietOrderSteps
  <2>4. CASE ReportStep
    BY <2>4, ApplyReportStep, LoseReportStep DEF ReportStep
  <2>5. ASSUME NEW answered, Fetch(answered) \/ CancelStep(answered) PROVE OrdersInv'
    BY <2>5, FetchStep, CancelJanitorStep DEF CancelStep
  <2> QED
    BY <2>1, <2>2, <2>3, <2>4, <2>5, Zenon DEF OrdersNext, JanitorStep
<1> QED
  BY <1>1, InitOrdersInv, PTL DEF OrdersSpec

(***************************************************************************)
(* No fill is booked twice by applyExecutionAccounting, however reports    *)
(* are delayed, reordered or lost and whatever the janitor writes back.    *)
(***************************************************************************)
THEOREM FillsAreNeverOverbooked == OrdersSpec => []NeverOverbooked
<1>1. OrdersInv => NeverOverbooked
  BY OrderTypes, AccountsWithin DEF OrdersInv, NeverOverbooked, Filled
<1> QED
  BY <1>1, OrdersInvHolds, PTL

(***************************************************************************)
(* The position is what the fill reports say, unless a filledSize was set  *)
(* without booking, or maintenance or an eviction after a skipped write    *)
(* brought an older position back.                                         *)
(***************************************************************************)
THEOREM PositionAlwaysMatchesReports == OrdersSpec => []PositionMatchesReports
<1>1. OrdersInv => PositionMatchesReports
  BY DEF OrdersInv
<1> QED
  BY <1>1, OrdersInvHolds, PTL

==============================================================================

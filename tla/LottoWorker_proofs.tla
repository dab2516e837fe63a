------------------------- MODULE LottoWorker_proofs -------------------------
(***************************************************************************)
(* Proofs about the lotto worker, for any number of messages, bridges,     *)
(* attempts, games, workers, ticket counts and faults.                     *)
(*                                                                         *)
(* DeliveryOutbox: the outbox and its bridges implement Delivery, the      *)
(* count that decides when to give up agrees with the audit trail, and a   *)
(* lease that covers its bridge makes "not sent" true.  LottoGeneration:   *)
(* queued picks stay backed by their run, tickets reconcile unless the     *)
(* configuration is edited, giving up is announced, and the lease          *)
(* excludes.  The two specifications share nothing but this module.        *)
(***************************************************************************)
EXTENDS DeliveryOutbox, LottoGeneration, Sums_proofs

(***************************************************************************)
(* Part 1: DeliveryOutbox.                                                 *)
(***************************************************************************)
BridgeStates ==
  {Idle} \cup [pc : {"update"}, d : Deliveries]
         \cup [pc : {"claimed", "sending"}, d : Deliveries, token : 1..MaxTokens]

Reported == {"sent", "ambiguous", "failed"}
ResultMessages == [d : Deliveries, token : 1..MaxTokens, status : Reported, n : LocalAttempts]
Completions ==
  [d : Deliveries, token : 1..MaxTokens, status : Reported, n : LocalAttempts, count : Nat]

Types ==
  /\ OutboxTypes
  /\ bridges \in [Bridges -> BridgeStates]
  /\ copies \in [Deliveries -> {0, 1}]
  /\ results \subseteq ResultMessages
  /\ handlers \subseteq Completions

Working(b, d) == bridges[b].pc \in {"claimed", "sending"} /\ bridges[b].d = d
Sending(b, d) == bridges[b].pc = "sending" /\ bridges[b].d = d

\* The bridge host's record knows of every copy that went out.
HostRecord ==
  \A d \in Deliveries :
    /\ ledger[d] = "new" => copies[d] = 0
    /\ ledger[d] = "sent" => copies[d] = 1
    /\ \A b \in Bridges : Sending(b, d) => ledger[d] = "sending" /\ copies[d] = 0
    /\ \A a, b \in Bridges : Sending(a, d) /\ Sending(b, d) => a = b

\* Only a message that went out is reported or recorded as sent.
SentWentOut ==
  /\ \A m \in results : m.status = "sent" => copies[m.d] = 1
  /\ \A h \in handlers : h.status = "sent" => copies[h.d] = 1
  /\ \A d \in Deliveries : rows[d].status = "sent" => copies[d] = 1

\* A bridge is only ever about a row that exists.
ClaimsHaveRows ==
  \A b \in Bridges : bridges[b].pc # "idle" => rows[bridges[b].d].status # "none"

\* An attempt_count read under a lease is current while the lease is held.
CountsAreCurrent ==
  /\ RetriesAreLimited
  /\ \A h \in handlers : HoldsLease(h) => h.count = rows[h.d].count

\* While no lease of a row has ended under its bridge: its one bridge holds the
\* lease, a result under the lease comes from nobody still at work, and what
\* waits, was given up or is reported as failed has not gone out.
LeaseCovers(d) ==
  /\ \A b \in Bridges : Working(b, d) =>
       rows[d].status = "leased" /\ ~ rows[d].expired /\ rows[d].token = bridges[b].token
  /\ \A a, b \in Bridges : Working(a, d) /\ Working(b, d) => a = b
  /\ rows[d].status \in {"none", "pending", "retry", "dead"} => copies[d] = 0
  /\ \A m \in results : m.d = d /\ HoldsLease(m) =>
       (m.status = "failed" => copies[d] = 0) /\ \A b \in Bridges : ~ Working(b, d)
  /\ \A h \in handlers : h.d = d /\ HoldsLease(h) =>
       (h.status = "failed" => copies[d] = 0) /\ \A b \in Bridges : ~ Working(b, d)

LeasesCover == \A d \in Deliveries : overran[d] = 0 => LeaseCovers(d)

Inv ==
  /\ Types /\ HostRecord /\ SentWentOut /\ ClaimsHaveRows
  /\ CountsAreCurrent /\ AttemptsMatchTrail /\ LeasesCover

RowStates ==
  [status : Statuses, count : 0..(DeadAttempts + MaxLocalAttempts - 1), token : 0..MaxTokens,
   expired : BOOLEAN, waiting : BOOLEAN]

\* What the type of a bridge says of one that is not idle.
LEMMA BridgeTypes ==
  ASSUME Types, NEW b \in Bridges
  PROVE  /\ bridges[b].pc \in {"idle", "update", "claimed", "sending"}
         /\ bridges[b].pc # "idle" => bridges[b].d \in Deliveries
         /\ bridges[b].pc \in {"claimed", "sending"} =>
              /\ bridges[b] \in [pc : {"claimed", "sending"}, d : Deliveries, token : 1..MaxTokens]
              /\ bridges[b].token \in 1..MaxTokens
BY DEF Types, BridgeStates, Idle

\* What the types say of rows and messages.
LEMMA RowTypes ==
  ASSUME Types
  PROVE  /\ rows \in [Deliveries -> RowStates]
         /\ \A d \in Deliveries : rows[d].count \in 0..(DeadAttempts + MaxLocalAttempts - 1) /\ rows[d].count \in Nat
         /\ \A m \in results \cup handlers :
              m.d \in Deliveries /\ m.token \in 1..MaxTokens /\ m.status \in Reported /\ m.n \in LocalAttempts
         /\ \A h \in handlers : h.count \in Nat
<1>1. rows \in [Deliveries -> RowStates]
  BY DEF Types, OutboxTypes, RowStates
<1>2. \A d \in Deliveries : rows[d].count \in 0..(DeadAttempts + MaxLocalAttempts - 1) /\ rows[d].count \in Nat
  BY <1>1, OutboxAssumption DEF RowStates
<1>3. \A m \in results : m \in ResultMessages
  BY DEF Types
<1>4. \A h \in handlers : h \in Completions
  BY DEF Types
<1> QED
  BY <1>1, <1>2, <1>3, <1>4 DEF ResultMessages, Completions

\* A step that only writes rows of the same type keeps the types.
LEMMA RowsKeepTypes ==
  ASSUME Types, rows' \in [Deliveries -> RowStates],
         UNCHANGED <<attempts, eligible, overran, ledger, bridges, copies, results, handlers>>
  PROVE  Types'
BY DEF Types, OutboxTypes, RowStates

\* A new row.
LEMMA EnqueueInv ==
  ASSUME Inv, NEW d \in Deliveries, Enqueue(d)
  PROVE  Inv'
<1> USE DEF Inv
<1>1. rows' \in [Deliveries -> RowStates]
  BY RowTypes DEF Enqueue, RowStates, Statuses
<1>2. /\ rows[d].status = "none" /\ rows'[d].status = "pending"
      /\ rows'[d].count = rows[d].count /\ rows'[d].token = rows[d].token
      /\ \A e \in Deliveries : e # d => rows'[e] = rows[e]
  BY RowTypes DEF Enqueue, RowStates
<1>3. UNCHANGED <<attempts, eligible, handlers, overran, rulings, bridges, ledger, copies, results, crashes>>
  BY DEF Enqueue, world
<1>4. Types'
  BY <1>1, <1>3, RowsKeepTypes
  DEF Types, OutboxTypes, BridgeStates, ResultMessages, Completions, Reported, Idle, Statuses
<1>5. HostRecord'
  BY <1>2, <1>3, RowTypes, BridgeTypes
  DEF HostRecord, Sending
<1>6. SentWentOut'
  BY <1>2, <1>3, RowTypes, BridgeTypes
  DEF SentWentOut
<1>7. ClaimsHaveRows'
  BY <1>2, <1>3, RowTypes, BridgeTypes
  DEF ClaimsHaveRows
<1>8. CountsAreCurrent'
  BY <1>2, <1>3, RowTypes, BridgeTypes
  DEF CountsAreCurrent, RetriesAreLimited, HoldsLease
<1>9. AttemptsMatchTrail'
  BY <1>2, <1>3, RowTypes, BridgeTypes
  DEF AttemptsMatchTrail
<1>10. LeasesCover'
  BY <1>2, <1>3, RowTypes, BridgeTypes
  DEF LeasesCover, LeaseCovers, Working, HoldsLease
<1> QED
  BY <1>4, <1>5, <1>6, <1>7, <1>8, <1>9, <1>10

\* A retry comes due.
LEMMA RetryDueInv ==
  ASSUME Inv, NEW d \in Deliveries, RetryDue(d)
  PROVE  Inv'
<1> USE DEF Inv
<1>1. rows' \in [Deliveries -> RowStates]
  BY RowTypes DEF RetryDue, RowStates, Statuses
<1>2. /\ rows'[d].status = rows[d].status /\ rows'[d].expired = rows[d].expired
      /\ rows'[d].count = rows[d].count /\ rows'[d].token = rows[d].token
      /\ \A e \in Deliveries : e # d => rows'[e] = rows[e]
  BY RowTypes DEF RetryDue, RowStates
<1>3. UNCHANGED <<attempts, eligible, handlers, overran, rulings, bridges, ledger, copies, results, crashes>>
  BY DEF RetryDue, world
<1>4. Types'
  BY <1>1, <1>3, RowsKeepTypes
  DEF Types, OutboxTypes, BridgeStates, ResultMessages, Completions, Reported, Idle, Statuses
<1>5. HostRecord'
  BY <1>2, <1>3, RowTypes, BridgeTypes
  DEF HostRecord, Sending
<1>6. SentWentOut'
  BY <1>2, <1>3, RowTypes, BridgeTypes
  DEF SentWentOut
<1>7. ClaimsHaveRows'
  BY <1>2, <1>3, RowTypes, BridgeTypes
  DEF ClaimsHaveRows
<1>8. CountsAreCurrent'
  BY <1>2, <1>3, RowTypes, BridgeTypes
  DEF CountsAreCurrent, RetriesAreLimited, HoldsLease
<1>9. AttemptsMatchTrail'
  BY <1>2, <1>3, RowTypes, BridgeTypes
  DEF AttemptsMatchTrail
<1>10. LeasesCover'
  BY <1>2, <1>3, RowTypes, BridgeTypes
  DEF LeasesCover, LeaseCovers, Working, HoldsLease
<1> QED
  BY <1>4, <1>5, <1>6, <1>7, <1>8, <1>9, <1>10

\* An eligibility event changes no row.
LEMMA RuleInv ==
  ASSUME Inv, NEW d \in Deliveries, NEW verdict \in BOOLEAN, Rule(d, verdict)
  PROVE  Inv'
<1> USE DEF Inv
<1>1. UNCHANGED <<rows, attempts, handlers, overran, bridges, ledger, copies, results>>
  BY DEF Rule, world
<1>2. eligible' \in [Deliveries -> BOOLEAN]
  BY DEF Rule, Types, OutboxTypes
<1>3. Types'
  BY <1>1, <1>2
  DEF Types, OutboxTypes, BridgeStates, ResultMessages, Completions, Reported, Idle, Statuses
<1>4. HostRecord'
  BY <1>1
  DEF HostRecord, Sending
<1>5. SentWentOut'
  BY <1>1
  DEF SentWentOut
<1>6. ClaimsHaveRows'
  BY <1>1
  DEF ClaimsHaveRows
<1>7. CountsAreCurrent'
  BY <1>1
  DEF CountsAreCurrent, RetriesAreLimited, HoldsLease
<1>8. AttemptsMatchTrail'
  BY <1>1
  DEF AttemptsMatchTrail
<1>9. LeasesCover'
  BY <1>1
  DEF LeasesCover, LeaseCovers, Working, HoldsLease
<1> QED
  BY <1>3, <1>4, <1>5, <1>6, <1>7, <1>8, <1>9

\* Unsent results of excluded entries are given up.
LEMMA SuppressInv ==
  ASSUME Inv, Suppress
  PROVE  Inv'
<1> USE DEF Inv
<1>1. rows' \in [Deliveries -> RowStates]
  BY RowTypes DEF Suppress, RowStates, Statuses
<1>2. \A d \in Deliveries :
        \/ rows'[d] = rows[d]
        \/ /\ rows[d].status \in {"pending", "retry"} /\ rows'[d].status = "dead"
           /\ rows'[d].count = rows[d].count /\ rows'[d].token = rows[d].token
  BY RowTypes DEF Suppress, RowStates
<1>3. UNCHANGED <<attempts, eligible, handlers, overran, rulings, bridges, ledger, copies, results, crashes>>
  BY DEF Suppress, world
<1>4. Types'
  BY <1>1, <1>3, RowsKeepTypes
  DEF Types, OutboxTypes, BridgeStates, ResultMessages, Completions, Reported, Idle, Statuses
<1>5. HostRecord'
  BY <1>2, <1>3, RowTypes, BridgeTypes
  DEF HostRecord, Sending
<1>6. SentWentOut'
  BY <1>2, <1>3, RowTypes, BridgeTypes
  DEF SentWentOut
<1>7. ClaimsHaveRows'
  BY <1>2, <1>3, RowTypes, BridgeTypes
  DEF ClaimsHaveRows
<1>8. CountsAreCurrent'
  BY <1>2, <1>3, RowTypes, BridgeTypes
  DEF CountsAreCurrent, RetriesAreLimited, HoldsLease
<1>9. AttemptsMatchTrail'
  BY <1>2, <1>3, RowTypes, BridgeTypes
  DEF AttemptsMatchTrail
<1>10. LeasesCover'
  BY <1>2, <1>3, RowTypes, BridgeTypes
  DEF LeasesCover, LeaseCovers, Working, HoldsLease
<1> QED
  BY <1>4, <1>5, <1>6, <1>7, <1>8, <1>9, <1>10

\* A lease ends, under its bridge or after it is gone.
LEMMA LeaseExpiresInv ==
  ASSUME Inv, NEW d \in Deliveries, LeaseExpires(d)
  PROVE  Inv'
<1> USE DEF Inv
<1>1. rows' \in [Deliveries -> RowStates]
  BY RowTypes DEF LeaseExpires, RowStates
<1>2. /\ overran' \in [Deliveries -> 0..MaxOverruns]
      /\ \A e \in Deliveries : e # d => overran'[e] = overran[e]
      /\ overran'[d] = 0 => /\ overran[d] = 0
                            /\ \A b \in Bridges : Working(b, d) => bridges[b].token # rows[d].token
  BY OutboxAssumption DEF LeaseExpires, Types, OutboxTypes, AtWork, Working
<1>3. /\ rows[d].status = "leased" /\ rows'[d].status = "leased"
      /\ rows'[d].count = rows[d].count /\ rows'[d].token = rows[d].token
      /\ \A e \in Deliveries : e # d => rows'[e] = rows[e]
  BY RowTypes DEF LeaseExpires, RowStates
<1>4. UNCHANGED <<attempts, eligible, handlers, rulings, bridges, ledger, copies, results, crashes>>
  BY DEF LeaseExpires, world
<1>5. Types'
  BY <1>1, <1>2, <1>4 DEF Types, OutboxTypes, RowStates
<1>6. HostRecord'
  BY <1>3, <1>4, RowTypes, BridgeTypes
  DEF HostRecord, Sending
<1>7. SentWentOut'
  BY <1>3, <1>4, RowTypes, BridgeTypes
  DEF SentWentOut
<1>8. ClaimsHaveRows'
  BY <1>3, <1>4, RowTypes, BridgeTypes
  DEF ClaimsHaveRows
<1>9. CountsAreCurrent'
  BY <1>3, <1>4, RowTypes, BridgeTypes
  DEF CountsAreCurrent, RetriesAreLimited, HoldsLease
<1>10. AttemptsMatchTrail'
  BY <1>3, <1>4, RowTypes, BridgeTypes
  DEF AttemptsMatchTrail
<1>11. LeasesCover'
  BY <1>3, <1>2, <1>4, RowTypes, BridgeTypes
  DEF LeasesCover, LeaseCovers, Working, HoldsLease
<1> QED
  BY <1>5, <1>6, <1>7, <1>8, <1>9, <1>10, <1>11

\* A SELECT only chooses a candidate.
LEMMA SelectInv ==
  ASSUME Inv, NEW b \in Bridges, Select(b)
  PROVE  Inv'
<1> USE DEF Inv
<1>1. /\ bridges' \in [Bridges -> BridgeStates]
      /\ bridges'[b].pc = "update" /\ bridges'[b].d \in Deliveries
      /\ rows[bridges'[b].d].status # "none"
      /\ \A a \in Bridges : a # b => bridges'[a] = bridges[a]
  BY DEF Select, Types, BridgeStates, Claimable
<1>2. UNCHANGED <<server, ledger, copies, results, crashes>>
  BY DEF Select
<1>3. Types'
  BY <1>1, <1>2 DEF Types, OutboxTypes, BridgeStates, ResultMessages, Completions, Reported, Idle, Statuses, server, BridgeStates
<1>4. HostRecord'
  BY <1>1, <1>2, RowTypes, BridgeTypes DEF HostRecord, Sending, server
<1>5. SentWentOut'
  BY <1>1, <1>2, RowTypes, BridgeTypes DEF SentWentOut, server
<1>6. ClaimsHaveRows'
  BY <1>1, <1>2, RowTypes, BridgeTypes DEF ClaimsHaveRows, server
<1>7. CountsAreCurrent'
  BY <1>1, <1>2, RowTypes, BridgeTypes DEF CountsAreCurrent, RetriesAreLimited, HoldsLease, server
<1>8. AttemptsMatchTrail'
  BY <1>1, <1>2, RowTypes, BridgeTypes DEF AttemptsMatchTrail, server
<1>9. LeasesCover'
  BY <1>1, <1>2, RowTypes, BridgeTypes DEF LeasesCover, LeaseCovers, Working, HoldsLease, server
<1> QED
  BY <1>3, <1>4, <1>5, <1>6, <1>7, <1>8, <1>9

\* Losing a result loses nothing else.
LEMMA LoseResultInv ==
  ASSUME Inv, NEW m \in results, LoseResult(m)
  PROVE  Inv'
<1> USE DEF Inv
<1>1. results' \subseteq results /\ UNCHANGED <<server, bridges, ledger, copies, crashes>>
  BY DEF LoseResult
<1>2. Types'
  BY <1>1 DEF Types, OutboxTypes, BridgeStates, ResultMessages, Completions, Reported, Idle, Statuses, server
<1>3. HostRecord'
  BY <1>1 DEF HostRecord, Sending, server
<1>4. SentWentOut'
  BY <1>1 DEF SentWentOut, server
<1>5. ClaimsHaveRows'
  BY <1>1 DEF ClaimsHaveRows, server
<1>6. CountsAreCurrent'
  BY <1>1 DEF CountsAreCurrent, RetriesAreLimited, HoldsLease, server
<1>7. AttemptsMatchTrail'
  BY <1>1 DEF AttemptsMatchTrail, server
<1>8. LeasesCover'
  BY <1>1 DEF LeasesCover, LeaseCovers, Working, HoldsLease, server
<1> QED
  BY <1>2, <1>3, <1>4, <1>5, <1>6, <1>7, <1>8

\* A completion reads the row its lease is on.
LEMMA ReadResultInv ==
  ASSUME Inv, NEW m \in results, ReadResult(m)
  PROVE  Inv'
<1> USE DEF Inv
<1>1. /\ HoldsLease(m)
      /\ \A h \in handlers' : \/ h \in handlers
                             \/ /\ h.d = m.d /\ h.token = m.token /\ h.status = m.status
                                /\ h.n = m.n /\ h.count = rows[m.d].count
  BY DEF ReadResult
<1>2. handlers' \subseteq Completions
  BY RowTypes DEF ReadResult, Types, Completions
<1>3. UNCHANGED <<rows, attempts, eligible, overran, rulings, world>>
  BY DEF ReadResult
<1>4. Types'
  BY <1>2, <1>3 DEF Types, OutboxTypes, world, Completions
<1>5. HostRecord'
  BY <1>1, <1>3, RowTypes DEF HostRecord, Sending, world
<1>6. SentWentOut'
  BY <1>1, <1>3, RowTypes DEF SentWentOut, world
<1>7. ClaimsHaveRows'
  BY <1>1, <1>3, RowTypes DEF ClaimsHaveRows, world
<1>8. CountsAreCurrent'
  BY <1>1, <1>3, RowTypes DEF CountsAreCurrent, RetriesAreLimited, HoldsLease, world
<1>9. AttemptsMatchTrail'
  BY <1>1, <1>3, RowTypes DEF AttemptsMatchTrail, world
<1>10. LeasesCover'
  BY <1>1, <1>3, RowTypes DEF LeasesCover, LeaseCovers, Working, HoldsLease, world
<1> QED
  BY <1>4, <1>5, <1>6, <1>7, <1>8, <1>9, <1>10

\* A bridge that posts a result is idle, and its result is about its claim.
LEMMA PostFacts ==
  ASSUME Types, NEW b \in Bridges, bridges[b].pc \in {"claimed", "sending"},
         NEW status \in Reported, NEW n \in LocalAttempts, Post(b, status, n)
  PROVE  /\ bridges' \in [Bridges -> BridgeStates] /\ bridges'[b].pc = "idle"
         /\ \A a \in Bridges : a # b => bridges'[a] = bridges[a]
         /\ results' \subseteq ResultMessages
         /\ \A m \in results' :
              \/ m \in results
              \/ m.d = bridges[b].d /\ m.token = bridges[b].token /\ m.status = status
<1>1. Result(b, status, n) \in ResultMessages
  BY BridgeTypes DEF Result, ResultMessages
<1>2. /\ Result(b, status, n).d = bridges[b].d /\ Result(b, status, n).token = bridges[b].token
      /\ Result(b, status, n).status = status
  BY DEF Result
<1>3. results' = results \cup {Result(b, status, n)}
  BY DEF Post
<1>4. bridges' \in [Bridges -> BridgeStates] /\ bridges'[b].pc = "idle"
  BY DEF Post, Types, BridgeStates, Idle
<1>5. \A a \in Bridges : a # b => bridges'[a] = bridges[a]
  BY DEF Post, Types
<1> QED
  BY <1>1, <1>2, <1>3, <1>4, <1>5, Zenon DEF Types

\* A bridge's step that reports: the parts that concern rows only.
LEMMA PostKeeps ==
  ASSUME Inv, NEW b \in Bridges, bridges[b].pc \in {"claimed", "sending"},
         NEW status \in Reported, NEW n \in LocalAttempts, Post(b, status, n), UNCHANGED server,
         ledger' \in [Deliveries -> {"new", "sending", "sent"}], copies' \in [Deliveries -> {0, 1}],
         \A d \in Deliveries : d # bridges[b].d => copies'[d] = copies[d],
         status = "failed" => copies'[bridges[b].d] = 0,
         status = "sent" => copies'[bridges[b].d] = 1,
         copies'[bridges[b].d] # copies[bridges[b].d] => copies'[bridges[b].d] = 1
  PROVE  Types' /\ SentWentOut' /\ ClaimsHaveRows' /\ CountsAreCurrent' /\ AttemptsMatchTrail' /\ LeasesCover'
<1> DEFINE d == bridges[b].d
<1> USE DEF Inv
<1>1. d \in Deliveries /\ Working(b, d)
  BY BridgeTypes DEF Working
<1>2. /\ bridges' \in [Bridges -> BridgeStates] /\ bridges'[b].pc = "idle"
      /\ \A a \in Bridges : a # b => bridges'[a] = bridges[a]
      /\ results' \subseteq ResultMessages
      /\ \A m \in results' :
           \/ m \in results
           \/ m.d = d /\ m.token = bridges[b].token /\ m.status = status
  BY PostFacts
<1>3. UNCHANGED <<rows, attempts, eligible, handlers, overran, rulings>>
  BY DEF server
<1> HIDE DEF d
<1>4. \A e \in Deliveries : copies[e] \in {0, 1} /\ copies'[e] \in {0, 1}
  BY DEF Types
<1>5. \A e \in Deliveries : copies'[e] = copies[e] \/ (e = d /\ copies[e] = 0 /\ copies'[e] = 1)
  <2>1. copies'[d] = copies[d] \/ (copies[d] = 0 /\ copies'[d] = 1)
    BY <1>1, <1>4 DEF d
  <2>2. \A e \in Deliveries : e # d => copies'[e] = copies[e]
    BY DEF d
  <2> QED
    BY <2>1, <2>2
<1>6. Types'
  BY <1>2, <1>3 DEF Types, OutboxTypes, BridgeStates, Idle, ResultMessages
<1>7. SentWentOut'
  <2>1. \A m \in results' : m.status = "sent" => copies'[m.d] = 1
    BY <1>2, <1>5, RowTypes DEF SentWentOut, d
  <2> QED
    BY <2>1, <1>3, <1>5, RowTypes DEF SentWentOut
<1>8. ClaimsHaveRows'
  BY <1>2, <1>3 DEF ClaimsHaveRows
<1>9. CountsAreCurrent' /\ AttemptsMatchTrail'
  BY <1>3 DEF CountsAreCurrent, RetriesAreLimited, AttemptsMatchTrail, HoldsLease
<1>10. ASSUME NEW e \in Deliveries, overran'[e] = 0
       PROVE  LeaseCovers(e)'
  <2>1. LeaseCovers(e) /\ \A a \in Bridges : Working(a, e)' => Working(a, e) /\ a # b /\ bridges'[a] = bridges[a]
    BY <1>2, <1>3, <1>10 DEF LeasesCover, Working
  <2>2. e # d => copies'[e] = copies[e]
    BY DEF d
  <2>3. CASE e # d
    <3>1. \A m \in results' : m.d = e => m \in results
      BY <1>2, <2>3
    <3> QED
      BY <2>1, <2>2, <2>3, <3>1, <1>3 DEF LeaseCovers, HoldsLease
  <2>4. CASE e = d
    <3>1. /\ rows[e].status = "leased" /\ ~ rows[e].expired /\ rows[e].token = bridges[b].token
          /\ \A a \in Bridges : ~ Working(a, e)'
      BY <2>1, <2>4, <1>1 DEF LeaseCovers
    <3>2. \A m \in results \cup handlers : m.d = e => ~ HoldsLease(m)
      BY <2>1, <2>4, <1>1 DEF LeaseCovers
    <3>3. \A h \in handlers' : h.d = e => ~ HoldsLease(h)'
      BY <3>2, <1>3 DEF HoldsLease
    <3>4. \A m \in results' : m.d = e /\ HoldsLease(m)' /\ m.status = "failed" => copies'[e] = 0
      BY <3>2, <2>4, <1>2, <1>3 DEF HoldsLease, d
    <3> QED
      BY <3>1, <3>3, <3>4, <1>3 DEF LeaseCovers
  <2> QED
    BY <2>3, <2>4
<1> QED
  BY <1>6, <1>7, <1>8, <1>9, <1>10 DEF LeasesCover

\* A delivered message: one copy more, recorded by the host.
LEMMA SendSucceedsInv ==
  ASSUME Inv, NEW b \in Bridges, NEW n \in LocalAttempts, SendSucceeds(b, n)
  PROVE  Inv'
<1> DEFINE d == bridges[b].d
<1> USE DEF Inv
<1>1. d \in Deliveries /\ Sending(b, d) /\ copies[d] = 0
  BY BridgeTypes DEF SendSucceeds, Sending, HostRecord
<1>2. /\ ledger' \in [Deliveries -> {"new", "sending", "sent"}] /\ copies' \in [Deliveries -> {0, 1}]
      /\ ledger'[d] = "sent" /\ copies'[d] = 1
      /\ \A e \in Deliveries : e # d => copies'[e] = copies[e] /\ ledger'[e] = ledger[e]
  BY <1>1 DEF SendSucceeds, Types, OutboxTypes
<1>3. Post(b, "sent", n) /\ UNCHANGED server /\ bridges[b].pc = "sending"
  BY DEF SendSucceeds
<1>4. bridges'[b].pc = "idle" /\ \A a \in Bridges : a # b => bridges'[a] = bridges[a]
  BY <1>3, PostFacts DEF Reported
<1>5. Types' /\ SentWentOut' /\ ClaimsHaveRows' /\ CountsAreCurrent' /\ AttemptsMatchTrail' /\ LeasesCover'
  BY <1>1, <1>2, <1>3, PostKeeps DEF Reported
<1> HIDE DEF d
<1>6. HostRecord'
  BY <1>1, <1>2, <1>4 DEF HostRecord, Sending
<1> QED
  BY <1>5, <1>6

\* A refused message: the host forgets that it tried.
LEMMA SendFailsInv ==
  ASSUME Inv, NEW b \in Bridges, NEW n \in LocalAttempts, SendFails(b, n)
  PROVE  Inv'
<1> DEFINE d == bridges[b].d
<1> USE DEF Inv
<1>1. d \in Deliveries /\ Sending(b, d) /\ copies[d] = 0
  BY BridgeTypes DEF SendFails, Sending, HostRecord
<1>2. /\ ledger' \in [Deliveries -> {"new", "sending", "sent"}] /\ copies' = copies
      /\ ledger'[d] = "new" /\ \A e \in Deliveries : e # d => ledger'[e] = ledger[e]
  BY <1>1 DEF SendFails, Types, OutboxTypes
<1>3. Post(b, "failed", n) /\ UNCHANGED server /\ bridges[b].pc = "sending"
  BY DEF SendFails
<1>4. bridges'[b].pc = "idle" /\ \A a \in Bridges : a # b => bridges'[a] = bridges[a]
  BY <1>3, PostFacts DEF Reported
<1>5. Types' /\ SentWentOut' /\ ClaimsHaveRows' /\ CountsAreCurrent' /\ AttemptsMatchTrail' /\ LeasesCover'
  <2>1. copies' \in [Deliveries -> {0, 1}]
    BY <1>2 DEF Types
  <2> QED
    BY <2>1, <1>1, <1>2, <1>3, PostKeeps DEF Reported
<1> HIDE DEF d
<1>6. HostRecord'
  BY <1>1, <1>2, <1>4 DEF HostRecord, Sending
<1> QED
  BY <1>5, <1>6

\* The host's record decides: send, or report what it knows.
LEMMA ConsultInv ==
  ASSUME Inv, NEW b \in Bridges, NEW n \in LocalAttempts, Consult(b, n)
  PROVE  Inv'
<1> DEFINE d == bridges[b].d
<1> USE DEF Inv
<1>1. d \in Deliveries /\ bridges[b].pc = "claimed" /\ Working(b, d)
  BY BridgeTypes DEF Consult, Working
<1>2. UNCHANGED server /\ copies' = copies /\ copies \in [Deliveries -> {0, 1}]
  BY DEF Consult, Types
<1>3. ASSUME NEW status \in {"sent", "ambiguous"}, Post(b, status, n), ledger' = ledger,
             status = "sent" => ledger[d] = "sent"
      PROVE  Inv'
  <2>1. bridges'[b].pc = "idle" /\ \A a \in Bridges : a # b => bridges'[a] = bridges[a]
    BY <1>1, <1>3, PostFacts DEF Reported
  <2>2. HostRecord'
    BY <2>1, <1>2, <1>3 DEF HostRecord, Sending
  <2>3. Types' /\ SentWentOut' /\ ClaimsHaveRows' /\ CountsAreCurrent' /\ AttemptsMatchTrail' /\ LeasesCover'
    <3>1. status = "sent" => copies'[d] = 1
      BY <1>1, <1>2, <1>3 DEF HostRecord
    <3>2. ledger' \in [Deliveries -> {"new", "sending", "sent"}]
      BY <1>3 DEF Types, OutboxTypes
    <3> QED
      BY <3>1, <3>2, <1>1, <1>2, <1>3, PostKeeps DEF Reported
  <2> QED
    BY <2>2, <2>3
<1>4. ASSUME ledger[d] = "new", ledger' = [ledger EXCEPT ![d] = "sending"],
             bridges' = [bridges EXCEPT ![b].pc = "sending"], results' = results
      PROVE  Inv'
  <2>1. /\ bridges' \in [Bridges -> BridgeStates]
        /\ bridges'[b].pc = "sending" /\ bridges'[b].d = d /\ bridges'[b].token = bridges[b].token
        /\ \A a \in Bridges : a # b => bridges'[a] = bridges[a]
    BY <1>1, <1>4, BridgeTypes DEF Types, BridgeStates
  <2>2. /\ ledger' \in [Deliveries -> {"new", "sending", "sent"}]
        /\ ledger'[d] = "sending" /\ \A e \in Deliveries : e # d => ledger'[e] = ledger[e]
    BY <1>1, <1>4 DEF Types, OutboxTypes
  <2>3. UNCHANGED <<rows, attempts, eligible, handlers, overran, rulings, results, copies>>
    BY <1>2, <1>4 DEF server
  <2> HIDE DEF d
  <2>4. Types'
    BY <2>1, <2>2, <2>3 DEF Types, OutboxTypes, BridgeStates, Idle
  <2>5. HostRecord'
    BY <2>1, <2>2, <2>3, <1>1, <1>4 DEF HostRecord, Sending
  <2>6. SentWentOut' /\ CountsAreCurrent' /\ AttemptsMatchTrail'
    BY <2>3 DEF SentWentOut, CountsAreCurrent, RetriesAreLimited, AttemptsMatchTrail, HoldsLease
  <2>7. ClaimsHaveRows'
    BY <2>1, <2>3, <1>1 DEF ClaimsHaveRows, d
  <2>8. LeasesCover'
    <3>1. \A a \in Bridges, e \in Deliveries :
            Working(a, e)' => Working(a, e) /\ bridges'[a].token = bridges[a].token
      BY <2>1, <1>1 DEF Working
    <3> QED
      BY <3>1, <2>3 DEF LeasesCover, LeaseCovers, HoldsLease
  <2> QED
    BY <2>4, <2>5, <2>6, <2>7, <2>8
<1> QED
  BY <1>3, <1>4, Zenon DEF Consult

\* A crash in the middle of a send may leave a copy behind, on the record.
LEMMA BridgeCrashesInv ==
  ASSUME Inv, NEW b \in Bridges, BridgeCrashes(b)
  PROVE  Inv'
<1> DEFINE d == bridges[b].d
<1> USE DEF Inv
<1>1. d \in Deliveries
  BY BridgeTypes DEF BridgeCrashes
<1>2. /\ bridges' \in [Bridges -> BridgeStates] /\ bridges'[b].pc = "idle"
      /\ \A a \in Bridges : a # b => bridges'[a] = bridges[a]
  BY DEF BridgeCrashes, Types, BridgeStates, Idle
<1>3. UNCHANGED <<rows, attempts, eligible, handlers, overran, rulings, ledger, results>>
  BY DEF BridgeCrashes, server
<1>4. /\ copies' \in [Deliveries -> {0, 1}]
      /\ \A e \in Deliveries : \/ copies'[e] = copies[e]
                               \/ e = d /\ Sending(b, d) /\ copies[d] = 0 /\ copies'[d] = 1
  BY <1>1 DEF BridgeCrashes, Types, HostRecord, Sending
<1> HIDE DEF d
<1>5. Types'
  BY <1>2, <1>3, <1>4 DEF Types, OutboxTypes, BridgeStates, Idle
<1>6. HostRecord'
  BY <1>2, <1>3, <1>4 DEF HostRecord, Sending
<1>7. SentWentOut'
  BY <1>3, <1>4, RowTypes DEF SentWentOut
<1>8. ClaimsHaveRows' /\ CountsAreCurrent' /\ AttemptsMatchTrail'
  BY <1>2, <1>3
  DEF ClaimsHaveRows, CountsAreCurrent, RetriesAreLimited, AttemptsMatchTrail, HoldsLease
<1>9. LeasesCover'
  <2>1. \A a \in Bridges, e \in Deliveries : Working(a, e)' => Working(a, e) /\ bridges'[a] = bridges[a]
    BY <1>2 DEF Working
  <2>2. Sending(b, d) => Working(b, d)
    BY DEF Sending, Working
  <2> QED
    BY <2>1, <2>2, <1>1, <1>3, <1>4 DEF LeasesCover, LeaseCovers, HoldsLease
<1> QED
  BY <1>5, <1>6, <1>7, <1>8, <1>9

\* A claim takes a fresh token, so no result of an older claim fits its lease.
LEMMA TakeLeaseInv ==
  ASSUME Inv, NEW b \in Bridges, TakeLease(b)
  PROVE  Inv'
<1> DEFINE d == bridges[b].d
           t == FreshToken(d)
<1> USE DEF Inv
<1>1. d \in Deliveries /\ bridges[b].pc = "update"
  BY BridgeTypes DEF TakeLease
<1>2. UNCHANGED <<attempts, eligible, handlers, overran, rulings, ledger, copies, results>>
  BY DEF TakeLease
<1>3. CASE ~ Claimable(d)
  <2>1. /\ rows' = rows /\ bridges' \in [Bridges -> BridgeStates] /\ bridges'[b].pc = "idle"
        /\ \A a \in Bridges : a # b => bridges'[a] = bridges[a]
    BY <1>3 DEF TakeLease, Types, BridgeStates, Idle
  <2>2. Types'
    BY <1>2, <2>1 DEF Types, OutboxTypes, BridgeStates, Idle
  <2>3. HostRecord' /\ SentWentOut' /\ ClaimsHaveRows'
    BY <1>2, <2>1 DEF HostRecord, Sending, SentWentOut, ClaimsHaveRows
  <2>4. CountsAreCurrent' /\ AttemptsMatchTrail' /\ LeasesCover'
    BY <1>2, <2>1 DEF CountsAreCurrent, RetriesAreLimited, AttemptsMatchTrail, LeasesCover, LeaseCovers, Working, HoldsLease
  <2> QED
    BY <2>2, <2>3, <2>4
<1>4. CASE Claimable(d)
  <2>1. t \in FreshTokens(d)
    BY <1>4, <1>1 DEF TakeLease, FreshToken
  <2>2. t \in 1..MaxTokens /\ \A m \in results \cup handlers : m.d = d => m.token # t
    BY <2>1 DEF FreshTokens
  <2>3. /\ rows' = [rows EXCEPT ![d].status = "leased", ![d].token = t, ![d].expired = FALSE]
        /\ bridges' = [bridges EXCEPT ![b] = [pc |-> "claimed", d |-> d, token |-> t]]
    BY <1>4 DEF TakeLease
  <2> HIDE DEF t
  <2>4. /\ bridges' \in [Bridges -> BridgeStates]
        /\ bridges'[b].pc = "claimed" /\ bridges'[b].d = d /\ bridges'[b].token = t
        /\ \A a \in Bridges : a # b => bridges'[a] = bridges[a]
    BY <1>1, <2>2, <2>3 DEF Types, BridgeStates
  <2> HIDE DEF d
  <2>5. rows' \in [Deliveries -> RowStates]
    <3> DEFINE q == [rows[d] EXCEPT !.status = "leased", !.token = t, !.expired = FALSE]
    <3>1. rows' = [rows EXCEPT ![d] = q]
      BY <1>1, <2>3, RowTypes
    <3>2. q \in RowStates
      <4>1. rows[d] \in RowStates /\ t \in 0..MaxTokens /\ "leased" \in Statuses
        BY <1>1, <2>2, RowTypes, OutboxAssumption DEF Statuses
      <4> QED
        BY <4>1 DEF RowStates
    <3> HIDE DEF q
    <3> QED
      BY <3>1, <3>2, <1>1, RowTypes
  <2>6. /\ rows'[d].status = "leased" /\ rows'[d].token = t /\ rows'[d].count = rows[d].count
        /\ ~ rows'[d].expired
        /\ \A e \in Deliveries : e # d => rows'[e] = rows[e]
    BY <1>1, <2>3, RowTypes DEF RowStates
  <2>7. /\ rows[d].status \in {"pending", "retry", "leased"}
        /\ rows[d].status = "leased" => rows[d].expired
    BY <1>4 DEF Claimable
  <2>8. Types'
    BY <1>2, <2>4, <2>5 DEF Types, OutboxTypes, BridgeStates, Idle, RowStates
  <2>9. HostRecord'
    BY <1>2, <2>4, <1>1 DEF HostRecord, Sending
  <2>10. SentWentOut' /\ ClaimsHaveRows' /\ AttemptsMatchTrail'
    BY <1>1, <1>2, <2>4, <2>6, BridgeTypes DEF SentWentOut, ClaimsHaveRows, AttemptsMatchTrail
  <2>11. CountsAreCurrent'
    BY <1>1, <1>2, <2>2, <2>6, <2>7, RowTypes DEF CountsAreCurrent, RetriesAreLimited, HoldsLease
  <2>12. ASSUME NEW e \in Deliveries, overran'[e] = 0
         PROVE  LeaseCovers(e)'
    <3>1. LeaseCovers(e)
      BY <1>2, <2>12 DEF LeasesCover
    <3>2. CASE e # d
      BY <3>1, <3>2, <1>2, <2>4, <2>6 DEF LeaseCovers, Working, HoldsLease
    <3>3. CASE e = d
      <4>1. \A a \in Bridges : ~ Working(a, d)
        BY <3>1, <3>3, <2>7 DEF LeaseCovers
      <4>2. \A a \in Bridges : Working(a, e)' => a = b
        BY <4>1, <3>3, <2>4 DEF Working
      <4>3. \A m \in results' \cup handlers' : m.d = e => ~ HoldsLease(m)'
        BY <3>3, <1>2, <2>2, <2>6 DEF HoldsLease
      <4> QED
        BY <3>3, <4>2, <4>3, <2>4, <2>6 DEF LeaseCovers
    <3> QED
      BY <3>2, <3>3
  <2> QED
    BY <2>8, <2>9, <2>10, <2>11, <2>12 DEF LeasesCover
<1> QED
  BY <1>3, <1>4

\* What the batch makes of a result.
LEMMA OutcomeFacts ==
  ASSUME NEW h \in Completions
  PROVE  /\ h.status = "sent" => Outcome(h) = "sent"
         /\ h.status = "ambiguous" => Outcome(h) = "ambiguous"
         /\ h.status = "failed" => Outcome(h) \in {"dead", "retry"}
         /\ Outcome(h) = "retry" => h.count + h.n < DeadAttempts
BY OutboxAssumption DEF Outcome, Completions, Reported, LocalAttempts

\* A batch writes only under the lease its completion read the count under.
LEMMA CommitResultInv ==
  ASSUME Inv, NEW h \in handlers, CommitResult(h)
  PROVE  Inv'
<1> DEFINE d == h.d
           o == Outcome(h)
<1> USE DEF Inv
<1>1. h \in Completions
  BY DEF Types
<1>2. /\ d \in Deliveries /\ h.n \in LocalAttempts /\ h.count \in Nat /\ h.status \in Reported
  BY <1>1 DEF Completions
<1>3. /\ UNCHANGED <<eligible, overran, rulings, world>> /\ handlers' \subseteq handlers
  BY DEF CommitResult
<1>4. CASE ~ HoldsLease(h)
  <2>1. UNCHANGED <<rows, attempts>>
    BY <1>4 DEF CommitResult
  <2>2. Types' /\ HostRecord' /\ SentWentOut' /\ ClaimsHaveRows'
    BY <1>3, <2>1 DEF Types, OutboxTypes, HostRecord, Sending, SentWentOut, ClaimsHaveRows, world
  <2>3. CountsAreCurrent' /\ AttemptsMatchTrail' /\ LeasesCover'
    BY <1>3, <2>1 DEF CountsAreCurrent, RetriesAreLimited, AttemptsMatchTrail, LeasesCover, LeaseCovers, Working, HoldsLease, world
  <2> QED
    BY <2>2, <2>3
<1>5. CASE HoldsLease(h)
  <2> DEFINE q == [status |-> o, count |-> h.count + h.n, token |-> None,
                   expired |-> FALSE, waiting |-> o = "retry"]
  <2>1. /\ rows' = [rows EXCEPT ![d] = q]
        /\ attempts' = [attempts EXCEPT ![d] = @ + h.n]
    BY <1>5 DEF CommitResult
  <2>2. /\ o \in {"sent", "ambiguous", "dead", "retry"}
        /\ o = "retry" => h.count + h.n < DeadAttempts
        /\ o = "sent" <=> h.status = "sent"
        /\ o \in {"dead", "retry"} => h.status = "failed"
    BY <1>1, <1>2, OutcomeFacts DEF Reported
  <2>3. /\ rows[d].status = "leased" /\ rows[d].token = h.token
        /\ h.count = rows[d].count /\ h.count < DeadAttempts
    BY <1>2, <1>5 DEF HoldsLease, CountsAreCurrent, RetriesAreLimited
  <2>4. h.count + h.n \in 0..(DeadAttempts + MaxLocalAttempts - 1)
    BY <1>2, <2>3, OutboxAssumption DEF LocalAttempts
  <2>5. (o = "retry") \in BOOLEAN
    OBVIOUS
  <2> HIDE DEF o
  <2>6. q \in RowStates
    BY <2>2, <2>4, <2>5, OutboxAssumption DEF RowStates, Statuses, None
  <2>7. q.status = o /\ q.count = h.count + h.n
    OBVIOUS
  <2> HIDE DEF q, d
  <2>8. /\ rows' \in [Deliveries -> RowStates] /\ rows'[d] = q
        /\ \A e \in Deliveries : e # d => rows'[e] = rows[e]
    BY <1>2, <2>1, <2>6, RowTypes
  <2>9. /\ attempts' \in [Deliveries -> Nat] /\ attempts'[d] = attempts[d] + h.n
        /\ \A e \in Deliveries : e # d => attempts'[e] = attempts[e]
    BY <1>2, <2>1, OutboxAssumption DEF Types, OutboxTypes, LocalAttempts
  <2>10. Types'
    BY <1>3, <2>8, <2>9 DEF Types, OutboxTypes, RowStates, world
  <2>11. HostRecord'
    BY <1>3 DEF HostRecord, Sending, world
  <2>12. SentWentOut'
    BY <1>2, <1>3, <2>2, <2>7, <2>8 DEF SentWentOut, world, d
  <2>13. ClaimsHaveRows'
    BY <1>2, <1>3, <2>2, <2>7, <2>8, BridgeTypes DEF ClaimsHaveRows, world
  <2>14. CountsAreCurrent'
    BY <1>2, <1>3, <2>2, <2>7, <2>8, RowTypes DEF CountsAreCurrent, RetriesAreLimited, HoldsLease
  <2>15. AttemptsMatchTrail'
    BY <1>2, <2>3, <2>7, <2>8, <2>9 DEF AttemptsMatchTrail
  <2>16. ASSUME NEW e \in Deliveries, overran'[e] = 0
         PROVE  LeaseCovers(e)'
    <3>1. LeaseCovers(e)
      BY <1>3, <2>16 DEF LeasesCover
    <3>2. CASE e # d
      BY <3>1, <3>2, <1>3, <2>8 DEF LeaseCovers, Working, HoldsLease, world
    <3>3. CASE e = d
      <4>1. /\ h.status = "failed" => copies[d] = 0
            /\ \A a \in Bridges : ~ Working(a, d)
        BY <3>1, <3>3, <1>5 DEF LeaseCovers, d
      <4> QED
        BY <3>3, <4>1, <1>3, <2>2, <2>7, <2>8 DEF LeaseCovers, Working, HoldsLease, world
    <3> QED
      BY <3>2, <3>3
  <2> QED
    BY <2>10, <2>11, <2>12, <2>13, <2>14, <2>15, <2>16 DEF LeasesCover
<1> QED
  BY <1>4, <1>5

\* Every step preserves the invariant.
LEMMA NextInv ==
  ASSUME Inv, [Next]_vars
  PROVE  Inv'
<1>1. CASE UNCHANGED vars
  <2>1. UNCHANGED <<rows, attempts, eligible, bridges, ledger, copies, results, handlers, overran>>
    BY <1>1 DEF vars, server, world
  <2>2. Types' /\ HostRecord' /\ SentWentOut' /\ ClaimsHaveRows'
    BY <2>1 DEF Inv, Types, OutboxTypes, HostRecord, Sending, SentWentOut, ClaimsHaveRows
  <2>3. CountsAreCurrent' /\ AttemptsMatchTrail' /\ LeasesCover'
    BY <2>1 DEF Inv, CountsAreCurrent, RetriesAreLimited, AttemptsMatchTrail, LeasesCover, LeaseCovers, Working, HoldsLease
  <2> QED
    BY <2>2, <2>3 DEF Inv
<1>2. CASE \E d \in Deliveries : RowStep(d) \/ \E verdict \in BOOLEAN : Rule(d, verdict)
  BY <1>2, EnqueueInv, LeaseExpiresInv, RetryDueInv, RuleInv, Zenon DEF RowStep
<1>3. CASE Suppress
  BY <1>3, SuppressInv
<1>4. CASE \E b \in Bridges : ClaimStep(b) \/ SendStep(b) \/ BridgeCrashes(b)
  BY <1>4, SelectInv, TakeLeaseInv, ConsultInv, SendSucceedsInv, SendFailsInv, BridgeCrashesInv, Zenon
  DEF ClaimStep, SendStep
<1>5. CASE \E m \in results : LoseResult(m) \/ ReadResult(m)
  BY <1>5, LoseResultInv, ReadResultInv, Zenon
<1>6. CASE \E h \in handlers : CommitResult(h)
  BY <1>6, CommitResultInv, Zenon
<1> QED
  BY <1>1, <1>2, <1>3, <1>4, <1>5, <1>6, Zenon DEF Next

\* An empty outbox, idle bridges and a host that has sent nothing.
LEMMA InitInv == Init => Inv
<1> SUFFICES ASSUME Init PROVE Inv
  OBVIOUS
<1>1. /\ \A d \in Deliveries : rows[d] = NoRow /\ copies[d] = 0 /\ ledger[d] = "new" /\ attempts[d] = 0
      /\ \A b \in Bridges : bridges[b].pc = "idle"
      /\ results = {} /\ handlers = {}
  BY DEF Init, Idle
<1>2. NoRow \in RowStates
  BY OutboxAssumption DEF NoRow, RowStates, Statuses, None
<1>3. NoRow.status = "none" /\ NoRow.count = 0
  BY DEF NoRow
<1>4. rows \in [Deliveries -> RowStates]
  BY <1>2 DEF Init
<1>5. eligible \in [Deliveries -> BOOLEAN] /\ overran \in [Deliveries -> 0..MaxOverruns]
  BY OutboxAssumption DEF Init
<1>6. Types
  BY <1>1, <1>4, <1>5 DEF Init, Types, OutboxTypes, RowStates, BridgeStates, Idle
<1>7. HostRecord /\ SentWentOut /\ ClaimsHaveRows
  BY <1>1, <1>3 DEF HostRecord, SentWentOut, ClaimsHaveRows, Sending
<1>8. CountsAreCurrent /\ AttemptsMatchTrail /\ LeasesCover
  BY <1>1, <1>3, OutboxAssumption
  DEF CountsAreCurrent, RetriesAreLimited, AttemptsMatchTrail, LeasesCover, LeaseCovers, Working
<1> QED
  BY <1>6, <1>7, <1>8 DEF Inv

\* The inductive invariant holds in every reachable state.
THEOREM Invariance == Spec => []Inv
BY InitInv, NextInv, PTL DEF Spec

(***************************************************************************)
(* claimDelivery and completeDelivery keep every row a row: a row that is  *)
(* still to be tried is below DELIVERY_DEAD_ATTEMPTS, and only the result  *)
(* that concludes it takes the count further, by less than the attempts    *)
(* one result may report, although each completion adds to a count it read *)
(* before.                                                                 *)
(***************************************************************************)
THEOREM TypeCorrect == Spec => []TypeOK
<1>1. Inv => TypeOK
  BY DEF Inv, Types, CountsAreCurrent, TypeOK
<1> QED
  BY <1>1, Invariance, PTL

(***************************************************************************)
(* The attempt_count completeDelivery writes agrees with the rows of the   *)
(* attempts tables, however many completions overlap.                      *)
(***************************************************************************)
THEOREM CountsMatchTrail == Spec => []AttemptsMatchTrail
<1>1. Inv => AttemptsMatchTrail
  BY DEF Inv
<1> QED
  BY <1>1, Invariance, PTL

(***************************************************************************)
(* As long as no lease of a message ended under a bridge at work, one that *)
(* waits for a retry, was given up or suppressed did not go out.           *)
(***************************************************************************)
THEOREM LeaseMakesUnsentTrue == Spec => []UnsentIsTrue
<1>1. Inv => UnsentIsTrue
  BY DEF Inv, LeasesCover, LeaseCovers, UnsentIsTrue
<1> QED
  BY <1>1, Invariance, PTL

-----------------------------------------------------------------------------
(* The refinement. *)

\* What any step may do to one message, in the detailed specification's terms.
Moved(d) ==
  \/ rows'[d].status = rows[d].status /\ copies'[d] = copies[d]
  \/ rows[d].status = "none" /\ rows'[d].status = "pending" /\ copies'[d] = copies[d]
  \/ /\ rows[d].status \in {"pending", "leased", "retry"}
     /\ rows'[d].status \in {"leased", "retry", "ambiguous", "dead", "sent"}
     /\ rows'[d].status = "sent" => copies[d] = 1
     /\ copies'[d] = copies[d]
  \/ /\ rows'[d].status = rows[d].status /\ rows[d].status \notin {"none", "sent"}
     /\ copies[d] = 0 /\ copies'[d] = 1

\* Rows that appear or whose time passes.
LEMMA RowStepMoves ==
  ASSUME Inv, NEW c \in Deliveries, RowStep(c), NEW d \in Deliveries
  PROVE  Moved(d)
<1>1. copies' = copies
  BY DEF RowStep, Enqueue, LeaseExpires, RetryDue, world
<1>2. CASE d # c
  BY <1>1, <1>2, RowTypes DEF Inv, RowStep, Enqueue, LeaseExpires, RetryDue, Moved
<1>3. CASE d = c
  BY <1>1, <1>3, RowTypes DEF Inv, RowStep, Enqueue, LeaseExpires, RetryDue, Moved, RowStates
<1> QED
  BY <1>2, <1>3

\* A claim leaves its message queued.
LEMMA ClaimStepMoves ==
  ASSUME Inv, NEW b \in Bridges, ClaimStep(b), NEW d \in Deliveries
  PROVE  Moved(d)
<1>1. copies' = copies
  BY DEF ClaimStep, Select, TakeLease
<1>2. CASE rows' = rows
  BY <1>1, <1>2 DEF Moved
<1>3. CASE rows' # rows
  <2> DEFINE c == bridges[b].d
  <2>1. /\ bridges[b].pc = "update" /\ Claimable(c)
        /\ rows' = [rows EXCEPT ![c].status = "leased", ![c].token = FreshToken(c), ![c].expired = FALSE]
    BY <1>3 DEF ClaimStep, Select, TakeLease, server
  <2>2. c \in Deliveries /\ rows[c].status \in {"pending", "leased", "retry"}
    BY <2>1, BridgeTypes DEF Inv, Claimable
  <2> HIDE DEF c
  <2> QED
    BY <1>1, <2>1, <2>2, RowTypes DEF Inv, Moved, RowStates
<1> QED
  BY <1>2, <1>3

\* A bridge sends a message that exists, has no copy and is not recorded as sent.
LEMMA BridgeStepMoves ==
  ASSUME Inv, NEW b \in Bridges, SendStep(b) \/ BridgeCrashes(b), NEW d \in Deliveries
  PROVE  Moved(d)
<1>1. rows' = rows
  BY DEF SendStep, Consult, SendSucceeds, SendFails, BridgeCrashes, server
<1>2. CASE copies' = copies
  BY <1>1, <1>2 DEF Moved
<1>3. CASE copies' # copies
  <2> DEFINE c == bridges[b].d
  <2>1. bridges[b].pc = "sending" /\ copies' = [copies EXCEPT ![c] = @ + 1]
    BY <1>3, Zenon DEF SendStep, Consult, SendSucceeds, SendFails, BridgeCrashes
  <2>2. c \in Deliveries /\ copies[c] = 0 /\ rows[c].status # "none"
    BY <2>1, BridgeTypes DEF Inv, HostRecord, Sending, ClaimsHaveRows
  <2>3. rows[c].status # "sent"
    BY <2>2 DEF Inv, SentWentOut
  <2> HIDE DEF c
  <2>4. copies'[c] = 1 /\ \A e \in Deliveries : e # c => copies'[e] = copies[e]
    BY <2>1, <2>2 DEF Inv, Types
  <2> QED
    BY <1>1, <2>2, <2>3, <2>4 DEF Moved
<1> QED
  BY <1>2, <1>3

\* A completion concludes a message, or queues it again, under its lease.
LEMMA CommitMoves ==
  ASSUME Inv, NEW h \in handlers, CommitResult(h), NEW d \in Deliveries
  PROVE  Moved(d)
<1>1. copies' = copies
  BY DEF CommitResult, world
<1>2. CASE ~ HoldsLease(h)
  BY <1>1, <1>2 DEF CommitResult, Moved
<1>3. CASE HoldsLease(h)
  <2> DEFINE q == [status |-> Outcome(h), count |-> h.count + h.n, token |-> None,
                   expired |-> FALSE, waiting |-> Outcome(h) = "retry"]
  <2>1. rows' = [rows EXCEPT ![h.d] = q]
    BY <1>3 DEF CommitResult
  <2>2. h \in Completions /\ h.d \in Deliveries /\ h.status \in Reported
    BY DEF Inv, Types, Completions
  <2>3. /\ Outcome(h) \in {"retry", "ambiguous", "dead", "sent"}
        /\ Outcome(h) = "sent" => copies[h.d] = 1
    BY <2>2, OutcomeFacts DEF Reported, Inv, SentWentOut
  <2>4. q.status = Outcome(h)
    OBVIOUS
  <2> HIDE DEF q
  <2>5. rows'[h.d].status = Outcome(h) /\ \A e \in Deliveries : e # h.d => rows'[e] = rows[e]
    BY <2>1, <2>2, <2>4, RowTypes DEF Inv
  <2> QED
    BY <1>1, <1>3, <2>2, <2>3, <2>5 DEF Moved, HoldsLease
<1> QED
  BY <1>2, <1>3

\* Every step moves every message one of these ways.
LEMMA EveryStepMoves ==
  ASSUME Inv, [Next]_vars, NEW d \in Deliveries
  PROVE  Moved(d)
<1>1. CASE UNCHANGED vars
  BY <1>1 DEF vars, server, world, Moved
<1>2. ASSUME NEW c \in Deliveries, NEW verdict \in BOOLEAN, Rule(c, verdict)
      PROVE  Moved(d)
  BY <1>2 DEF Rule, world, Moved
<1>3. CASE Suppress
  <2>1. copies' = copies
    BY <1>3 DEF Suppress, world
  <2>2. \/ rows'[d] = rows[d]
        \/ rows[d].status \in {"pending", "retry"} /\ rows'[d].status = "dead"
    BY <1>3, RowTypes DEF Suppress, Inv, RowStates
  <2> QED
    BY <2>1, <2>2 DEF Moved
<1>4. ASSUME NEW m \in results, LoseResult(m) \/ ReadResult(m)
      PROVE  Moved(d)
  BY <1>4 DEF LoseResult, ReadResult, server, world, Moved
<1> QED
  BY <1>1, <1>2, <1>3, <1>4, RowStepMoves, ClaimStepMoves, BridgeStepMoves, CommitMoves, Zenon DEF Next

\* Every step is a step of the promise.
LEMMA StepRefines ==
  ASSUME Inv, Inv', [Next]_vars
  PROVE  Promise!Next
<1>1. DOMAIN Outcomes' = Deliveries /\ DOMAIN copies' = Deliveries
  BY DEF Outcomes, Inv, Types
<1>2. ASSUME NEW d \in Deliveries
      PROVE  Promise!Enqueue(d) \/ Promise!Send(d) \/ Promise!Conclude(d) \/ Promise!Rest(d)
  <2>1. /\ Outcomes[d] = IF rows[d].status \in {"pending", "leased", "retry"} THEN "queued"
                                                                             ELSE rows[d].status
        /\ Outcomes'[d] = IF rows'[d].status \in {"pending", "leased", "retry"} THEN "queued"
                                                                               ELSE rows'[d].status
    BY DEF Outcomes
  <2>2. rows[d].status \in Statuses
    BY RowTypes DEF Inv, RowStates
  <2>3. Moved(d)
    BY EveryStepMoves
  <2> QED
    BY <2>1, <2>2, <2>3
    DEF Moved, Statuses, Promise!Enqueue, Promise!Send, Promise!Conclude, Promise!Rest, Promise!Conclusions
<1> QED
  BY <1>1, <1>2 DEF Promise!Next

(***************************************************************************)
(* Claims, leases, results and bridges, with every interleaving, crash and *)
(* loss, implement the promise of Delivery: no message goes out twice,     *)
(* none is concluded twice, and a message recorded as sent did go out.     *)
(***************************************************************************)
THEOREM OutboxImplementsDelivery == Spec => ImplementsDelivery
<1>1. Init => Promise!Init
  BY DEF Init, Promise!Init, Outcomes, NoRow
<1>2. Inv /\ Inv' /\ [Next]_vars => [Promise!Next]_(Promise!vars)
  BY StepRefines
<1> QED
  BY <1>1, <1>2, Invariance, PTL DEF Spec, ImplementsDelivery, Promise!Spec

-----------------------------------------------------------------------------
(***************************************************************************)
(* Part 2: LottoGeneration.                                                *)
(***************************************************************************)
HoldingPcs == {"begin", "generate", "commit", "readback", "fail", "record", "release"}
CountingPcs == {"begin", "generate", "commit"}

Tasks ==
  [pc : HoldingPcs \cup {"check", "acquire"}, game : Game, count : Counts \cup {Invalid},
   now : {"present", "earlier", "later"}, late : BOOLEAN, lapsed : BOOLEAN, attempts : Nat, missed : BOOLEAN]

GenerationTypes ==
  /\ GenerationTypeOK
  /\ config \in [Game -> Counts \cup {Invalid}]
  /\ leases \in [Game -> [holder : Workers \cup {Nobody}, expired : BOOLEAN]]
  /\ workers \in [Workers -> {NoTask} \cup Tasks]

\* A worker whose lease has not lapsed holds it.
HoldsItsLease(t, w) ==
  t.pc \in HoldingPcs /\ ~ t.lapsed =>
    leases[t.game].holder = w /\ ~ leases[t.game].expired

\* A worker on its way to a commit has a ticket count to commit, and it is the
\* configured one unless the configuration was edited.
HasItsCount(t) ==
  /\ t.pc \in CountingPcs => t.count \in Counts
  /\ t.pc \in CountingPcs \cup {"acquire"} /\ t.count # Invalid /\ t.game \notin edited =>
       t.count = config[t.game]

\* A game has picks and tickets exactly when its run is generated.
Backed(g) ==
  IF Generated(g)
  THEN /\ g \in picks /\ runs[g].count \in Counts /\ tickets[g] >= runs[g].count
       /\ g \notin edited => runs[g].count = config[g] /\ tickets[g] = config[g]
  ELSE g \notin picks /\ tickets[g] = 0

GenerationInv ==
  /\ GenerationTypes
  /\ \A w \in Workers : HoldsItsLease(workers[w], w)
  /\ \A w \in Workers : HasItsCount(workers[w])
  /\ \A g \in Game : Backed(g)
  /\ GivingUpIsAnnounced

-----------------------------------------------------------------------------
\* A worker that is at something has a task.
LEMMA WorkerHasTask ==
  ASSUME GenerationTypes, NEW w \in Workers, workers[w].pc # "idle"
  PROVE  workers[w] \in Tasks
BY DEF GenerationTypes, NoTask

\* A new task is a task.
LEMMA TaskIsTask ==
  ASSUME NEW pc \in HoldingPcs \cup {"check", "acquire"}, NEW g \in Game
  PROVE  Task(pc, g) \in Tasks
BY DEF Task, Tasks

\* A step of one worker that writes no table: it may not come to hold a lease,
\* nor come by a ticket count other than the configured one.
LEMMA WorkerMoves ==
  ASSUME GenerationInv, NEW w \in Workers, NEW t \in {NoTask} \cup Tasks,
         workers' = [workers EXCEPT ![w] = t],
         UNCHANGED <<config, runs, tickets, picks, alerts, leases, edited>>,
         HoldsItsLease(t, w), HasItsCount(t)
  PROVE  GenerationInv'
<1>1. GenerationTypes'
  BY DEF GenerationInv, GenerationTypes, GenerationTypeOK
<1>2. \A v \in Workers : workers'[v] = IF v = w THEN t ELSE workers[v]
  BY DEF GenerationInv, GenerationTypes
<1>3. ASSUME NEW v \in Workers PROVE HoldsItsLease(workers[v], v)'
  BY <1>2 DEF GenerationInv, HoldsItsLease
<1>4. ASSUME NEW v \in Workers PROVE HasItsCount(workers[v])'
  BY <1>2 DEF GenerationInv, HasItsCount
<1>5. \A g \in Game : Backed(g)'
  BY DEF GenerationInv, Backed, Generated
<1>6. GivingUpIsAnnounced'
  BY DEF GenerationInv, GivingUpIsAnnounced
<1> QED
  BY <1>1, <1>3, <1>4, <1>5, <1>6 DEF GenerationInv

\* A worker ends, or a request is cut off.
LEMMA QuitInv ==
  ASSUME GenerationInv, NEW w \in Workers, Quit(w),
         UNCHANGED <<config, runs, tickets, picks, alerts, leases, edited>>
  PROVE  GenerationInv'
<1>1. HoldsItsLease(NoTask, w) /\ HasItsCount(NoTask)
  BY DEF HoldsItsLease, HasItsCount, NoTask, HoldingPcs, CountingPcs
<1> QED
  BY <1>1, WorkerMoves DEF Quit

LEMMA DieInv == ASSUME GenerationInv, NEW w \in Workers, Die(w) PROVE GenerationInv'
BY QuitInv DEF Die, tables

\* A new task holds nothing yet.
LEMMA StartInv ==
  ASSUME GenerationInv, NEW w \in Workers, NEW g \in Game, NEW pc \in {"check", "acquire"},
         Start(w, g, pc), UNCHANGED <<config, runs, tickets, picks, alerts, leases, edited>>
  PROVE  GenerationInv'
<1>1. Task(pc, g) \in Tasks
  BY TaskIsTask DEF HoldingPcs
<1>2. HoldsItsLease(Task(pc, g), w) /\ HasItsCount(Task(pc, g))
  BY DEF HoldsItsLease, HasItsCount, Task, HoldingPcs, CountingPcs
<1> QED
  BY <1>1, <1>2, WorkerMoves DEF Start

LEMMA RequestInv ==
  ASSUME GenerationInv, NEW w \in Workers, NEW g \in Game, Request(w, g) PROVE GenerationInv'
BY StartInv DEF Request, tables

\* The first of a set of games is one of them.
LEMMA FirstIsOne ==
  ASSUME NEW S \in SUBSET DOMAIN Games, S # {}
  PROVE  Games[First(S)] \in Game
<1>1. DOMAIN Games \in SUBSET Nat
  BY GenerationAssumption
<1>2. \E m \in S : \A k \in S : m <= k
  BY <1>1, LeastNat
<1>3. First(S) \in S
  BY <1>2 DEF First
<1> QED
  BY <1>3 DEF Game

LEMMA ScheduleInv == ASSUME GenerationInv, NEW w \in Workers, Schedule(w) PROVE GenerationInv'
<1> DEFINE S == IF NeverAttempted # {} THEN NeverAttempted ELSE Retryable
           g == Games[First(S)]
<1>1. S \in SUBSET DOMAIN Games /\ S # {}
  BY DEF Schedule, NeverAttempted, Retryable
<1>2. g \in Game
  BY <1>1, FirstIsOne
<1>3. Start(w, g, IF config[g] = Invalid THEN "acquire" ELSE "check")
  BY DEF Schedule
<1>4. UNCHANGED <<config, runs, tickets, picks, alerts, leases, edited>>
  BY DEF Schedule, tables, bounds
<1> HIDE DEF g, S
<1>5. CASE config[g] = Invalid
  BY <1>2, <1>3, <1>4, <1>5, StartInv
<1>6. CASE config[g] # Invalid
  BY <1>2, <1>3, <1>4, <1>6, StartInv
<1> QED
  BY <1>5, <1>6

\* So does a request that brings a time of its own.
LEMMA RunRequestInv ==
  ASSUME GenerationInv, NEW w \in Workers, NEW now \in {"earlier", "later"}, RunRequest(w, now)
  PROVE  GenerationInv'
<1>1. PICK due \in SUBSET (NeverAttempted \cup Failed) :
        LET g == Games[First(IF due \cap NeverAttempted # {} THEN due \cap NeverAttempted ELSE due)]
        IN  /\ due # {}
            /\ workers' = [workers EXCEPT ![w] =
                 IF config[g] = Invalid THEN [Task("acquire", g) EXCEPT !.now = now]
                                        ELSE Task("check", g)]
  BY DEF RunRequest
<1> DEFINE S == IF due \cap NeverAttempted # {} THEN due \cap NeverAttempted ELSE due
           g == Games[First(S)]
           t == [Task("acquire", g) EXCEPT !.now = now]
<1>2. S \in SUBSET DOMAIN Games /\ S # {}
  BY <1>1 DEF NeverAttempted, Failed
<1>3. g \in Game
  BY <1>2, FirstIsOne
<1>4. UNCHANGED <<config, runs, tickets, picks, alerts, leases, edited>>
  BY DEF RunRequest, tables
<1>5. workers' = [workers EXCEPT ![w] = IF config[g] = Invalid THEN t ELSE Task("check", g)]
  BY <1>1
<1> HIDE DEF g, S
<1>6. CASE config[g] = Invalid
  <2>1. t \in Tasks /\ t.pc = "acquire" /\ t.count = Invalid
    BY <1>3 DEF Task, Tasks
  <2> HIDE DEF t
  <2>2. HoldsItsLease(t, w) /\ HasItsCount(t)
    BY <2>1 DEF HoldsItsLease, HasItsCount, HoldingPcs, CountingPcs
  <2>3. workers' = [workers EXCEPT ![w] = t]
    BY <1>5, <1>6
  <2> QED
    BY <1>4, <2>1, <2>2, <2>3, WorkerMoves
<1>7. CASE config[g] # Invalid
  <2>1. Start(w, g, "check")
    BY <1>5, <1>7 DEF Start
  <2> QED
    BY <1>3, <1>4, <2>1, StartInv
<1> QED
  BY <1>6, <1>7

LEMMA CheckInv == ASSUME GenerationInv, NEW w \in Workers, Check(w) PROVE GenerationInv'
<1> DEFINE g == workers[w].game
           t == [workers[w] EXCEPT !.pc = "acquire", !.count = config[g]]
<1>1. workers[w] \in Tasks /\ config[g] \in Counts \cup {Invalid}
  <2>1. workers[w] \in Tasks
    BY WorkerHasTask DEF GenerationInv, Check
  <2> QED
    BY <2>1 DEF GenerationInv, GenerationTypes, Tasks
<1>2. UNCHANGED <<config, runs, tickets, picks, alerts, leases, edited>>
  BY DEF Check, tables, bounds
<1>3. CASE workers' = [workers EXCEPT ![w] = NoTask]
  BY <1>2, <1>3, QuitInv DEF Quit
<1>4. CASE workers' = [workers EXCEPT ![w] = t]
  <2>1. t \in Tasks /\ t.pc = "acquire" /\ t.game = g /\ t.count = config[g]
    BY <1>1 DEF Tasks
  <2> HIDE DEF t
  <2>2. HoldsItsLease(t, w) /\ HasItsCount(t)
    BY <2>1 DEF HoldsItsLease, HasItsCount, HoldingPcs, CountingPcs
  <2> QED
    BY <1>2, <1>4, <2>1, <2>2, WorkerMoves
<1> QED
  BY <1>3, <1>4 DEF Check

\* A worker goes on under the lease and with the count it has.
LEMMA GoesOnInv ==
  ASSUME GenerationInv, NEW w \in Workers, workers[w] \in Tasks, NEW t \in Tasks,
         workers' = [workers EXCEPT ![w] = t],
         UNCHANGED <<config, runs, tickets, picks, alerts, leases, edited>>,
         t.game = workers[w].game, t.lapsed = workers[w].lapsed,
         workers[w].pc \in HoldingPcs,
         t.pc \in CountingPcs => workers[w].pc \in CountingPcs /\ t.count = workers[w].count,
         t.pc \in HoldingPcs
  PROVE  GenerationInv'
<1>1. HoldsItsLease(t, w)
  BY DEF GenerationInv, HoldsItsLease
<1>2. HasItsCount(t)
  BY DEF GenerationInv, HasItsCount, HoldingPcs, CountingPcs
<1> QED
  BY <1>1, <1>2, WorkerMoves

LEMMA BeginInv == ASSUME GenerationInv, NEW w \in Workers, Begin(w) PROVE GenerationInv'
<1>1. workers[w] \in Tasks /\ workers[w].pc = "begin"
  BY WorkerHasTask DEF GenerationInv, Begin
<1>2. UNCHANGED <<config, runs, tickets, picks, alerts, leases, edited>>
  BY DEF Begin, tables, bounds
<1>3. PICK pc \in {"fail", "generate"} : workers' = [workers EXCEPT ![w].pc = pc]
  BY DEF Begin, Become
<1> DEFINE t == [workers[w] EXCEPT !.pc = pc]
<1>4. /\ t \in Tasks /\ t.pc = pc /\ t.game = workers[w].game
      /\ t.lapsed = workers[w].lapsed /\ t.count = workers[w].count
  BY <1>1 DEF Tasks, HoldingPcs
<1>5. workers' = [workers EXCEPT ![w] = t]
  BY <1>3 DEF GenerationInv, GenerationTypes
<1> HIDE DEF t
<1> QED
  BY <1>1, <1>2, <1>4, <1>5, GoesOnInv DEF HoldingPcs, CountingPcs

LEMMA GenerateInv ==
  ASSUME GenerationInv, NEW w \in Workers, NEW ok \in BOOLEAN, Generate(w, ok) PROVE GenerationInv'
<1>1. workers[w] \in Tasks /\ workers[w].pc = "generate"
  BY WorkerHasTask DEF GenerationInv, Generate
<1>2. UNCHANGED <<config, runs, tickets, picks, alerts, leases, edited>>
  BY DEF Generate, tables, bounds
<1>3. PICK pc \in {"fail", "commit"}, late \in BOOLEAN :
        workers' = [workers EXCEPT ![w].pc = pc, ![w].late = late]
  BY DEF Generate
<1> DEFINE t == [workers[w] EXCEPT !.pc = pc, !.late = late]
<1>4. /\ t \in Tasks /\ t.pc = pc /\ t.game = workers[w].game
      /\ t.lapsed = workers[w].lapsed /\ t.count = workers[w].count
  BY <1>1 DEF Tasks, HoldingPcs
<1>5. workers' = [workers EXCEPT ![w] = t]
  BY <1>3 DEF GenerationInv, GenerationTypes
<1> HIDE DEF t
<1> QED
  BY <1>1, <1>2, <1>4, <1>5, GoesOnInv DEF HoldingPcs, CountingPcs

\* The task that is left when a worker comes to its finally block.
LEMMA EndingTask ==
  ASSUME GenerationTypes, NEW w \in Workers, workers[w].pc \in HoldingPcs, Ending(w)
  PROVE  \E t \in Tasks : /\ workers' = [workers EXCEPT ![w] = t]
                          /\ t.pc = "release" /\ t.game = workers[w].game
                          /\ t.lapsed = workers[w].lapsed
<1>1. workers[w] \in Tasks
  BY WorkerHasTask DEF HoldingPcs
<1> DEFINE t == [Task("release", workers[w].game) EXCEPT !.lapsed = workers[w].lapsed]
<1>2. /\ t \in Tasks /\ t.pc = "release" /\ t.game = workers[w].game
      /\ t.lapsed = workers[w].lapsed
  BY <1>1 DEF Task, Tasks, HoldingPcs
<1>3. workers' = [workers EXCEPT ![w] = t]
  BY DEF Ending, GenerationTypes
<1> HIDE DEF t
<1> QED
  BY <1>2, <1>3

LEMMA ReadBackInv ==
  ASSUME GenerationInv, NEW w \in Workers, NEW ok \in BOOLEAN, ReadBack(w, ok) PROVE GenerationInv'
<1>1. workers[w] \in Tasks /\ workers[w].pc = "readback" /\ workers[w].pc \in HoldingPcs
  BY WorkerHasTask DEF GenerationInv, ReadBack, HoldingPcs
<1>2. UNCHANGED <<config, runs, tickets, picks, alerts, leases, edited>>
  BY DEF ReadBack, tables, bounds
<1>3. CASE Ending(w)
  <2>1. PICK t \in Tasks : /\ workers' = [workers EXCEPT ![w] = t]
                           /\ t.pc = "release" /\ t.game = workers[w].game
                           /\ t.lapsed = workers[w].lapsed
    BY <1>1, <1>3, EndingTask DEF GenerationInv
  <2> QED
    BY <1>1, <1>2, <2>1, GoesOnInv DEF HoldingPcs, CountingPcs
<1>4. CASE Become(w, "fail")
  <2> DEFINE t == [workers[w] EXCEPT !.pc = "fail"]
  <2>1. /\ t \in Tasks /\ t.pc = "fail" /\ t.game = workers[w].game
        /\ t.lapsed = workers[w].lapsed
    BY <1>1 DEF Tasks, HoldingPcs
  <2>2. workers' = [workers EXCEPT ![w] = t]
    BY <1>4 DEF Become, GenerationInv, GenerationTypes
  <2> HIDE DEF t
  <2> QED
    BY <1>1, <1>2, <2>1, <2>2, GoesOnInv DEF HoldingPcs, CountingPcs
<1> QED
  BY <1>3, <1>4 DEF ReadBack

LEMMA FailInv == ASSUME GenerationInv, NEW w \in Workers, Fail(w) PROVE GenerationInv'
<1>1. workers[w] \in Tasks /\ workers[w].pc = "fail"
  BY WorkerHasTask DEF GenerationInv, Fail
<1>2. UNCHANGED <<config, runs, tickets, picks, alerts, leases, edited>>
  BY DEF Fail, tables, bounds
<1>3. runs[workers[w].game].attempts + 1 \in Nat
  BY <1>1 DEF GenerationInv, GenerationTypes, GenerationTypeOK, Tasks
<1>4. PICK n \in Nat, missed \in BOOLEAN :
        workers' = [workers EXCEPT ![w].pc = "record", ![w].attempts = n, ![w].missed = missed]
  <2>1. Judged(window[workers[w].game] = "closed", workers[w].now) \subseteq BOOLEAN
    BY DEF Judged
  <2> QED
    BY <1>3, <2>1 DEF Fail
<1> DEFINE t == [workers[w] EXCEPT !.pc = "record", !.attempts = n, !.missed = missed]
<1>5. /\ t \in Tasks /\ t.pc = "record" /\ t.game = workers[w].game
      /\ t.lapsed = workers[w].lapsed
  BY <1>1 DEF Tasks, HoldingPcs
<1>6. workers' = [workers EXCEPT ![w] = t]
  BY <1>4 DEF GenerationInv, GenerationTypes
<1> HIDE DEF t
<1> QED
  BY <1>1, <1>2, <1>5, <1>6, GoesOnInv DEF HoldingPcs, CountingPcs

-----------------------------------------------------------------------------
(* The lease. *)

\* The tables do not change when workers and leases do.
LEMMA TablesStay ==
  ASSUME GenerationInv, UNCHANGED <<config, runs, tickets, picks, alerts, edited>>
  PROVE  /\ \A g \in Game : Backed(g)'
         /\ GivingUpIsAnnounced' /\ GenerationTypeOK'
         /\ config' \in [Game -> Counts \cup {Invalid}]
<1>1. \A g \in Game : Backed(g)'
  BY DEF GenerationInv, Backed, Generated
<1> QED
  BY <1>1 DEF GenerationInv, GivingUpIsAnnounced, GenerationTypes, GenerationTypeOK

\* Whoever takes a lease leaves nobody working under the one it replaces, but
\* a worker whose lease has lapsed by that.
LEMMA AcquireInv == ASSUME GenerationInv, NEW w \in Workers, Acquire(w) PROVE GenerationInv'
<1> DEFINE g == workers[w].game
           old == leases[g].holder
           pc == IF workers[w].count = Invalid THEN "fail" ELSE "begin"
           Lapsed(v) == [workers[v] EXCEPT !.lapsed = TRUE]
<1>1. workers[w] \in Tasks /\ workers[w].pc = "acquire" /\ g \in Game
  <2>1. workers[w] \in Tasks /\ workers[w].pc = "acquire"
    BY WorkerHasTask DEF GenerationInv, Acquire
  <2> QED
    BY <2>1 DEF Tasks
<1>2. UNCHANGED <<config, runs, tickets, picks, alerts, edited>>
  BY DEF Acquire, tables, bounds
<1>3. CASE Quit(w) /\ UNCHANGED leases
  BY <1>2, <1>3, QuitInv
<1>4. ASSUME NEW spent \in BOOLEAN,
             leases' = [leases EXCEPT ![g] = [holder |-> w, expired |-> spent]],
             workers' = [v \in Workers |->
               IF v = w THEN [workers[w] EXCEPT !.lapsed = spent, !.pc = pc]
               ELSE IF v = old /\ Holding(v, g) THEN Lapsed(v) ELSE workers[v]]
      PROVE  GenerationInv'
  <2> DEFINE t == [workers[w] EXCEPT !.lapsed = spent, !.pc = pc]
  <2>1. /\ t \in Tasks /\ t.pc = pc /\ t.game = g /\ t.count = workers[w].count
        /\ t.lapsed = spent
    BY <1>1 DEF Tasks, HoldingPcs
  <2>2. pc = "begin" => t.count \in Counts
    BY <1>1, <2>1 DEF Tasks
  <2> HIDE DEF t
  <2>3. workers'[w] = t
    BY <1>4 DEF t
  <2>4. ASSUME NEW v \in Workers, v # w
        PROVE  \/ workers'[v] = workers[v] /\ ~ (v = old /\ Holding(v, g))
               \/ /\ workers[v] \in Tasks /\ workers'[v] = Lapsed(v) /\ Lapsed(v) \in Tasks
                  /\ Lapsed(v).lapsed /\ Lapsed(v).pc = workers[v].pc
                  /\ Lapsed(v).game = workers[v].game /\ Lapsed(v).count = workers[v].count
    <3>1. CASE v = old /\ Holding(v, g)
      <4>1. workers[v] \in Tasks
        BY <3>1, WorkerHasTask DEF GenerationInv, Holding
      <4>2. workers'[v] = Lapsed(v)
        BY <1>4, <2>4, <3>1
      <4> QED
        BY <4>1, <4>2 DEF Tasks
    <3>2. CASE ~ (v = old /\ Holding(v, g))
      BY <1>4, <2>4, <3>2
    <3> QED
      BY <3>1, <3>2
  <2>5. leases'[g].holder = w /\ leases'[g].expired = spent
        /\ \A h \in Game : h # g => leases'[h] = leases[h]
    BY <1>1, <1>4 DEF GenerationInv, GenerationTypes
  <2> HIDE DEF Lapsed
  <2>6. GenerationTypes'
    <3>1. leases' \in [Game -> [holder : Workers \cup {Nobody}, expired : BOOLEAN]]
      BY <1>4 DEF GenerationInv, GenerationTypes
    <3>2. workers' \in [Workers -> {NoTask} \cup Tasks]
      <4>1. \A v \in Workers : workers'[v] \in {NoTask} \cup Tasks
        BY <2>1, <2>3, <2>4 DEF GenerationInv, GenerationTypes
      <4>2. \E f : workers' = [v \in Workers |-> f[v]]
        BY <1>4
      <4> QED
        BY <4>1, <4>2
    <3> QED
      BY <1>2, <3>1, <3>2, TablesStay DEF GenerationTypes
  <2>7. ASSUME NEW v \in Workers PROVE HoldsItsLease(workers[v], v)'
    <3>1. CASE v = w
      BY <2>1, <2>3, <2>5, <3>1 DEF HoldsItsLease
    <3>2. CASE v # w
      <4>1. SUFFICES ASSUME workers'[v].pc \in HoldingPcs, ~ workers'[v].lapsed
                     PROVE  leases'[workers'[v].game].holder = v
                            /\ ~ leases'[workers'[v].game].expired
        BY DEF HoldsItsLease
      <4>2. workers'[v] = workers[v] /\ ~ (v = old /\ Holding(v, g))
        BY <2>4, <3>2, <4>1
      <4>3. workers[v] \in Tasks
        BY <4>1, <4>2, WorkerHasTask DEF GenerationInv, HoldingPcs
      <4>4. leases[workers[v].game].holder = v /\ ~ leases[workers[v].game].expired
        BY <4>1, <4>2 DEF GenerationInv, HoldsItsLease
      <4>5. workers[v].game # g
        BY <4>1, <4>2, <4>4 DEF Holding, HoldingPcs
      <4> QED
        BY <2>5, <4>2, <4>3, <4>4, <4>5 DEF Tasks
    <3> QED
      BY <3>1, <3>2
  <2>8. ASSUME NEW v \in Workers PROVE HasItsCount(workers[v])'
    <3>1. CASE v = w
      BY <1>1, <1>2, <2>1, <2>2, <2>3, <3>1 DEF HasItsCount, GenerationInv, CountingPcs
    <3>2. CASE v # w
      BY <1>2, <2>4, <3>2 DEF HasItsCount, GenerationInv
    <3> QED
      BY <3>1, <3>2
  <2> QED
    BY <1>2, <2>6, <2>7, <2>8, TablesStay DEF GenerationInv
<1> QED
  <2>1. workers[w].now = "earlier" \/ workers[w].now # "earlier"
    OBVIOUS
  <2> QED
    BY <1>3, <1>4 DEF Acquire

\* A worker whose lease runs out goes on with a lapsed one.
LEMMA GenerationLeaseExpiresInv == ASSUME GenerationInv, NEW g \in Game, GenerationLeaseExpires(g) PROVE GenerationInv'
<1> DEFINE h == leases[g].holder
<1>1. h \in Workers /\ leases' = [leases EXCEPT ![g].expired = TRUE]
  BY DEF GenerationLeaseExpires, GenerationInv, GenerationTypes
<1>2. UNCHANGED <<config, runs, tickets, picks, alerts, edited>>
  BY DEF GenerationLeaseExpires, tables
<1>3. /\ leases' \in [Game -> [holder : Workers \cup {Nobody}, expired : BOOLEAN]]
      /\ \A k \in Game : /\ leases'[k].holder = leases[k].holder
                         /\ k # g => leases'[k] = leases[k]
  BY <1>1 DEF GenerationInv, GenerationTypes
<1>4. \/ Holding(h, g) /\ workers' = [workers EXCEPT ![h].lapsed = TRUE]
      \/ (~ Holding(h, g) \/ workers[h].lapsed) /\ workers' = workers
  BY DEF GenerationLeaseExpires
<1>5. Holding(h, g) => workers[h] \in Tasks
  BY <1>1, WorkerHasTask DEF GenerationInv, Holding
<1>6. /\ workers' \in [Workers -> {NoTask} \cup Tasks]
      /\ \A v \in Workers : \/ workers'[v] = workers[v]
                            \/ /\ v = h /\ workers[h] \in Tasks
                               /\ workers'[v] = [workers[v] EXCEPT !.lapsed = TRUE]
  <2>1. CASE Holding(h, g) /\ workers' = [workers EXCEPT ![h].lapsed = TRUE]
    <3>1. [workers[h] EXCEPT !.lapsed = TRUE] \in Tasks
      BY <1>5, <2>1 DEF Tasks
    <3> QED
      BY <1>1, <1>5, <2>1, <3>1 DEF GenerationInv, GenerationTypes
  <2>2. CASE workers' = workers
    BY <2>2 DEF GenerationInv, GenerationTypes
  <2> QED
    BY <1>4, <2>1, <2>2
<1>7. ASSUME NEW v \in Workers, workers'[v].pc \in HoldingPcs, ~ workers'[v].lapsed
      PROVE  workers'[v] = workers[v] /\ workers[v] \in Tasks
  <2>1. workers'[v] = workers[v]
    BY <1>6, <1>7 DEF Tasks
  <2> QED
    BY <1>7, <2>1, WorkerHasTask DEF GenerationInv, HoldingPcs
<1>8. ASSUME NEW v \in Workers, workers'[v].pc \in HoldingPcs, ~ workers'[v].lapsed
      PROVE  workers[v].game # g
  <2>1. SUFFICES ASSUME workers[v].game = g PROVE FALSE
    OBVIOUS
  <2>2. workers'[v] = workers[v] /\ workers[v] \in Tasks
    BY <1>7, <1>8
  <2>3. h = v
    BY <1>8, <2>1, <2>2 DEF GenerationInv, HoldsItsLease
  <2>4. Holding(h, g)
    BY <1>8, <2>1, <2>2, <2>3 DEF Holding, HoldingPcs
  <2>5. workers' = [workers EXCEPT ![h].lapsed = TRUE]
    BY <1>4, <1>8, <2>2, <2>3, <2>4
  <2>6. workers'[v].lapsed
    BY <2>2, <2>3, <2>5 DEF GenerationInv, GenerationTypes, Tasks
  <2> QED
    BY <1>8, <2>6
<1>9. ASSUME NEW v \in Workers PROVE HoldsItsLease(workers[v], v)'
  <2>1. SUFFICES ASSUME workers'[v].pc \in HoldingPcs, ~ workers'[v].lapsed
                 PROVE  leases'[workers'[v].game].holder = v
                        /\ ~ leases'[workers'[v].game].expired
    BY DEF HoldsItsLease
  <2>2. workers'[v] = workers[v] /\ workers[v] \in Tasks /\ workers[v].game # g
    BY <1>7, <1>8, <2>1
  <2>3. leases[workers[v].game].holder = v /\ ~ leases[workers[v].game].expired
    BY <2>1, <2>2 DEF GenerationInv, HoldsItsLease
  <2> QED
    BY <1>3, <2>2, <2>3 DEF Tasks
<1>10. ASSUME NEW v \in Workers PROVE HasItsCount(workers[v])'
  <2>1. /\ workers'[v].pc = workers[v].pc
        /\ workers[v].pc # "idle" => /\ workers'[v].count = workers[v].count
                                     /\ workers'[v].game = workers[v].game
    BY <1>6 DEF Tasks
  <2> QED
    BY <1>2, <2>1 DEF GenerationInv, HasItsCount, CountingPcs
<1>11. GenerationTypes'
  BY <1>2, <1>3, <1>6, TablesStay DEF GenerationTypes
<1> QED
  BY <1>2, <1>9, <1>10, <1>11, TablesStay DEF GenerationInv

\* Only one's own lease is released, so nobody else loses theirs.
LEMMA ReleaseInv == ASSUME GenerationInv, NEW w \in Workers, Release(w) PROVE GenerationInv'
<1> DEFINE g == workers[w].game
<1>1. g \in Game
  <2>1. workers[w] \in Tasks
    BY WorkerHasTask DEF GenerationInv, Release
  <2> QED
    BY <2>1 DEF Tasks
<1>2. UNCHANGED <<config, runs, tickets, picks, alerts, edited>>
  BY DEF Release, tables, bounds
<1>3. \A v \in Workers : workers'[v] = IF v = w THEN NoTask ELSE workers[v]
  BY DEF Release, Quit, GenerationInv, GenerationTypes
<1>4. GenerationTypes'
  <2>1. leases' \in [Game -> [holder : Workers \cup {Nobody}, expired : BOOLEAN]]
    BY DEF Release, GenerationInv, GenerationTypes
  <2>2. workers' \in [Workers -> {NoTask} \cup Tasks]
    BY DEF Release, Quit, GenerationInv, GenerationTypes
  <2> QED
    BY <1>2, <2>1, <2>2, TablesStay DEF GenerationTypes
<1>5. \A k \in Game : leases[k].holder # w => leases'[k] = leases[k]
  BY <1>1 DEF Release, GenerationInv, GenerationTypes
<1>6. ASSUME NEW v \in Workers PROVE HoldsItsLease(workers[v], v)'
  <2>1. CASE v = w
    BY <1>3, <2>1 DEF HoldsItsLease, NoTask, HoldingPcs
  <2>2. CASE v # w
    <3>1. SUFFICES ASSUME workers[v].pc \in HoldingPcs, ~ workers[v].lapsed
                   PROVE  leases'[workers[v].game].holder = v
                          /\ ~ leases'[workers[v].game].expired
      BY <1>3, <2>2 DEF HoldsItsLease
    <3>2. workers[v].game \in Game
      <4>1. workers[v] \in Tasks
        BY <3>1, WorkerHasTask DEF GenerationInv, HoldingPcs
      <4> QED
        BY <4>1 DEF Tasks
    <3>3. leases[workers[v].game].holder = v /\ ~ leases[workers[v].game].expired
      BY <3>1 DEF GenerationInv, HoldsItsLease
    <3> QED
      BY <1>5, <2>2, <3>2, <3>3
  <2> QED
    BY <2>1, <2>2
<1>7. ASSUME NEW v \in Workers PROVE HasItsCount(workers[v])'
  BY <1>2, <1>3 DEF HasItsCount, GenerationInv, NoTask, CountingPcs
<1> QED
  BY <1>2, <1>4, <1>6, <1>7, TablesStay DEF GenerationInv

-----------------------------------------------------------------------------
(* The tables. *)

\* A step that leaves leases alone and lets one worker go on to a state in
\* which it commits nothing.
LEMMA WorkersStayGood ==
  ASSUME GenerationInv, NEW w \in Workers, NEW t \in Tasks,
         workers' = [workers EXCEPT ![w] = t], UNCHANGED <<config, leases, edited>>,
         workers[w].pc \in HoldingPcs, t.pc \in {"readback", "fail", "release"},
         t.game = workers[w].game, t.lapsed = workers[w].lapsed
  PROVE  /\ \A v \in Workers : HoldsItsLease(workers[v], v)'
         /\ \A v \in Workers : HasItsCount(workers[v])'
         /\ workers' \in [Workers -> {NoTask} \cup Tasks]
<1>1. \A v \in Workers : workers'[v] = IF v = w THEN t ELSE workers[v]
  BY DEF GenerationInv, GenerationTypes
<1>2. HoldsItsLease(t, w) /\ HasItsCount(t)
  BY DEF GenerationInv, HoldsItsLease, HasItsCount, CountingPcs
<1>3. ASSUME NEW v \in Workers PROVE HoldsItsLease(workers[v], v)'
  BY <1>1, <1>2 DEF GenerationInv, HoldsItsLease
<1>4. ASSUME NEW v \in Workers PROVE HasItsCount(workers[v])'
  BY <1>1, <1>2 DEF GenerationInv, HasItsCount
<1> QED
  BY <1>3, <1>4 DEF GenerationInv, GenerationTypes

\* What the batch does to the tables.
LEMMA CommitTables ==
  ASSUME GenerationInv, NEW w \in Workers, workers[w] \in Tasks, workers[w].pc = "commit",
         Commit(w), UNCHANGED <<config, edited>>
  PROVE  GenerationTypeOK' /\ (\A g \in Game : Backed(g)') /\ GivingUpIsAnnounced'
<1> DEFINE g == workers[w].game
           n == workers[w].count
           after == [status |-> "generated", attempts |-> runs[g].attempts + 1,
                     retry |-> "never", count |-> n]
<1>1. g \in Game /\ n \in Counts /\ n \in Nat /\ n > 0 /\ (g \notin edited => n = config[g])
  <2>1. n \in Counts
    BY DEF GenerationInv, HasItsCount, CountingPcs
  <2>2. n \in Nat /\ n > 0
    <3>1. \A c \in Counts : c \in Nat /\ c > 0
      BY GenerationAssumption
    <3> QED
      BY <2>1, <3>1
  <2>3. g \notin edited => n = config[g]
    BY <2>2 DEF GenerationInv, HasItsCount, CountingPcs, Invalid
  <2> QED
    BY <2>1, <2>2, <2>3 DEF Tasks
<1>2. /\ runs[g].attempts \in Nat /\ runs[g].count \in Counts \cup {0} /\ tickets[g] \in Nat
      /\ runs \in [Game -> [status : {"none", "failed", "generated"}, attempts : Nat,
                            retry : {"never", "waiting", "due"}, count : Counts \cup {0}]]
      /\ tickets \in [Game -> Nat]
  BY <1>1 DEF GenerationInv, GenerationTypes, GenerationTypeOK
<1>3. /\ runs' = [runs EXCEPT ![g] = IF Generated(g) THEN runs[g] ELSE after]
      /\ tickets' = [tickets EXCEPT ![g] = TicketRows(tickets[g], n)]
      /\ picks' = picks \cup {g}
  BY <1>2 DEF Commit, Generated
<1>4. \/ alerts' = [alerts EXCEPT ![g] = "late"]
      \/ alerts' = alerts
  BY DEF Commit
<1>5. TicketRows(tickets[g], n) \in Nat
  BY <1>1, <1>2 DEF TicketRows
<1>6. after \in [status : {"none", "failed", "generated"}, attempts : Nat,
                 retry : {"never", "waiting", "due"}, count : Counts \cup {0}]
  BY <1>1, <1>2
<1>7. /\ \A k \in Game : k # g => runs'[k] = runs[k] /\ tickets'[k] = tickets[k]
      /\ runs'[g] = IF Generated(g) THEN runs[g] ELSE after
      /\ tickets'[g] = TicketRows(tickets[g], n)
  BY <1>1, <1>2, <1>3
<1>8. GenerationTypeOK'
  <2>1. runs' \in [Game -> [status : {"none", "failed", "generated"}, attempts : Nat,
                            retry : {"never", "waiting", "due"}, count : Counts \cup {0}]]
    <3> HIDE DEF after, g
    <3> QED BY <1>1, <1>2, <1>3, <1>6
  <2>2. tickets' \in [Game -> Nat] /\ picks' \subseteq Game
    <3>1. picks \subseteq Game
      BY DEF GenerationInv, GenerationTypes, GenerationTypeOK
    <3> HIDE DEF g, n
    <3> QED BY <1>1, <1>2, <1>3, <1>5, <3>1
  <2>3. alerts' \in [Game -> {"none", "failed", "missed", "late"}]
    BY <1>4 DEF GenerationInv, GenerationTypes, GenerationTypeOK
  <2> QED
    BY <2>1, <2>2, <2>3 DEF GenerationTypeOK
<1>9. ASSUME NEW k \in Game PROVE Backed(k)'
  <2>1. CASE k # g
    BY <1>3, <1>7, <2>1 DEF GenerationInv, Backed, Generated
  <2>2. CASE k = g /\ Generated(g)
    <3>1. runs'[g] = runs[g] /\ Generated(k)' /\ k \in picks'
      BY <1>3, <1>7, <2>2 DEF Generated
    <3>2. /\ runs[g].count \in Counts /\ tickets[g] >= runs[g].count
          /\ g \notin edited => runs[g].count = config[g] /\ tickets[g] = config[g]
      BY <1>1, <2>2 DEF GenerationInv, Backed
    <3>3. tickets'[g] >= tickets[g] /\ (tickets[g] = n => tickets'[g] = n)
      BY <1>1, <1>2, <1>7 DEF TicketRows
    <3>4. runs[g].count \in Nat /\ tickets'[g] \in Nat
      BY <1>5, <1>7, <3>2, GenerationAssumption
    <3>5. tickets'[g] >= runs'[g].count
      BY <1>2, <3>1, <3>2, <3>3, <3>4
    <3>6. g \notin edited => runs'[g].count = config[g] /\ tickets'[g] = config[g]
      BY <1>1, <3>1, <3>2, <3>3
    <3> QED
      BY <2>2, <3>1, <3>2, <3>5, <3>6 DEF Backed
  <2>3. CASE k = g /\ ~ Generated(g)
    <3>1. runs'[g] = after /\ g \in picks' /\ tickets[g] = 0
      BY <1>1, <1>3, <1>7, <2>3 DEF GenerationInv, Backed
    <3>2. tickets'[g] = n
      BY <1>1, <1>7, <3>1 DEF TicketRows
    <3> QED
      BY <1>1, <2>3, <3>1, <3>2 DEF Backed, Generated
  <2> QED
    BY <2>1, <2>2, <2>3
<1>10. GivingUpIsAnnounced'
  <2>1. ASSUME NEW k \in Game, runs'[k].status = "failed", runs'[k].retry = "never"
        PROVE  alerts'[k] # "none"
    <3>1. runs'[k] = runs[k]
      BY <1>7, <2>1
    <3>2. alerts[k] # "none"
      BY <2>1, <3>1 DEF GenerationInv, GivingUpIsAnnounced
    <3> QED
      BY <1>4, <3>2 DEF GenerationInv, GenerationTypes, GenerationTypeOK
  <2> QED
    BY <2>1 DEF GivingUpIsAnnounced
<1> QED
  BY <1>8, <1>9, <1>10

LEMMA TryCommitInv ==
  ASSUME GenerationInv, NEW w \in Workers, NEW applied \in BOOLEAN, NEW answered \in BOOLEAN,
         TryCommit(w, applied, answered)
  PROVE  GenerationInv'
<1>1. workers[w] \in Tasks /\ workers[w].pc = "commit"
  BY WorkerHasTask DEF GenerationInv, TryCommit
<1>2. UNCHANGED <<config, leases, edited>>
  BY DEF TryCommit, bounds
<1>3. PICK pc \in {"readback", "fail"} : workers' = [workers EXCEPT ![w].pc = pc]
  BY DEF TryCommit, Become
<1> DEFINE t == [workers[w] EXCEPT !.pc = pc]
<1>4. /\ t \in Tasks /\ t.pc = pc /\ t.game = workers[w].game
      /\ t.lapsed = workers[w].lapsed
  BY <1>1 DEF Tasks, HoldingPcs
<1>5. workers' = [workers EXCEPT ![w] = t]
  BY <1>3 DEF GenerationInv, GenerationTypes
<1> HIDE DEF t
<1>6. /\ \A v \in Workers : HoldsItsLease(workers[v], v)'
      /\ \A v \in Workers : HasItsCount(workers[v])'
      /\ workers' \in [Workers -> {NoTask} \cup Tasks]
  BY <1>1, <1>2, <1>4, <1>5, WorkersStayGood DEF HoldingPcs
<1>7. GenerationTypeOK' /\ (\A g \in Game : Backed(g)') /\ GivingUpIsAnnounced'
  <2>1. CASE Commit(w)
    BY <1>1, <1>2, <2>1, CommitTables
  <2>2. CASE UNCHANGED tables
    BY <1>2, <2>2, TablesStay DEF tables
  <2> QED
    BY <2>1, <2>2 DEF TryCommit
<1> QED
  BY <1>2, <1>6, <1>7 DEF GenerationInv, GenerationTypes

\* A failure never touches a generated run, and the one that ends the attempts
\* comes with its alert.
LEMMA RecordFailureInv == ASSUME GenerationInv, NEW w \in Workers, RecordFailure(w) PROVE GenerationInv'
<1> DEFINE g == workers[w].game
           run == FailedRun(g, w)
<1>1. workers[w] \in Tasks /\ workers[w].pc = "record" /\ g \in Game
  <2>1. workers[w] \in Tasks /\ workers[w].pc = "record"
    BY WorkerHasTask DEF GenerationInv, RecordFailure
  <2> QED
    BY <2>1 DEF Tasks
<1>2. UNCHANGED <<config, tickets, picks, leases, edited>>
  BY DEF RecordFailure, bounds
<1>3. PICK t \in Tasks : /\ workers' = [workers EXCEPT ![w] = t]
                         /\ t.pc = "release" /\ t.game = g
                         /\ t.lapsed = workers[w].lapsed
  BY <1>1, EndingTask DEF GenerationInv, RecordFailure, HoldingPcs
<1>4. /\ \A v \in Workers : HoldsItsLease(workers[v], v)'
      /\ \A v \in Workers : HasItsCount(workers[v])'
      /\ workers' \in [Workers -> {NoTask} \cup Tasks]
  BY <1>1, <1>2, <1>3, WorkersStayGood DEF HoldingPcs
<1>5. runs[g] \in [status : {"none", "failed", "generated"}, attempts : Nat,
                   retry : {"never", "waiting", "due"}, count : Counts \cup {0}]
  BY <1>1 DEF GenerationInv, GenerationTypes, GenerationTypeOK
<1>6. /\ run \in [status : {"none", "failed", "generated"}, attempts : Nat,
                  retry : {"never", "waiting", "due"}, count : Counts \cup {0}]
      /\ run.status = "generated" <=> Generated(g)
      /\ Generated(g) => run = runs[g]
      /\ run.retry = "never" /\ ~ Generated(g) => Terminal(w)
  BY <1>1, <1>5 DEF FailedRun, Generated, Tasks
<1>7. runs' = [runs EXCEPT ![g] = run]
  BY DEF RecordFailure
<1> HIDE DEF run
<1>8. /\ runs'[g] = run
      /\ \A k \in Game : k # g => runs'[k] = runs[k]
      /\ runs' \in [Game -> [status : {"none", "failed", "generated"}, attempts : Nat,
                             retry : {"never", "waiting", "due"}, count : Counts \cup {0}]]
  BY <1>1, <1>6, <1>7 DEF GenerationInv, GenerationTypes, GenerationTypeOK
<1>9. /\ alerts' \in [Game -> {"none", "failed", "missed", "late"}]
      /\ \A k \in Game : alerts[k] # "none" => alerts'[k] # "none"
      /\ Terminal(w) => alerts'[g] # "none"
  BY <1>1 DEF RecordFailure, Alerts, GenerationInv, GenerationTypes, GenerationTypeOK
<1>10. GenerationTypeOK'
  BY <1>2, <1>8, <1>9 DEF GenerationInv, GenerationTypes, GenerationTypeOK
<1>11. ASSUME NEW k \in Game PROVE Backed(k)'
  <2>1. (Generated(k)' <=> Generated(k)) /\ (Generated(k) => runs'[k] = runs[k])
    BY <1>6, <1>8 DEF Generated
  <2> QED
    BY <1>2, <2>1 DEF GenerationInv, Backed
<1>12. GivingUpIsAnnounced'
  <2>1. ASSUME NEW k \in Game, runs'[k].status = "failed", runs'[k].retry = "never"
        PROVE  alerts'[k] # "none"
    <3>1. CASE k # g
      BY <1>8, <1>9, <2>1, <3>1 DEF GenerationInv, GivingUpIsAnnounced
    <3>2. CASE k = g
      BY <1>6, <1>8, <1>9, <2>1, <3>2
    <3> QED
      BY <3>1, <3>2
  <2> QED
    BY <2>1 DEF GivingUpIsAnnounced
<1> QED
  BY <1>2, <1>4, <1>10, <1>11, <1>12 DEF GenerationInv, GenerationTypes

LEMMA GenerationRetryDueInv == ASSUME GenerationInv, NEW g \in Game, GenerationRetryDue(g) PROVE GenerationInv'
<1>1. UNCHANGED <<config, tickets, picks, alerts, leases, workers, edited>>
  BY DEF GenerationRetryDue, bounds
<1>2. runs \in [Game -> [status : {"none", "failed", "generated"}, attempts : Nat,
                         retry : {"never", "waiting", "due"}, count : Counts \cup {0}]]
  BY DEF GenerationInv, GenerationTypes, GenerationTypeOK
<1>3. /\ runs' = [runs EXCEPT ![g].retry = "due"]
      /\ runs' \in [Game -> [status : {"none", "failed", "generated"}, attempts : Nat,
                             retry : {"never", "waiting", "due"}, count : Counts \cup {0}]]
      /\ \A k \in Game : runs'[k].status = runs[k].status /\ runs'[k].count = runs[k].count
      /\ \A k \in Game : runs'[k].retry = "never" => runs[k].retry = "never"
  BY <1>2 DEF GenerationRetryDue
<1>4. GenerationTypes'
  BY <1>1, <1>3 DEF GenerationInv, GenerationTypes, GenerationTypeOK
<1>5. \A w \in Workers : HoldsItsLease(workers[w], w)' /\ HasItsCount(workers[w])'
  BY <1>1 DEF GenerationInv, HoldsItsLease, HasItsCount
<1>6. \A k \in Game : Backed(k)'
  BY <1>1, <1>3 DEF GenerationInv, Backed, Generated
<1>7. GivingUpIsAnnounced'
  BY <1>1, <1>3 DEF GenerationInv, GivingUpIsAnnounced
<1> QED
  BY <1>4, <1>5, <1>6, <1>7 DEF GenerationInv

LEMMA EditConfigInv ==
  ASSUME GenerationInv, NEW g \in Game, NEW c \in Counts \cup {Invalid}, EditConfig(g, c)
  PROVE  GenerationInv'
<1>1. /\ UNCHANGED <<runs, tickets, picks, alerts, leases, workers>>
      /\ config' = [config EXCEPT ![g] = c] /\ edited' = edited \cup {g}
  BY DEF EditConfig, tables
<1>2. \A k \in Game : k \notin edited' => k \notin edited /\ config'[k] = config[k]
  BY <1>1 DEF GenerationInv, GenerationTypes
<1>3. GenerationTypes'
  BY <1>1 DEF GenerationInv, GenerationTypes, GenerationTypeOK
<1>4. ASSUME NEW w \in Workers PROVE HasItsCount(workers[w])'
  <2>1. workers[w].pc \in CountingPcs \cup {"acquire"} => workers[w].game \in Game
    <3>1. workers[w].pc \in CountingPcs \cup {"acquire"} => workers[w] \in Tasks
      BY WorkerHasTask DEF GenerationInv, CountingPcs
    <3> QED
      BY <3>1 DEF Tasks
  <2> QED
    BY <1>1, <1>2, <2>1 DEF GenerationInv, HasItsCount
<1>5. \A w \in Workers : HoldsItsLease(workers[w], w)'
  BY <1>1 DEF GenerationInv, HoldsItsLease
<1>6. \A k \in Game : Backed(k)'
  BY <1>1, <1>2 DEF GenerationInv, Backed, Generated
<1>7. GivingUpIsAnnounced'
  BY <1>1 DEF GenerationInv, GivingUpIsAnnounced
<1> QED
  BY <1>3, <1>4, <1>5, <1>6, <1>7 DEF GenerationInv

\* What the invariant is about stays as it is.
LEMMA NothingMoves ==
  ASSUME GenerationInv, UNCHANGED <<config, runs, tickets, picks, alerts, leases, workers, edited>>
  PROVE  GenerationInv'
<1>1. \A w \in Workers : HoldsItsLease(workers[w], w)' /\ HasItsCount(workers[w])'
  BY DEF GenerationInv, HoldsItsLease, HasItsCount
<1> QED
  BY <1>1, TablesStay DEF GenerationInv, GenerationTypes

-----------------------------------------------------------------------------
LEMMA InitGenerationInv == GenerationInit => GenerationInv
<1> SUFFICES ASSUME GenerationInit PROVE GenerationInv
  OBVIOUS
<1>1. GenerationTypes
  BY DEF GenerationInit, GenerationTypes, GenerationTypeOK, NoRun, Invalid
<1>2. \A w \in Workers : HoldsItsLease(workers[w], w) /\ HasItsCount(workers[w])
  BY DEF GenerationInit, HoldsItsLease, HasItsCount, NoTask, HoldingPcs, CountingPcs
<1>3. \A g \in Game : Backed(g)
  BY DEF GenerationInit, Backed, Generated, NoRun
<1>4. GivingUpIsAnnounced
  BY DEF GenerationInit, GivingUpIsAnnounced, NoRun
<1> QED
  BY <1>1, <1>2, <1>3, <1>4 DEF GenerationInv

LEMMA WorkerStepInv == ASSUME GenerationInv, NEW w \in Workers, WorkerStep(w) PROVE GenerationInv'
<1>1. CASE Check(w) \/ Acquire(w) \/ Begin(w) \/ Fail(w) \/ RecordFailure(w) \/ Release(w)
  BY <1>1, CheckInv, AcquireInv, BeginInv, FailInv, RecordFailureInv, ReleaseInv
<1>2. ASSUME NEW ok \in BOOLEAN, Generate(w, ok) \/ ReadBack(w, ok) \/ TryCommit(w, TRUE, ok)
      PROVE  GenerationInv'
  BY <1>2, GenerateInv, ReadBackInv, TryCommitInv
<1>3. CASE TryCommit(w, FALSE, FALSE)
  BY <1>3, TryCommitInv
<1> QED
  BY <1>1, <1>2, <1>3 DEF WorkerStep

LEMMA NextGenerationInv == GenerationInv /\ [GenerationNext]_generationVars => GenerationInv'
<1> SUFFICES ASSUME GenerationInv, [GenerationNext]_generationVars PROVE GenerationInv'
  OBVIOUS
<1>1. ASSUME NEW g \in Game, WindowMoves(g) PROVE GenerationInv'
  BY <1>1, NothingMoves DEF WindowMoves, tables, bounds
<1>2. ASSUME NEW g \in Game, GenerationRetryDue(g) \/ GenerationLeaseExpires(g) PROVE GenerationInv'
  BY <1>2, GenerationRetryDueInv, GenerationLeaseExpiresInv
<1>3. ASSUME NEW g \in Game, NEW c \in Counts \cup {Invalid}, EditConfig(g, c) PROVE GenerationInv'
  BY <1>3, EditConfigInv
<1>4. ASSUME NEW w \in Workers, Schedule(w) \/ WorkerStep(w) \/ Die(w) PROVE GenerationInv'
  BY <1>4, ScheduleInv, WorkerStepInv, DieInv
<1>5. ASSUME NEW w \in Workers, NEW g \in Game, Request(w, g) PROVE GenerationInv'
  BY <1>5, RequestInv
<1>7. ASSUME NEW w \in Workers, NEW now \in {"earlier", "later"}, RunRequest(w, now)
      PROVE  GenerationInv'
  BY <1>7, RunRequestInv
<1>6. CASE UNCHANGED generationVars
  BY <1>6, NothingMoves DEF generationVars, tables, bounds
<1> QED
  BY <1>1, <1>2, <1>3, <1>4, <1>5, <1>6, <1>7 DEF GenerationNext

(***************************************************************************)
(* The inductive invariant of generateForGame and its callers.             *)
(***************************************************************************)
THEOREM GenerationInvariance == GenerationSpec => []GenerationInv
BY InitGenerationInv, NextGenerationInv, PTL DEF GenerationSpec

(***************************************************************************)
(* Picks that generateForGame has queued stay the picks of a generated run *)
(* whose tickets are there, however many workers overlap, fail after their *)
(* commit or lose its answer.                                              *)
(***************************************************************************)
THEOREM QueuedPicksStayBacked == GenerationSpec => []PicksAreBacked
<1>1. GenerationInv => PicksAreBacked
  <2> SUFFICES ASSUME GenerationInv, NEW g \in picks
               PROVE  Generated(g) /\ runs[g].count > 0 /\ tickets[g] >= runs[g].count
    BY DEF PicksAreBacked
  <2>1. g \in Game
    BY DEF GenerationInv, GenerationTypes, GenerationTypeOK
  <2>2. Generated(g) /\ runs[g].count \in Counts /\ tickets[g] >= runs[g].count
    BY <2>1 DEF GenerationInv, Backed
  <2>3. \A c \in Counts : c > 0
    BY GenerationAssumption
  <2> QED
    BY <2>2, <2>3
<1> QED
  BY <1>1, GenerationInvariance, PTL

(***************************************************************************)
(* Unless its configuration is edited during the day, the tickets of a     *)
(* generated run are as many as generatedRun expects, although the         *)
(* configuration is read before the lease is taken and a worker that was   *)
(* overtaken still commits.                                                *)
(***************************************************************************)
THEOREM UneditedTicketsReconcile == GenerationSpec => []TicketsReconcile
<1>1. GenerationInv => TicketsReconcile
  <2> SUFFICES ASSUME GenerationInv PROVE TicketsReconcile
    OBVIOUS
  <2>1. ASSUME NEW g \in Game \ edited, Generated(g) PROVE Reconciles(g)
    BY <2>1 DEF GenerationInv, Backed, Reconciles
  <2> QED
    BY <2>1 DEF GenerationInv, GenerationTypes, TicketsReconcile
<1> QED
  BY <1>1, GenerationInvariance, PTL

(***************************************************************************)
(* A run that recordFailure has given up has its alert row.                *)
(***************************************************************************)
THEOREM FinalFailureIsAnnounced == GenerationSpec => []GivingUpIsAnnounced
<1>1. GenerationInv => GivingUpIsAnnounced
  BY DEF GenerationInv
<1> QED
  BY <1>1, GenerationInvariance, PTL

(***************************************************************************)
(* acquireGenerationLease and releaseGenerationLease: among the workers    *)
(* whose lease has not lapsed at most one is at work on a game.  A lease   *)
(* lapses when it runs out under its worker, and when a request's own      *)
(* `now' (automation/run) lets recordConfigurationFailure take it over.    *)
(***************************************************************************)
THEOREM OneWorkerPerLease == GenerationSpec => []LeaseExcludes
<1>1. GenerationInv => LeaseExcludes
  <2> SUFFICES ASSUME GenerationInv, NEW g \in Game, NEW v \in Workers, NEW w \in Workers,
                      Holding(v, g), Holding(w, g), ~ workers[v].lapsed, ~ workers[w].lapsed
               PROVE  v = w
    BY DEF LeaseExcludes
  <2>1. leases[g].holder = v /\ leases[g].holder = w
    BY DEF GenerationInv, HoldsItsLease, Holding, HoldingPcs
  <2> QED
    BY <2>1
<1> QED
  BY <1>1, GenerationInvariance, PTL

=============================================================================

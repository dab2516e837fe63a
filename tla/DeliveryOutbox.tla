--------------------------- MODULE DeliveryOutbox ---------------------------
(***************************************************************************)
(* The lotto worker's delivery outbox: rows in D1 that bridges claim under *)
(* a lease and conclude with a result.  Claim and completion are each a    *)
(* SELECT and a later conditional write, so requests interleave; leases    *)
(* expire while a bridge is still sending; results are lost, delayed and   *)
(* repeated; bridges crash.                                                *)
(*                                                                         *)
(* The bridge (a host outside the repository) is external: it keeps a      *)
(* ledger of delivery ids on its host, written before and after the send,  *)
(* and reports an interrupted send as ambiguous instead of sending again   *)
(* (docs/lotto-autonomous-service-plan.md:12 and :54).                     *)
(*                                                                         *)
(* The rows of both outbox tables are one function; eligibility applies to *)
(* the graded ones.  Time is whether a lease has expired and whether a     *)
(* retry is still waiting.                                                 *)
(***************************************************************************)
EXTENDS Integers, FiniteSets

CONSTANTS
  Deliveries,   \* delivery ids
  Graded,       \* lab rows that announce a grade: subject to eligibility
  Bridges,      \* processes on the Hermes host
  DeadAttempts, \* DELIVERY_DEAD_ATTEMPTS (12 in the code)
  MaxLocalAttempts, \* attempts one result may report (4 in the code)
  MaxTokens,    \* bound: lease tokens of a row in use at a time
  MaxCrashes,   \* bound: crashes of bridges
  MaxOverruns,  \* bound: leases of a row that end before their bridge does
  MaxRulings    \* bound: changes of a ledger entry's eligibility

ASSUME OutboxAssumption ==
  /\ IsFiniteSet(Deliveries)
  /\ Graded \subseteq Deliveries
  /\ {DeadAttempts, MaxLocalAttempts, MaxTokens} \subseteq Nat \ {0}
  /\ {MaxCrashes, MaxOverruns, MaxRulings} \subseteq Nat

VARIABLES
  rows,      \* the outbox tables
  attempts,  \* history: local attempts recorded in the attempts tables
  eligible,  \* the latest eligibility event of each graded row's ledger entry
  bridges,   \* external: what every bridge is doing
  ledger,    \* external: the bridge host's record of every delivery id
  copies,    \* external: how many times a message went out
  results,   \* results posted and not yet lost
  handlers,  \* completions between their SELECT and their batch
  overran,   \* history: how many leases of a row expired under a bridge at work
  crashes, rulings

server == <<rows, attempts, eligible, handlers, overran, rulings>>
world == <<bridges, ledger, copies, results, crashes>>
vars == <<server, world>>

None == 0
Idle == [pc |-> "idle"]
NoRow == [status |-> "none", count |-> 0, token |-> None, expired |-> FALSE, waiting |-> FALSE]

AtWork(d) == {b \in Bridges : bridges[b].pc \in {"claimed", "sending"} /\ bridges[b].d = d}

\* crypto.randomUUID: a token nobody holds for this row.
FreshTokens(d) ==
  (1..MaxTokens) \ ({rows[d].token} \cup {bridges[b].token : b \in AtWork(d)}
                    \cup {m.token : m \in {x \in results \cup handlers : x.d = d}})

FreshToken(d) == CHOOSE t \in FreshTokens(d) : TRUE

-----------------------------------------------------------------------------
(* Rows come and go with the eligibility of what they announce. *)

\* INSERT OR IGNORE of a pending row (generation, grading, corrections).
Enqueue(d) ==
  /\ rows[d].status = "none" /\ eligible[d]
  /\ rows' = [rows EXCEPT ![d].status = "pending"]
  /\ UNCHANGED <<attempts, eligible, handlers, overran, rulings, world>>

\* An eligibility event is appended to the entry's stream.
Rule(d, verdict) ==
  /\ d \in Graded /\ eligible[d] # verdict /\ rulings < MaxRulings
  /\ eligible' = [eligible EXCEPT ![d] = verdict]
  /\ rulings' = rulings + 1
  /\ UNCHANGED <<rows, attempts, handlers, overran, world>>

\* reconcileLedgerEligibility: unsent results of excluded entries are dead.
Suppress ==
  LET unsent == {d \in Deliveries : ~ eligible[d] /\ rows[d].status \in {"pending", "retry"}}
  IN  /\ unsent # {}
      /\ rows' = [d \in Deliveries |-> IF d \in unsent THEN [rows[d] EXCEPT !.status = "dead"]
                                                       ELSE rows[d]]
      /\ UNCHANGED <<attempts, eligible, handlers, overran, rulings, world>>

LeaseExpires(d) ==
  /\ rows[d].status = "leased" /\ ~ rows[d].expired
  /\ rows' = [rows EXCEPT ![d].expired = TRUE]
  /\ IF \E b \in AtWork(d) : bridges[b].token = rows[d].token
       THEN overran[d] < MaxOverruns /\ overran' = [overran EXCEPT ![d] = @ + 1]
       ELSE UNCHANGED overran
  /\ UNCHANGED <<attempts, eligible, handlers, rulings, world>>

RetryDue(d) ==
  /\ rows[d].status = "retry" /\ rows[d].waiting
  /\ rows' = [rows EXCEPT ![d].waiting = FALSE]
  /\ UNCHANGED <<attempts, eligible, handlers, overran, rulings, world>>

-----------------------------------------------------------------------------
(* claimDelivery *)

\* Mutant: a lease is never taken over.
ClaimableIfReleased(d) ==
  /\ rows[d].status \in {"pending", "retry"}
  /\ ~ rows[d].waiting /\ eligible[d]

\* The WHERE clause, of the SELECT and of the UPDATE alike.
Claimable(d) ==
  /\ \/ rows[d].status \in {"pending", "retry"}
     \/ rows[d].status = "leased" /\ rows[d].expired
  /\ ~ rows[d].waiting /\ eligible[d]

\* The candidate of the SELECT (the order of the queries, urgent rows first,
\* is left open).
Select(b) ==
  /\ bridges[b].pc = "idle"
  /\ \E d \in Deliveries :
       /\ Claimable(d)
       /\ bridges' = [bridges EXCEPT ![b] = [pc |-> "update", d |-> d]]
  /\ UNCHANGED <<server, ledger, copies, results, crashes>>

\* The conditional UPDATE.  When another claim was faster the SELECT is
\* repeated, up to three times, and then by the bridge's next claim.
TakeLease(b) ==
  LET d == bridges[b].d
  IN  /\ bridges[b].pc = "update"
      /\ IF Claimable(d)
           THEN /\ FreshTokens(d) # {}
                /\ rows' = [rows EXCEPT ![d].status = "leased", ![d].token = FreshToken(d),
                                        ![d].expired = FALSE]
                /\ bridges' = [bridges EXCEPT ![b] =
                                 [pc |-> "claimed", d |-> d, token |-> FreshToken(d)]]
           ELSE /\ bridges' = [bridges EXCEPT ![b] = Idle]
                /\ UNCHANGED rows
      /\ UNCHANGED <<attempts, eligible, handlers, overran, rulings, ledger, copies, results, crashes>>

-----------------------------------------------------------------------------
(* External: the bridge. *)

\* parseDeliveryResult refuses a result that reports more.
LocalAttempts == 0..MaxLocalAttempts

Result(b, status, n) ==
  [d |-> bridges[b].d, token |-> bridges[b].token, status |-> status, n |-> n]

Post(b, status, n) ==
  /\ results' = results \cup {Result(b, status, n)}
  /\ bridges' = [bridges EXCEPT ![b] = Idle]

\* The host's ledger decides: a message already sent, or whose sending was
\* interrupted or is under way, is not sent again.  The result may count the
\* attempts made before.
Consult(b, n) ==
  LET d == bridges[b].d
  IN  /\ bridges[b].pc = "claimed"
      /\ \/ /\ ledger[d] = "new"
            /\ ledger' = [ledger EXCEPT ![d] = "sending"]
            /\ bridges' = [bridges EXCEPT ![b].pc = "sending"]
            /\ UNCHANGED results
         \/ ledger[d] = "sent" /\ Post(b, "sent", n) /\ UNCHANGED ledger
         \/ ledger[d] = "sending" /\ Post(b, "ambiguous", n) /\ UNCHANGED ledger
      /\ UNCHANGED <<server, copies, crashes>>

\* The transport takes the message at the n-th attempt.
SendSucceeds(b, n) ==
  LET d == bridges[b].d
  IN  /\ bridges[b].pc = "sending"
      /\ copies' = [copies EXCEPT ![d] = @ + 1]
      /\ ledger' = [ledger EXCEPT ![d] = "sent"]
      /\ Post(b, "sent", n)
      /\ UNCHANGED <<server, crashes>>

\* The transport refuses after n attempts, or before any.
SendFails(b, n) ==
  LET d == bridges[b].d
  IN  /\ bridges[b].pc = "sending"
      /\ ledger' = [ledger EXCEPT ![d] = "new"]
      /\ Post(b, "failed", n)
      /\ UNCHANGED <<server, copies, crashes>>

\* A bridge stops anywhere; in the middle of a send the message may be out.
BridgeCrashes(b) ==
  /\ bridges[b].pc # "idle" /\ crashes < MaxCrashes
  /\ crashes' = crashes + 1
  /\ bridges' = [bridges EXCEPT ![b] = Idle]
  /\ \/ UNCHANGED copies
     \/ bridges[b].pc = "sending" /\ copies' = [copies EXCEPT ![bridges[b].d] = @ + 1]
  /\ UNCHANGED <<server, ledger, results>>

LoseResult(m) ==
  /\ m \in results
  /\ results' = results \ {m}
  /\ UNCHANGED <<server, bridges, ledger, copies, crashes>>

-----------------------------------------------------------------------------
(* completeDelivery *)

\* Mutant: any result of a leased row is taken.
HoldsAnyLease(m) == rows[m.d].status = "leased"

\* The row is leased to the claim the result is about.
HoldsLease(m) == rows[m.d].status = "leased" /\ rows[m.d].token = m.token

\* The SELECT: a sent row is answered as it is, a lost lease is an error;
\* the result may be posted again.
ReadResult(m) ==
  /\ m \in results
  /\ HoldsLease(m)
  /\ handlers' = handlers \cup
       {[d |-> m.d, token |-> m.token, status |-> m.status, n |-> m.n, count |-> rows[m.d].count]}
  /\ UNCHANGED <<rows, attempts, eligible, overran, rulings, world>>

\* Mutant: only attempts of this claim count towards giving up.
OutcomePerClaim(h) ==
  CASE h.status = "sent" -> "sent"
    [] h.status = "ambiguous" -> "ambiguous"
    [] h.status = "failed" -> IF h.n = 0 \/ h.n >= DeadAttempts THEN "dead" ELSE "retry"

Outcome(h) ==
  CASE h.status = "sent" -> "sent"
    [] h.status = "ambiguous" -> "ambiguous"
    [] h.status = "failed" -> IF h.n = 0 \/ h.count + h.n >= DeadAttempts THEN "dead" ELSE "retry"

\* Mutant: the batch is not conditional on the lease.
CommitAnyway(h) ==
  /\ h \in handlers
  /\ handlers' = handlers \ {h}
  /\ rows' = [rows EXCEPT ![h.d] = [status |-> Outcome(h), count |-> h.count + h.n, token |-> None,
                                    expired |-> FALSE, waiting |-> Outcome(h) = "retry"]]
  /\ attempts' = [attempts EXCEPT ![h.d] = @ + h.n]
  /\ UNCHANGED <<eligible, overran, rulings, world>>

\* The batch: the attempt and the row, both conditional on the lease.
CommitResult(h) ==
  /\ h \in handlers
  /\ handlers' = handlers \ {h}
  /\ IF HoldsLease(h)
       THEN /\ rows' = [rows EXCEPT ![h.d] =
                 [status |-> Outcome(h), count |-> h.count + h.n, token |-> None,
                  expired |-> FALSE, waiting |-> Outcome(h) = "retry"]]
            /\ attempts' = [attempts EXCEPT ![h.d] = @ + h.n]
       ELSE UNCHANGED <<rows, attempts>>
  /\ UNCHANGED <<eligible, overran, rulings, world>>

-----------------------------------------------------------------------------
Init ==
  /\ rows = [d \in Deliveries |-> NoRow]
  /\ attempts = [d \in Deliveries |-> 0]
  /\ eligible = [d \in Deliveries |-> TRUE]
  /\ bridges = [b \in Bridges |-> Idle]
  /\ ledger = [d \in Deliveries |-> "new"]
  /\ copies = [d \in Deliveries |-> 0]
  /\ results = {} /\ handlers = {} /\ overran = [d \in Deliveries |-> 0] /\ crashes = 0 /\ rulings = 0

RowStep(d) == Enqueue(d) \/ LeaseExpires(d) \/ RetryDue(d)
ClaimStep(b) == Select(b) \/ TakeLease(b)
SendStep(b) ==
  \/ \E n \in LocalAttempts : Consult(b, n) \/ SendFails(b, n)
  \/ \E n \in LocalAttempts \ {0} : SendSucceeds(b, n)

Next ==
  \/ \E d \in Deliveries : RowStep(d) \/ \E verdict \in BOOLEAN : Rule(d, verdict)
  \/ Suppress
  \/ \E b \in Bridges : ClaimStep(b) \/ SendStep(b) \/ BridgeCrashes(b)
  \/ \E m \in results : LoseResult(m) \/ ReadResult(m)
  \/ \E h \in handlers : CommitResult(h)

\* Time passes, the bridges keep asking and carry on, not every result is
\* lost and not every completion is overtaken by the end of its lease.
Spec ==
  /\ Init /\ [][Next]_vars
  /\ \A d \in Deliveries : WF_vars(LeaseExpires(d)) /\ WF_vars(RetryDue(d))
  /\ \A b \in Bridges : WF_vars(ClaimStep(b)) /\ WF_vars(SendStep(b))
  /\ WF_vars(Suppress)
  /\ \A d \in Deliveries :
       /\ SF_vars(\E m \in {x \in results : x.d = d} : ReadResult(m))
       /\ SF_vars(\E h \in {x \in handlers : x.d = d /\ HoldsLease(x)} : CommitResult(h))
       /\ WF_vars(\E h \in {x \in handlers : x.d = d} : CommitResult(h))
       /\ WF_vars(\E m \in {x \in results : x.d = d /\ ~ HoldsLease(x)} : LoseResult(m))

-----------------------------------------------------------------------------
Statuses == {"none", "pending", "leased", "retry", "sent", "ambiguous", "dead"}

OutboxTypes ==
  /\ rows \in [Deliveries -> [status : Statuses, count : 0..(DeadAttempts + MaxLocalAttempts - 1),
                              token : 0..MaxTokens, expired : BOOLEAN, waiting : BOOLEAN]]
  /\ overran \in [Deliveries -> 0..MaxOverruns]
  /\ attempts \in [Deliveries -> Nat] /\ eligible \in [Deliveries -> BOOLEAN]
  /\ ledger \in [Deliveries -> {"new", "sending", "sent"}]
  /\ \A b \in Bridges : bridges[b].pc \in {"idle", "update", "claimed", "sending"}
  /\ \A m \in results \cup handlers : m.d \in Deliveries /\ m.token \in 1..MaxTokens

\* A row that is still to be tried is below the limit: only the result that
\* concludes it may take its count past DeadAttempts.
RetriesAreLimited ==
  \A d \in Deliveries :
    rows[d].status \in {"none", "pending", "leased", "retry"} => rows[d].count < DeadAttempts

\* The types of the outbox and of what is under way, and the limit on retries.
TypeOK == OutboxTypes /\ RetriesAreLimited

(***************************************************************************)
(* The outbox and its bridges implement the promise of Delivery: at most   *)
(* one copy of a message, one conclusion, and sent means sent, although    *)
(* leases expire mid-send and results are late or repeated.                *)
(***************************************************************************)
Outcomes ==
  [d \in Deliveries |->
     IF rows[d].status \in {"pending", "leased", "retry"} THEN "queued" ELSE rows[d].status]
Promise == INSTANCE Delivery WITH outcome <- Outcomes
ImplementsDelivery == Promise!Spec

(***************************************************************************)
(* completeDelivery adds to an attempt_count it read earlier; the audit    *)
(* trail of attempts and the count that decides when to give up agree      *)
(* however completions of old and new claims overlap.                      *)
(***************************************************************************)
AttemptsMatchTrail == \A d \in Deliveries : rows[d].count = attempts[d]

(***************************************************************************)
(* The lease "covers the maximum configured bridge path" (delivery.ts:5):  *)
(* when it does, a message that is to be tried again, or was given up or   *)
(* suppressed, has not gone out.  A bridge that outlives its lease breaks  *)
(* this, and only such a bridge.                                           *)
(***************************************************************************)
UnsentIsTrue ==
  \A d \in Deliveries :
    overran[d] = 0 /\ rows[d].status \in {"retry", "dead"} => copies[d] = 0

(***************************************************************************)
(* A queued message does not wait for ever: it is concluded, unless the    *)
(* entry it announces has been excluded (a row excluded while it is leased *)
(* stays leased when its bridge is gone: nothing claims or suppresses it). *)
(***************************************************************************)
QueuedIsConcluded ==
  \A d \in Deliveries :
    Outcomes[d] = "queued" ~> Outcomes[d] \in {"sent", "ambiguous", "dead"} \/ ~ eligible[d]

=============================================================================

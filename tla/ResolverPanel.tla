---------------------------- MODULE ResolverPanel ----------------------------
(***************************************************************************)
(* One resolver panel of a human jury route: it is planned (bonds locked), *)
(* its resolvers commit and reveal votes, and requests settle it or time   *)
(* its laggards out (ResolutionRouter.ts behind the handlers of            *)
(* DotCastGateway.ts).  A request is a sequence of awaited statements with *)
(* no transaction around them; requests overlap, die between statements    *)
(* and are sent again, and votes arrive at any moment.                     *)
(*                                                                         *)
(* The USDC balance behind a bond lock is the subject of UsdcAccount: here *)
(* a lock has a status, taken or settled in one step.  The pool's own      *)
(* refusals are the subject of DotCastPool: here it keeps the first        *)
(* outcome it is given.  A commit hash is modelled by the vote it hides.   *)
(*                                                                         *)
(* A request names the stored panel, assignment or commit by its id, or    *)
(* else brings one in its body, which nothing compares with what is        *)
(* stored.  A panel in a body is made of this panel's seats, with their    *)
(* ids, resolvers and bonds; what seats, votes and stake is up to it.      *)
(***************************************************************************)
EXTENDS Integers, FiniteSets, Sequences, FiniteSetsExt, Sums

CONSTANTS
  Sizes,       \* panel sizes that panelSizeForStake returns
  Votes,       \* the answers each resolver may give
  Bodies,      \* panels with votes that a request may bring: seats, those with
               \* the heaviest answer, that answer, and the fee each has of it
  Weight,      \* max(1, reputationBps) of each assignment
  Bond,        \* bondForStake
  Deposit,     \* bond available to each resolver before the panel
  FeePool,     \* floor(estimatedStake * resolverFeeBps / 10000)
  Reputation,  \* reputation of the resolvers before the panel
  Gain, Loss,  \* RESOLVER_REPUTATION_CORRECT_DELTA_BPS, and minus MISS_DELTA_BPS
  MaxReputation,
  Workers,
  Concurrency, \* bound on the requests that overlap, for each panel size
  MaxRequests, \* bound on plan, settle and timeout requests
  MaxGiven,    \* bound on settlements of votes from the body, and on votes for
               \* a commit or an assignment from the body
  MaxDeaths    \* bound on requests that die half-way

Answers == {"invalid", "no", "yes"}

ASSUME PanelAssumption ==
  /\ Sizes \subseteq Nat \ {0}
  /\ \A n \in Sizes : \A s \in 1..n : Votes[s] \subseteq Answers /\ Weight[s] \in Nat \ {0}
  /\ Concurrency \in [Sizes -> Nat \ {0}]
  /\ Bond \in Nat \ {0} /\ Deposit \in Nat /\ FeePool \in Nat
  /\ Gain \in Nat /\ Loss \in Nat
  /\ MaxReputation \in Nat /\ Reputation \in 0..MaxReputation
  /\ MaxRequests \in Nat /\ MaxGiven \in Nat /\ MaxDeaths \in Nat
  /\ \A b \in Bodies : /\ b.seats \subseteq Nat \ {0} /\ b.matched \subseteq b.seats
                       /\ b.matched # {} /\ b.answer \in Answers /\ b.fee \in Nat

VARIABLES
  size,       \* seats of the panel, in the order of their assignment ids
  locks,      \* USDC bond locks
  panel,      \* the panel row exists
  status,     \* assignment rows, "none" when there is no row
  commits,    \* dotcast_resolver_commits
  reveals,    \* dotcast_resolver_reveals
  payouts,    \* dotcast_resolver_payouts
  profile,    \* available bond and reputation of each seat's resolver
  ledger,     \* bond ledger entries and reputation events
  pool,       \* outcome the pool was resolved with
  requests,
  served,     \* history: seats of settlements and timeouts of the stored panel
              \* that completed
  late,       \* history: a vote was revealed after payouts were computed
  raced,      \* history: seats on which two requests worked at once
  torn,       \* history: seats whose profile was updated by a request that
              \* died before the ledger entry
  given,      \* history: settlements of votes from the body, votes for a commit
              \* or an assignment from the body
  started, deaths  \* counters of the bounds

votes == <<commits, reveals>>
history == <<served, late, raced, torn, given, started, deaths>>
vars == <<size, locks, panel, status, votes, payouts, profile, ledger, pool, requests, history>>

Seats == 1..size

None == "none"
Idle == [pc |-> "idle"]

-----------------------------------------------------------------------------
(***************************************************************************)
(* settleDotCastResolverPanel, evaluateDotCastResolverPanelTimeout         *)
(***************************************************************************)
Assigned == {s \in Seats : status[s] # None}

WeightFor(a, seats) == SumOver(Weight, {s \in seats : reveals[s] = a})

\* Heaviest answer; ties go to the first in alphabetical order.
Rank(a) == CASE a = "invalid" -> 1 [] a = "no" -> 2 [] a = "yes" -> 3

ConsensusOf(seats) ==
  CHOOSE a \in Answers : \A b \in Answers \ {a} :
    \/ WeightFor(a, seats) > WeightFor(b, seats)
    \/ WeightFor(a, seats) = WeightFor(b, seats) /\ Rank(a) < Rank(b)

\* Mutant: a resolver who never revealed counts as agreeing.
AgreeingOrSilent(seats) == {s \in seats : reveals[s] \in {None, ConsensusOf(seats)}}

Agreeing(seats) == {s \in seats : reveals[s] = ConsensusOf(seats)}

FeePerCorrect(seats) == FeePool \div Cardinality(Agreeing(seats))

\* No vote so far.
Silent(phase) == {s \in Seats : (IF phase = "commit" THEN commits ELSE reveals)[s] = None}

\* Assignments a timeout slashes: not paid or slashed yet.
TimedOut(phase) == {s \in Assigned \cap Silent(phase) : status[s] \notin {"paid", "slashed"}}

\* The entries applyResolverPayoutAccounting makes for a seat.
Entry(kind, field, amount) == [kind |-> kind, field |-> field, amount |-> amount]

Accounting(matched, fee) ==
  IF matched
  THEN <<Entry("release", "bond", Bond)>>
         \o (IF fee > 0 THEN <<Entry("fee", "bond", fee)>> ELSE <<>>)
         \o <<Entry("reputation", "reputation", Gain)>>
  ELSE <<Entry("slash", "bond", 0), Entry("reputation", "reputation", - Loss)>>

-----------------------------------------------------------------------------
Init ==
  /\ size \in Sizes
  /\ locks = [s \in Seats |-> None]
  /\ panel = FALSE
  /\ status = [s \in Seats |-> None]
  /\ commits = [s \in Seats |-> None]
  /\ reveals = [s \in Seats |-> None]
  /\ payouts = [s \in Seats |-> None]
  /\ profile = [s \in Seats |-> [bond |-> Deposit, reputation |-> Reputation]]
  /\ ledger = [s \in Seats |-> {}]
  /\ pool = None
  /\ requests = [w \in Workers |-> Idle]
  /\ served = {} /\ late = FALSE /\ raced = {} /\ torn = {} /\ given = 0
  /\ started = 0 /\ deaths = 0

\* A request: the seats it goes through, the one it is at, what it is to write.
Request(kind, seats) ==
  [pc |-> "reserve", kind |-> kind, seats |-> seats, left |-> seats,
   matched |-> {}, fee |-> 0, answer |-> None, settlesPool |-> FALSE,
   entries |-> <<>>, held |-> 0, stored |-> TRUE]

Seat(w) == Min(requests[w].left)

Start(w, r) ==
  /\ requests[w].pc = "idle" /\ started < MaxRequests
  /\ Cardinality({v \in Workers : requests[v].pc # "idle"}) < Concurrency[size]
  /\ requests' = [requests EXCEPT ![w] = r]
  /\ started' = started + 1

\* Another request is at work on the seat this one turns to.
NoteRace(w) ==
  raced' = raced \cup {s \in {Seat(w)} : \E v \in Workers \ {w} :
    requests[v].pc \in {"insert", "read", "write"} /\ Seat(v) = s}

Goto(w, pc) == requests' = [requests EXCEPT ![w].pc = pc]
End(w) == requests' = [requests EXCEPT ![w] = Idle]

(***************************************************************************)
(* planDotCastResolverPanelRoute                                           *)
(***************************************************************************)
\* Every candidate must have the bond, or the panel is insufficient.
Plan(w) ==
  /\ \A s \in Seats : profile[s].bond >= Bond
  /\ Start(w, Request("plan", Seats))
  /\ UNCHANGED <<size, locks, panel, status, votes, payouts, profile, ledger, pool,
                 served, late, raced, torn, given, deaths>>

\* reserveUsdcBond: a lock that is held is left alone, a final one is refused.
Reserve(w) ==
  /\ requests[w].pc = "reserve"
  /\ LET s == Seat(w) IN
     IF locks[s] \in {None, "locked"}
     THEN /\ locks' = [locks EXCEPT ![s] = "locked"]
          /\ requests' = [requests EXCEPT ![w].left = IF @ = {s} THEN Seats ELSE @ \ {s},
                                          ![w].pc = IF requests[w].left = {s} THEN "panel"
                                                    ELSE "reserve"]
     ELSE UNCHANGED locks /\ End(w)
  /\ UNCHANGED <<size, panel, status, votes, payouts, profile, ledger, pool, history>>

InsertPanel(w) ==
  /\ requests[w].pc = "panel"
  /\ panel' = TRUE
  /\ Goto(w, "assign")
  /\ UNCHANGED <<size, locks, status, votes, payouts, profile, ledger, pool, history>>

\* INSERT OR IGNORE the assignment, then lock its bond.
Assign(w) ==
  /\ requests[w].pc = "assign"
  /\ LET s == Seat(w) IN
     /\ status' = [status EXCEPT ![s] = IF @ = None THEN "assigned" ELSE @]
     /\ requests' = [requests EXCEPT ![w].pc = "read",
                                     ![w].entries = <<Entry("lock", "bond", - Bond)>>]
  /\ NoteRace(w)
  /\ UNCHANGED <<size, locks, panel, votes, payouts, profile, ledger, pool,
                 served, late, torn, given, started, deaths>>

(***************************************************************************)
(* applyResolverBondDelta, applyResolverReputationDelta                    *)
(***************************************************************************)
\* What follows the last entry of a seat: the next seat, or the next loop.
AfterSeat(r) ==
  LET rest == r.left \ {Min(r.left)} IN
  IF rest # {} THEN [r EXCEPT !.left = rest, !.entries = <<>>,
                              !.pc = IF r.kind = "plan" THEN "assign" ELSE "check"]
  ELSE IF r.kind = "plan" THEN Idle
  ELSE [r EXCEPT !.left = r.seats, !.entries = <<>>, !.pc = "bonds"]

\* The next entry of the seat, if any.
Advance(r) == IF r.entries = <<>> THEN AfterSeat(r) ELSE r

\* Mutant: an entry is made whether or not the ledger has it.
Missing(s, e) == TRUE

Unrecorded(s, e) == \A f \in ledger[s] : f.kind # e.kind

\* clampBps
Clamp(value) == Max({0, Min({MaxReputation, value})})

\* SELECT the entry, SELECT the profile; a bond below zero is refused.
ReadProfile(w) ==
  /\ requests[w].pc = "read"
  /\ LET r == requests[w]
         s == Seat(w) IN
     requests' = [requests EXCEPT ![w] =
       IF ~ Unrecorded(s, Head(r.entries)) THEN Advance([r EXCEPT !.entries = Tail(@)])
       ELSE LET e == Head(r.entries)
                value == profile[s][e.field] + e.amount IN
            IF e.field = "bond" /\ value < 0 THEN Idle
            ELSE [r EXCEPT !.pc = "write",
                           !.held = IF e.field = "bond" THEN value ELSE Clamp(value)]]
  /\ UNCHANGED <<size, locks, panel, status, votes, payouts, profile, ledger, pool, history>>

Updated(w) ==
  [profile EXCEPT ![Seat(w)][Head(requests[w].entries).field] = requests[w].held]

\* UPDATE the profile with the value computed from what was read, then
\* INSERT OR IGNORE the entry.
ApplyEntry(w) ==
  /\ requests[w].pc = "write"
  /\ profile' = Updated(w)
  /\ LET r == requests[w]
         s == Seat(w)
         e == Head(r.entries) IN
     /\ ledger' = [ledger EXCEPT ![s] = IF Unrecorded(s, e) THEN @ \cup {e} ELSE @]
     /\ requests' = [requests EXCEPT ![w] =
          Advance([r EXCEPT !.pc = "read", !.entries = Tail(r.entries)])]
  /\ UNCHANGED <<size, locks, panel, status, votes, payouts, pool, history>>

(***************************************************************************)
(* commitDotCastResolverRoute, revealDotCastResolverRoute.  Neither looks  *)
(* at the status of the assignment, and both overwrite it where there is   *)
(* one.  Bound: each resolver votes once; a repeated vote is ignored but   *)
(* for the status.                                                         *)
(***************************************************************************)
WithStatus(s, new) == [status EXCEPT ![s] = IF @ = None THEN None ELSE new]

Commit(s, v) ==
  /\ status[s] # None /\ commits[s] = None
  /\ commits' = [commits EXCEPT ![s] = v]
  /\ status' = WithStatus(s, "committed")
  /\ UNCHANGED <<size, locks, panel, reveals, payouts, profile, ledger, pool, requests, history>>

\* The assignment may come with the request, before there is one.
CommitGiven(s, v) ==
  /\ status[s] = None /\ commits[s] = None /\ given < MaxGiven
  /\ commits' = [commits EXCEPT ![s] = v]
  /\ given' = given + 1
  /\ UNCHANGED <<size, locks, panel, status, reveals, payouts, profile, ledger, pool, requests,
                 served, late, raced, torn, started, deaths>>

Computing == \E w \in Workers : requests[w].pc # "idle" /\ requests[w].kind # "plan"

Store(s, v) ==
  /\ reveals[s] = None
  /\ reveals' = [reveals EXCEPT ![s] = v]
  /\ status' = WithStatus(s, "revealed")
  /\ late' = (late \/ Computing \/ \E t \in Seats : payouts[t] # None)
  /\ UNCHANGED <<size, locks, panel, commits, payouts, profile, ledger, pool, requests,
                 served, raced, torn, started, deaths>>

Reveal(s, v) == commits[s] = v /\ Store(s, v) /\ UNCHANGED given

\* The commit that the vote is checked against may come with the request.
RevealGiven(s, v) ==
  /\ commits[s] # v /\ given < MaxGiven
  /\ Store(s, v)
  /\ given' = given + 1

(***************************************************************************)
(* settleDotCastResolverPanelRoute, applyDotCastResolverPanelTimeoutRoute  *)
(***************************************************************************)
\* Refused without a panel or a reveal; the panel is read as it stands.
Settle(w, settlesPool) ==
  /\ panel
  /\ \E s \in Assigned : reveals[s] # None
  /\ Start(w, [Request("settle", Assigned) EXCEPT
                 !.pc = "check", !.matched = Agreeing(Assigned),
                 !.fee = FeePerCorrect(Assigned), !.answer = ConsensusOf(Assigned),
                 !.settlesPool = settlesPool])
  /\ UNCHANGED <<size, locks, panel, status, votes, payouts, profile, ledger, pool,
                 served, late, raced, torn, given, deaths>>

\* Panel and votes may come with the request, whatever is stored.
SettleGiven(w, b, settlesPool) ==
  /\ b.seats \subseteq Seats /\ given < MaxGiven
  /\ Start(w, [Request("settle", b.seats) EXCEPT
                 !.pc = "check", !.matched = b.matched, !.fee = b.fee, !.answer = b.answer,
                 !.settlesPool = settlesPool, !.stored = FALSE])
  /\ given' = given + 1
  /\ UNCHANGED <<size, locks, panel, status, votes, payouts, profile, ledger, pool,
                 served, late, raced, torn, deaths>>

Timeout(w, phase) ==
  /\ panel
  /\ TimedOut(phase) # {}
  /\ Start(w, [Request("timeout", TimedOut(phase)) EXCEPT !.pc = "check"])
  /\ UNCHANGED <<size, locks, panel, status, votes, payouts, profile, ledger, pool,
                 served, late, raced, torn, given, deaths>>

\* The panel may come with the request, its statuses too; the votes are read.
TimeoutGiven(w, b, phase) ==
  LET seats == b.seats \cap Silent(phase)
  IN  /\ b.seats \subseteq Seats /\ seats # {}
      /\ Start(w, [Request("timeout", seats) EXCEPT !.pc = "check", !.stored = FALSE])
      /\ UNCHANGED <<size, locks, panel, status, votes, payouts, profile, ledger, pool,
                     served, late, raced, torn, given, deaths>>

\* Mutant: the payout is not looked for.
CheckNothing(w) ==
  /\ requests[w].pc = "check"
  /\ Goto(w, "insert")
  /\ NoteRace(w)
  /\ UNCHANGED <<size, locks, panel, status, votes, payouts, profile, ledger, pool,
                 served, late, torn, given, started, deaths>>

\* A seat that has its payout is skipped, with all its accounting.
CheckPayout(w) ==
  /\ requests[w].pc = "check"
  /\ LET s == Seat(w) IN
     IF payouts[s] # None
     THEN requests' = [requests EXCEPT ![w] = AfterSeat(@)] /\ UNCHANGED raced
     ELSE Goto(w, "insert") /\ NoteRace(w)
  /\ UNCHANGED <<size, locks, panel, status, votes, payouts, profile, ledger, pool,
                 served, late, torn, given, started, deaths>>

\* INSERT OR IGNORE: the first verdict stays.  UPDATE the assignment; the
\* request fails when there is none.
InsertPayout(w) ==
  /\ requests[w].pc = "insert"
  /\ LET r == requests[w]
         s == Seat(w)
         matched == s \in r.matched IN
     /\ payouts' = [payouts EXCEPT ![s] = IF @ # None THEN @
                                         ELSE IF matched THEN "matched" ELSE "missed"]
     /\ status' = WithStatus(s, IF matched THEN "paid" ELSE "slashed")
     /\ requests' = [requests EXCEPT ![w] =
          IF status[s] = None THEN Idle
          ELSE [r EXCEPT !.pc = "read", !.entries = Accounting(matched, r.fee)]]
  /\ UNCHANGED <<size, locks, panel, votes, profile, ledger, pool, history>>

\* Mutant: the bonds of the slashed are forgotten.
SettleMatchedBond(w) ==
  /\ requests[w].pc = "bonds"
  /\ LET r == requests[w]
         s == Seat(w) IN
     /\ locks' = [locks EXCEPT ![s] = IF @ = "locked" /\ s \in r.matched THEN "released" ELSE @]
     /\ requests' = [requests EXCEPT ![w] =
          IF r.left # {s} THEN [r EXCEPT !.left = @ \ {s}]
          ELSE IF r.settlesPool THEN [r EXCEPT !.pc = "pool"] ELSE Idle]
     /\ served' = IF r.left = {s} /\ r.stored THEN served \cup r.seats ELSE served
  /\ UNCHANGED <<size, panel, status, votes, payouts, profile, ledger, pool,
                 late, raced, torn, given, started, deaths>>

\* settleUsdcBond for every payout computed, made now or skipped.
SettleBond(w) ==
  /\ requests[w].pc = "bonds"
  /\ LET r == requests[w]
         s == Seat(w) IN
     /\ locks' = [locks EXCEPT ![s] = IF @ # "locked" THEN @
                                      ELSE IF s \in r.matched THEN "released" ELSE "slashed"]
     /\ requests' = [requests EXCEPT ![w] =
          IF r.left # {s} THEN [r EXCEPT !.left = @ \ {s}]
          ELSE IF r.settlesPool THEN [r EXCEPT !.pc = "pool"] ELSE Idle]
     /\ served' = IF r.left = {s} /\ r.stored THEN served \cup r.seats ELSE served
  /\ UNCHANGED <<size, panel, status, votes, payouts, profile, ledger, pool,
                 late, raced, torn, given, started, deaths>>

\* applyE13OutcomeToPool; no challenge can stand against a jury route.
ResolvePool(w) ==
  /\ requests[w].pc = "pool"
  /\ pool' = IF pool = None THEN requests[w].answer ELSE pool
  /\ End(w)
  /\ UNCHANGED <<size, locks, panel, status, votes, payouts, profile, ledger, history>>

\* A statement throws or the worker is gone: what was written stays.
Die(w) ==
  /\ requests[w].pc # "idle" /\ deaths < MaxDeaths
  /\ deaths' = deaths + 1
  /\ End(w)
  /\ UNCHANGED <<size, locks, panel, status, votes, payouts, profile, ledger, pool,
                 served, late, raced, torn, given, started>>

\* The request ends between the UPDATE of a profile and its entry.
DieTorn(w) ==
  /\ requests[w].pc = "write" /\ deaths < MaxDeaths
  /\ deaths' = deaths + 1
  /\ profile' = Updated(w)
  /\ torn' = torn \cup {Seat(w)}
  /\ End(w)
  /\ UNCHANGED <<size, locks, panel, status, votes, payouts, ledger, pool,
                 served, late, raced, given, started>>

Next ==
  \/ \E w \in Workers :
       \/ Plan(w) \/ Reserve(w) \/ InsertPanel(w) \/ Assign(w)
       \/ ReadProfile(w) \/ ApplyEntry(w)
       \/ \E settlesPool \in BOOLEAN :
            Settle(w, settlesPool) \/ \E b \in Bodies : SettleGiven(w, b, settlesPool)
       \/ \E phase \in {"commit", "reveal"} :
            Timeout(w, phase) \/ \E b \in Bodies : TimeoutGiven(w, b, phase)
       \/ CheckPayout(w) \/ InsertPayout(w)
       \/ SettleBond(w) \/ ResolvePool(w)
       \/ Die(w) \/ DieTorn(w)
  \/ \E s \in Seats : \E v \in Votes[s] :
       Commit(s, v) \/ CommitGiven(s, v) \/ Reveal(s, v) \/ RevealGiven(s, v)

Spec == Init /\ [][Next]_vars

-----------------------------------------------------------------------------
\* The types; no bond is negative and no reputation out of range.
TypeOK ==
  /\ size \in Sizes
  /\ locks \in [Seats -> {None, "locked", "released", "slashed"}]
  /\ panel \in BOOLEAN
  /\ status \in [Seats -> {None, "assigned", "committed", "revealed", "paid", "slashed"}]
  /\ commits \in [Seats -> Answers \cup {None}]
  /\ reveals \in [Seats -> Answers \cup {None}]
  /\ payouts \in [Seats -> {None, "matched", "missed"}]
  /\ profile \in [Seats -> [bond : Nat, reputation : 0..MaxReputation]]
  /\ pool \in Answers \cup {None}
  /\ \A w \in Workers :
       requests[w].pc \in {"idle", "reserve", "panel", "assign", "read", "write",
                          "check", "insert", "bonds", "pool"}

\* The amounts of a set of entries, added up.
Total(entries) == SumOver([e \in entries |-> e.amount], entries)

(***************************************************************************)
(* The append-only ledger explains the profile: the bond available to a    *)
(* resolver is the deposit plus the entries about it, whatever requests    *)
(* are repeated, die or run beside each other, as long as no two of them   *)
(* work on the seat at once and none dies between UPDATE and entry.  And   *)
(* even then no bond is negative and no reputation out of range, which the *)
(* CHECK constraints would refuse half-way through a payout.               *)
(***************************************************************************)
LedgerExplainsBond ==
  /\ TypeOK
  /\ \A s \in Seats \ (raced \cup torn) :
       profile[s].bond = Deposit + Total({e \in ledger[s] : e.field = "bond"})

\* Every verdict was computed from the same votes: none was revealed after a
\* settlement or timeout had looked, and none came from a request's body.
OneSetOfVotes == ~ late /\ given = 0

(***************************************************************************)
(* A seat is judged once.  What the ledger says of it agrees with its      *)
(* payout row, unless two requests worked on the seat at once with         *)
(* different votes before them.  So does its USDC bond lock, however       *)
(* requests overlap, die and are repeated, as long as all had the same     *)
(* votes before them: after late votes, a repeated settlement settles the  *)
(* locks that a dead one left by its own verdicts.                         *)
(***************************************************************************)
JudgedOnce ==
  \A s \in Seats :
    /\ s \notin raced \/ OneSetOfVotes => \A e \in ledger[s] :
         /\ e.kind \in {"release", "fee"} => payouts[s] = "matched"
         /\ e.kind = "slash" => payouts[s] = "missed"
    /\ OneSetOfVotes =>
         /\ locks[s] = "released" => payouts[s] = "matched"
         /\ locks[s] = "slashed" => payouts[s] = "missed"

(***************************************************************************)
(* A settlement or timeout of the stored panel that ran to its end leaves  *)
(* no bond of its seats locked and no seat without a payout, although an   *)
(* earlier request may have died anywhere in between: sending the request  *)
(* again completes it.                                                     *)
(***************************************************************************)
ServedIsSettled ==
  \A s \in served : locks[s] \in {"released", "slashed"} /\ payouts[s] # None

(***************************************************************************)
(* Pay for correctness: once the panel has resolved the pool, exactly the  *)
(* resolvers who revealed that outcome are paid, and together they are     *)
(* credited no more than the fee.  It holds when no vote was revealed      *)
(* after a settlement or a timeout had looked at the votes, and none was   *)
(* taken from a request's body: not by a settlement that brings panel and  *)
(* votes, nor by a reveal or commit that brings commit or assignment.      *)
(***************************************************************************)
PaidForCorrectnessInTime ==
  OneSetOfVotes =>
    /\ pool # None => \A s \in Seats : payouts[s] # None =>
         (payouts[s] = "matched" <=> reveals[s] = pool)
    /\ SumOver([s \in Seats |-> Total({e \in ledger[s] : e.kind = "fee"})], Seats) <= FeePool

(***************************************************************************)
(* Pay for correctness as the panel route announces it, whenever votes     *)
(* arrive: a resolver who is paid revealed the outcome the pool got.       *)
(***************************************************************************)
PaidForCorrectness ==
  pool # None => \A s \in Seats : payouts[s] = "matched" => reveals[s] = pool

=============================================================================

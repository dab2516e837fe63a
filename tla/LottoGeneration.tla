-------------------------- MODULE LottoGeneration --------------------------
(***************************************************************************)
(* One draw day of the lotto worker's autonomous generation: cron ticks    *)
(* and service requests start workers that generate the day's picks of one *)
(* game at a time under a lease, commit run, tickets and outbox rows in    *)
(* one batch, and record failures with a bounded number of attempts.       *)
(* Workers die, outlive their lease, and fail before and after the batch.  *)
(*                                                                         *)
(* Abstracted: what is generated (only the number of tickets is kept), the *)
(* sources and their verification (they succeed or throw), wording.        *)
(***************************************************************************)
EXTENDS Integers, Sequences, FiniteSets

CONSTANTS
  Games,       \* selected games, in the order of the configuration query
  Workers,     \* invocations of the worker that may overlap
  Counts,      \* ticket counts an operator configures
  MaxAttempts, \* MAX_PIPELINE_ATTEMPTS (3 in the code)
  MaxFaults    \* bound: deaths of workers, leases that end before their worker,
               \* edits of the configuration and service requests, together

Game == {Games[i] : i \in DOMAIN Games}
Nobody == "nobody"

ASSUME GenerationAssumption ==
  /\ Games \in Seq(Game)
  /\ Nobody \notin Workers
  /\ Counts \subseteq Nat \ {0} /\ Counts # {}
  /\ MaxAttempts \in Nat \ {0}
  /\ MaxFaults \in Nat

VARIABLES
  config,  \* lotto_game_config: the ticket count, or Invalid
  window,  \* open, late (past 09:00), closed (past the sales cutoff)
  runs,    \* lotto_generation_runs
  tickets, \* how many rows lotto_generated_tickets holds for the run
  picks,   \* games with a picks row in lotto_delivery_outbox
  alerts,  \* the alert row's text, if any
  leases,  \* lotto_generation_leases: the holder, and whether it has expired
  workers,
  edited,  \* history: games whose configuration was edited during the day
  faults

bounds == <<edited, faults>>
tables == <<runs, tickets, picks, alerts>>
generationVars == <<config, window, tables, leases, workers, bounds>>

Invalid == 0
NoTask == [pc |-> "idle"]
NoRun == [status |-> "none", attempts |-> 0, retry |-> "never", count |-> 0]

Generated(g) == runs[g].status = "generated"
Reconciles(g) == tickets[g] = runs[g].count

\* Workers between acquireGenerationLease and releaseGenerationLease.
Holding(w, g) ==
  workers[w].pc \in {"begin", "generate", "commit", "readback", "fail", "record", "release"}
  /\ workers[w].game = g

(***************************************************************************)
(* A worker's task.  now: the time it was told, "present" unless a request *)
(* told it another one and it is only to record an invalid configuration.  *)
(* lapsed: its lease ran out, or was taken over by a worker that was told  *)
(* a later time.                                                           *)
(***************************************************************************)
Task(pc, g) == [pc |-> pc, game |-> g, count |-> Invalid, now |-> "present", late |-> FALSE,
                lapsed |-> FALSE, attempts |-> 0, missed |-> FALSE]
Become(w, pc) == workers' = [workers EXCEPT ![w].pc = pc]
Ending(w) ==  \* on to the finally block; nothing else is needed any more
  workers' = [workers EXCEPT ![w] = [Task("release", @.game) EXCEPT !.lapsed = workers[w].lapsed]]
Quit(w) == workers' = [workers EXCEPT ![w] = NoTask]
Fault == faults < MaxFaults /\ faults' = faults + 1

\* What "it is past that time" may come to for a worker that was told `now'.
Judged(past, now) ==
  {past} \cup (IF now = "later" THEN {TRUE} ELSE IF now = "earlier" THEN {FALSE} ELSE {})

-----------------------------------------------------------------------------
(* The day goes on. *)

WindowMoves(g) ==
  /\ window[g] # "closed"
  /\ window' = [window EXCEPT ![g] = IF @ = "open" THEN "late" ELSE "closed"]
  /\ UNCHANGED <<config, tables, leases, workers, bounds>>

EditConfig(g, c) ==
  /\ config[g] # c
  /\ Fault
  /\ config' = [config EXCEPT ![g] = c]
  /\ edited' = edited \cup {g}
  /\ UNCHANGED <<window, tables, leases, workers>>

GenerationRetryDue(g) ==
  /\ runs[g].retry = "waiting"
  /\ runs' = [runs EXCEPT ![g].retry = "due"]
  /\ UNCHANGED <<config, window, tickets, picks, alerts, leases, workers, bounds>>

\* Fifteen minutes after the lease was taken.
GenerationLeaseExpires(g) ==
  LET holder == leases[g].holder
  IN  /\ holder # Nobody /\ ~ leases[g].expired
      /\ leases' = [leases EXCEPT ![g].expired = TRUE]
      /\ IF Holding(holder, g) /\ ~ workers[holder].lapsed
           THEN Fault /\ workers' = [workers EXCEPT ![holder].lapsed = TRUE]
           ELSE UNCHANGED <<faults, workers>>
      /\ UNCHANGED <<config, window, tables, edited>>

-----------------------------------------------------------------------------
(* runScheduledGeneration *)

NeverAttempted == {i \in DOMAIN Games : runs[Games[i]].status = "none"}

\* Mutant: a failed run is left to the operator.
NothingRetryable == {}

Retryable ==
  {i \in DOMAIN Games : /\ runs[Games[i]].status = "failed"
                        /\ runs[Games[i]].attempts < MaxAttempts
                        /\ runs[Games[i]].retry = "due"}

First(S) == CHOOSE i \in S : \A j \in S : i <= j

Start(w, g, pc) ==
  workers' = [workers EXCEPT ![w] = Task(pc, g)]

\* A cron tick: the first due game never attempted, else the first one whose
\* retry is due.  A game with an invalid configuration goes straight to
\* recordConfigurationFailure.
Schedule(w) ==
  /\ workers[w].pc = "idle"
  /\ NeverAttempted \cup Retryable # {}
  /\ LET g == Games[First(IF NeverAttempted # {} THEN NeverAttempted ELSE Retryable)]
     IN  Start(w, g, IF config[g] = Invalid THEN "acquire" ELSE "check")
  /\ UNCHANGED <<config, window, tables, leases, bounds>>

\* POST automation/run names a game, whatever became of its run.
Request(w, g) ==
  /\ workers[w].pc = "idle"
  /\ Fault
  /\ Start(w, g, "check")
  /\ UNCHANGED <<config, window, tables, leases, edited>>

\* Failed runs that another attempt is left for, due or not.
Failed == {i \in DOMAIN Games : /\ runs[Games[i]].status = "failed"
                                /\ runs[Games[i]].attempts < MaxAttempts
                                /\ runs[Games[i]].retry # "never"}

\* POST automation/run without a game but with a time of its own, which
\* decides which games and retries are due.  That time goes no further, except
\* into recordConfigurationFailure.
RunRequest(w, now) ==
  /\ workers[w].pc = "idle"
  /\ Fault
  /\ \E due \in SUBSET (NeverAttempted \cup Failed) :
       LET g == Games[First(IF due \cap NeverAttempted # {} THEN due \cap NeverAttempted ELSE due)]
       IN  /\ due # {}
           /\ workers' = [workers EXCEPT ![w] =
                IF config[g] = Invalid THEN [Task("acquire", g) EXCEPT !.now = now]
                                       ELSE Task("check", g)]
  /\ UNCHANGED <<config, window, tables, leases, edited>>

-----------------------------------------------------------------------------
(* generateForGame *)

\* The configuration is read (and throws when invalid); a generated run is
\* reused (and throws when its tickets do not reconcile).
Check(w) ==
  LET g == workers[w].game
  IN  /\ workers[w].pc = "check"
      /\ workers' = [workers EXCEPT ![w] =
           IF config[g] = Invalid \/ Generated(g) THEN NoTask
           ELSE [@ EXCEPT !.pc = "acquire", !.count = config[g]]]
      /\ UNCHANGED <<config, window, tables, leases, bounds>>

\* acquireGenerationLease, at the time the worker goes by: a lease that has
\* expired by then is taken over, from a worker still at work too; one taken
\* at an earlier time may have run out already.
Acquire(w) ==
  LET g == workers[w].game
      old == leases[g].holder
      now == workers[w].now
  IN  /\ workers[w].pc = "acquire"
      /\ \E free \in IF old = Nobody THEN {TRUE} ELSE Judged(leases[g].expired, now),
            spent \in IF now = "earlier" THEN BOOLEAN ELSE {FALSE} :
           IF free
           THEN /\ leases' = [leases EXCEPT ![g] = [holder |-> w, expired |-> spent]]
                /\ workers' = [v \in Workers |->
                     IF v = w THEN [workers[w] EXCEPT !.lapsed = spent,
                                      !.pc = IF workers[w].count = Invalid THEN "fail" ELSE "begin"]
                     ELSE IF v = old /\ Holding(v, g) THEN [workers[v] EXCEPT !.lapsed = TRUE]
                     ELSE workers[v]]
           ELSE Quit(w) /\ UNCHANGED leases
      /\ UNCHANGED <<config, window, tables, bounds>>

Begin(w) ==
  /\ workers[w].pc = "begin"
  /\ Become(w, IF window[workers[w].game] = "closed" THEN "fail" ELSE "generate")
  /\ UNCHANGED <<config, window, tables, leases, bounds>>

\* Sources are refreshed and verified, tickets picked, statements prepared:
\* all of it may throw, and it must be done before the cutoff.
Generate(w, ok) ==
  LET g == workers[w].game
  IN  /\ workers[w].pc = "generate"
      /\ workers' = [workers EXCEPT ![w].pc = IF ok /\ window[g] # "closed" THEN "commit" ELSE "fail",
                                    ![w].late = window[g] = "late"]
      /\ UNCHANGED <<config, window, tables, leases, bounds>>

\* Mutant: a second commit appends its tickets.
AppendedRows(m, n) == m + n

\* INSERT OR IGNORE of n tickets by their ordinals, when m are there.
TicketRows(m, n) == IF m > n THEN m ELSE n

\* The batch: the run unless generated, tickets and picks row by INSERT OR
\* IGNORE, and the alert about a late generation.
Commit(w) ==
  LET g == workers[w].game
      n == workers[w].count
  IN  /\ runs' = [runs EXCEPT ![g] =
           IF @.status = "generated" THEN @
           ELSE [status |-> "generated", attempts |-> @.attempts + 1, retry |-> "never", count |-> n]]
      /\ tickets' = [tickets EXCEPT ![g] = TicketRows(@, n)]
      /\ picks' = picks \cup {g}
      /\ \/ workers[w].late /\ alerts' = [alerts EXCEPT ![g] = "late"]
         \/ \* an alert that a bridge has taken is not rewritten
            (~ workers[w].late \/ alerts[g] # "none") /\ UNCHANGED alerts

\* The cutoff is checked once more; the batch is refused, or applied and its
\* answer lost, or applied.
TryCommit(w, applied, answered) ==
  /\ workers[w].pc = "commit"
  /\ IF window[workers[w].game] # "closed" /\ applied THEN Commit(w) ELSE UNCHANGED tables
  /\ Become(w, IF window[workers[w].game] # "closed" /\ applied /\ answered
                 THEN "readback" ELSE "fail")
  /\ UNCHANGED <<config, window, leases, bounds>>

\* The daily summary and the run read back; either may throw.
ReadBack(w, ok) ==
  /\ workers[w].pc = "readback"
  /\ IF ok /\ Reconciles(workers[w].game) THEN Ending(w) ELSE Become(w, "fail")
  /\ UNCHANGED <<config, window, tables, leases, bounds>>

-----------------------------------------------------------------------------
(* recordFailure *)

\* The deadline is judged and the attempts so far are read.
Fail(w) ==
  LET g == workers[w].game
  IN  /\ workers[w].pc = "fail"
      /\ \E missed \in Judged(window[g] = "closed", workers[w].now) :
           workers' = [workers EXCEPT ![w].pc = "record", ![w].attempts = runs[g].attempts + 1,
                                      ![w].missed = missed]
      /\ UNCHANGED <<config, window, tables, leases, bounds>>

\* Mutant: a missed deadline is final but only the last attempt is announced.
AlertsOnLastAttempt(w) == workers[w].attempts >= MaxAttempts

Terminal(w) == workers[w].missed \/ workers[w].attempts >= MaxAttempts

\* When a failure is announced by an alert row.
Alerts(w) == Terminal(w) \/ workers[w].missed

\* Mutant: the failure is written over whatever the run is.
FailedAnyway(g, w) ==
  [runs[g] EXCEPT !.status = "failed", !.attempts = workers[w].attempts,
                  !.retry = IF Terminal(w) THEN "never" ELSE "waiting"]

\* The run after a failure: a generated one is left alone.
FailedRun(g, w) ==
  IF Generated(g) THEN runs[g]
  ELSE [status |-> "failed", attempts |-> workers[w].attempts,
        retry |-> IF Terminal(w) THEN "never" ELSE "waiting", count |-> runs[g].count]

RecordFailure(w) ==
  LET g == workers[w].game
  IN  /\ workers[w].pc = "record"
      /\ runs' = [runs EXCEPT ![g] = FailedRun(g, w)]
      /\ alerts' = [alerts EXCEPT ![g] =
           IF Alerts(w) /\ @ = "none" THEN IF workers[w].missed THEN "missed" ELSE "failed" ELSE @]
      /\ Ending(w)
      /\ UNCHANGED <<config, window, tickets, picks, leases, bounds>>

-----------------------------------------------------------------------------
\* Mutant: the lease is deleted whoever holds it.
ReleaseAny(w) ==
  /\ workers[w].pc = "release"
  /\ leases' = [leases EXCEPT ![workers[w].game] = [holder |-> Nobody, expired |-> FALSE]]
  /\ Quit(w)
  /\ UNCHANGED <<config, window, tables, bounds>>

\* releaseGenerationLease, in the finally block: only one's own lease.
Release(w) ==
  LET g == workers[w].game
  IN  /\ workers[w].pc = "release"
      /\ leases' = IF leases[g].holder = w
                     THEN [leases EXCEPT ![g] = [holder |-> Nobody, expired |-> FALSE]]
                     ELSE leases
      /\ Quit(w)
      /\ UNCHANGED <<config, window, tables, bounds>>

\* The invocation is cut off.
Die(w) ==
  /\ workers[w].pc # "idle"
  /\ Fault
  /\ Quit(w)
  /\ UNCHANGED <<config, window, tables, leases, edited>>

-----------------------------------------------------------------------------
GenerationInit ==
  /\ config \in [Game -> Counts \cup {Invalid}]
  /\ window = [g \in Game |-> "open"]
  /\ runs = [g \in Game |-> NoRun]
  /\ tickets = [g \in Game |-> 0] /\ picks = {} /\ alerts = [g \in Game |-> "none"]
  /\ leases = [g \in Game |-> [holder |-> Nobody, expired |-> FALSE]]
  /\ workers = [w \in Workers |-> NoTask]
  /\ edited = {} /\ faults = 0

WorkerStep(w) ==
  \/ Check(w) \/ Acquire(w) \/ Begin(w) \/ Fail(w) \/ RecordFailure(w) \/ Release(w)
  \/ \E ok \in BOOLEAN : Generate(w, ok) \/ ReadBack(w, ok) \/ TryCommit(w, TRUE, ok)
  \/ TryCommit(w, FALSE, FALSE)

GenerationNext ==
  \/ \E g \in Game : \/ WindowMoves(g) \/ GenerationRetryDue(g) \/ GenerationLeaseExpires(g)
                     \/ \E c \in Counts \cup {Invalid} : EditConfig(g, c)
  \/ \E w \in Workers : \/ Schedule(w) \/ WorkerStep(w) \/ Die(w)
                        \/ \E g \in Game : Request(w, g)
                        \/ \E now \in {"earlier", "later"} : RunRequest(w, now)

\* Cron keeps ticking (whether or not somebody also posts requests), an
\* invocation runs to its end unless it is cut off, time passes.
GenerationSpec ==
  /\ GenerationInit /\ [][GenerationNext]_generationVars
  /\ \A w \in Workers : SF_generationVars(Schedule(w)) /\ WF_generationVars(WorkerStep(w))
  /\ \A g \in Game : /\ WF_generationVars(GenerationRetryDue(g))
                     /\ WF_generationVars(GenerationLeaseExpires(g))

-----------------------------------------------------------------------------
\* The types of the tables.
GenerationTypeOK ==
  /\ runs \in [Game -> [status : {"none", "failed", "generated"}, attempts : Nat,
                        retry : {"never", "waiting", "due"}, count : Counts \cup {0}]]
  /\ tickets \in [Game -> Nat] /\ picks \subseteq Game
  /\ alerts \in [Game -> {"none", "failed", "missed", "late"}]

(***************************************************************************)
(* Picks that are queued for delivery stay the run's picks: their run is   *)
(* generated and its tickets are there, whatever later workers, failures   *)
(* after the commit and retries write.  (A later commit with a larger      *)
(* ticket count adds tickets: the run then no longer reconciles.)          *)
(***************************************************************************)
PicksAreBacked ==
  \A g \in picks : Generated(g) /\ runs[g].count > 0 /\ tickets[g] >= runs[g].count

(***************************************************************************)
(* Without an edit of the configuration the tickets of a generated run     *)
(* reconcile with its count, so generatedRun never throws for it.  (And    *)
(* the tables are of their types.)                                         *)
(***************************************************************************)
TicketsReconcile ==
  /\ GenerationTypeOK
  /\ \A g \in Game \ edited : Generated(g) => Reconciles(g)

(***************************************************************************)
(* A run that nothing will try again is announced: the attempts are used   *)
(* up, or the sales cutoff was missed, and the alert row is there.         *)
(***************************************************************************)
GivingUpIsAnnounced ==
  \A g \in Game : runs[g].status = "failed" /\ runs[g].retry = "never" => alerts[g] # "none"

(***************************************************************************)
(* Two workers never work on one game unless the lease of one has lapsed:  *)
(* it ran out, or an invalid configuration was recorded for a later time   *)
(* than the present and took the lease over.  Nobody else takes a lease    *)
(* that is held, also when a worker that outlived its own releases.        *)
(***************************************************************************)
LeaseExcludes ==
  \A g \in Game : \A v, w \in Workers :
    Holding(v, g) /\ Holding(w, g) /\ ~ workers[v].lapsed /\ ~ workers[w].lapsed => v = w

(***************************************************************************)
(* Every selected game of the day ends generated or with an alert: neither *)
(* a dead worker's lease nor failing attempts nor an invalid configuration *)
(* keep it waiting for ever.                                               *)
(***************************************************************************)
EveryGameIsSettled == \A g \in Game : <>(Generated(g) \/ alerts[g] # "none")

=============================================================================

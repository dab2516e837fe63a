------------------------ MODULE OrderReconciliation ------------------------
(***************************************************************************)
(* What the trading engine believes about its orders and its position, and *)
(* what the exchange knows: orders placed by the execution worker, the     *)
(* execution reports it forwards to the engine (late, out of order or      *)
(* never), the engine's accounting of a report, and the janitor that       *)
(* compares the order map with the exchange's list of open orders.         *)
(*                                                                         *)
(* All orders buy, so the position is a sum of fills.  An order's entry is *)
(* filed under its client id "c", or, when the report of a cancel is the   *)
(* first the engine hears of the order, under its exchange id "x" or under *)
(* the cancellation's own client id "n".                                   *)
(***************************************************************************)
EXTENDS Integers, FiniteSets, Sums

CONSTANTS
  Orders,     \* client ids
  Size,       \* units of every order
  Adapters,   \* may the list of open orders carry client ids? of BOOLEAN
  MaxRestarts \* bound: evictions of the engine

ASSUME OrdersAssumption ==
  /\ IsFiniteSet(Orders)
  /\ Size \in Nat \ {0}
  /\ Adapters \subseteq BOOLEAN /\ Adapters # {}
  /\ MaxRestarts \in Nat

VARIABLES
  adapter,     \* TRUE: client ids are listed (Binance.US); FALSE: not (Hyperliquid)
  exchange,    \* external: what became of an order, and how much of it is filled
  book,        \* engineState.orderMap
  aged,        \* tracked orders older than ORDER_ACK_TIMEOUT_MS
  position,    \* engineState.openPositions (and the cash it cost)
  stored,      \* the stored engineState: what an eviction leaves of the two
  reports,     \* forwarded reports under way
  janitor,     \* the running maintenance
  delivered,   \* history: units of the fill reports the engine received
  touched,     \* history: orders whose filledSize was set without booking it
  rolledBack,  \* history: maintenance or an eviction brought an older position back
  restarts     \* evictions so far

orderHistory == <<delivered, touched, rolledBack, restarts>>
orderVars == <<adapter, exchange, book, aged, position, stored, reports, janitor, orderHistory>>

Keys == {"c", "x", "n"}
NoEntry == [status |-> "NONE", filled |-> 0, ex |-> "none"]
NoJanitor == [pc |-> "idle"]

Total(f) == SumOver(f, DOMAIN f)
Filled == [o \in Orders |-> exchange[o].filled]
Known(b, o, k) == b[o][k].status # "NONE"
OpenOrders == {o \in Orders : exchange[o].st = "open"}

\* What is written under ENGINE_STATE_KEY, as far as it is modelled.
Memory == [book |-> book, position |-> position]

\* StorageWriteGuard.put: after a failure the guard skips every write for a
\* while, and says nothing.
GuardedPut == stored' \in {stored, Memory'}

-----------------------------------------------------------------------------
(* The engine emits and tracks an order; the worker places it. *)

\* buildManagedOrders, merged into the order map by the tick that emits it;
\* some intents are dispatched without being tracked.
EmitOrder(o, tracked) ==
  /\ exchange[o].st = "none"
  /\ exchange' = [exchange EXCEPT ![o].st = "sent"]
  /\ book' = IF tracked THEN [book EXCEPT ![o]["c"] = [NoEntry EXCEPT !.status = "PENDING"]]
                        ELSE book
  /\ UNCHANGED <<adapter, aged, position, reports, janitor, orderHistory>>
  /\ GuardedPut

\* ORDER_ACK_TIMEOUT_MS passes without an acknowledgement.
AckTimeout(o) ==
  /\ book[o]["c"].status = "PENDING" /\ o \notin aged
  /\ aged' = aged \cup {o}
  /\ UNCHANGED <<adapter, exchange, book, position, stored, reports, janitor, orderHistory>>

Report(o, client, ex, status, filled) ==
  [order |-> o, client |-> client, ex |-> ex, status |-> status, filled |-> filled]

\* toExecutionReport of the exchange's answer; Hyperliquid calls any fill
\* "filled".
PlacementReport(o, filled) ==
  Report(o, "c", "x",
         IF filled = 0 THEN "OPEN"
         ELSE IF filled < Size /\ adapter THEN "PARTIAL_FILL" ELSE "FILLED",
         filled)

\* rejectedReport: nothing filled, no exchange id.
RejectedReport(o) == Report(o, "c", "none", "REJECTED", 0)

\* The exchange takes the order and fills some of it at once; its answer
\* may be lost, which the worker reports as a rejection.
PlaceOrder(o) ==
  \E filled \in 0..Size, answered \in BOOLEAN :
    /\ exchange[o].st = "sent"
    /\ exchange' = [exchange EXCEPT ![o] = [st     |-> IF filled = Size THEN "filled" ELSE "open",
                                            filled |-> filled]]
    /\ reports' = reports \cup
                    {IF answered THEN PlacementReport(o, filled) ELSE RejectedReport(o)}
    /\ UNCHANGED <<adapter, book, aged, position, stored, janitor, orderHistory>>

\* A guard of the worker, or the exchange, refuses the order.
Reject(o) ==
  /\ exchange[o].st = "sent"
  /\ exchange' = [exchange EXCEPT ![o].st = "closed"]
  /\ reports' = reports \cup {RejectedReport(o)}
  /\ UNCHANGED <<adapter, book, aged, position, stored, janitor, orderHistory>>

\* A resting order is filled: nobody tells the engine.
Fill(o) ==
  /\ exchange[o].st = "open"
  /\ exchange' = [exchange EXCEPT ![o] = [st     |-> IF @.filled + 1 = Size THEN "filled" ELSE "open",
                                          filled |-> @.filled + 1]]
  /\ UNCHANGED <<adapter, book, aged, position, stored, reports, janitor, orderHistory>>

-----------------------------------------------------------------------------
(* applyExecutionAccounting *)

\* The entry a report is about: by client id, else one with its exchange id.
EntryKeys(r) ==
  IF Known(book, r.order, r.client) THEN {r.client}
  ELSE {k \in Keys : Known(book, r.order, k) /\ r.ex # "none" /\ book[r.order][k].ex = r.ex}

FillReports == {"FILLED", "PARTIAL_FILL"}

\* Mutant: only a complete fill moves the position.
IsCompleteFill(status) == status = "FILLED"

\* Mutant: a cancelled order's fills are booked as well.
IsAnyFill(status) == status \in {"FILLED", "PARTIAL_FILL", "CANCELLED"}

\* isPortfolioFillStatus (a ghost fill exists in shadow mode only)
IsPortfolioFillStatus(status) == status \in FillReports

ApplyReport(r) ==
  \E key \in IF EntryKeys(r) = {} THEN {r.client} ELSE EntryKeys(r) :
  LET existing  == book[r.order][key]
      increment == IF r.filled > existing.filled THEN r.filled - existing.filled ELSE 0
      books     == IsPortfolioFillStatus(r.status)
      entry     == [existing EXCEPT !.status = r.status, !.filled = r.filled,
                                    !.ex = IF r.ex = "none" THEN @ ELSE r.ex]
  IN  /\ r \in reports
      /\ reports' = reports \ {r}
      /\ book' = [book EXCEPT ![r.order][key] = entry]
      /\ position' = IF books THEN position + increment ELSE position
      /\ GuardedPut
      /\ IF r.status \in FillReports
           THEN /\ delivered' = delivered + r.filled
                /\ UNCHANGED touched
           ELSE /\ touched' = IF r.filled > existing.filled THEN touched \cup {r.order} ELSE touched
                /\ UNCHANGED delivered
      /\ UNCHANGED <<adapter, exchange, aged, janitor, rolledBack, restarts>>

\* forwardReport runs after the response and is not retried.
LoseReport(r) ==
  /\ r \in reports
  /\ reports' = reports \ {r}
  /\ UNCHANGED <<adapter, exchange, book, aged, position, stored, janitor, orderHistory>>

-----------------------------------------------------------------------------
(* The janitor: runJanitorMaintenance works on the engine state as it was  *)
(* when it started.                                                        *)

\* Mutant: the timeout is applied to orders that have been acknowledged.
StaleOpenOrders == {o \in aged : book[o]["c"].status = "OPEN"}

\* JanitorAgent.run: unacknowledged orders past the timeout.
Zombies == {o \in aged : book[o]["c"].status = "PENDING"}

StartJanitor ==
  /\ janitor.pc = "idle"
  /\ janitor' = [pc |-> "fetch", book |-> book, position |-> position,
                 zombies |-> Zombies]
  /\ UNCHANGED <<adapter, exchange, book, aged, position, stored, reports, orderHistory>>

\* What reconcileJanitorOrders makes of an entry, given the open orders.
Reconciled(entry, o, k, open) ==
  IF k = "c" /\ adapter /\ o \in open
    THEN [entry EXCEPT !.ex = "x", !.filled = exchange[o].filled,
                       !.status = IF exchange[o].filled > 0 THEN "PARTIAL_FILL" ELSE "OPEN"]
  ELSE IF entry.ex # "none" /\ ~ (entry.ex = "x" /\ o \in open)
          /\ entry.status \in {"PENDING", "OPEN"}
    THEN [entry EXCEPT !.status = "CANCELLED"]
  ELSE entry

\* The order map reconcileJanitorOrders returns; zombies last.
ReconciledBook(open) ==
  [o \in Orders |-> [k \in Keys |->
     LET e == janitor.book[o][k]
     IN  IF e.status = "NONE" THEN e
         ELSE IF k = "c" /\ o \in janitor.zombies
           THEN [Reconciled(e, o, k, open) EXCEPT !.status = "CANCELLED"]
         ELSE Reconciled(e, o, k, open)]]

\* Mutant: an open order the map does not hold is left alone.
NoOrphans(open) == {}

\* The open orders that no entry is filed under by client id.
Orphans(open) ==
  {o \in open : ~ (adapter /\ Known(janitor.book, o, "c"))}

\* The list of open orders arrives, or the request fails and counts as an
\* empty list.
Fetch(answered) ==
  LET open == IF answered THEN OpenOrders ELSE {}
  IN  /\ janitor.pc = "fetch"
      /\ janitor' = [pc |-> "cancel", book |-> ReconciledBook(open),
                     position |-> janitor.position,
                     requests |-> (Orphans(open) \X {"x"}) \cup (janitor.zombies \X {"c"})]
      /\ touched' = touched \cup
           {o \in open : ReconciledBook(open)[o]["c"].filled > janitor.book[o]["c"].filled}
      /\ UNCHANGED <<adapter, exchange, book, aged, position, stored, reports, delivered, rolledBack, restarts>>

\* cancelExecutionReport: Binance.US names the order and its fills, under the
\* client id of the cancellation, or refuses; Hyperliquid answers "ok" without.
CancelReport(o, id) ==
  IF ~ adapter THEN Report(o, id, id, "OPEN", 0)
  ELSE IF o \in OpenOrders THEN Report(o, "n", "x", "CANCELLED", exchange[o].filled)
  ELSE Report(o, id, id, "REJECTED", 0)

\* One cancellation, awaited; a failed request is logged and forgotten.
Cancel(req, answered) ==
  LET o == req[1]
  IN  /\ janitor.pc = "cancel" /\ req \in janitor.requests
      /\ janitor' = [janitor EXCEPT !.requests = @ \ {req}]
      /\ IF answered
           THEN /\ exchange' = IF o \in OpenOrders THEN [exchange EXCEPT ![o].st = "closed"]
                                                   ELSE exchange
                /\ reports' = reports \cup {CancelReport(o, req[2])}
           ELSE UNCHANGED <<exchange, reports>>
      /\ UNCHANGED <<adapter, book, aged, position, stored, orderHistory>>

\* applyState: the state of the start with the reconciled order map.
FinishJanitor ==
  /\ janitor.pc = "cancel" /\ janitor.requests = {}
  /\ janitor' = NoJanitor
  /\ book' = janitor.book
  /\ position' = janitor.position
  /\ GuardedPut
  /\ rolledBack' = (rolledBack \/ position # janitor.position)
  /\ UNCHANGED <<adapter, exchange, aged, reports, delivered, touched, restarts>>

\* The tick's snapshot of the whole engine state reaches the storage.
SaveState ==
  /\ stored # Memory
  /\ stored' = Memory
  /\ UNCHANGED <<adapter, exchange, book, aged, position, reports, janitor, orderHistory>>

\* The engine is evicted and boots from the state last written, which is not
\* the one in memory if the guard skipped a write.
Restart ==
  /\ restarts < MaxRestarts
  /\ restarts' = restarts + 1
  /\ book' = stored.book
  /\ position' = stored.position
  /\ janitor' = NoJanitor
  /\ rolledBack' = (rolledBack \/ position # stored.position)
  /\ UNCHANGED <<adapter, exchange, aged, stored, reports, delivered, touched>>

-----------------------------------------------------------------------------
OrdersInit ==
  /\ adapter \in Adapters
  /\ exchange = [o \in Orders |-> [st |-> "none", filled |-> 0]]
  /\ book = [o \in Orders |-> [k \in Keys |-> NoEntry]]
  /\ position = 0 /\ stored = Memory /\ reports = {} /\ janitor = NoJanitor
  /\ aged = {} /\ delivered = 0 /\ touched = {} /\ rolledBack = FALSE /\ restarts = 0

CancelStep(answered) ==
  janitor.pc = "cancel" /\ \E req \in janitor.requests : Cancel(req, answered)

JanitorStep ==
  \/ StartJanitor \/ FinishJanitor
  \/ \E answered \in BOOLEAN : Fetch(answered) \/ CancelStep(answered)

ReportStep == \E r \in reports : ApplyReport(r) \/ LoseReport(r)

OrdersNext ==
  \/ \E o \in Orders : \/ \E tracked \in BOOLEAN : EmitOrder(o, tracked)
                       \/ AckTimeout(o) \/ PlaceOrder(o) \/ Reject(o) \/ Fill(o)
  \/ ReportStep \/ JanitorStep \/ SaveState \/ Restart

\* Every alarm runs the janitor; requests to the exchange do not fail for
\* ever; a report arrives or is lost; time passes.
OrdersSpec ==
  /\ OrdersInit /\ [][OrdersNext]_orderVars
  /\ WF_orderVars(JanitorStep) /\ SF_orderVars(Fetch(TRUE)) /\ SF_orderVars(CancelStep(TRUE))
  /\ WF_orderVars(ReportStep) /\ \A o \in Orders : WF_orderVars(AckTimeout(o))

-----------------------------------------------------------------------------
Statuses == {"PENDING", "OPEN", "PARTIAL_FILL", "FILLED", "CANCELLED", "REJECTED"}
Entry == [status : Statuses \cup {"NONE"}, filled : 0..Size, ex : {"none"} \cup Keys]

\* The types; no report and no entry claims more than the order's size.
OrdersTypeOK ==
  /\ adapter \in Adapters
  /\ exchange \in [Orders -> [st : {"none", "sent", "open", "filled", "closed"}, filled : 0..Size]]
  /\ book \in [Orders -> [Keys -> Entry]] /\ aged \subseteq Orders
  /\ position \in Nat
  /\ stored \in [book : [Orders -> [Keys -> Entry]], position : Nat]
  /\ reports \subseteq [order : Orders, client : Keys, ex : {"none"} \cup Keys,
                        status : Statuses, filled : 0..Size]
  /\ janitor.pc \in {"idle", "fetch", "cancel"}
  /\ janitor.pc # "idle" => janitor.book \in [Orders -> [Keys -> Entry]]
  /\ delivered \in Nat /\ touched \subseteq Orders /\ rolledBack \in BOOLEAN

(***************************************************************************)
(* However reports are delayed, reordered or lost, and whatever the        *)
(* janitor writes back, no fill is booked twice: the position never        *)
(* exceeds what the exchange filled, nor an entry the size of its order.   *)
(***************************************************************************)
NeverOverbooked == OrdersTypeOK /\ position <= Total(Filled)

(***************************************************************************)
(* applyExecutionAccounting books a fill as the growth of the entry's      *)
(* filledSize, so whoever sets filledSize without booking (the janitor's   *)
(* copy of the exchange's value, the report of a cancel) makes a later     *)
(* fill report book nothing; maintenance writes back the position of its   *)
(* start; and an eviction brings back the stored position, older than the  *)
(* one in memory if the write guard skipped a report's write.  Only these  *)
(* three lose fills: otherwise the position is exactly what the fill       *)
(* reports say.                                                            *)
(***************************************************************************)
PositionMatchesReports ==
  touched = {} /\ ~ rolledBack => position = delivered

(***************************************************************************)
(* "A background task that ensures the engine's state and the exchange's   *)
(* state stay synchronized" (phase_specs/phase_39.txt), for orders: an     *)
(* order open on the exchange that the engine holds for rejected, for      *)
(* cancelled or does not know (a lost answer, a failed list, an untracked  *)
(* intent) is found by the janitor, which revives its entry or cancels it. *)
(***************************************************************************)
LiveStatuses == {"PENDING", "OPEN", "PARTIAL_FILL"}
OpenOrderIsFound ==
  \A o \in Orders :
    o \in OpenOrders ~> \/ o \notin OpenOrders
                       \/ \E k \in Keys : book[o][k].status \in LiveStatuses

(***************************************************************************)
(* An order whose report never comes does not stay pending: the janitor    *)
(* cancels it as a zombie, even if a running maintenance wrote an older    *)
(* entry back meanwhile.                                                   *)
(***************************************************************************)
PendingIsSettled ==
  \A o \in Orders : book[o]["c"].status = "PENDING" ~> book[o]["c"].status # "PENDING"

(***************************************************************************)
(* "Orphan Hunt: Compare the DO's orderMap with the exchange's open order  *)
(* list" (phase_specs/phase_39.txt): the orders the janitor cancels as     *)
(* orphans are ones the order map does not hold.                           *)
(***************************************************************************)
OnlyOrphansCancelled ==
  janitor.pc = "cancel" =>
    \A req \in janitor.requests :
      req[2] = "x" => \A k \in Keys : janitor.book[req[1]][k].ex # "x"

=============================================================================

--------------------------------- MODULE Crm ---------------------------------
(***************************************************************************)
(* amoCRM beside the books: CrmSyncService copies the leads that changed   *)
(* into CrmDeal, people tie the deals to orders (CrmDealsService), and     *)
(* buildDiscrepancies lists what fell out of the books.                    *)
(*                                                                         *)
(* A synchronisation reads pages ordered by the time of the last change    *)
(* while the leads go on changing, stores the deals one by one and writes  *)
(* its cursor last, by id; the cron and the button may overlap.  The       *)
(* handlers of the people read a deal and write it in a later statement.   *)
(* The first reading goes 180 days back, which is the beginning here, and  *)
(* leads that changed in one second come in the order of their ids.  The   *)
(* last change of a won lead is the one that won it: edits of a won lead,  *)
(* which leave the time it was closed at alone, are left out.              *)
(*                                                                         *)
(* `slipped` is not in the tables and no guard reads it: leads that        *)
(* changed on, or moved to, a page a synchronisation had already read,     *)
(* before it read a change later than theirs by more than Overlap, and     *)
(* leads whose deal an older answer overwrote.                             *)
(***************************************************************************)
EXTENDS Integers, FiniteSets, FiniteSetsExt

CONSTANTS Leads, OldLeads,      \* numbers of the leads; those amoCRM has from the start
          OrderIds, Paid,       \* orders; those in the books, and paid, from the start
          Syncs,                \* synchronisations that may overlap
          Users, Handled,       \* handlers of the people that may overlap; the deals they pick
          PageLimit, MaxPages, Overlap,
          NoOrder,
          LastSecond, MaxChanges, MaxEvents     \* bounds

ASSUME CrmAssumption ==
  /\ Leads \subseteq Nat /\ IsFiniteSet(Leads) /\ OldLeads \subseteq Leads
  /\ PageLimit \in Nat \ {0} /\ MaxPages \in Nat \ {0} /\ Overlap \in Nat
  /\ Handled \subseteq Leads
  /\ LastSecond \in Nat /\ MaxChanges \in Nat /\ MaxEvents \in Nat
  /\ NoOrder \notin OrderIds /\ Paid \subseteq OrderIds

VARIABLES clock, changes,       \* the second of the last change; changes used up of the bound
          lead,         \* amoCRM: the time and the stage of the last change, time 0 before the first
          conn,         \* CrmConnection: status, syncCursor
          deal,         \* CrmDeal of every lead: the copy, orderId, dismissedAt
          order,        \* the orders of the books
          sync, user,   \* what is under way
          events,       \* failures, overlaps, and what people did: used up of the bound
          slipped

remote == <<clock, changes, lead>>
crmVars == <<remote, conn, deal, order, sync, user, events, slipped>>

AtRest == [at |-> "idle"]
NoDeal == [at |-> 0, stage |-> "open", order |-> NoOrder, dismissed |-> FALSE]
Known == {l \in Leads : deal[l].at # 0}
Current(l) == deal[l].at = lead[l].at /\ deal[l].stage = lead[l].stage
Free(o) == \A l \in Leads : deal[l].order # o

CrmInit ==
  /\ clock = 1 /\ changes = 0
  /\ lead = [l \in Leads |-> [at |-> IF l \in OldLeads THEN 1 ELSE 0, stage |-> "open"]]
  /\ conn = [status |-> "ACTIVE", cursor |-> 0]
  /\ deal = [l \in Leads |-> NoDeal]
  /\ order = [o \in OrderIds |-> IF o \in Paid THEN "paid" ELSE "none"]
  /\ sync = [s \in Syncs |-> AtRest] /\ user = [u \in Users |-> AtRest]
  /\ events = 0
  /\ slipped = {}

(***************************************************************************)
(* amoCRM.                                                                 *)
(***************************************************************************)
Since(cursor) == IF cursor = 0 THEN 0 ELSE cursor - Overlap

\* What leads?order[updated_at]=asc&filter[updated_at][from]=since would list, in which order.
ChangedSince(since) == {l \in Leads : lead[l].at # 0 /\ lead[l].at >= since}
Precedes(k, l) == lead[k].at < lead[l].at \/ (lead[k].at = lead[l].at /\ k < l)
Place(since, l) == Cardinality({k \in ChangedSince(since) : k = l \/ Precedes(k, l)})

LeadsPage(since, page) ==
  LET onPage == {l \in ChangedSince(since) : Place(since, l) \in ((page - 1) * PageLimit + 1)..(page * PageLimit)}
  IN  {[id |-> l, at |-> lead[l].at, stage |-> lead[l].stage] : l \in onPage}

\* Leads on earlier pages that are not as they were copied, if this page has a change
\* so much later that the next synchronisation will not go back to them.
PassedOver(since, page) ==
  {l \in ChangedSince(since) : /\ Place(since, l) <= (page - 1) * PageLimit /\ ~Current(l)
                         /\ \E e \in LeadsPage(since, page) : lead[l].at < e.at - Overlap}

\* A lead is entered or moved to another stage, at the second of the change before or later.
Change(l, stage) ==
  /\ lead[l].at = 0 \/ lead[l].stage # stage
  /\ changes < MaxChanges /\ changes' = changes + 1
  /\ \E now \in clock..LastSecond : clock' = now /\ lead' = [lead EXCEPT ![l] = [at |-> now, stage |-> stage]]
  /\ slipped' = slipped \ {l}
  /\ UNCHANGED <<conn, deal, order, sync, user, events>>

(***************************************************************************)
(* CrmSyncService.syncConnection.                                          *)
(***************************************************************************)
\* One that overlaps another counts as an event.
Start(s) ==
  /\ sync[s].at = "idle" /\ conn.status # "DISABLED"
  /\ \/ (\A r \in Syncs : sync[r].at = "idle") /\ UNCHANGED events
     \/ (\E r \in Syncs : sync[r].at # "idle") /\ events < MaxEvents /\ events' = events + 1
  /\ sync' = [sync EXCEPT ![s] = [at |-> "read", since |-> Since(conn.cursor), page |-> 1, newest |-> conn.cursor]]
  /\ UNCHANGED <<remote, conn, deal, order, user, slipped>>

\* A plausible slip: what the cron did before errors were retried.
RetriedOnlyActive == {"ACTIVE"}

\* The cron takes the connections at work and, an hour later, the failed ones.
Retried == {"ACTIVE", "ERROR"}
Cron(s) == conn.status \in Retried /\ Start(s)
Button(s) == Start(s)

ReadPage(s) ==
  /\ sync[s].at = "read"
  /\ LET r == sync[s]
         leads == LeadsPage(r.since, r.page)
     IN  /\ sync' = [sync EXCEPT ![s] =
              IF leads = {} THEN [at |-> "write", newest |-> r.newest]
              ELSE [at |-> "store", since |-> r.since, page |-> r.page, newest |-> r.newest,
                    leads |-> leads, full |-> Cardinality(leads) = PageLimit]]
         /\ slipped' = slipped \union PassedOver(r.since, r.page)
  /\ UNCHANGED <<remote, conn, deal, order, user, events>>

\* The upsert of one lead, in the order of the page: the copy, never what belongs to the books.
Store(s) ==
  /\ sync[s].at = "store"
  /\ \E l \in sync[s].leads :
       LET r == sync[s]
           rest == r.leads \ {l}
           newest == Max({r.newest, l.at})
       IN
       /\ \A k \in rest : l.at < k.at \/ (l.at = k.at /\ l.id < k.id)
       /\ deal' = [deal EXCEPT ![l.id].at = l.at, ![l.id].stage = l.stage]
       /\ slipped' = CASE l.at = lead[l.id].at /\ l.stage = lead[l.id].stage -> slipped \ {l.id}
                       [] Current(l.id) -> slipped \union {l.id}
                       [] OTHER -> slipped
       /\ sync' = [sync EXCEPT ![s] =
            CASE rest # {} -> [r EXCEPT !.leads = rest, !.newest = newest]
              [] rest = {} /\ r.full /\ r.page < MaxPages ->
                   [at |-> "read", since |-> r.since, page |-> r.page + 1, newest |-> newest]
              [] OTHER -> [at |-> "write", newest |-> newest]]
  /\ UNCHANGED <<remote, conn, order, user, events>>

\* A plausible slip: the time of the synchronisation kept as the cursor.
FinishAtNow(s) ==
  /\ sync[s].at = "write"
  /\ conn' = [status |-> "ACTIVE", cursor |-> clock]
  /\ sync' = [sync EXCEPT ![s] = AtRest]
  /\ UNCHANGED <<remote, deal, order, user, events, slipped>>

Finish(s) ==
  /\ sync[s].at = "write"
  /\ conn' = [status |-> "ACTIVE", cursor |-> sync[s].newest]
  /\ sync' = [sync EXCEPT ![s] = AtRest]
  /\ UNCHANGED <<remote, deal, order, user, events, slipped>>

Faulty(s) ==
  /\ sync[s].at # "idle" /\ events < MaxEvents
  /\ events' = events + 1
  /\ sync' = [sync EXCEPT ![s] = AtRest]
  /\ UNCHANGED <<remote, deal, order, user, slipped>>

\* amoCRM or the database refuses: the catch writes the status alone.
Fail(s) == Faulty(s) /\ conn' = [conn EXCEPT !.status = "ERROR"]

\* The process dies.
Crash(s) == Faulty(s) /\ UNCHANGED conn

\* The owner, CrmConnectionService.update; a new token writes ACTIVE too.
SetStatus(status) ==
  /\ conn.status # status /\ events < MaxEvents
  /\ conn' = [conn EXCEPT !.status = status]
  /\ events' = events + 1
  /\ UNCHANGED <<remote, deal, order, sync, user, slipped>>

(***************************************************************************)
(* CrmDealsService: read, then write by id.                                *)
(***************************************************************************)
Begin(u, request) ==
  /\ user[u].at = "idle" /\ events < MaxEvents
  /\ user' = [user EXCEPT ![u] = request]
  /\ events' = events + 1
  /\ UNCHANGED <<remote, conn, deal, order, sync, slipped>>

Written(u, l, row) ==
  /\ deal' = [deal EXCEPT ![l] = row]
  /\ user' = [user EXCEPT ![u] = AtRest]
  /\ UNCHANGED <<remote, conn, order, sync, events, slipped>>

Tied(l, o) == [deal[l] EXCEPT !.order = o, !.dismissed = FALSE]

BeginLink(u, l, o) ==
  /\ l \in Handled \intersect Known /\ deal[l].order = NoOrder /\ order[o] \in {"open", "paid"}
  /\ Begin(u, [at |-> "link", deal |-> l, order |-> o])

BeginBulk(u, l, o) ==
  /\ l \in Handled \intersect Known /\ deal[l].order = NoOrder /\ order[o] \in {"open", "paid"} /\ Free(o)
  /\ Begin(u, [at |-> "bulk", deal |-> l, order |-> o])

BeginCreate(u, l) ==
  /\ l \in Handled \intersect Known /\ deal[l].order = NoOrder
  /\ Begin(u, [at |-> "create", deal |-> l])

BeginUnlink(u, l) ==
  /\ l \in Handled \intersect Known /\ deal[l].order # NoOrder
  /\ Begin(u, [at |-> "unlink", deal |-> l])

\* setDismissed: only what is dismissed must not be tied to an order.
BeginDismiss(u, l, dismissed) ==
  /\ l \in Handled \intersect Known /\ dismissed => deal[l].order = NoOrder
  /\ Begin(u, [at |-> "dismiss", deal |-> l, dismissed |-> dismissed])

\* createOrder: the order is made in a transaction of its own.
MakeOrder(u) ==
  /\ user[u].at = "create"
  /\ \E o \in OrderIds :
       /\ order[o] = "none"
       /\ order' = [order EXCEPT ![o] = "open"]
       /\ user' = [user EXCEPT ![u] = [at |-> "link", deal |-> @.deal, order |-> o]]
  /\ UNCHANGED <<remote, conn, deal, sync, events, slipped>>

\* The update that ends link and createOrder.
Link(u) == user[u].at = "link" /\ Written(u, user[u].deal, Tied(user[u].deal, user[u].order))

\* A plausible slip: linkBulk writing as link does.
ClaimById(u) == user[u].at = "bulk" /\ Written(u, user[u].deal, Tied(user[u].deal, user[u].order))

\* linkBulk: updateMany where orderId is null; a deal tied meanwhile is skipped.
Claim(u) ==
  /\ user[u].at = "bulk"
  /\ LET l == user[u].deal IN
     Written(u, l, IF deal[l].order = NoOrder THEN Tied(l, user[u].order) ELSE deal[l])

Unlink(u) == user[u].at = "unlink" /\ Written(u, user[u].deal, [deal[user[u].deal] EXCEPT !.order = NoOrder])

Dismiss(u) == user[u].at = "dismiss" /\ Written(u, user[u].deal, [deal[user[u].deal] EXCEPT !.dismissed = user[u].dismissed])

\* The process dies, or the creation of the order is refused.
Abandon(u) ==
  /\ user[u].at # "idle" /\ events < MaxEvents
  /\ user' = [user EXCEPT ![u] = AtRest]
  /\ events' = events + 1
  /\ UNCHANGED <<remote, conn, deal, order, sync, slipped>>

\* What becomes of an order elsewhere: entered by hand, paid, deleted (module Orders).
OrderMoves(o) ==
  /\ events < MaxEvents
  /\ \/ order[o] = "none" /\ order' = [order EXCEPT ![o] = "open"]
     \/ order[o] = "open" /\ order' = [order EXCEPT ![o] = "paid"]
     \/ order[o] = "open" /\ order' = [order EXCEPT ![o] = "deleted"]
     \/ order[o] = "paid" /\ order' = [order EXCEPT ![o] = "deletedPaid"]
  /\ events' = events + 1
  /\ UNCHANGED <<remote, conn, deal, sync, user, slipped>>

(***************************************************************************)
(* buildDiscrepancies, for the sales that are won.                         *)
(***************************************************************************)
Undismissed == {l \in Known : ~deal[l].dismissed}
Won == {l \in Undismissed : deal[l].stage = "won"}
ClosedAt(l) == deal[l].at
\* The report is asked for the sales closed since a time, 90 days ago if it is not said.
WonWithoutOrder(since) == {l \in Won : deal[l].order = NoOrder /\ ClosedAt(l) >= since}
\* The order is read with its deal, deleted or not, and whenever the deal was closed.
WonUnpaid == {l \in Won : deal[l].order # NoOrder /\ order[deal[l].order] \in {"open", "deleted"}}

Works(s) == Cron(s) \/ ReadPage(s) \/ Store(s) \/ Finish(s)

CrmNext ==
  \/ \E l \in Leads, stage \in {"open", "won"} : Change(l, stage)
  \/ \E s \in Syncs : Works(s) \/ Button(s) \/ Fail(s) \/ Crash(s)
  \/ \E status \in {"ACTIVE", "DISABLED"} : SetStatus(status)
  \/ \E u \in Users : \/ \E l \in Leads, o \in OrderIds : BeginLink(u, l, o) \/ BeginBulk(u, l, o)
                      \/ \E l \in Leads : BeginCreate(u, l) \/ BeginUnlink(u, l)
                      \/ \E l \in Leads, dismissed \in BOOLEAN : BeginDismiss(u, l, dismissed)
                      \/ MakeOrder(u) \/ Link(u) \/ Claim(u) \/ Unlink(u) \/ Dismiss(u) \/ Abandon(u)
  \/ \E o \in OrderIds : OrderMoves(o)

\* The cron comes every ten minutes, and every call is answered: as long as a synchronisation
\* can begin or go on, one does (which one is not said).
Fairness == WF_crmVars(\E s \in Syncs : Works(s))

CrmSpec == CrmInit /\ [][CrmNext]_crmVars /\ Fairness

(***************************************************************************)
(* Properties.                                                             *)
(***************************************************************************)
\* A lead the next synchronisation will not ask for again is copied as it is.
Behind(l) == lead[l].at # 0 /\ lead[l].at < Since(conn.cursor)
CopyKeepsUp == \A l \in Leads \ slipped : Behind(l) => Current(l)

\* A sale won in amoCRM is set aside by a person, or has an order that is paid, or listed as
\* unpaid, or it is on every list of sales without an order asked for since a time that is not
\* after its closing.  Two kinds of sales no list need show: one whose paid order was deleted,
\* and one without an order that was closed before the time asked for (the lists begin 90 days
\* back, "старые продажи до начала учёта в расхождения не попадают", while the first
\* synchronisation goes 180 days back).
SaleIsSeen ==
  \A l \in Leads \ slipped :
    Behind(l) /\ lead[l].stage = "won" =>
      \/ deal[l].dismissed
      \/ l \in WonUnpaid
      \/ deal[l].order # NoOrder /\ order[deal[l].order] \in {"paid", "deletedPaid"}
      \/ \A since \in 0..lead[l].at : l \in WonWithoutOrder(since)

\* "Чтобы ни одна продажа не выпала из учёта": through failures, crashes and overlapping
\* synchronisations the cursor passes no lead that was not copied as it is, and a sale
\* behind the cursor is accounted for or on the lists of discrepancies that reach back to it.
NoSaleLost == CopyKeepsUp /\ SaleIsSeen

\* When the leads rest, an enabled connection copies all of them, whatever failed before:
\* the cron comes back to a connection in error.
CatchesUp == <>[](conn.status = "DISABLED" \/ \A l \in Leads : lead[l].at = 0 \/ Current(l) \/ l \in slipped)

\* "Кто успел второй — получает skipped": linkBulk never replaces an order a deal has,
\* whoever tied it between the reading and the writing.
BulkDisplacesNothing ==
  [][\A u \in Users : user[u].at = "bulk" /\ user'[u] = AtRest =>
       \A l \in Leads : deal[l].order # NoOrder => deal'[l].order = deal[l].order]_crmVars
=============================================================================

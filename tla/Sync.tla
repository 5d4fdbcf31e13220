-------------------------------- MODULE Sync --------------------------------
(***************************************************************************)
(* The synchronisation of one bank connection: SyncService, the cursors of *)
(* the two adapters, and what the owner may do to the connection           *)
(* meanwhile (IntegrationsService: switch it off and on, move its start    *)
(* back, reload the statement).                                            *)
(*                                                                         *)
(* A synchronisation (the hourly run or the button) reads the connection,  *)
(* asks the bank, puts the lines into the inbox one by one and writes the  *)
(* cursor last, by id.  All operations below have one amount, so that any  *)
(* entry made by hand may be taken for any of them.  What people do with a *)
(* line is one step here and module Inbox elsewhere.                       *)
(*                                                                         *)
(* `missed` is not in the tables and no guard reads it: operations a       *)
(* synchronisation passed over, or whose days it closed against the wish   *)
(* of the owner.                                                           *)
(***************************************************************************)
EXTENDS Integers, Sequences, FiniteSets, FiniteSetsExt

CONSTANTS Ops,                  \* operations on the account at the bank
          Runs,                 \* synchronisations that may overlap
          Provider,             \* "ALFA" or "TBANK"
          MaxDays,              \* Alfa: days fetched at once
          Lookback,             \* T-Bank: days fetched again
          Lag,                  \* days by which the bank may be late with an operation
          Connected,            \* the day the connection was made
          LastDay, MaxTxs, MaxFaults, MaxCommands       \* bounds

ASSUME SyncAssumption ==
  /\ Provider \in {"ALFA", "TBANK"}
  /\ MaxDays \in Nat \ {0} /\ Lookback \in Nat /\ Lag \in Nat
  /\ Lag <= (IF Provider = "TBANK" THEN Lookback ELSE 0)
  /\ Connected \in Nat \ {0} /\ LastDay \in Nat /\ MaxTxs \in Nat /\ MaxFaults \in Nat /\ MaxCommands \in Nat

VARIABLES today,
          day,          \* of every operation: its date, or 0 while the bank does not show it
          conn,         \* IntegrationConnection: status, syncCursor, backfillFrom
          line,         \* BankStatementLine, by operation
          txs,          \* Transaction, in order of creation
          run,          \* what every synchronisation is in the middle of
          reset,        \* the lines resetStatement has read, or NotResetting
          faults, commands,     \* used up of the bounds
          missed

bank == <<today, day>>
counters == <<faults, commands>>
syncVars == <<bank, conn, line, txs, run, reset, counters, missed>>

Unstored == [status |-> "absent", tx |-> 0, adopted |-> FALSE]
Stored == {o \in Ops : line[o].status # "absent"}
Linked(n) == \E o \in Ops : line[o].tx = n
Free == {n \in DOMAIN txs : txs[n].live /\ ~Linked(n)}
Entry(kind, hand) == [kind |-> kind, hand |-> hand, live |-> TRUE]
Room == Len(txs) < MaxTxs
NoRun == [at |-> "idle"]
NoTwin == <<>>
NotResetting == [o \in Ops |-> Unstored]
At(r, at) == run[r].at = at

SyncInit ==
  /\ today = Connected
  /\ day \in [Ops -> 0..(Connected - 1)]
  /\ conn = [status |-> "ACTIVE", cursor |-> 0, from |-> Connected]
  /\ line = [o \in Ops |-> Unstored]
  /\ txs = <<>>
  /\ run = [r \in Runs |-> NoRun]
  /\ reset = NotResetting
  /\ faults = 0 /\ commands = 0
  /\ missed = {}

(***************************************************************************)
(* The bank and the people.                                                *)
(***************************************************************************)
DayPasses ==
  /\ today < LastDay
  /\ today' = today + 1
  /\ UNCHANGED <<day, conn, line, txs, run, reset, counters, missed>>

Post(o) ==
  /\ day[o] = 0
  /\ \E d \in (today - Lag)..today : d > 0 /\ day' = [day EXCEPT ![o] = d]
  /\ UNCHANGED <<today, conn, line, txs, run, reset, counters, missed>>

EnterByHand ==
  /\ Room
  /\ txs' = Append(txs, Entry("OTHER", TRUE))
  /\ UNCHANGED <<bank, conn, line, run, reset, counters, missed>>

\* categorize or attachOrder.
Book(o, kind) ==
  /\ line[o].status = "NEW" /\ Room
  /\ txs' = Append(txs, Entry(kind, FALSE))
  /\ line' = [line EXCEPT ![o] = [status |-> "BOOKED", tx |-> Len(txs) + 1, adopted |-> FALSE]]
  /\ UNCHANGED <<bank, conn, run, reset, counters, missed>>

(***************************************************************************)
(* The adapters: the days they ask for, and the cursor they hand back.     *)
(***************************************************************************)
FirstDay(cursor, from) ==
  IF cursor = 0 THEN from ELSE IF Provider = "ALFA" THEN cursor + 1 ELSE cursor - Lookback
FinalDay(first) ==
  IF Provider = "ALFA" /\ first + MaxDays - 1 < today THEN first + MaxDays - 1 ELSE today
Shown(first) == {o \in Ops : day[o] \in 1..FinalDay(first) /\ day[o] >= first}

\* A fault for mutation: the current day is taken for a closed one.
NextCursorToday(cursor, first) ==
  IF Provider = "ALFA"
    THEN IF first > today THEN cursor ELSE FinalDay(first)
    ELSE Max({cursor} \cup {day[o] : o \in Shown(first)})

\* Alfa: the last closed day.  T-Bank: the date of the latest operation.
NextCursor(cursor, first) ==
  IF Provider = "ALFA"
    THEN IF first > today THEN cursor ELSE IF FinalDay(first) = today THEN today - 1 ELSE FinalDay(first)
    ELSE Max({cursor} \cup {day[o] : o \in Shown(first)})

(***************************************************************************)
(* syncConnection.                                                         *)
(***************************************************************************)
Keep(r, rec) == run' = [run EXCEPT ![r] = rec]

\* A fault for mutation: a connection that failed once is never asked again.
FetchActive(r) ==
  LET first == FirstDay(conn.cursor, conn.from)
  IN /\ At(r, "idle") /\ conn.status = "ACTIVE"
     /\ Keep(r, [at |-> "ingest", todo |-> Shown(first), next |-> NextCursor(conn.cursor, first),
                 claimed |-> {}, twin |-> NoTwin, rewound |-> FALSE])
     /\ UNCHANGED <<bank, conn, line, txs, reset, counters, missed>>

\* The connection is read and the bank asked in one step: a later answer only
\* shows more.  rewound: the cursor was put back since (not in the code).
FetchStatement(r) ==
  LET first == FirstDay(conn.cursor, conn.from)
  IN /\ At(r, "idle") /\ conn.status # "DISABLED"
     /\ Keep(r, [at |-> "ingest", todo |-> Shown(first), next |-> NextCursor(conn.cursor, first),
                 claimed |-> {}, twin |-> NoTwin, rewound |-> FALSE])
     /\ UNCHANGED <<bank, conn, line, txs, reset, counters, missed>>

\* The next line, which need not be the first of what the bank sent: it sorts them.
Handled(j, o) == [j EXCEPT !.todo = @ \ {o}]
Twins(j) == Free \ j.claimed

\* ingestLine of a line that is loaded already.
IngestKnown(r, o) ==
  /\ At(r, "ingest") /\ o \in run[r].todo /\ o \in Stored
  /\ Keep(r, Handled(run[r], o))
  /\ UNCHANGED <<bank, conn, line, txs, reset, counters, missed>>

\* Nobody entered it by hand: a rule books it, or it goes to the inbox.
IngestNew(r, o) ==
  /\ At(r, "ingest") /\ o \in run[r].todo /\ o \notin Stored /\ Twins(run[r]) = {}
  /\ \/ line' = [line EXCEPT ![o] = [Unstored EXCEPT !.status = "NEW"]] /\ UNCHANGED txs
     \/ /\ Room
        /\ txs' = Append(txs, Entry("OTHER", FALSE))
        /\ line' = [line EXCEPT ![o] = [status |-> "BOOKED", tx |-> Len(txs) + 1, adopted |-> FALSE]]
  /\ Keep(r, Handled(run[r], o))
  /\ UNCHANGED <<bank, conn, reset, counters, missed>>

\* findManualTwin, and later adoptLine.  The unique index on the transaction
\* refuses an entry that another line has by then; the refusal is taken for a
\* line that is loaded, and the line is passed over.
FindTwin(r, o) ==
  /\ At(r, "ingest") /\ o \in run[r].todo /\ o \notin Stored
  /\ \E n \in Twins(run[r]) :
       Keep(r, [run[r] EXCEPT !.at = "adopt", !.claimed = @ \cup {n}, !.twin = <<o, n>>])
  /\ UNCHANGED <<bank, conn, line, txs, reset, counters, missed>>

AdoptLine(r) ==
  LET o == run[r].twin[1] n == run[r].twin[2]
      taken == Linked(n) \/ o \in Stored
  IN /\ At(r, "adopt")
     /\ line' = IF taken THEN line ELSE [line EXCEPT ![o] = [status |-> "BOOKED", tx |-> n, adopted |-> TRUE]]
     /\ missed' = IF taken /\ o \notin Stored THEN missed \cup {o} ELSE missed
     /\ Keep(r, [Handled(run[r], o) EXCEPT !.at = "ingest", !.twin = NoTwin])
     /\ UNCHANGED <<bank, conn, txs, reset, counters>>

\* The cursor and the status are written by id, whatever they are by now.
Finish(r) ==
  /\ At(r, "ingest") /\ run[r].todo = {}
  /\ conn' = [conn EXCEPT !.status = "ACTIVE", !.cursor = run[r].next]
  /\ missed' = IF run[r].rewound THEN missed \cup (Ops \ Stored) ELSE missed
  /\ Keep(r, NoRun)
  /\ UNCHANGED <<bank, line, txs, reset, counters>>

\* The bank or the database fails (after any of the lines), or the process dies.
FailSync(r) ==
  /\ ~At(r, "idle") /\ faults < MaxFaults
  /\ faults' = faults + 1
  /\ conn' = [conn EXCEPT !.status = "ERROR"]
  /\ Keep(r, NoRun)
  /\ UNCHANGED <<bank, line, txs, reset, commands, missed>>

Crash ==
  /\ faults < MaxFaults
  /\ faults' = faults + 1
  /\ run' = [r \in Runs |-> NoRun]
  /\ reset' = NotResetting
  /\ UNCHANGED <<bank, conn, line, txs, commands, missed>>

(***************************************************************************)
(* The owner.                                                              *)
(***************************************************************************)
Command == commands < MaxCommands /\ commands' = commands + 1
Rewind == run' = [r \in Runs |-> IF At(r, "idle") THEN NoRun ELSE [run[r] EXCEPT !.rewound = TRUE]]

SetStatus(status) ==
  /\ Command /\ conn.status # status
  /\ conn' = [conn EXCEPT !.status = status]
  /\ UNCHANGED <<bank, line, txs, run, reset, faults, missed>>

\* backfillFrom earlier than before resets the cursor.
MoveBackfill ==
  /\ Command /\ conn.from > 1
  /\ conn' = [conn EXCEPT !.from = 1, !.cursor = 0]
  /\ Rewind
  /\ UNCHANGED <<bank, line, txs, reset, faults, missed>>

\* resetStatement reads the lines ...
BeginReset ==
  /\ Command /\ reset = NotResetting /\ Stored # {}
  /\ reset' = line
  /\ UNCHANGED <<bank, conn, line, txs, run, faults, missed>>

\* ... keeps those whose transaction is not an ordinary one, ...
KindRead(o) == IF reset[o].tx = 0 THEN "none" ELSE txs[reset[o].tx].kind
Dropped == {o \in Ops : reset[o].status # "absent" /\ KindRead(o) \in {"none", "OTHER"}}

\* A fault for mutation: the lines go, their entries stay.
ResetLinesOnly ==
  /\ reset # NotResetting
  /\ line' = [o \in Ops |-> IF o \in Dropped THEN Unstored ELSE line[o]]
  /\ conn' = [conn EXCEPT !.cursor = 0, !.status = "ACTIVE"]
  /\ reset' = NotResetting
  /\ Rewind
  /\ UNCHANGED <<bank, txs, counters, missed>>

\* ... and drops the others with their transactions, by id.
Reset ==
  /\ reset # NotResetting
  /\ txs' = [n \in DOMAIN txs |-> IF \E o \in Dropped : reset[o].tx = n THEN [txs[n] EXCEPT !.live = FALSE] ELSE txs[n]]
  /\ line' = [o \in Ops |-> IF o \in Dropped THEN Unstored ELSE line[o]]
  /\ conn' = [conn EXCEPT !.cursor = 0, !.status = "ACTIVE"]
  /\ reset' = NotResetting
  /\ Rewind
  /\ UNCHANGED <<bank, counters, missed>>

Serve(r) ==
  \/ FetchStatement(r)
  \/ \E o \in Ops : IngestKnown(r, o) \/ IngestNew(r, o) \/ FindTwin(r, o)
  \/ AdoptLine(r)
  \/ Finish(r)

SyncNext ==
  \/ DayPasses
  \/ EnterByHand
  \/ \E o \in Ops : Post(o)
  \/ \E o \in Ops, kind \in {"OTHER", "ORDER_PAYMENT"} : Book(o, kind)
  \/ \E r \in Runs : Serve(r) \/ FailSync(r)
  \/ Crash
  \/ \E status \in {"ACTIVE", "DISABLED"} : SetStatus(status)
  \/ MoveBackfill
  \/ BeginReset
  \/ Reset

SyncSpec == SyncInit /\ [][SyncNext]_syncVars

\* The hourly run comes again and again, and what is under way goes on.
FairSyncSpec == SyncSpec /\ \A r \in Runs : WF_syncVars(Serve(r))

-----------------------------------------------------------------------------
Wanted(o) == day[o] > 0 /\ day[o] >= conn.from
Closed(o) == day[o] < FirstDay(conn.cursor, conn.from)

(***************************************************************************)
(* The cursor never leaves an operation behind: what no later              *)
(* synchronisation will ask for has its line, though operations appear     *)
(* late, runs overlap, fail and die.  (missed: a run that overwrote the    *)
(* cursor an owner had just put back, and an operation passed over because *)
(* its twin was taken in the meantime; see NothingMissed.)                 *)
(***************************************************************************)
NothingLeftBehind == \A o \in Ops \ missed : Wanted(o) /\ Closed(o) => o \in Stored

(***************************************************************************)
(* Every operation of the bank gets its line, while the connection is not  *)
(* switched off: the hourly run retries what failed ("failed ones every    *)
(* ERROR_RETRY_HOURS; a run that succeeds makes them ACTIVE again").       *)
(***************************************************************************)
Arrives ==
  \A o \in Ops : Wanted(o) ~> (o \in Stored \/ o \in missed \/ conn.status = "DISABLED")

\* What reset has read is still so: nothing it drops was booked meanwhile.
Undisturbed == \A o \in Dropped : reset[o].tx = line[o].tx

(***************************************************************************)
(* Reloading leaves no money without its line, which would come again and  *)
(* be booked again ("we would open the way to a second payment of the same *)
(* order"), as long as nobody books a line between its read and its        *)
(* deletion.                                                               *)
(***************************************************************************)
ReloadIsClean ==
  [][reset # NotResetting /\ reset' = NotResetting /\ line' # line /\ Undisturbed =>
       \A n \in DOMAIN txs : txs[n].live /\ ~txs[n].hand /\ Linked(n) =>
         (txs'[n].live => \E o \in Ops : line'[o].tx = n)]_syncVars

\* The same for every reloading.
ReloadIsAlwaysClean ==
  [][reset # NotResetting /\ reset' = NotResetting /\ line' # line =>
       \A n \in DOMAIN txs : txs[n].live /\ ~txs[n].hand /\ Linked(n) =>
         (txs'[n].live => \E o \in Ops : line'[o].tx = n)]_syncVars

(***************************************************************************)
(* "Operations entered by hand are not touched by the reset"               *)
(* (sync.integration.test.ts, integrations.service.ts).                    *)
(***************************************************************************)
HandSurvives == \A n \in DOMAIN txs : txs[n].hand => txs[n].live

\* The same as NothingLeftBehind for every operation.
NothingMissed == \A o \in Ops : Wanted(o) /\ Closed(o) => o \in Stored

(***************************************************************************)
(* "Connections the owner has switched off are not touched by the          *)
(* schedule" (sync.service.ts, syncAllActive).                             *)
(***************************************************************************)
OffStaysOff == [][conn.status = "DISABLED" /\ conn'.status # "DISABLED" => commands' # commands \/ reset # reset']_syncVars
=============================================================================

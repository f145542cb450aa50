---------------------------- MODULE HistoryStore ----------------------------
(***************************************************************************)
(* Request history (src/src/history/store): every request has a capture,   *)
(* which writes a Start and one Complete command.  Commands go through a   *)
(* bounded queue to one writer thread; a Complete that finds the queue     *)
(* full, or the writer gone, is applied by the request's own task instead  *)
(* and so overtakes whatever is still queued.  The rows live in SQLite:    *)
(* they survive a restart, the queue and the captures do not, and          *)
(* operators and the retention cleanup delete them at any time.            *)
(*                                                                         *)
(* Of a row, the fields the commands contend for are kept.  A request's    *)
(* inbound payload and its response weigh one byte each.  Which rows the   *)
(* cleanup evicts (the oldest beyond max_records, max_database_bytes or    *)
(* retention_days) is left open, and so is whether it is due.              *)
(***************************************************************************)
EXTENDS FiniteSets, Sequences, Integers

CONSTANTS
  Request,       \* request ids; a request begins at most once
  NoRequest,
  Parent,        \* the request a response_recovery recovers, or NoRequest
  QueueCapacity  \* history_queue_capacity

ASSUME HistoryAssumption ==
  /\ NoRequest \notin Request
  /\ Parent \in [Request -> Request \cup {NoRequest}]
  /\ \A r \in Request : Parent[r] # r
  /\ QueueCapacity \in Nat \ {0}

VARIABLES
  enabled,    \* settings.enabled
  available,  \* what is_available reports
  writer,     \* the writer thread is alive
  queue,      \* its sync_channel
  hand,       \* the commands (at most one) received but not yet applied
  capture,    \* how far the capture of a request has come
  record,     \* its CompletedRecord, once it has ended
  rows,       \* history_requests with their contents
  troubled    \* ghost: requests a failure, crash or deletion has touched

vars ==
  <<enabled, available, writer, queue, hand, capture, record, rows, troubled>>

Stage ==
  { "none", "off", "open",      \* not begun, not captured, capturing
    "queued", "direct",         \* its Complete is queued, or to be applied here
    "failing",                  \* its row is to be marked failed
    "ended", "lost" }

Ending == {"completed", "failed", "cancelled"}
Status == Ending \cup {"running", "interrupted"}

Command == [op : {"start", "complete"}, request : Request]
Start(r) == [op |-> "start", request |-> r]
Complete(r) == [op |-> "complete", request |-> r]

CompletedRecord ==
  [status : Ending, response : 0 .. 1, incomplete : BOOLEAN]

NoRow == [status |-> "absent"]

Row ==
  [ status     : Status,
    known      : BOOLEAN,  \* its columns are the Start's, parent and all
    inbound    : 0 .. 1,   \* contents of kind inbound_request
    response   : 0 .. 1,   \* contents of kind response
    recovered  : BOOLEAN,  \* finish_reason is "recovered"
    incomplete : BOOLEAN,  \* capture_incomplete
    bytes      : 0 .. 2 ]  \* stored_bytes

Init ==
  /\ enabled \in BOOLEAN /\ available = TRUE /\ writer = TRUE
  /\ queue = <<>> /\ hand = {}
  /\ capture = [r \in Request |-> "none"]
  /\ record = [r \in Request |->
                 [status |-> "cancelled", response |-> 0, incomplete |-> FALSE]]
  /\ rows = [r \in Request |-> NoRow]
  /\ troubled = {}

-----------------------------------------------------------------------------
(* The SQL transactions, as functions of the rows.                         *)

Stored(db) == {r \in Request : db[r] # NoRow}

Without(db, gone) == [r \in Request |-> IF r \in gone THEN NoRow ELSE db[r]]

\* Faulty: a late Start takes the row back to running.
InsertStartOverwriting(db, r) ==
  IF db[r] = NoRow
  THEN [db EXCEPT ![r] =
          [status |-> "running", known |-> TRUE, inbound |-> 1, response |-> 0,
           recovered |-> FALSE, incomplete |-> FALSE, bytes |-> 1]]
  ELSE [db EXCEPT ![r].status = "running", ![r].inbound = 1,
                  ![r].bytes = @ + 1]

\* insert_start: ON CONFLICT DO NOTHING, then only the inbound payload.
InsertStart(db, r) ==
  IF db[r] = NoRow
  THEN [db EXCEPT ![r] =
          [status |-> "running", known |-> TRUE, inbound |-> 1, response |-> 0,
           recovered |-> FALSE, incomplete |-> FALSE, bytes |-> 1]]
  ELSE [db EXCEPT ![r].inbound = @ + 1, ![r].bytes = @ + 1]

\* complete_record up to its UPDATE: a missing row is inserted with unknown
\* columns, all contents but the inbound payload are replaced.
Completed(db, r) ==
  LET c == record[r]
      missing == db[r] = NoRow
      inbound == IF missing THEN 0 ELSE db[r].inbound
  IN  [db EXCEPT ![r] =
         [status |-> c.status, known |-> IF missing THEN FALSE ELSE db[r].known,
          inbound |-> inbound, response |-> c.response, recovered |-> FALSE,
          incomplete |-> c.incomplete, bytes |-> inbound + c.response]]

\* Faulty: the recovered response is stored without being accounted for.
MergeRecoveryUncounted(db, r) ==
  LET p == Parent[r]
  IN  IF /\ db[r].known /\ p # NoRequest /\ db[p] # NoRow
         /\ record[r].status = "completed" /\ record[r].response = 1
      THEN [db EXCEPT ![p].status = "completed", ![p].recovered = TRUE,
                      ![p].response = 1]
      ELSE db

\* merge_recovery_into_parent: the row tells whether r recovers a parent.
MergeRecovery(db, r) ==
  LET p == Parent[r]
  IN  IF /\ db[r].known /\ p # NoRequest /\ db[p] # NoRow
         /\ record[r].status = "completed" /\ record[r].response = 1
      THEN [db EXCEPT ![p].status = "completed", ![p].recovered = TRUE,
                      ![p].response = 1, ![p].bytes = @ + 1 - db[p].response]
      ELSE db

CompleteRecord(db, r) == MergeRecovery(Completed(db, r), r)

-----------------------------------------------------------------------------
(* A request: begin, and the finish (or drop) of its capture.              *)

\* Faulty: the queue is not bounded.
CanSendAlways == writer

CanSend == writer /\ Len(queue) < QueueCapacity

\* try_send: a dead writer is noticed, a full queue is not.
Send(command) ==
  /\ queue' = IF CanSend THEN Append(queue, command) ELSE queue
  /\ available' = (available /\ writer)

\* Faulty: a Start the queue had no room for is forgotten.
BeginUnflagged(r) ==
  /\ capture[r] = "none"
  /\ Parent[r] # NoRequest => capture[Parent[r]] # "none"
  /\ IF enabled /\ available
     THEN capture' = [capture EXCEPT ![r] = "open"] /\ Send(Start(r))
     ELSE /\ capture' = [capture EXCEPT ![r] = "off"]
          /\ UNCHANGED <<queue, available>>
  /\ UNCHANGED <<enabled, writer, hand, record, rows, troubled>>

\* The recovery of a request begins once its client has seen the request's id.
Begin(r) ==
  /\ capture[r] = "none"
  /\ Parent[r] # NoRequest => capture[Parent[r]] # "none"
  /\ IF enabled /\ available
     THEN /\ capture' = [capture EXCEPT ![r] = "open"]
          /\ record' = [record EXCEPT ![r].incomplete = ~CanSend]
          /\ Send(Start(r))
     ELSE /\ capture' = [capture EXCEPT ![r] = "off"]
          /\ UNCHANGED <<record, queue, available>>
  /\ UNCHANGED <<enabled, writer, hand, rows, troubled>>

\* Faulty: a Complete the queue has no room for is dropped.
FinishQueueOnly(r, status, response) ==
  /\ capture[r] = "open"
  /\ record' = [record EXCEPT ![r].status = status, ![r].response = response]
  /\ capture' = [capture EXCEPT ![r] = "queued"]
  /\ Send(Complete(r))
  /\ UNCHANGED <<enabled, writer, hand, rows, troubled>>

\* finish, or the drop of a capture nobody finished: once, by the swap of
\* completed.
Finish(r, status, response) ==
  /\ capture[r] = "open"
  /\ record' = [record EXCEPT ![r].status = status, ![r].response = response]
  /\ capture' = [capture EXCEPT ![r] = IF CanSend THEN "queued" ELSE "direct"]
  /\ Send(Complete(r))
  /\ UNCHANGED <<enabled, writer, hand, rows, troubled>>

\* apply_completion_directly: the transaction, then the cleanup, under the
\* connection's lock; either may fail.
ApplyDirectly(r, stored, cleaned) ==
  /\ capture[r] = "direct"
  /\ capture' =
       [capture EXCEPT ![r] = IF stored /\ cleaned THEN "ended" ELSE "failing"]
  /\ IF stored
     THEN LET done == CompleteRecord(rows, r)
          IN  \E gone \in SUBSET Stored(done) :
                /\ cleaned \/ gone = {}
                /\ rows' = Without(done, gone)
                /\ troubled' = troubled \cup gone
     ELSE ~cleaned /\ troubled' = troubled \cup {r} /\ UNCHANGED rows
  /\ UNCHANGED <<enabled, available, writer, queue, hand, record>>

\* mark_running_row_failed.
MarkFailed(r, ok) ==
  /\ capture[r] = "failing"
  /\ capture' = [capture EXCEPT ![r] = "ended"]
  /\ rows' = IF ok /\ rows[r].status = "running"
             THEN [rows EXCEPT ![r].status = "failed", ![r].incomplete = TRUE]
             ELSE rows
  /\ UNCHANGED <<enabled, available, writer, queue, hand, record, troubled>>

-----------------------------------------------------------------------------
(* The writer thread.                                                      *)

Receive ==
  /\ writer /\ hand = {} /\ queue # <<>>
  /\ hand' = {Head(queue)}
  /\ queue' = Tail(queue)
  /\ UNCHANGED <<enabled, available, writer, capture, record, rows, troubled>>

WriteStart(r, ok) ==
  /\ hand = {Start(r)}
  /\ hand' = {}
  /\ IF ok THEN rows' = InsertStart(rows, r) /\ UNCHANGED troubled
           ELSE troubled' = troubled \cup {r} /\ UNCHANGED rows
  /\ UNCHANGED <<enabled, available, writer, queue, capture, record>>

\* A failure is logged, nothing else.
WriteComplete(r, ok) ==
  /\ hand = {Complete(r)}
  /\ hand' = {}
  /\ capture' = [capture EXCEPT ![r] = "ended"]
  /\ IF ok
     THEN LET done == CompleteRecord(rows, r)
          IN  \E gone \in SUBSET Stored(done) :
                /\ rows' = Without(done, gone)
                /\ troubled' = troubled \cup gone
     ELSE troubled' = troubled \cup {r} /\ UNCHANGED rows
  /\ UNCHANGED <<enabled, available, writer, queue, record>>

\* The thread panics: its transaction is rolled back, its channel is closed.
WriterDies ==
  /\ writer
  /\ writer' = FALSE /\ queue' = <<>> /\ hand' = {}
  /\ LET pending == {queue[i] : i \in DOMAIN queue} \cup hand
     IN  /\ troubled' = troubled \cup {c.request : c \in pending}
         /\ capture' = [r \in Request |->
                          IF Complete(r) \in pending THEN "lost" ELSE capture[r]]
  /\ UNCHANGED <<enabled, available, record, rows>>

-----------------------------------------------------------------------------
(* The dashboard, and a restart of the bridge.                             *)

\* Rows disappear together with their contents.
DropRows(gone) ==
  /\ rows' = Without(rows, gone)
  /\ troubled' = troubled \cup gone

\* delete: a row and those that name it as their parent.
Delete(r) ==
  /\ rows[r] # NoRow
  /\ DropRows({r} \cup {c \in Stored(rows) : rows[c].known /\ Parent[c] = r})
  /\ UNCHANGED <<enabled, available, writer, queue, hand, capture, record>>

\* purge: all rows, those of a status, or those before a time.
Purge(gone) ==
  /\ gone # {}
  /\ DropRows(gone)
  /\ UNCHANGED <<enabled, available, writer, queue, hand, capture, record>>

\* update_settings persists the switch and runs the cleanup.
UpdateSettings(on, gone) ==
  /\ enabled' = on
  /\ DropRows(gone)
  /\ UNCHANGED <<available, writer, queue, hand, capture, record>>

\* The process ends; prepare_database of the next one closes the rows it
\* left running and runs the cleanup.  Where it cannot, history stays off.
\* The settings are those persisted or configured meanwhile.
Restart(ok, gone) ==
  /\ available' = ok /\ writer' = ok
  /\ queue' = <<>> /\ hand' = {}
  /\ capture' = [r \in Request |->
                   IF capture[r] \in {"none", "off", "ended"} THEN capture[r]
                   ELSE "lost"]
  /\ LET closed == [r \in Request |->
                      IF rows[r].status = "running"
                      THEN [rows[r] EXCEPT !.status = "interrupted",
                                           !.incomplete = TRUE]
                      ELSE rows[r]]
     IN  rows' = IF ok THEN Without(closed, gone) ELSE rows
  /\ troubled' = troubled \cup gone \cup
                   {r \in Request : \/ capture[r] \in Stage \ {"none", "off", "ended"}
                                    \/ Start(r) \in hand
                                    \/ \E i \in DOMAIN queue : queue[i] = Start(r)}
  /\ enabled' \in BOOLEAN
  /\ UNCHANGED record

-----------------------------------------------------------------------------

Ends(r) ==
  \E status \in Ending, response \in 0 .. 1 : Finish(r, status, response)

Applies(r) == \E stored, cleaned \in BOOLEAN : ApplyDirectly(r, stored, cleaned)

Writes ==
  \E r \in Request, ok \in BOOLEAN : WriteStart(r, ok) \/ WriteComplete(r, ok)

Next ==
  \/ \E r \in Request :
       \/ Begin(r) \/ Ends(r) \/ Applies(r) \/ Delete(r)
       \/ \E ok \in BOOLEAN : MarkFailed(r, ok)
  \/ Receive \/ Writes \/ WriterDies
  \/ \E gone \in SUBSET Stored(rows) :
       \/ Purge(gone)
       \/ \E on \in BOOLEAN : UpdateSettings(on, gone)
       \/ \E ok \in BOOLEAN : Restart(ok, gone)

Spec == Init /\ [][Next]_vars

\* The writer thread is never kept from running; SQLite waits at most 5 s for
\* another connection; the drop of a capture finishes it.
Fairness ==
  /\ WF_vars(Receive)
  /\ WF_vars(Writes)
  /\ \A r \in Request : WF_vars(Applies(r))

FairSpec == Spec /\ Fairness

-----------------------------------------------------------------------------
(* Properties.                                                             *)

TypeOK ==
  /\ enabled \in BOOLEAN /\ available \in BOOLEAN /\ writer \in BOOLEAN
  /\ queue \in Seq(Command) /\ Len(queue) <= QueueCapacity
  /\ hand \subseteq Command /\ Cardinality(hand) <= 1
  /\ capture \in [Request -> Stage]
  /\ record \in [Request -> CompletedRecord]
  /\ rows \in [Request -> Row \cup {NoRow}]
  /\ troubled \subseteq Request

Pending(command) ==
  command \in hand \/ \E i \in DOMAIN queue : queue[i] = command

Terminal(r) == rows[r] # NoRow /\ rows[r].status # "running"

\* stored_bytes, which the byte cap is enforced on, is what the row's contents
\* weigh, whichever of Start, Complete and a recovery's merge came first.
BytesAccounted ==
  \A r \in Stored(rows) : rows[r].bytes = rows[r].inbound + rows[r].response

\* A row still running has a completion on its way, unless a failed write, a
\* crash or a deletion hit the request: no order of queued and direct commands
\* leaves one behind.
RunningRowWillEnd ==
  \A r \in Request \ troubled :
    rows[r].status = "running" => capture[r] \in {"open", "queued", "direct"}

\* A record that lacks the inbound payload says so, once its Start is settled:
\* a Start the full queue refused flags the record it will never be part of.
MissingInboundFlagged ==
  \A r \in Request \ troubled :
    Terminal(r) /\ ~Pending(Start(r)) =>
      rows[r].inbound = 1 \/ rows[r].incomplete

\* A late Start "keeps the row's terminal state intact" (apply_completion_
\* directly): nothing takes a row back to running.
TerminalStateKept ==
  [][\A r \in Request : Terminal(r) /\ rows'[r] # NoRow => Terminal(r)']_vars

\* "No completion is ever silently lost" (send_completion): a capture that has
\* ended becomes a terminal row, unless trouble hit the request meanwhile.
EveryCompletionRecorded ==
  \A r \in Request :
    capture[r] \in {"queued", "direct"} ~> Terminal(r) \/ r \in troubled

\* A completed recovery makes its parent "completed", with finish reason
\* "recovered" and the recovered response (REPO_WORKLOG.md:1056), once both are
\* recorded, nothing went wrong with either and no command was refused.
RecoveryMerged ==
  \A c \in Request \ troubled :
    LET p == Parent[c]
    IN  /\ p # NoRequest /\ p \notin troubled
        /\ capture[c] = "ended" /\ capture[p] = "ended"
        /\ ~record[c].incomplete /\ ~record[p].incomplete
        /\ record[c].status = "completed" /\ record[c].response = 1
        /\ ~Pending(Start(c)) /\ ~Pending(Start(p))
        => rows[p].status = "completed" /\ rows[p].recovered

=============================================================================
